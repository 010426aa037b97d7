----------------------- MODULE MutationDomains_proofs -----------------------
(***************************************************************************)
(* Proofs about MutationDomains: for any number of operations, rooms,      *)
(* folds, socket drops and frames in flight, the ledger of a first session *)
(* is well typed, never meets a confirmation it did not issue, and keeps   *)
(* every mid bound to the operation it was dealt to.                       *)
(*                                                                         *)
(* The three facts are parts of one inductive invariant: the type of a     *)
(* re-invoked operation is that of a ledger record, a record comes from an *)
(* envelope, and an envelope from a pending entry or a fold.               *)
(***************************************************************************)
EXTENDS MutationDomains, TLAPS

(* The mids dealt are exactly the ones below the counter, and an authority   *)
(* has recorded no other.                                                    *)
MidsDealt ==
  \A d \in Domain : nextMid[d] = Len(issued[d]) + 1 /\ Len(ledger[d]) <= Len(issued[d])

(* What the wire carries and what the authority recorded is bound. *)
QueueBound(q) == \A d \in Domain : \A i \in DOMAIN q[d] : Dealt(d, q[d][i].mid, q[d][i].op)
LedgerBound == \A d \in Domain : \A m \in DOMAIN ledger[d] : Dealt(d, m, ledger[d][m].op)
PendingBound == \A p \in pending : p.mid # Unsent => Dealt(p.domain, p.mid, p.op)

(* An open fold owns its pending entry, which has no mid yet and the same    *)
(* operation.                                                                *)
FoldsOpen ==
  /\ \A p \in pending : p.born < births
  /\ \A f \in folds : f.born < births
  /\ \A f, g \in folds : f.born = g.born => f = g
  /\ \A f \in folds : \A p \in pending : p.born = f.born => p.mid = Unsent /\ p.op = f.op

(* A frame on channel d speaks of mids its domain's authority has recorded. *)
Backed(d, f) ==
  /\ f.n <= Len(ledger[f.domain])
  /\ f.t # "fence" => f.domain = d
  /\ f.t = "outcome" => f.n >= 1
  /\ f.t = "fence" => f.domain \in Rooms

FramesBacked == \A d \in Domain : \A i \in DOMAIN down[d] : Backed(d, down[d][i])

FenceBacked ==
  \A f \in fence : f.n <= Len(ledger[f.room]) /\ f.todo \subseteq 1 .. Len(ledger[f.room])

FlushBacked == \A r \in Rooms : flushed[r] <= Len(ledger[r])

(* The inductive invariant. *)
IssuedInv ==
  /\ TypeOK
  /\ MidsDealt
  /\ QueueBound(up) /\ QueueBound(held) /\ LedgerBound /\ PendingBound
  /\ FoldsOpen
  /\ FramesBacked /\ FenceBacked /\ FlushBacked
  /\ NeverFaulted

(* It implies the properties. *)
LEMMA IssuedInvBinds == IssuedInv => TypeOK /\ NeverFaulted /\ MidBinding
  BY Zenon DEF IssuedInv, MidBinding, QueueBound, LedgerBound, PendingBound

-----------------------------------------------------------------------------
(* A fresh client and empty authorities satisfy the invariant.             *)
LEMMA IssuedInit == Init => IssuedInv
  <1> SUFFICES ASSUME Init PROVE IssuedInv
    BY Zenon
  <1> USE DEF Init, InitWith
  <1>1. TypeOK
    <2>1. /\ pending \in SUBSET Entry /\ births \in Nat /\ folds \in SUBSET Fold
          /\ nextMid \in [Domain -> Nat \ {0}] /\ dealSeq \in Nat
          /\ watermark \in [Domain -> Nat] /\ processed \in [Rooms -> SUBSET Nat]
      OBVIOUS
    <2>2. /\ call \in SUBSET [op: Op, domain: Domain]
          /\ fence \in SUBSET [room: Rooms, n: Nat, todo: SUBSET Nat]
          /\ hydrated \in SUBSET Domain /\ faulted \in BOOLEAN
      BY Zenon
    <2>3. awaiting \in [Domain -> BOOLEAN]
      BY Zenon
    <2>4. /\ held \in [Domain -> Seq(Envelope)] /\ up \in [Domain -> Seq(Envelope)]
          /\ down \in [Domain -> Seq(Frame)] /\ ledger \in [Domain -> Seq(Record)]
          /\ issued \in [Domain -> Seq(Op)] /\ reconnects \in Nat
      OBVIOUS
    <2>5. /\ told \in [Domain -> Nat] /\ flushed \in [Rooms -> Nat] /\ fenceSent \in [Rooms -> Nat]
      BY Zenon DEF Domain
    <2>6. /\ invoked \in SUBSET Op /\ superseded \in SUBSET Op /\ snapped \in SUBSET Op
      BY Zenon
    <2> QED
      BY <2>1, <2>2, <2>3, <2>4, <2>5, <2>6, Zenon DEF TypeOK
  <1>2. MidsDealt /\ QueueBound(up) /\ QueueBound(held) /\ LedgerBound /\ PendingBound
    BY DEF MidsDealt, QueueBound, LedgerBound, PendingBound
  <1>3. FoldsOpen /\ FramesBacked /\ FenceBacked /\ NeverFaulted
    BY DEF FoldsOpen, FramesBacked, FenceBacked, NeverFaulted
  <1>4. FlushBacked
    BY DEF FlushBacked, Domain
  <1> QED
    BY <1>1, <1>2, <1>3, <1>4, Zenon DEF IssuedInv

-----------------------------------------------------------------------------
(* Sequences, element by element. *)

(* The elements of a sequence with one more at its end.                    *)
LEMMA AppendElements ==
  ASSUME NEW S, NEW s \in Seq(S), NEW e \in S
  PROVE  /\ Append(s, e) \in Seq(S)
         /\ Len(Append(s, e)) = Len(s) + 1
         /\ \A i \in DOMAIN s : i \in DOMAIN Append(s, e) /\ Append(s, e)[i] = s[i]
         /\ Len(s) + 1 \in DOMAIN Append(s, e) /\ Append(s, e)[Len(s) + 1] = e
         /\ \A i \in DOMAIN Append(s, e) : i \in DOMAIN s \/ i = Len(s) + 1
  OBVIOUS

(* The elements of a sequence without its head.                            *)
LEMMA TailElements ==
  ASSUME NEW S, NEW s \in Seq(S), s # <<>>
  PROVE  /\ Tail(s) \in Seq(S)
         /\ 1 \in DOMAIN s /\ Head(s) = s[1] /\ Head(s) \in S
         /\ \A i \in DOMAIN Tail(s) : i + 1 \in DOMAIN s /\ Tail(s)[i] = s[i + 1]
  OBVIOUS

(* The elements of two sequences in a row.                                 *)
LEMMA ConcatElements ==
  ASSUME NEW S, NEW s \in Seq(S), NEW t \in Seq(S)
  PROVE  /\ s \o t \in Seq(S)
         /\ \A i \in DOMAIN (s \o t) :
              \/ i \in DOMAIN s /\ (s \o t)[i] = s[i]
              \/ i - Len(s) \in DOMAIN t /\ (s \o t)[i] = t[i - Len(s)]
  OBVIOUS

-----------------------------------------------------------------------------
(* Dealing and shipping. *)

IssuingOK ==
  /\ nextMid \in [Domain -> Nat \ {0}]
  /\ dealSeq \in Nat
  /\ issued \in [Domain -> Seq(Op)]
  /\ held \in [Domain -> Seq(Envelope)]
  /\ up \in [Domain -> Seq(Envelope)]

(* What was dealt stays dealt. *)
DealtStays == \A e \in Domain : \A m, o : Dealt(e, m, o) => Dealt(e, m, o)'

(* dealMid gives the next mid of a domain, and every older binding stays.  *)
LEMMA DealMidDeals ==
  ASSUME IssuingOK, MidsDealt, NEW d \in Domain, NEW op \in Op, DealMid(d, op), ledger' = ledger
  PROVE  /\ nextMid' \in [Domain -> Nat \ {0}] /\ dealSeq' \in Nat /\ issued' \in [Domain -> Seq(Op)]
         /\ nextMid' = [nextMid EXCEPT ![d] = @ + 1]
         /\ DealtStays
         /\ (\A m : m = nextMid[d] => Dealt(d, m, op)')
         /\ MidsDealt'
  <1> DEFINE longer == Append(issued[d], op)
  <1>1. /\ nextMid' = [nextMid EXCEPT ![d] = @ + 1]
        /\ issued' = [issued EXCEPT ![d] = longer]
        /\ dealSeq' \in Nat
    BY DEF DealMid, IssuingOK
  <1>2. /\ issued[d] \in Seq(Op) /\ longer \in Seq(Op) /\ Len(longer) = Len(issued[d]) + 1
        /\ \A i \in DOMAIN issued[d] : i \in DOMAIN longer /\ longer[i] = issued[d][i]
        /\ Len(issued[d]) + 1 \in DOMAIN longer /\ longer[Len(issued[d]) + 1] = op
    <2>1. issued[d] \in Seq(Op)
      BY Zenon DEF IssuingOK
    <2> QED
      BY <2>1, AppendElements
  <1>3. nextMid' \in [Domain -> Nat \ {0}] /\ issued' \in [Domain -> Seq(Op)]
    BY <1>1, <1>2 DEF IssuingOK
  <1>4. \A e \in Domain : issued'[e] = IF e = d THEN longer ELSE issued[e]
    BY <1>1, Zenon DEF IssuingOK
  <1>5. DealtStays
    BY <1>2, <1>4, Zenon DEF DealtStays, Dealt
  <1>6. nextMid[d] = Len(issued[d]) + 1 /\ issued'[d] = longer
    BY <1>4, Zenon DEF MidsDealt
  <1>7. (\A m : m = nextMid[d] => Dealt(d, m, op)')
    BY <1>2, <1>6 DEF Dealt
  <1>8. MidsDealt'
    <2> SUFFICES ASSUME NEW e \in Domain
                 PROVE  nextMid'[e] = Len(issued'[e]) + 1 /\ Len(ledger[e]) <= Len(issued'[e])
      BY Zenon DEF MidsDealt
    <2>1. nextMid[e] = Len(issued[e]) + 1 /\ Len(ledger[e]) <= Len(issued[e])
      BY Zenon DEF MidsDealt
    <2>2. CASE e = d
      BY <1>1, <1>2, <1>4, <2>1, <2>2 DEF IssuingOK
    <2>3. CASE e # d
      BY <1>1, <1>4, <2>1, <2>3, Zenon DEF IssuingOK
    <2> QED
      BY <2>2, <2>3, Zenon
  <1> QED
    BY <1>1, <1>3, <1>5, <1>7, <1>8, Zenon

(* A queue of envelopes that grows at the end, or not at all, stays bound. *)
LEMMA QueuesStayBound ==
  ASSUME NEW q \in [Domain -> Seq(Envelope)], NEW d \in Domain, NEW env \in Envelope,
         DealtStays, QueueBound(q),
         Dealt(d, env.mid, env.op)'
  PROVE  /\ [q EXCEPT ![d] = Append(@, env)] \in [Domain -> Seq(Envelope)]
         /\ \A e \in Domain : \A i \in DOMAIN [q EXCEPT ![d] = Append(@, env)][e] :
              Dealt(e, [q EXCEPT ![d] = Append(@, env)][e][i].mid,
                       [q EXCEPT ![d] = Append(@, env)][e][i].op)'
  <1> DEFINE longer == [q EXCEPT ![d] = Append(@, env)]
  <1>1. /\ q[d] \in Seq(Envelope) /\ Append(q[d], env) \in Seq(Envelope)
        /\ \A i \in DOMAIN q[d] : Append(q[d], env)[i] = q[d][i]
        /\ Append(q[d], env)[Len(q[d]) + 1] = env
        /\ \A i \in DOMAIN Append(q[d], env) : i \in DOMAIN q[d] \/ i = Len(q[d]) + 1
    BY AppendElements
  <1>2. longer \in [Domain -> Seq(Envelope)]
    BY <1>1, Zenon
  <1>3. ASSUME NEW e \in Domain, NEW i \in DOMAIN longer[e]
        PROVE  Dealt(e, longer[e][i].mid, longer[e][i].op)'
    <2>1. CASE e = d
      <3>1. longer[e] = Append(q[d], env)
        BY <2>1, Zenon
      <3>2. CASE i \in DOMAIN q[d]
        <4>1. longer[e][i] = q[d][i]
          BY <1>1, <3>1, <3>2, Zenon
        <4>2. Dealt(d, q[d][i].mid, q[d][i].op)
          BY <3>2, Zenon DEF QueueBound
        <4> QED
          BY <2>1, <4>1, <4>2, Zenon DEF DealtStays
      <3>3. CASE i = Len(q[d]) + 1
        <4>1. longer[e][i] = env
          BY <1>1, <3>1, <3>3, Zenon
        <4> QED
          BY <2>1, <4>1, Zenon
      <3>4. i \in DOMAIN Append(q[d], env)
        BY <1>3, <3>1, Zenon
      <3> QED
        BY <1>1, <3>2, <3>3, <3>4, Zenon
    <2>2. CASE e # d
      <3>1. longer[e] = q[e]
        BY <2>2, Zenon
      <3>2. Dealt(e, q[e][i].mid, q[e][i].op)
        BY <1>3, <3>1, Zenon DEF QueueBound
      <3> QED
        BY <3>1, <3>2, Zenon DEF DealtStays
    <2> QED
      BY <2>1, <2>2, Zenon
  <1> QED
    BY <1>2, <1>3, Zenon

(* Dealing a mid and pushing its envelope keeps the ledgers and the wire.  *)
LEMMA DealAndPushDeals ==
  ASSUME IssuedInv, NEW d \in Domain, NEW op \in Op, DealAndPush(d, op), ledger' = ledger
  PROVE  /\ IssuingOK' /\ MidsDealt' /\ QueueBound(up)' /\ QueueBound(held)'
         /\ DealtStays
         /\ nextMid[d] \in Nat \ {0} /\ \A m : m = nextMid[d] => Dealt(d, m, op)'
  <1> DEFINE env == [mid |-> nextMid[d], op |-> op]
  <1>1. IssuingOK /\ MidsDealt /\ QueueBound(up) /\ QueueBound(held)
    BY Zenon DEF IssuedInv, TypeOK, IssuingOK
  <1>2. /\ nextMid' \in [Domain -> Nat \ {0}] /\ dealSeq' \in Nat /\ issued' \in [Domain -> Seq(Op)]
        /\ DealtStays
        /\ \A m : m = nextMid[d] => Dealt(d, m, op)'
        /\ MidsDealt'
    BY <1>1, DealMidDeals, Zenon DEF DealAndPush
  <1>3. nextMid[d] \in Nat \ {0} /\ env \in Envelope
    BY <1>1, Zenon DEF IssuingOK, Envelope
  <1>4. ASSUME NEW q \in [Domain -> Seq(Envelope)], QueueBound(q), NEW longer,
               longer = [q EXCEPT ![d] = Append(@, env)]
        PROVE  /\ longer \in [Domain -> Seq(Envelope)]
               /\ \A e \in Domain : \A i \in DOMAIN longer[e] : Dealt(e, longer[e][i].mid, longer[e][i].op)'
    BY <1>2, <1>3, <1>4, QueuesStayBound, Zenon
  <1>5. ASSUME NEW q, QueueBound(q)
        PROVE  \A e \in Domain : \A i \in DOMAIN q[e] : Dealt(e, q[e][i].mid, q[e][i].op)'
    BY <1>2, <1>5, Zenon DEF QueueBound, DealtStays
  <1>6. CASE up' = [up EXCEPT ![d] = Append(@, env)] /\ held' = held
    <2>1. up' \in [Domain -> Seq(Envelope)] /\ QueueBound(up)'
      BY <1>1, <1>4, <1>6, Zenon DEF IssuingOK, QueueBound
    <2>2. held' \in [Domain -> Seq(Envelope)] /\ QueueBound(held)'
      BY <1>1, <1>5, <1>6, Zenon DEF IssuingOK, QueueBound
    <2> QED
      BY <1>2, <1>3, <2>1, <2>2, Zenon DEF IssuingOK
  <1>7. CASE held' = [held EXCEPT ![d] = Append(@, env)] /\ up' = up
    <2>1. held' \in [Domain -> Seq(Envelope)] /\ QueueBound(held)'
      BY <1>1, <1>4, <1>7, Zenon DEF IssuingOK, QueueBound
    <2>2. up' \in [Domain -> Seq(Envelope)] /\ QueueBound(up)'
      BY <1>1, <1>5, <1>7, Zenon DEF IssuingOK, QueueBound
    <2> QED
      BY <1>2, <1>3, <2>1, <2>2, Zenon DEF IssuingOK
  <1> QED
    BY <1>6, <1>7, Zenon DEF DealAndPush, PushMutation

-----------------------------------------------------------------------------
(* One lemma per action.  First, what a step keeps that touches neither the  *)
(* ledgers nor the frames.                                                   *)

(* Frames on the way stay backed by a ledger that is left alone.           *)
LEMMA FramesStay ==
  ASSUME IssuedInv, UNCHANGED <<ledger, down, fence, flushed, faulted>>
  PROVE  FramesBacked' /\ FenceBacked' /\ FlushBacked' /\ NeverFaulted'
  BY Zenon DEF IssuedInv, FramesBacked, Backed, FenceBacked, FlushBacked, NeverFaulted

(* A ledger entry bound before a deal is bound after it.                   *)
LEMMA LedgerStaysBound ==
  ASSUME LedgerBound, DealtStays, ledger' = ledger
  PROVE  LedgerBound'
  BY Zenon DEF LedgerBound, DealtStays

(* What is bound to an operation stays bound to it.                        *)
LEMMA BindingStays ==
  ASSUME IssuedInv, UNCHANGED <<nextMid, issued, ledger, up, held>>
  PROVE  MidsDealt' /\ QueueBound(up)' /\ QueueBound(held)' /\ LedgerBound'
  BY Zenon DEF IssuedInv, MidsDealt, QueueBound, LedgerBound, Dealt

(* The part of invokeWith before any mid is dealt keeps the invariant.     *)
LEMMA InvokeIssued ==
  ASSUME IssuedInv, NEW op \in Op, NEW d \in Domain, Invoke(op, d)
  PROVE  IssuedInv'
  <1>1. UNCHANGED <<pending, births, folds, nextMid, dealSeq, watermark, processed, fence,
                    hydrated, faulted, awaiting, held, up, down, reconnects, ledger, told,
                    flushed, fenceSent, issued, superseded, snapped>>
    BY Zenon DEF Invoke, wireVars, authVars
  <1>2. TypeOK'
    <2>1. call' = {[op |-> op, domain |-> d]} /\ invoked' = invoked \cup {op}
      BY Zenon DEF Invoke
    <2>2. call' \in SUBSET [op: Op, domain: Domain]
      BY <2>1
    <2>3. invoked' \in SUBSET Op
      BY <2>1, Zenon DEF IssuedInv, TypeOK
    <2> QED
      BY <1>1, <2>2, <2>3, Zenon DEF IssuedInv, TypeOK
  <1>3. PendingBound' /\ FoldsOpen'
    BY <1>1, Zenon DEF IssuedInv, PendingBound, FoldsOpen, Dealt
  <1> QED
    BY <1>1, <1>2, <1>3, FramesStay, BindingStays, Zenon DEF IssuedInv

(* flushFold keeps the invariant.                                          *)
LEMMA FlushFoldIssued ==
  ASSUME IssuedInv, NEW f \in folds, NEW d \in Routes[f.op], FlushFold(f, d),
         UNCHANGED <<births, watermark, processed, call, fence, hydrated, faulted,
                     awaiting, down, reconnects, authVars, invoked, superseded, snapped>>
  PROVE  IssuedInv'
  <1>1. f \in Fold /\ f.op \in Op /\ d \in Domain /\ UNCHANGED <<ledger, flushed>>
    BY ConstantsAssumption, Zenon DEF IssuedInv, TypeOK, Fold, authVars
  <1>2. /\ IssuingOK' /\ MidsDealt' /\ QueueBound(up)' /\ QueueBound(held)'
        /\ DealtStays
        /\ nextMid[d] \in Nat \ {0} /\ \A m : m = nextMid[d] => Dealt(d, m, f.op)'
    BY <1>1, DealAndPushDeals, Zenon DEF FlushFold
  <1>3. ASSUME NEW q \in pending'
        PROVE  /\ q \in Entry /\ q.born < births
               /\ q.mid # Unsent => Dealt(q.domain, q.mid, q.op)'
               /\ \A g \in folds \ {f} : q.born = g.born => q.mid = Unsent /\ q.op = g.op
    <2>1. PICK p \in pending : q = IF p.born = f.born
                 THEN [p EXCEPT !.mid = nextMid[d], !.seq = dealSeq + 1, !.domain = d]
                 ELSE p
      BY <1>3, Zenon DEF FlushFold
    <2>2. p \in Entry /\ p.born < births /\ (p.mid # Unsent => Dealt(p.domain, p.mid, p.op))
      BY Zenon DEF IssuedInv, TypeOK, FoldsOpen, PendingBound
    <2>3. p.born = f.born => p.op = f.op
      BY Zenon DEF IssuedInv, FoldsOpen
    <2>4. \A g \in folds \ {f} : g.born # f.born /\ (p.born = g.born => p.mid = Unsent /\ p.op = g.op)
      BY Zenon DEF IssuedInv, FoldsOpen
    <2>5. dealSeq \in Nat /\ nextMid[d] \in Nat
      BY <1>2, Zenon DEF IssuedInv, TypeOK
    <2>6. CASE p.born = f.born
      <3>1. q = [p EXCEPT !.mid = nextMid[d], !.seq = dealSeq + 1, !.domain = d]
        BY <2>1, <2>6, Zenon
      <3>2. nextMid[d] \in Nat /\ dealSeq + 1 \in Nat
        BY <2>5
      <3>3. q \in Entry /\ q.born = p.born /\ q.mid = nextMid[d] /\ q.domain = d /\ q.op = p.op
        <4>1. d \in Domain /\ p \in Entry
          BY <1>1, <2>2, Zenon
        <4> QED
          BY <3>1, <3>2, <4>1, Zenon DEF Entry
      <3>4. Dealt(q.domain, q.mid, q.op)'
        BY <1>2, <2>3, <2>6, <3>3, Zenon
      <3> QED
        BY <2>2, <2>4, <2>6, <3>3, <3>4, Zenon
    <2>7. CASE p.born # f.born
      <3>1. q = p
        BY <2>1, <2>7, Zenon
      <3>2. p.domain \in Domain
        BY <2>2, Zenon DEF Entry
      <3> QED
        BY <1>2, <2>2, <2>4, <3>1, <3>2, Zenon DEF DealtStays
    <2> QED
      BY <2>6, <2>7, Zenon
  <1>4. pending' \in SUBSET Entry /\ PendingBound' /\ FoldsOpen' /\ folds' \in SUBSET Fold
    <2>1. folds' = folds \ {f} /\ births' = births
      BY Zenon DEF FlushFold
    <2>2. pending' \in SUBSET Entry /\ PendingBound'
      BY <1>3, Zenon DEF PendingBound, Unsent
    <2>3. folds' \in SUBSET Fold
      BY <2>1, Zenon DEF IssuedInv, TypeOK
    <2>4. /\ \A g \in folds' : g.born < births'
          /\ \A g, h \in folds' : g.born = h.born => g = h
      BY <2>1, Zenon DEF IssuedInv, FoldsOpen
    <2>5. /\ \A p \in pending' : p.born < births'
          /\ \A g \in folds' : \A p \in pending' : p.born = g.born => p.mid = Unsent /\ p.op = g.op
      BY <1>3, <2>1, Zenon
    <2> QED
      BY <2>2, <2>3, <2>4, <2>5, Zenon DEF FoldsOpen, Unsent
  <1>5. TypeOK'
    BY <1>2, <1>4, Zenon DEF IssuedInv, TypeOK, IssuingOK, authVars
  <1>6. LedgerBound'
    BY <1>1, <1>2, LedgerStaysBound, Zenon DEF IssuedInv
  <1> QED
    BY <1>1, <1>2, <1>4, <1>5, <1>6, FramesStay, Zenon DEF IssuedInv

(* Finishing an invocation after the overlapping folds keeps it.           *)
LEMMA FinishInvokeIssued ==
  ASSUME IssuedInv, FinishInvoke
  PROVE  IssuedInv'
  <1>1. PICK c \in call :
          /\ pending' = pending \cup
               {[op |-> c.op, mid |-> nextMid[c.domain], seq |-> dealSeq + 1,
                 domain |-> c.domain, born |-> births]}
          /\ DealAndPush(c.domain, c.op)
    BY Zenon DEF FinishInvoke
  <1>2. /\ births' = births + 1 /\ call' = {}
        /\ UNCHANGED <<folds, watermark, processed, fence, hydrated, faulted, awaiting, down,
                       reconnects, ledger, told, flushed, fenceSent, invoked, superseded, snapped>>
    BY Zenon DEF FinishInvoke, authVars
  <1>3. /\ c.op \in Op /\ c.domain \in Domain /\ births \in Nat /\ dealSeq \in Nat
        /\ pending \in SUBSET Entry /\ folds \in SUBSET Fold
    BY Zenon DEF IssuedInv, TypeOK
  <1>4. /\ IssuingOK' /\ MidsDealt' /\ QueueBound(up)' /\ QueueBound(held)'
        /\ DealtStays
        /\ nextMid[c.domain] \in Nat \ {0}
        /\ \A m : m = nextMid[c.domain] => Dealt(c.domain, m, c.op)'
    BY <1>1, <1>2, <1>3, DealAndPushDeals, Zenon
  <1> DEFINE new == [op |-> c.op, mid |-> nextMid[c.domain], seq |-> dealSeq + 1,
                     domain |-> c.domain, born |-> births]
  <1>5. new \in Entry /\ new.domain = c.domain /\ new.mid = nextMid[c.domain] /\ new.op = c.op
    <2>1. nextMid[c.domain] \in Nat
      BY <1>4, Zenon
    <2>2. dealSeq + 1 \in Nat
      BY <1>3
    <2> QED
      BY <1>3, <2>1, <2>2, Zenon DEF Entry
  <1>6. PendingBound'
    <2> SUFFICES ASSUME NEW q \in pending', q.mid # Unsent PROVE Dealt(q.domain, q.mid, q.op)'
      BY Zenon DEF PendingBound
    <2>1. CASE q \in pending
      <3>1. q.domain \in Domain /\ Dealt(q.domain, q.mid, q.op)
        BY <1>3, <2>1, Zenon DEF IssuedInv, PendingBound, Entry
      <3> QED
        BY <1>4, <3>1, Zenon DEF DealtStays
    <2>2. CASE q = new
      BY <1>4, <1>5, <2>2, Zenon
    <2> QED
      BY <1>1, <2>1, <2>2, Zenon
  <1>7. FoldsOpen'
    <2>1. \A p \in pending : p.born \in Nat /\ p.born < births
      BY <1>3, Zenon DEF IssuedInv, FoldsOpen, Entry
    <2>2. \A f \in folds : f.born \in Nat /\ f.born < births
      BY <1>3, Zenon DEF IssuedInv, FoldsOpen, Fold
    <2> QED
      BY <1>1, <1>2, <1>3, <2>1, <2>2 DEF IssuedInv, FoldsOpen
  <1>8. pending' \in SUBSET Entry
    BY <1>1, <1>3, <1>5, Zenon
  <1>9. TypeOK'
    <2>1. births' \in Nat /\ call' \in SUBSET [op: Op, domain: Domain]
      BY <1>2, <1>3
    <2> QED
      BY <1>2, <1>4, <1>8, <2>1, Zenon DEF IssuedInv, TypeOK, IssuingOK
  <1>10. LedgerBound'
    BY <1>2, <1>4, LedgerStaysBound, Zenon DEF IssuedInv
  <1> QED
    BY <1>2, <1>4, <1>6, <1>7, <1>9, <1>10, FramesStay, Zenon DEF IssuedInv

(* invokeFolded, opening or overwriting a fold, keeps the invariant.       *)
LEMMA InvokeFoldedIssued ==
  ASSUME IssuedInv, NEW op \in Op, NEW d \in Domain, InvokeFolded(op, d)
  PROVE  IssuedInv'
  <1> DEFINE fresh == [op |-> op, mid |-> Unsent, seq |-> Unsent, domain |-> d, born |-> births]
             opened == [key |-> KeyOf[op], op |-> op, born |-> births]
             open == {f \in folds : f.key = KeyOf[op]}
  <1>1. /\ op \in Folded /\ KeyOf[op] \in Key /\ Folded \subseteq Op
        /\ pending \in SUBSET Entry /\ births \in Nat /\ folds \in SUBSET Fold
        /\ superseded \in SUBSET Op
    BY ConstantsAssumption, Zenon DEF InvokeFolded, IssuedInv, TypeOK
  <1>2. UNCHANGED <<nextMid, dealSeq, watermark, processed, call, fence, hydrated, faulted, awaiting,
                    held, up, down, reconnects, ledger, told, flushed, fenceSent, issued, snapped>>
    BY Zenon DEF InvokeFolded, wireVars, authVars
  <1>3. /\ \A p \in pending : p.born \in Nat /\ p.born < births
        /\ \A f \in folds : f.born \in Nat /\ f.born < births
    BY <1>1, Zenon DEF IssuedInv, FoldsOpen, Entry, Fold
  <1>4. ASSUME folds' = folds \cup {opened}, pending' = pending \cup {fresh},
               births' = births + 1, UNCHANGED superseded
        PROVE  /\ PendingBound' /\ FoldsOpen' /\ pending' \in SUBSET Entry /\ folds' \in SUBSET Fold
               /\ births' \in Nat /\ superseded' \in SUBSET Op
    <2>1. fresh \in Entry /\ opened \in Fold /\ fresh.mid = Unsent
      BY <1>1, Zenon DEF Entry, Fold, Unsent
    <2>2. PendingBound'
      BY <1>2, <1>4, <2>1, Zenon DEF IssuedInv, PendingBound, Dealt
    <2>3. FoldsOpen'
      BY <1>1, <1>3, <1>4, <2>1 DEF IssuedInv, FoldsOpen
    <2>4. /\ pending' \in SUBSET Entry /\ folds' \in SUBSET Fold /\ births' \in Nat
          /\ superseded' \in SUBSET Op
      BY <1>1, <1>4, <2>1
    <2> QED
      BY <2>2, <2>3, <2>4, Zenon
  <1>5. ASSUME NEW f \in open,
               folds' = (folds \ {f}) \cup {[f EXCEPT !.op = op]},
               pending' = {IF p.born = f.born THEN [p EXCEPT !.op = op, !.domain = d] ELSE p
                             : p \in pending},
               superseded' = superseded \cup {f.op},
               UNCHANGED births
        PROVE  /\ PendingBound' /\ FoldsOpen' /\ pending' \in SUBSET Entry /\ folds' \in SUBSET Fold
               /\ births' \in Nat /\ superseded' \in SUBSET Op
    <2> DEFINE over == [f EXCEPT !.op = op]
    <2>1. f \in Fold /\ over \in Fold /\ f.op \in Op /\ over.born = f.born /\ over.op = op
      BY <1>1, Zenon DEF Fold
    <2>2. ASSUME NEW q \in pending'
          PROVE  /\ q \in Entry /\ q.born < births
                 /\ q.mid # Unsent => Dealt(q.domain, q.mid, q.op)
                 /\ \A g \in folds' : q.born = g.born => q.mid = Unsent /\ q.op = g.op
      <3>1. PICK p \in pending : q = IF p.born = f.born THEN [p EXCEPT !.op = op, !.domain = d] ELSE p
        BY <1>5, <2>2, Zenon
      <3>2. /\ p \in Entry /\ p.born < births /\ (p.mid # Unsent => Dealt(p.domain, p.mid, p.op))
            /\ \A g \in folds : p.born = g.born => p.mid = Unsent /\ p.op = g.op
        BY Zenon DEF IssuedInv, TypeOK, FoldsOpen, PendingBound
      <3>3. \A g \in folds \ {f} : g.born # f.born
        BY <1>5, Zenon DEF IssuedInv, FoldsOpen
      <3>4. CASE p.born = f.born
        <4>1. p.mid = Unsent
          BY <1>5, <3>2, <3>4, Zenon
        <4>2. q = [p EXCEPT !.op = op, !.domain = d]
          BY <3>1, <3>4, Zenon
        <4>3. q \in Entry /\ q.born = p.born /\ q.mid = p.mid /\ q.op = op
          BY <1>1, <3>2, <4>2, Zenon DEF Entry
        <4> QED
          BY <1>5, <2>1, <3>2, <3>3, <3>4, <4>1, <4>3, Zenon
      <3>5. CASE p.born # f.born
        <4>1. q = p
          BY <3>1, <3>5, Zenon
        <4> QED
          BY <1>5, <2>1, <3>2, <3>5, <4>1, Zenon
      <3> QED
        BY <3>4, <3>5, Zenon
    <2>3. PendingBound'
      BY <1>2, <2>2, Zenon DEF PendingBound, Dealt
    <2>4. FoldsOpen'
      <3>1. \A g \in folds' : g.born < births
        BY <1>3, <1>5, <2>1, Zenon
      <3>2. \A g, h \in folds' : g.born = h.born => g = h
        <4>1. /\ \A g, h \in folds : g.born = h.born => g = h
              /\ \A g \in folds \ {f} : g.born # f.born
          BY <1>5, Zenon DEF IssuedInv, FoldsOpen
        <4> QED
          BY <1>5, <2>1, <4>1, Zenon
      <3> QED
        BY <1>5, <2>2, <3>1, <3>2, ZenonT(40) DEF FoldsOpen
    <2>5. pending' \in SUBSET Entry
      BY <2>2, Zenon
    <2>6. folds' \in SUBSET Fold /\ births' \in Nat /\ superseded' \in SUBSET Op
      BY <1>1, <1>5, <2>1, Zenon
    <2> QED
      BY <2>3, <2>4, <2>5, <2>6, Zenon
  <1>6. /\ PendingBound' /\ FoldsOpen' /\ pending' \in SUBSET Entry /\ folds' \in SUBSET Fold
        /\ births' \in Nat /\ superseded' \in SUBSET Op
    BY <1>4, <1>5, Zenon DEF InvokeFolded
  <1>7. invoked' \in SUBSET Op
    BY Zenon DEF InvokeFolded, IssuedInv, TypeOK
  <1>8. TypeOK'
    BY <1>2, <1>6, <1>7, Zenon DEF IssuedInv, TypeOK
  <1> QED
    BY <1>2, <1>6, <1>8, FramesStay, BindingStays, Zenon DEF IssuedInv

-----------------------------------------------------------------------------
(* Outcomes. *)

OutcomeOK ==
  /\ IssuingOK /\ processed \in [Rooms -> SUBSET Nat] /\ pending \in SUBSET Entry
  /\ call \in SUBSET [op: Op, domain: Domain] /\ snapped \in SUBSET Op
  /\ MidsDealt /\ QueueBound(up) /\ QueueBound(held) /\ LedgerBound /\ PendingBound /\ FoldsOpen

(* handleMutationOutcome keeps the invariant, re-invocation included.      *)
LEMMA OutcomeIssued ==
  ASSUME IssuedInv, NEW r \in Rooms, NEW m \in 1 .. Len(ledger[r]), HandleMutationOutcome(r, m),
         UNCHANGED <<births, folds, ledger>>
  PROVE  OutcomeOK'
  <1> DEFINE v == ledger[r][m]
             entries == {p \in pending : p.domain = r /\ p.mid = m}
             mark == [processed EXCEPT ![r] = @ \cup {m}]
  <1>1. r \in Domain /\ Daemon \in Domain /\ m \in Nat \ {0} /\ m \in DOMAIN ledger[r]
    BY DEF IssuedInv, TypeOK, Domain
  <1>2. v \in Record /\ v.op \in Op
    <2>1. ledger[r] \in Seq(Record)
      BY <1>1, Zenon DEF IssuedInv, TypeOK
    <2>2. v \in Record
      BY <1>1, <2>1
    <2> QED
      BY <2>2, Zenon DEF Record
  <1>3. mark \in [Rooms -> SUBSET Nat]
    BY <1>1, Zenon DEF IssuedInv, TypeOK
  <1>4. OutcomeOK
    BY Zenon DEF IssuedInv, TypeOK, IssuingOK, OutcomeOK
  <1>5. \/ /\ UNCHANGED <<pending, nextMid, dealSeq, issued, up, held>>
           /\ processed' = processed \/ processed' = mark
           /\ call' = call \/ call' = {[op |-> v.op, domain |-> Daemon]}
           /\ snapped' = snapped \/ snapped' = snapped \cup {v.op}
        \/ /\ processed' = mark
           /\ pending' = {IF p \in entries THEN Flip(p) ELSE p : p \in pending}
           /\ \E p \in entries : DealAndPush(Daemon, p.op)
           /\ UNCHANGED <<call, snapped>>
    BY Zenon DEF HandleMutationOutcome
  <1>6. CASE /\ UNCHANGED <<pending, nextMid, dealSeq, issued, up, held>>
             /\ processed' = processed \/ processed' = mark
             /\ call' = call \/ call' = {[op |-> v.op, domain |-> Daemon]}
             /\ snapped' = snapped \/ snapped' = snapped \cup {v.op}
    <2>1. processed' \in [Rooms -> SUBSET Nat] /\ snapped' \in SUBSET Op
      BY <1>2, <1>3, <1>4, <1>6, Zenon DEF OutcomeOK
    <2>2. call' \in SUBSET [op: Op, domain: Domain]
      BY <1>1, <1>2, <1>4, <1>6 DEF OutcomeOK
    <2>3. PendingBound' /\ FoldsOpen'
      BY <1>4, <1>6, Zenon DEF OutcomeOK, PendingBound, FoldsOpen, Dealt
    <2>4. IssuingOK' /\ pending' \in SUBSET Entry
      BY <1>4, <1>6, Zenon DEF OutcomeOK, IssuingOK
    <2> QED
      BY <1>6, <2>1, <2>2, <2>3, <2>4, BindingStays, Zenon DEF OutcomeOK
  <1>7. ASSUME processed' = mark,
               pending' = {IF p \in entries THEN Flip(p) ELSE p : p \in pending},
               NEW e \in entries, DealAndPush(Daemon, e.op),
               UNCHANGED <<call, snapped>>
        PROVE  OutcomeOK'
    <2>1. e \in Entry /\ e.op \in Op /\ e.mid = m /\ e.domain = r
      BY <1>4, Zenon DEF OutcomeOK, Entry
    <2>2. /\ IssuingOK' /\ MidsDealt' /\ QueueBound(up)' /\ QueueBound(held)'
          /\ DealtStays
          /\ nextMid[Daemon] \in Nat \ {0} /\ \A k : k = nextMid[Daemon] => Dealt(Daemon, k, e.op)'
      BY <1>1, <1>7, <2>1, DealAndPushDeals, Zenon
    <2>3. \A p \in entries : p.op = e.op /\ p.mid # Unsent
      BY <1>1, <1>4, <2>1, Zenon DEF OutcomeOK, PendingBound, Dealt, Unsent
    <2>4. ASSUME NEW q \in pending'
          PROVE  /\ q \in Entry /\ q.born < births
                 /\ q.mid # Unsent => Dealt(q.domain, q.mid, q.op)'
                 /\ \A f \in folds : q.born = f.born => q.mid = Unsent /\ q.op = f.op
      <3>1. PICK p \in pending : q = IF p \in entries THEN Flip(p) ELSE p
        BY <1>7, <2>4, Zenon
      <3>2. /\ p \in Entry /\ p.born < births /\ (p.mid # Unsent => Dealt(p.domain, p.mid, p.op))
            /\ p.domain \in Domain
            /\ \A f \in folds : p.born = f.born => p.mid = Unsent /\ p.op = f.op
        BY <1>4, Zenon DEF OutcomeOK, FoldsOpen, PendingBound, Entry
      <3>3. CASE p \in entries
        <4>1. q = [p EXCEPT !.domain = Daemon, !.mid = nextMid[Daemon]]
          BY <3>1, <3>3, Zenon DEF Flip
        <4>2. /\ q \in Entry /\ q.born = p.born /\ q.domain = Daemon /\ q.mid = nextMid[Daemon]
              /\ q.op = p.op
          BY <1>1, <2>2, <3>2, <4>1, Zenon DEF Entry
        <4>3. p.op = e.op /\ p.mid # Unsent
          BY <2>3, <3>3, Zenon
        <4> QED
          BY <2>2, <3>2, <4>2, <4>3, Zenon
      <3>4. CASE p \notin entries
        <4>1. q = p
          BY <3>1, <3>4, Zenon
        <4> QED
          BY <2>2, <3>2, <4>1, Zenon DEF DealtStays
      <3> QED
        BY <3>3, <3>4, Zenon
    <2>5. pending' \in SUBSET Entry /\ PendingBound'
      BY <2>4, Zenon DEF PendingBound
    <2>6. FoldsOpen'
      BY <1>4, <2>4, Zenon DEF OutcomeOK, FoldsOpen
    <2>7. LedgerBound'
      BY <1>4, <2>2, LedgerStaysBound, Zenon DEF OutcomeOK
    <2>8. call' \in SUBSET [op: Op, domain: Domain] /\ snapped' \in SUBSET Op
      BY <1>4, <1>7, Zenon DEF OutcomeOK
    <2> QED
      BY <1>3, <1>7, <2>2, <2>5, <2>6, <2>7, <2>8, Zenon DEF OutcomeOK
  <1> QED
    BY <1>5, <1>6, <1>7, Zenon

(* Taking a frame off the wire leaves the others covered.                  *)
LEMMA FrameTaken ==
  ASSUME IssuedInv, NEW d \in Domain, down[d] # <<>>, down' = [down EXCEPT ![d] = Tail(@)],
         ledger' = ledger
  PROVE  FramesBacked'
  <1>1. down \in [Domain -> Seq(Frame)] /\ down[d] \in Seq(Frame)
    BY Zenon DEF IssuedInv, TypeOK
  <1>2. \A i \in DOMAIN Tail(down[d]) : i + 1 \in DOMAIN down[d] /\ Tail(down[d])[i] = down[d][i + 1]
    BY <1>1, TailElements, Zenon
  <1>3. ASSUME NEW e \in Domain, NEW i \in DOMAIN down'[e]
        PROVE  Backed(e, down'[e][i])
    <2>1. CASE e = d
      <3>1. down'[e] = Tail(down[d])
        BY <1>1, <2>1, Zenon
      <3>2. i + 1 \in DOMAIN down[d] /\ down'[e][i] = down[d][i + 1]
        BY <1>2, <1>3, <3>1, Zenon
      <3> QED
        BY <2>1, <3>2, Zenon DEF IssuedInv, FramesBacked
    <2>2. CASE e # d
      <3>1. down'[e] = down[e]
        BY <1>1, <2>2, Zenon
      <3> QED
        BY <1>3, <3>1, Zenon DEF IssuedInv, FramesBacked
    <2> QED
      BY <2>1, <2>2, Zenon
  <1> QED
    BY <1>3, Zenon DEF FramesBacked, Backed

(* An outcome frame arriving keeps the invariant.                          *)
LEMMA DeliverOutcomeIssued ==
  ASSUME IssuedInv, NEW r \in Rooms, DeliverOutcome(r)
  PROVE  IssuedInv'
  <1> DEFINE f == Head(down[r])
  <1>1. r \in Domain /\ down[r] \in Seq(Frame) /\ down[r] # <<>> /\ f.t = "outcome"
    BY Zenon DEF IssuedInv, TypeOK, DeliverOutcome, Domain
  <1>2. /\ Tail(down[r]) \in Seq(Frame) /\ f \in Frame /\ 1 \in DOMAIN down[r] /\ f = down[r][1]
        /\ \A i \in DOMAIN Tail(down[r]) : i + 1 \in DOMAIN down[r] /\ Tail(down[r])[i] = down[r][i + 1]
    BY <1>1, TailElements, Zenon
  <1>3. /\ down' = [down EXCEPT ![r] = Tail(@)] /\ HandleMutationOutcome(r, f.n)
        /\ UNCHANGED <<births, folds, watermark, fence, hydrated, faulted, awaiting, reconnects,
                       ledger, told, flushed, fenceSent, invoked, superseded>>
    BY Zenon DEF DeliverOutcome, authVars
  <1>4. f.n \in 1 .. Len(ledger[r])
    <2>1. Backed(r, f)
      BY <1>1, <1>2, Zenon DEF IssuedInv, FramesBacked
    <2>2. f.domain = r /\ f.n >= 1 /\ f.n <= Len(ledger[r])
      BY <1>1, <2>1, Zenon DEF Backed
    <2>3. ledger[r] \in Seq(Record) /\ f.n \in Nat
      BY <1>1, <1>2, Zenon DEF IssuedInv, TypeOK, Frame
    <2> QED
      BY <2>2, <2>3
  <1>5. OutcomeOK'
    BY <1>3, <1>4, OutcomeIssued, Zenon
  <1>6. down' \in [Domain -> Seq(Frame)]
    BY <1>1, <1>2, <1>3, Zenon DEF IssuedInv, TypeOK
  <1>7. TypeOK'
    BY <1>3, <1>5, <1>6, Zenon DEF IssuedInv, TypeOK, OutcomeOK, IssuingOK
  <1>8. FramesBacked'
    BY <1>1, <1>3, FrameTaken, Zenon
  <1>9. FenceBacked' /\ FlushBacked' /\ NeverFaulted'
    BY <1>3, Zenon DEF IssuedInv, FenceBacked, FlushBacked, NeverFaulted
  <1> QED
    BY <1>5, <1>7, <1>8, <1>9, Zenon DEF IssuedInv, OutcomeOK

-----------------------------------------------------------------------------
(* Releases.  A confirmation never exceeds what was dealt, so foldConfirm    *)
(* neither throws nor adopts.                                                *)

ReleaseOK ==
  /\ watermark \in [Domain -> Nat] /\ pending \in SUBSET Entry /\ snapped \in SUBSET Op
  /\ PendingBound /\ FoldsOpen

(* foldConfirm with an issued watermark keeps the invariant.               *)
LEMMA ConfirmIssued ==
  ASSUME IssuedInv, NEW d \in Domain, NEW lmid \in Nat, lmid <= Len(ledger[d])
  PROVE  /\ ~ConfirmedAhead(d, lmid)
         /\ (FoldConfirm(d, lmid) /\ RetireAndReplay(watermark') /\ UNCHANGED <<births, folds>>)
              => ReleaseOK' /\ UNCHANGED <<nextMid, issued>>
  <1>1. lmid < nextMid[d] /\ nextMid[d] \in Nat
    <2>1. nextMid[d] \in Nat /\ ledger[d] \in Seq(Record) /\ issued[d] \in Seq(Op)
      BY Zenon DEF IssuedInv, TypeOK
    <2>2. nextMid[d] = Len(issued[d]) + 1 /\ Len(ledger[d]) <= Len(issued[d])
      BY Zenon DEF IssuedInv, MidsDealt
    <2> QED
      BY <2>1, <2>2
  <1>2. ~ConfirmedAhead(d, lmid)
    BY <1>1 DEF ConfirmedAhead
  <1>3. ASSUME FoldConfirm(d, lmid), RetireAndReplay(watermark'), UNCHANGED <<births, folds>>
        PROVE  ReleaseOK' /\ UNCHANGED <<nextMid, issued>>
    <2>1. UNCHANGED <<nextMid, issued>>
      BY <1>1, <1>3 DEF FoldConfirm
    <2>2. watermark' \in [Domain -> Nat]
      BY <1>3, Zenon DEF FoldConfirm, Larger, IssuedInv, TypeOK
    <2>3. pending' \subseteq pending
      BY <1>3, Zenon DEF RetireAndReplay
    <2>4. snapped' \in SUBSET Op
      <3>1. \A p \in pending : p.op \in Op
        BY Zenon DEF IssuedInv, TypeOK, Entry
      <3>2. snapped \in SUBSET Op
        BY Zenon DEF IssuedInv, TypeOK
      <3>3. PICK thrown \in SUBSET pending : snapped' = snapped \cup {p.op : p \in thrown}
        BY <1>3, Zenon DEF RetireAndReplay
      <3> QED
        BY <3>1, <3>2, <3>3, Zenon
    <2>5. pending' \in SUBSET Entry
      BY <2>3, Zenon DEF IssuedInv, TypeOK
    <2>6. PendingBound' /\ FoldsOpen'
      BY <1>3, <2>1, <2>3, Zenon DEF IssuedInv, PendingBound, FoldsOpen, Dealt
    <2> QED
      BY <2>1, <2>2, <2>4, <2>5, <2>6, Zenon DEF ReleaseOK
  <1> QED
    BY <1>2, <1>3, Zenon

(* A release arriving keeps the invariant.                                 *)
LEMMA DeliverReleaseIssued ==
  ASSUME IssuedInv, NEW d \in Domain, DeliverRelease(d)
  PROVE  IssuedInv'
  <1> DEFINE f == Head(down[d])
  <1>1. down[d] \in Seq(Frame) /\ down[d] # <<>> /\ f.t = "release"
    BY Zenon DEF IssuedInv, TypeOK, DeliverRelease
  <1>2. Tail(down[d]) \in Seq(Frame) /\ f \in Frame /\ 1 \in DOMAIN down[d] /\ f = down[d][1]
    BY <1>1, TailElements, Zenon
  <1>3. f.n \in Nat /\ f.n <= Len(ledger[d])
    <2>1. Backed(d, f)
      BY <1>2, Zenon DEF IssuedInv, FramesBacked
    <2> QED
      BY <1>1, <1>2, <2>1, Zenon DEF Backed, Frame
  <1>4. ~ConfirmedAhead(d, f.n)
    BY <1>3, ConfirmIssued, Zenon
  <1>5. /\ down' = [down EXCEPT ![d] = Tail(@)]
        /\ FoldConfirm(d, f.n) /\ RetireAndReplay(watermark')
        /\ hydrated' = hydrated \cup {d}
        /\ UNCHANGED <<faulted, births, folds, dealSeq, processed, call, fence, awaiting, held, up,
                       reconnects, ledger, told, flushed, fenceSent, invoked, superseded>>
    BY <1>4, Zenon DEF DeliverRelease, authVars
  <1>6. ReleaseOK' /\ UNCHANGED <<nextMid, issued>>
    BY <1>3, <1>5, ConfirmIssued, Zenon
  <1>7. down' \in [Domain -> Seq(Frame)] /\ hydrated' \in SUBSET Domain
    BY <1>2, <1>5, Zenon DEF IssuedInv, TypeOK
  <1>8. TypeOK'
    BY <1>5, <1>6, <1>7, Zenon DEF IssuedInv, TypeOK, ReleaseOK
  <1>9. FramesBacked'
    BY <1>1, <1>5, FrameTaken, Zenon
  <1>10. FenceBacked' /\ FlushBacked' /\ NeverFaulted'
    BY <1>5, Zenon DEF IssuedInv, FenceBacked, FlushBacked, NeverFaulted
  <1> QED
    BY <1>5, <1>6, <1>8, <1>9, <1>10, BindingStays, Zenon DEF IssuedInv, ReleaseOK

(* A fence row arriving keeps the invariant.                               *)
LEMMA DeliverFenceIssued ==
  ASSUME IssuedInv, DeliverFence
  PROVE  IssuedInv'
  <1> DEFINE f == Head(down[Daemon])
             folding == [room |-> f.domain, n |-> f.n, todo |-> OutcomeRows(f)]
  <1>1. Daemon \in Domain /\ down[Daemon] \in Seq(Frame) /\ down[Daemon] # <<>> /\ f.t = "fence"
    BY Zenon DEF IssuedInv, TypeOK, DeliverFence, Domain
  <1>2. /\ Tail(down[Daemon]) \in Seq(Frame) /\ f \in Frame /\ 1 \in DOMAIN down[Daemon]
        /\ f = down[Daemon][1]
    BY <1>1, TailElements, Zenon
  <1>3. f.domain \in Rooms /\ f.n \in Nat /\ f.from \in Nat /\ f.n <= Len(ledger[f.domain])
    <2>1. Backed(Daemon, f)
      BY <1>1, <1>2, Zenon DEF IssuedInv, FramesBacked
    <2> QED
      BY <1>1, <1>2, <2>1, Zenon DEF Backed, Frame
  <1>4. /\ down' = [down EXCEPT ![Daemon] = Tail(@)]
        /\ fence' = {folding}
        /\ UNCHANGED <<pending, births, folds, nextMid, dealSeq, watermark, processed, call,
                       hydrated, faulted, awaiting, held, up, reconnects, ledger, told, flushed,
                       fenceSent, issued, invoked, superseded, snapped>>
    BY Zenon DEF DeliverFence, authVars, histVars
  <1>5. Len(ledger[f.domain]) \in Nat
    BY <1>3 DEF IssuedInv, TypeOK, Domain
  <1>6. OutcomeRows(f) \subseteq 1 .. Len(ledger[f.domain])
    BY <1>3, <1>5 DEF OutcomeRows
  <1>7. fence' \in SUBSET [room: Rooms, n: Nat, todo: SUBSET Nat] /\ FenceBacked'
    BY <1>3, <1>4, <1>5, <1>6 DEF FenceBacked
  <1>8. down' \in [Domain -> Seq(Frame)]
    BY <1>2, <1>4, Zenon DEF IssuedInv, TypeOK
  <1>9. TypeOK'
    BY <1>4, <1>7, <1>8, Zenon DEF IssuedInv, TypeOK
  <1>10. FramesBacked'
    BY <1>1, <1>4, FrameTaken, Zenon
  <1>11. FlushBacked' /\ NeverFaulted' /\ PendingBound' /\ FoldsOpen'
    BY <1>4, Zenon DEF IssuedInv, FlushBacked, NeverFaulted, PendingBound, FoldsOpen, Dealt
  <1> QED
    BY <1>4, <1>7, <1>9, <1>10, <1>11, BindingStays, Zenon DEF IssuedInv

(* Folding a durable outcome row keeps the invariant.                      *)
LEMMA FoldOutcomeRowIssued ==
  ASSUME IssuedInv, FoldOutcomeRow
  PROVE  IssuedInv'
  <1>0. PICK f \in fence : \E m \in f.todo :
          /\ fence' = {[f EXCEPT !.todo = @ \ {m}]}
          /\ HandleMutationOutcome(f.room, m)
    BY Zenon DEF FoldOutcomeRow
  <1>1. PICK m \in f.todo :
          /\ fence' = {[f EXCEPT !.todo = @ \ {m}]}
          /\ HandleMutationOutcome(f.room, m)
    BY <1>0, Zenon
  <1>2. UNCHANGED <<births, folds, watermark, hydrated, faulted, awaiting, down, reconnects,
                    ledger, told, flushed, fenceSent, invoked, superseded>>
    BY Zenon DEF FoldOutcomeRow, authVars
  <1>3. /\ f \in [room: Rooms, n: Nat, todo: SUBSET Nat]
        /\ f.n <= Len(ledger[f.room]) /\ f.todo \subseteq 1 .. Len(ledger[f.room])
    BY Zenon DEF IssuedInv, TypeOK, FenceBacked
  <1>4. OutcomeOK'
    <2>1. f.room \in Rooms /\ m \in 1 .. Len(ledger[f.room])
      BY <1>3, Zenon
    <2> QED
      BY <1>1, <1>2, <2>1, OutcomeIssued, Zenon
  <1>5. fence' \in SUBSET [room: Rooms, n: Nat, todo: SUBSET Nat] /\ FenceBacked'
    BY <1>1, <1>2, <1>3, Zenon DEF FenceBacked
  <1>6. TypeOK'
    BY <1>2, <1>4, <1>5, Zenon DEF IssuedInv, TypeOK, OutcomeOK, IssuingOK
  <1>7. FramesBacked' /\ FlushBacked' /\ NeverFaulted'
    BY <1>2 DEF IssuedInv, FramesBacked, Backed, FlushBacked, NeverFaulted
  <1> QED
    BY <1>4, <1>5, <1>6, <1>7, Zenon DEF IssuedInv, OutcomeOK

(* Folding a room ledger row keeps the invariant.                          *)
LEMMA FoldRoomLedgerIssued ==
  ASSUME IssuedInv, FoldRoomLedger
  PROVE  IssuedInv'
  <1>1. PICK f \in fence :
          IF ConfirmedAhead(f.room, f.n)
            THEN faulted' = TRUE
            ELSE FoldConfirm(f.room, f.n) /\ RetireAndReplay(watermark') /\ UNCHANGED faulted
    BY Zenon DEF FoldRoomLedger
  <1>2. f.room \in Domain /\ f.n \in Nat /\ f.n <= Len(ledger[f.room])
    BY Zenon DEF IssuedInv, TypeOK, FenceBacked, Domain
  <1>3. FoldConfirm(f.room, f.n) /\ RetireAndReplay(watermark') /\ UNCHANGED faulted
    BY <1>1, <1>2, ConfirmIssued, Zenon
  <1>4. /\ fence' = {}
        /\ UNCHANGED <<births, folds, dealSeq, processed, call, hydrated, awaiting, held, up, down,
                       reconnects, ledger, told, flushed, fenceSent, invoked, superseded>>
    BY Zenon DEF FoldRoomLedger, wireVars, authVars
  <1>5. ReleaseOK' /\ UNCHANGED <<nextMid, issued>>
    BY <1>2, <1>3, <1>4, ConfirmIssued, Zenon
  <1>6. TypeOK'
    BY <1>3, <1>4, <1>5, Zenon DEF IssuedInv, TypeOK, ReleaseOK
  <1>7. FramesBacked' /\ FenceBacked' /\ FlushBacked' /\ NeverFaulted'
    BY <1>3, <1>4, Zenon DEF IssuedInv, FramesBacked, Backed, FenceBacked, FlushBacked, NeverFaulted
  <1> QED
    BY <1>4, <1>5, <1>6, <1>7, BindingStays, Zenon DEF IssuedInv, ReleaseOK

-----------------------------------------------------------------------------
(* The socket: what is re-sent is pending, so it is bound. *)

(* What resendPending puts on the wire is bound as it was pending.         *)
LEMMA ResendBound ==
  ASSUME IssuedInv, NEW d \in Domain, NEW s \in ResendPending(d)
  PROVE  s \in Seq(Envelope) /\ \A i \in DOMAIN s : Dealt(d, s[i].mid, s[i].op)
  <1>1. PICK n \in 0 .. nextMid[d] - 1 : s \in [1..n -> Unconfirmed(d)]
    BY Zenon DEF ResendPending
  <1>2. n \in Nat
    BY <1>1 DEF IssuedInv, TypeOK
  <1>3. ASSUME NEW e \in Unconfirmed(d)
        PROVE  e \in Envelope /\ Dealt(d, e.mid, e.op)
    <2>1. PICK p \in pending : p.domain = d /\ p.mid # Unsent /\ e = [mid |-> p.mid, op |-> p.op]
      BY <1>3, Zenon DEF Unconfirmed
    <2>2. p \in Entry /\ Dealt(p.domain, p.mid, p.op)
      BY <2>1, Zenon DEF IssuedInv, TypeOK, PendingBound
    <2> QED
      BY <2>1, <2>2, Zenon DEF Entry, Envelope
  <1> QED
    BY <1>1, <1>2, <1>3

(* Dropping and resuming a connection keeps the invariant.                 *)
LEMMA ReconnectIssued ==
  ASSUME IssuedInv, NEW d \in Domain, Reconnect(d)
  PROVE  IssuedInv'
  <1>1. PICK s \in ResendPending(d) :
          /\ up' = [up EXCEPT ![d] = @ \o s] \/ up' = [up EXCEPT ![d] = <<>>] \/ up' = [up EXCEPT ![d] = s]
          /\ held' = [held EXCEPT ![d] = <<>>] \/ held' = [held EXCEPT ![d] = s]
    BY Zenon DEF Reconnect
  <1>2. /\ reconnects' = reconnects + 1
        /\ awaiting' = [awaiting EXCEPT ![d] = d \in Leased]
        /\ down' = [down EXCEPT ![d] = <<>>]
        /\ told' = [told EXCEPT ![d] = 0]
        /\ fenceSent' = IF d = Daemon THEN [r \in Rooms |-> 0] ELSE fenceSent
        /\ UNCHANGED <<pending, births, folds, nextMid, dealSeq, watermark, processed,
                       call, fence, hydrated, faulted, ledger, flushed, issued, invoked,
                       superseded, snapped>>
    BY Zenon DEF Reconnect, clientVars, histVars
  <1>3. s \in Seq(Envelope) /\ \A i \in DOMAIN s : Dealt(d, s[i].mid, s[i].op)
    BY ResendBound, Zenon
  <1>4. /\ up \in [Domain -> Seq(Envelope)] /\ held \in [Domain -> Seq(Envelope)]
        /\ down \in [Domain -> Seq(Frame)] /\ QueueBound(up) /\ QueueBound(held) /\ up[d] \in Seq(Envelope)
    BY Zenon DEF IssuedInv, TypeOK
  <1>5. /\ up[d] \o s \in Seq(Envelope)
        /\ \A i \in DOMAIN (up[d] \o s) : Dealt(d, (up[d] \o s)[i].mid, (up[d] \o s)[i].op)
    <2>1. /\ up[d] \o s \in Seq(Envelope)
          /\ \A i \in DOMAIN (up[d] \o s) :
               \/ i \in DOMAIN up[d] /\ (up[d] \o s)[i] = up[d][i]
               \/ i - Len(up[d]) \in DOMAIN s /\ (up[d] \o s)[i] = s[i - Len(up[d])]
      BY <1>3, <1>4, ConcatElements, Zenon
    <2>2. \A i \in DOMAIN up[d] : Dealt(d, up[d][i].mid, up[d][i].op)
      BY <1>4, Zenon DEF QueueBound
    <2> QED
      BY <1>3, <2>1, <2>2, Zenon
  <1>6. ASSUME NEW q \in [Domain -> Seq(Envelope)], QueueBound(q), NEW t \in Seq(Envelope),
               \A i \in DOMAIN t : Dealt(d, t[i].mid, t[i].op)
        PROVE  [q EXCEPT ![d] = t] \in [Domain -> Seq(Envelope)] /\ QueueBound([q EXCEPT ![d] = t])
    BY <1>6, Zenon DEF QueueBound
  <1>7. <<>> \in Seq(Envelope) /\ \A i \in DOMAIN <<>> : Dealt(d, <<>>[i].mid, <<>>[i].op)
    OBVIOUS
  <1>8. up' \in [Domain -> Seq(Envelope)] /\ QueueBound(up')
    <2>1. CASE up' = [up EXCEPT ![d] = @ \o s]
      BY <1>4, <1>5, <1>6, <2>1, Zenon
    <2>2. CASE up' = [up EXCEPT ![d] = <<>>]
      BY <1>4, <1>6, <1>7, <2>2, Zenon
    <2>3. CASE up' = [up EXCEPT ![d] = s]
      BY <1>3, <1>4, <1>6, <2>3, Zenon
    <2> QED
      BY <1>1, <2>1, <2>2, <2>3, Zenon
  <1>9. held' \in [Domain -> Seq(Envelope)] /\ QueueBound(held')
    <2>1. CASE held' = [held EXCEPT ![d] = <<>>]
      BY <1>4, <1>6, <1>7, <2>1, Zenon
    <2>2. CASE held' = [held EXCEPT ![d] = s]
      BY <1>3, <1>4, <1>6, <2>2, Zenon
    <2> QED
      BY <1>1, <2>1, <2>2, Zenon
  <1>10. QueueBound(up)' /\ QueueBound(held)'
    BY <1>2, <1>8, <1>9, Zenon DEF QueueBound, Dealt
  <1>11. awaiting' \in [Domain -> BOOLEAN]
    BY <1>2 DEF IssuedInv, TypeOK
  <1>12. /\ reconnects' \in Nat /\ told' \in [Domain -> Nat] /\ fenceSent' \in [Rooms -> Nat]
         /\ down' \in [Domain -> Seq(Frame)]
    BY <1>2 DEF IssuedInv, TypeOK
  <1>13. TypeOK'
    BY <1>2, <1>8, <1>9, <1>11, <1>12, Zenon DEF IssuedInv, TypeOK
  <1>14. FramesBacked'
    BY <1>2, <1>4 DEF IssuedInv, FramesBacked, Backed
  <1>15. MidsDealt' /\ LedgerBound' /\ PendingBound' /\ FoldsOpen'
    BY <1>2 DEF IssuedInv, MidsDealt, LedgerBound, PendingBound, FoldsOpen, Dealt
  <1>16. FenceBacked' /\ FlushBacked' /\ NeverFaulted'
    BY <1>2, Zenon DEF IssuedInv, FenceBacked, FlushBacked, NeverFaulted
  <1> QED
    BY <1>10, <1>13, <1>14, <1>15, <1>16, Zenon DEF IssuedInv

(* The first authenticated hello and the held envelopes it flushes keep it. *)
LEMMA AuthedHelloIssued ==
  ASSUME IssuedInv, NEW d \in Domain, AuthedHello(d)
  PROVE  IssuedInv'
  <1>1. /\ awaiting' = [awaiting EXCEPT ![d] = FALSE]
        /\ up' = [up EXCEPT ![d] = @ \o held[d]]
        /\ held' = [held EXCEPT ![d] = <<>>]
        /\ UNCHANGED <<pending, births, folds, nextMid, dealSeq, watermark, processed,
                       call, fence, hydrated, faulted, down, reconnects, ledger, told, flushed,
                       fenceSent, issued, invoked, superseded, snapped>>
    BY Zenon DEF AuthedHello, clientVars, authVars, histVars
  <1>2. /\ up \in [Domain -> Seq(Envelope)] /\ held \in [Domain -> Seq(Envelope)]
        /\ QueueBound(up) /\ QueueBound(held) /\ up[d] \in Seq(Envelope) /\ held[d] \in Seq(Envelope)
    BY Zenon DEF IssuedInv, TypeOK
  <1>3. /\ up[d] \o held[d] \in Seq(Envelope)
        /\ \A i \in DOMAIN (up[d] \o held[d]) :
             \/ i \in DOMAIN up[d] /\ (up[d] \o held[d])[i] = up[d][i]
             \/ i - Len(up[d]) \in DOMAIN held[d] /\ (up[d] \o held[d])[i] = held[d][i - Len(up[d])]
    BY <1>2, ConcatElements, Zenon
  <1>4. \A i \in DOMAIN (up[d] \o held[d]) :
          Dealt(d, (up[d] \o held[d])[i].mid, (up[d] \o held[d])[i].op)
    BY <1>2, <1>3, Zenon DEF QueueBound
  <1>5. up' \in [Domain -> Seq(Envelope)] /\ held' \in [Domain -> Seq(Envelope)]
    BY <1>1, <1>2, <1>3
  <1>6. QueueBound(up') /\ QueueBound(held')
    BY <1>1, <1>2, <1>4 DEF QueueBound
  <1>7. QueueBound(up)' /\ QueueBound(held)'
    BY <1>1, <1>6, Zenon DEF QueueBound, Dealt
  <1>8. awaiting' \in [Domain -> BOOLEAN]
    BY <1>1, Zenon DEF IssuedInv, TypeOK
  <1>9. TypeOK'
    BY <1>1, <1>5, <1>8, Zenon DEF IssuedInv, TypeOK
  <1>10. MidsDealt' /\ LedgerBound' /\ PendingBound' /\ FoldsOpen'
    BY <1>1, Zenon DEF IssuedInv, MidsDealt, LedgerBound, PendingBound, FoldsOpen, Dealt
  <1> QED
    BY <1>1, <1>7, <1>9, <1>10, FramesStay, Zenon DEF IssuedInv

-----------------------------------------------------------------------------
(* The authorities. *)

(* A frame backed by its ledger may join the wire.                         *)
LEMMA FrameSent ==
  ASSUME IssuedInv, NEW d \in Domain, NEW f \in Frame,
         down' = [down EXCEPT ![d] = Append(@, f)], Backed(d, f)',
         \A e \in Domain : Len(ledger[e]) <= Len(ledger'[e]) /\ Len(ledger'[e]) \in Nat
  PROVE  FramesBacked' /\ down' \in [Domain -> Seq(Frame)]
  <1>1. down \in [Domain -> Seq(Frame)] /\ down[d] \in Seq(Frame)
    BY Zenon DEF IssuedInv, TypeOK
  <1>2. /\ Append(down[d], f) \in Seq(Frame)
        /\ \A i \in DOMAIN down[d] : Append(down[d], f)[i] = down[d][i]
        /\ Append(down[d], f)[Len(down[d]) + 1] = f
        /\ \A i \in DOMAIN Append(down[d], f) : i \in DOMAIN down[d] \/ i = Len(down[d]) + 1
    BY <1>1, AppendElements
  <1>3. ASSUME NEW e \in Domain, NEW i \in DOMAIN down[e]
        PROVE  Backed(e, down[e][i]) /\ down[e][i] \in Frame
    BY <1>1 DEF IssuedInv, FramesBacked
  <1>4. ASSUME NEW e \in Domain, NEW g \in Frame, Backed(e, g)
        PROVE  Backed(e, g)'
    <2>1. g.domain \in Domain /\ g.n \in Nat
      BY Zenon DEF Frame
    <2>2. ledger[g.domain] \in Seq(Record)
      BY <2>1, Zenon DEF IssuedInv, TypeOK
    <2> QED
      BY <1>4, <2>1, <2>2 DEF Backed
  <1>5. ASSUME NEW e \in Domain, NEW i \in DOMAIN down'[e]
        PROVE  Backed(e, down[e][i])'
    <2>1. CASE e = d
      <3>1. down'[e] = Append(down[d], f)
        BY <1>1, <2>1, Zenon
      <3>2. i \in DOMAIN Append(down[d], f)
        BY <1>5, <3>1, Zenon
      <3>3. CASE i \in DOMAIN down[d]
        <4>1. down'[e][i] = down[d][i]
          BY <1>2, <3>1, <3>3, Zenon
        <4> QED
          BY <1>3, <1>4, <2>1, <3>3, <4>1, SMTT(30) DEF Backed
      <3>4. CASE i = Len(down[d]) + 1
        <4>1. down'[e][i] = f
          BY <1>2, <3>1, <3>4, Zenon
        <4> QED
          BY <2>1, <4>1, Zenon DEF Backed
      <3> QED
        BY <1>2, <3>2, <3>3, <3>4, Zenon
    <2>2. CASE e # d
      <3>1. down'[e] = down[e]
        BY <1>1, <2>2, Zenon
      <3> QED
        BY <1>3, <1>4, <1>5, <3>1 DEF Backed
    <2> QED
      BY <2>1, <2>2, Zenon
  <1>6. down' \in [Domain -> Seq(Frame)]
    BY <1>1, <1>2, Zenon
  <1> QED
    BY <1>5, <1>6, Zenon DEF FramesBacked

(* An authority receiving an envelope keeps the invariant.                 *)
LEMMA ReceiveIssued ==
  ASSUME IssuedInv, NEW d \in Domain, Receive(d)
  PROVE  IssuedInv'
  <1> DEFINE env == Head(up[d])
             frame == OutcomeFrame(d, env.mid)
  <1>1. /\ up[d] # <<>> /\ up' = [up EXCEPT ![d] = Tail(@)]
        /\ UNCHANGED <<pending, births, folds, nextMid, dealSeq, watermark, processed,
                       call, fence, hydrated, faulted, awaiting, held, reconnects, told, flushed,
                       fenceSent, issued, invoked, superseded, snapped>>
    BY Zenon DEF Receive, clientVars, histVars
  <1>2. /\ up \in [Domain -> Seq(Envelope)] /\ up[d] \in Seq(Envelope) /\ QueueBound(up)
        /\ ledger \in [Domain -> Seq(Record)] /\ ledger[d] \in Seq(Record) /\ issued[d] \in Seq(Op)
        /\ down \in [Domain -> Seq(Frame)]
    BY Zenon DEF IssuedInv, TypeOK
  <1>3. /\ Tail(up[d]) \in Seq(Envelope) /\ 1 \in DOMAIN up[d] /\ env = up[d][1] /\ env \in Envelope
        /\ \A i \in DOMAIN Tail(up[d]) : i + 1 \in DOMAIN up[d] /\ Tail(up[d])[i] = up[d][i + 1]
    BY <1>1, <1>2, TailElements, Zenon
  <1>4. Dealt(d, env.mid, env.op) /\ env.mid \in Nat \ {0} /\ env.op \in Op
    <2>1. Dealt(d, env.mid, env.op)
      BY <1>2, <1>3, Zenon DEF QueueBound
    <2> QED
      BY <1>2, <1>3, <2>1 DEF Dealt, Envelope
  <1>5. up' \in [Domain -> Seq(Envelope)] /\ QueueBound(up)'
    <2>1. up' \in [Domain -> Seq(Envelope)]
      BY <1>1, <1>2, <1>3, Zenon
    <2>2. \A i \in DOMAIN Tail(up[d]) : Dealt(d, Tail(up[d])[i].mid, Tail(up[d])[i].op)
      BY <1>2, <1>3, Zenon DEF QueueBound
    <2>3. QueueBound(up')
      BY <1>1, <1>2, <2>2, Zenon DEF QueueBound
    <2> QED
      BY <1>1, <2>1, <2>3, Zenon DEF QueueBound, Dealt
  <1>6. \/ ledger' = ledger /\ down' = down
        \/ /\ ledger' = ledger /\ d \in Rooms /\ env.mid <= Len(ledger[d])
           /\ down' = [down EXCEPT ![d] = Append(@, frame)]
        \/ \E v \in Verdict :
             /\ env.mid = Len(ledger[d]) + 1
             /\ ledger' = [ledger EXCEPT ![d] = Append(@, [op |-> env.op, kind |-> v])]
             /\ down' = down \/ (d \in Rooms /\ down' = [down EXCEPT ![d] = Append(@, frame)])
    <2>1. Verdicts(d) \subseteq Verdict
      BY Zenon DEF Verdicts, Verdict
    <2> QED
      BY <2>1, Zenon DEF Receive
  <1>7. frame \in Frame /\ frame.t = "outcome" /\ frame.domain = d /\ frame.n = env.mid
    BY <1>4, Zenon DEF OutcomeFrame, Frame
  <1>8. ASSUME ledger' = ledger PROVE MidsDealt' /\ LedgerBound' /\ ledger' \in [Domain -> Seq(Record)]
    BY <1>1, <1>2, <1>8, Zenon DEF IssuedInv, MidsDealt, LedgerBound, Dealt
  <1>9. ASSUME NEW v \in Verdict, env.mid = Len(ledger[d]) + 1,
               ledger' = [ledger EXCEPT ![d] = Append(@, [op |-> env.op, kind |-> v])]
        PROVE  MidsDealt' /\ LedgerBound' /\ ledger' \in [Domain -> Seq(Record)]
    <2> DEFINE rec == [op |-> env.op, kind |-> v]
    <2>1. rec \in Record /\ rec.op = env.op
      BY <1>4, Zenon DEF Record
    <2>2. /\ Append(ledger[d], rec) \in Seq(Record)
          /\ Len(Append(ledger[d], rec)) = Len(ledger[d]) + 1
          /\ \A i \in DOMAIN ledger[d] : Append(ledger[d], rec)[i] = ledger[d][i]
          /\ Append(ledger[d], rec)[Len(ledger[d]) + 1] = rec
          /\ \A i \in DOMAIN Append(ledger[d], rec) : i \in DOMAIN ledger[d] \/ i = Len(ledger[d]) + 1
      BY <1>2, <2>1, AppendElements
    <2>3. ledger' \in [Domain -> Seq(Record)]
      BY <1>2, <1>9, <2>2, Zenon
    <2>4. \A e \in Domain : ledger'[e] = IF e = d THEN Append(ledger[d], rec) ELSE ledger[e]
      BY <1>2, <1>9, Zenon
    <2>5. MidsDealt'
      <3>1. Len(ledger[d]) + 1 <= Len(issued[d])
        BY <1>2, <1>4, <1>9 DEF Dealt
      <3> QED
        BY <1>1, <2>2, <2>4, <3>1, Zenon DEF IssuedInv, MidsDealt
    <2>6. LedgerBound'
      <3>1. \A i \in DOMAIN Append(ledger[d], rec) : Dealt(d, i, Append(ledger[d], rec)[i].op)
        BY <1>4, <1>9, <2>1, <2>2, Zenon DEF IssuedInv, LedgerBound
      <3>2. \A e \in Domain : \A i \in DOMAIN ledger'[e] : Dealt(e, i, ledger'[e][i].op)
        BY <2>4, <3>1, Zenon DEF IssuedInv, LedgerBound
      <3> QED
        BY <1>1, <3>2, Zenon DEF LedgerBound, Dealt
    <2> QED
      BY <2>3, <2>5, <2>6, Zenon
  <1>10. MidsDealt' /\ LedgerBound' /\ ledger' \in [Domain -> Seq(Record)]
    BY <1>6, <1>8, <1>9, Zenon
  <1>15. ASSUME NEW v \in Verdict,
                ledger' = [ledger EXCEPT ![d] = Append(@, [op |-> env.op, kind |-> v])]
         PROVE  Len(ledger'[d]) = Len(ledger[d]) + 1 /\ \A e \in Domain \ {d} : ledger'[e] = ledger[e]
    <2>1. [op |-> env.op, kind |-> v] \in Record
      BY <1>4, Zenon DEF Record
    <2>2. ledger'[d] = Append(ledger[d], [op |-> env.op, kind |-> v])
      BY <1>2, <1>15, Zenon
    <2>3. Len(Append(ledger[d], [op |-> env.op, kind |-> v])) = Len(ledger[d]) + 1
      BY <1>2, <2>1, AppendElements
    <2> QED
      BY <1>2, <1>15, <2>2, <2>3, Zenon
  <1>16. \A e \in Domain : Len(ledger[e]) \in Nat /\ Len(ledger'[e]) \in Nat
    <2>1. \A e \in Domain : ledger[e] \in Seq(Record) /\ ledger'[e] \in Seq(Record)
      BY <1>2, <1>10, Zenon
    <2> QED
      BY <2>1
  <1>17. \/ ledger' = ledger
         \/ env.mid = Len(ledger[d]) + 1 /\ Len(ledger'[d]) = Len(ledger[d]) + 1
            /\ \A e \in Domain \ {d} : ledger'[e] = ledger[e]
    BY <1>6, <1>15, Zenon
  <1>11. \A e \in Domain : Len(ledger[e]) <= Len(ledger'[e]) /\ Len(ledger'[e]) \in Nat
    <2>1. ASSUME NEW e \in Domain PROVE Len(ledger[e]) <= Len(ledger'[e])
      BY <1>16, <1>17
    <2> QED
      BY <1>16, <2>1, Zenon
  <1>12. FramesBacked' /\ down' \in [Domain -> Seq(Frame)]
    <2>1. CASE down' = down
      <3>1. ASSUME NEW e \in Domain, NEW i \in DOMAIN down[e] PROVE Backed(e, down[e][i])'
        <4>1. Backed(e, down[e][i]) /\ down[e][i] \in Frame
          BY <1>2 DEF IssuedInv, FramesBacked
        <4>2. down[e][i].n \in Nat /\ down[e][i].domain \in Domain
          BY <4>1, Zenon DEF Frame
        <4>3. ledger[down[e][i].domain] \in Seq(Record)
          BY <1>2, <4>2, Zenon
        <4> QED
          BY <1>11, <2>1, <4>1, <4>2, <4>3 DEF Backed
      <3> QED
        BY <1>2, <2>1, <3>1, Zenon DEF FramesBacked
    <2>2. CASE d \in Rooms /\ down' = [down EXCEPT ![d] = Append(@, frame)]
      <3>1. env.mid <= Len(ledger'[d])
        <4>1. \/ ledger' = ledger /\ env.mid <= Len(ledger[d])
              \/ env.mid = Len(ledger[d]) + 1 /\ Len(ledger'[d]) = Len(ledger[d]) + 1
          <5>1. down' # down
            <6>1. Append(down[d], frame) # down[d]
              <7>1. down[d] \in Seq(Frame)
                BY <1>2, Zenon
              <7>2. Len(Append(down[d], frame)) = Len(down[d]) + 1 /\ Len(down[d]) \in Nat
                BY <1>7, <7>1, AppendElements
              <7> QED
                BY <7>2
            <6> QED
              BY <1>2, <2>2, <6>1, Zenon
          <5> QED
            BY <1>6, <1>15, <5>1, Zenon
        <4> QED
          BY <1>4, <1>16, <4>1
      <3>2. \A g : g = frame => Backed(d, g)'
        BY <1>4, <1>7, <3>1 DEF Backed
      <3> QED
        BY <1>7, <1>11, <2>2, <3>2, FrameSent, Zenon
    <2> QED
      BY <1>6, <2>1, <2>2, Zenon
  <1>13. FenceBacked' /\ FlushBacked' /\ NeverFaulted' /\ PendingBound' /\ FoldsOpen' /\ QueueBound(held)'
    <2>1. \A f \in fence : f.room \in Domain /\ f.n \in Nat
      BY Zenon DEF IssuedInv, TypeOK, Domain
    <2>2. \A r \in Rooms : r \in Domain /\ flushed[r] \in Nat
      BY Zenon DEF IssuedInv, TypeOK, Domain
    <2>3. FenceBacked'
      <3>1. ASSUME NEW f \in fence
            PROVE  f.n <= Len(ledger'[f.room]) /\ f.todo \subseteq 1 .. Len(ledger'[f.room])
        <4>1. f.room \in Domain /\ f.n \in Nat
          BY <2>1, Zenon
        <4>2. f.n <= Len(ledger[f.room]) /\ f.todo \subseteq 1 .. Len(ledger[f.room])
          BY Zenon DEF IssuedInv, FenceBacked
        <4>3. /\ Len(ledger[f.room]) \in Nat /\ Len(ledger'[f.room]) \in Nat
              /\ Len(ledger[f.room]) <= Len(ledger'[f.room])
          BY <1>11, <1>16, <4>1, Zenon
        <4> QED
          BY <4>1, <4>2, <4>3
      <3> QED
        BY <1>1, <3>1, Zenon DEF FenceBacked
    <2>4. FlushBacked'
      BY <1>1, <1>2, <1>11, <2>2 DEF IssuedInv, FlushBacked
    <2> QED
      BY <1>1, <2>3, <2>4, Zenon DEF IssuedInv, NeverFaulted, PendingBound, FoldsOpen, QueueBound, Dealt
  <1>14. TypeOK'
    BY <1>1, <1>5, <1>10, <1>12, Zenon DEF IssuedInv, TypeOK
  <1> QED
    BY <1>5, <1>10, <1>12, <1>13, <1>14, Zenon DEF IssuedInv

(* An authority sending a release keeps the invariant.                     *)
LEMMA SendReleaseIssued ==
  ASSUME IssuedInv, NEW d \in Domain, SendRelease(d)
  PROVE  IssuedInv'
  <1> DEFINE frame == [t |-> "release", domain |-> d, from |-> 0, n |-> Len(ledger[d])]
  <1>1. /\ down' = [down EXCEPT ![d] = Append(@, frame)]
        /\ told' = [told EXCEPT ![d] = Len(ledger[d]) + 1]
        /\ UNCHANGED <<pending, births, folds, nextMid, dealSeq, watermark, processed, call, fence,
                       hydrated, faulted, awaiting, held, up, reconnects, ledger, flushed,
                       fenceSent, issued, invoked, superseded, snapped>>
    BY Zenon DEF SendRelease, clientVars, histVars
  <1>2. \A e \in Domain : ledger[e] \in Seq(Record)
    BY Zenon DEF IssuedInv, TypeOK
  <1>3. \A e \in Domain : Len(ledger[e]) \in Nat
    BY <1>2
  <1>4. frame \in Frame /\ frame.t = "release" /\ frame.domain = d /\ frame.n = Len(ledger[d])
    BY <1>3, Zenon DEF Frame
  <1>5. \A g : g = frame => Backed(d, g)'
    BY <1>1, <1>3, <1>4 DEF Backed
  <1>6. FramesBacked' /\ down' \in [Domain -> Seq(Frame)]
    <2>1. \A e \in Domain : Len(ledger[e]) <= Len(ledger'[e]) /\ Len(ledger'[e]) \in Nat
      BY <1>1, <1>3
    <2> QED
      BY <1>1, <1>4, <1>5, <2>1, FrameSent, Zenon
  <1>7. told' \in [Domain -> Nat]
    BY <1>1, <1>3 DEF IssuedInv, TypeOK
  <1>8. TypeOK'
    BY <1>1, <1>6, <1>7, Zenon DEF IssuedInv, TypeOK
  <1>9. FenceBacked' /\ FlushBacked' /\ NeverFaulted' /\ PendingBound' /\ FoldsOpen'
    BY <1>1, Zenon DEF IssuedInv, FenceBacked, FlushBacked, NeverFaulted, PendingBound, FoldsOpen, Dealt
  <1> QED
    BY <1>1, <1>6, <1>8, <1>9, BindingStays, Zenon DEF IssuedInv

(* A room flushing its ledger to the daemon keeps the invariant.           *)
LEMMA RoomFlushIssued ==
  ASSUME IssuedInv, NEW r \in Rooms, RoomFlush(r)
  PROVE  IssuedInv'
  <1>1. /\ flushed' = [flushed EXCEPT ![r] = Len(ledger[r])]
        /\ UNCHANGED <<pending, births, folds, nextMid, dealSeq, watermark, processed, call, fence,
                       hydrated, faulted, awaiting, held, up, down, reconnects, ledger, told,
                       fenceSent, issued, invoked, superseded, snapped>>
    BY Zenon DEF RoomFlush, clientVars, wireVars, histVars
  <1>2. \A e \in Rooms : e \in Domain /\ ledger[e] \in Seq(Record)
    BY Zenon DEF IssuedInv, TypeOK, Domain
  <1>3. \A e \in Rooms : Len(ledger[e]) \in Nat
    BY <1>2
  <1>4. flushed' \in [Rooms -> Nat] /\ FlushBacked'
    <2>1. flushed \in [Rooms -> Nat] /\ FlushBacked
      BY Zenon DEF IssuedInv, TypeOK
    <2>2. flushed' \in [Rooms -> Nat]
      BY <1>1, <1>3, <2>1, Zenon
    <2>3. \A e \in Rooms : flushed'[e] <= Len(ledger[e])
      BY <1>1, <1>3, <2>1 DEF FlushBacked
    <2> QED
      BY <1>1, <2>2, <2>3, Zenon DEF FlushBacked
  <1>5. TypeOK'
    BY <1>1, <1>4, Zenon DEF IssuedInv, TypeOK
  <1>6. FramesBacked' /\ FenceBacked' /\ NeverFaulted' /\ PendingBound' /\ FoldsOpen'
    BY <1>1, Zenon DEF IssuedInv, FramesBacked, Backed, FenceBacked, NeverFaulted, PendingBound, FoldsOpen, Dealt
  <1> QED
    BY <1>1, <1>4, <1>5, <1>6, BindingStays, Zenon DEF IssuedInv

(* The daemon sending fence rows keeps the invariant.                      *)
LEMMA SendFenceIssued ==
  ASSUME IssuedInv, NEW r \in Rooms, SendFence(r)
  PROVE  IssuedInv'
  <1> DEFINE frame == [t |-> "fence", domain |-> r, from |-> fenceSent[r], n |-> flushed[r]]
  <1>1. /\ down' = [down EXCEPT ![Daemon] = Append(@, frame)]
        /\ fenceSent' = [fenceSent EXCEPT ![r] = flushed[r]]
        /\ UNCHANGED <<pending, births, folds, nextMid, dealSeq, watermark, processed, call, fence,
                       hydrated, faulted, awaiting, held, up, reconnects, ledger, told, flushed,
                       issued, invoked, superseded, snapped>>
    BY Zenon DEF SendFence, clientVars, histVars
  <1>2. /\ \A e \in Domain : ledger[e] \in Seq(Record)
        /\ fenceSent[r] \in Nat /\ flushed[r] \in Nat /\ flushed[r] <= Len(ledger[r])
        /\ r \in Domain /\ Daemon \in Domain
    BY Zenon DEF IssuedInv, TypeOK, FlushBacked, Domain
  <1>3. \A e \in Domain : Len(ledger[e]) \in Nat
    BY <1>2
  <1>4. frame \in Frame /\ frame.t = "fence" /\ frame.domain = r /\ frame.n = flushed[r]
    BY <1>2, Zenon DEF Frame
  <1>5. \A g : g = frame => Backed(Daemon, g)'
    BY <1>1, <1>2, <1>4, Zenon DEF Backed
  <1>6. FramesBacked' /\ down' \in [Domain -> Seq(Frame)]
    <2>1. \A e \in Domain : Len(ledger[e]) <= Len(ledger'[e]) /\ Len(ledger'[e]) \in Nat
      BY <1>1, <1>3
    <2> QED
      BY <1>1, <1>2, <1>4, <1>5, <2>1, FrameSent, Zenon
  <1>7. fenceSent' \in [Rooms -> Nat]
    BY <1>1, <1>2, Zenon DEF IssuedInv, TypeOK
  <1>8. TypeOK'
    BY <1>1, <1>6, <1>7, Zenon DEF IssuedInv, TypeOK
  <1>9. FenceBacked' /\ FlushBacked' /\ NeverFaulted' /\ PendingBound' /\ FoldsOpen'
    BY <1>1, Zenon DEF IssuedInv, FenceBacked, FlushBacked, NeverFaulted, PendingBound, FoldsOpen, Dealt
  <1> QED
    BY <1>1, <1>6, <1>8, <1>9, BindingStays, Zenon DEF IssuedInv

-----------------------------------------------------------------------------
(* Every step of the specification keeps the invariant.                    *)
LEMMA IssuedStep == IssuedInv /\ [Next]_vars => IssuedInv'
  <1> SUFFICES ASSUME IssuedInv, [Next]_vars PROVE IssuedInv'
    BY Zenon
  <1>1. ASSUME NEW op \in Op, NEW d \in Domain, Invoke(op, d) \/ InvokeFolded(op, d) PROVE IssuedInv'
    BY <1>1, InvokeIssued, InvokeFoldedIssued, Zenon
  <1>2. CASE Drain
    <2>1. PICK c \in call : \E f \in Overlapping(c.op) : \E d \in Routes[f.op] : FlushFold(f, d)
      BY <1>2, Zenon DEF Drain
    <2>2. PICK f \in Overlapping(c.op) : \E d \in Routes[f.op] : FlushFold(f, d)
      BY <2>1, Zenon
    <2>3. f \in folds
      BY <2>2, Zenon DEF Overlapping
    <2> QED
      BY <1>2, <2>2, <2>3, FlushFoldIssued, Zenon DEF Drain
  <1>3. CASE FlushTimer
    BY <1>3, FlushFoldIssued, Zenon DEF FlushTimer
  <1>4. CASE FinishInvoke \/ DeliverFence \/ FoldOutcomeRow \/ FoldRoomLedger
    BY <1>4, FinishInvokeIssued, DeliverFenceIssued, FoldOutcomeRowIssued, FoldRoomLedgerIssued, Zenon
  <1>5. ASSUME NEW d \in Domain, DeliverRelease(d) \/ AuthedHello(d) \/ Reconnect(d) PROVE IssuedInv'
    BY <1>5, DeliverReleaseIssued, AuthedHelloIssued, ReconnectIssued, Zenon
  <1>6. ASSUME NEW d \in Domain, Receive(d) \/ SendRelease(d) PROVE IssuedInv'
    BY <1>6, ReceiveIssued, SendReleaseIssued, Zenon
  <1>7. ASSUME NEW r \in Rooms, DeliverOutcome(r) \/ RoomFlush(r) \/ SendFence(r) PROVE IssuedInv'
    BY <1>7, DeliverOutcomeIssued, RoomFlushIssued, SendFenceIssued, Zenon
  <1>8. CASE UNCHANGED vars
    <2>1. UNCHANGED <<pending, births, folds, nextMid, dealSeq, watermark, processed, call, fence,
                      hydrated, faulted, awaiting, held, up, down, reconnects, ledger, told,
                      flushed, fenceSent, issued, invoked, superseded, snapped>>
      BY <1>8, Zenon DEF vars, clientVars, wireVars, authVars, histVars
    <2>2. TypeOK'
      BY <2>1, Zenon DEF IssuedInv, TypeOK
    <2>3. PendingBound' /\ FoldsOpen'
      BY <2>1, Zenon DEF IssuedInv, PendingBound, FoldsOpen, Dealt
    <2> QED
      BY <2>1, <2>2, <2>3, BindingStays, FramesStay, Zenon DEF IssuedInv
  <1> QED
    BY <1>1, <1>2, <1>3, <1>4, <1>5, <1>6, <1>7, <1>8, Zenon DEF Next, Client, Network, Authority

(* The inductive invariant of a first session: every watermark that exists *)
(* anywhere names issued mids, and every copy of a mid its one operation.  *)
THEOREM IssuedAlways == Spec => []IssuedInv
  BY IssuedInit, IssuedStep, PTL DEF Spec

(* Type correctness: the ledger, the wire and the authorities keep their       *)
(* types whatever is folded, deopted, re-sent or re-invoked.                    *)
THEOREM TypeCorrect == Spec => []TypeOK
  BY IssuedAlways, IssuedInvBinds, PTL

(* foldConfirm's "confirmed lmid is ahead of issued mids" is never thrown in a *)
(* first session, for any number of mutations, rooms and socket drops.          *)
THEOREM ConfirmsOnlyIssued == Spec => []NeverFaulted
  BY IssuedAlways, IssuedInvBinds, PTL

(* A mid names one operation for ever: wherever it is held, in flight, pending *)
(* or recorded, it carries the operation dealMid gave it to.                    *)
THEOREM MidsStayBound == Spec => []MidBinding
  BY IssuedAlways, IssuedInvBinds, PTL

=============================================================================
