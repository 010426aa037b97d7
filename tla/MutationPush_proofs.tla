------------------------ MODULE MutationPush_proofs ------------------------
(***************************************************************************)
(* For every number of mutations, batch size, number of concurrent calls   *)
(* and fault budget: mids reach the store contiguously, a remote backend   *)
(* commits each envelope's writes once and in order, and a promise         *)
(* resolves only for a durable mid.                                        *)
(***************************************************************************)
EXTENDS MutationPush, SequenceTheorems, TLAPS

(* A run of consecutive mids. *)
Consecutive(b) == \A i \in 1 .. Len(b) : b[i] = b[1] + i - 1

(* A call stands at an envelope whose predecessor the store has processed; *)
(* an open remote session started before its mid was, and a finished call  *)
(* leaves the whole batch processed.                                       *)
CallInv(c, l, b) ==
    c.pc # "none" =>
        /\ c.pos \in 1 .. Len(c.batch)
        /\ Consecutive(c.batch)
        /\ c.batch[c.pos] <= l + 1
        /\ c.pc = "open" /\ b = "remote" => c.snap < c.batch[c.pos]
        /\ c.pc = "done" => c.batch[Len(c.batch)] <= l

(* The queue holds the last mids dealt, and what left it is processed. *)
QueueInv(q, n, l) ==
    /\ n - 1 - Len(q) \in 0 .. l
    /\ \A i \in 1 .. Len(q) : q[i] = n - 1 - Len(q) + i

Rising(e, l) ==
    /\ \A i \in 1 .. Len(e) : e[i] <= l
    /\ \A i, j \in 1 .. Len(e) : i < j => e[i] < e[j]

PushInv ==
    /\ TypeOK
    /\ \A r \in Slot : CallInv(calls[r], lmid, backend)
    /\ QueueInv(queue, next, lmid)
    /\ backend = "remote" => Rising(effects, lmid)
    /\ ResolvedIsDurable

(* What slice(0, k) of the queue holds.                                    *)
LEMMA PrefixFacts ==
    ASSUME NEW q \in Seq(Mid), NEW k \in 1 .. Len(q)
    PROVE  /\ Prefix(q, k) \in Seq(Mid)
           /\ Len(Prefix(q, k)) = k
           /\ \A i \in 1 .. k : Prefix(q, k)[i] = q[i]
BY SubSeqProperties DEF Prefix

(* What splice(0, k) leaves of the queue.                                  *)
LEMMA RestFacts ==
    ASSUME NEW q \in Seq(Mid), NEW k \in 0 .. Len(q)
    PROVE  /\ SubSeq(q, k + 1, Len(q)) \in Seq(Mid)
           /\ Len(SubSeq(q, k + 1, Len(q))) = Len(q) - k
           /\ \A i \in 1 .. Len(q) - k : SubSeq(q, k + 1, Len(q))[i] = q[i + k]
BY SubSeqProperties

(* A new call for a non-empty prefix of the queue. *)
LEMMA NewCallInv ==
    ASSUME NEW q \in Seq(Mid), NEW k \in 1 .. Len(q),
           NEW n \in 1 .. N + 1, NEW l \in 0 .. N, NEW b, QueueInv(q, n, l)
    PROVE  /\ NewCall("wire", Prefix(q, k)) \in Call
           /\ NewCall("wire", Prefix(q, k)).pc # "none"
           /\ NewCall("wire", Prefix(q, k)).batch = Prefix(q, k)
           /\ CallInv(NewCall("wire", Prefix(q, k)), l, b)
<1> DEFINE c == NewCall("wire", Prefix(q, k))
<1>3. c \in Call
  <2>1. Prefix(q, k) \in Seq(Mid) /\ 0 \in 0 .. N /\ 0 \in Nat /\ 1 \in Nat /\ <<>> \in Seq(Answers)
    BY PrefixFacts, PushAssumption
  <2> QED
    BY <2>1, Zenon DEF Call, NewCall
<1>4. CallInv(c, l, b)
  <2>1. Len(q) \in Nat
    OBVIOUS
  <2>2. /\ c.pc = "wire" /\ c.pos = 1 /\ c.batch = Prefix(q, k)
    BY Zenon DEF NewCall
  <2>3. Len(c.batch) = k /\ \A i \in 1 .. k : c.batch[i] = n - 1 - Len(q) + i
    BY <2>1, <2>2, PrefixFacts DEF QueueInv
  <2>4. n - 1 - Len(q) \in 0 .. l
    BY Zenon DEF QueueInv
  <2> DEFINE base == n - 1 - Len(q)
  <2>5. base \in Int /\ base <= l
    BY <2>1, <2>4
  <2>6. c.batch[1] = base + 1
    BY <2>3
  <2> HIDE DEF c, base
  <2>7. Consecutive(c.batch)
    BY <2>3, <2>5, <2>6 DEF Consecutive, base
  <2> QED
    BY <2>2, <2>3, <2>5, <2>6, <2>7 DEF CallInv
<1>5. c.pc # "none" /\ c.batch = Prefix(q, k)
  BY Zenon DEF NewCall
<1> QED
  BY <1>3, <1>4, <1>5, Zenon

(* A call stays in order as the stored lmid grows.                         *)
LEMMA CallMonotone ==
    ASSUME NEW c \in Call, NEW l \in 0 .. N, NEW m \in 0 .. N, l <= m, NEW b, CallInv(c, l, b)
    PROVE  CallInv(c, m, b)
<1>1. CASE c.pc = "none"
  BY <1>1, Zenon DEF CallInv
<1>2. CASE c.pc # "none"
  <2>1. c.batch \in Seq(Mid) /\ c.pos \in 1 .. Len(c.batch)
    BY <1>2, Zenon DEF CallInv, Call
  <2>2. Len(c.batch) \in Nat
    BY <2>1
  <2>3. c.batch[c.pos] \in Int /\ c.batch[Len(c.batch)] \in Int
    BY <2>1, <2>2, PushAssumption DEF Mid
  <2> QED
    BY <1>2, <2>3, PushAssumption DEF CallInv
<1> QED
  BY <1>1, <1>2, Zenon

(* A step of the server: it replaces one call, and moves the store on. *)
LEMMA ServerStep ==
    ASSUME PushInv, NEW r \in Slot, NEW c \in Call,
           calls' = [calls EXCEPT ![r] = c],
           CallInv(c, lmid', backend),
           r = live => c.pc # "none" /\ c.batch = calls[r].batch,
           lmid' \in 0 .. N, lmid <= lmid',
           effects' \in Seq(Mid), backend = "remote" => Rising(effects', lmid'),
           faults' \in 0 .. MaxFaults,
           UNCHANGED <<backend, client>>
    PROVE  PushInv'
<1>1. /\ TypeOK /\ QueueInv(queue, next, lmid) /\ ResolvedIsDurable
      /\ \A s \in Slot : CallInv(calls[s], lmid, backend)
  BY Zenon DEF PushInv
<1>2. /\ backend' = backend /\ next' = next /\ queue' = queue /\ size' = size
      /\ live' = live /\ resolved' = resolved /\ told' = told
  BY Zenon DEF client
<1>3. calls' \in [Slot -> Call] /\ \A s \in Slot : calls'[s] = IF s = r THEN c ELSE calls[s]
  BY <1>1, Zenon DEF TypeOK
<1>4. \A s \in Slot : CallInv(calls'[s], lmid', backend)
  <2> TAKE s \in Slot
  <2>1. CASE s = r
    BY <1>3, <2>1, Zenon
  <2>2. CASE s # r
    BY <1>1, <1>3, <2>2, CallMonotone, Zenon DEF TypeOK
  <2> QED
    BY <2>1, <2>2, Zenon
<1>5. live # 0 => calls'[live].pc # "none" /\ calls'[live].batch = Prefix(queue, size)
  BY <1>1, <1>3 DEF TypeOK, Slot
<1>6. TypeOK'
  BY <1>1, <1>2, <1>3, <1>5, Zenon DEF TypeOK
<1>7. QueueInv(queue', next', lmid')
  <2>1. Len(queue) \in Nat /\ next \in Int /\ lmid \in Int /\ lmid' \in Int
    BY <1>1, PushAssumption DEF TypeOK
  <2> QED
    BY <1>1, <1>2, <2>1 DEF QueueInv
<1>8. ResolvedIsDurable'
  BY <1>1, <1>2, PushAssumption DEF ResolvedIsDurable, TypeOK
<1> QED
  BY <1>2, <1>4, <1>6, <1>7, <1>8, Zenon DEF PushInv

(* What a call being served satisfies. *)
LEMMA Serving ==
    ASSUME PushInv, NEW r \in Slot, calls[r].pc \in {"wire", "run", "open", "rejecting"}
    PROVE  /\ calls[r] \in Call
           /\ calls[r].pos \in 1 .. Len(calls[r].batch)
           /\ Len(calls[r].batch) \in Nat
           /\ Consecutive(calls[r].batch)
           /\ At(r) \in Mid /\ At(r) <= lmid + 1 /\ lmid \in 0 .. N
           /\ calls[r].pc = "open" /\ backend = "remote" => calls[r].snap < At(r)
<1>1. /\ calls[r] \in Call /\ lmid \in 0 .. N /\ CallInv(calls[r], lmid, backend)
  BY Zenon DEF PushInv, TypeOK
<1>2. calls[r].batch \in Seq(Mid)
  BY <1>1, Zenon DEF Call
<1>3. Len(calls[r].batch) \in Nat
  BY <1>2
<1> QED
  BY <1>1, <1>2, <1>3 DEF CallInv, At

(* The call Fail leaves. *)
LEMMA FailCall ==
    ASSUME PushInv, NEW r \in Slot, calls[r].pc \in {"run", "open", "rejecting"},
           lmid' \in 0 .. N, lmid <= lmid', Fail(r)
    PROVE  \E c \in Call :
             /\ calls' = [calls EXCEPT ![r] = c]
             /\ CallInv(c, lmid', backend)
             /\ r = live => c.pc # "none" /\ c.batch = calls[r].batch
<1> DEFINE f == [calls[r] EXCEPT !.pc = "failed"]
<1>0. calls' = [calls EXCEPT ![r] = Ended(r, f)]
  BY Zenon DEF Fail, PushInv, TypeOK
<1>1. /\ calls[r] \in Call /\ calls[r].pos \in 1 .. Len(calls[r].batch)
      /\ Consecutive(calls[r].batch) /\ At(r) \in Mid /\ At(r) <= lmid + 1
  BY Serving, Zenon
<1>2. /\ f \in Call /\ f.pc = "failed" /\ f.batch = calls[r].batch /\ f.pos = calls[r].pos
  BY <1>1, Zenon DEF Call
<1> HIDE DEF f
<1>3. CallInv(f, lmid', backend)
  BY <1>1, <1>2, PushAssumption DEF CallInv, At, Mid, PushInv, TypeOK
<1>4. NoCall \in Call /\ CallInv(NoCall, lmid', backend)
  BY PushAssumption DEF NoCall, NewCall, Call, CallInv
<1> QED
  BY <1>0, <1>2, <1>3, <1>4, Zenon DEF Ended

(* The call Answer leaves, once the store has processed its envelope. *)
LEMMA AnswerCall ==
    ASSUME PushInv, NEW r \in Slot, calls[r].pc \in {"run", "open", "rejecting"},
           lmid' \in 0 .. N, lmid <= lmid', At(r) <= lmid',
           NEW out \in Answers, Answer(r, out)
    PROVE  \E c \in Call :
             /\ calls' = [calls EXCEPT ![r] = c]
             /\ CallInv(c, lmid', backend)
             /\ r = live => c.pc # "none" /\ c.batch = calls[r].batch
<1> DEFINE c == [calls[r] EXCEPT !.outs = Append(@, out), !.snap = 0, !.tries = 0]
           d == [c EXCEPT !.pc = "done"]
           e == [c EXCEPT !.pc = "run", !.pos = @ + 1]
<1>0. calls' = [calls EXCEPT ![r] = IF c.pos = Len(c.batch) THEN Ended(r, d) ELSE e]
  BY Zenon DEF Answer
<1>1. /\ calls[r] \in Call /\ calls[r].pos \in 1 .. Len(calls[r].batch)
      /\ Len(calls[r].batch) \in Nat
      /\ Consecutive(calls[r].batch) /\ At(r) \in Mid /\ At(r) <= lmid + 1
  BY Serving, Zenon
<1>2. /\ c \in Call /\ c.batch = calls[r].batch /\ c.pos = calls[r].pos /\ c.pos \in Nat
  <2>1. calls[r].outs \in Seq(Answers) /\ calls[r].pos \in Nat
    BY <1>1, Zenon DEF Call
  <2>2. Append(calls[r].outs, out) \in Seq(Answers)
    BY <2>1
  <2>3. 0 \in 0 .. N /\ 0 \in Nat
    BY PushAssumption
  <2> QED
    BY <1>1, <2>1, <2>2, <2>3, Zenon DEF Call
<1> HIDE DEF c
<1>3. /\ d \in Call /\ d.pc = "done" /\ d.batch = calls[r].batch /\ d.pos = calls[r].pos
  BY <1>1, <1>2, Zenon DEF Call
<1>4. /\ e \in Call /\ e.pc = "run" /\ e.batch = calls[r].batch /\ e.pos = calls[r].pos + 1
  <2>1. c.pos + 1 \in Nat
    BY <1>2
  <2> QED
    BY <1>2, <2>1, Zenon DEF Call
<1> HIDE DEF d, e
<1>5. c.pos = Len(c.batch) => CallInv(d, lmid', backend)
  BY <1>1, <1>2, <1>3, PushAssumption DEF CallInv, At, Mid
<1>6. c.pos # Len(c.batch) => CallInv(e, lmid', backend)
  <2> DEFINE b == calls[r].batch
             p == calls[r].pos
  <2>1. SUFFICES ASSUME p # Len(b) PROVE CallInv(e, lmid', backend)
    BY <1>2, Zenon
  <2>2. p \in 1 .. Len(b) /\ p + 1 \in 1 .. Len(b)
    BY <1>1, <2>1
  <2>3. b[1] \in Int /\ b[p] = b[1] + p - 1 /\ b[p + 1] = b[1] + (p + 1) - 1
    <3>1. b \in Seq(Mid)
      BY <1>1, Zenon DEF Call
    <3>2. 1 \in 1 .. Len(b)
      BY <1>1, <2>2
    <3>3. b[1] \in Int
      BY <3>1, <3>2, PushAssumption DEF Mid
    <3> HIDE DEF p
    <3> QED
      BY <1>1, <2>2, <3>3, Zenon DEF Consecutive
  <2>4. b[p] <= lmid'
    BY Zenon DEF At
  <2>5. b[p + 1] <= lmid' + 1
    <3>1. p \in Int /\ lmid' \in Int
      BY <2>2, PushAssumption
    <3> HIDE DEF b, p
    <3> QED
      BY <2>3, <2>4, <3>1
  <2> QED
    BY <1>1, <1>4, <2>2, <2>5, Zenon DEF CallInv
<1>7. NoCall \in Call /\ CallInv(NoCall, lmid', backend)
  BY PushAssumption DEF NoCall, NewCall, Call, CallInv
<1> QED
  BY <1>0, <1>2, <1>3, <1>4, <1>5, <1>6, <1>7, Zenon DEF Ended

(* What a step of the store keeps. *)
StoreKept ==
    /\ lmid' \in 0 .. N /\ lmid <= lmid'
    /\ effects' \in Seq(Mid)
    /\ backend = "remote" => Rising(effects', lmid')

(* A store left alone is kept.                                             *)
LEMMA StoreStays ==
    ASSUME PushInv, UNCHANGED store
    PROVE  StoreKept
<1>1. lmid' = lmid /\ effects' = effects /\ lmid \in Int
  BY PushAssumption DEF store, PushInv, TypeOK
<1> QED
  BY <1>1 DEF PushInv, TypeOK, StoreKept

(* An lmid-only commit keeps the store and covers its mid.                 *)
LEMMA StoreCommitsLmid ==
    ASSUME PushInv, NEW m \in Mid, CommitLmid(m)
    PROVE  StoreKept /\ m <= lmid'
<1>1. /\ lmid \in 0 .. N /\ effects \in Seq(Mid) /\ effects' = effects
      /\ lmid' = IF lmid > m THEN lmid ELSE m
      /\ backend = "remote" => Rising(effects, lmid)
  BY Zenon DEF PushInv, TypeOK, CommitLmid, Larger
<1>2. lmid' \in 0 .. N /\ lmid <= lmid' /\ m <= lmid'
  BY <1>1, PushAssumption DEF Mid
<1>3. Len(effects) \in Nat /\ \A i \in 1 .. Len(effects) : effects[i] \in Int
  BY <1>1, PushAssumption DEF Mid
<1>4. backend = "remote" => Rising(effects', lmid')
  BY <1>1, <1>2, <1>3, PushAssumption DEF Rising
<1> QED
  BY <1>1, <1>2, <1>4, Zenon DEF StoreKept

(* A data commit past the lmid keeps the effects rising.                   *)
LEMMA StoreCommitsData ==
    ASSUME PushInv, NEW m \in Mid, backend = "remote" => m > lmid, CommitData(m)
    PROVE  StoreKept /\ m <= lmid'
<1>1. /\ lmid \in 0 .. N /\ effects \in Seq(Mid) /\ effects' = Append(effects, m)
      /\ lmid' = IF lmid > m THEN lmid ELSE m
      /\ backend = "remote" => Rising(effects, lmid)
  BY Zenon DEF PushInv, TypeOK, CommitData, Larger
<1>2. lmid' \in 0 .. N /\ lmid <= lmid' /\ m <= lmid'
  BY <1>1, PushAssumption DEF Mid
<1>3. Len(effects) \in Nat /\ \A i \in 1 .. Len(effects) : effects[i] \in Int
  BY <1>1, PushAssumption DEF Mid
<1>4. /\ effects' \in Seq(Mid) /\ Len(effects') = Len(effects) + 1
      /\ \A i \in 1 .. Len(effects) : effects'[i] = effects[i]
      /\ effects'[Len(effects) + 1] = m
  BY <1>1, AppendProperties
<1>5. backend = "remote" => Rising(effects', lmid')
  <2> SUFFICES ASSUME backend = "remote" PROVE Rising(effects', lmid')
    BY Zenon
  <2>1. m \in Int /\ lmid \in Int /\ lmid' \in Int /\ m > lmid /\ Rising(effects, lmid)
    BY <1>1, <1>2, PushAssumption DEF Mid
  <2>2. \A i \in 1 .. Len(effects') : effects'[i] <= lmid'
    BY <1>2, <1>3, <1>4, <2>1 DEF Rising
  <2>3. \A i, j \in 1 .. Len(effects') : i < j => effects'[i] < effects'[j]
    <3> TAKE i, j \in 1 .. Len(effects')
    <3> HAVE i < j
    <3>1. i \in 1 .. Len(effects) /\ (j \in 1 .. Len(effects) \/ j = Len(effects) + 1)
      BY <1>3, <1>4
    <3> QED
      BY <1>3, <1>4, <2>1, <3>1 DEF Rising
  <2> QED
    BY <2>2, <2>3, Zenon DEF Rising
<1> QED
  BY <1>2, <1>4, <1>5, Zenon DEF StoreKept

(* A served call answers once the store has processed its envelope. *)
LEMMA AnswerStep ==
    ASSUME PushInv, NEW r \in Slot, calls[r].pc \in {"run", "open", "rejecting"},
           StoreKept, At(r) <= lmid', NEW out \in Answers, Answer(r, out),
           UNCHANGED <<backend, client, faults>>
    PROVE  PushInv'
<1>1. PICK c \in Call : /\ calls' = [calls EXCEPT ![r] = c]
                        /\ CallInv(c, lmid', backend)
                        /\ r = live => c.pc # "none" /\ c.batch = calls[r].batch
  BY AnswerCall, Zenon DEF StoreKept
<1>2. faults' \in 0 .. MaxFaults
  BY Zenon DEF PushInv, TypeOK
<1> QED
  BY <1>1, <1>2, ServerStep, Zenon DEF StoreKept

(* A served call fails, whatever the store made of it. *)
LEMMA FailStep ==
    ASSUME PushInv, NEW r \in Slot, calls[r].pc \in {"run", "open", "rejecting"},
           StoreKept, Fail(r), faults' \in 0 .. MaxFaults, UNCHANGED <<backend, client>>
    PROVE  PushInv'
<1>1. PICK c \in Call : /\ calls' = [calls EXCEPT ![r] = c]
                        /\ CallInv(c, lmid', backend)
                        /\ r = live => c.pc # "none" /\ c.batch = calls[r].batch
  BY FailCall, Zenon DEF StoreKept
<1> QED
  BY <1>1, ServerStep, Zenon DEF StoreKept

(* A call changes its place in the handler and nothing else of it. *)
LEMMA MoveStep ==
    ASSUME PushInv, NEW r \in Slot, calls[r].pc \in {"wire", "run", "open", "rejecting"},
           NEW pc \in {"run", "open", "rejecting"}, NEW snap \in 0 .. N, NEW tries \in Nat,
           pc = "open" /\ backend = "remote" => snap < At(r),
           calls' = [calls EXCEPT ![r] = [@ EXCEPT !.pc = pc, !.snap = snap, !.tries = tries]],
           faults' \in 0 .. MaxFaults, UNCHANGED <<backend, client, store>>
    PROVE  PushInv'
<1> DEFINE c == [calls[r] EXCEPT !.pc = pc, !.snap = snap, !.tries = tries]
<1>1. /\ calls[r] \in Call /\ calls[r].pos \in 1 .. Len(calls[r].batch)
      /\ Consecutive(calls[r].batch) /\ At(r) \in Mid /\ At(r) <= lmid + 1
  BY Serving, Zenon
<1>2. calls' = [calls EXCEPT ![r] = c]
  BY Zenon DEF PushInv, TypeOK
<1>3. /\ c \in Call /\ c.pc = pc /\ c.snap = snap
      /\ c.batch = calls[r].batch /\ c.pos = calls[r].pos
  BY <1>1, Zenon DEF Call
<1> HIDE DEF c
<1>4. StoreKept /\ lmid' = lmid
  BY StoreStays, Zenon DEF store
<1>5. CallInv(c, lmid', backend)
  BY <1>1, <1>3, <1>4, Zenon DEF CallInv, At
<1> QED
  BY <1>2, <1>3, <1>4, <1>5, ServerStep, Zenon DEF StoreKept

(* A rejection keeps the invariant.                                        *)
LEMMA RejectStep ==
    ASSUME PushInv, NEW r \in Slot, calls[r].pc \in {"run", "rejecting"}, RejectMutation(r)
    PROVE  PushInv'
<1>1. /\ At(r) \in Mid
      /\ UNCHANGED <<backend, client, faults>>
      /\ faults \in 0 .. MaxFaults
  BY Serving, Zenon DEF RejectMutation, PushInv, TypeOK
<1>2. CASE Gap(At(r))
  BY <1>1, <1>2, StoreStays, FailStep, Zenon DEF RejectMutation
<1>3. CASE ~Gap(At(r))
  BY <1>1, <1>3, StoreCommitsLmid, AnswerStep, Zenon DEF RejectMutation, Answers
<1> QED
  BY <1>2, <1>3, Zenon

(* Starting a mutator over after a conflict keeps the invariant.           *)
LEMMA RunAgainStep ==
    ASSUME PushInv, NEW r \in Slot, calls[r].pc = "open", RunAgain(r),
           faults' \in 0 .. MaxFaults, UNCHANGED <<backend, client, store>>
    PROVE  PushInv'
<1>1. calls[r] \in Call /\ calls[r].tries \in Nat
  BY Serving, Zenon DEF Call
<1>2. CASE calls[r].tries + 1 < ConflictAttempts
  <2>1. calls' = [calls EXCEPT ![r] = [@ EXCEPT !.pc = "run", !.snap = 0, !.tries = calls[r].tries + 1]]
    BY <1>2, Zenon DEF RunAgain, PushInv, TypeOK
  <2>2. 0 \in 0 .. N /\ calls[r].tries + 1 \in Nat
    BY <1>1, PushAssumption
  <2> QED
    BY <2>1, <2>2, MoveStep, Zenon
<1>3. CASE ~(calls[r].tries + 1 < ConflictAttempts)
  BY <1>3, StoreStays, FailStep, Zenon DEF RunAgain
<1> QED
  BY <1>2, <1>3, Zenon

(* Every step of pushMutation keeps the invariant.                         *)
LEMMA ServeStep ==
    ASSUME PushInv, NEW r \in Slot, Serve(r)
    PROVE  PushInv'
<1>1. faults \in 0 .. MaxFaults /\ lmid \in 0 .. N /\ 0 \in 0 .. N
  BY PushAssumption DEF PushInv, TypeOK
<1>e. ASSUME At(r) \in Mid, Absorbs(At(r)) PROVE ~Gap(At(r)) /\ At(r) <= lmid
  BY <1>1, <1>e, PushAssumption DEF Absorbs, Gap, Mid
<1>2. CASE Deny(r)
  BY <1>2, RejectStep, Zenon DEF Deny
<1>3. CASE Execute(r)
  <2>1. calls[r].pc = "run" /\ UNCHANGED <<backend, client, faults>> /\ At(r) \in Mid
    BY <1>3, Serving, Zenon DEF Execute
  <2>2. CASE Absorbs(At(r))
    <3>1. Answer(r, "accepted") /\ UNCHANGED store /\ At(r) <= lmid
      BY <1>3, <1>e, <2>1, <2>2, Zenon DEF Execute
    <3>2. StoreKept /\ At(r) <= lmid'
      BY <3>1, StoreStays, Zenon DEF store
    <3> QED
      BY <2>1, <3>1, <3>2, AnswerStep, Zenon DEF Answers
  <2>3. CASE ~Absorbs(At(r)) /\ Gap(At(r))
    <3>1. Fail(r) /\ UNCHANGED store
      BY <1>3, <2>3, Zenon DEF Execute
    <3> QED
      BY <1>1, <2>1, <3>1, StoreStays, FailStep, Zenon
  <2>4. CASE ~Absorbs(At(r)) /\ ~Gap(At(r))
    <3>1. Answer(r, "accepted") /\ CommitData(At(r))
      BY <1>3, <2>4, Zenon DEF Execute
    <3>2. backend = "remote" => At(r) > lmid
      BY <1>1, <2>1, <2>4, PushAssumption DEF Absorbs, Mid
    <3> QED
      BY <2>1, <3>1, <3>2, StoreCommitsData, AnswerStep, Zenon DEF Answers
  <2> QED
    BY <2>2, <2>3, <2>4, Zenon
<1>4. CASE Begin(r)
  <2>1. calls[r].pc = "run" /\ UNCHANGED <<backend, client, store, faults>> /\ At(r) \in Mid
    BY <1>4, Serving, Zenon DEF Begin
  <2>2. StoreKept /\ lmid' = lmid
    BY <2>1, StoreStays, Zenon DEF store
  <2>3. CASE Absorbs(At(r))
    <3>1. Answer(r, "accepted") /\ At(r) <= lmid
      BY <1>4, <1>e, <2>1, <2>3, Zenon DEF Begin
    <3> QED
      BY <2>1, <2>2, <3>1, AnswerStep, Zenon DEF Answers
  <2>4. CASE ~Absorbs(At(r)) /\ Gap(At(r))
    BY <1>1, <1>4, <2>1, <2>2, <2>4, FailStep, Zenon DEF Begin
  <2>5. CASE ~Absorbs(At(r)) /\ ~Gap(At(r))
    <3>1. calls[r] \in Call /\ calls[r].tries \in Nat
      BY <2>1, Serving DEF Call
    <3>2. calls' = [calls EXCEPT ![r] = [@ EXCEPT !.pc = "open", !.snap = lmid, !.tries = calls[r].tries]]
      BY <1>4, <2>5, <3>1, Zenon DEF Begin, Call, PushInv, TypeOK
    <3>3. backend = "remote" => lmid < At(r)
      BY <1>1, <2>1, <2>5, PushAssumption DEF Absorbs, Mid
    <3> QED
      BY <1>1, <2>1, <3>1, <3>2, <3>3, MoveStep, Zenon
  <2> QED
    BY <2>3, <2>4, <2>5, Zenon
<1>5. CASE CommitSession(r)
  <2>1. calls[r].pc = "open" /\ UNCHANGED <<backend, client, faults>> /\ At(r) \in Mid
    BY <1>5, Serving, Zenon DEF CommitSession
  <2>2. CASE backend = "remote" /\ calls[r].snap # lmid
    BY <1>1, <1>5, <2>1, <2>2, RunAgainStep, Zenon DEF CommitSession, store
  <2>3. CASE ~(backend = "remote" /\ calls[r].snap # lmid)
    <3>1. Answer(r, "accepted") /\ CommitData(At(r))
      BY <1>5, <2>3, Zenon DEF CommitSession
    <3>2. backend = "remote" => At(r) > lmid
      BY <1>1, <2>1, <2>3, Serving, PushAssumption, Zenon DEF Mid
    <3> QED
      BY <2>1, <3>1, <3>2, StoreCommitsData, AnswerStep, Zenon DEF Answers
  <2> QED
    BY <2>2, <2>3, Zenon
<1>6. CASE Rollback(r)
  <2>1. calls[r].pc = "open" /\ calls[r] \in Call /\ calls[r].tries \in Nat
    BY <1>6, Serving, Zenon DEF Rollback, Call
  <2>2. calls' = [calls EXCEPT ![r] = [@ EXCEPT !.pc = "rejecting", !.snap = 0, !.tries = calls[r].tries]]
    BY <1>6, <2>1, Zenon DEF Rollback, Call, PushInv, TypeOK
  <2>3. UNCHANGED <<backend, client, store>> /\ faults' = faults
    BY <1>6, Zenon DEF Rollback
  <2> QED
    BY <1>1, <2>1, <2>2, <2>3, MoveStep, Zenon
<1>7. CASE RejectRolledBack(r)
  BY <1>7, RejectStep, Zenon DEF RejectRolledBack
<1> QED
  BY <1>2, <1>3, <1>4, <1>5, <1>6, <1>7, Zenon DEF Serve

(* An arrival, a conflict and a driver error keep the invariant.           *)
LEMMA FaultStep ==
    ASSUME PushInv, NEW r \in Slot, Arrive(r) \/ Contend(r) \/ DriverError(r)
    PROVE  PushInv'
<1>1. faults \in 0 .. MaxFaults /\ lmid \in 0 .. N /\ MaxFaults \in Nat
  BY PushAssumption, Zenon DEF PushInv, TypeOK
<1>2. CASE Arrive(r)
  <2>1. /\ calls[r].pc = "wire" /\ calls[r] \in Call
        /\ calls[r].tries \in Nat /\ calls[r].snap \in 0 .. N
    BY <1>2, Serving, Zenon DEF Arrive, Call
  <2>2. calls' = [calls EXCEPT ![r] =
                    [@ EXCEPT !.pc = "run", !.snap = calls[r].snap, !.tries = calls[r].tries]]
    BY <1>2, <2>1, Zenon DEF Arrive, Call, PushInv, TypeOK
  <2>3. UNCHANGED <<backend, client, store>> /\ faults' = faults
    BY <1>2, Zenon DEF Arrive
  <2> QED
    BY <1>1, <2>1, <2>2, <2>3, MoveStep, Zenon
<1>3. CASE Contend(r)
  BY <1>1, <1>3, RunAgainStep DEF Contend
<1>4. CASE DriverError(r)
  <2>1. /\ calls[r].pc \in {"run", "open", "rejecting"} /\ Fail(r)
        /\ faults' \in 0 .. MaxFaults /\ UNCHANGED <<backend, client>>
        /\ At(r) \in Mid
    BY <1>1, <1>4, Serving DEF DriverError
  <2>2. CASE UNCHANGED store
    BY <2>1, <2>2, StoreStays, FailStep, Zenon
  <2>3. CASE Pending(r)
    <3>1. StoreKept
      <4>1. CASE CommitLmid(At(r))
        BY <2>1, <4>1, StoreCommitsLmid, Zenon
      <4>2. CASE CommitData(At(r)) /\ (backend = "remote" => At(r) > lmid)
        BY <2>1, <4>2, StoreCommitsData, Zenon
      <4>3. calls[r].pc = "open" /\ backend = "remote" => calls[r].snap < At(r)
        BY <2>1, Serving, Zenon
      <4>4. backend = "remote" /\ ~Absorbs(At(r)) => At(r) > lmid
        BY <1>1, <2>1, PushAssumption DEF Absorbs, Mid
      <4>5. \/ CommitLmid(At(r))
            \/ CommitData(At(r)) /\ (backend = "remote" => At(r) > lmid)
        <5>1. At(r) \in Int /\ lmid \in Int
          BY <1>1, <2>1, PushAssumption DEF Mid
        <5> QED
          BY <2>3, <4>3, <4>4, <5>1, Zenon DEF Pending
      <4> QED
        BY <4>1, <4>2, <4>5, Zenon
    <3> QED
      BY <2>1, <3>1, FailStep, Zenon
  <2> QED
    BY <1>4, <2>2, <2>3, Zenon DEF DriverError
<1> QED
  BY <1>2, <1>3, <1>4, Zenon

(* Appending to the queue leaves the batch under delivery alone.           *)
LEMMA PrefixOfAppend ==
    ASSUME NEW q \in Seq(Mid), NEW m \in Mid, NEW k \in 1 .. Len(q)
    PROVE  Prefix(Append(q, m), k) = Prefix(q, k)
<1>1. /\ Append(q, m) \in Seq(Mid) /\ Len(Append(q, m)) = Len(q) + 1
      /\ \A i \in 1 .. Len(q) : Append(q, m)[i] = q[i]
  BY AppendProperties
<1>2. k \in 1 .. Len(Append(q, m)) /\ k \in Nat /\ Len(q) \in Nat
  BY <1>1
<1>3. /\ Prefix(q, k) \in Seq(Mid) /\ Len(Prefix(q, k)) = k
      /\ \A i \in 1 .. k : Prefix(q, k)[i] = q[i]
  BY PrefixFacts, Zenon
<1>4. /\ Prefix(Append(q, m), k) \in Seq(Mid) /\ Len(Prefix(Append(q, m), k)) = k
      /\ \A i \in 1 .. k : Prefix(Append(q, m), k)[i] = Append(q, m)[i]
  BY <1>1, <1>2, PrefixFacts, Zenon
<1>5. \A i \in 1 .. k : Prefix(Append(q, m), k)[i] = Prefix(q, k)[i]
  BY <1>1, <1>2, <1>3, <1>4
<1> QED
  BY <1>3, <1>4, <1>5, SeqEqual, Zenon

(* A step of the client: it leaves the store alone and its own state in    *)
(* order.                                                                  *)
LEMMA ClientStep ==
    ASSUME PushInv, UNCHANGED <<backend, store>>,
           next' \in 1 .. N + 1, queue' \in Seq(Mid), size' \in 0 .. Len(queue'),
           live' \in 0 .. Slots, calls' \in [Slot -> Call], faults' \in 0 .. MaxFaults,
           \A r \in Slot : CallInv(calls'[r], lmid, backend),
           QueueInv(queue', next', lmid),
           live' # 0 => calls'[live'].pc # "none" /\ calls'[live'].batch = Prefix(queue', size'),
           resolved' \subseteq Mid, told' \subseteq Mid,
           resolved' \cup told' \subseteq 1 .. lmid
    PROVE  PushInv'
<1>1. lmid' = lmid /\ effects' = effects /\ backend' = backend
  BY Zenon DEF store
<1>2. TypeOK'
  BY <1>1, Zenon DEF TypeOK, PushInv
<1> QED
  BY <1>1, <1>2, Zenon DEF PushInv, ResolvedIsDurable

(* A flush of a non-empty queue takes a non-empty prefix of it.            *)
LEMMA FlushSize ==
    ASSUME NEW q \in Seq(Mid), q # <<>>
    PROVE  Smaller(MaxBatch, Len(q)) \in 1 .. Len(q)
<1>1. Len(q) \in Nat \ {0}
  BY EmptySeq, Zenon
<1> QED
  BY <1>1, PushAssumption DEF Smaller

(* The dealt mid extends the run of mids the queue holds.                  *)
LEMMA QueueGrows ==
    ASSUME PushInv, next <= N
    PROVE  /\ next \in Mid /\ next + 1 \in 1 .. N + 1
           /\ Append(queue, next) \in Seq(Mid) /\ Append(queue, next) # <<>>
           /\ Len(Append(queue, next)) = Len(queue) + 1
           /\ QueueInv(Append(queue, next), next + 1, lmid)
<1>1. /\ queue \in Seq(Mid) /\ next \in 1 .. N + 1 /\ lmid \in 0 .. N
      /\ QueueInv(queue, next, lmid)
  BY Zenon DEF PushInv, TypeOK
<1>2. next \in Mid /\ next + 1 \in 1 .. N + 1 /\ next \in Nat
  BY <1>1, PushAssumption DEF Mid
<1>3. /\ Append(queue, next) \in Seq(Mid) /\ Append(queue, next) # <<>>
      /\ Len(Append(queue, next)) = Len(queue) + 1
      /\ \A i \in 1 .. Len(queue) : Append(queue, next)[i] = queue[i]
      /\ Append(queue, next)[Len(queue) + 1] = next
  BY <1>1, <1>2, AppendProperties
<1>4. Len(queue) \in Nat
  BY <1>1
<1>5. QueueInv(Append(queue, next), next + 1, lmid)
  <2>1. (next + 1) - 1 - (Len(queue) + 1) = next - 1 - Len(queue)
    BY <1>2, <1>4
  <2>2. \A i \in 1 .. Len(queue) + 1 : Append(queue, next)[i] = next - 1 - Len(queue) + i
    BY <1>1, <1>2, <1>3, <1>4 DEF QueueInv
  <2> QED
    BY <1>1, <1>3, <2>1, <2>2, Zenon DEF QueueInv
<1> QED
  BY <1>2, <1>3, <1>5, Zenon

(* The sender keeps the invariant.                                         *)
LEMMA EnqueueStep ==
    ASSUME PushInv, Enqueue
    PROVE  PushInv'
<1>1. /\ next <= N /\ next' = next + 1 /\ queue' = Append(queue, next)
      /\ UNCHANGED <<backend, store>> /\ faults' = faults
      /\ resolved' = resolved /\ told' = told
  BY Zenon DEF Enqueue
<1>2. /\ next' \in 1 .. N + 1 /\ queue' \in Seq(Mid) /\ queue' # <<>>
      /\ Len(queue') = Len(queue) + 1 /\ QueueInv(queue', next', lmid) /\ next \in Mid
  BY <1>1, QueueGrows, Zenon
<1>3. /\ queue \in Seq(Mid) /\ calls \in [Slot -> Call] /\ lmid \in 0 .. N
      /\ size \in 0 .. Len(queue) /\ live \in 0 .. Slots /\ faults' \in 0 .. MaxFaults
      /\ resolved' \subseteq Mid /\ told' \subseteq Mid /\ resolved' \cup told' \subseteq 1 .. lmid
      /\ \A r \in Slot : CallInv(calls[r], lmid, backend)
      /\ live # 0 => calls[live].pc # "none" /\ calls[live].batch = Prefix(queue, size)
  BY <1>1, Zenon DEF PushInv, TypeOK, ResolvedIsDurable
<1>4. Len(queue) \in Nat
  BY <1>3
<1>5. CASE size > 0
  <2>1. size' = size /\ live' = live /\ calls' = calls
    BY <1>5, Zenon DEF Enqueue
  <2>2. size \in 1 .. Len(queue) /\ size \in 0 .. Len(queue')
    BY <1>2, <1>3, <1>4, <1>5
  <2>3. Prefix(queue', size) = Prefix(queue, size)
    BY <1>1, <1>2, <1>3, <2>2, PrefixOfAppend, Zenon
  <2> QED
    BY <1>1, <1>2, <1>3, <2>1, <2>2, <2>3, ClientStep, Zenon
<1>6. CASE ~(size > 0)
  <2> DEFINE k == Smaller(MaxBatch, Len(queue'))
  <2>1. SendBatch(calls, queue', k)
    BY <1>6, Zenon DEF Enqueue, Flush
  <2>2. k \in 1 .. Len(queue')
    BY <1>2, FlushSize, Zenon
  <2> HIDE DEF k
  <2>3. /\ calls' \in [Slot -> Call] /\ live' \in Slot /\ size' = k
        /\ calls'[live'].pc # "none" /\ calls'[live'].batch = Prefix(queue', k)
        /\ \A r \in Slot : CallInv(calls'[r], lmid, backend)
    <3>1. PICK s \in FreeSlots(calls) :
               /\ live' = s /\ size' = k
               /\ calls' = [calls EXCEPT ![s] = NewCall("wire", Prefix(queue', k))]
      BY <2>1, Zenon DEF SendBatch
    <3>2. s \in Slot
      BY Zenon DEF FreeSlots
    <3> DEFINE c == NewCall("wire", Prefix(queue', k))
    <3>3. c \in Call /\ c.pc # "none" /\ c.batch = Prefix(queue', k) /\ CallInv(c, lmid, backend)
      BY <1>2, <1>3, <2>2, NewCallInv
    <3>4. calls' = [calls EXCEPT ![s] = c]
      BY <3>1, Zenon
    <3> HIDE DEF c
    <3> QED
      BY <1>3, <3>1, <3>2, <3>3, <3>4, Zenon
  <2>4. live' \in 0 .. Slots /\ size' \in 0 .. Len(queue')
    BY <1>2, <1>4, <2>2, <2>3, PushAssumption DEF Slot
  <2> QED
    BY <1>1, <1>2, <1>3, <2>3, <2>4, ClientStep, Zenon
<1> QED
  BY <1>5, <1>6, Zenon

(* The parts of the invariant a step of the client starts from. *)
LEMMA ClientFacts ==
    ASSUME PushInv
    PROVE  /\ queue \in Seq(Mid) /\ Len(queue) \in Nat /\ next \in 1 .. N + 1
           /\ calls \in [Slot -> Call] /\ lmid \in 0 .. N
           /\ size \in 0 .. Len(queue) /\ live \in 0 .. Slots /\ faults \in 0 .. MaxFaults
           /\ resolved \subseteq Mid /\ told \subseteq Mid /\ resolved \cup told \subseteq 1 .. lmid
           /\ \A r \in Slot : CallInv(calls[r], lmid, backend)
           /\ QueueInv(queue, next, lmid)
           /\ live # 0 => /\ live \in Slot /\ calls[live].pc # "none"
                          /\ calls[live].batch = Prefix(queue, size)
           /\ NoCall \in Call /\ \A l, b : CallInv(NoCall, l, b)
<1>1. /\ queue \in Seq(Mid) /\ live \in 0 .. Slots
  BY Zenon DEF PushInv, TypeOK
<1>2. Len(queue) \in Nat /\ (live # 0 => live \in Slot)
  BY <1>1, PushAssumption DEF Slot
<1>3. NoCall \in Call /\ \A l, b : CallInv(NoCall, l, b)
  BY PushAssumption DEF NoCall, NewCall, Call, CallInv
<1> QED
  BY <1>1, <1>2, <1>3, Zenon DEF PushInv, TypeOK, ResolvedIsDurable

(* Sending the same batch again keeps the invariant.                       *)
LEMMA RetryStep ==
    ASSUME PushInv, Retry
    PROVE  PushInv'
<1>1. /\ size > 0 /\ SendBatch(calls, queue, size)
      /\ UNCHANGED <<backend, store>> /\ next' = next /\ queue' = queue
      /\ resolved' = resolved /\ told' = told /\ faults' = faults
  BY Zenon DEF Retry
<1>2. size \in 1 .. Len(queue)
  BY <1>1, ClientFacts
<1>3. PICK s \in FreeSlots(calls) :
           /\ live' = s /\ size' = size
           /\ calls' = [calls EXCEPT ![s] = NewCall("wire", Prefix(queue, size))]
  BY <1>1, Zenon DEF SendBatch
<1> DEFINE c == NewCall("wire", Prefix(queue, size))
<1>4. c \in Call /\ c.pc # "none" /\ c.batch = Prefix(queue, size) /\ CallInv(c, lmid, backend)
  BY <1>2, NewCallInv, ClientFacts, Zenon
<1>5. s \in Slot /\ s \in 0 .. Slots /\ calls' = [calls EXCEPT ![s] = c]
  BY <1>3, PushAssumption DEF FreeSlots, Slot
<1> HIDE DEF c
<1>6. /\ calls' \in [Slot -> Call] /\ calls'[s] = c
      /\ \A r \in Slot : CallInv(calls'[r], lmid, backend)
  BY <1>4, <1>5, ClientFacts, Zenon
<1> QED
  BY <1>1, <1>3, <1>4, <1>5, <1>6, ClientFacts, ClientStep, Zenon

(* A failed or broken send keeps the invariant.                            *)
LEMMA GiveUpStep ==
    ASSUME PushInv, SendFails \/ ConnectionBreaks
    PROVE  PushInv'
<1>1. /\ live # 0 /\ live' = 0 /\ UNCHANGED <<backend, store>>
      /\ next' = next /\ queue' = queue /\ size' = size /\ resolved' = resolved /\ told' = told
      /\ faults' = faults \/ (faults < MaxFaults /\ faults' = faults + 1)
      /\ calls' = calls \/ calls' = [calls EXCEPT ![live] = NoCall]
  BY Zenon DEF SendFails, ConnectionBreaks
<1>2. faults' \in 0 .. MaxFaults
  BY <1>1, ClientFacts, PushAssumption
<1>3. calls' \in [Slot -> Call] /\ \A r \in Slot : CallInv(calls'[r], lmid, backend)
  BY <1>1, ClientFacts
<1>4. live' \in 0 .. Slots
  BY <1>1, PushAssumption
<1> QED
  BY <1>1, <1>2, <1>3, <1>4, ClientFacts, ClientStep, Zenon

(* Confirming a batch and sending the next keeps the invariant.            *)
LEMMA ConfirmStep ==
    ASSUME PushInv, Confirm
    PROVE  PushInv'
<1> DEFINE c == calls[live]
           freed == [calls EXCEPT ![live] = NoCall]
<1>1. /\ live # 0 /\ c.pc = "done" /\ Report(c)
      /\ queue' = SubSeq(queue, size + 1, Len(queue))
      /\ IF Thrown(c) = {} /\ queue' # <<>>
         THEN Flush(freed, queue')
         ELSE size' = 0 /\ live' = 0 /\ calls' = freed
      /\ UNCHANGED <<backend, store>> /\ next' = next /\ faults' = faults
  BY Zenon DEF Confirm
<1>2. /\ live \in Slot /\ c \in Call /\ c.batch = Prefix(queue, size)
      /\ CallInv(c, lmid, backend)
  BY <1>1, ClientFacts, Zenon
<1>3. size \in 1 .. Len(queue)
  <2>1. c.pos \in 1 .. Len(c.batch)
    BY <1>1, <1>2, Zenon DEF CallInv
  <2>2. size # 0
    <3>1. SUFFICES ASSUME size = 0 PROVE FALSE
      BY Zenon
    <3>2. Prefix(queue, size) = <<>>
      BY <3>1, SubSeqEmpty DEF Prefix
    <3> QED
      BY <1>2, <2>1, <3>2
  <2> QED
    BY <2>2, ClientFacts
<1>4. Len(c.batch) = size /\ \A i \in 1 .. size : c.batch[i] = queue[i]
  BY <1>2, <1>3, PrefixFacts, ClientFacts, Zenon
<1>5. queue[size] <= lmid
  BY <1>1, <1>2, <1>3, <1>4 DEF CallInv
<1> DEFINE base == next - 1 - Len(queue)
<1>6. /\ base \in 0 .. lmid /\ base \in Int /\ size \in Int /\ lmid \in Int
      /\ \A i \in 1 .. Len(queue) : queue[i] = base + i
  BY <1>3, ClientFacts, PushAssumption DEF QueueInv
<1>7. QueueInv(queue', next', lmid) /\ queue' \in Seq(Mid) /\ Len(queue') \in Nat
  <2>1. /\ queue' \in Seq(Mid) /\ Len(queue') = Len(queue) - size
        /\ \A i \in 1 .. Len(queue) - size : queue'[i] = queue[i + size]
    BY <1>1, RestFacts, ClientFacts, Zenon
  <2>2. next' - 1 - Len(queue') = base + size
    BY <1>1, <1>6, <2>1, ClientFacts, PushAssumption, SMTT(30)
  <2>3. base + size \in 0 .. lmid
    BY <1>3, <1>5, <1>6, ClientFacts
  <2>4. \A i \in 1 .. Len(queue') : queue'[i] = base + size + i
    <3> TAKE i \in 1 .. Len(queue')
    <3>1. i \in 1 .. Len(queue) - size /\ i + size \in 1 .. Len(queue) /\ i \in Int
      BY <1>3, <2>1, ClientFacts
    <3>2. queue'[i] = base + (i + size)
      BY <1>6, <2>1, <3>1, Zenon
    <3> HIDE DEF base
    <3> QED
      BY <1>6, <3>1, <3>2
  <2> HIDE DEF base
  <2>5. QueueInv(queue', next', lmid)
    BY <2>2, <2>3, <2>4, Zenon DEF QueueInv
  <2> QED
    BY <2>1, <2>5
<1>8. \A i \in 1 .. Len(c.batch) : c.batch[i] \in Mid /\ c.batch[i] \in 1 .. lmid
  <2> TAKE i \in 1 .. Len(c.batch)
  <2>1. i \in 1 .. size /\ i \in 1 .. Len(queue) /\ i \in Int
    BY <1>3, <1>4, ClientFacts
  <2>2. c.batch[i] = base + i /\ queue[size] = base + size /\ c.batch[i] \in Mid
    <3>1. c.batch[i] = queue[i] /\ queue[i] \in Mid
      BY <1>4, <2>1, ClientFacts
    <3>2. size \in 1 .. Len(queue) /\ queue[i] = base + i /\ queue[size] = base + size
      BY <1>3, <1>6, <2>1, Zenon
    <3> QED
      BY <3>1, <3>2, Zenon
  <2> HIDE DEF base, c
  <2> QED
    BY <1>5, <1>6, <2>1, <2>2
<1>9. /\ resolved' \subseteq Mid /\ told' \subseteq Mid
      /\ resolved' \cup told' \subseteq 1 .. lmid
  <2>1. \A x \in resolved' \cup told' :
          x \in resolved \cup told \/ \E i \in 1 .. Len(c.batch) : x = c.batch[i]
    BY <1>1, Zenon DEF Report
  <2> HIDE DEF c
  <2> QED
    BY <1>8, <2>1, ClientFacts, SMTT(30)
<1>10. freed \in [Slot -> Call] /\ \A r \in Slot : CallInv(freed[r], lmid, backend)
  BY <1>2, ClientFacts, Zenon
<1>11. CASE Thrown(c) = {} /\ queue' # <<>>
  <2> DEFINE k == Smaller(MaxBatch, Len(queue'))
             d == NewCall("wire", Prefix(queue', k))
  <2>1. SendBatch(freed, queue', k)
    BY <1>1, <1>11, Zenon DEF Flush
  <2>2. k \in 1 .. Len(queue')
    BY <1>7, <1>11, FlushSize, Zenon
  <2> HIDE DEF k, freed
  <2>3. PICK s \in FreeSlots(freed) :
             live' = s /\ size' = k /\ calls' = [freed EXCEPT ![s] = d]
    BY <2>1, Zenon DEF SendBatch
  <2>4. d \in Call /\ d.pc # "none" /\ d.batch = Prefix(queue', k) /\ CallInv(d, lmid, backend)
    BY <1>1, <1>7, <2>2, NewCallInv, ClientFacts, Zenon
  <2>5. s \in Slot /\ s \in 0 .. Slots
    BY PushAssumption DEF FreeSlots, Slot
  <2> HIDE DEF d
  <2>6. /\ calls' \in [Slot -> Call] /\ calls'[s] = d
        /\ \A r \in Slot : CallInv(calls'[r], lmid, backend)
    BY <1>10, <2>3, <2>4, <2>5, Zenon
  <2>7. size' \in 0 .. Len(queue')
    BY <1>7, <2>2, <2>3
  <2> QED
    BY <1>1, <1>7, <1>9, <2>3, <2>4, <2>5, <2>6, <2>7, ClientFacts, ClientStep, Zenon
<1>12. CASE ~(Thrown(c) = {} /\ queue' # <<>>)
  <2>1. size' = 0 /\ live' = 0 /\ calls' = freed
    BY <1>1, <1>12, Zenon
  <2>2. size' \in 0 .. Len(queue') /\ live' \in 0 .. Slots
    BY <1>7, <2>1, PushAssumption
  <2> HIDE DEF freed
  <2> QED
    BY <1>1, <1>7, <1>9, <1>10, <2>1, <2>2, ClientFacts, ClientStep, Zenon
<1> QED
  BY <1>11, <1>12, Zenon

(* An idle client and an empty store satisfy the invariant.                *)
LEMMA PushInit == Init => PushInv
<1> SUFFICES ASSUME Init PROVE PushInv
  BY Zenon
<1>1. NoCall \in Call /\ \A l, b : CallInv(NoCall, l, b)
  BY PushAssumption DEF NoCall, NewCall, Call, CallInv
<1>2. TypeOK
  <2>1. /\ 1 \in 1 .. N + 1 /\ 0 \in 0 .. N /\ 0 \in 0 .. Slots /\ 0 \in 0 .. MaxFaults
        /\ <<>> \in Seq(Mid) /\ Len(<<>>) = 0 /\ 0 \in 0 .. 0
    BY PushAssumption
  <2> QED
    BY <1>1, <2>1, Zenon DEF Init, TypeOK
<1>3. QueueInv(queue, next, lmid) /\ Rising(effects, lmid) /\ ResolvedIsDurable
  <2>1. Len(<<>>) = 0 /\ 1 - 1 - 0 \in 0 .. 0 /\ 1 .. 0 = {}
    OBVIOUS
  <2>2. QueueInv(queue, next, lmid)
    BY <2>1, Zenon DEF Init, QueueInv
  <2>3. Rising(effects, lmid)
    BY <2>1, Zenon DEF Init, Rising
  <2> QED
    BY <2>2, <2>3, Zenon DEF Init, ResolvedIsDurable
<1>4. \A r \in Slot : CallInv(calls[r], lmid, backend)
  BY <1>1, Zenon DEF Init
<1> QED
  BY <1>2, <1>3, <1>4, Zenon DEF PushInv

(* Every step of the specification keeps the invariant.                    *)
LEMMA PushStep == PushInv /\ [Next]_vars => PushInv'
<1> SUFFICES ASSUME PushInv, [Next]_vars PROVE PushInv'
  BY Zenon
<1>1. CASE UNCHANGED vars
  <2>1. /\ UNCHANGED <<backend, next, queue, size, live, resolved, told>>
        /\ UNCHANGED <<calls, lmid, effects, faults>>
    BY <1>1, Zenon DEF vars, client, store
  <2> QED
    BY <2>1, Zenon DEF PushInv, TypeOK, ResolvedIsDurable
<1>2. CASE Enqueue
  BY <1>2, EnqueueStep, Zenon
<1>3. CASE Confirm
  BY <1>3, ConfirmStep, Zenon
<1>4. CASE SendFails \/ ConnectionBreaks
  BY <1>4, GiveUpStep, Zenon
<1>5. CASE Retry
  BY <1>5, RetryStep, Zenon
<1>6. CASE \E r \in Slot : Serve(r)
  BY <1>6, ServeStep, Zenon
<1>7. CASE \E r \in Slot : Arrive(r) \/ Contend(r) \/ DriverError(r)
  BY <1>7, FaultStep, Zenon
<1> QED
  BY <1>1, <1>2, <1>3, <1>4, <1>5, <1>6, <1>7, Zenon DEF Next

(* The invariant the theorems below rest on.                               *)
LEMMA PushInvAlways == Spec => []PushInv
BY PushInit, PushStep, PTL DEF Spec

(* No envelope is ever about to run ahead of the stored lmid by more than  *)
(* one, however many calls for a batch are being served (mutation-queue.ts *)
(* and pushMutations together).                                            *)
THEOREM ContiguousAlways == Spec => []NeverAhead
<1>1. PushInv => NeverAhead
  BY Serving, Zenon DEF NeverAhead
<1> QED
  BY <1>1, PushInvAlways, PTL

(* A remote backend commits each envelope's writes at most once, in mid    *)
(* order, whatever is retried, lost or late (runMutation, mid dedup).      *)
THEOREM EffectsOnceInOrder == Spec => []EffectsInOrder
<1>1. PushInv => EffectsInOrder
  BY Zenon DEF PushInv, EffectsInOrder, Rising
<1> QED
  BY <1>1, PushInvAlways, PTL

(* Promises and rejections are only for mids the store has processed       *)
(* (flush confirms a batch only on the server's complete answer).          *)
THEOREM ResolvedAlwaysDurable == Spec => []ResolvedIsDurable
<1>1. PushInv => ResolvedIsDurable
  BY Zenon DEF PushInv
<1> QED
  BY <1>1, PushInvAlways, PTL

=============================================================================
