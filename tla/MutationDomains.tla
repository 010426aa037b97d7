--------------------------- MODULE MutationDomains ---------------------------
(***************************************************************************)
(* The optimistic client's pending-mutation ledger                         *)
(* (packages/optimistic/src/backend.ts) and the part of its source that    *)
(* carries envelopes (packages/remote/src/optimistic-source.ts).           *)
(*                                                                         *)
(* A client predicts a mutation locally, deals it a mutation id from one   *)
(* confirming DOMAIN - the daemon, or a room - and retires it when that    *)
(* domain's confirmed high-water id (lmid) covers it.  A room may refuse a *)
(* mutation ("deopt"); the client then re-enqueues it on the daemon.  The  *)
(* refusal is told by a frame on the room's socket and again by a durable  *)
(* row the daemon carries, while sockets drop and envelopes are re-sent.   *)
(*                                                                         *)
(* A mutation is an opaque member of Op (a mutator name and its            *)
(* arguments).  Rows are not modelled: what a release does to the base is  *)
(* the ledger prefix it covers (ReleaseGate models how one release stays   *)
(* coherent).  The authorities are external to the client; the daemon is   *)
(* written after packages/reference/server/src/optimistic.ts.              *)
(*                                                                         *)
(* JavaScript runs a handler to completion.  A handler that loops is a run *)
(* of steps here, and call / fence keep every other client step disabled   *)
(* until it is done.                                                       *)
(***************************************************************************)
EXTENDS Naturals, Sequences, FiniteSets

CONSTANTS
  Op,             \* invocations: a mutator name with its arguments
  Rooms,          \* room domains ("room:doc")
  Daemon,         \* the daemon domain
  Table,          \* tables a mutator can touch
  Touches,        \* [Op -> SUBSET Table]: `touched`
  Folded,         \* operations invoked through invokeFolded
  Key,            \* fold keys
  KeyOf,          \* [Folded -> Key]
  Deferred,       \* keys that are folded with deferAcrossWrites
  Routes,         \* [Op -> SUBSET Domain]: what domainPolicy may answer
  Fragile,        \* operations whose re-invocation may throw
  Queued,         \* domains with a pushMutation sender of their own (HTTP)
  Leased,         \* rooms whose subscriptions present a lease token
  Durable,        \* rooms whose fence bundle the client subscribes
  Patient,        \* TRUE: the user waits for every lmid stream to hydrate
  MaxReconnects,  \* bound: socket drops
  MaxDown         \* bound: frames in flight to the client, per channel

Domain == Rooms \cup {Daemon}

ASSUME ConstantsAssumption ==
  /\ Daemon \notin Rooms
  /\ Touches \in [Op -> SUBSET Table]
  /\ Folded \subseteq Op
  /\ KeyOf \in [Folded -> Key]
  /\ Routes \in [Op -> SUBSET Domain]
  /\ Queued \subseteq Domain
  /\ Leased \subseteq Rooms
  /\ Durable \subseteq Rooms
  /\ Patient \in BOOLEAN
  /\ MaxReconnects \in Nat
  /\ MaxDown \in Nat

VARIABLES
  \* the client (OptimisticBackend)
  pending,      \* pendingMutations; `born` is the position in the array
  births,       \* number of entries ever pushed
  folds,        \* the open folds; `born` points to the pending entry
  nextMid,      \* per domain
  dealSeq,      \* the client-global deal counter
  watermark,    \* per domain
  processed,    \* outcomesProcessed, per room
  call,         \* the invokeWith being run: empty or one record
  fence,        \* the system frames being folded: empty or one record
  hydrated,     \* domains whose lmid stream has released once
  faulted,      \* foldConfirm has thrown
  \* the sources and the wires
  awaiting,     \* awaitingAuthedHello, per domain
  held,         \* pendingPushes, per domain
  up,           \* envelopes on their way to a domain's authority
  down,         \* frames on their way to the client
  reconnects,
  \* the authorities
  ledger,       \* per domain, the processed mids in order: op and verdict
  told,         \* per domain, 1 + the lmid of the last release sent, or 0
  flushed,      \* per room, the ledger prefix co-committed on the daemon
  fenceSent,    \* per room, the prefix of it sent on this daemon socket
  \* history
  issued,       \* per domain, the operation each mid was dealt to
  invoked,      \* operations the application has invoked
  superseded,   \* folded operations overwritten by a later one
  snapped       \* operations whose re-invocation threw

clientVars == <<pending, births, folds, nextMid, dealSeq, watermark, processed,
                call, fence, hydrated, faulted>>
wireVars   == <<awaiting, held, up, down, reconnects>>
authVars   == <<ledger, told, flushed, fenceSent>>
histVars   == <<issued, invoked, superseded, snapped>>
vars       == <<clientVars, wireVars, authVars, histVars>>

Applied  == "applied"
Rejected == "rejected"
Deopt    == "deopt"
Verdict  == {Applied, Rejected, Deopt}

Entry    == [op: Op, mid: Nat, seq: Nat, domain: Domain, born: Nat]
Fold     == [key: Key, op: Folded, born: Nat]
Envelope == [mid: Nat, op: Op]
Record   == [op: Op, kind: Verdict]
\* outcome: the verdict on mid n.  release: lmid n with the data it confirms.
\* fence: the daemon-carried rows of a room, mids from+1..n, with lmid n.
Frame    == [t: {"outcome", "release", "fence"}, domain: Domain, from: Nat, n: Nat]

\* An unflushed fold has mid = null in the code.
Unsent == 0

\* Type invariant of the client, the wires and the authorities.
TypeOK ==
  /\ pending \in SUBSET Entry
  /\ births \in Nat
  /\ folds \in SUBSET Fold
  /\ nextMid \in [Domain -> Nat \ {0}]
  /\ dealSeq \in Nat
  /\ watermark \in [Domain -> Nat]
  /\ processed \in [Rooms -> SUBSET Nat]
  /\ call \in SUBSET [op: Op, domain: Domain]
  /\ fence \in SUBSET [room: Rooms, n: Nat, todo: SUBSET Nat]
  /\ hydrated \in SUBSET Domain
  /\ faulted \in BOOLEAN
  /\ awaiting \in [Domain -> BOOLEAN]
  /\ held \in [Domain -> Seq(Envelope)]
  /\ up \in [Domain -> Seq(Envelope)]
  /\ down \in [Domain -> Seq(Frame)]
  /\ reconnects \in Nat
  /\ ledger \in [Domain -> Seq(Record)]
  /\ told \in [Domain -> Nat]
  /\ flushed \in [Rooms -> Nat]
  /\ fenceSent \in [Rooms -> Nat]
  /\ issued \in [Domain -> Seq(Op)]
  /\ invoked \in SUBSET Op
  /\ superseded \in SUBSET Op
  /\ snapped \in SUBSET Op

-----------------------------------------------------------------------------
(* Dealing and shipping. *)

\* No handler of the client is half-way: handlers are atomic for everyone.
Quiet == call = {} /\ fence = {}
Idle  == Quiet /\ ~faulted

\* dealMid: the domain's next mid, stamped with the client-global seq, for `op`.
DealMid(d, op) ==
  /\ nextMid' = [nextMid EXCEPT ![d] = @ + 1]
  /\ dealSeq' = dealSeq + 1
  /\ issued'  = [issued EXCEPT ![d] = Append(@, op)]

\* Mutant: a new envelope overtakes the held ones.
PushMutationAtOnce(d, env) ==
  up' = [up EXCEPT ![d] = Append(@, env)] /\ UNCHANGED held

\* pushMutation: a domain with its own sender bypasses the socket; a re-connected
\* lease-auth socket holds envelopes until its first authenticated hello.
PushMutation(d, env) ==
  IF awaiting[d] /\ d \notin Queued
    THEN held' = [held EXCEPT ![d] = Append(@, env)] /\ UNCHANGED up
    ELSE up' = [up EXCEPT ![d] = Append(@, env)] /\ UNCHANGED held

DealAndPush(d, op) ==
  /\ DealMid(d, op)
  /\ PushMutation(d, [mid |-> nextMid[d], op |-> op])

Overlaps(o, p) == Touches[o] \cap Touches[p] # {}

\* Mutant: a write does not flush the folds it overlaps.
OverlappingNone(op) == {f \in folds : FALSE}

\* The folds a write of `op` must flush first (drainOverlapping).
Overlapping(op) == {f \in folds : f.key \notin Deferred /\ Overlaps(f.op, op)}

-----------------------------------------------------------------------------
(* invoke, invokeFolded and the deopt re-invocation. *)

\* invokeWith, up to the prediction: it is applied before any mid is dealt.  A
\* mutator that throws here changes nothing and is not a step.
Invoke(op, d) ==
  /\ Idle
  /\ op \notin Folded \cup invoked
  /\ d \in Routes[op]
  /\ Patient => hydrated = Domain
  /\ call' = {[op |-> op, domain |-> d]}
  /\ invoked' = invoked \cup {op}
  /\ UNCHANGED <<pending, births, folds, nextMid, dealSeq, watermark, processed, fence,
                 hydrated, faulted, wireVars, authVars, issued, superseded, snapped>>

\* Mutant: the flushed fold stays open.
FlushFoldOpen(f, d) ==
  /\ pending' = {IF p.born = f.born
                   THEN [p EXCEPT !.mid = nextMid[d], !.seq = dealSeq + 1, !.domain = d]
                   ELSE p : p \in pending}
  /\ DealAndPush(d, f.op)
  /\ UNCHANGED folds

\* flushFold: the domain is resolved again from the final arguments, the mid is
\* dealt now, and the latest arguments ship (even if the entry left `pending`).
FlushFold(f, d) ==
  /\ folds' = folds \ {f}
  /\ pending' = {IF p.born = f.born
                   THEN [p EXCEPT !.mid = nextMid[d], !.seq = dealSeq + 1, !.domain = d]
                   ELSE p : p \in pending}
  /\ DealAndPush(d, f.op)

\* The debounce timer, flushFolds() or a handle's flush().
FlushTimer ==
  /\ Idle
  /\ \E f \in folds : \E d \in Routes[f.op] : FlushFold(f, d)
  /\ UNCHANGED <<births, watermark, processed, call, fence, hydrated, faulted,
                 awaiting, down, reconnects, authVars, invoked, superseded, snapped>>

\* drainOverlapping, one fold: oldest first, before the write's own mid.
Drain ==
  /\ \E c \in call : \E f \in Overlapping(c.op) :
       /\ \A g \in Overlapping(c.op) : f.born <= g.born
       /\ \E d \in Routes[f.op] : FlushFold(f, d)
  /\ UNCHANGED <<births, watermark, processed, call, fence, hydrated, faulted,
                 awaiting, down, reconnects, authVars, invoked, superseded, snapped>>

\* The rest of invokeWith: deal, push the entry, ship.
FinishInvoke ==
  /\ \E c \in call :
       /\ Overlapping(c.op) = {}
       /\ pending' = pending \cup
            {[op |-> c.op, mid |-> nextMid[c.domain], seq |-> dealSeq + 1,
              domain |-> c.domain, born |-> births]}
       /\ DealAndPush(c.domain, c.op)
  /\ births' = births + 1
  /\ call' = {}
  /\ UNCHANGED <<folds, watermark, processed, fence, hydrated, faulted, awaiting, down,
                 reconnects, authVars, invoked, superseded, snapped>>

\* invokeFolded: overwrite the key's open entry in place, or push a new one
\* without a mid.
InvokeFolded(op, d) ==
  /\ Idle
  /\ op \in Folded \ invoked
  /\ d \in Routes[op]
  /\ Patient => hydrated = Domain
  /\ invoked' = invoked \cup {op}
  /\ LET open == {f \in folds : f.key = KeyOf[op]}
     IN \/ /\ open = {}
           /\ folds' = folds \cup {[key |-> KeyOf[op], op |-> op, born |-> births]}
           /\ pending' = pending \cup
                {[op |-> op, mid |-> Unsent, seq |-> Unsent, domain |-> d, born |-> births]}
           /\ births' = births + 1
           /\ UNCHANGED superseded
        \/ \E f \in open :
             /\ folds' = (folds \ {f}) \cup {[f EXCEPT !.op = op]}
             /\ pending' = {IF p.born = f.born THEN [p EXCEPT !.op = op, !.domain = d] ELSE p
                              : p \in pending}
             /\ superseded' = superseded \cup {f.op}
             /\ UNCHANGED births
  /\ UNCHANGED <<nextMid, dealSeq, watermark, processed, call, fence, hydrated, faulted,
                 wireVars, authVars, issued, snapped>>

-----------------------------------------------------------------------------
(* Outcomes: the deopt handshake. *)

\* Mutant: the processed set is not consulted.
ToHandleAgain(r, m) == m < nextMid[r]

\* The verdict on mid m is ours (issued here) and has not been handled.
ToHandle(r, m) == m < nextMid[r] /\ m \notin processed[r]

\* Mutant: the flipped entry is re-sequenced as if it were a new write.
FlipToBack(p) == [p EXCEPT !.domain = Daemon, !.mid = nextMid[Daemon], !.seq = dealSeq + 1]

\* A deopted entry moves to the daemon in place: a fresh daemon mid, its own seq.
Flip(p) == [p EXCEPT !.domain = Daemon, !.mid = nextMid[Daemon]]

\* handleMutationOutcome for the verdict the room recorded on mid m.
HandleMutationOutcome(r, m) ==
  LET v == ledger[r][m]
      entries == {p \in pending : p.domain = r /\ p.mid = m}
      ours == ToHandle(r, m)
  IN \/ \* never issued here, or a duplicate: ignored
        /\ ~ours
        /\ UNCHANGED <<processed, pending, call, nextMid, dealSeq, issued, up, held, snapped>>
     \/ \* final: the reason is surfaced, the burnt mid's release retires the entry
        /\ ours /\ v.kind # Deopt
        /\ processed' = [processed EXCEPT ![r] = @ \cup {m}]
        /\ UNCHANGED <<pending, call, nextMid, dealSeq, issued, up, held, snapped>>
     \/ \* still pending: flip it
        /\ ours /\ v.kind = Deopt /\ entries # {}
        /\ processed' = [processed EXCEPT ![r] = @ \cup {m}]
        /\ pending' = {IF p \in entries THEN Flip(p) ELSE p : p \in pending}
        /\ \E p \in entries : DealAndPush(Daemon, p.op)
        /\ UNCHANGED <<call, snapped>>
     \/ \* already retired: re-invoke what the frame echoes, pinned to the daemon
        /\ ours /\ v.kind = Deopt /\ entries = {}
        /\ processed' = [processed EXCEPT ![r] = @ \cup {m}]
        /\ call' = {[op |-> v.op, domain |-> Daemon]}
        /\ UNCHANGED <<pending, nextMid, dealSeq, issued, up, held, snapped>>
     \/ \* ... and that re-invocation throws: surfaced as a rejection
        /\ ours /\ v.kind = Deopt /\ entries = {} /\ v.op \in Fragile
        /\ processed' = [processed EXCEPT ![r] = @ \cup {m}]
        /\ snapped' = snapped \cup {v.op}
        /\ UNCHANGED <<pending, call, nextMid, dealSeq, issued, up, held>>

\* A mutationOutcome frame of the room's socket: out of band, never buffered.
DeliverOutcome(r) ==
  /\ Idle
  /\ down[r] # <<>> /\ Head(down[r]).t = "outcome"
  /\ down' = [down EXCEPT ![r] = Tail(@)]
  /\ HandleMutationOutcome(r, Head(down[r]).n)
  /\ UNCHANGED <<births, folds, watermark, fence, hydrated, faulted, awaiting, reconnects,
                 authVars, invoked, superseded>>

-----------------------------------------------------------------------------
(* Releases: confirm, retire, reconcile. *)

Larger(a, b) == IF a >= b THEN a ELSE b

\* Mutant: any lmid beyond the counter is a fault, a previous session's too.
ConfirmedAheadAlways(d, lmid) == lmid >= nextMid[d]

\* foldConfirm throws: an lmid we never issued while mids of ours are in flight.
ConfirmedAhead(d, lmid) ==
  /\ lmid >= nextMid[d]
  /\ \E p \in pending : p.domain = d /\ p.mid # Unsent

\* Mutant: the adopted counter skips a mid.
FoldConfirmSkip(d, lmid) ==
  /\ watermark' = [watermark EXCEPT ![d] = Larger(@, lmid)]
  /\ IF lmid >= nextMid[d]
       THEN /\ nextMid' = [nextMid EXCEPT ![d] = lmid + 2]
            /\ issued' = [issued EXCEPT ![d] = [i \in 1..lmid |-> ledger[d][i].op]]
       ELSE UNCHANGED <<nextMid, issued>>

\* foldConfirm: adopt the counter of a previous session, advance the watermark.
FoldConfirm(d, lmid) ==
  /\ watermark' = [watermark EXCEPT ![d] = Larger(@, lmid)]
  /\ IF lmid >= nextMid[d]
       THEN /\ nextMid' = [nextMid EXCEPT ![d] = lmid + 1]
            /\ issued' = [issued EXCEPT ![d] = [i \in 1..lmid |-> ledger[d][i].op]]
       ELSE UNCHANGED <<nextMid, issued>>

\* Mutant: an unflushed fold has mid 0 and counts as covered.
RetireAndReplayUnsent(wm) ==
  LET kept == {p \in pending : p.mid > wm[p.domain]}
  IN \E thrown \in SUBSET {p \in kept : p.op \in Fragile} :
       /\ pending' = kept \ thrown
       /\ snapped' = snapped \cup {p.op : p \in thrown}

\* applyRelease and the replay of runReconcileCycle: drop what its own domain's
\* watermark covers, re-invoke the rest; a re-invocation that throws is dropped.
RetireAndReplay(wm) ==
  LET kept == {p \in pending : p.mid = Unsent \/ p.mid > wm[p.domain]}
  IN \E thrown \in SUBSET {p \in kept : p.op \in Fragile} :
       /\ pending' = kept \ thrown
       /\ snapped' = snapped \cup {p.op : p \in thrown}

\* onGateProgress on a domain's own channel: its lmid row and the data it confirms.
DeliverRelease(d) ==
  /\ Idle
  /\ down[d] # <<>> /\ Head(down[d]).t = "release"
  /\ down' = [down EXCEPT ![d] = Tail(@)]
  /\ LET lmid == Head(down[d]).n
     IN IF ConfirmedAhead(d, lmid)
          THEN /\ faulted' = TRUE
               /\ UNCHANGED <<watermark, nextMid, issued, pending, snapped, hydrated>>
          ELSE /\ FoldConfirm(d, lmid)
               /\ RetireAndReplay(watermark')
               /\ hydrated' = hydrated \cup {d}
               /\ UNCHANGED faulted
  /\ UNCHANGED <<births, folds, dealSeq, processed, call, fence, awaiting, held, up,
                 reconnects, authVars, invoked, superseded>>

\* Mutant: the outcome rows of a release are not looked at.
OutcomeRowsMissed(f) == {}

\* The outcome rows a fence frame carries: the mids of it that were not applied.
OutcomeRows(f) == {m \in f.from + 1 .. f.n : ledger[f.domain][m].kind # Applied}

\* foldSystemFrames begins: the outcome rows a release carries are judged first.
DeliverFence ==
  /\ Idle
  /\ down[Daemon] # <<>> /\ Head(down[Daemon]).t = "fence"
  /\ down' = [down EXCEPT ![Daemon] = Tail(@)]
  /\ LET f == Head(down[Daemon])
     IN fence' = {[room |-> f.domain, n |-> f.n, todo |-> OutcomeRows(f)]}
  /\ UNCHANGED <<pending, births, folds, nextMid, dealSeq, watermark, processed, call,
                 hydrated, faulted, awaiting, held, up, reconnects, authVars, histVars>>

\* Category 1: one outcome row through the same machine as the frames.
FoldOutcomeRow ==
  /\ call = {}
  /\ \E f \in fence : \E m \in f.todo :
       /\ \A k \in f.todo : m <= k
       /\ fence' = {[f EXCEPT !.todo = @ \ {m}]}
       /\ HandleMutationOutcome(f.room, m)
  /\ UNCHANGED <<births, folds, watermark, hydrated, faulted, awaiting, down, reconnects,
                 authVars, invoked, superseded>>

\* Category 2: the daemon-carried room ledger, then applyRelease.
FoldRoomLedger ==
  /\ call = {}
  /\ \E f \in fence :
       /\ f.todo = {}
       /\ IF ConfirmedAhead(f.room, f.n)
            THEN /\ faulted' = TRUE
                 /\ UNCHANGED <<watermark, nextMid, issued, pending, snapped>>
            ELSE /\ FoldConfirm(f.room, f.n)
                 /\ RetireAndReplay(watermark')
                 /\ UNCHANGED faulted
  /\ fence' = {}
  /\ UNCHANGED <<births, folds, dealSeq, processed, call, hydrated, wireVars, authVars,
                 invoked, superseded>>

-----------------------------------------------------------------------------
(* The socket. *)

Unconfirmed(d) == {[mid |-> p.mid, op |-> p.op] : p \in {q \in pending : q.domain = d /\ q.mid # Unsent}}


\* resendPending: the domain's sent entries, in mid order, with their own mids.
ResendPending(d) ==
  {s \in UNION {[1..n -> Unconfirmed(d)] : n \in 0 .. nextMid[d] - 1} :
     /\ \A e \in Unconfirmed(d) : \E i \in DOMAIN s : s[i] = e
     /\ \A i, j \in DOMAIN s : i < j => s[i].mid < s[j].mid}

\* A domain's socket drops and re-opens: both directions are lost, resync clears
\* the held envelopes and re-sends at once, and every stream starts over.
Reconnect(d) ==
  /\ Idle
  /\ reconnects < MaxReconnects
  /\ reconnects' = reconnects + 1
  /\ awaiting' = [awaiting EXCEPT ![d] = d \in Leased]
  /\ \E s \in ResendPending(d) :
       IF d \in Queued
         THEN up' = [up EXCEPT ![d] = @ \o s] /\ held' = [held EXCEPT ![d] = <<>>]
         ELSE IF d \in Leased
           THEN up' = [up EXCEPT ![d] = <<>>] /\ held' = [held EXCEPT ![d] = s]
           ELSE up' = [up EXCEPT ![d] = s] /\ held' = [held EXCEPT ![d] = <<>>]
  /\ down' = [down EXCEPT ![d] = <<>>]
  /\ told' = [told EXCEPT ![d] = 0]
  /\ fenceSent' = IF d = Daemon THEN [r \in Rooms |-> 0] ELSE fenceSent
  /\ UNCHANGED <<clientVars, ledger, flushed, histVars>>

\* openSubscriber on the first authenticated hello: the held envelopes flush.
AuthedHello(d) ==
  /\ Idle
  /\ awaiting[d]
  /\ awaiting' = [awaiting EXCEPT ![d] = FALSE]
  /\ up' = [up EXCEPT ![d] = @ \o held[d]]
  /\ held' = [held EXCEPT ![d] = <<>>]
  /\ UNCHANGED <<clientVars, down, reconnects, authVars, histVars>>

-----------------------------------------------------------------------------
(* The authorities. *)

OutcomeFrame(r, m) == [t |-> "outcome", domain |-> r, from |-> 0, n |-> m]

Verdicts(d) == IF d = Daemon THEN {Applied, Rejected} ELSE Verdict

\* A redelivered mid is absorbed; a room answers it again if it was not applied.
\* The next mid is judged; any other mid is refused as a gap.
Receive(d) ==
  /\ Quiet
  /\ up[d] # <<>>
  /\ Len(down[d]) < MaxDown
  /\ up' = [up EXCEPT ![d] = Tail(@)]
  /\ LET env == Head(up[d])
     IN \/ /\ env.mid <= Len(ledger[d])
           /\ UNCHANGED ledger
           /\ IF d \in Rooms /\ ledger[d][env.mid].kind # Applied
                THEN down' = [down EXCEPT ![d] = Append(@, OutcomeFrame(d, env.mid))]
                ELSE UNCHANGED down
        \/ /\ env.mid = Len(ledger[d]) + 1
           /\ \E v \in Verdicts(d) :
                /\ ledger' = [ledger EXCEPT ![d] = Append(@, [op |-> env.op, kind |-> v])]
                /\ IF d \in Rooms /\ v # Applied
                     THEN down' = [down EXCEPT ![d] = Append(@, OutcomeFrame(d, env.mid))]
                     ELSE UNCHANGED down
        \/ /\ env.mid > Len(ledger[d]) + 1
           /\ UNCHANGED <<ledger, down>>
  /\ UNCHANGED <<clientVars, awaiting, held, reconnects, told, flushed, fenceSent, histVars>>

\* The lmid row and the data of the same commit, released by one progress frame.
SendRelease(d) ==
  /\ Quiet
  /\ told[d] # Len(ledger[d]) + 1
  /\ Len(down[d]) < MaxDown
  /\ down' = [down EXCEPT ![d] =
                Append(@, [t |-> "release", domain |-> d, from |-> 0, n |-> Len(ledger[d])])]
  /\ told' = [told EXCEPT ![d] = Len(ledger[d]) + 1]
  /\ UNCHANGED <<clientVars, awaiting, held, up, reconnects, ledger, flushed, fenceSent, histVars>>

\* A room's flush co-commits its ledger row and the outcome rows it covers.
RoomFlush(r) ==
  /\ Quiet
  /\ r \in Durable
  /\ flushed[r] < Len(ledger[r])
  /\ flushed' = [flushed EXCEPT ![r] = Len(ledger[r])]
  /\ UNCHANGED <<clientVars, wireVars, ledger, told, fenceSent, histVars>>

\* The daemon streams the fence bundle: a snapshot on a new socket, then batches.
SendFence(r) ==
  /\ Quiet
  /\ fenceSent[r] < flushed[r]
  /\ Len(down[Daemon]) < MaxDown
  /\ down' = [down EXCEPT ![Daemon] =
                Append(@, [t |-> "fence", domain |-> r, from |-> fenceSent[r], n |-> flushed[r]])]
  /\ fenceSent' = [fenceSent EXCEPT ![r] = flushed[r]]
  /\ UNCHANGED <<clientVars, awaiting, held, up, reconnects, ledger, told, flushed, histVars>>

-----------------------------------------------------------------------------
(* Specifications. *)

\* A session over the authorities' state `past`: empty, or left by an earlier
\* session of the same clientID.
InitWith(past) ==
  /\ pending = {} /\ births = 0 /\ folds = {}
  /\ nextMid = [d \in Domain |-> 1] /\ dealSeq = 0
  /\ watermark = [d \in Domain |-> 0]
  /\ processed = [r \in Rooms |-> {}]
  /\ call = {} /\ fence = {} /\ hydrated = {} /\ faulted = FALSE
  /\ awaiting = [d \in Domain |-> FALSE]
  /\ held = [d \in Domain |-> <<>>]
  /\ up = [d \in Domain |-> <<>>]
  /\ down = [d \in Domain |-> <<>>]
  /\ reconnects = 0
  /\ ledger = past
  /\ told = [d \in Domain |-> 0]
  /\ flushed = [r \in Rooms |-> IF r \in Durable THEN Len(past[r]) ELSE 0]
  /\ fenceSent = [r \in Rooms |-> 0]
  /\ issued = [d \in Domain |-> <<>>]
  /\ invoked = {o \in Op : \E d \in Domain : \E i \in DOMAIN past[d] : past[d][i].op = o}
  /\ superseded = {} /\ snapped = {}

Init == InitWith([d \in Domain |-> <<>>])

Client ==
  \/ \E op \in Op, d \in Domain : Invoke(op, d) \/ InvokeFolded(op, d)
  \/ Drain \/ FinishInvoke \/ FlushTimer
  \/ \E r \in Rooms : DeliverOutcome(r)
  \/ \E d \in Domain : DeliverRelease(d) \/ AuthedHello(d)
  \/ DeliverFence \/ FoldOutcomeRow \/ FoldRoomLedger

Network == \E d \in Domain : Reconnect(d)

Authority ==
  \/ \E d \in Domain : Receive(d) \/ SendRelease(d)
  \/ \E r \in Rooms : RoomFlush(r) \/ SendFence(r)

Next == Client \/ Network \/ Authority

Spec == Init /\ [][Next]_vars

\* The event loop runs every handler to its end and takes the next frame or timer;
\* sockets deliver; the authorities process what they receive and publish it.
Fairness ==
  /\ WF_vars(Drain) /\ WF_vars(FinishInvoke) /\ WF_vars(FlushTimer)
  /\ WF_vars(DeliverFence) /\ WF_vars(FoldOutcomeRow) /\ WF_vars(FoldRoomLedger)
  /\ \A d \in Domain : /\ WF_vars(DeliverRelease(d)) /\ WF_vars(AuthedHello(d))
                        /\ WF_vars(Receive(d)) /\ WF_vars(SendRelease(d))
  /\ \A r \in Rooms : /\ WF_vars(DeliverOutcome(r))
                       /\ WF_vars(RoomFlush(r)) /\ WF_vars(SendFence(r))

FairSpec == Spec /\ Fairness

-----------------------------------------------------------------------------
(* Properties. *)

\* The mids of a domain at which an authority has decided `op` with verdict k.
Decided(op, k) ==
  {x \in UNION {{d} \X DOMAIN ledger[d] : d \in Domain} :
     ledger[x[1]][x[2]] = [op |-> op, kind |-> k]}

\* An operation takes effect at most once over all the authorities, whatever is
\* re-sent, re-answered by a frame and by a row, or re-invoked after a deopt
\* (handleMutationOutcome's processed set, the authorities' mid check).
AppliedAtMostOnce == \A op \in Op : Cardinality(Decided(op, Applied)) <= 1

\* foldConfirm's "confirmed lmid is ahead of issued mids" is never thrown: with
\* one writer per clientID no authority confirms a mid the client did not issue.
NeverFaulted == ~faulted

\* Mid m of domain d was dealt to `op`.
Dealt(d, m, op) == m \in DOMAIN issued[d] /\ issued[d][m] = op

\* A mid names one operation for ever: what is held, on the wire, pending or
\* recorded by the authority under mid m of a domain is the operation m was dealt
\* to, however often it is re-sent and whatever a fold overwrites meanwhile
\* (dealMid, flushFold, resendPending: "with their ORIGINAL mids").
MidBinding ==
  \A d \in Domain :
    /\ \A i \in DOMAIN up[d] : Dealt(d, up[d][i].mid, up[d][i].op)
    /\ \A i \in DOMAIN held[d] : Dealt(d, held[d][i].mid, held[d][i].op)
    /\ \A p \in pending : p.domain = d /\ p.mid # Unsent => Dealt(d, p.mid, p.op)
    /\ \A m \in DOMAIN ledger[d] \cap DOMAIN issued[d] : Dealt(d, m, ledger[d][m].op)

\* A deopt verdict on mid m of room r that is still on its way to the client.
DeoptInFlight(r, m) ==
  \/ \E i \in DOMAIN up[r] : up[r][i].mid = m
  \/ \E i \in DOMAIN held[r] : held[r][i].mid = m
  \/ \E i \in DOMAIN down[r] : down[r][i].t = "outcome" /\ down[r][i].n = m
  \/ r \in Durable /\ fenceSent[r] < m
  \/ \E i \in DOMAIN down[Daemon] :
       LET f == down[Daemon][i]
       IN f.t = "fence" /\ f.domain = r /\ f.from < m /\ m <= f.n
  \/ \E f \in fence : f.room = r /\ m \in f.todo

\* No write is lost: an invoked operation is pending, or was applied or finally
\* rejected by an authority, or was overwritten by a later fold of its key, or
\* threw on re-invocation, or was deopted by a room whose verdict still reaches
\* the client.  A retired deopt must not pass for a success (backend.ts
\* 1702-1717, the named invariant).
NoLostWrite ==
  \A op \in invoked :
    \/ op \in superseded \cup snapped
    \/ \E c \in call : c.op = op
    \/ \E p \in pending : p.op = op
    \/ Decided(op, Applied) \cup Decided(op, Rejected) # {}
    \/ \E x \in Decided(op, Deopt) : x[2] \notin processed[x[1]] /\ DeoptInFlight(x[1], x[2])

\* A domain's authority never meets a gap: the envelopes on their way continue
\* its ledger (reference server applyMutation: "A mid AHEAD of lmid+1 can't
\* happen over an ordered transport").
NoMidGap ==
  \A d \in Domain : up[d] # <<>> => Head(up[d]).mid <= Len(ledger[d]) + 1

\* Replay follows send order: of two entries, the later ordinary write replays
\* after an earlier ordinary write, and after an earlier fold it overlaps, which
\* it flushed first; a deopt keeps the entry's place (runReconcileCycle's seq
\* sort, drainOverlapping, handleMutationOutcome step 4).
ReplayFollowsSendOrder ==
  \A p, q \in pending :
    (/\ p.born < q.born
     /\ q.op \notin Folded
     /\ p.op \in Folded => KeyOf[p.op] \notin Deferred /\ Overlaps(p.op, q.op))
      => p.seq # Unsent /\ p.seq < q.seq

\* Every mutation is eventually resolved: from some point on nothing is pending
\* and each invoked operation was applied, rejected, overwritten or threw.
Resolved(op) == op \in superseded \cup snapped \/ Decided(op, Applied) \cup Decided(op, Rejected) # {}

=============================================================================
