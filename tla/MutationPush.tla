---------------------------- MODULE MutationPush ----------------------------
(***************************************************************************)
(* The HTTP path of a mutation: the client's queue (packages/remote/src/   *)
(* mutation-queue.ts), the API server that runs a batch envelope by        *)
(* envelope (packages/api-server/src/index.ts, pushMutations) and the      *)
(* backend the mutator runs in.  The queue keeps one batch outstanding and *)
(* sends the SAME batch again when its request fails; the failed request   *)
(* may still be running at the server, so several calls for one batch can  *)
(* be served at once.  A remote backend (daemon or SQL service) absorbs a  *)
(* mid it has processed; the Postgres backend runs whatever it is given.   *)
(* One client identity; other clients appear as commit conflicts and as    *)
(* the freedom of a reading mutator to accept or to throw.                 *)
(***************************************************************************)
EXTENDS Integers, Sequences, FiniteSets

CONSTANTS N,                \* the client deals the mids 1 .. N
          MaxBatch,         \* opts.maxBatch
          Slots,            \* bound: calls the server can be serving at once
          MaxFaults,        \* bound: broken connections, driver errors, conflicts
          ConflictAttempts, \* MUTATOR_CONFLICT_MAX_ATTEMPTS
          Denied,           \* mids refused before any transaction
          Reads,            \* mids whose mutator reads, and so may throw
          Throws,           \* mids whose onRejected callback throws
          Backends          \* the backends the server may be configured with

Mid == 1 .. N
Slot == 1 .. Slots

ASSUME PushAssumption ==
    /\ N \in Nat \ {0} /\ MaxBatch \in Nat \ {0} /\ Slots \in Nat \ {0}
    /\ MaxFaults \in Nat /\ ConflictAttempts \in Nat \ {0}
    /\ Denied \subseteq Mid /\ Reads \subseteq Mid \ Denied /\ Throws \subseteq Mid
    /\ Backends \subseteq {"remote", "postgres"}

VARIABLES backend,   \* the server's MutationBackend
          next,      \* the next mid the client deals
          queue,     \* envelopes not yet confirmed, in order
          size,      \* length of the batch being delivered; 0: not flushing
          live,      \* the slot of the call the client awaits; 0: none
          resolved,  \* mids whose promise resolved
          told,      \* mids onRejected was called with
          calls,     \* the calls at the server or on the wire
          lmid,      \* the client's last_mutation_id in the store
          effects,   \* the mids whose writes committed, in commit order
          faults

client == <<next, queue, size, live, resolved, told>>
store == <<lmid, effects>>
vars == <<backend, client, calls, store, faults>>

Answers == {"accepted", "rejected"}

(* A call: its batch, the envelope it is at, the answers so far, the lmid  *)
(* its open session started from and the runs lost to commit conflicts.    *)
Call == [pc : {"none", "wire", "run", "open", "rejecting", "done", "failed"},
         batch : Seq(Mid), pos : Nat, outs : Seq(Answers), snap : 0 .. N, tries : Nat]

NewCall(pc, batch) ==
    [pc |-> pc, batch |-> batch, pos |-> 1, outs |-> <<>>, snap |-> 0, tries |-> 0]

NoCall == NewCall("none", <<>>)

Larger(a, b) == IF a > b THEN a ELSE b
Smaller(a, b) == IF a < b THEN a ELSE b

FreeSlots(cs) == {s \in Slot : cs[s].pc = "none"}

Init ==
    /\ backend \in Backends
    /\ next = 1 /\ queue = <<>> /\ size = 0 /\ live = 0
    /\ resolved = {} /\ told = {}
    /\ calls = [s \in Slot |-> NoCall]
    /\ lmid = 0 /\ effects = <<>>
    /\ faults = 0

-----------------------------------------------------------------------------
(* The client's queue. *)

Prefix(q, k) == SubSeq(q, 1, k)

(* Issue a request for the first k envelopes of q, in a free slot of cs. *)
SendBatch(cs, q, k) ==
    \E s \in FreeSlots(cs) :
        /\ \A t \in FreeSlots(cs) : s <= t
        /\ live' = s
        /\ size' = k
        /\ calls' = [cs EXCEPT ![s] = NewCall("wire", Prefix(q, k))]

Flush(cs, q) == SendBatch(cs, q, Smaller(MaxBatch, Len(q)))

(* The sender: push, then flush unless a flush is running. *)
Enqueue ==
    /\ next <= N
    /\ next' = next + 1
    /\ queue' = Append(queue, next)
    /\ IF size > 0 THEN UNCHANGED <<size, live, calls>> ELSE Flush(calls, queue')
    /\ UNCHANGED <<backend, resolved, told, store, faults>>

(* The rejected envelopes of the reply c whose callback throws. *)
Thrown(c) == {i \in 1 .. Len(c.batch) : c.outs[i] = "rejected" /\ c.batch[i] \in Throws}

(* Report the reply c in order: the rejections, and the promises.  A      *)
(* callback that throws leaves the rest of the batch unreported.           *)
Report(c) ==
    LET reached == {i \in 1 .. Len(c.batch) : \A j \in Thrown(c) : i <= j}
    IN  /\ told' = told \cup {c.batch[i] : i \in {j \in reached : c.outs[j] = "rejected"}}
        /\ resolved' = resolved \cup {c.batch[i] : i \in reached \ Thrown(c)}

ConfirmOneBatch ==
    /\ live # 0
    /\ calls[live].pc = "done"
    /\ Report(calls[live])
    /\ queue' = SubSeq(queue, size + 1, Len(queue))
    /\ size' = 0 /\ live' = 0
    /\ calls' = [calls EXCEPT ![live] = NoCall]
    /\ UNCHANGED <<backend, next, store, faults>>

ConfirmSplicesMaxBatch ==
    /\ live # 0
    /\ calls[live].pc = "done"
    /\ Report(calls[live])
    /\ queue' = SubSeq(queue, MaxBatch + 1, Len(queue))
    /\ LET freed == [calls EXCEPT ![live] = NoCall]
       IN  IF Thrown(calls[live]) = {} /\ queue' # <<>>
           THEN Flush(freed, queue')
           ELSE size' = 0 /\ live' = 0 /\ calls' = freed
    /\ UNCHANGED <<backend, next, store, faults>>

ConfirmAnyReply ==
    /\ live # 0
    /\ calls[live].pc \in {"done", "failed"}
    /\ resolved' = resolved \cup {calls[live].batch[i] : i \in 1 .. Len(calls[live].batch)}
    /\ queue' = SubSeq(queue, size + 1, Len(queue))
    /\ size' = 0 /\ live' = 0
    /\ calls' = [calls EXCEPT ![live] = NoCall]
    /\ UNCHANGED <<backend, next, told, store, faults>>

(* The awaited send resolved: take the batch off the queue, report it and  *)
(* send the next batch.  A throwing callback ends the flush, and what it   *)
(* left queued waits for the next enqueue.                                 *)
Confirm ==
    /\ live # 0
    /\ calls[live].pc = "done"
    /\ Report(calls[live])
    /\ queue' = SubSeq(queue, size + 1, Len(queue))
    /\ LET freed == [calls EXCEPT ![live] = NoCall]
       IN  IF Thrown(calls[live]) = {} /\ queue' # <<>>
           THEN Flush(freed, queue')
           ELSE size' = 0 /\ live' = 0 /\ calls' = freed
    /\ UNCHANGED <<backend, next, store, faults>>

(* The server answered the awaited send with an error: the flush sleeps,   *)
(* holding its batch.                                                      *)
SendFails ==
    /\ live # 0
    /\ calls[live].pc = "failed"
    /\ live' = 0
    /\ calls' = [calls EXCEPT ![live] = NoCall]
    /\ UNCHANGED <<backend, next, queue, size, resolved, told, store, faults>>

(* The awaited send throws because its connection broke: the request never *)
(* arrived or its reply is lost, or it is on its way and will be served.   *)
ConnectionBreaks ==
    /\ live # 0
    /\ faults < MaxFaults
    /\ faults' = faults + 1
    /\ live' = 0
    /\ \/ /\ calls[live].pc \in {"wire", "done", "failed"}
          /\ calls' = [calls EXCEPT ![live] = NoCall]
       \/ /\ calls[live].pc \in {"wire", "run", "open", "rejecting"}
          /\ FreeSlots(calls) # {}
          /\ UNCHANGED calls
    /\ UNCHANGED <<backend, next, queue, size, resolved, told, store>>

(* The backoff ends: the same batch again. *)
Retry ==
    /\ size > 0
    /\ live = 0
    /\ SendBatch(calls, queue, size)
    /\ UNCHANGED <<backend, next, queue, resolved, told, store, faults>>

-----------------------------------------------------------------------------
(* The API server: pushMutations runs a batch strictly in order. *)

At(r) == calls[r].batch[calls[r].pos]

(* A call ends: its reply waits for the client, if the client still does. *)
Ended(r, c) == IF r = live THEN c ELSE NoCall

Fail(r) == calls' = [calls EXCEPT ![r] = Ended(r, [@ EXCEPT !.pc = "failed"])]

(* Push the envelope's outcome, and go on to the next one. *)
Answer(r, out) ==
    LET c == [calls[r] EXCEPT !.outs = Append(@, out), !.snap = 0, !.tries = 0]
    IN  calls' = [calls EXCEPT ![r] =
                    IF c.pos = Len(c.batch)
                    THEN Ended(r, [c EXCEPT !.pc = "done"])
                    ELSE [c EXCEPT !.pc = "run", !.pos = @ + 1]]

Arrive(r) ==
    /\ calls[r].pc = "wire"
    /\ calls' = [calls EXCEPT ![r].pc = "run"]
    /\ UNCHANGED <<backend, client, store, faults>>

AbsorbsNothing(m) == FALSE

(* What the store does with a client-attributed transaction: a remote one  *)
(* absorbs a processed mid and refuses a gap; Postgres commits and takes   *)
(* the greater lmid.                                                       *)
Absorbs(m) == backend = "remote" /\ m <= lmid

Gap(m) == backend = "remote" /\ m > lmid + 1

CommitData(m) == lmid' = Larger(lmid, m) /\ effects' = Append(effects, m)

CommitLmid(m) == lmid' = Larger(lmid, m) /\ UNCHANGED effects

(* transport.reject / lmidOnly: the lmid alone; the answer is a rejection  *)
(* even when the mid was absorbed.                                         *)
RejectMutation(r) ==
    /\ IF Gap(At(r))
       THEN Fail(r) /\ UNCHANGED store
       ELSE Answer(r, "rejected") /\ CommitLmid(At(r))
    /\ UNCHANGED <<backend, client, faults>>

(* Unknown mutator, or not authorized: no transaction. *)
Deny(r) ==
    /\ calls[r].pc = "run"
    /\ At(r) \in Denied
    /\ RejectMutation(r)

(* A mutator that only writes ships its statements as one transaction. *)
Execute(r) ==
    /\ calls[r].pc = "run"
    /\ At(r) \notin Denied \cup Reads
    /\ CASE Absorbs(At(r)) -> Answer(r, "accepted") /\ UNCHANGED store
         [] Gap(At(r)) -> Fail(r) /\ UNCHANGED store
         [] OTHER -> Answer(r, "accepted") /\ CommitData(At(r))
    /\ UNCHANGED <<backend, client, faults>>

(* The first read of a mutator opens the transaction, unless the remote    *)
(* store absorbs the mid there.                                            *)
Begin(r) ==
    /\ calls[r].pc = "run"
    /\ At(r) \in Reads
    /\ CASE Absorbs(At(r)) -> Answer(r, "accepted")
         [] Gap(At(r)) -> Fail(r)
         [] OTHER -> calls' = [calls EXCEPT ![r].pc = "open", ![r].snap = lmid]
    /\ UNCHANGED <<backend, client, store, faults>>

(* A commit conflict: runMutation starts the mutator over, a few times. *)
RunAgain(r) ==
    IF calls[r].tries + 1 < ConflictAttempts
    THEN calls' = [calls EXCEPT ![r].pc = "run", ![r].snap = 0, ![r].tries = @ + 1]
    ELSE Fail(r)

(* The mutator returned: commit the session.  A session that started from  *)
(* an older lmid conflicts with the commit that advanced it.               *)
CommitSession(r) ==
    /\ calls[r].pc = "open"
    /\ IF backend = "remote" /\ calls[r].snap # lmid
       THEN RunAgain(r) /\ UNCHANGED store
       ELSE Answer(r, "accepted") /\ CommitData(At(r))
    /\ UNCHANGED <<backend, client, faults>>

(* The mutator threw: roll back first, commit the lmid alone afterwards. *)
Rollback(r) ==
    /\ calls[r].pc = "open"
    /\ calls' = [calls EXCEPT ![r].pc = "rejecting", ![r].snap = 0]
    /\ UNCHANGED <<backend, client, store, faults>>

RejectRolledBack(r) ==
    /\ calls[r].pc = "rejecting"
    /\ RejectMutation(r)

(* Another client's commit conflicts with the open session. *)
Contend(r) ==
    /\ calls[r].pc = "open"
    /\ backend = "remote"
    /\ faults < MaxFaults
    /\ faults' = faults + 1
    /\ RunAgain(r)
    /\ UNCHANGED <<backend, client, store>>

(* The store step the call is about to ask for. *)
Pending(r) ==
    \/ /\ calls[r].pc = "open"
       /\ backend = "remote" => calls[r].snap = lmid
       /\ CommitData(At(r))
    \/ /\ calls[r].pc = "rejecting" \/ (calls[r].pc = "run" /\ At(r) \in Denied)
       /\ ~Gap(At(r))
       /\ CommitLmid(At(r))
    \/ /\ calls[r].pc = "run" /\ At(r) \notin Denied \cup Reads
       /\ ~Absorbs(At(r)) /\ ~Gap(At(r))
       /\ CommitData(At(r))

(* The store's driver throws: the whole batch fails, and the transaction   *)
(* either rolled back or committed with its reply lost.                    *)
DriverError(r) ==
    /\ calls[r].pc \in {"run", "open", "rejecting"}
    /\ faults < MaxFaults
    /\ faults' = faults + 1
    /\ Fail(r)
    /\ UNCHANGED store \/ Pending(r)
    /\ UNCHANGED <<backend, client>>

Serve(r) ==
    \/ Deny(r) \/ Execute(r) \/ Begin(r)
    \/ CommitSession(r) \/ Rollback(r) \/ RejectRolledBack(r)

Next ==
    \/ Enqueue \/ Confirm \/ SendFails \/ ConnectionBreaks \/ Retry
    \/ \E r \in Slot : Arrive(r) \/ Serve(r) \/ Contend(r) \/ DriverError(r)

(* Timers fire, a request in flight arrives, the server keeps serving a    *)
(* call and the client hears of its end; nobody owes the client an enqueue.*)
Fairness ==
    /\ WF_vars(Confirm) /\ WF_vars(Retry) /\ WF_vars(SendFails)
    /\ \A r \in Slot : WF_vars(Arrive(r)) /\ WF_vars(Serve(r))

Spec == Init /\ [][Next]_vars

FairSpec == Spec /\ Fairness

-----------------------------------------------------------------------------
(* The types of the variables; the batch under delivery is a prefix of the *)
(* queue, and the awaited call carries exactly that batch.                 *)
TypeOK ==
    /\ backend \in Backends
    /\ next \in 1 .. N + 1
    /\ queue \in Seq(Mid)
    /\ size \in 0 .. Len(queue)
    /\ live \in 0 .. Slots
    /\ resolved \subseteq Mid /\ told \subseteq Mid
    /\ calls \in [Slot -> Call]
    /\ lmid \in 0 .. N
    /\ effects \in Seq(Mid)
    /\ faults \in 0 .. MaxFaults
    /\ live # 0 => calls[live].pc # "none" /\ calls[live].batch = Prefix(queue, size)

(* Mids reach the store contiguously, whatever mix of retried and stale    *)
(* calls is being served: no envelope is ever about to run ahead of the    *)
(* stored lmid by more than one.  This is the invariant mutation-queue.ts  *)
(* exists to restore over an unordered hop.                                *)
NeverAhead ==
    \A r \in Slot : calls[r].pc \in {"run", "open", "rejecting"} => At(r) <= lmid + 1

(* With a remote backend the committed writes are a strictly increasing    *)
(* run of mids: retrying a batch whose reply was lost, or a stale call     *)
(* finishing late, neither repeats an envelope's writes nor reorders them. *)
EffectsInOrder ==
    backend = "remote" => \A i, j \in 1 .. Len(effects) : i < j => effects[i] < effects[j]

(* Whatever the backend, a retried batch runs no envelope's writes twice:  *)
(* what MutationBackend's contract says of an infrastructure failure.      *)
ReplaysAbsorbed ==
    \A i, j \in 1 .. Len(effects) : effects[i] = effects[j] => i = j

(* A promise resolves, and a rejection is reported, only for an envelope   *)
(* the store has durably processed.                                        *)
ResolvedIsDurable == resolved \cup told \subseteq 1 .. lmid

(* Every envelope handed to the sender is eventually confirmed, if no      *)
(* onRejected callback throws: a broken connection, a driver error or a    *)
(* conflict delays the queue and never wedges it.                          *)
Drains == \A m \in Mid : next > m ~> m \in resolved

=============================================================================
