----------------------------- MODULE ReleaseGate -----------------------------
(***************************************************************************)
(* One channel's coherence gate: frames are buffered under the commit      *)
(* version (cv) they belong to, and a progress frame releases everything   *)
(* up to its cvMin at once (packages/optimistic/src/backend.ts onFrame,    *)
(* onGateProgress, computeRelease, overflow, resetGate), on top of the     *)
(* source that subscribes and re-subscribes the streams                    *)
(* (packages/remote/src/optimistic-source.ts).                             *)
(*                                                                         *)
(* A stream is a retained query or the lmid system query.  The rows of a   *)
(* stream are abstracted to the set of commits they reflect: a snapshot    *)
(* replaces the set, a batch adds one commit.  Commits are numbered        *)
(* globally; the cv of commit i is i - base, because a restarted daemon    *)
(* counts again from zero.  One socket delivers its frames in order and    *)
(* loses them all when it drops, so a subscriber never sees a seq gap or a *)
(* batch of an older epoch after its hello.                                *)
(***************************************************************************)
EXTENDS Naturals, Sequences, FiniteSets

CONSTANTS
  Query,        \* data queries
  Lmid,         \* the lmid system query (LMID_QID)
  BufferCap,    \* bufferCap
  MaxCommits,   \* bound: commits
  MaxTroubles,  \* bound: socket drops, query errors and releases, all together
  MaxDown       \* bound: frames in flight

Stream == Query \cup {Lmid}

\* A buffer that cannot hold one snapshot per stream would overflow for ever.
ASSUME GateAssumption ==
  /\ IsFiniteSet(Query) /\ Lmid \notin Query
  /\ {MaxCommits, MaxTroubles, MaxDown, BufferCap} \subseteq Nat
  /\ BufferCap >= Cardinality(Stream)

VARIABLES
  commits,    \* daemon: per commit, the streams it touches
  bootId,     \* daemon: its boot id
  base,       \* daemon: commits made before its last start
  serving,    \* daemon: streams subscribed on the current socket
  pos,        \* daemon: per stream, the last commit its worker has derived
  told,       \* daemon: the last commit a progress frame covered
  owed,       \* daemon: frames were sent since the last progress frame
  want,       \* subscribe messages on their way, or waiting for a retry timer
  leaving,    \* unsubscribe messages on their way
  down,       \* frames on their way
  troubles,   \* socket drops, query errors and releases so far
  retained,   \* backend: remoteSubs of this channel, and the lmid query
  subs,       \* source: its subs map
  open,       \* source: subs with a subscriber (a hello has arrived)
  lastBootId, \* source: lastBootId, 0 for undefined
  buffer,     \* gate.buffer
  appliedCv,  \* gate.appliedCv
  data,       \* per stream, the commits folded into the base
  fresh,      \* history: streams whose current epoch's snapshot was released
  cut         \* history: the commit the last release reached

daemonVars == <<commits, bootId, base, serving, pos, told, owed>>
sourceVars == <<retained, subs, open, lastBootId>>
gateVars   == <<buffer, appliedCv, data>>
history    == <<fresh, cut>>
vars == <<daemonVars, want, leaving, down, troubles, sourceVars, gateVars, history>>

\* The commits up to i that touch stream s.
Touching(s, i) == {j \in 1..i : s \in commits[j]}
Now == Len(commits)

Frame == [t: {"hello", "snapshot", "batch", "progress", "error", "rejected"},
          s: Stream, i: Nat, cv: Nat, boot: Nat]
Buffered == [s: Stream, kind: {"snapshot", "batch"}, i: Nat, cv: Nat]

\* Type invariant of the daemon, the wire, the source and the gate.
TypeOK ==
  /\ commits \in Seq(SUBSET Stream)
  /\ {bootId, base, told, troubles, lastBootId, appliedCv, cut} \subseteq Nat
  /\ {serving, want, leaving, retained, subs, open, fresh} \subseteq SUBSET Stream
  /\ owed \in BOOLEAN
  /\ pos \in [Stream -> Nat]
  /\ down \in Seq(Frame)
  /\ buffer \in Seq(Buffered)
  /\ data \in [Stream -> SUBSET Nat]

-----------------------------------------------------------------------------
(* The daemon, as the client sees it. *)

CanSend(n) == Len(down) + n <= MaxDown

\* Mutant: the cv of a frame is one short.
MessageShort(t, s, i) == [t |-> t, s |-> s, i |-> i, cv |-> i - base - 1, boot |-> bootId]

Message(t, s, i) == [t |-> t, s |-> s, i |-> i, cv |-> i - base, boot |-> bootId]

Commit ==
  /\ Now < MaxCommits
  /\ \E touched \in SUBSET Stream \ {{}} : commits' = Append(commits, touched)
  /\ UNCHANGED <<bootId, base, serving, pos, told, owed, want, leaving, down, troubles,
                 sourceVars, gateVars, history>>

\* A subscribe: a hello, and a snapshot at the position of the query's worker, which
\* never goes back and is not behind a progress frame already sent.
Serve(s) ==
  /\ s \in want
  /\ CanSend(2)
  /\ want' = want \ {s} /\ leaving' = leaving \ {s}
  /\ serving' = serving \cup {s}
  /\ owed' = TRUE
  /\ \E p \in told..Now :
       /\ p >= pos[s]
       /\ pos' = [pos EXCEPT ![s] = p]
       /\ down' = down \o <<Message("hello", s, base), Message("snapshot", s, p)>>
  /\ UNCHANGED <<commits, bootId, base, told, troubles, sourceVars, gateVars, history>>

Unserve(s) ==
  /\ s \in leaving
  /\ leaving' = leaving \ {s}
  /\ serving' = serving \ {s}
  /\ UNCHANGED <<commits, bootId, base, pos, told, owed, want, down, troubles,
                 sourceVars, gateVars, history>>

\* A worker derives the next commit for one stream: a frame if it is touched.
Derive(s) ==
  /\ s \in serving /\ pos[s] < Now
  /\ CanSend(1)
  /\ pos' = [pos EXCEPT ![s] = @ + 1]
  /\ IF s \in commits[pos[s] + 1]
       THEN down' = Append(down, Message("batch", s, pos[s] + 1)) /\ owed' = TRUE
       ELSE UNCHANGED <<down, owed>>
  /\ UNCHANGED <<commits, bootId, base, serving, told, want, leaving, troubles,
                 sourceVars, gateVars, history>>

\* cvMin is the position of the slowest worker that serves the connection.
Progress ==
  /\ CanSend(1)
  /\ \E slowest \in serving :
       /\ \A s \in serving : pos[slowest] <= pos[s]
       /\ owed \/ pos[slowest] > told
       /\ down' = Append(down, Message("progress", Lmid, pos[slowest]))
       /\ told' = pos[slowest]
  /\ owed' = FALSE
  /\ UNCHANGED <<commits, bootId, base, serving, pos, want, leaving, troubles,
                 sourceVars, gateVars, history>>

\* A query fails at the daemon, to be retried (a worker fault, shedding) or for good.
Fault(s) ==
  /\ troubles < MaxTroubles
  /\ s \in serving
  /\ CanSend(1)
  /\ troubles' = troubles + 1
  /\ serving' = serving \ {s}
  /\ \E t \in {"error", "rejected"} :
       /\ t = "rejected" => s # Lmid
       /\ down' = Append(down, Message(t, s, base))
  /\ UNCHANGED <<commits, bootId, base, pos, told, owed, want, leaving,
                 sourceVars, gateVars, history>>

-----------------------------------------------------------------------------
(* The source and the gate. *)

First == Head(down)
Receive(types) ==
  /\ down # <<>>
  /\ First.t \in types
  /\ down' = Tail(down)

\* The buffer keeps the frames at these places, in their order.
InOrder(places) ==
  UNION {{at \in [1..n -> places] : /\ \A x \in places : \E i \in 1..n : at[i] = x
                                    /\ \A i, j \in 1..n : i < j => at[i] < at[j]}
         : n \in 0..BufferCap}
Keep(places) == \E at \in InOrder(places) : buffer' = [i \in DOMAIN at |-> buffer[at[i]]]

\* Mutant: the buffer is not swept.
WithoutNone(s) == DOMAIN buffer

\* The places of the frames of other streams than s.
Without(s) == {n \in DOMAIN buffer : buffer[n].s # s}

\* Mutant: the old cv watermark survives the restart.
ResetBufferOnly == buffer' = <<>> /\ UNCHANGED appliedCv

\* resetGate, from observeBootId: the new daemon's cvs are not bounded by the old ones.
ResetGate == buffer' = <<>> /\ appliedCv' = 0

\* nhello: restart detection first, known query or not; then a new epoch, whose
\* hello drops the stream's frames still buffered from the older one.
OnHello ==
  /\ Receive({"hello"})
  /\ lastBootId' = First.boot
  /\ open' = open \cup ({First.s} \cap subs)
  /\ IF lastBootId # 0 /\ First.boot # lastBootId
       THEN ResetGate
       ELSE /\ IF First.s \in subs THEN Keep(Without(First.s)) ELSE UNCHANGED buffer
            /\ UNCHANGED appliedCv
  /\ fresh' = fresh \ {First.s}
  /\ UNCHANGED <<daemonVars, want, leaving, troubles, retained, subs, data, cut>>

\* Mutant: the lmid query is not re-subscribed.
OverflowQueriesOnly ==
  /\ buffer' = <<>>
  /\ subs' = retained /\ open' = open \ Query
  /\ leaving' = leaving \cup (retained \cap Query) /\ want' = want \cup (retained \cap Query)
  /\ fresh' = {}

\* overflow: everything buffered is dropped and every retained stream re-registered.
Overflow ==
  /\ buffer' = <<>>
  /\ subs' = retained /\ open' = {}
  /\ leaving' = leaving \cup retained /\ want' = retained
  /\ fresh' = {}

\* applyBatch passes a frame on only to a subscriber; onFrame drops a stale batch,
\* buffers any other frame, and escapes when the buffer outgrows its cap.
OnData ==
  /\ Receive({"snapshot", "batch"})
  /\ LET longer == Append(buffer, [s |-> First.s, kind |-> First.t, i |-> First.i, cv |-> First.cv])
         stale == First.t = "batch" /\ First.cv <= appliedCv
     IN \/ /\ First.s \notin open \/ stale
           /\ UNCHANGED <<buffer, subs, open, want, leaving, fresh>>
        \/ /\ First.s \in open /\ ~stale
           /\ Len(longer) <= BufferCap
           /\ buffer' = longer
           /\ UNCHANGED <<subs, open, want, leaving, fresh>>
        \/ /\ First.s \in open /\ ~stale
           /\ Len(longer) > BufferCap
           /\ Overflow
  /\ UNCHANGED <<daemonVars, troubles, retained, lastBootId, appliedCv, data, cut>>

\* Mutant: every buffered frame of the stream is folded, whatever its cv.
FoldAll(s, cvMin) ==
  LET snapshots == {n \in DOMAIN buffer : buffer[n].s = s /\ buffer[n].kind = "snapshot"}
      batches == {n \in DOMAIN buffer : buffer[n].s = s /\ buffer[n].kind = "batch"}
  IN (IF snapshots = {} THEN data[s] ELSE UNION {Touching(s, buffer[n].i) : n \in snapshots})
       \cup {buffer[n].i : n \in batches}

\* What stream s holds once the frames at cv <= cvMin are folded in (cv, arrival)
\* order: its last snapshot, if one is released, and the batches behind it.
Fold(s, cvMin) ==
  LET ready == {n \in DOMAIN buffer : buffer[n].s = s /\ buffer[n].cv <= cvMin}
      Before(m, n) == \/ buffer[m].cv < buffer[n].cv
                      \/ buffer[m].cv = buffer[n].cv /\ m < n
      snapshots == {n \in ready : buffer[n].kind = "snapshot"}
      last == {n \in snapshots : \A m \in snapshots \ {n} : Before(m, n)}
      batches == {n \in ready \ snapshots : \A m \in last : Before(m, n)}
  IN (IF last = {} THEN data[s] ELSE UNION {Touching(s, buffer[n].i) : n \in last})
       \cup {buffer[n].i : n \in batches}

\* A subscribe of s is outstanding: what arrives until its hello is of an older epoch.
Superseded(s) ==
  \/ s \in want \cup leaving
  \/ \E n \in DOMAIN down : down[n].t = "hello" /\ down[n].s = s

\* onGateProgress / computeRelease.
OnProgress ==
  /\ Receive({"progress"})
  /\ data' = [s \in Stream |-> Fold(s, First.cv)]
  /\ Keep({n \in DOMAIN buffer : buffer[n].cv > First.cv})
  /\ appliedCv' = IF First.cv > appliedCv THEN First.cv ELSE appliedCv
  /\ fresh' = fresh \cup {s \in open : ~Superseded(s) /\ \E n \in DOMAIN buffer :
                            /\ buffer[n].s = s /\ buffer[n].kind = "snapshot"
                            /\ buffer[n].cv <= First.cv}
  /\ cut' = First.i
  /\ UNCHANGED <<daemonVars, want, leaving, troubles, sourceVars>>

\* onQueryError: retryable keeps the sub and its rows and re-subscribes after a delay
\* (one timer at a time); otherwise the source forgets the sub.
OnQueryError ==
  /\ Receive({"error", "rejected"})
  /\ \/ /\ First.s \notin subs
        /\ UNCHANGED <<subs, open, want, fresh>>
     \/ /\ First.s \in subs /\ First.t = "error"
        /\ open' = open \ {First.s}
        /\ want' = want \cup {First.s}
        /\ fresh' = fresh \ {First.s}
        /\ UNCHANGED subs
     \/ /\ First.s \in subs /\ First.t = "rejected"
        /\ subs' = subs \ {First.s}
        /\ open' = open \ {First.s}
        /\ want' = want \ {First.s}
        /\ fresh' = fresh \ {First.s}
  /\ UNCHANGED <<daemonVars, leaving, troubles, retained, lastBootId, gateVars, cut>>

\* The socket drops, with or without a daemon restart, and re-opens: resync
\* re-subscribes every sub of the source.
Reconnect ==
  /\ troubles < MaxTroubles
  /\ troubles' = troubles + 1
  /\ down' = <<>> /\ leaving' = {}
  /\ open' = {} /\ want' = subs
  /\ serving' = {} /\ owed' = FALSE
  /\ \/ UNCHANGED <<bootId, base, told>>
     \/ bootId' = bootId + 1 /\ base' = Now /\ told' = Now
  /\ fresh' = {}
  /\ UNCHANGED <<commits, pos, retained, subs, lastBootId, gateVars, cut>>

\* releaseRemoteQuery / unregisterQuery, the last retain of a query: unsubscribe, sweep
\* its buffered frames and drop its rows.
ReleaseQuery(q) ==
  /\ troubles < MaxTroubles
  /\ q \in retained
  /\ troubles' = troubles + 1
  /\ retained' = retained \ {q} /\ subs' = subs \ {q} /\ open' = open \ {q}
  /\ want' = want \ {q} /\ leaving' = leaving \cup {q}
  /\ Keep(Without(q))
  /\ data' = [data EXCEPT ![q] = {}]
  /\ fresh' = fresh \ {q}
  /\ UNCHANGED <<daemonVars, down, lastBootId, appliedCv, cut>>

\* retainRemote, the first retain of a query: it registers on the source.  A query
\* retained again has a fresh qid, which no old frame carries.
RetainQuery(q) ==
  /\ q \notin retained \cup leaving
  /\ \A n \in DOMAIN down : down[n].s # q
  /\ retained' = retained \cup {q} /\ subs' = subs \cup {q} /\ open' = open \ {q}
  /\ want' = want \cup {q}
  /\ UNCHANGED <<daemonVars, leaving, down, troubles, lastBootId, gateVars, history>>

-----------------------------------------------------------------------------
Init ==
  /\ commits = <<>> /\ bootId = 1 /\ base = 0 /\ told = 0 /\ owed = FALSE
  /\ serving = {} /\ pos = [s \in Stream |-> 0]
  /\ want = {Lmid} /\ leaving = {} /\ down = <<>>
  /\ troubles = 0
  /\ retained = {Lmid} /\ subs = {Lmid} /\ open = {} /\ lastBootId = 0
  /\ buffer = <<>> /\ appliedCv = 0 /\ data = [s \in Stream |-> {}]
  /\ fresh = {} /\ cut = 0

Daemon == Commit \/ Progress \/ \E s \in Stream : Serve(s) \/ Unserve(s) \/ Derive(s) \/ Fault(s)
Client == OnHello \/ OnData \/ OnProgress \/ OnQueryError
            \/ \E q \in Query : ReleaseQuery(q) \/ RetainQuery(q)

Next == Daemon \/ Client \/ Reconnect

Spec == Init /\ [][Next]_vars

\* Frames are handled, a daemon that runs keeps serving, deriving and reporting.
Fairness ==
  /\ WF_vars(OnHello) /\ WF_vars(OnData) /\ WF_vars(OnProgress) /\ WF_vars(OnQueryError)
  /\ SF_vars(Progress)
  /\ \A s \in Stream : SF_vars(Serve(s)) /\ WF_vars(Unserve(s)) /\ SF_vars(Derive(s))

FairSpec == Spec /\ Fairness

-----------------------------------------------------------------------------
\* The gate implements the abstract replica: the client moves from one consistent
\* cut to a later one.  In particular the lmid row never confirms a commit whose data
\* a live query does not show yet, nor the reverse; no overflow, reconnect, restart or
\* query error takes back a commit already shown; and nothing beyond the cut is ever
\* visible (computeRelease, onFrame, resetGate, overflow).
Replica == INSTANCE CutReplica WITH log <- commits, live <- fresh, shown <- data
IsReplica == Replica!Spec

\* A query the application gave up leaves no rows behind: a frame of it that was
\* buffered or in flight is never folded afterwards (unregisterQuery, "GC").
NoOrphanRows == \A s \in Stream \ retained : data[s] = {}

\* Once the commits, faults and drops stop, every stream the source still holds shows
\* every commit: a dropped frame is always made good by a fresh snapshot, whatever
\* overflowed, faulted or restarted before.
EventuallyCurrent == <>[](\A s \in subs : data[s] = Touching(s, Now))

\* Confirmation and data of the same commit are released together, for every query
\* that has shown a snapshot of it: a commit the lmid stream confirms is in the
\* rows of each retained query it touches (comment in computeRelease).
ConfirmedWithData ==
  \A i \in data[Lmid] : \A q \in retained \cap Query :
     (q \in commits[i] /\ data[q] # {}) => i \in data[q]
=============================================================================
