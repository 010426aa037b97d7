------------------------------ MODULE CutReplica ------------------------------
(***************************************************************************)
(* What a channel's coherence gate promises the views above it             *)
(* (packages/optimistic/src/backend.ts, computeRelease and applyRelease):   *)
(* the client holds, per subscribed stream, a set of commits, and moves    *)
(* only from one consistent cut of the authority's history to a later one. *)
(*                                                                         *)
(* A live stream shows exactly the commits of the cut that touch it.  A    *)
(* stream that is being (re)subscribed is not live: it keeps what it       *)
(* showed, may be brought forward, and never shows a commit beyond the cut.*)
(***************************************************************************)
EXTENDS Naturals, Sequences

CONSTANT Stream

VARIABLES
  log,      \* the authority's commits: per commit, the streams it touches
  cut,      \* the last commit of the cut the client is at
  live,     \* the streams that show the cut
  shown     \* per stream, the commits it shows

vars == <<log, cut, live, shown>>

Upto(s, c) == {i \in 1..c : s \in log[i]}

Init ==
  /\ log = <<>> /\ cut = 0 /\ live = {}
  /\ shown = [s \in Stream |-> {}]

Commit ==
  /\ \E touched \in SUBSET Stream : log' = Append(log, touched)
  /\ UNCHANGED <<cut, live, shown>>

\* Streams stop being live (a reconnect, an overflow, an error): nothing visible moves.
Suspend ==
  /\ live' \subseteq live
  /\ UNCHANGED <<log, cut, shown>>

\* A view is given up: its rows go at once.
Drop(s) ==
  /\ live' = live \ {s}
  /\ shown' = [shown EXCEPT ![s] = {}]
  /\ UNCHANGED <<log, cut>>

\* One atomic release.
Release ==
  /\ cut' \in cut..Len(log)
  /\ live \subseteq live'
  /\ \A s \in Stream :
       IF s \in live' THEN shown'[s] = Upto(s, cut')
                      ELSE /\ shown[s] \subseteq shown'[s]
                           /\ shown'[s] \subseteq Upto(s, cut')
  /\ UNCHANGED log

Next == Commit \/ Suspend \/ Release \/ \E s \in Stream : Drop(s)

Spec == Init /\ [][Next]_vars
=============================================================================
