-------------------------- MODULE ReleaseGate_proofs --------------------------
(***************************************************************************)
(* The coherence gate implements the abstract replica of CutReplica, and   *)
(* leaves no row of a released query behind, for any queries, commits,     *)
(* buffer cap and faults.                                                  *)
(*                                                                         *)
(* The argument follows the epoch of one stream: the frames behind its     *)
(* last hello, on the wire or already buffered, are one snapshot and every *)
(* later commit that touches the stream, and no progress frame overtakes   *)
(* what its stream has not sent, unless an error comes first.              *)
(***************************************************************************)
EXTENDS ReleaseGate, TLAPS

IsHello(f, s) == f.t = "hello" /\ f.s = s
IsSnap(f, s) == f.t = "snapshot" /\ f.s = s
IsBatch(f, s) == f.t = "batch" /\ f.s = s
IsErr(f, s) == f.t \in {"error", "rejected"} /\ f.s = s
IsProgress(f) == f.t = "progress"
HeldSnap(f, s) == f.kind = "snapshot" /\ f.s = s
HeldBatch(f, s) == f.kind = "batch" /\ f.s = s

Touches(s, j) == j \in 1..Now /\ s \in commits[j]

(* The daemon's positions: no progress frame is ahead of a stream it serves.  *)
Positions ==
  /\ base <= told /\ cut <= told /\ told <= Now
  /\ \A s \in Stream : pos[s] <= Now
  /\ \A s \in serving : told <= pos[s]

(* The frames on their way: of the running daemon, none behind the cut, and   *)
(* none overtaken by a progress frame.                                        *)
Wire ==
  \A n \in DOMAIN down :
    /\ down[n].boot = bootId /\ down[n].cv + base = down[n].i
    /\ down[n].t = "batch" => /\ Touches(down[n].s, down[n].i) /\ down[n].i <= pos[down[n].s]
                              /\ cut < down[n].i /\ base < down[n].i
    /\ down[n].t = "snapshot" => cut <= down[n].i /\ down[n].i <= pos[down[n].s]
    /\ down[n].t = "progress" => cut <= down[n].i /\ down[n].i <= told
WireOrder ==
  \A m, n \in DOMAIN down : m < n /\ down[m].t = "progress" =>
    /\ down[n].t \in {"snapshot", "progress"} => down[m].i <= down[n].i
    /\ down[n].t = "batch" => down[m].i < down[n].i

(* The buffer: nothing the cut has passed, and only retained streams.         *)
Buffer ==
  \A n \in DOMAIN buffer :
    /\ buffer[n].s \in retained /\ buffer[n].i <= pos[buffer[n].s]
    /\ lastBootId = bootId => buffer[n].cv + base = buffer[n].i
    /\ buffer[n].kind = "batch" => Touches(buffer[n].s, buffer[n].i) /\ cut < buffer[n].i
    /\ buffer[n].kind = "snapshot" => cut <= buffer[n].i

(* A restarted daemon speaks first with a hello, which finds nobody open.     *)
Boots ==
  /\ lastBootId <= bootId /\ 0 < bootId
  /\ lastBootId = 0 => buffer = <<>> /\ appliedCv = 0
  /\ lastBootId = bootId => appliedCv = 0 \/ appliedCv + base <= cut
  /\ lastBootId # bootId => /\ open = {}
                            /\ IF down = <<>> THEN serving = {} ELSE down[1].t = "hello"

(* The client's sets. *)
Sets ==
  /\ open \subseteq subs /\ subs \subseteq retained /\ fresh \subseteq open
  /\ leaving \cap subs \subseteq want

Shown == \A s \in Stream : data[s] \subseteq Touching(s, cut)

-----------------------------------------------------------------------------
(* The epoch of s that starts behind place h of the wire: its last hello, or  *)
(* 0 when the hello has been taken.                                           *)
Active(s) == s \in subs /\ s \notin want /\ s \notin leaving
NoHello(s, h) == \A n \in DOMAIN down : h < n => ~IsHello(down[n], s)
Opens(s, h) == Active(s) /\ NoHello(s, h) /\ IF h = 0 THEN s \in open ELSE IsHello(down[h], s)

Alive(s, h) == s \in serving \/ \E n \in DOMAIN down : h < n /\ IsErr(down[n], s)
Paced(s, h) ==
  \A n \in DOMAIN down : h < n /\ IsProgress(down[n]) =>
    down[n].i <= pos[s] \/ \E m \in DOMAIN down : h < m /\ m < n /\ IsErr(down[m], s)

OnWire(s, h, j) == \E n \in DOMAIN down : h < n /\ IsBatch(down[n], s) /\ down[n].i = j
InBuffer(s, j) == \E n \in DOMAIN buffer : HeldBatch(buffer[n], s) /\ buffer[n].i = j
Due(s, p, j) == p < j /\ j <= pos[s] /\ Touches(s, j)

(* The snapshot is still on the wire. *)
Coming(s, h) ==
  \E x \in DOMAIN down :
    /\ h < x /\ IsSnap(down[x], s)
    /\ \A n \in DOMAIN down : h < n /\ IsSnap(down[n], s) => n = x
    /\ \A n \in DOMAIN down : h < n /\ IsBatch(down[n], s) => x < n /\ down[x].i < down[n].i
    /\ \A j \in Nat : Due(s, down[x].i, j) => OnWire(s, h, j)

(* It waits in the buffer. *)
Waiting(s) ==
  \E x \in DOMAIN buffer :
    /\ HeldSnap(buffer[x], s)
    /\ \A n \in DOMAIN buffer : HeldSnap(buffer[n], s) => n = x
    /\ \A n \in DOMAIN buffer : HeldBatch(buffer[n], s) => buffer[x].i < buffer[n].i
    /\ \A n \in DOMAIN down : ~IsSnap(down[n], s) /\ (IsBatch(down[n], s) => buffer[x].i < down[n].i)
    /\ \A j \in Nat : Due(s, buffer[x].i, j) => OnWire(s, 0, j) \/ InBuffer(s, j)

(* It has been released. *)
Current(s) ==
  /\ data[s] = Touching(s, cut)
  /\ \A n \in DOMAIN buffer : ~HeldSnap(buffer[n], s)
  /\ \A n \in DOMAIN down : ~IsSnap(down[n], s)
  /\ \A j \in Nat : Due(s, cut, j) => OnWire(s, 0, j) \/ InBuffer(s, j)

NotHeld(s) == \A n \in DOMAIN buffer : buffer[n].s # s

Epoch(s) ==
  /\ s \in fresh => Opens(s, 0) /\ Current(s)
  /\ \A h \in DOMAIN down \cup {0} : Opens(s, h) =>
       /\ Alive(s, h) /\ Paced(s, h)
       /\ \/ Coming(s, h) /\ (h = 0 => NotHeld(s))
          \/ h = 0 /\ (Waiting(s) \/ s \in fresh)

GateInv ==
  /\ TypeOK /\ Positions /\ Wire /\ WireOrder /\ Buffer /\ Boots /\ Sets /\ Shown /\ NoOrphanRows
  /\ \A s \in Stream : Epoch(s)

-----------------------------------------------------------------------------
(* Frames come off the wire at the front and join it at the end. *)
Leaves(d, e) ==
  /\ DOMAIN d = 1..Len(d) /\ DOMAIN e = 1..Len(e) /\ Len(e) \in Nat /\ Len(d) = Len(e) + 1
  /\ \A n \in DOMAIN e : n + 1 \in DOMAIN d /\ e[n] = d[n + 1]
Grows(d, e) ==
  /\ DOMAIN d = 1..Len(d) /\ DOMAIN e = 1..Len(e) /\ Len(d) \in Nat /\ Len(e) \in Nat /\ Len(d) <= Len(e)
  /\ \A n \in DOMAIN d : e[n] = d[n]

(* A frame taken leaves the others one place forward. *)
LEMMA TailLeaves ==
  ASSUME NEW S, NEW d \in Seq(S), d # <<>>
  PROVE  Tail(d) \in Seq(S) /\ Leaves(d, Tail(d)) /\ 1 \in DOMAIN d /\ Head(d) = d[1] /\ d[1] \in S
  BY SMTT(30) DEF Leaves

(* A frame sent leaves the others where they are. *)
LEMMA AppendGrows ==
  ASSUME NEW S, NEW d \in Seq(S), NEW f \in S
  PROVE  /\ Append(d, f) \in Seq(S) /\ Grows(d, Append(d, f)) /\ Len(Append(d, f)) = Len(d) + 1
         /\ Append(d, f)[Len(d) + 1] = f
  BY SMTT(30) DEF Grows

(* Sending nothing is the smallest growth. *)
LEMMA SameGrows ==
  ASSUME NEW S, NEW d \in Seq(S)
  PROVE  Grows(d, d)
  BY SMTT(30) DEF Grows

(* What is first on the wire stays first when it grows. *)
LEMMA GrownHead ==
  ASSUME NEW S, NEW d \in Seq(S), NEW e \in Seq(S), Grows(d, e), d # <<>>
  PROVE  e # <<>> /\ e[1] = d[1]
  BY SMTT(30) DEF Grows

(* Filtering the buffer keeps the frames at the given places, each once. *)
Kept(places) ==
  \E at : /\ \A n \in DOMAIN buffer' : at[n] \in places /\ buffer'[n] = buffer[at[n]]
          /\ \A m \in places : \E n \in DOMAIN buffer' : at[n] = m
          /\ \A m, n \in DOMAIN buffer' : at[m] = at[n] => m = n

(* Keep leaves exactly the frames at its places, in their order. *)
LEMMA KeepKeeps ==
  ASSUME TypeOK, NEW places \in SUBSET DOMAIN buffer, Keep(places)
  PROVE  buffer' \in Seq(Buffered) /\ Kept(places)
  <1>1. PICK n \in 0..BufferCap : \E at \in [1..n -> places] :
          /\ \A x \in places : \E i \in 1..n : at[i] = x
          /\ \A i, j \in 1..n : i < j => at[i] < at[j]
          /\ buffer' = [i \in DOMAIN at |-> buffer[at[i]]]
    BY Zenon DEF Keep, InOrder
  <1>2. PICK at \in [1..n -> places] :
          /\ \A x \in places : \E i \in 1..n : at[i] = x
          /\ \A i, j \in 1..n : i < j => at[i] < at[j]
          /\ buffer' = [i \in DOMAIN at |-> buffer[at[i]]]
    BY <1>1, Zenon
  <1>3. buffer' = [i \in 1..n |-> buffer[at[i]]]
    BY <1>2
  <1>4. n \in Nat /\ buffer \in Seq(Buffered) /\ \A m \in places : m \in Nat
    BY GateAssumption, SMT DEF TypeOK
  <1>5. buffer' \in [1..n -> Buffered]
    BY <1>3, <1>4, SMT
  <1>6. buffer' \in Seq(Buffered) /\ DOMAIN buffer' = 1..n
    BY <1>4, <1>5, SMT
  <1>7. \A i, j \in 1..n : at[i] = at[j] => i = j
    BY <1>2, <1>4, SMT
  <1>8. \A m \in DOMAIN buffer' : at[m] \in places /\ buffer'[m] = buffer[at[m]]
    BY <1>3, <1>6, SMT
  <1>9. \A m \in places : \E j \in DOMAIN buffer' : at[j] = m
    BY <1>2, <1>6, Zenon
  <1>10. \A m, j \in DOMAIN buffer' : at[m] = at[j] => m = j
    BY <1>6, <1>7, Zenon
  <1> QED
    BY <1>6, <1>8, <1>9, <1>10, Zenon DEF Kept

-----------------------------------------------------------------------------
(* What holds of the daemon, the wire and the gate whatever the epochs are.   *)
BaseInv ==
  TypeOK /\ Positions /\ Wire /\ WireOrder /\ Buffer /\ Boots /\ Sets /\ Shown /\ NoOrphanRows

(* The fields of a frame on the wire. *)
LEMMA FrameTypes ==
  ASSUME NEW f \in Frame
  PROVE  /\ f.t \in {"hello", "snapshot", "batch", "progress", "error", "rejected"}
         /\ f.s \in Stream /\ f.i \in Nat /\ f.cv \in Nat /\ f.boot \in Nat
  BY DEF Frame

(* The fields of a buffered frame. *)
LEMMA HeldTypes ==
  ASSUME NEW f \in Buffered
  PROVE  f.s \in Stream /\ f.kind \in {"snapshot", "batch"} /\ f.i \in Nat /\ f.cv \in Nat
  BY DEF Buffered

(* A message of the running daemon is numbered from its base. *)
LEMMA MessageTypes ==
  ASSUME TypeOK, NEW t \in {"hello", "snapshot", "batch", "progress", "error", "rejected"},
         NEW s \in Stream, NEW i \in Nat, base <= i, NEW f, f = Message(t, s, i)
  PROVE  f \in Frame /\ f.t = t /\ f.s = s /\ f.i = i /\ f.boot = bootId /\ f.cv + base = f.i
  <1>1. i - base \in Nat /\ (i - base) + base = i /\ base \in Nat /\ bootId \in Nat
    BY SMT DEF TypeOK
  <1> QED
    BY <1>1 DEF Message, Frame

(* What the type invariant says of each variable. *)
LEMMA Types ==
  ASSUME TypeOK
  PROVE  /\ commits \in Seq(SUBSET Stream) /\ Now \in Nat /\ DOMAIN commits = 1..Now
         /\ bootId \in Nat /\ base \in Nat /\ told \in Nat /\ troubles \in Nat /\ lastBootId \in Nat
         /\ appliedCv \in Nat /\ cut \in Nat
         /\ serving \subseteq Stream /\ want \subseteq Stream /\ leaving \subseteq Stream /\ retained \subseteq Stream
         /\ subs \subseteq Stream /\ open \subseteq Stream /\ fresh \subseteq Stream
         /\ owed \in BOOLEAN /\ \A s \in Stream : pos[s] \in Nat
         /\ down \in Seq(Frame) /\ DOMAIN down = 1..Len(down) /\ Len(down) \in Nat
         /\ \A n \in DOMAIN down : n \in Nat /\ 0 < n /\ down[n] \in Frame
         /\ buffer \in Seq(Buffered) /\ \A n \in DOMAIN buffer : n \in Nat /\ buffer[n] \in Buffered
         /\ \A s \in Stream : data[s] \in SUBSET Nat
  BY SMTT(30) DEF TypeOK, Now

(* A frame that may join the wire. *)
Fit(f) ==
  /\ f.boot = bootId /\ f.cv + base = f.i
  /\ f.t = "batch" => Touches(f.s, f.i) /\ f.i <= pos'[f.s] /\ told < f.i
  /\ f.t = "snapshot" => told <= f.i /\ f.i <= pos'[f.s]
  /\ f.t = "progress" => told <= f.i /\ f.i <= told'

(* New frames that fit behind the progress already sent keep the wire in order. *)
LEMMA WireGrows ==
  ASSUME TypeOK, TypeOK', Positions, Wire, WireOrder, Grows(down, down'),
         UNCHANGED <<commits, bootId, base, cut>>, told <= told', \A s \in Stream : pos[s] <= pos'[s],
         \A n \in DOMAIN down' : n \notin DOMAIN down => Fit(down'[n]),
         \A m, n \in DOMAIN down' : m \notin DOMAIN down /\ m < n => down'[m].t # "progress"
  PROVE  Wire' /\ WireOrder'
  <1>1. /\ base \in Nat /\ told \in Nat /\ told' \in Nat /\ cut \in Nat /\ base <= told /\ cut <= told
        /\ \A s \in Stream : pos[s] \in Nat /\ pos'[s] \in Nat
    BY SMT DEF TypeOK, Positions
  <1>2. \A n \in DOMAIN down : down[n] \in Frame
    BY Types
  <1>3. \A n \in DOMAIN down' : down'[n] \in Frame
    BY SMT DEF TypeOK
  <1>4. \A n \in DOMAIN down : n \in DOMAIN down' /\ down'[n] = down[n]
    BY SMT DEF Grows
  <1>5. \A s, i : Touches(s, i)' <=> Touches(s, i)
    BY DEF Touches, Now
  <1>6. ASSUME NEW n \in DOMAIN down'
        PROVE  /\ down'[n].boot = bootId' /\ down'[n].cv + base' = down'[n].i
               /\ down'[n].t = "batch" => /\ Touches(down'[n].s, down'[n].i) /\ down'[n].i <= pos'[down'[n].s]
                                          /\ cut' < down'[n].i /\ base' < down'[n].i
               /\ down'[n].t = "snapshot" => cut' <= down'[n].i /\ down'[n].i <= pos'[down'[n].s]
               /\ down'[n].t = "progress" => cut' <= down'[n].i /\ down'[n].i <= told'
    <2>1. PICK f : f = down'[n]
      BY Zenon
    <2>2. f \in Frame
      BY <1>3, <2>1, Zenon
    <2>3. f.s \in Stream /\ f.i \in Nat
      BY <2>2, FrameTypes
    <2>4. CASE n \in DOMAIN down
      <3>1. /\ f.boot = bootId /\ f.cv + base = f.i
            /\ f.t = "batch" => Touches(f.s, f.i) /\ f.i <= pos[f.s] /\ cut < f.i /\ base < f.i
            /\ f.t = "snapshot" => cut <= f.i /\ f.i <= pos[f.s]
            /\ f.t = "progress" => cut <= f.i /\ f.i <= told
        BY <1>4, <2>1, <2>4, Zenon DEF Wire
      <3>2. pos[f.s] <= pos'[f.s] /\ pos[f.s] \in Nat /\ pos'[f.s] \in Nat
        BY <1>1, <2>3, Zenon
      <3>3. (f.i <= pos[f.s] => f.i <= pos'[f.s]) /\ (f.i <= told => f.i <= told')
        BY <1>1, <2>3, <3>2, SMT
      <3> QED
        BY <2>1, <3>1, <3>3, Zenon
    <2>5. CASE n \notin DOMAIN down
      <3>1. Fit(f)
        BY <2>1, <2>5, Zenon
      <3>2. (told < f.i => cut < f.i /\ base < f.i) /\ (told <= f.i => cut <= f.i)
        BY <1>1, <2>3, SMT
      <3> QED
        BY <2>1, <3>1, <3>2, Zenon DEF Fit
    <2> QED
      BY <2>4, <2>5
  <1>7. Wire'
    BY <1>5, <1>6, Zenon DEF Wire
  <1>8. ASSUME NEW m \in DOMAIN down', NEW n \in DOMAIN down', m < n, down'[m].t = "progress"
        PROVE  /\ down'[n].t \in {"snapshot", "progress"} => down'[m].i <= down'[n].i
               /\ down'[n].t = "batch" => down'[m].i < down'[n].i
    <2>1. m \in DOMAIN down
      BY <1>8, Zenon
    <2>2. CASE n \in DOMAIN down
      BY <1>4, <1>8, <2>1, <2>2, Zenon DEF WireOrder
    <2>3. CASE n \notin DOMAIN down
      <3>1. PICK f, g : f = down[m] /\ g = down'[n] /\ f = down'[m]
        BY <1>4, <2>1, Zenon
      <3>2. f \in Frame /\ g \in Frame /\ f.t = "progress" /\ Fit(g)
        BY <1>2, <1>3, <1>8, <2>1, <2>3, <3>1, Zenon
      <3>3. f.i <= told /\ f.i \in Nat /\ g.i \in Nat
        BY <2>1, <3>1, <3>2, FrameTypes, Zenon DEF Wire
      <3>4. (told <= g.i => f.i <= g.i) /\ (told < g.i => f.i < g.i)
        BY <1>1, <3>3, SMT
      <3>5. /\ g.t \in {"snapshot", "progress"} => f.i <= g.i
            /\ g.t = "batch" => f.i < g.i
        BY <3>2, <3>4, Zenon DEF Fit
      <3> QED
        BY <3>1, <3>5, Zenon
    <2> QED
      BY <2>2, <2>3
  <1> QED
    BY <1>7, <1>8, Zenon DEF WireOrder

-----------------------------------------------------------------------------
(* The daemon's steps. *)

(* What they leave alone of the client. *)
LEMMA DaemonLeaves ==
  ASSUME BaseInv, TypeOK', UNCHANGED <<bootId, base, sourceVars, gateVars, history>>,
         Now <= Now', \A j \in 1..Now : commits'[j] = commits[j], \A s \in Stream : pos[s] <= pos'[s]
  PROVE  Buffer' /\ Shown' /\ NoOrphanRows'
  <1>0. TypeOK /\ Positions /\ Buffer /\ Shown /\ NoOrphanRows
    BY Zenon DEF BaseInv
  <1>1. /\ Now \in Nat /\ Now' \in Nat /\ cut \in Nat /\ cut <= Now
        /\ \A s \in Stream : pos[s] \in Nat /\ pos'[s] \in Nat
        /\ \A n \in DOMAIN buffer : buffer[n].s \in Stream /\ buffer[n].i \in Nat
    <2>0. commits' \in Seq(SUBSET Stream) /\ Now \in Nat /\ cut \in Nat /\ told \in Nat
      BY <1>0, Types, Zenon DEF TypeOK
    <2>1. Now \in Nat /\ Now' \in Nat /\ cut \in Nat /\ cut <= Now
      BY <1>0, <2>0, SMT DEF Positions, Now
    <2>2. \A s \in Stream : pos[s] \in Nat /\ pos'[s] \in Nat
      BY <1>0, SMT DEF TypeOK
    <2>3. \A n \in DOMAIN buffer : buffer[n].s \in Stream /\ buffer[n].i \in Nat
      BY <1>0, Types, HeldTypes, Zenon
    <2> QED
      BY <2>1, <2>2, <2>3
  <1>2. \A s, j : Touches(s, j) => Touches(s, j)'
    BY <1>1, SMT DEF Touches
  <1>3. /\ cut' = cut /\ data' = data /\ buffer' = buffer /\ retained' = retained /\ lastBootId' = lastBootId
        /\ bootId' = bootId /\ base' = base
    BY Zenon DEF sourceVars, gateVars, history
  <1>4. \A s \in Stream : Touching(s, cut)' = Touching(s, cut)
    <2>1. \A j \in 1..cut : j \in 1..Now
      BY <1>1, SMT
    <2>2. \A j \in 1..cut : commits'[j] = commits[j]
      BY <2>1, Zenon
    <2> QED
      BY <1>3, <2>2, Zenon DEF Touching
  <1>5. Shown'
    BY <1>0, <1>3, <1>4, Zenon DEF Shown
  <1>6. NoOrphanRows'
    BY <1>0, <1>3, Zenon DEF NoOrphanRows
  <1>7. \A n \in DOMAIN buffer : buffer[n].i <= pos[buffer[n].s] => buffer[n].i <= pos'[buffer[n].s]
    BY <1>1, SMT
  <1>8. Buffer'
    BY <1>0, <1>2, <1>3, <1>7, Zenon DEF Buffer
  <1> QED
    BY <1>5, <1>6, <1>8

(* A commit keeps the positions, the wire and the buffer. *)
LEMMA CommitBase ==
  ASSUME BaseInv, Commit
  PROVE  BaseInv'
  <1>0. TypeOK /\ Positions /\ Wire /\ WireOrder /\ Boots /\ Sets
    BY Zenon DEF BaseInv
  <1>1. PICK touched \in SUBSET Stream : commits' = Append(commits, touched)
    BY Zenon DEF Commit
  <1>2. UNCHANGED <<bootId, base, serving, pos, told, owed, want, leaving, down, troubles, sourceVars, gateVars, history>>
    BY Zenon DEF Commit
  <1>3. /\ commits' \in Seq(SUBSET Stream) /\ Now \in Nat /\ Now' = Now + 1
        /\ \A j \in 1..Now : commits'[j] = commits[j]
    BY <1>0, <1>1, SMT DEF TypeOK, Now
  <1>4. TypeOK'
    BY <1>0, <1>2, <1>3, Zenon DEF TypeOK, sourceVars, gateVars, history
  <1>5. Positions'
    <2>1. Now <= Now' /\ \A x \in Nat : x <= Now => x <= Now'
      BY <1>3, SMT
    <2>2. told \in Nat /\ \A s \in Stream : pos[s] \in Nat
      BY <1>0, Types
    <2>3. base' = base /\ told' = told /\ cut' = cut /\ pos' = pos /\ serving' = serving
      BY <1>2, Zenon DEF history
    <2> QED
      BY <1>0, <2>1, <2>2, <2>3, Zenon DEF Positions
  <1>6. Buffer' /\ Shown' /\ NoOrphanRows'
    <2>1. Now <= Now' /\ \A s \in Stream : pos[s] <= pos'[s]
      BY <1>0, <1>2, <1>3, SMT DEF TypeOK
    <2> QED
      BY <1>2, <1>3, <1>4, <2>1, DaemonLeaves, Zenon
  <1>7. \A s, j : Touches(s, j) => Touches(s, j)'
    BY <1>3, SMT DEF Touches
  <1>8. /\ down' = down /\ bootId' = bootId /\ base' = base /\ cut' = cut /\ told' = told /\ pos' = pos
        /\ serving' = serving /\ want' = want /\ leaving' = leaving
        /\ open' = open /\ subs' = subs /\ retained' = retained /\ fresh' = fresh /\ lastBootId' = lastBootId
        /\ buffer' = buffer /\ appliedCv' = appliedCv
    BY <1>2, Zenon DEF sourceVars, gateVars, history
  <1>9. Wire' /\ WireOrder'
    BY <1>0, <1>7, <1>8, Zenon DEF Wire, WireOrder
  <1>10. Boots' /\ Sets'
    BY <1>0, <1>8, Zenon DEF Boots, Sets
  <1> QED
    BY <1>4, <1>5, <1>6, <1>9, <1>10, Zenon DEF BaseInv

(* Those that send. *)
LEMMA SendBase ==
  ASSUME BaseInv, TypeOK', Grows(down, down'),
         UNCHANGED <<commits, bootId, base, sourceVars, gateVars, history>>,
         told <= told', told' <= Now, \A s \in Stream : pos[s] <= pos'[s] /\ pos'[s] <= Now,
         \A s \in serving' : told' <= pos'[s],
         \A n \in DOMAIN down' : n \notin DOMAIN down => Fit(down'[n]),
         \A m, n \in DOMAIN down' : m \notin DOMAIN down /\ m < n => down'[m].t # "progress",
         leaving' \cap subs \subseteq want',
         down = <<>> => IF down' = <<>> THEN serving' \subseteq serving ELSE serving # {} \/ down'[1].t = "hello"
  PROVE  BaseInv'
  <1>0. TypeOK /\ Positions /\ Wire /\ WireOrder /\ Boots /\ Sets
    BY Zenon DEF BaseInv
  <1>1. /\ base' = base /\ cut' = cut /\ bootId' = bootId /\ Now' = Now /\ lastBootId' = lastBootId
        /\ open' = open /\ subs' = subs /\ retained' = retained /\ fresh' = fresh
        /\ buffer' = buffer /\ appliedCv' = appliedCv
    BY Zenon DEF sourceVars, gateVars, history, Now
  <1>2. Now \in Nat /\ base \in Nat /\ told \in Nat /\ told' \in Nat /\ cut \in Nat
    BY <1>0, SMT DEF TypeOK, Now
  <1>3. Positions'
    <2>1. (base <= told => base <= told') /\ (cut <= told => cut <= told')
      BY <1>2, SMT
    <2> QED
      BY <1>0, <1>1, <2>1, Zenon DEF Positions
  <1>4. Wire' /\ WireOrder'
    BY <1>0, WireGrows, Zenon DEF history
  <1>5. Buffer' /\ Shown' /\ NoOrphanRows'
    <2>1. Now <= Now' /\ \A j \in 1..Now : commits'[j] = commits[j]
      BY <1>1, <1>2, SMT
    <2> QED
      BY <2>1, DaemonLeaves, Zenon
  <1>6. Sets'
    BY <1>0, <1>1, Zenon DEF Sets
  <1>7. ASSUME lastBootId # bootId
        PROVE  IF down' = <<>> THEN serving' = {} ELSE down'[1].t = "hello"
    <2>1. CASE down = <<>>
      <3>1. serving = {}
        BY <1>0, <1>7, <2>1, Zenon DEF Boots
      <3> QED
        BY <2>1, <3>1, Zenon
    <2>2. CASE down # <<>>
      <3>1. down[1].t = "hello"
        BY <1>0, <1>7, <2>2, Zenon DEF Boots
      <3>2. down' # <<>> /\ down'[1] = down[1]
        <4>1. down \in Seq(Frame) /\ down' \in Seq(Frame)
          BY <1>0, Zenon DEF TypeOK
        <4> QED
          BY <2>2, <4>1, GrownHead, Zenon
      <3> QED
        BY <3>1, <3>2, Zenon
    <2> QED
      BY <2>1, <2>2
  <1>8. Boots'
    BY <1>0, <1>1, <1>7, Zenon DEF Boots
  <1> QED
    BY <1>3, <1>4, <1>5, <1>6, <1>8, Zenon DEF BaseInv

(* Answering a subscription with hello and snapshot keeps them. *)
LEMMA ServeBase ==
  ASSUME BaseInv, NEW s \in Stream, Serve(s)
  PROVE  BaseInv'
  <1>0. TypeOK /\ Positions /\ Sets
    BY Zenon DEF BaseInv
  <1>1. PICK p \in told..Now :
          /\ p >= pos[s] /\ pos' = [pos EXCEPT ![s] = p]
          /\ down' = down \o <<Message("hello", s, base), Message("snapshot", s, p)>>
    BY Zenon DEF Serve
  <1>2. /\ want' = want \ {s} /\ leaving' = leaving \ {s} /\ serving' = serving \cup {s} /\ owed' = TRUE
        /\ UNCHANGED <<commits, bootId, base, told, troubles, sourceVars, gateVars, history>>
    BY Zenon DEF Serve
  <1>3. /\ base \in Nat /\ told \in Nat /\ Now \in Nat /\ p \in Nat /\ base <= p /\ told <= p /\ p <= Now
        /\ pos \in [Stream -> Nat]
    BY <1>0, SMT DEF TypeOK, Positions, Now
  <1>4. PICK f, g : f = Message("hello", s, base) /\ g = Message("snapshot", s, p)
    BY Zenon
  <1>5. /\ f \in Frame /\ f.t = "hello" /\ f.boot = bootId /\ f.cv + base = f.i
        /\ g \in Frame /\ g.t = "snapshot" /\ g.s = s /\ g.i = p /\ g.boot = bootId /\ g.cv + base = g.i
    <2>1. base <= base
      BY <1>3, SMT
    <2>2. f \in Frame /\ f.t = "hello" /\ f.boot = bootId /\ f.cv + base = f.i
      BY <1>0, <1>3, <1>4, <2>1, MessageTypes
    <2>3. g \in Frame /\ g.t = "snapshot" /\ g.s = s /\ g.i = p /\ g.boot = bootId /\ g.cv + base = g.i
      BY <1>0, <1>3, <1>4, MessageTypes
    <2> QED
      BY <2>2, <2>3
  <1>6. /\ down' \in Seq(Frame) /\ Grows(down, down') /\ Len(down') = Len(down) + 2
        /\ down'[Len(down) + 1] = f /\ down'[Len(down) + 2] = g
    <2>1. down \in Seq(Frame) /\ down' = down \o <<f, g>>
      BY <1>0, <1>1, <1>4, Zenon DEF TypeOK
    <2>2. f \in Frame /\ g \in Frame
      BY <1>5
    <2>3. PICK e : e = down'
      BY Zenon
    <2>4. /\ e \in Seq(Frame) /\ Grows(down, e) /\ Len(e) = Len(down) + 2
          /\ e[Len(down) + 1] = f /\ e[Len(down) + 2] = g
      BY <2>1, <2>2, <2>3, SMTT(30) DEF Grows
    <2> QED
      BY <2>3, <2>4, Zenon
  <1>7. \A n \in DOMAIN down' : n \notin DOMAIN down => n = Len(down) + 1 \/ n = Len(down) + 2
    BY <1>6, SMT DEF Grows
  <1>8. pos' \in [Stream -> Nat] /\ pos'[s] = p /\ \A t \in Stream : t # s => pos'[t] = pos[t]
    BY <1>1, <1>3
  <1>9. TypeOK'
    BY <1>0, <1>2, <1>6, <1>8, Zenon DEF TypeOK, sourceVars, gateVars, history
  <1>10. \A t \in Stream : pos[t] <= pos'[t] /\ pos'[t] <= Now
    BY <1>0, <1>1, <1>3, <1>8, SMT DEF Positions
  <1>11. \A t \in serving' : told' <= pos'[t]
    <2>1. \A t \in serving : t \in Stream
      BY <1>0, Types
    <2> QED
      BY <1>0, <1>2, <1>3, <1>8, <2>1, Zenon DEF Positions
  <1>12. \A n \in DOMAIN down' : n \notin DOMAIN down => Fit(down'[n])
    <2>1. Fit(f)
      BY <1>5, Zenon DEF Fit
    <2>2. p <= pos'[s]
      BY <1>3, <1>8, SMT
    <2>3. Fit(g)
      BY <1>3, <1>5, <2>2, Zenon DEF Fit
    <2> QED
      BY <1>6, <1>7, <2>1, <2>3, Zenon
  <1>13. \A m, n \in DOMAIN down' : m \notin DOMAIN down /\ m < n => down'[m].t # "progress"
    BY <1>5, <1>6, <1>7, Zenon
  <1>14. leaving' \cap subs \subseteq want'
    BY <1>0, <1>2, Zenon DEF Sets
  <1>15. down = <<>> => down' # <<>> /\ down'[1].t = "hello"
    <2>1. down = <<>> => Len(down) + 1 = 1
      BY SMT
    <2>2. down \in Seq(Frame)
      BY <1>0, Zenon DEF TypeOK
    <2>3. down' # <<>>
      BY <1>6, <2>2, SMT
    <2> QED
      BY <1>5, <1>6, <2>1, <2>3, Zenon
  <1>16. told <= told' /\ told' <= Now
    BY <1>0, <1>2, <1>3, SMT DEF Positions
  <1> QED
    BY <1>2, <1>6, <1>9, <1>10, <1>11, <1>12, <1>13, <1>14, <1>15, <1>16, SendBase, Zenon

(* Taking a subscription off keeps them. *)
LEMMA UnserveBase ==
  ASSUME BaseInv, NEW s \in Stream, Unserve(s)
  PROVE  BaseInv'
  <1>0. TypeOK /\ Positions /\ Sets
    BY Zenon DEF BaseInv
  <1>1. /\ leaving' = leaving \ {s} /\ serving' = serving \ {s}
        /\ UNCHANGED <<commits, bootId, base, pos, told, owed, want, down, troubles, sourceVars, gateVars, history>>
    BY Zenon DEF Unserve
  <1>2. TypeOK'
    BY <1>0, <1>1, Zenon DEF TypeOK, sourceVars, gateVars, history
  <1>3. Grows(down, down') /\ DOMAIN down' = DOMAIN down
    BY <1>0, <1>1, SameGrows, Zenon DEF TypeOK
  <1>4. told <= told' /\ told' <= Now /\ \A t \in Stream : pos[t] <= pos'[t] /\ pos'[t] <= Now
    BY <1>0, <1>1, SMT DEF Positions, TypeOK, Now
  <1>5. \A t \in serving' : told' <= pos'[t]
    BY <1>0, <1>1, Zenon DEF Positions
  <1>6. leaving' \cap subs \subseteq want'
    BY <1>0, <1>1, Zenon DEF Sets
  <1>7. serving' \subseteq serving /\ (down = <<>> => down' = <<>>)
    BY <1>1, Zenon
  <1> QED
    BY <1>1, <1>2, <1>3, <1>4, <1>5, <1>6, <1>7, SendBase, Zenon

(* One frame sent for a stream that is served. *)
LEMMA SendOne ==
  ASSUME BaseInv, NEW f \in Frame, down' = Append(down, f), Fit(f), serving # {}, serving' \subseteq serving,
         UNCHANGED <<commits, bootId, base, want, leaving, sourceVars, gateVars, history>>,
         told' \in Nat, owed' \in BOOLEAN, troubles' \in Nat, pos' \in [Stream -> Nat],
         told <= told', told' <= Now, \A s \in Stream : pos[s] <= pos'[s] /\ pos'[s] <= Now,
         \A s \in serving : told' <= pos'[s]
  PROVE  BaseInv'
  <1>0. TypeOK /\ Sets
    BY Zenon DEF BaseInv
  <1>1. /\ down' \in Seq(Frame) /\ Grows(down, down') /\ Len(down') = Len(down) + 1 /\ down'[Len(down) + 1] = f
    BY <1>0, AppendGrows, Zenon DEF TypeOK
  <1>2. \A n \in DOMAIN down' : n \notin DOMAIN down => n = Len(down) + 1
    BY <1>1, SMT DEF Grows
  <1>3. \A m, n \in DOMAIN down' : m \notin DOMAIN down => ~(m < n)
    BY <1>1, SMT DEF Grows
  <1>4. TypeOK'
    BY <1>0, <1>1, Zenon DEF TypeOK, sourceVars, gateVars, history
  <1>5. down' # <<>>
    <2>1. down \in Seq(Frame)
      BY <1>0, Zenon DEF TypeOK
    <2> QED
      BY <1>1, <2>1, SMT
  <1>6. leaving' \cap subs \subseteq want'
    BY <1>0, Zenon DEF Sets
  <1>7. \A s \in serving' : told' <= pos'[s]
    BY Zenon
  <1>8. \A n \in DOMAIN down' : n \notin DOMAIN down => Fit(down'[n])
    BY <1>1, <1>2, Zenon
  <1>9. \A m, n \in DOMAIN down' : m \notin DOMAIN down /\ m < n => down'[m].t # "progress"
    BY <1>3, Zenon
  <1> QED
    BY <1>1, <1>4, <1>5, <1>6, <1>7, <1>8, <1>9, SendBase, Zenon

(* Deriving the next commit for one stream keeps them. *)
LEMMA DeriveBase ==
  ASSUME BaseInv, NEW s \in Stream, Derive(s)
  PROVE  BaseInv'
  <1>0. TypeOK /\ Positions /\ Sets
    BY Zenon DEF BaseInv
  <1>1. /\ s \in serving /\ pos[s] < Now /\ pos' = [pos EXCEPT ![s] = @ + 1]
        /\ UNCHANGED <<commits, bootId, base, serving, told, want, leaving, troubles, sourceVars, gateVars, history>>
    BY Zenon DEF Derive
  <1>2. pos \in [Stream -> Nat] /\ Now \in Nat /\ told \in Nat /\ base \in Nat /\ troubles \in Nat /\ owed \in BOOLEAN
    BY <1>0, Types, Zenon DEF TypeOK
  <1>3. pos' \in [Stream -> Nat] /\ pos'[s] = pos[s] + 1 /\ \A t \in Stream : t # s => pos'[t] = pos[t]
    BY <1>1, <1>2
  <1>4. told <= told' /\ told' <= Now /\ \A t \in Stream : pos[t] <= pos'[t] /\ pos'[t] <= Now
    BY <1>0, <1>1, <1>2, <1>3, SMT DEF Positions
  <1>5. \A t \in serving : told' <= pos'[t]
    <2>1. \A t \in serving : t \in Stream /\ told <= pos[t] /\ pos[t] \in Nat
      BY <1>0, <1>2, Types, Zenon DEF Positions
    <2> QED
      BY <1>1, <1>2, <1>3, <2>1, SMT
  <1>6. CASE s \in commits[pos[s] + 1]
    <2>1. down' = Append(down, Message("batch", s, pos[s] + 1)) /\ owed' = TRUE
      BY <1>6, Zenon DEF Derive
    <2>2. PICK i : i = pos[s] + 1
      BY Zenon
    <2>3. i \in Nat /\ told < i /\ base <= i /\ i \in 1..Now /\ i <= pos'[s]
      BY <1>0, <1>1, <1>2, <1>3, <2>2, SMT DEF Positions
    <2>4. PICK f : f = Message("batch", s, i)
      BY Zenon
    <2>5. f \in Frame /\ f.t = "batch" /\ f.s = s /\ f.i = i /\ f.boot = bootId /\ f.cv + base = f.i
      BY <1>0, <2>3, <2>4, MessageTypes
    <2>6. Fit(f)
      BY <1>6, <2>2, <2>3, <2>5, Zenon DEF Fit, Touches
    <2>7. down' = Append(down, f)
      BY <2>1, <2>2, <2>4, Zenon
    <2>8. told' \in Nat /\ owed' \in BOOLEAN /\ troubles' \in Nat /\ serving # {} /\ serving' \subseteq serving
      BY <1>1, <1>2, <2>1, Zenon
    <2>9. UNCHANGED <<commits, bootId, base, want, leaving, sourceVars, gateVars, history>>
      BY <1>1, Zenon
    <2> QED
      BY <1>3, <1>4, <1>5, <2>5, <2>6, <2>7, <2>8, <2>9, SendOne, Zenon
  <1>7. CASE s \notin commits[pos[s] + 1]
    <2>1. down' = down /\ owed' = owed
      BY <1>7, Zenon DEF Derive
    <2>2. TypeOK'
      BY <1>0, <1>1, <1>3, <2>1, Zenon DEF TypeOK, sourceVars, gateVars, history
    <2>3. Grows(down, down') /\ DOMAIN down' = DOMAIN down
      BY <1>0, <2>1, SameGrows, Zenon DEF TypeOK
    <2>4. leaving' \cap subs \subseteq want'
      BY <1>0, <1>1, Zenon DEF Sets
    <2>5. serving' \subseteq serving /\ (down = <<>> => down' = <<>>) /\ \A t \in serving' : told' <= pos'[t]
      BY <1>1, <1>5, <2>1, Zenon
    <2> QED
      BY <1>1, <1>4, <2>2, <2>3, <2>4, <2>5, SendBase, Zenon
  <1> QED
    BY <1>6, <1>7

(* A progress frame is sent once every served stream is that far, and keeps them. *)
LEMMA ProgressBase ==
  ASSUME BaseInv, Progress
  PROVE  BaseInv'
  <1>0. TypeOK /\ Positions
    BY Zenon DEF BaseInv
  <1>1. PICK w \in serving :
          /\ \A s \in serving : pos[w] <= pos[s]
          /\ down' = Append(down, Message("progress", Lmid, pos[w])) /\ told' = pos[w]
    BY Zenon DEF Progress
  <1>2. owed' = FALSE /\ UNCHANGED <<commits, bootId, base, serving, pos, want, leaving, troubles, sourceVars, gateVars, history>>
    BY Zenon DEF Progress
  <1>3. /\ pos \in [Stream -> Nat] /\ Now \in Nat /\ told \in Nat /\ base \in Nat /\ troubles \in Nat
        /\ w \in Stream /\ Lmid \in Stream
    BY <1>0, Types, Zenon DEF TypeOK, Stream
  <1>4. pos[w] \in Nat /\ told <= pos[w] /\ pos[w] <= Now /\ base <= pos[w] /\ pos[w] <= pos[w]
    BY <1>0, <1>3, SMT DEF Positions
  <1>5. PICK f : f = Message("progress", Lmid, pos[w])
    BY Zenon
  <1>6. f \in Frame /\ f.t = "progress" /\ f.i = pos[w] /\ f.boot = bootId /\ f.cv + base = f.i
    BY <1>0, <1>3, <1>4, <1>5, MessageTypes
  <1>7. Fit(f)
    BY <1>1, <1>4, <1>6, Zenon DEF Fit
  <1>8. \A s \in Stream : pos[s] <= pos'[s] /\ pos'[s] <= Now
    BY <1>0, <1>2, <1>3, SMT DEF Positions
  <1>9. \A s \in serving : told' <= pos'[s]
    BY <1>1, <1>2, Zenon
  <1>10. /\ told' \in Nat /\ owed' \in BOOLEAN /\ troubles' \in Nat /\ serving # {} /\ serving' \subseteq serving
         /\ pos' \in [Stream -> Nat] /\ told <= told' /\ told' <= Now /\ down' = Append(down, f)
    BY <1>1, <1>2, <1>3, <1>4, <1>5, Zenon
  <1>11. UNCHANGED <<commits, bootId, base, want, leaving, sourceVars, gateVars, history>>
    BY <1>2, Zenon
  <1> QED
    BY <1>6, <1>7, <1>8, <1>9, <1>10, <1>11, SendOne, Zenon

(* A query error or a rejected subscription keeps them. *)
LEMMA FaultBase ==
  ASSUME BaseInv, NEW s \in Stream, Fault(s)
  PROVE  BaseInv'
  <1>0. TypeOK /\ Positions
    BY Zenon DEF BaseInv
  <1>1. PICK t \in {"error", "rejected"} : down' = Append(down, Message(t, s, base))
    BY Zenon DEF Fault
  <1>2. /\ s \in serving /\ serving' = serving \ {s} /\ troubles' = troubles + 1
        /\ UNCHANGED <<commits, bootId, base, pos, told, owed, want, leaving, sourceVars, gateVars, history>>
    BY Zenon DEF Fault
  <1>3. pos \in [Stream -> Nat] /\ Now \in Nat /\ told \in Nat /\ base \in Nat /\ owed \in BOOLEAN /\ troubles' \in Nat
    BY <1>0, <1>2, SMT DEF TypeOK, Now
  <1>4. PICK f : f = Message(t, s, base)
    BY Zenon
  <1>5. f \in Frame /\ f.t = t /\ f.boot = bootId /\ f.cv + base = f.i
    <2>1. base <= base
      BY <1>3, SMT
    <2> QED
      BY <1>0, <1>3, <1>4, <2>1, MessageTypes
  <1>6. Fit(f)
    BY <1>5, Zenon DEF Fit
  <1>7. told <= told' /\ told' <= Now /\ \A r \in Stream : pos[r] <= pos'[r] /\ pos'[r] <= Now
    BY <1>0, <1>2, <1>3, SMT DEF Positions
  <1>8. \A r \in serving : told' <= pos'[r]
    BY <1>0, <1>2, Zenon DEF Positions
  <1>9. /\ told' \in Nat /\ owed' \in BOOLEAN /\ serving # {} /\ serving' \subseteq serving
        /\ pos' \in [Stream -> Nat] /\ down' = Append(down, f)
    BY <1>1, <1>2, <1>3, <1>4, Zenon
  <1>10. UNCHANGED <<commits, bootId, base, want, leaving, sourceVars, gateVars, history>>
    BY <1>2, Zenon
  <1> QED
    BY <1>3, <1>5, <1>6, <1>7, <1>8, <1>9, <1>10, SendOne, Zenon

-----------------------------------------------------------------------------
(* The client's steps. *)
Ahead(c) ==
  \A n \in DOMAIN down : 1 < n =>
    /\ down[n].t \in {"snapshot", "progress"} => c <= down[n].i
    /\ down[n].t = "batch" => c < down[n].i

(* Taking a frame, and cutting no further than the rest, keeps the wire. *)
LEMMA TakeWire ==
  ASSUME BaseInv, NEW kinds, Receive(kinds), UNCHANGED daemonVars, cut' \in Nat, cut' <= told, Ahead(cut')
  PROVE  Positions' /\ Wire' /\ WireOrder' /\ down' \in Seq(Frame)
  <1>0. TypeOK /\ Positions /\ Wire /\ WireOrder
    BY Zenon DEF BaseInv
  <1>1. down \in Seq(Frame) /\ down # <<>> /\ down' = Tail(down)
    BY <1>0, Zenon DEF TypeOK, Receive
  <1>2. down' \in Seq(Frame) /\ Leaves(down, down')
    BY <1>1, TailLeaves
  <1>3. /\ commits' = commits /\ bootId' = bootId /\ base' = base /\ serving' = serving /\ pos' = pos /\ told' = told
    BY Zenon DEF daemonVars
  <1>4. Positions'
    BY <1>0, <1>3, Zenon DEF Positions, Now
  <1>5. \A s, j : Touches(s, j)' <=> Touches(s, j)
    BY <1>3 DEF Touches, Now
  <1>6. \A n \in DOMAIN down' : n + 1 \in DOMAIN down /\ 1 < n + 1 /\ down'[n] = down[n + 1]
    BY <1>2, SMT DEF Leaves
  <1>7. ASSUME NEW n \in DOMAIN down'
        PROVE  /\ down'[n].boot = bootId' /\ down'[n].cv + base' = down'[n].i
               /\ down'[n].t = "batch" => /\ Touches(down'[n].s, down'[n].i) /\ down'[n].i <= pos'[down'[n].s]
                                          /\ cut' < down'[n].i /\ base' < down'[n].i
               /\ down'[n].t = "snapshot" => cut' <= down'[n].i /\ down'[n].i <= pos'[down'[n].s]
               /\ down'[n].t = "progress" => cut' <= down'[n].i /\ down'[n].i <= told'
    <2>1. PICK m \in DOMAIN down : 1 < m /\ down'[n] = down[m]
      BY <1>6, Zenon
    <2> QED
      BY <1>0, <1>3, <2>1, Zenon DEF Wire, Ahead
  <1>8. Wire'
    BY <1>5, <1>7, Zenon DEF Wire
  <1>9. \A m, n \in DOMAIN down' : m < n => m + 1 < n + 1
    BY <1>2, SMT DEF Leaves
  <1>10. ASSUME NEW m \in DOMAIN down', NEW n \in DOMAIN down', m < n, down'[m].t = "progress"
         PROVE  /\ down'[n].t \in {"snapshot", "progress"} => down'[m].i <= down'[n].i
                /\ down'[n].t = "batch" => down'[m].i < down'[n].i
    <2>1. PICK x \in DOMAIN down, y \in DOMAIN down : x < y /\ down'[m] = down[x] /\ down'[n] = down[y]
      BY <1>6, <1>9, <1>10, Zenon
    <2> QED
      BY <1>0, <1>10, <2>1, Zenon DEF WireOrder
  <1> QED
    BY <1>2, <1>4, <1>8, <1>10, Zenon DEF WireOrder

(* Every frame on the wire is at or beyond the cut. *)
LEMMA CutAhead ==
  ASSUME BaseInv
  PROVE  Ahead(cut) /\ cut \in Nat /\ cut <= told
  BY Types, Zenon DEF BaseInv, Wire, Ahead, Positions

(* Frames that stay in the buffer, of retained streams and beyond the cut, stay well kept. *)
LEMMA BufferStays ==
  ASSUME BaseInv, UNCHANGED <<commits, pos>>,
         \A n \in DOMAIN buffer' : \E m \in DOMAIN buffer :
           /\ buffer'[n] = buffer[m] /\ buffer[m].s \in retained'
           /\ buffer[m].kind = "batch" => cut' < buffer[m].i
           /\ buffer[m].kind = "snapshot" => cut' <= buffer[m].i
           /\ lastBootId' = bootId' => lastBootId = bootId /\ base' = base
  PROVE  Buffer'
  <1>1. \A s, j : Touches(s, j)' <=> Touches(s, j)
    BY DEF Touches, Now
  <1>2. ASSUME NEW n \in DOMAIN buffer'
        PROVE  /\ buffer'[n].s \in retained' /\ buffer'[n].i <= pos'[buffer'[n].s]
               /\ lastBootId' = bootId' => buffer'[n].cv + base' = buffer'[n].i
               /\ buffer'[n].kind = "batch" => Touches(buffer'[n].s, buffer'[n].i) /\ cut' < buffer'[n].i
               /\ buffer'[n].kind = "snapshot" => cut' <= buffer'[n].i
    <2>1. PICK m \in DOMAIN buffer :
           /\ buffer'[n] = buffer[m] /\ buffer[m].s \in retained'
           /\ buffer[m].kind = "batch" => cut' < buffer[m].i
           /\ buffer[m].kind = "snapshot" => cut' <= buffer[m].i
           /\ lastBootId' = bootId' => lastBootId = bootId /\ base' = base
      BY Zenon
    <2> QED
      BY <2>1, Zenon DEF BaseInv, Buffer
  <1> QED
    BY <1>1, <1>2, Zenon DEF Buffer

(* Only a hello can find that the daemon has restarted. *)
LEMMA Awake ==
  ASSUME BaseInv, down # <<>>, First.t # "hello"
  PROVE  lastBootId = bootId
  <1>1. First = down[1]
    BY TailLeaves, Zenon DEF BaseInv, TypeOK, First
  <1> QED
    BY <1>1, Zenon DEF BaseInv, Boots

(* The next frame to arrive is of the running daemon. *)
LEMMA HeadFrame ==
  ASSUME BaseInv, down # <<>>
  PROVE  /\ First = down[1] /\ 1 \in DOMAIN down /\ First \in Frame
         /\ First.s \in Stream /\ First.i \in Nat /\ First.cv \in Nat /\ First.boot = bootId /\ First.cv + base = First.i
  <1>1. First = down[1] /\ 1 \in DOMAIN down /\ First \in Frame
    BY TailLeaves, Zenon DEF BaseInv, TypeOK, First
  <1>2. First.boot = bootId /\ First.cv + base = First.i
    BY <1>1, Zenon DEF BaseInv, Wire
  <1> QED
    BY <1>1, <1>2, FrameTypes, Zenon

(* A hello, of the known daemon or of a restarted one, keeps them. *)
LEMMA OnHelloBase ==
  ASSUME BaseInv, OnHello
  PROVE  BaseInv'
  <1>0. TypeOK /\ Positions /\ Boots /\ Sets /\ Shown /\ NoOrphanRows /\ Buffer
    BY Zenon DEF BaseInv
  <1>1. /\ Receive({"hello"}) /\ lastBootId' = First.boot /\ open' = open \cup ({First.s} \cap subs)
        /\ fresh' = fresh \ {First.s}
        /\ UNCHANGED <<daemonVars, want, leaving, troubles, retained, subs, data, cut>>
    BY Zenon DEF OnHello
  <1>2. down # <<>>
    BY <1>1, Zenon DEF Receive
  <1>3. /\ cut' = cut /\ commits' = commits /\ pos' = pos /\ bootId' = bootId /\ base' = base /\ retained' = retained
        /\ subs' = subs /\ data' = data /\ want' = want /\ leaving' = leaving /\ serving' = serving
    BY <1>1, Zenon DEF daemonVars
  <1>4. First.s \in Stream /\ First.boot = bootId
    BY <1>2, HeadFrame, Zenon
  <1>5. Positions' /\ Wire' /\ WireOrder' /\ down' \in Seq(Frame)
    BY <1>1, <1>3, CutAhead, TakeWire, Zenon
  <1>6. \/ lastBootId # 0 /\ bootId # lastBootId /\ ResetGate
        \/ /\ lastBootId = 0 \/ lastBootId = bootId
           /\ appliedCv' = appliedCv
           /\ buffer' = buffer \/ Keep(Without(First.s))
    BY <1>4, Zenon DEF OnHello
  <1>7. Without(First.s) \in SUBSET DOMAIN buffer
    BY Zenon DEF Without
  <1>8. buffer' \in Seq(Buffered) /\ \A n \in DOMAIN buffer' : \E m \in DOMAIN buffer : buffer'[n] = buffer[m]
    <2>1. CASE ResetGate
      BY <2>1, SMT DEF ResetGate
    <2>2. CASE buffer' = buffer
      BY <1>0, <2>2, Zenon DEF TypeOK
    <2>3. CASE Keep(Without(First.s))
      <3>1. buffer' \in Seq(Buffered) /\ Kept(Without(First.s))
        BY <1>0, <1>7, <2>3, KeepKeeps, Zenon
      <3> QED
        BY <1>7, <3>1, Zenon DEF Kept
    <2> QED
      BY <1>6, <2>1, <2>2, <2>3, Zenon
  <1>9. TypeOK'
    <2>0. 0 \in Nat
      BY SMT
    <2>1. lastBootId' \in Nat /\ appliedCv' \in Nat
      BY <1>0, <1>1, <1>4, <1>6, <2>0, Types, Zenon DEF ResetGate
    <2>2. open' \subseteq Stream /\ fresh' \subseteq Stream
      BY <1>0, <1>1, Types, Zenon
    <2> QED
      BY <1>0, <1>1, <1>5, <1>8, <2>1, <2>2, Zenon DEF TypeOK, daemonVars
  <1>10. Buffer'
    <2>1. CASE lastBootId # 0 /\ bootId # lastBootId /\ ResetGate
      <3>1. DOMAIN buffer' = {}
        BY <2>1, SMT DEF ResetGate
      <3> QED
        BY <3>1, Zenon DEF Buffer
    <2>2. CASE lastBootId = 0
      <3>1. DOMAIN buffer = {}
        BY <1>0, <2>2, SMT DEF Boots
      <3> QED
        BY <1>8, <3>1, Zenon DEF Buffer
    <2>3. CASE lastBootId = bootId
      <3>1. ASSUME NEW n \in DOMAIN buffer'
            PROVE  \E m \in DOMAIN buffer :
                     /\ buffer'[n] = buffer[m] /\ buffer[m].s \in retained'
                     /\ buffer[m].kind = "batch" => cut' < buffer[m].i
                     /\ buffer[m].kind = "snapshot" => cut' <= buffer[m].i
                     /\ lastBootId' = bootId' => lastBootId = bootId /\ base' = base
        <4>1. PICK m \in DOMAIN buffer : buffer'[n] = buffer[m]
          BY <1>8, Zenon
        <4> QED
          BY <1>0, <1>3, <2>3, <4>1, Zenon DEF Buffer
      <3> QED
        BY <1>3, <3>1, BufferStays, Zenon
    <2> QED
      BY <1>6, <2>1, <2>2, <2>3, Zenon
  <1>11. Boots'
    <2>1. appliedCv' = 0 \/ appliedCv' + base' <= cut'
      BY <1>0, <1>3, <1>6, Zenon DEF Boots, ResetGate
    <2>2. bootId \in Nat /\ bootId <= bootId /\ bootId # 0
      BY <1>0, SMT DEF TypeOK, Boots
    <2> QED
      BY <1>0, <1>1, <1>3, <1>4, <2>1, <2>2, Zenon DEF Boots
  <1>12. Sets'
    BY <1>0, <1>1, <1>3, Zenon DEF Sets
  <1>13. Shown' /\ NoOrphanRows'
    BY <1>0, <1>3, Zenon DEF Shown, NoOrphanRows, Touching
  <1> QED
    BY <1>5, <1>9, <1>10, <1>11, <1>12, <1>13, Zenon DEF BaseInv

(* A query error, which drops or resubscribes the stream, keeps them. *)
LEMMA OnQueryErrorBase ==
  ASSUME BaseInv, OnQueryError
  PROVE  BaseInv'
  <1>0. TypeOK /\ Positions /\ Boots /\ Sets /\ Shown /\ NoOrphanRows /\ Buffer
    BY Zenon DEF BaseInv
  <1>1. /\ Receive({"error", "rejected"})
        /\ UNCHANGED <<daemonVars, leaving, troubles, retained, lastBootId, gateVars, cut>>
        /\ \/ UNCHANGED <<subs, open, want, fresh>>
           \/ open' = open \ {First.s} /\ want' = want \cup {First.s} /\ fresh' = fresh \ {First.s} /\ subs' = subs
           \/ open' = open \ {First.s} /\ want' = want \ {First.s} /\ fresh' = fresh \ {First.s} /\ subs' = subs \ {First.s}
    BY Zenon DEF OnQueryError
  <1>2. down # <<>> /\ First.t # "hello"
    BY <1>1, Zenon DEF Receive
  <1>3. /\ cut' = cut /\ commits' = commits /\ pos' = pos /\ bootId' = bootId /\ base' = base /\ retained' = retained
        /\ data' = data /\ leaving' = leaving /\ buffer' = buffer /\ appliedCv' = appliedCv /\ lastBootId' = lastBootId
    BY <1>1, Zenon DEF daemonVars, gateVars
  <1>4. First.s \in Stream /\ lastBootId = bootId
    BY <1>2, HeadFrame, Awake, Zenon
  <1>5. Positions' /\ Wire' /\ WireOrder' /\ down' \in Seq(Frame)
    BY <1>1, <1>3, CutAhead, TakeWire, Zenon
  <1>6. /\ want' \subseteq want \cup {First.s} /\ subs' \subseteq subs /\ open' \subseteq open /\ fresh' \subseteq fresh
        /\ open' \subseteq subs' /\ fresh' \subseteq open' /\ leaving \cap subs' \subseteq want'
    BY <1>0, <1>1, Zenon DEF Sets
  <1>7. TypeOK'
    <2>1. want' \subseteq Stream /\ subs' \subseteq Stream /\ open' \subseteq Stream /\ fresh' \subseteq Stream
      BY <1>0, <1>4, <1>6, Types, Zenon
    <2>2. UNCHANGED <<daemonVars, leaving, troubles, retained, lastBootId, gateVars, cut>>
      BY <1>1, Zenon
    <2> QED
      BY <1>0, <1>5, <2>1, <2>2, Zenon DEF TypeOK, daemonVars, gateVars
  <1>8. Sets'
    BY <1>0, <1>3, <1>6, Zenon DEF Sets
  <1>9. Shown' /\ NoOrphanRows' /\ Buffer'
    BY <1>0, <1>3, Zenon DEF Shown, NoOrphanRows, Buffer, Touching, Touches, Now
  <1>10. Boots'
    BY <1>0, <1>3, <1>4, Zenon DEF Boots
  <1> QED
    BY <1>5, <1>7, <1>8, <1>9, <1>10, Zenon DEF BaseInv

(* A release shows nothing it did not show before, and nothing beyond its cut. *)
LEMMA FoldBounds ==
  ASSUME BaseInv, lastBootId = bootId, NEW s \in Stream, NEW c \in Nat, NEW p \in Nat, c + base = p, cut <= p
  PROVE  /\ data[s] \subseteq Fold(s, c) /\ Fold(s, c) \subseteq Touching(s, p)
         /\ NotHeld(s) => Fold(s, c) = data[s]
  <1>0. TypeOK /\ Positions /\ Buffer /\ Shown
    BY Zenon DEF BaseInv
  <1> DEFINE ready == {n \in DOMAIN buffer : buffer[n].s = s /\ buffer[n].cv <= c}
             Before(m, n) == \/ buffer[m].cv < buffer[n].cv
                             \/ buffer[m].cv = buffer[n].cv /\ m < n
             snapshots == {n \in ready : buffer[n].kind = "snapshot"}
             last == {n \in snapshots : \A m \in snapshots \ {n} : Before(m, n)}
             batches == {n \in ready \ snapshots : \A m \in last : Before(m, n)}
  <1>1. Fold(s, c) = (IF last = {} THEN data[s] ELSE UNION {Touching(s, buffer[n].i) : n \in last})
                       \cup {buffer[n].i : n \in batches}
    BY Zenon DEF Fold
  <1>2. \A n \in DOMAIN buffer : buffer[n] \in Buffered
    BY <1>0, Types, Zenon
  <1>3. ASSUME NEW n \in ready
        PROVE  /\ n \in DOMAIN buffer /\ buffer[n].s = s /\ buffer[n].i \in Nat /\ buffer[n].i <= p
               /\ buffer[n].kind \in {"snapshot", "batch"}
    <2>1. PICK f : f = buffer[n]
      BY Zenon
    <2>2. n \in DOMAIN buffer /\ f \in Buffered /\ f.s = s /\ f.cv <= c /\ f.cv + base = f.i
      BY <1>0, <1>2, <2>1, Zenon DEF Buffer
    <2>3. f.i \in Nat /\ f.cv \in Nat /\ f.kind \in {"snapshot", "batch"}
      BY <2>2, HeldTypes, Zenon
    <2>4. base \in Nat
      BY <1>0, Types
    <2>5. f.i <= p
      BY <2>2, <2>3, <2>4, SMT
    <2> QED
      BY <2>1, <2>2, <2>3, <2>5, Zenon
  <1>4. ASSUME NEW n \in last
        PROVE  buffer[n].i \in Nat /\ cut <= buffer[n].i /\ buffer[n].i <= p
    <2>1. n \in ready /\ buffer[n].kind = "snapshot"
      BY Zenon
    <2> QED
      BY <1>0, <1>3, <2>1, Zenon DEF Buffer
  <1>5. ASSUME NEW n \in batches
        PROVE  buffer[n].i \in Touching(s, p)
    <2>1. n \in ready /\ n \notin snapshots
      BY Zenon
    <2>2. buffer[n].kind # "snapshot"
      BY <2>1, Zenon
    <2>3. n \in DOMAIN buffer /\ buffer[n].s = s /\ buffer[n].kind = "batch" /\ buffer[n].i <= p
      BY <1>3, <2>1, <2>2, Zenon
    <2>4. Touches(s, buffer[n].i)
      BY <1>0, <2>3, Zenon DEF Buffer
    <2>5. buffer[n].i \in 1..p
      <3>1. Now \in Nat /\ buffer[n].i \in 1..Now /\ buffer[n].i <= p
        BY <1>0, <2>3, <2>4, Types, Zenon DEF Touches
      <3> QED
        BY <3>1, SMT
    <2> QED
      BY <2>4, <2>5, Zenon DEF Touches, Touching
  <1>6. data[s] \subseteq Touching(s, cut) /\ cut \in Nat
    BY <1>0, Types, Zenon DEF Shown
  <1>7. \A a \in Nat : cut <= a => Touching(s, cut) \subseteq Touching(s, a)
    <2>1. \A a \in Nat : cut <= a => 1..cut \subseteq 1..a
      BY <1>6, SMT
    <2> QED
      BY <2>1, Zenon DEF Touching
  <1>8. \A a \in Nat : a <= p => Touching(s, a) \subseteq Touching(s, p)
    <2>1. \A a \in Nat : a <= p => 1..a \subseteq 1..p
      BY SMT
    <2> QED
      BY <2>1, Zenon DEF Touching
  <1>9. NotHeld(s) => last = {} /\ batches = {}
    <2>1. NotHeld(s) => ready = {}
      BY Zenon DEF NotHeld
    <2> QED
      BY <2>1, Zenon
  <1> HIDE DEF ready, Before, snapshots, last, batches
  <1>10. Fold(s, c) \subseteq Touching(s, p)
    <2>1. CASE last = {}
      BY <1>1, <1>5, <1>6, <1>7, <2>1, Zenon
    <2>2. CASE last # {}
      BY <1>1, <1>4, <1>5, <1>8, <2>2, Zenon
    <2> QED
      BY <2>1, <2>2
  <1>11. data[s] \subseteq Fold(s, c)
    <2>1. CASE last = {}
      BY <1>1, <2>1, Zenon
    <2>2. CASE last # {}
      <3>1. PICK n \in last : TRUE
        BY <2>2, Zenon
      <3>2. data[s] \subseteq Touching(s, buffer[n].i)
        BY <1>4, <1>6, <1>7, <3>1, Zenon
      <3> QED
        BY <1>1, <2>2, <3>2, Zenon
    <2> QED
      BY <2>1, <2>2
  <1>12. NotHeld(s) => Fold(s, c) = data[s]
    BY <1>1, <1>9, Zenon
  <1> QED
    BY <1>10, <1>11, <1>12

(* A progress frame, which releases up to its cv, keeps them. *)
LEMMA OnProgressBase ==
  ASSUME BaseInv, OnProgress
  PROVE  BaseInv'
  <1>0. TypeOK /\ Positions /\ Wire /\ WireOrder /\ Boots /\ Sets /\ Shown /\ NoOrphanRows /\ Buffer
    BY Zenon DEF BaseInv
  <1> DEFINE places == {n \in DOMAIN buffer : buffer[n].cv > First.cv}
  <1>1. /\ Receive({"progress"}) /\ data' = [s \in Stream |-> Fold(s, First.cv)] /\ Keep(places)
        /\ appliedCv' = IF First.cv > appliedCv THEN First.cv ELSE appliedCv
        /\ fresh \subseteq fresh' /\ fresh' \subseteq fresh \cup open /\ cut' = First.i
        /\ UNCHANGED <<daemonVars, want, leaving, troubles, sourceVars>>
    BY Zenon DEF OnProgress
  <1>2. down # <<>> /\ First.t = "progress"
    BY <1>1, Zenon DEF Receive
  <1>3. /\ commits' = commits /\ pos' = pos /\ bootId' = bootId /\ base' = base /\ retained' = retained
        /\ leaving' = leaving /\ want' = want /\ subs' = subs /\ open' = open /\ lastBootId' = lastBootId
    BY <1>1, Zenon DEF daemonVars, sourceVars
  <1>4. /\ First = down[1] /\ 1 \in DOMAIN down
        /\ First.cv \in Nat /\ First.i \in Nat /\ First.cv + base = First.i /\ lastBootId = bootId
    BY <1>2, HeadFrame, Awake, Zenon
  <1>5. cut <= First.i /\ First.i <= told
    BY <1>0, <1>2, <1>4, Zenon DEF Wire
  <1>6. Ahead(First.i)
    BY <1>0, <1>2, <1>4, Zenon DEF WireOrder, Ahead
  <1>7. Positions' /\ Wire' /\ WireOrder' /\ down' \in Seq(Frame)
    BY <1>1, <1>4, <1>5, <1>6, TakeWire, Zenon
  <1>8. buffer' \in Seq(Buffered) /\ Kept(places)
    BY <1>0, <1>1, KeepKeeps, Zenon
  <1>9. ASSUME NEW s \in Stream
        PROVE  /\ data[s] \subseteq data'[s] /\ data'[s] \subseteq Touching(s, First.i)
               /\ s \notin retained => data'[s] = {}
    <2>1. data'[s] = Fold(s, First.cv)
      BY <1>1
    <2>2. /\ data[s] \subseteq Fold(s, First.cv) /\ Fold(s, First.cv) \subseteq Touching(s, First.i)
          /\ NotHeld(s) => Fold(s, First.cv) = data[s]
      BY <1>4, <1>5, FoldBounds, Zenon
    <2>3. s \notin retained => NotHeld(s) /\ data[s] = {}
      BY <1>0, Zenon DEF Buffer, NotHeld, NoOrphanRows
    <2> QED
      BY <2>1, <2>2, <2>3, Zenon
  <1>10. Shown' /\ NoOrphanRows'
    <2>1. \A s : Touching(s, cut)' = Touching(s, First.i)
      BY <1>1, <1>3, Zenon DEF Touching
    <2> QED
      BY <1>3, <1>9, <2>1, Zenon DEF Shown, NoOrphanRows
  <1>11. ASSUME NEW n \in DOMAIN buffer'
         PROVE  \E m \in DOMAIN buffer :
                  /\ buffer'[n] = buffer[m] /\ buffer[m].s \in retained'
                  /\ buffer[m].kind = "batch" => cut' < buffer[m].i
                  /\ buffer[m].kind = "snapshot" => cut' <= buffer[m].i
                  /\ lastBootId' = bootId' => lastBootId = bootId /\ base' = base
    <2>1. PICK m \in places : buffer'[n] = buffer[m]
      BY <1>8, Zenon DEF Kept
    <2>2. m \in DOMAIN buffer /\ buffer[m].cv > First.cv /\ buffer[m] \in Buffered
      BY <1>0, <2>1, Types, Zenon
    <2>3. buffer[m].cv + base = buffer[m].i /\ buffer[m].cv \in Nat /\ buffer[m].i \in Nat /\ base \in Nat
      BY <1>0, <1>4, <2>2, HeldTypes, Types, Zenon DEF Buffer
    <2>4. First.i < buffer[m].i /\ First.i <= buffer[m].i
      BY <1>4, <2>2, <2>3, SMT
    <2> QED
      BY <1>0, <1>1, <1>3, <1>4, <2>1, <2>2, <2>4, Zenon DEF Buffer
  <1>12. Buffer'
    BY <1>3, <1>11, BufferStays, Zenon
  <1>13. appliedCv' \in Nat /\ (appliedCv' = 0 \/ appliedCv' + base' <= cut')
    <2>1. appliedCv \in Nat /\ base \in Nat /\ cut \in Nat
      BY <1>0, Types
    <2>2. appliedCv = 0 \/ appliedCv + base <= cut
      BY <1>0, <1>4, Zenon DEF Boots
    <2> QED
      BY <1>1, <1>3, <1>4, <1>5, <2>1, <2>2, SMT
  <1>14. Boots'
    <2>1. lastBootId' # 0
      BY <1>0, <1>3, <1>4, SMT DEF Boots, TypeOK
    <2> QED
      BY <1>0, <1>3, <1>4, <1>13, <2>1, Zenon DEF Boots
  <1>15. Sets'
    BY <1>0, <1>1, <1>3, Zenon DEF Sets
  <1>16. TypeOK'
    <2>1. data' \in [Stream -> SUBSET Nat]
      <3>1. \A s \in Stream : Fold(s, First.cv) \subseteq Nat
        <4>1. \A s : Touching(s, First.i) \subseteq Nat
          BY <1>4, SMT DEF Touching
        <4>2. \A s \in Stream : data'[s] = Fold(s, First.cv)
          BY <1>1
        <4> QED
          BY <1>9, <4>1, <4>2, Zenon
      <3> QED
        BY <1>1, <3>1, Zenon
    <2>2. fresh' \subseteq Stream /\ cut' \in Nat
      BY <1>0, <1>1, <1>4, Types, Zenon
    <2>3. UNCHANGED <<daemonVars, want, leaving, troubles, sourceVars>>
      BY <1>1, Zenon
    <2> QED
      BY <1>0, <1>7, <1>8, <1>13, <2>1, <2>2, <2>3, Zenon DEF TypeOK, daemonVars, sourceVars
  <1> QED
    BY <1>7, <1>10, <1>12, <1>14, <1>15, <1>16, Zenon DEF BaseInv

(* A snapshot or batch, buffered or ignored, keeps them. *)
LEMMA OnDataBase ==
  ASSUME BaseInv, OnData
  PROVE  BaseInv'
  <1>0. TypeOK /\ Positions /\ Wire /\ Boots /\ Sets /\ Shown /\ NoOrphanRows /\ Buffer
    BY Zenon DEF BaseInv
  <1>1. /\ Receive({"snapshot", "batch"})
        /\ UNCHANGED <<daemonVars, troubles, retained, lastBootId, appliedCv, data, cut>>
    BY Zenon DEF OnData
  <1>2. down # <<>> /\ First.t # "hello" /\ First.t \in {"snapshot", "batch"}
    BY <1>1, Zenon DEF Receive
  <1>3. /\ cut' = cut /\ commits' = commits /\ pos' = pos /\ bootId' = bootId /\ base' = base /\ retained' = retained
        /\ data' = data /\ appliedCv' = appliedCv /\ lastBootId' = lastBootId
    BY <1>1, Zenon DEF daemonVars
  <1>4. /\ First = down[1] /\ 1 \in DOMAIN down /\ First.s \in Stream /\ First.i \in Nat /\ First.cv \in Nat
        /\ First.cv + base = First.i /\ lastBootId = bootId
    BY <1>2, HeadFrame, Awake, Zenon
  <1>5. Positions' /\ Wire' /\ WireOrder' /\ down' \in Seq(Frame)
    BY <1>1, <1>3, CutAhead, TakeWire, Zenon
  <1>6. Shown' /\ NoOrphanRows' /\ Boots'
    <2>1. lastBootId' # 0
      BY <1>0, <1>3, <1>4, SMT DEF Boots, TypeOK
    <2>2. Boots'
      BY <1>0, <1>3, <1>4, <2>1, Zenon DEF Boots
    <2> QED
      BY <1>0, <1>3, <2>2, Zenon DEF Shown, NoOrphanRows, Touching
  <1>7. CASE UNCHANGED <<buffer, subs, open, want, leaving, fresh>>
    <2>1. TypeOK'
      BY <1>0, <1>1, <1>5, <1>7, Zenon DEF TypeOK, daemonVars
    <2>2. Sets' /\ Buffer'
      BY <1>0, <1>3, <1>7, Zenon DEF Sets, Buffer, Touches, Now
    <2> QED
      BY <1>5, <1>6, <2>1, <2>2, Zenon DEF BaseInv
  <1> DEFINE f == [s |-> First.s, kind |-> First.t, i |-> First.i, cv |-> First.cv]
  <1>8. CASE First.s \in open /\ buffer' = Append(buffer, f) /\ UNCHANGED <<subs, open, want, leaving, fresh>>
    <2>1. f \in Buffered /\ f.s = First.s /\ f.kind = First.t /\ f.i = First.i /\ f.cv = First.cv
      BY <1>2, <1>4 DEF Buffered
    <2>2. PICK g : g = f
      BY Zenon
    <2> HIDE DEF f
    <2>3. buffer' \in Seq(Buffered) /\ Grows(buffer, buffer') /\ Len(buffer') = Len(buffer) + 1 /\ buffer'[Len(buffer) + 1] = g
      BY <1>0, <1>8, <2>1, <2>2, AppendGrows, Zenon DEF TypeOK
    <2>4. \A n \in DOMAIN buffer' : (n \in DOMAIN buffer /\ buffer'[n] = buffer[n]) \/ buffer'[n] = g
      <3>1. \A n \in DOMAIN buffer' : n \in DOMAIN buffer \/ n = Len(buffer) + 1
        BY <2>3, SMT DEF Grows
      <3>2. \A n \in DOMAIN buffer : buffer'[n] = buffer[n]
        BY <2>3, Zenon DEF Grows
      <3> QED
        BY <2>3, <3>1, <3>2, Zenon
    <2>5. /\ g.s \in retained /\ g.i <= pos[g.s] /\ g.cv + base = g.i
          /\ g.kind = "batch" => Touches(g.s, g.i) /\ cut < g.i
          /\ g.kind = "snapshot" => cut <= g.i
      BY <1>0, <1>2, <1>4, <1>8, <2>1, <2>2, Zenon DEF Wire, Sets
    <2>6. Buffer'
      <3>1. \A s, j : Touches(s, j)' <=> Touches(s, j)
        BY <1>3, Zenon DEF Touches, Now
      <3>2. ASSUME NEW n \in DOMAIN buffer'
            PROVE  /\ buffer'[n].s \in retained' /\ buffer'[n].i <= pos'[buffer'[n].s]
                   /\ lastBootId' = bootId' => buffer'[n].cv + base' = buffer'[n].i
                   /\ buffer'[n].kind = "batch" => Touches(buffer'[n].s, buffer'[n].i) /\ cut' < buffer'[n].i
                   /\ buffer'[n].kind = "snapshot" => cut' <= buffer'[n].i
        <4>1. CASE n \in DOMAIN buffer /\ buffer'[n] = buffer[n]
          BY <1>0, <1>3, <4>1, Zenon DEF Buffer
        <4>2. CASE buffer'[n] = g
          BY <1>3, <2>5, <4>2, Zenon
        <4> QED
          BY <2>4, <4>1, <4>2, Zenon
      <3> QED
        BY <3>1, <3>2, Zenon DEF Buffer
    <2>7. TypeOK' /\ Sets'
      BY <1>0, <1>1, <1>3, <1>5, <1>8, <2>3, Zenon DEF TypeOK, daemonVars, Sets
    <2> QED
      BY <1>5, <1>6, <2>6, <2>7, Zenon DEF BaseInv
  <1>9. CASE Overflow
    <2>1. /\ buffer' = <<>> /\ subs' = retained /\ open' = {} /\ leaving' = leaving \cup retained /\ want' = retained
          /\ fresh' = {}
      BY <1>9, Zenon DEF Overflow
    <2>2. buffer' \in Seq(Buffered) /\ DOMAIN buffer' = {}
      BY <2>1, SMT
    <2>3. leaving' \subseteq Stream
      BY <1>0, <2>1, Types, Zenon
    <2>4. TypeOK'
      BY <1>0, <1>1, <1>5, <2>1, <2>2, <2>3, Zenon DEF TypeOK, daemonVars
    <2>5. Sets' /\ Buffer'
      BY <1>3, <2>1, <2>2, Zenon DEF Sets, Buffer
    <2> QED
      BY <1>5, <1>6, <2>4, <2>5, Zenon DEF BaseInv
  <1> QED
    BY <1>7, <1>8, <1>9, Zenon DEF OnData

(* A dropped socket, with or without a daemon restart, keeps them. *)
LEMMA ReconnectBase ==
  ASSUME BaseInv, Reconnect
  PROVE  BaseInv'
  <1>0. TypeOK /\ Positions /\ Wire /\ Boots /\ Sets /\ Shown /\ NoOrphanRows /\ Buffer
    BY Zenon DEF BaseInv
  <1>1. /\ troubles' = troubles + 1 /\ down' = <<>> /\ leaving' = {} /\ open' = {} /\ want' = subs /\ serving' = {}
        /\ owed' = FALSE /\ fresh' = {}
        /\ UNCHANGED <<commits, pos, retained, subs, lastBootId, gateVars, cut>>
    BY Zenon DEF Reconnect
  <1>2. \/ bootId' = bootId /\ base' = base /\ told' = told
        \/ bootId' = bootId + 1 /\ base' = Now /\ told' = Now
    BY Zenon DEF Reconnect
  <1>3. buffer' = buffer /\ appliedCv' = appliedCv /\ data' = data /\ Now' = Now
    BY <1>1, Zenon DEF gateVars, Now
  <1>4. /\ Now \in Nat /\ bootId \in Nat /\ base \in Nat /\ told \in Nat /\ lastBootId \in Nat /\ cut \in Nat
        /\ troubles \in Nat /\ \A s \in Stream : pos[s] \in Nat
    BY <1>0, Types
  <1>5. /\ bootId' \in Nat /\ base' \in Nat /\ told' \in Nat /\ troubles' \in Nat
        /\ lastBootId <= bootId' /\ 0 < bootId' /\ (lastBootId = bootId' => bootId' = bootId /\ base' = base)
        /\ base' <= told' /\ cut <= told' /\ told' <= Now
    BY <1>0, <1>1, <1>2, <1>4, SMT DEF Positions, Boots
  <1>6. down' \in Seq(Frame) /\ DOMAIN down' = {}
    BY <1>1, SMT
  <1>7. TypeOK'
    BY <1>0, <1>1, <1>3, <1>5, <1>6, Zenon DEF TypeOK
  <1>8. Positions'
    BY <1>0, <1>1, <1>3, <1>5, Zenon DEF Positions
  <1>9. Wire' /\ WireOrder'
    BY <1>6, Zenon DEF Wire, WireOrder
  <1>10. Buffer'
    BY <1>0, <1>1, <1>3, <1>5, Zenon DEF Buffer, Touches, Now
  <1>11. Boots'
    <2>1. lastBootId' = bootId' => appliedCv' = 0 \/ appliedCv' + base' <= cut'
      BY <1>0, <1>1, <1>3, <1>5, Zenon DEF Boots
    <2>2. lastBootId' = 0 => buffer' = <<>> /\ appliedCv' = 0
      BY <1>0, <1>1, <1>3, Zenon DEF Boots
    <2> QED
      BY <1>1, <1>5, <2>1, <2>2, Zenon DEF Boots
  <1>12. Sets'
    BY <1>0, <1>1, Zenon DEF Sets
  <1>13. Shown' /\ NoOrphanRows'
    BY <1>0, <1>1, <1>3, Zenon DEF Shown, NoOrphanRows, Touching
  <1> QED
    BY <1>7, <1>8, <1>9, <1>10, <1>11, <1>12, <1>13, Zenon DEF BaseInv

(* Steps that leave the daemon and the wire alone. *)
LEMMA Still ==
  ASSUME BaseInv, UNCHANGED <<daemonVars, down, lastBootId, cut>>
  PROVE  Positions' /\ Wire' /\ WireOrder'
  <1>1. /\ base' = base /\ cut' = cut /\ told' = told /\ pos' = pos /\ bootId' = bootId /\ commits' = commits
        /\ serving' = serving /\ down' = down
    BY Zenon DEF daemonVars
  <1> QED
    BY <1>1, Zenon DEF BaseInv, Positions, Wire, WireOrder, Touches, Now

(* Releasing a query keeps them. *)
LEMMA ReleaseQueryBase ==
  ASSUME BaseInv, NEW q \in Query, ReleaseQuery(q)
  PROVE  BaseInv'
  <1>0. TypeOK /\ Boots /\ Sets /\ Shown /\ NoOrphanRows /\ Buffer
    BY Zenon DEF BaseInv
  <1>1. /\ troubles' = troubles + 1 /\ retained' = retained \ {q} /\ subs' = subs \ {q} /\ open' = open \ {q}
        /\ want' = want \ {q} /\ leaving' = leaving \cup {q} /\ Keep(Without(q)) /\ data' = [data EXCEPT ![q] = {}]
        /\ fresh' = fresh \ {q} /\ UNCHANGED <<daemonVars, down, lastBootId, appliedCv, cut>>
    BY Zenon DEF ReleaseQuery
  <1>2. Without(q) \in SUBSET DOMAIN buffer
    BY Zenon DEF Without
  <1>3. buffer' \in Seq(Buffered) /\ Kept(Without(q))
    BY <1>0, <1>1, <1>2, KeepKeeps, Zenon
  <1>4. Positions' /\ Wire' /\ WireOrder'
    BY <1>1, Still, Zenon
  <1>5. q \in Stream /\ data \in [Stream -> SUBSET Nat] /\ troubles \in Nat
    BY <1>0, Types, Zenon DEF Stream, TypeOK
  <1>6. data' \in [Stream -> SUBSET Nat] /\ data'[q] = {} /\ \A s \in Stream : s # q => data'[s] = data[s]
    BY <1>1, <1>5
  <1>7. TypeOK'
    <2>1. troubles' \in Nat
      BY <1>1, <1>5, SMT
    <2>2. leaving' \subseteq Stream /\ retained' \subseteq Stream /\ subs' \subseteq Stream /\ open' \subseteq Stream
      BY <1>0, <1>1, <1>5, Types, Zenon
    <2>3. want' \subseteq Stream /\ fresh' \subseteq Stream
      BY <1>0, <1>1, <1>5, Types, Zenon
    <2>4. UNCHANGED <<daemonVars, down, lastBootId, appliedCv, cut>>
      BY <1>1, Zenon
    <2> QED
      BY <1>0, <1>3, <1>6, <2>1, <2>2, <2>3, <2>4, Zenon DEF TypeOK, daemonVars
  <1>8. /\ cut' = cut /\ commits' = commits /\ pos' = pos /\ bootId' = bootId /\ base' = base /\ lastBootId' = lastBootId
        /\ serving' = serving /\ down' = down /\ appliedCv' = appliedCv
    BY <1>1, Zenon DEF daemonVars
  <1>9. Buffer'
    <2>1. ASSUME NEW n \in DOMAIN buffer'
          PROVE  \E m \in DOMAIN buffer :
                   /\ buffer'[n] = buffer[m] /\ buffer[m].s \in retained'
                   /\ buffer[m].kind = "batch" => cut' < buffer[m].i
                   /\ buffer[m].kind = "snapshot" => cut' <= buffer[m].i
                   /\ lastBootId' = bootId' => lastBootId = bootId /\ base' = base
      <3>1. PICK m \in Without(q) : buffer'[n] = buffer[m]
        BY <1>3, Zenon DEF Kept
      <3>2. m \in DOMAIN buffer /\ buffer[m].s # q
        BY <3>1, Zenon DEF Without
      <3> QED
        BY <1>0, <1>1, <1>8, <3>1, <3>2, Zenon DEF Buffer
    <2> QED
      BY <1>8, <2>1, BufferStays, Zenon
  <1>10. Shown' /\ NoOrphanRows'
    <2>1. \A s : Touching(s, cut)' = Touching(s, cut)
      BY <1>8, Zenon DEF Touching
    <2> QED
      BY <1>0, <1>1, <1>6, <2>1, Zenon DEF Shown, NoOrphanRows
  <1>11. Sets'
    BY <1>0, <1>1, Zenon DEF Sets
  <1>12. Boots'
    <2>1. buffer = <<>> => buffer' = <<>>
      <3>1. buffer = <<>> => DOMAIN buffer' = {}
        <4>1. buffer = <<>> => DOMAIN buffer = {}
          BY SMT
        <4> QED
          BY <1>2, <1>3, <4>1, Zenon DEF Kept
      <3>2. DOMAIN buffer' = {} => buffer' = <<>>
        BY <1>3, SMT
      <3> QED
        BY <3>1, <3>2
    <2>2. lastBootId # bootId => open' = {}
      BY <1>0, <1>1, Zenon DEF Boots
    <2> QED
      BY <1>0, <1>8, <2>1, <2>2, Zenon DEF Boots
  <1> QED
    BY <1>4, <1>7, <1>9, <1>10, <1>11, <1>12, Zenon DEF BaseInv

(* Retaining a query keeps them. *)
LEMMA RetainQueryBase ==
  ASSUME BaseInv, NEW q \in Query, RetainQuery(q)
  PROVE  BaseInv'
  <1>0. TypeOK /\ Boots /\ Sets /\ Shown /\ NoOrphanRows /\ Buffer
    BY Zenon DEF BaseInv
  <1>1. /\ q \notin retained \cup leaving /\ retained' = retained \cup {q} /\ subs' = subs \cup {q} /\ open' = open \ {q}
        /\ want' = want \cup {q} /\ UNCHANGED <<daemonVars, leaving, down, troubles, lastBootId, gateVars, history>>
    BY Zenon DEF RetainQuery
  <1>2. Positions' /\ Wire' /\ WireOrder'
    BY <1>1, Still, Zenon DEF history
  <1>3. q \in Stream
    BY Zenon DEF Stream
  <1>4. TypeOK'
    <2>1. retained' \subseteq Stream /\ subs' \subseteq Stream /\ open' \subseteq Stream /\ want' \subseteq Stream
      BY <1>0, <1>1, <1>3, Types, Zenon
    <2>2. UNCHANGED <<daemonVars, leaving, down, troubles, lastBootId, gateVars, history>>
      BY <1>1, Zenon
    <2> QED
      BY <1>0, <2>1, <2>2, Zenon DEF TypeOK, daemonVars, gateVars, history
  <1>5. /\ cut' = cut /\ commits' = commits /\ pos' = pos /\ bootId' = bootId /\ base' = base /\ lastBootId' = lastBootId
        /\ serving' = serving /\ down' = down /\ appliedCv' = appliedCv /\ buffer' = buffer /\ data' = data
        /\ fresh' = fresh /\ leaving' = leaving
    BY <1>1, Zenon DEF daemonVars, gateVars, history
  <1>6. Shown' /\ NoOrphanRows' /\ Buffer'
    BY <1>0, <1>1, <1>5, Zenon DEF Shown, NoOrphanRows, Buffer, Touching, Touches, Now
  <1>7. Sets' /\ Boots'
    BY <1>0, <1>1, <1>5, Zenon DEF Sets, Boots
  <1> QED
    BY <1>2, <1>4, <1>6, <1>7, Zenon DEF BaseInv

-----------------------------------------------------------------------------
(* The epoch of one stream.  A stream nobody waits for has none. *)
LEMMA QuietEpoch ==
  ASSUME NEW s, ~Active(s)', s \notin fresh'
  PROVE  Epoch(s)'
  BY Zenon DEF Epoch, Opens

(* The step leaves alone what the client knows of s, and its buffered frames. *)
Mine(s) ==
  /\ Active(s)' <=> Active(s)
  /\ s \in open' <=> s \in open
  /\ s \in fresh' <=> s \in fresh
OneSnap(s) ==
  \A m, n \in DOMAIN buffer : HeldSnap(buffer[m], s) /\ HeldSnap(buffer[n], s) => m = n
Same(s) ==
  /\ \A n \in DOMAIN buffer' : buffer'[n].s = s => \E m \in DOMAIN buffer : buffer[m] = buffer'[n]
  /\ \A m \in DOMAIN buffer : buffer[m].s = s => \E n \in DOMAIN buffer' : buffer'[n] = buffer[m]
  /\ OneSnap(s) => OneSnap(s)'

(* A waiting stream has one snapshot in the buffer, before all its batches. *)
LEMMA WaitingSnap ==
  ASSUME NEW s
  PROVE  Waiting(s) <=>
           /\ OneSnap(s)
           /\ \E x \in DOMAIN buffer :
                /\ HeldSnap(buffer[x], s)
                /\ \A n \in DOMAIN buffer : HeldBatch(buffer[n], s) => buffer[x].i < buffer[n].i
                /\ \A n \in DOMAIN down : ~IsSnap(down[n], s) /\ (IsBatch(down[n], s) => buffer[x].i < down[n].i)
                /\ \A j \in Nat : Due(s, buffer[x].i, j) => OnWire(s, 0, j) \/ InBuffer(s, j)
  BY Zenon DEF Waiting, OneSnap

(* What s still has to get, from the buffer alone. *)
LEMMA SameHeld ==
  ASSUME NEW s, Same(s)
  PROVE  /\ NotHeld(s) => NotHeld(s)'
         /\ \A j : InBuffer(s, j) => InBuffer(s, j)'
         /\ (\A n \in DOMAIN buffer : ~HeldSnap(buffer[n], s)) => \A n \in DOMAIN buffer' : ~HeldSnap(buffer'[n], s)
  <1>1. ASSUME NotHeld(s) PROVE NotHeld(s)'
    BY <1>1, Zenon DEF NotHeld, Same
  <1>2. ASSUME NEW j, InBuffer(s, j) PROVE InBuffer(s, j)'
    <2>1. PICK m \in DOMAIN buffer : HeldBatch(buffer[m], s) /\ buffer[m].i = j
      BY <1>2, Zenon DEF InBuffer
    <2>2. PICK n \in DOMAIN buffer' : buffer'[n] = buffer[m]
      BY <2>1, Zenon DEF Same, HeldBatch
    <2> QED
      BY <2>1, <2>2, Zenon DEF InBuffer, HeldBatch
  <1>3. ASSUME \A n \in DOMAIN buffer : ~HeldSnap(buffer[n], s), NEW n \in DOMAIN buffer'
        PROVE  ~HeldSnap(buffer'[n], s)
    BY <1>3, Zenon DEF Same, HeldSnap
  <1> QED
    BY <1>1, <1>2, <1>3, Zenon

(* The wire and what is due change so that the rest of the epoch still comes. *)
Follows(s) ==
  \A p, j : Due(s, p, j)' => (Due(s, p, j) /\ (OnWire(s, 0, j) => OnWire(s, 0, j)')) \/ OnWire(s, 0, j)'

(* A waiting snapshot goes on waiting while its own frames stay. *)
LEMMA WaitingStays ==
  ASSUME NEW s, Same(s), Waiting(s), Follows(s),
         \A n \in DOMAIN down' : IsSnap(down'[n], s) => \E m \in DOMAIN down : down[m] = down'[n],
         \A n \in DOMAIN down' : IsBatch(down'[n], s) =>
           \/ \E m \in DOMAIN down : down[m] = down'[n]
           \/ \A x \in DOMAIN buffer : HeldSnap(buffer[x], s) => buffer[x].i < down'[n].i
  PROVE  Waiting(s)'
  <1>1. PICK x \in DOMAIN buffer :
          /\ HeldSnap(buffer[x], s)
          /\ \A n \in DOMAIN buffer : HeldBatch(buffer[n], s) => buffer[x].i < buffer[n].i
          /\ \A n \in DOMAIN down : ~IsSnap(down[n], s) /\ (IsBatch(down[n], s) => buffer[x].i < down[n].i)
          /\ \A j \in Nat : Due(s, buffer[x].i, j) => OnWire(s, 0, j) \/ InBuffer(s, j)
    BY Zenon DEF Waiting
  <1>2. OneSnap(s)'
    BY WaitingSnap, Zenon DEF Same
  <1>3. PICK y \in DOMAIN buffer' : buffer'[y] = buffer[x]
    BY <1>1, Zenon DEF Same, HeldSnap
  <1>4. PICK p : p = buffer[x].i /\ p = buffer'[y].i
    BY <1>3, Zenon
  <1>5. HeldSnap(buffer'[y], s)
    BY <1>1, <1>3, Zenon
  <1>6. ASSUME NEW n \in DOMAIN buffer', HeldBatch(buffer'[n], s) PROVE p < buffer'[n].i
    <2>1. PICK m \in DOMAIN buffer : buffer[m] = buffer'[n]
      BY <1>6, Zenon DEF Same, HeldBatch
    <2> QED
      BY <1>1, <1>4, <1>6, <2>1, Zenon
  <1>7. ASSUME NEW n \in DOMAIN down'
        PROVE  ~IsSnap(down'[n], s) /\ (IsBatch(down'[n], s) => p < down'[n].i)
    <2>1. ~IsSnap(down'[n], s)
      BY <1>1, Zenon
    <2>2. ASSUME IsBatch(down'[n], s) PROVE p < down'[n].i
      BY <1>1, <1>4, <2>2, Zenon
    <2> QED
      BY <2>1, <2>2, Zenon
  <1>8. ASSUME NEW j \in Nat, Due(s, p, j)' PROVE OnWire(s, 0, j)' \/ InBuffer(s, j)'
    <2>1. OnWire(s, 0, j)' \/ (Due(s, p, j) /\ (OnWire(s, 0, j) => OnWire(s, 0, j)'))
      BY <1>8, Zenon DEF Follows
    <2>2. Due(s, p, j) => OnWire(s, 0, j) \/ InBuffer(s, j)
      BY <1>1, <1>4, Zenon
    <2>3. InBuffer(s, j) => InBuffer(s, j)'
      BY SameHeld, Zenon
    <2> QED
      BY <2>1, <2>2, <2>3, Zenon
  <1>9. \E z \in DOMAIN buffer' :
          /\ HeldSnap(buffer'[z], s)
          /\ \A n \in DOMAIN buffer' : HeldBatch(buffer'[n], s) => buffer'[z].i < buffer'[n].i
          /\ \A n \in DOMAIN down' : ~IsSnap(down'[n], s) /\ (IsBatch(down'[n], s) => buffer'[z].i < down'[n].i)
          /\ \A j \in Nat : (Due(s, buffer[z].i, j) => OnWire(s, 0, j) \/ InBuffer(s, j))'
    <2>1. \A j \in Nat : (Due(s, buffer[y].i, j) => OnWire(s, 0, j) \/ InBuffer(s, j))'
      BY <1>4, <1>8, Zenon DEF Due
    <2> QED
      BY <1>4, <1>5, <1>6, <1>7, <2>1, Zenon
  <1>10. \A z, n \in DOMAIN buffer' : HeldSnap(buffer'[z], s) /\ HeldSnap(buffer'[n], s) => z = n
    BY <1>2, Zenon DEF OneSnap
  <1> QED
    BY <1>9, <1>10, Zenon DEF Waiting

(* A released stream stays current while its own frames stay. *)
LEMMA CurrentStays ==
  ASSUME NEW s, Same(s), Current(s), Follows(s), data'[s] = data[s], cut' = cut, Touching(s, cut)' = Touching(s, cut),
         \A n \in DOMAIN down' : IsSnap(down'[n], s) => \E m \in DOMAIN down : down[m] = down'[n]
  PROVE  Current(s)'
  <1>1. \A n \in DOMAIN buffer' : ~HeldSnap(buffer'[n], s)
    BY SameHeld, Zenon DEF Current
  <1>2. \A n \in DOMAIN down' : ~IsSnap(down'[n], s)
    BY Zenon DEF Current
  <1>3. PICK c : c = cut
    BY Zenon
  <1>4. ASSUME NEW j \in Nat, Due(s, c, j)' PROVE OnWire(s, 0, j)' \/ InBuffer(s, j)'
    <2>1. OnWire(s, 0, j)' \/ (Due(s, c, j) /\ (OnWire(s, 0, j) => OnWire(s, 0, j)'))
      BY <1>4, Zenon DEF Follows
    <2>2. Due(s, c, j) => OnWire(s, 0, j) \/ InBuffer(s, j)
      BY <1>3, Zenon DEF Current
    <2>3. InBuffer(s, j) => InBuffer(s, j)'
      BY SameHeld, Zenon
    <2> QED
      BY <2>1, <2>2, <2>3, Zenon
  <1>5. \A j \in Nat : (Due(s, cut, j) => OnWire(s, 0, j) \/ InBuffer(s, j))'
    BY <1>3, <1>4, Zenon DEF Due
  <1>6. data'[s] = Touching(s, cut)'
    BY Zenon DEF Current
  <1> QED
    BY <1>1, <1>2, <1>5, <1>6, Zenon DEF Current

(* Frames join the wire that carry the epoch of s on, or none of it. *)
New(n) == n \in DOMAIN down' /\ n \notin DOMAIN down
Adds(s) ==
  /\ Grows(down, down') /\ pos[s] <= pos'[s]
  /\ \A n : New(n) => /\ ~IsHello(down'[n], s) /\ ~IsSnap(down'[n], s)
                      /\ IsBatch(down'[n], s) => pos[s] < down'[n].i
                      /\ IsProgress(down'[n]) /\ s \in serving => down'[n].i <= pos[s]
  /\ \A j \in Nat : Touches(s, j)' /\ j <= pos[s] => Touches(s, j)
  /\ \A j \in Nat : Touches(s, j)' /\ pos[s] < j /\ j <= pos'[s] => \E n : New(n) /\ IsBatch(down'[n], s) /\ down'[n].i = j
  /\ Active(s)' /\ s \in serving /\ s \notin serving' => \E n : New(n) /\ IsErr(down'[n], s)

(* Places of a growing wire. *)
LEMMA GrowPlaces ==
  ASSUME TypeOK, Grows(down, down')
  PROVE  /\ \A n \in DOMAIN down : n \in DOMAIN down' /\ down'[n] = down[n]
         /\ \A n : New(n) => \A h \in DOMAIN down \cup {0} : h < n
  <1>1. \A n \in DOMAIN down : n \in DOMAIN down' /\ down'[n] = down[n]
    BY SMT DEF Grows
  <1>2. ASSUME NEW n, New(n), NEW h \in DOMAIN down \cup {0} PROVE h < n
    BY <1>2, SMT DEF Grows, New
  <1> QED
    BY <1>1, <1>2, Zenon

(* Positions of a stream whose derivation advances. *)
LEMMA GrowNumbers ==
  ASSUME TypeOK, TypeOK', NEW s \in Stream, pos[s] <= pos'[s]
  PROVE  /\ pos[s] \in Nat /\ pos'[s] \in Nat
         /\ \A i \in Nat : i <= pos[s] => i <= pos'[s]
         /\ \A i \in Nat : i <= pos[s] \/ pos[s] < i
         /\ \A i, j \in Nat : i <= pos[s] /\ pos[s] < j => i < j
         /\ \A n \in DOMAIN down : down[n].i \in Nat
  <1>1. pos[s] \in Nat /\ \A n \in DOMAIN down : down[n].i \in Nat
    BY Types, FrameTypes, Zenon
  <1>2. pos'[s] \in Nat
    BY SMT DEF TypeOK
  <1> QED
    BY <1>1, <1>2, SMT

(* The frames on the wire after a step. *)
LEMMA NextFrames ==
  ASSUME TypeOK'
  PROVE  \A n \in DOMAIN down' : down'[n] \in Frame /\ down'[n].i \in Nat
  <1>1. down' \in Seq(Frame)
    BY Zenon DEF TypeOK
  <1>2. \A n \in DOMAIN down' : down'[n] \in Frame
    BY <1>1, SMT
  <1> QED
    BY <1>2, FrameTypes, Zenon

(* A served stream, or one with an error coming, stays so as the wire grows. *)
LEMMA GrowAlive ==
  ASSUME TypeOK, TypeOK', NEW s \in Stream, NEW h \in DOMAIN down \cup {0}, Adds(s), Active(s)',
         Alive(s, h), Paced(s, h)
  PROVE  Alive(s, h)' /\ Paced(s, h)'
  <1>1. /\ \A n \in DOMAIN down : n \in DOMAIN down' /\ down'[n] = down[n]
        /\ \A n : New(n) => \A g \in DOMAIN down \cup {0} : g < n
    BY GrowPlaces, Zenon DEF Adds
  <1>2. Alive(s, h)'
    <2>1. CASE \E n \in DOMAIN down : h < n /\ IsErr(down[n], s)
      <3>1. PICK n \in DOMAIN down : h < n /\ IsErr(down[n], s)
        BY <2>1, Zenon
      <3>2. n \in DOMAIN down' /\ IsErr(down'[n], s)
        BY <1>1, <3>1, Zenon
      <3> QED
        BY <3>1, <3>2, Zenon DEF Alive
    <2>2. CASE s \in serving /\ s \notin serving'
      <3>1. PICK n : New(n) /\ IsErr(down'[n], s)
        BY <2>2, Zenon DEF Adds
      <3>2. n \in DOMAIN down' /\ h < n
        BY <1>1, <3>1, Zenon DEF New
      <3> QED
        BY <3>1, <3>2, Zenon DEF Alive
    <2>3. CASE s \in serving'
      BY <2>3, Zenon DEF Alive
    <2> QED
      BY <2>1, <2>2, <2>3, Zenon DEF Alive
  <1>3. ASSUME NEW n \in DOMAIN down', h < n, IsProgress(down'[n])
        PROVE  down'[n].i <= pos'[s] \/ \E m \in DOMAIN down' : h < m /\ m < n /\ IsErr(down'[m], s)
    <2>1. \A i \in Nat : i <= pos[s] => i <= pos'[s]
      BY GrowNumbers, Zenon DEF Adds
    <2>2. down'[n].i \in Nat
      BY NextFrames, Zenon
    <2>3. CASE n \in DOMAIN down
      <3>1. down[n].i <= pos[s] \/ \E m \in DOMAIN down : h < m /\ m < n /\ IsErr(down[m], s)
        BY <1>1, <1>3, <2>3, Zenon DEF Paced
      <3> QED
        BY <1>1, <2>1, <2>2, <2>3, <3>1, Zenon
    <2>4. CASE New(n) /\ s \in serving
      BY <1>3, <2>1, <2>2, <2>4, Zenon DEF Adds
    <2>5. CASE New(n) /\ s \notin serving
      <3>1. PICK m \in DOMAIN down : h < m /\ IsErr(down[m], s)
        BY <2>5, Zenon DEF Alive
      <3> QED
        BY <1>1, <2>5, <3>1, Zenon
    <2> QED
      BY <2>3, <2>4, <2>5, Zenon DEF New
  <1> QED
    BY <1>2, <1>3, Zenon DEF Paced

(* What the daemon derives for a stream goes on the wire. *)
LEMMA GrowFollows ==
  ASSUME TypeOK, TypeOK', NEW s \in Stream, NEW h \in DOMAIN down \cup {0}, Adds(s)
  PROVE  /\ \A p : \A j \in Nat : Due(s, p, j)' => (Due(s, p, j) /\ (OnWire(s, h, j) => OnWire(s, h, j)')) \/ OnWire(s, h, j)'
         /\ \A n \in DOMAIN down' : IsSnap(down'[n], s) => n \in DOMAIN down /\ down[n] = down'[n]
  <1>1. /\ \A n \in DOMAIN down : n \in DOMAIN down' /\ down'[n] = down[n]
        /\ \A n : New(n) => \A g \in DOMAIN down \cup {0} : g < n
    BY GrowPlaces, Zenon DEF Adds
  <1>2. ASSUME NEW j, OnWire(s, h, j) PROVE OnWire(s, h, j)'
    BY <1>1, <1>2, Zenon DEF OnWire
  <1>3. ASSUME NEW p, NEW j \in Nat, Due(s, p, j)' PROVE Due(s, p, j) \/ OnWire(s, h, j)'
    <2>1. p < j /\ j <= pos'[s] /\ Touches(s, j)'
      BY <1>3, Zenon DEF Due
    <2>2. j <= pos[s] \/ pos[s] < j
      BY GrowNumbers, Zenon DEF Adds
    <2>3. CASE j <= pos[s]
      BY <2>1, <2>3, Zenon DEF Due, Adds
    <2>4. CASE pos[s] < j
      <3>1. PICK n : New(n) /\ IsBatch(down'[n], s) /\ down'[n].i = j
        BY <2>1, <2>4, Zenon DEF Adds
      <3>2. n \in DOMAIN down' /\ h < n
        BY <1>1, <3>1, Zenon DEF New
      <3> QED
        BY <3>1, <3>2, Zenon DEF OnWire
    <2> QED
      BY <2>2, <2>3, <2>4, Zenon
  <1>4. \A n \in DOMAIN down' : IsSnap(down'[n], s) => n \in DOMAIN down /\ down[n] = down'[n]
    BY <1>1, Zenon DEF Adds, New
  <1> QED
    BY <1>2, <1>3, <1>4, Zenon

(* A snapshot on its way stays on its way as the wire grows. *)
LEMMA GrowComing ==
  ASSUME TypeOK, TypeOK', Wire, NEW s \in Stream, NEW h \in DOMAIN down \cup {0}, Adds(s), Coming(s, h)
  PROVE  Coming(s, h)'
  <1>1. /\ \A n \in DOMAIN down : n \in DOMAIN down' /\ down'[n] = down[n]
        /\ \A n : New(n) => \A g \in DOMAIN down \cup {0} : g < n
    BY GrowPlaces, Zenon DEF Adds
  <1>2. PICK x \in DOMAIN down :
          /\ h < x /\ IsSnap(down[x], s)
          /\ \A n \in DOMAIN down : h < n /\ IsSnap(down[n], s) => n = x
          /\ \A n \in DOMAIN down : h < n /\ IsBatch(down[n], s) => x < n /\ down[x].i < down[n].i
          /\ \A j \in Nat : Due(s, down[x].i, j) => OnWire(s, h, j)
    BY Zenon DEF Coming
  <1>3. PICK p : p = down[x].i /\ p = down'[x].i
    BY <1>1, Zenon
  <1>4. p \in Nat /\ p <= pos[s] /\ \A j \in Nat : pos[s] < j => p < j
    <2>1. p \in Nat /\ p <= pos[s]
      <3>1. down[x].t = "snapshot" /\ down[x].s = s
        BY <1>2, Zenon DEF IsSnap
      <3>2. down[x].i <= pos[down[x].s]
        BY <3>1, Zenon DEF Wire
      <3>3. down[x].i \in Nat
        BY Types, FrameTypes, Zenon
      <3> QED
        BY <1>3, <3>1, <3>2, <3>3, Zenon
    <2>2. \A i, j \in Nat : i <= pos[s] /\ pos[s] < j => i < j
      BY GrowNumbers, Zenon DEF Adds
    <2> QED
      BY <2>1, <2>2, Zenon
  <1>5. \A n \in DOMAIN down' : h < n /\ IsSnap(down'[n], s) => n = x
    BY <1>2, GrowFollows, Zenon
  <1>6. ASSUME NEW n \in DOMAIN down', h < n, IsBatch(down'[n], s) PROVE x < n /\ p < down'[n].i
    <2>1. CASE n \in DOMAIN down
      BY <1>1, <1>2, <1>3, <1>6, <2>1, Zenon
    <2>2. CASE New(n)
      <3>1. down'[n].i \in Nat
        BY NextFrames, Zenon
      <3>2. pos[s] < down'[n].i
        BY <1>6, <2>2, Zenon DEF Adds
      <3> QED
        BY <1>1, <1>4, <2>2, <3>1, <3>2, Zenon
    <2> QED
      BY <2>1, <2>2, Zenon DEF New
  <1>7. ASSUME NEW j \in Nat, Due(s, p, j)' PROVE OnWire(s, h, j)'
    BY <1>2, <1>3, <1>7, GrowFollows, Zenon
  <1>8. \A j \in Nat : (Due(s, down[x].i, j) => OnWire(s, h, j))'
    BY <1>3, <1>7, Zenon DEF Due
  <1>9. x \in DOMAIN down' /\ IsSnap(down'[x], s) /\ down'[x].i = p
    BY <1>1, <1>2, <1>3, Zenon
  <1> QED
    BY <1>2, <1>5, <1>6, <1>8, <1>9, Zenon DEF Coming

(* An epoch survives what the daemon sends. *)
LEMMA GrowEpoch ==
  ASSUME BaseInv, TypeOK', NEW s \in Stream, Epoch(s), Mine(s), Same(s), Adds(s),
         data'[s] = data[s], cut' = cut, Touching(s, cut)' = Touching(s, cut)
  PROVE  Epoch(s)'
  <1>0. TypeOK /\ Wire /\ Buffer
    BY Zenon DEF BaseInv
  <1>1. /\ \A n \in DOMAIN down : n \in DOMAIN down' /\ down'[n] = down[n]
        /\ \A n : New(n) => \A g \in DOMAIN down \cup {0} : g < n
    BY <1>0, GrowPlaces, Zenon DEF Adds
  <1>2. ASSUME NEW h \in DOMAIN down' \cup {0}, Opens(s, h)' PROVE h \in DOMAIN down \cup {0} /\ Opens(s, h)
    <2>1. h \in DOMAIN down \cup {0}
      <3>1. h \in DOMAIN down' => 0 < h
        BY SMT DEF TypeOK
      <3>2. h # 0 => IsHello(down'[h], s)
        BY <1>2, Zenon DEF Opens
      <3> QED
        BY <1>2, <3>2, Zenon DEF Adds, New
    <2>2. NoHello(s, h)
      BY <1>1, <1>2, Zenon DEF Opens, NoHello
    <2>3. IF h = 0 THEN s \in open ELSE IsHello(down[h], s)
      BY <1>1, <1>2, <2>1, Zenon DEF Opens, Mine
    <2> QED
      BY <1>2, <2>1, <2>2, <2>3, Zenon DEF Opens, Mine
  <1>3. Follows(s)
    <2>1. \A p, j : Due(s, p, j)' => j \in Nat
      BY SMT DEF Due, Touches
    <2> QED
      BY <1>0, <2>1, GrowFollows, Zenon DEF Follows
  <1>4. \A n \in DOMAIN down' : IsSnap(down'[n], s) => \E m \in DOMAIN down : down[m] = down'[n]
    BY <1>0, GrowFollows, Zenon
  <1>5. Current(s) => Current(s)'
    BY <1>3, <1>4, CurrentStays, Zenon
  <1>6. Waiting(s) => Waiting(s)'
    <2>1. ASSUME NEW n \in DOMAIN down', IsBatch(down'[n], s)
          PROVE  \/ \E m \in DOMAIN down : down[m] = down'[n]
                 \/ \A x \in DOMAIN buffer : HeldSnap(buffer[x], s) => buffer[x].i < down'[n].i
      <3>1. CASE n \in DOMAIN down
        BY <1>1, <3>1, Zenon
      <3>2. CASE New(n)
        <4>1. ASSUME NEW x \in DOMAIN buffer, HeldSnap(buffer[x], s) PROVE buffer[x].i < down'[n].i
          <5>1. buffer[x].i \in Nat /\ buffer[x].i <= pos[s]
            BY <1>0, <4>1, Types, HeldTypes, Zenon DEF Buffer, HeldSnap
          <5>2. down'[n].i \in Nat
            BY NextFrames, Zenon
          <5>3. pos[s] < down'[n].i
            BY <2>1, <3>2, Zenon DEF Adds
          <5> QED
            BY <1>0, <5>1, <5>2, <5>3, GrowNumbers, Zenon DEF Adds
        <4> QED
          BY <4>1, Zenon
      <3> QED
        BY <3>1, <3>2, Zenon DEF New
    <2> QED
      BY <1>3, <1>4, <2>1, WaitingStays, Zenon
  <1>7. s \in fresh' => Opens(s, 0)' /\ Current(s)'
    <2>1. ASSUME s \in fresh' PROVE Opens(s, 0)'
      <3>1. Opens(s, 0)
        BY <2>1, Zenon DEF Epoch, Mine
      <3>2. NoHello(s, 0)'
        BY <1>1, <3>1, Zenon DEF Opens, NoHello, Adds, New
      <3> QED
        BY <3>1, <3>2, Zenon DEF Opens, Mine
    <2> QED
      BY <1>5, <2>1, Zenon DEF Epoch, Mine
  <1>8. ASSUME NEW h \in DOMAIN down' \cup {0}, Opens(s, h)'
        PROVE  /\ Alive(s, h)' /\ Paced(s, h)'
               /\ \/ Coming(s, h)' /\ (h = 0 => NotHeld(s)')
                  \/ h = 0 /\ (Waiting(s)' \/ s \in fresh')
    <2>1. h \in DOMAIN down \cup {0} /\ Opens(s, h)
      BY <1>2, <1>8, Zenon
    <2>2. /\ Alive(s, h) /\ Paced(s, h)
          /\ \/ Coming(s, h) /\ (h = 0 => NotHeld(s))
             \/ h = 0 /\ (Waiting(s) \/ s \in fresh)
      BY <2>1, Zenon DEF Epoch
    <2>3. Alive(s, h)' /\ Paced(s, h)'
      BY <1>0, <1>8, <2>1, <2>2, GrowAlive, Zenon DEF Opens
    <2>4. Coming(s, h) => Coming(s, h)'
      BY <1>0, <2>1, GrowComing, Zenon
    <2>5. NotHeld(s) => NotHeld(s)'
      BY SameHeld, Zenon
    <2> QED
      BY <1>6, <2>2, <2>3, <2>4, <2>5, Zenon DEF Mine
  <1> QED
    BY <1>7, <1>8, Zenon DEF Epoch

(* An unchanged buffer holds the same of every stream. *)
LEMMA BufferSame ==
  ASSUME NEW s, buffer' = buffer
  PROVE  Same(s)
  BY Zenon DEF Same, OneSnap

(* A buffer that keeps all frames of a stream holds the same of it. *)
LEMMA KeptSame ==
  ASSUME NEW s, NEW places \in SUBSET DOMAIN buffer, Kept(places), \A m \in DOMAIN buffer : buffer[m].s = s => m \in places
  PROVE  Same(s)
  <1>1. PICK at : /\ \A n \in DOMAIN buffer' : at[n] \in places /\ buffer'[n] = buffer[at[n]]
                  /\ \A m \in places : \E n \in DOMAIN buffer' : at[n] = m
                  /\ \A m, n \in DOMAIN buffer' : at[m] = at[n] => m = n
    BY Zenon DEF Kept
  <1>2. \A n \in DOMAIN buffer' : at[n] \in DOMAIN buffer
    BY <1>1, Zenon
  <1>3. \A n \in DOMAIN buffer' : buffer'[n].s = s => \E m \in DOMAIN buffer : buffer[m] = buffer'[n]
    BY <1>1, <1>2, Zenon
  <1>4. ASSUME NEW m \in DOMAIN buffer, buffer[m].s = s PROVE \E n \in DOMAIN buffer' : buffer'[n] = buffer[m]
    <2>1. PICK n \in DOMAIN buffer' : at[n] = m
      BY <1>1, <1>4, Zenon
    <2> QED
      BY <1>1, <2>1, Zenon
  <1>5. ASSUME OneSnap(s), NEW m \in DOMAIN buffer', NEW n \in DOMAIN buffer', HeldSnap(buffer'[m], s), HeldSnap(buffer'[n], s)
        PROVE  m = n
    <2>1. HeldSnap(buffer[at[m]], s) /\ HeldSnap(buffer[at[n]], s)
      BY <1>1, <1>5, Zenon
    <2>2. at[m] = at[n]
      BY <1>2, <1>5, <2>1, Zenon DEF OneSnap
    <2> QED
      BY <1>1, <2>2, Zenon
  <1>6. OneSnap(s) => OneSnap(s)'
    BY <1>5, Zenon DEF OneSnap
  <1> QED
    BY <1>3, <1>4, <1>6, Zenon DEF Same

(* Which commits touch a stream depends on the commits alone. *)
LEMMA TouchesStay ==
  ASSUME commits' = commits
  PROVE  \A s, j : (Touches(s, j)' <=> Touches(s, j)) /\ Touching(s, j)' = Touching(s, j)
  BY Zenon DEF Touches, Touching, Now

(* A stream whose subscription is left alone is as active as before. *)
LEMMA ActiveNow ==
  ASSUME NEW s, s \in subs' <=> s \in subs, s \in want' <=> s \in want, s \in leaving' <=> s \in leaving
  PROVE  Active(s)' <=> Active(s)
  BY Zenon DEF Active

(* A commit keeps every epoch: it is due only once derived. *)
LEMMA CommitEpoch ==
  ASSUME GateInv, Commit, NEW s \in Stream
  PROVE  Epoch(s)'
  <1>0. BaseInv /\ TypeOK /\ Positions /\ Epoch(s)
    BY Zenon DEF GateInv, BaseInv
  <1>1. UNCHANGED <<serving, pos, want, leaving, down, sourceVars, gateVars, history>>
    BY Zenon DEF Commit
  <1>2. TypeOK'
    BY <1>0, CommitBase, Zenon DEF BaseInv
  <1>3. PICK touched \in SUBSET Stream : commits' = Append(commits, touched)
    BY Zenon DEF Commit
  <1>4. Now \in Nat /\ Now' = Now + 1 /\ \A j \in 1..Now : commits'[j] = commits[j]
    <2>1. commits \in Seq(SUBSET Stream)
      BY <1>0, Zenon DEF TypeOK
    <2> QED
      BY <1>3, <2>1, SMT DEF Now
  <1>5. /\ down' = down /\ pos' = pos /\ serving' = serving /\ buffer' = buffer /\ data' = data /\ cut' = cut
        /\ want' = want /\ leaving' = leaving /\ subs' = subs /\ open' = open /\ fresh' = fresh
    BY <1>1, Zenon DEF sourceVars, gateVars, history
  <1>6. Mine(s) /\ Same(s)
    BY <1>5, BufferSame, ActiveNow, Zenon DEF Mine
  <1>7. pos[s] \in Nat /\ pos[s] <= Now /\ cut \in Nat /\ cut <= Now /\ pos[s] <= pos[s]
    <2>1. pos[s] \in Nat /\ cut \in Nat /\ told \in Nat
      BY <1>0, Types, Zenon
    <2> QED
      BY <1>0, <1>4, <2>1, SMT DEF Positions
  <1>8. \A n : ~New(n)
    BY <1>5, Zenon DEF New
  <1>9. \A j \in Nat : Touches(s, j)' /\ j <= pos[s] => Touches(s, j)
    <2>1. \A j \in Nat : j \in 1..Now' /\ j <= pos[s] => j \in 1..Now
      BY <1>4, <1>7, SMT
    <2> QED
      BY <1>4, <2>1, Zenon DEF Touches
  <1>10. \A j \in Nat : ~(pos[s] < j /\ j <= pos[s])
    BY <1>7, SMT
  <1>11. Grows(down, down')
    BY <1>0, <1>5, SameGrows, Zenon DEF TypeOK
  <1>12. Adds(s)
    BY <1>5, <1>7, <1>8, <1>9, <1>10, <1>11, Zenon DEF Adds
  <1>13. Touching(s, cut)' = Touching(s, cut)
    <2>1. 1..cut \subseteq 1..Now
      BY <1>4, <1>7, SMT
    <2> QED
      BY <1>4, <1>5, <2>1, Zenon DEF Touching
  <1> QED
    BY <1>0, <1>2, <1>5, <1>6, <1>12, <1>13, GrowEpoch, Zenon

(* A daemon step that neither commits nor says hello to s. *)
LEMMA SendEpoch ==
  ASSUME GateInv, BaseInv', NEW s \in Stream, Grows(down, down'),
         UNCHANGED <<commits, sourceVars, gateVars, history>>, Active(s)' <=> Active(s), pos[s] <= pos'[s],
         \A n : New(n) => /\ ~IsHello(down'[n], s) /\ ~IsSnap(down'[n], s)
                          /\ IsBatch(down'[n], s) => pos[s] < down'[n].i
                          /\ IsProgress(down'[n]) /\ s \in serving => down'[n].i <= pos[s],
         \A j \in Nat : Touches(s, j) /\ pos[s] < j /\ j <= pos'[s] => \E n : New(n) /\ IsBatch(down'[n], s) /\ down'[n].i = j,
         Active(s)' /\ s \in serving /\ s \notin serving' => \E n : New(n) /\ IsErr(down'[n], s)
  PROVE  Epoch(s)'
  <1>0. BaseInv /\ TypeOK' /\ Epoch(s)
    BY Zenon DEF GateInv, BaseInv
  <1>1. buffer' = buffer /\ data' = data /\ cut' = cut /\ open' = open /\ fresh' = fresh /\ commits' = commits
    BY Zenon DEF sourceVars, gateVars, history
  <1>2. Mine(s) /\ Same(s)
    BY <1>1, BufferSame, Zenon DEF Mine
  <1>3. Adds(s)
    BY <1>1, TouchesStay, Zenon DEF Adds
  <1>4. Touching(s, cut)' = Touching(s, cut)
    BY <1>1, Zenon DEF Touching
  <1> QED
    BY <1>0, <1>1, <1>2, <1>3, <1>4, GrowEpoch, Zenon

(* Hello and snapshot open an epoch, and leave the others alone. *)
LEMMA ServeEpoch ==
  ASSUME GateInv, NEW t \in Stream, Serve(t), NEW s \in Stream
  PROVE  Epoch(s)'
  <1>0. BaseInv /\ TypeOK /\ Positions /\ Sets /\ Epoch(s)
    BY Zenon DEF GateInv, BaseInv
  <1>1. PICK p \in told..Now :
          /\ p >= pos[t] /\ pos' = [pos EXCEPT ![t] = p]
          /\ down' = down \o <<Message("hello", t, base), Message("snapshot", t, p)>>
    BY Zenon DEF Serve
  <1>2. /\ t \in want /\ want' = want \ {t} /\ leaving' = leaving \ {t} /\ serving' = serving \cup {t}
        /\ UNCHANGED <<commits, bootId, base, told, troubles, sourceVars, gateVars, history>>
    BY Zenon DEF Serve
  <1>3. base \in Nat /\ told \in Nat /\ Now \in Nat /\ p \in Nat /\ base <= p /\ base <= base /\ pos \in [Stream -> Nat]
    BY <1>0, SMT DEF TypeOK, Positions, Now
  <1>4. PICK f, g : f = Message("hello", t, base) /\ g = Message("snapshot", t, p)
    BY Zenon
  <1>5. f \in Frame /\ f.t = "hello" /\ f.s = t
    BY <1>0, <1>3, <1>4, MessageTypes
  <1>6. g \in Frame /\ g.t = "snapshot" /\ g.s = t /\ g.i = p
    BY <1>0, <1>3, <1>4, MessageTypes
  <1>7. /\ Grows(down, down') /\ Len(down') = Len(down) + 2 /\ Len(down) \in Nat
        /\ down'[Len(down) + 1] = f /\ down'[Len(down) + 2] = g
    <2>1. down \in Seq(Frame) /\ down' = down \o <<f, g>>
      BY <1>0, <1>1, <1>4, Zenon DEF TypeOK
    <2>2. PICK e : e = down'
      BY Zenon
    <2>3. /\ Grows(down, e) /\ Len(e) = Len(down) + 2 /\ Len(down) \in Nat
          /\ e[Len(down) + 1] = f /\ e[Len(down) + 2] = g
      BY <1>5, <1>6, <2>1, <2>2, SMTT(30) DEF Grows
    <2> QED
      BY <2>2, <2>3, Zenon
  <1>8. pos'[t] = p /\ \A r \in Stream : r # t => pos'[r] = pos[r] /\ pos[r] \in Nat /\ pos[r] <= pos[r]
    BY <1>1, <1>3, SMT
  <1>9. CASE s # t
    <2>1. \A n : New(n) => down'[n] = f \/ down'[n] = g
      <3>1. \A n : New(n) => n = Len(down) + 1 \/ n = Len(down) + 2
        BY <1>7, SMT DEF Grows, New
      <3> QED
        BY <1>7, <3>1, Zenon
    <2>2. \A n : New(n) => /\ ~IsHello(down'[n], s) /\ ~IsSnap(down'[n], s)
                           /\ ~IsBatch(down'[n], s) /\ ~IsProgress(down'[n])
      BY <1>5, <1>6, <1>9, <2>1, Zenon DEF IsHello, IsSnap, IsBatch, IsProgress
    <2>3. Active(s)' <=> Active(s)
      <3>1. subs' = subs
        BY <1>2, Zenon DEF sourceVars
      <3> QED
        BY <1>2, <1>9, <3>1, ActiveNow, Zenon
    <2>4. \A j \in Nat : ~(pos[s] < j /\ j <= pos'[s])
      <3>1. pos'[s] = pos[s] /\ pos[s] \in Nat
        BY <1>8, <1>9, Zenon
      <3> QED
        BY <3>1, SMT
    <2>5. pos[s] <= pos'[s] /\ ~(s \in serving /\ s \notin serving')
      BY <1>2, <1>8, <1>9, Zenon
    <2>6. UNCHANGED <<commits, sourceVars, gateVars, history>> /\ BaseInv'
      BY <1>0, <1>2, ServeBase, Zenon
    <2> QED
      BY <1>7, <2>2, <2>3, <2>4, <2>5, <2>6, SendEpoch, Zenon
  <1>10. CASE s = t
    <2>1. s \notin fresh'
      BY <1>0, <1>2, <1>10, Zenon DEF Epoch, Opens, Active, history
    <2>2. IsHello(down'[Len(down) + 1], s) /\ IsSnap(down'[Len(down) + 2], s) /\ down'[Len(down) + 2].i = p /\ pos'[s] = p
      BY <1>5, <1>6, <1>7, <1>8, <1>10, Zenon DEF IsHello, IsSnap
    <2>3. ASSUME NEW h \in DOMAIN down' \cup {0}, Opens(s, h)' PROVE h = Len(down) + 1
      <3>1. NoHello(s, h)' /\ (h # 0 => IsHello(down'[h], s))
        BY <2>3, Zenon DEF Opens
      <3>2. ~(h < Len(down) + 1)
        <4>1. Len(down) + 1 \in DOMAIN down'
          BY <1>7, SMT DEF Grows
        <4> QED
          BY <2>2, <3>1, <4>1, Zenon DEF NoHello
      <3>3. h # Len(down) + 2
        <4>1. h = Len(down) + 2 => h # 0
          BY <1>7, SMT
        <4>2. g.t # "hello"
          BY <1>6
        <4> QED
          BY <1>7, <3>1, <4>1, <4>2, Zenon DEF IsHello
      <3> QED
        BY <1>7, <3>2, <3>3, SMT DEF Grows
    <2>4. PICK x : x = Len(down) + 2
      BY <1>7
    <2>5. \A n \in DOMAIN down' : Len(down) + 1 < n => n = x
      BY <1>7, <2>4, SMT DEF Grows
    <2>6. x \in DOMAIN down' /\ Len(down) + 1 < x
      BY <1>7, <2>4, SMT DEF Grows
    <2>7. IsSnap(down'[x], s) /\ ~IsBatch(down'[x], s) /\ ~IsProgress(down'[x]) /\ down'[x].i = p
      BY <2>2, <2>4, Zenon DEF IsSnap, IsBatch, IsProgress
    <2>8. \A j \in Nat : ~Due(s, p, j)'
      <3>1. \A j \in Nat : ~(p < j /\ j <= p)
        BY <1>3, SMT
      <3> QED
        BY <2>2, <3>1, Zenon DEF Due
    <2>9. ASSUME NEW h, h = Len(down) + 1
          PROVE  Alive(s, h)' /\ Paced(s, h)' /\ Coming(s, h)'
      <3>1. \A n \in DOMAIN down' : h < n => n = x
        BY <2>5, <2>9, Zenon
      <3>2. Alive(s, h)'
        BY <1>2, <1>10, Zenon DEF Alive
      <3>3. Paced(s, h)'
        BY <2>7, <3>1, Zenon DEF Paced
      <3>4. \A j \in Nat : (Due(s, down[x].i, j) => OnWire(s, h, j))'
        BY <2>7, <2>8, Zenon DEF Due
      <3>5. h < x
        BY <2>6, <2>9, Zenon
      <3>6. Coming(s, h)'
        BY <2>6, <2>7, <3>1, <3>4, <3>5, Zenon DEF Coming
      <3> QED
        BY <3>2, <3>3, <3>6
    <2>10. Len(down) + 1 # 0
      BY <1>7, SMT
    <2> QED
      BY <2>1, <2>3, <2>9, <2>10, Zenon DEF Epoch
  <1> QED
    BY <1>9, <1>10

(* A stream taken off the daemon was no longer active. *)
LEMMA UnserveEpoch ==
  ASSUME GateInv, NEW t \in Stream, Unserve(t), NEW s \in Stream
  PROVE  Epoch(s)'
  <1>0. BaseInv /\ TypeOK /\ Sets /\ Epoch(s)
    BY Zenon DEF GateInv, BaseInv
  <1>1. /\ t \in leaving /\ leaving' = leaving \ {t} /\ serving' = serving \ {t}
        /\ UNCHANGED <<commits, pos, want, down, sourceVars, gateVars, history>>
    BY Zenon DEF Unserve
  <1>2. BaseInv'
    BY <1>0, UnserveBase, Zenon
  <1>3. subs' = subs /\ pos' = pos /\ down' = down
    BY <1>1, Zenon DEF sourceVars
  <1>4. Active(s)' <=> Active(s)
    BY <1>0, <1>1, <1>3, Zenon DEF Active, Sets
  <1>5. \A n : ~New(n)
    BY <1>3, Zenon DEF New
  <1>6. pos[s] <= pos'[s] /\ \A j \in Nat : ~(pos[s] < j /\ j <= pos'[s])
    <2>1. pos[s] \in Nat
      BY <1>0, Types
    <2> QED
      BY <1>3, <2>1, SMT
  <1>7. Grows(down, down')
    BY <1>0, <1>3, SameGrows, Zenon DEF TypeOK
  <1>8. ~(Active(s)' /\ s \in serving /\ s \notin serving')
    BY <1>0, <1>1, <1>4, Zenon DEF Active
  <1> QED
    BY <1>1, <1>2, <1>4, <1>5, <1>6, <1>7, <1>8, SendEpoch, Zenon

(* One frame sent is the only new one. *)
LEMMA OneNew ==
  ASSUME TypeOK, NEW f \in Frame, down' = Append(down, f)
  PROVE  Grows(down, down') /\ (\A n : New(n) => down'[n] = f) /\ \E n : New(n) /\ down'[n] = f
  <1>1. Grows(down, down') /\ Len(down') = Len(down) + 1 /\ down'[Len(down) + 1] = f
    BY AppendGrows, Zenon DEF TypeOK
  <1>2. \A n : New(n) <=> n = Len(down) + 1
    BY <1>1, SMT DEF Grows, New
  <1> QED
    BY <1>1, <1>2, Zenon

(* A derived batch continues the epoch of its stream. *)
LEMMA DeriveEpoch ==
  ASSUME GateInv, NEW t \in Stream, Derive(t), NEW s \in Stream
  PROVE  Epoch(s)'
  <1>0. BaseInv /\ TypeOK /\ Positions
    BY Zenon DEF GateInv, BaseInv
  <1>1. /\ t \in serving /\ pos[t] < Now /\ pos' = [pos EXCEPT ![t] = @ + 1]
        /\ UNCHANGED <<commits, serving, want, leaving, sourceVars, gateVars, history>>
    BY Zenon DEF Derive
  <1>2. BaseInv'
    BY <1>0, DeriveBase, Zenon
  <1>3. Active(s)' <=> Active(s)
    BY <1>1, ActiveNow, Zenon DEF sourceVars
  <1>4. pos \in [Stream -> Nat] /\ Now \in Nat /\ base \in Nat /\ told \in Nat
    BY <1>0, Types, Zenon DEF TypeOK
  <1>5. pos'[t] = pos[t] + 1 /\ pos[t] \in Nat /\ pos[s] \in Nat /\ (s # t => pos'[s] = pos[s])
    BY <1>1, <1>4
  <1>6. pos[s] <= pos'[s] /\ \A j \in Nat : pos[s] < j /\ j <= pos'[s] => s = t /\ j = pos[t] + 1
    BY <1>5, SMT
  <1>7. UNCHANGED <<commits, sourceVars, gateVars, history>> /\ ~(s \in serving /\ s \notin serving')
    BY <1>1, Zenon
  <1>8. CASE t \in commits[pos[t] + 1]
    <2>1. PICK i, f : i = pos[t] + 1 /\ f = Message("batch", t, i)
      BY Zenon
    <2>2. i \in Nat /\ base <= i /\ pos[t] < i
      BY <1>0, <1>1, <1>4, <1>5, <2>1, SMT DEF Positions
    <2>3. f \in Frame /\ f.t = "batch" /\ f.s = t /\ f.i = i
      BY <1>0, <2>1, <2>2, MessageTypes
    <2>4. down' = Append(down, f)
      BY <1>8, <2>1, Zenon DEF Derive
    <2>5. Grows(down, down') /\ (\A n : New(n) => down'[n] = f) /\ \E n : New(n) /\ down'[n] = f
      BY <1>0, <2>3, <2>4, OneNew, Zenon
    <2>6. ~IsHello(f, s) /\ ~IsSnap(f, s) /\ ~IsProgress(f) /\ (IsBatch(f, s) => pos[s] < f.i) /\ IsBatch(f, t)
      BY <2>2, <2>3, Zenon DEF IsHello, IsSnap, IsProgress, IsBatch
    <2>7. \A n : New(n) => /\ ~IsHello(down'[n], s) /\ ~IsSnap(down'[n], s)
                           /\ IsBatch(down'[n], s) => pos[s] < down'[n].i
                           /\ IsProgress(down'[n]) /\ s \in serving => down'[n].i <= pos[s]
      BY <2>5, <2>6, Zenon
    <2>8. \A j \in Nat : Touches(s, j) /\ pos[s] < j /\ j <= pos'[s] => \E n : New(n) /\ IsBatch(down'[n], s) /\ down'[n].i = j
      BY <1>6, <2>1, <2>3, <2>5, <2>6, Zenon
    <2> QED
      BY <1>2, <1>3, <1>6, <1>7, <2>5, <2>7, <2>8, SendEpoch, Zenon
  <1>9. CASE t \notin commits[pos[t] + 1]
    <2>1. down' = down
      BY <1>9, Zenon DEF Derive
    <2>2. (\A n : ~New(n)) /\ Grows(down, down')
      BY <1>0, <2>1, SameGrows, Zenon DEF New, TypeOK
    <2>3. \A j \in Nat : ~(Touches(s, j) /\ pos[s] < j /\ j <= pos'[s])
      BY <1>6, <1>9, Zenon DEF Touches
    <2> QED
      BY <1>2, <1>3, <1>6, <1>7, <2>2, <2>3, SendEpoch, Zenon
  <1> QED
    BY <1>8, <1>9

(* A progress frame overtakes no served stream. *)
LEMMA ProgressEpoch ==
  ASSUME GateInv, Progress, NEW s \in Stream
  PROVE  Epoch(s)'
  <1>0. BaseInv /\ TypeOK /\ Positions
    BY Zenon DEF GateInv, BaseInv
  <1>1. PICK w \in serving :
          /\ \A r \in serving : pos[w] <= pos[r]
          /\ down' = Append(down, Message("progress", Lmid, pos[w]))
    BY Zenon DEF Progress
  <1>2. UNCHANGED <<commits, serving, pos, want, leaving, sourceVars, gateVars, history>>
    BY Zenon DEF Progress
  <1>3. BaseInv'
    BY <1>0, ProgressBase, Zenon
  <1>4. Active(s)' <=> Active(s)
    BY <1>2, ActiveNow, Zenon DEF sourceVars
  <1>5. pos[w] \in Nat /\ base \in Nat /\ told \in Nat /\ Lmid \in Stream /\ pos[s] \in Nat
    BY <1>0, Types, Zenon DEF Stream
  <1>6. base <= pos[w]
    BY <1>0, <1>5, SMT DEF Positions
  <1>7. PICK f : f = Message("progress", Lmid, pos[w])
    BY Zenon
  <1>8. f \in Frame /\ f.t = "progress" /\ f.i = pos[w]
    BY <1>0, <1>5, <1>6, <1>7, MessageTypes
  <1>9. Grows(down, down') /\ \A n : New(n) => down'[n] = f
    BY <1>0, <1>1, <1>7, <1>8, OneNew, Zenon
  <1>10. \A n : New(n) => /\ ~IsHello(down'[n], s) /\ ~IsSnap(down'[n], s)
                          /\ IsBatch(down'[n], s) => pos[s] < down'[n].i
                          /\ IsProgress(down'[n]) /\ s \in serving => down'[n].i <= pos[s]
    BY <1>1, <1>8, <1>9, Zenon DEF IsHello, IsSnap, IsBatch
  <1>11. pos[s] <= pos'[s] /\ \A j \in Nat : ~(pos[s] < j /\ j <= pos'[s])
    BY <1>2, <1>5, SMT
  <1>12. UNCHANGED <<commits, sourceVars, gateVars, history>> /\ ~(s \in serving /\ s \notin serving')
    BY <1>2, Zenon
  <1> QED
    BY <1>3, <1>4, <1>9, <1>10, <1>11, <1>12, SendEpoch, Zenon

(* An error keeps every epoch: it is the end of its own. *)
LEMMA FaultEpoch ==
  ASSUME GateInv, NEW t \in Stream, Fault(t), NEW s \in Stream
  PROVE  Epoch(s)'
  <1>0. BaseInv /\ TypeOK
    BY Zenon DEF GateInv, BaseInv
  <1>1. PICK k \in {"error", "rejected"} : down' = Append(down, Message(k, t, base))
    BY Zenon DEF Fault
  <1>2. serving' = serving \ {t} /\ UNCHANGED <<commits, pos, want, leaving, sourceVars, gateVars, history>>
    BY Zenon DEF Fault
  <1>3. BaseInv'
    BY <1>0, FaultBase, Zenon
  <1>4. Active(s)' <=> Active(s)
    BY <1>2, ActiveNow, Zenon DEF sourceVars
  <1>5. base \in Nat /\ pos[s] \in Nat
    BY <1>0, Types, Zenon
  <1>6. PICK f : f = Message(k, t, base)
    BY Zenon
  <1>7. f \in Frame /\ f.t = k /\ f.s = t
    <2>1. base <= base
      BY <1>5, SMT
    <2> QED
      BY <1>0, <1>5, <1>6, <2>1, MessageTypes
  <1>8. Grows(down, down') /\ (\A n : New(n) => down'[n] = f) /\ \E n : New(n) /\ down'[n] = f
    BY <1>0, <1>1, <1>6, <1>7, OneNew, Zenon
  <1>9. IsErr(f, t) /\ ~IsHello(f, s) /\ ~IsSnap(f, s) /\ ~IsBatch(f, s) /\ ~IsProgress(f)
    BY <1>7 DEF IsErr, IsHello, IsSnap, IsBatch, IsProgress
  <1>10. \A n : New(n) => /\ ~IsHello(down'[n], s) /\ ~IsSnap(down'[n], s)
                          /\ IsBatch(down'[n], s) => pos[s] < down'[n].i
                          /\ IsProgress(down'[n]) /\ s \in serving => down'[n].i <= pos[s]
    BY <1>8, <1>9, Zenon
  <1>11. pos[s] <= pos'[s] /\ \A j \in Nat : ~(pos[s] < j /\ j <= pos'[s])
    BY <1>2, <1>5, SMT
  <1>12. s \in serving /\ s \notin serving' => \E n : New(n) /\ IsErr(down'[n], s)
    BY <1>2, <1>8, <1>9, Zenon
  <1>13. UNCHANGED <<commits, sourceVars, gateVars, history>>
    BY <1>2, Zenon
  <1> QED
    BY <1>3, <1>4, <1>8, <1>10, <1>11, <1>12, <1>13, SendEpoch, Zenon


-----------------------------------------------------------------------------
(* A frame comes off the wire: place h of the rest was place g.               *)
Takes == Leaves(down, down') /\ UNCHANGED <<commits, serving, pos>>
Behind(g, h) == \A n \in DOMAIN down' : h < n <=> g < n + 1

(* Places of a wire whose first frame is taken. *)
LEMMA TakesPlaces ==
  ASSUME Takes
  PROVE  /\ \A n \in DOMAIN down' : n + 1 \in DOMAIN down /\ down'[n] = down[n + 1] /\ 0 < n /\ 0 < n + 1 /\ 1 < n + 1
         /\ \A m \in DOMAIN down : m = 1 \/ \E n \in DOMAIN down' : m = n + 1
         /\ \A m, n \in DOMAIN down' : (m + 1 < n + 1 <=> m < n) /\ (m + 1 = n + 1 => m = n)
         /\ Behind(0, 0) /\ \A h \in DOMAIN down' : h # 0 /\ Behind(h + 1, h) /\ ~(h + 1 < 1)
  <1>0. Leaves(down, down')
    BY Zenon DEF Takes
  <1>1. \A n \in DOMAIN down' : n + 1 \in DOMAIN down /\ down'[n] = down[n + 1]
    BY <1>0, Zenon DEF Leaves
  <1>2. \A n \in DOMAIN down' : n \in Nat /\ 0 < n /\ 0 < n + 1 /\ 1 < n + 1 /\ n # 0
    BY <1>0, SMT DEF Leaves
  <1>3. \A m \in DOMAIN down : m = 1 \/ \E n \in DOMAIN down' : m = n + 1
    <2>1. ASSUME NEW m \in DOMAIN down, m # 1 PROVE m - 1 \in DOMAIN down' /\ m = (m - 1) + 1
      BY <1>0, <2>1, SMT DEF Leaves
    <2> QED
      BY <2>1, Zenon
  <1>4. \A m, n \in DOMAIN down' : (m + 1 < n + 1 <=> m < n) /\ (m + 1 = n + 1 => m = n)
    BY <1>2, SMT
  <1>5. Behind(0, 0)
    BY <1>2, Zenon DEF Behind
  <1>6. \A h \in DOMAIN down' : Behind(h + 1, h) /\ ~(h + 1 < 1)
    BY <1>2, SMT DEF Behind
  <1> QED
    BY <1>1, <1>2, <1>3, <1>4, <1>5, <1>6, Zenon

(* A stream stays served, or its error coming, when another frame is taken. *)
LEMMA TakeAlive ==
  ASSUME Takes, NEW s, NEW g, NEW h, Behind(g, h), g < 1 => ~IsErr(down[1], s), Alive(s, g), Paced(s, g)
  PROVE  Alive(s, h)' /\ Paced(s, h)'
  <1>0. pos' = pos /\ serving' = serving
    BY Zenon DEF Takes
  <1>1. ASSUME NEW m \in DOMAIN down, g < m, IsErr(down[m], s)
        PROVE  \E k \in DOMAIN down' : m = k + 1 /\ h < k /\ IsErr(down'[k], s)
    <2>1. PICK k \in DOMAIN down' : m = k + 1
      BY <1>1, TakesPlaces, Zenon
    <2>2. down'[k] = down[m] /\ h < k
      BY <1>1, <2>1, TakesPlaces, Zenon DEF Behind
    <2> QED
      BY <1>1, <2>1, <2>2, Zenon
  <1>2. Alive(s, h)'
    BY <1>0, <1>1, Zenon DEF Alive
  <1>3. ASSUME NEW n \in DOMAIN down', h < n, IsProgress(down'[n])
        PROVE  down'[n].i <= pos'[s] \/ \E m \in DOMAIN down' : h < m /\ m < n /\ IsErr(down'[m], s)
    <2>1. n + 1 \in DOMAIN down /\ down'[n] = down[n + 1] /\ g < n + 1
      BY <1>3, TakesPlaces, Zenon DEF Behind
    <2>2. down[n + 1].i <= pos[s] \/ \E m \in DOMAIN down : g < m /\ m < n + 1 /\ IsErr(down[m], s)
      BY <1>3, <2>1, Zenon DEF Paced
    <2>3. ASSUME NEW m \in DOMAIN down, g < m, m < n + 1, IsErr(down[m], s)
          PROVE  \E k \in DOMAIN down' : h < k /\ k < n /\ IsErr(down'[k], s)
      <3>1. PICK k \in DOMAIN down' : m = k + 1 /\ h < k /\ IsErr(down'[k], s)
        BY <1>1, <2>3, Zenon
      <3>2. k < n
        BY <2>3, <3>1, TakesPlaces, Zenon
      <3> QED
        BY <3>1, <3>2, Zenon
    <2> QED
      BY <1>0, <2>1, <2>2, <2>3, Zenon
  <1> QED
    BY <1>2, <1>3, Zenon DEF Paced

(* A batch stays on the wire unless it is the one taken. *)
LEMMA TakeWires ==
  ASSUME Takes, NEW s, NEW g, NEW h, Behind(g, h), g < 1 => ~IsBatch(down[1], s)
  PROVE  /\ \A p, j : Due(s, p, j)' <=> Due(s, p, j)
         /\ \A j : OnWire(s, g, j) => OnWire(s, h, j)'
  <1>1. \A p, j : Due(s, p, j)' <=> Due(s, p, j)
    <2>1. pos' = pos /\ commits' = commits
      BY Zenon DEF Takes
    <2> QED
      BY <2>1, TouchesStay, Zenon DEF Due
  <1>2. ASSUME NEW j, OnWire(s, g, j) PROVE OnWire(s, h, j)'
    <2>1. PICK m \in DOMAIN down : g < m /\ IsBatch(down[m], s) /\ down[m].i = j
      BY <1>2, Zenon DEF OnWire
    <2>2. PICK k \in DOMAIN down' : m = k + 1
      BY <2>1, TakesPlaces, Zenon
    <2>3. down'[k] = down[m] /\ h < k
      BY <2>1, <2>2, TakesPlaces, Zenon DEF Behind
    <2> QED
      BY <2>1, <2>3, Zenon DEF OnWire
  <1> QED
    BY <1>1, <1>2, Zenon

(* A snapshot stays on its way unless it is the one taken. *)
LEMMA TakeComing ==
  ASSUME Takes, NEW s, NEW g, NEW h, Behind(g, h), g < 1 => ~IsSnap(down[1], s) /\ ~IsBatch(down[1], s), Coming(s, g)
  PROVE  Coming(s, h)'
  <1>1. PICK x \in DOMAIN down :
          /\ g < x /\ IsSnap(down[x], s)
          /\ \A n \in DOMAIN down : g < n /\ IsSnap(down[n], s) => n = x
          /\ \A n \in DOMAIN down : g < n /\ IsBatch(down[n], s) => x < n /\ down[x].i < down[n].i
          /\ \A j \in Nat : Due(s, down[x].i, j) => OnWire(s, g, j)
    BY Zenon DEF Coming
  <1>2. PICK y \in DOMAIN down' : x = y + 1
    BY <1>1, TakesPlaces, Zenon
  <1>3. down'[y] = down[x] /\ h < y
    BY <1>1, <1>2, TakesPlaces, Zenon DEF Behind
  <1>4. PICK p : p = down[x].i /\ p = down'[y].i
    BY <1>3, Zenon
  <1>5. ASSUME NEW n \in DOMAIN down', h < n, IsSnap(down'[n], s) PROVE n = y
    <2>1. n + 1 \in DOMAIN down /\ down'[n] = down[n + 1] /\ g < n + 1
      BY <1>5, TakesPlaces, Zenon DEF Behind
    <2>2. n + 1 = y + 1
      BY <1>1, <1>2, <1>5, <2>1, Zenon
    <2> QED
      BY <2>2, TakesPlaces, Zenon
  <1>6. ASSUME NEW n \in DOMAIN down', h < n, IsBatch(down'[n], s) PROVE y < n /\ p < down'[n].i
    <2>1. n + 1 \in DOMAIN down /\ down'[n] = down[n + 1] /\ g < n + 1
      BY <1>6, TakesPlaces, Zenon DEF Behind
    <2>2. y + 1 < n + 1 /\ down[x].i < down[n + 1].i
      BY <1>1, <1>2, <1>6, <2>1, Zenon
    <2> QED
      BY <1>4, <2>1, <2>2, TakesPlaces, Zenon
  <1>7. ASSUME NEW j \in Nat, Due(s, p, j)' PROVE OnWire(s, h, j)'
    <2>1. Due(s, p, j) /\ (OnWire(s, g, j) => OnWire(s, h, j)')
      BY <1>7, TakeWires, Zenon
    <2> QED
      BY <1>1, <1>4, <2>1, Zenon
  <1>8. \A j \in Nat : (Due(s, down[y].i, j) => OnWire(s, h, j))'
    BY <1>4, <1>7, Zenon DEF Due
  <1>9. IsSnap(down'[y], s)
    BY <1>1, <1>3, Zenon
  <1> QED
    BY <1>3, <1>4, <1>5, <1>6, <1>8, <1>9, Zenon DEF Coming

(* An epoch whose hello is still coming is not disturbed by the frame taken. *)
LEMMA Beyond ==
  ASSUME Takes, NEW s, Epoch(s), Active(s)' => Active(s), NEW h \in DOMAIN down', Opens(s, h)'
  PROVE  Alive(s, h)' /\ Paced(s, h)' /\ Coming(s, h)'
  <1>1. /\ h + 1 \in DOMAIN down /\ down'[h] = down[h + 1] /\ h # 0 /\ Behind(h + 1, h) /\ ~(h + 1 < 1)
    BY TakesPlaces, Zenon
  <1>2. h + 1 # 0
    BY SMT DEF Takes, Leaves
  <1>3. ASSUME NEW m \in DOMAIN down, h + 1 < m PROVE ~IsHello(down[m], s)
    <2>1. PICK k \in DOMAIN down' : m = k + 1
      BY <1>1, <1>3, TakesPlaces, Zenon
    <2>2. down'[k] = down[m] /\ h < k
      BY <1>1, <1>3, <2>1, TakesPlaces, Zenon DEF Behind
    <2> QED
      BY <2>2, Zenon DEF Opens, NoHello
  <1>4. IsHello(down[h + 1], s)
    BY <1>1, Zenon DEF Opens
  <1>5. Opens(s, h + 1)
    BY <1>2, <1>3, <1>4, Zenon DEF Opens, NoHello
  <1>6. Alive(s, h + 1) /\ Paced(s, h + 1) /\ Coming(s, h + 1)
    BY <1>1, <1>2, <1>5, Zenon DEF Epoch
  <1>7. Alive(s, h)' /\ Paced(s, h)'
    BY <1>1, <1>6, TakeAlive, Zenon
  <1>8. Coming(s, h)'
    BY <1>1, <1>6, TakeComing, Zenon
  <1> QED
    BY <1>7, <1>8

(* Only the epoch whose hello has been taken can change. *)
LEMMA TailEpoch ==
  ASSUME Takes, NEW s, Epoch(s), Active(s)' => Active(s), s \in fresh' => Opens(s, 0)' /\ Current(s)',
         Opens(s, 0)' => /\ Alive(s, 0)' /\ Paced(s, 0)'
                         /\ (Coming(s, 0)' /\ NotHeld(s)') \/ Waiting(s)' \/ s \in fresh'
  PROVE  Epoch(s)'
  <1>1. ASSUME NEW h \in DOMAIN down' \cup {0}, Opens(s, h)'
        PROVE  /\ Alive(s, h)' /\ Paced(s, h)'
               /\ \/ Coming(s, h)' /\ (h = 0 => NotHeld(s)')
                  \/ h = 0 /\ (Waiting(s)' \/ s \in fresh')
    <2>1. CASE h = 0
      BY <1>1, <2>1, Zenon
    <2>2. CASE h # 0
      BY <1>1, <2>2, Beyond, Zenon
    <2> QED
      BY <2>1, <2>2
  <1> QED
    BY <1>1, Zenon DEF Epoch

(* An epoch already open is open still, unless its hello is taken. *)
LEMMA FrontOpens ==
  ASSUME Takes, NEW s, Active(s)' <=> Active(s), s \in open' <=> s \in open, ~IsHello(down[1], s)
  PROVE  Opens(s, 0)' <=> Opens(s, 0)
  <1>1. ASSUME NoHello(s, 0)' PROVE NoHello(s, 0)
    <2>1. ASSUME NEW m \in DOMAIN down PROVE ~IsHello(down[m], s)
      <3>1. CASE m = 1
        BY <3>1, Zenon
      <3>2. CASE m # 1
        <4>1. PICK k \in DOMAIN down' : m = k + 1
          BY <3>2, TakesPlaces, Zenon
        <4>2. down'[k] = down[m] /\ 0 < k
          BY <4>1, TakesPlaces, Zenon
        <4> QED
          BY <1>1, <4>2, Zenon DEF NoHello
      <3> QED
        BY <3>1, <3>2
    <2> QED
      BY <2>1, Zenon DEF NoHello
  <1>2. ASSUME NoHello(s, 0) PROVE NoHello(s, 0)'
    <2>1. ASSUME NEW n \in DOMAIN down' PROVE ~IsHello(down'[n], s)
      BY <1>2, TakesPlaces, Zenon DEF NoHello
    <2> QED
      BY <2>1, Zenon DEF NoHello
  <1> QED
    BY <1>1, <1>2, Zenon DEF Opens

(* The frame is none of s. *)
LEMMA FrontEpoch ==
  ASSUME Takes, NEW s, Epoch(s), Mine(s), Same(s), data'[s] = data[s], cut' = cut,
         ~IsHello(down[1], s), ~IsErr(down[1], s), ~IsSnap(down[1], s), ~IsBatch(down[1], s)
  PROVE  Epoch(s)'
  <1>1. Opens(s, 0)' <=> Opens(s, 0)
    BY FrontOpens, Zenon DEF Mine
  <1>2. Behind(0, 0)
    BY TakesPlaces, Zenon
  <1>3. Follows(s)
    BY <1>2, TakeWires, Zenon DEF Follows
  <1>4. \A n \in DOMAIN down' : \E m \in DOMAIN down : down[m] = down'[n]
    BY TakesPlaces, Zenon
  <1>5. Touching(s, cut)' = Touching(s, cut)
    BY Zenon DEF Touching, Takes
  <1>6. Current(s) => Current(s)'
    BY <1>3, <1>4, <1>5, CurrentStays, Zenon
  <1>7. Waiting(s) => Waiting(s)'
    BY <1>3, <1>4, WaitingStays, Zenon
  <1>8. Coming(s, 0) => Coming(s, 0)'
    BY <1>2, TakeComing, Zenon
  <1>9. NotHeld(s) => NotHeld(s)'
    BY SameHeld, Zenon
  <1>10. Alive(s, 0) /\ Paced(s, 0) => Alive(s, 0)' /\ Paced(s, 0)'
    BY <1>2, TakeAlive, Zenon
  <1>11. s \in fresh' => Opens(s, 0)' /\ Current(s)'
    BY <1>1, <1>6, Zenon DEF Epoch, Mine
  <1>12. Opens(s, 0)' => /\ Alive(s, 0)' /\ Paced(s, 0)'
                         /\ (Coming(s, 0)' /\ NotHeld(s)') \/ Waiting(s)' \/ s \in fresh'
    <2>1. ASSUME Opens(s, 0)
          PROVE  Alive(s, 0) /\ Paced(s, 0) /\ ((Coming(s, 0) /\ NotHeld(s)) \/ Waiting(s) \/ s \in fresh)
      BY <2>1, Zenon DEF Epoch
    <2> QED
      BY <1>1, <1>7, <1>8, <1>9, <1>10, <2>1, Zenon DEF Mine
  <1> QED
    BY <1>11, <1>12, TailEpoch, Zenon DEF Mine

(* A frame handler takes the first frame. *)
LEMMA ReceiveTakes ==
  ASSUME BaseInv, NEW kinds, Receive(kinds), UNCHANGED daemonVars
  PROVE  Takes /\ down # <<>> /\ First = down[1] /\ First.t \in kinds /\ 1 \in DOMAIN down /\ First.s \in Stream
  <1>1. down # <<>> /\ First.t \in kinds /\ down' = Tail(down)
    BY Zenon DEF Receive
  <1>2. down \in Seq(Frame)
    BY Zenon DEF BaseInv, TypeOK
  <1>3. Leaves(down, down')
    BY <1>1, <1>2, TailLeaves, Zenon
  <1>4. First = down[1] /\ 1 \in DOMAIN down /\ First.s \in Stream
    BY <1>1, HeadFrame, Zenon
  <1> QED
    BY <1>1, <1>3, <1>4, Zenon DEF Takes, daemonVars

(* A frame of one kind is no other. *)
LEMMA Kinds ==
  ASSUME NEW f, NEW s
  PROVE  /\ f.t = "hello" => ~IsErr(f, s) /\ ~IsSnap(f, s) /\ ~IsBatch(f, s)
         /\ f.t \in {"error", "rejected"} => ~IsHello(f, s) /\ ~IsSnap(f, s) /\ ~IsBatch(f, s)
         /\ f.t = "progress" => ~IsHello(f, s) /\ ~IsErr(f, s) /\ ~IsSnap(f, s) /\ ~IsBatch(f, s)
         /\ f.t \in {"snapshot", "batch"} => ~IsHello(f, s) /\ ~IsErr(f, s)
         /\ f.s # s => ~IsHello(f, s) /\ ~IsErr(f, s) /\ ~IsSnap(f, s) /\ ~IsBatch(f, s)
  BY DEF IsHello, IsErr, IsSnap, IsBatch

(* A query error ends the epoch of its stream and no other. *)
LEMMA OnQueryErrorEpoch ==
  ASSUME GateInv, OnQueryError, NEW s \in Stream
  PROVE  Epoch(s)'
  <1>0. BaseInv /\ Sets /\ Epoch(s)
    BY Zenon DEF GateInv, BaseInv
  <1>1. /\ Receive({"error", "rejected"})
        /\ UNCHANGED <<daemonVars, leaving, gateVars, cut>>
        /\ \/ First.s \notin subs /\ UNCHANGED <<subs, open, want, fresh>>
           \/ /\ open' = open \ {First.s} /\ want' = want \cup {First.s} /\ fresh' = fresh \ {First.s} /\ subs' = subs
           \/ /\ open' = open \ {First.s} /\ want' = want \ {First.s} /\ fresh' = fresh \ {First.s}
              /\ subs' = subs \ {First.s}
    BY Zenon DEF OnQueryError
  <1>2. Takes /\ First = down[1] /\ First.t \in {"error", "rejected"}
    BY <1>0, <1>1, ReceiveTakes, Zenon
  <1>3. CASE s = First.s
    <2>1. ~Active(s)' /\ s \notin fresh'
      BY <1>0, <1>1, <1>3, Zenon DEF Active, Sets
    <2> QED
      BY <2>1, QuietEpoch, Zenon
  <1>4. CASE s # First.s
    <2>1. Mine(s)
      BY <1>1, <1>4, Zenon DEF Mine, Active
    <2>2. buffer' = buffer /\ data' = data /\ cut' = cut
      BY <1>1, Zenon DEF gateVars
    <2>3. Same(s)
      BY <2>2, BufferSame, Zenon
    <2>4. ~IsHello(down[1], s) /\ ~IsErr(down[1], s) /\ ~IsSnap(down[1], s) /\ ~IsBatch(down[1], s)
      BY <1>2, <1>4, Kinds, Zenon
    <2> QED
      BY <1>0, <1>2, <2>1, <2>2, <2>3, <2>4, FrontEpoch, Zenon
  <1> QED
    BY <1>3, <1>4

(* A dropped socket ends every epoch. *)
LEMMA ReconnectEpoch ==
  ASSUME Reconnect, NEW s
  PROVE  Epoch(s)'
  <1>1. ~Active(s)' /\ s \notin fresh'
    BY Zenon DEF Reconnect, Active
  <1> QED
    BY <1>1, QuietEpoch, Zenon

(* A step of the application for another query than s. *)
LEMMA StillEpoch ==
  ASSUME GateInv, BaseInv', UNCHANGED <<daemonVars, down, cut>>, NEW s \in Stream, Mine(s), Same(s), data'[s] = data[s]
  PROVE  Epoch(s)'
  <1>0. BaseInv /\ TypeOK /\ TypeOK' /\ Epoch(s)
    BY Zenon DEF GateInv, BaseInv
  <1>1. commits' = commits /\ serving' = serving /\ pos' = pos /\ down' = down /\ cut' = cut
    BY Zenon DEF daemonVars
  <1>2. pos[s] <= pos'[s] /\ \A j \in Nat : ~(pos[s] < j /\ j <= pos'[s])
    <2>1. pos[s] \in Nat
      BY <1>0, Types
    <2> QED
      BY <1>1, <2>1, SMT
  <1>3. (\A n : ~New(n)) /\ Grows(down, down')
    BY <1>0, <1>1, SameGrows, Zenon DEF New, TypeOK
  <1>4. Adds(s)
    BY <1>1, <1>2, <1>3, TouchesStay, Zenon DEF Adds
  <1>5. Touching(s, cut)' = Touching(s, cut)
    BY <1>1, Zenon DEF Touching
  <1> QED
    BY <1>0, <1>1, <1>4, <1>5, GrowEpoch, Zenon

(* A retained query has no epoch before its hello. *)
LEMMA RetainQueryEpoch ==
  ASSUME GateInv, NEW q \in Query, RetainQuery(q), NEW s \in Stream
  PROVE  Epoch(s)'
  <1>0. BaseInv /\ Sets
    BY Zenon DEF GateInv, BaseInv
  <1>1. /\ q \notin retained /\ subs' = subs \cup {q} /\ open' = open \ {q} /\ want' = want \cup {q}
        /\ UNCHANGED <<daemonVars, leaving, down, gateVars, history>>
    BY Zenon DEF RetainQuery
  <1>2. buffer' = buffer /\ data' = data /\ fresh' = fresh /\ cut' = cut /\ leaving' = leaving
    BY <1>1, Zenon DEF gateVars, history
  <1>3. CASE s = q
    <2>1. ~Active(s)' /\ s \notin fresh'
      BY <1>0, <1>1, <1>2, <1>3, Zenon DEF Active, Sets
    <2> QED
      BY <2>1, QuietEpoch, Zenon
  <1>4. CASE s # q
    <2>1. Mine(s)
      BY <1>1, <1>2, <1>4, Zenon DEF Mine, Active
    <2>2. Same(s)
      BY <1>2, BufferSame, Zenon
    <2>3. BaseInv'
      BY <1>0, RetainQueryBase, Zenon
    <2>4. UNCHANGED <<daemonVars, down, cut>>
      BY <1>1, <1>2, Zenon
    <2> QED
      BY <1>2, <2>1, <2>2, <2>3, <2>4, StillEpoch, Zenon
  <1> QED
    BY <1>3, <1>4

(* A released query is not active; its frames leave the buffer. *)
LEMMA ReleaseQueryEpoch ==
  ASSUME GateInv, NEW q \in Query, ReleaseQuery(q), NEW s \in Stream
  PROVE  Epoch(s)'
  <1>0. BaseInv /\ TypeOK
    BY Zenon DEF GateInv, BaseInv
  <1>1. /\ subs' = subs \ {q} /\ open' = open \ {q} /\ want' = want \ {q} /\ leaving' = leaving \cup {q}
        /\ Keep(Without(q)) /\ data' = [data EXCEPT ![q] = {}] /\ fresh' = fresh \ {q}
        /\ UNCHANGED <<daemonVars, down, cut>>
    BY Zenon DEF ReleaseQuery
  <1>2. CASE s = q
    <2>1. ~Active(s)' /\ s \notin fresh'
      BY <1>1, <1>2, Zenon DEF Active
    <2> QED
      BY <2>1, QuietEpoch, Zenon
  <1>3. CASE s # q
    <2>1. Mine(s)
      BY <1>1, <1>3, Zenon DEF Mine, Active
    <2>2. Without(q) \in SUBSET DOMAIN buffer /\ \A m \in DOMAIN buffer : buffer[m].s = s => m \in Without(q)
      BY <1>3, Zenon DEF Without
    <2>3. Same(s)
      BY <1>0, <1>1, <2>2, KeepKeeps, KeptSame, Zenon
    <2>4. BaseInv'
      BY <1>0, ReleaseQueryBase, Zenon
    <2>5. data'[s] = data[s]
      BY <1>0, <1>1, <1>3, Zenon DEF TypeOK
    <2> QED
      BY <1>1, <2>1, <2>3, <2>4, <2>5, StillEpoch, Zenon
  <1> QED
    BY <1>2, <1>3

(* A hello moves the start of its epoch to the front of the wire. *)
LEMMA OnHelloEpoch ==
  ASSUME GateInv, OnHello, NEW s \in Stream
  PROVE  Epoch(s)'
  <1>0. BaseInv /\ TypeOK /\ Boots /\ Sets /\ Epoch(s)
    BY Zenon DEF GateInv, BaseInv
  <1>1. /\ Receive({"hello"}) /\ open' = open \cup ({First.s} \cap subs) /\ fresh' = fresh \ {First.s}
        /\ UNCHANGED <<daemonVars, want, leaving, subs, data, cut>>
    BY Zenon DEF OnHello
  <1>2. Takes /\ First = down[1] /\ First.t = "hello" /\ 1 \in DOMAIN down /\ down # <<>>
    <2>1. UNCHANGED daemonVars
      BY <1>1, Zenon
    <2>2. Takes /\ First = down[1] /\ First.t \in {"hello"} /\ 1 \in DOMAIN down /\ down # <<>>
      BY <1>0, <1>1, <2>1, ReceiveTakes, Zenon
    <2> QED
      BY <2>2, Zenon
  <1>3. Active(s)' <=> Active(s)
    BY <1>1, ActiveNow, Zenon
  <1>4. \/ lastBootId # 0 /\ bootId # lastBootId /\ ResetGate
        \/ IF First.s \in subs THEN Keep(Without(First.s)) ELSE buffer' = buffer
    BY <1>0, <1>2, HeadFrame, Zenon DEF OnHello
  <1>5. CASE s # First.s /\ lastBootId # bootId
    <2>1. s \notin open' /\ s \notin fresh'
      BY <1>0, <1>1, <1>5, Zenon DEF Boots, Sets
    <2>2. ~Opens(s, 0)'
      BY <2>1, Zenon DEF Opens
    <2> QED
      BY <1>0, <1>2, <1>3, <2>1, <2>2, TailEpoch, Zenon
  <1>6. CASE s # First.s /\ lastBootId = bootId
    <2>1. Mine(s)
      BY <1>1, <1>3, <1>6, Zenon DEF Mine
    <2>2. Without(First.s) \in SUBSET DOMAIN buffer /\ \A m \in DOMAIN buffer : buffer[m].s = s => m \in Without(First.s)
      BY <1>6, Zenon DEF Without
    <2>3. Keep(Without(First.s)) \/ buffer' = buffer
      BY <1>4, <1>6, Zenon
    <2>4. Same(s)
      BY <1>0, <2>2, <2>3, KeepKeeps, KeptSame, BufferSame, Zenon
    <2>5. ~IsHello(down[1], s) /\ ~IsErr(down[1], s) /\ ~IsSnap(down[1], s) /\ ~IsBatch(down[1], s)
      BY <1>2, <1>6, Kinds, Zenon
    <2> QED
      BY <1>0, <1>1, <1>2, <2>1, <2>4, <2>5, FrontEpoch, Zenon
  <1>7. CASE s = First.s
    <2>1. s \notin fresh'
      BY <1>1, <1>7, Zenon
    <2>2. ASSUME Opens(s, 0)'
          PROVE  Alive(s, 0)' /\ Paced(s, 0)' /\ Coming(s, 0)' /\ NotHeld(s)'
      <3>1. IsHello(down[1], s)
        BY <1>2, <1>7, Zenon DEF IsHello
      <3>2. ASSUME NEW m \in DOMAIN down, 1 < m PROVE ~IsHello(down[m], s)
        <4>1. m # 1
          BY <3>2, SMT
        <4>2. PICK k \in DOMAIN down' : m = k + 1
          BY <1>2, <4>1, TakesPlaces, Zenon
        <4>3. down'[k] = down[m] /\ 0 < k
          BY <1>2, <4>2, TakesPlaces, Zenon
        <4> QED
          BY <2>2, <4>3, Zenon DEF Opens, NoHello
      <3>3. ~(1 < 1) /\ 1 # 0
        BY SMT
      <3>4. Opens(s, 1)
        BY <1>3, <2>2, <3>1, <3>2, <3>3, Zenon DEF Opens, NoHello
      <3>5. Alive(s, 1) /\ Paced(s, 1) /\ Coming(s, 1)
        BY <1>0, <1>2, <3>3, <3>4, Zenon DEF Epoch
      <3>6. Behind(1, 0)
        BY <1>2, TakesPlaces, Zenon DEF Behind
      <3>7. Alive(s, 0)' /\ Paced(s, 0)'
        BY <1>2, <3>3, <3>5, <3>6, TakeAlive, Zenon
      <3>8. Coming(s, 0)'
        BY <1>2, <3>3, <3>5, <3>6, TakeComing, Zenon
      <3>9. NotHeld(s)'
        <4>1. CASE ResetGate
          <5>1. DOMAIN buffer' = {}
            BY <4>1, SMT DEF ResetGate
          <5> QED
            BY <5>1, Zenon DEF NotHeld
        <4>2. CASE Keep(Without(s))
          <5>1. Without(s) \in SUBSET DOMAIN buffer
            BY Zenon DEF Without
          <5>2. Kept(Without(s))
            BY <1>0, <4>2, <5>1, KeepKeeps, Zenon
          <5> QED
            BY <5>2, Zenon DEF Kept, Without, NotHeld
        <4>3. s \in subs
          BY <1>3, <2>2, Zenon DEF Opens, Active
        <4> QED
          BY <1>4, <1>7, <4>1, <4>2, <4>3, Zenon
      <3> QED
        BY <3>7, <3>8, <3>9
    <2> QED
      BY <1>0, <1>2, <1>3, <2>1, <2>2, TailEpoch, Zenon
  <1> QED
    BY <1>5, <1>6, <1>7

(* A frame joins the buffer. *)
LEMMA OneHeld ==
  ASSUME TypeOK, NEW f \in Buffered, buffer' = Append(buffer, f)
  PROVE  /\ \A n \in DOMAIN buffer : n \in DOMAIN buffer' /\ buffer'[n] = buffer[n]
         /\ \E y \in DOMAIN buffer' : /\ buffer'[y] = f
                                      /\ \A n \in DOMAIN buffer' : n = y \/ (n \in DOMAIN buffer /\ buffer'[n] = buffer[n])
  <1>1. /\ Grows(buffer, buffer') /\ Len(buffer') = Len(buffer) + 1 /\ buffer'[Len(buffer) + 1] = f
    BY AppendGrows, Zenon DEF TypeOK
  <1>2. /\ \A n \in DOMAIN buffer : n \in DOMAIN buffer' /\ buffer'[n] = buffer[n]
        /\ Len(buffer) + 1 \in DOMAIN buffer'
        /\ \A n \in DOMAIN buffer' : n = Len(buffer) + 1 \/ n \in DOMAIN buffer
    BY <1>1, SMT DEF Grows
  <1> QED
    BY <1>1, <1>2, Zenon

(* Buffering a frame of another stream leaves this one alone. *)
LEMMA AppendSame ==
  ASSUME TypeOK, NEW f \in Buffered, buffer' = Append(buffer, f), NEW s, f.s # s
  PROVE  Same(s)
  <1>1. \A n \in DOMAIN buffer : n \in DOMAIN buffer' /\ buffer'[n] = buffer[n]
    BY OneHeld, Zenon
  <1>2. PICK y \in DOMAIN buffer' : /\ buffer'[y] = f
                                    /\ \A n \in DOMAIN buffer' : n = y \/ (n \in DOMAIN buffer /\ buffer'[n] = buffer[n])
    BY OneHeld, Zenon
  <1>3. \A n \in DOMAIN buffer' : buffer'[n].s = s => n \in DOMAIN buffer /\ buffer'[n] = buffer[n]
    BY <1>2, Zenon
  <1>4. OneSnap(s) => OneSnap(s)'
    BY <1>3, Zenon DEF OneSnap, HeldSnap
  <1> QED
    BY <1>1, <1>3, <1>4, Zenon DEF Same

(* A batch of s goes from the wire to the buffer. *)
LEMMA BatchMoves ==
  ASSUME Takes, TypeOK, NEW f \in Buffered, buffer' = Append(buffer, f), NEW s,
         f.s = s, f.kind = "batch", f.i = down[1].i, NEW j, OnWire(s, 0, j) \/ InBuffer(s, j)
  PROVE  OnWire(s, 0, j)' \/ InBuffer(s, j)'
  <1>1. CASE InBuffer(s, j)
    <2>1. PICK n \in DOMAIN buffer : HeldBatch(buffer[n], s) /\ buffer[n].i = j
      BY <1>1, Zenon DEF InBuffer
    <2>2. n \in DOMAIN buffer' /\ buffer'[n] = buffer[n]
      BY OneHeld, Zenon
    <2> QED
      BY <2>1, <2>2, Zenon DEF InBuffer
  <1>2. CASE OnWire(s, 0, j)
    <2>1. PICK m \in DOMAIN down : 0 < m /\ IsBatch(down[m], s) /\ down[m].i = j
      BY <1>2, Zenon DEF OnWire
    <2>2. CASE m = 1
      <3>1. PICK y \in DOMAIN buffer' : buffer'[y] = f
        BY OneHeld, Zenon
      <3>2. HeldBatch(buffer'[y], s) /\ buffer'[y].i = j
        BY <2>1, <2>2, <3>1, Zenon DEF HeldBatch
      <3> QED
        BY <3>2, Zenon DEF InBuffer
    <2>3. CASE m # 1
      <3>1. PICK k \in DOMAIN down' : m = k + 1
        BY <2>3, TakesPlaces, Zenon
      <3>2. down'[k] = down[m] /\ 0 < k
        BY <3>1, TakesPlaces, Zenon
      <3> QED
        BY <2>1, <3>2, Zenon DEF OnWire
    <2> QED
      BY <2>2, <2>3
  <1> QED
    BY <1>1, <1>2

(* A snapshot taken off the wire waits in the buffer. *)
LEMMA BufferComing ==
  ASSUME Takes, TypeOK, NEW f \in Buffered, buffer' = Append(buffer, f), NEW s,
         f.s = s, f.kind = "snapshot", f.i = down[1].i, IsSnap(down[1], s), 1 \in DOMAIN down, Coming(s, 0), NotHeld(s)
  PROVE  Waiting(s)'
  <1>1. PICK x \in DOMAIN down :
          /\ 0 < x /\ IsSnap(down[x], s)
          /\ \A n \in DOMAIN down : 0 < n /\ IsSnap(down[n], s) => n = x
          /\ \A n \in DOMAIN down : 0 < n /\ IsBatch(down[n], s) => x < n /\ down[x].i < down[n].i
          /\ \A j \in Nat : Due(s, down[x].i, j) => OnWire(s, 0, j)
    BY Zenon DEF Coming
  <1>2. x = 1
    <2>1. 0 < 1
      BY SMT
    <2> QED
      BY <1>1, <2>1, Zenon
  <1>3. PICK y \in DOMAIN buffer' : /\ buffer'[y] = f
                                    /\ \A n \in DOMAIN buffer' : n = y \/ (n \in DOMAIN buffer /\ buffer'[n] = buffer[n])
    BY OneHeld, Zenon
  <1>4. HeldSnap(buffer'[y], s)
    BY <1>3, Zenon DEF HeldSnap
  <1>5. \A n \in DOMAIN buffer' : n = y \/ buffer'[n].s # s
    BY <1>3, Zenon DEF NotHeld
  <1>6. \A n \in DOMAIN buffer' : HeldSnap(buffer'[n], s) => n = y
    BY <1>5, Zenon DEF HeldSnap
  <1>7. \A n \in DOMAIN buffer' : ~HeldBatch(buffer'[n], s)
    BY <1>3, <1>5 DEF HeldBatch
  <1>8. PICK p : p = buffer'[y].i /\ p = down[x].i
    BY <1>2, <1>3, Zenon
  <1>9. ASSUME NEW n \in DOMAIN down'
        PROVE  ~IsSnap(down'[n], s) /\ (IsBatch(down'[n], s) => p < down'[n].i)
    <2>1. n + 1 \in DOMAIN down /\ down'[n] = down[n + 1] /\ 0 < n + 1 /\ 1 < n + 1
      BY TakesPlaces, Zenon
    <2>2. n + 1 # 1
      BY <2>1, SMT DEF Takes, Leaves
    <2> QED
      BY <1>1, <1>2, <1>8, <2>1, <2>2, Zenon
  <1>10. ASSUME NEW j \in Nat, Due(s, p, j)' PROVE OnWire(s, 0, j)'
    <2>1. Behind(0, 0) /\ ~IsBatch(down[1], s)
      BY TakesPlaces DEF IsBatch, IsSnap
    <2>2. Due(s, p, j) /\ (OnWire(s, 0, j) => OnWire(s, 0, j)')
      BY <1>10, <2>1, TakeWires, Zenon
    <2> QED
      BY <1>1, <1>8, <2>2, Zenon
  <1>11. \A j \in Nat : (Due(s, buffer[y].i, j) => OnWire(s, 0, j) \/ InBuffer(s, j))'
    BY <1>8, <1>10, Zenon DEF Due
  <1> QED
    BY <1>4, <1>6, <1>7, <1>8, <1>9, <1>11, Zenon DEF Waiting

(* A batch behind a waiting snapshot joins it in the buffer. *)
LEMMA BufferWaiting ==
  ASSUME Takes, TypeOK, NEW f \in Buffered, buffer' = Append(buffer, f), NEW s,
         f.s = s, f.kind = "batch", f.i = down[1].i, IsBatch(down[1], s), 1 \in DOMAIN down, Waiting(s)
  PROVE  Waiting(s)'
  <1>1. PICK x \in DOMAIN buffer :
          /\ HeldSnap(buffer[x], s)
          /\ \A n \in DOMAIN buffer : HeldSnap(buffer[n], s) => n = x
          /\ \A n \in DOMAIN buffer : HeldBatch(buffer[n], s) => buffer[x].i < buffer[n].i
          /\ \A n \in DOMAIN down : ~IsSnap(down[n], s) /\ (IsBatch(down[n], s) => buffer[x].i < down[n].i)
          /\ \A j \in Nat : Due(s, buffer[x].i, j) => OnWire(s, 0, j) \/ InBuffer(s, j)
    BY Zenon DEF Waiting
  <1>2. x \in DOMAIN buffer' /\ buffer'[x] = buffer[x]
    BY OneHeld, Zenon
  <1>3. PICK y \in DOMAIN buffer' : /\ buffer'[y] = f
                                    /\ \A n \in DOMAIN buffer' : n = y \/ (n \in DOMAIN buffer /\ buffer'[n] = buffer[n])
    BY OneHeld, Zenon
  <1>4. PICK p : p = buffer[x].i /\ p = buffer'[x].i
    BY <1>2, Zenon
  <1>5. ~HeldSnap(buffer'[y], s)
    BY <1>3 DEF HeldSnap
  <1>6. \A n \in DOMAIN buffer' : HeldSnap(buffer'[n], s) => n = x
    BY <1>1, <1>3, <1>5, Zenon
  <1>7. \A n \in DOMAIN buffer' : HeldBatch(buffer'[n], s) => p < buffer'[n].i
    <2>1. p < f.i
      BY <1>1, <1>4, Zenon
    <2> QED
      BY <1>1, <1>3, <1>4, <2>1, Zenon
  <1>8. ASSUME NEW n \in DOMAIN down'
        PROVE  ~IsSnap(down'[n], s) /\ (IsBatch(down'[n], s) => p < down'[n].i)
    <2>1. n + 1 \in DOMAIN down /\ down'[n] = down[n + 1]
      BY TakesPlaces, Zenon
    <2> QED
      BY <1>1, <1>4, <2>1, Zenon
  <1>9. ASSUME NEW j \in Nat, Due(s, p, j)' PROVE OnWire(s, 0, j)' \/ InBuffer(s, j)'
    <2>1. Due(s, p, j)
      BY <1>9, TouchesStay, Zenon DEF Due, Takes
    <2>2. OnWire(s, 0, j) \/ InBuffer(s, j)
      BY <1>1, <1>4, <2>1, Zenon
    <2> QED
      BY <2>2, BatchMoves, Zenon
  <1>10. \A j \in Nat : (Due(s, buffer[x].i, j) => OnWire(s, 0, j) \/ InBuffer(s, j))'
    BY <1>4, <1>9, Zenon DEF Due
  <1> QED
    BY <1>1, <1>2, <1>4, <1>6, <1>7, <1>8, <1>10, Zenon DEF Waiting

(* A batch of a released stream joins the buffer. *)
LEMMA BufferCurrent ==
  ASSUME Takes, TypeOK, NEW f \in Buffered, buffer' = Append(buffer, f), NEW s,
         f.s = s, f.kind = "batch", f.i = down[1].i, Current(s), data' = data, cut' = cut
  PROVE  Current(s)'
  <1>1. PICK y \in DOMAIN buffer' : /\ buffer'[y] = f
                                    /\ \A n \in DOMAIN buffer' : n = y \/ (n \in DOMAIN buffer /\ buffer'[n] = buffer[n])
    BY OneHeld, Zenon
  <1>2. ~HeldSnap(buffer'[y], s)
    BY <1>1 DEF HeldSnap
  <1>3. \A n \in DOMAIN buffer' : ~HeldSnap(buffer'[n], s)
    BY <1>1, <1>2, Zenon DEF Current
  <1>4. ASSUME NEW n \in DOMAIN down' PROVE ~IsSnap(down'[n], s)
    <2>1. n + 1 \in DOMAIN down /\ down'[n] = down[n + 1]
      BY TakesPlaces, Zenon
    <2> QED
      BY <2>1, Zenon DEF Current
  <1>5. PICK c : c = cut
    BY Zenon
  <1>6. ASSUME NEW j \in Nat, Due(s, c, j)' PROVE OnWire(s, 0, j)' \/ InBuffer(s, j)'
    <2>1. Due(s, c, j)
      BY <1>6, TouchesStay, Zenon DEF Due, Takes
    <2>2. OnWire(s, 0, j) \/ InBuffer(s, j)
      BY <1>5, <2>1, Zenon DEF Current
    <2> QED
      BY <2>2, BatchMoves, Zenon
  <1>7. \A j \in Nat : (Due(s, cut, j) => OnWire(s, 0, j) \/ InBuffer(s, j))'
    BY <1>5, <1>6, Zenon DEF Due
  <1>8. data'[s] = Touching(s, cut)'
    BY Zenon DEF Current, Touching, Takes
  <1> QED
    BY <1>3, <1>4, <1>7, <1>8, Zenon DEF Current

(* No batch of an epoch arrives before its snapshot. *)
LEMMA SnapFirst ==
  ASSUME TypeOK, NEW s, 1 \in DOMAIN down, IsBatch(down[1], s)
  PROVE  ~Coming(s, 0)
  <1>1. SUFFICES ASSUME Coming(s, 0) PROVE FALSE
    BY Zenon
  <1>2. 0 < 1
    BY SMT
  <1>3. PICK x \in DOMAIN down : 0 < x /\ x < 1
    BY <1>1, <1>2, Zenon DEF Coming
  <1>4. x \in Nat
    BY Types, Zenon
  <1> QED
    BY <1>3, <1>4, SMT

(* The frame is data of s, and is buffered. *)
LEMMA BufferEpoch ==
  ASSUME Takes, TypeOK, NEW f \in Buffered, buffer' = Append(buffer, f), NEW s, Epoch(s), Mine(s), 1 \in DOMAIN down,
         f.s = s, f.kind = down[1].t, f.i = down[1].i, down[1].t \in {"snapshot", "batch"}, down[1].s = s,
         data' = data, cut' = cut
  PROVE  Epoch(s)'
  <1>1. Opens(s, 0)' <=> Opens(s, 0)
    <2>1. ~IsHello(down[1], s)
      BY Kinds, Zenon
    <2> QED
      BY <2>1, FrontOpens, Zenon DEF Mine
  <1>2. (f.kind = "snapshot" /\ IsSnap(down[1], s)) \/ (f.kind = "batch" /\ IsBatch(down[1], s))
    BY Zenon DEF IsSnap, IsBatch
  <1>3. s \in fresh' => Opens(s, 0)' /\ Current(s)'
    <2>1. ASSUME s \in fresh PROVE Opens(s, 0) /\ Current(s) /\ ~IsSnap(down[1], s)
      BY <2>1, Zenon DEF Epoch, Current
    <2> QED
      BY <1>1, <1>2, <2>1, BufferCurrent, Zenon DEF Mine
  <1>4. ASSUME Opens(s, 0)'
        PROVE  /\ Alive(s, 0)' /\ Paced(s, 0)'
               /\ (Coming(s, 0)' /\ NotHeld(s)') \/ Waiting(s)' \/ s \in fresh'
    <2>1. Alive(s, 0) /\ Paced(s, 0) /\ ((Coming(s, 0) /\ NotHeld(s)) \/ Waiting(s) \/ s \in fresh)
      BY <1>1, <1>4, Zenon DEF Epoch
    <2>2. Alive(s, 0)' /\ Paced(s, 0)'
      <3>1. ~IsErr(down[1], s) /\ Behind(0, 0)
        BY Kinds, TakesPlaces, Zenon
      <3> QED
        BY <2>1, <3>1, TakeAlive, Zenon
    <2>3. CASE Coming(s, 0) /\ NotHeld(s)
      <3>1. ~IsBatch(down[1], s)
        BY <2>3, SnapFirst, Zenon
      <3>2. Waiting(s)'
        BY <1>2, <2>3, <3>1, BufferComing, Zenon
      <3> QED
        BY <2>2, <3>2
    <2>4. CASE Waiting(s)
      <3>1. ~IsSnap(down[1], s)
        BY <2>4, Zenon DEF Waiting
      <3>2. Waiting(s)'
        BY <1>2, <2>4, <3>1, BufferWaiting, Zenon
      <3> QED
        BY <2>2, <3>2
    <2>5. CASE s \in fresh
      BY <2>2, <2>5, Zenon DEF Mine
    <2> QED
      BY <2>1, <2>3, <2>4, <2>5
  <1> QED
    BY <1>3, <1>4, TailEpoch, Zenon DEF Mine

(* A batch that reaches an open subscriber is newer than what was applied. *)
LEMMA NeverStale ==
  ASSUME BaseInv, down # <<>>, First.t = "batch"
  PROVE  ~(First.cv <= appliedCv)
  <1>0. TypeOK /\ Wire /\ Boots
    BY Zenon DEF BaseInv
  <1>1. lastBootId = bootId
    BY Awake
  <1>2. First = down[1] /\ 1 \in DOMAIN down /\ First.i \in Nat /\ First.cv \in Nat /\ First.cv + base = First.i
    BY HeadFrame, Zenon
  <1>3. cut < First.i /\ base < First.i
    BY <1>0, <1>2, Zenon DEF Wire
  <1>4. appliedCv = 0 \/ appliedCv + base <= cut
    BY <1>0, <1>1, Zenon DEF Boots
  <1>5. appliedCv \in Nat /\ base \in Nat /\ cut \in Nat
    BY <1>0, Types
  <1> QED
    BY <1>2, <1>3, <1>4, <1>5, SMT

(* Data continues its epoch in the buffer, is not of an open epoch, or overflows the buffer. *)
LEMMA OnDataEpoch ==
  ASSUME GateInv, OnData, NEW s \in Stream
  PROVE  Epoch(s)'
  <1>0. BaseInv /\ TypeOK /\ Sets /\ Epoch(s)
    BY Zenon DEF GateInv, BaseInv
  <1>1. Receive({"snapshot", "batch"}) /\ UNCHANGED <<daemonVars, retained, data, cut>>
    BY Zenon DEF OnData
  <1>2. UNCHANGED daemonVars /\ data' = data /\ cut' = cut
    BY <1>1, Zenon
  <1>3. Takes /\ down # <<>> /\ First = down[1] /\ First.t \in {"snapshot", "batch"} /\ 1 \in DOMAIN down
    BY <1>0, <1>1, <1>2, ReceiveTakes, Zenon
  <1> DEFINE f == [s |-> First.s, kind |-> First.t, i |-> First.i, cv |-> First.cv]
  <1>4. \/ First.s \notin open /\ UNCHANGED <<buffer, subs, open, want, leaving, fresh>>
        \/ First.s \in open /\ buffer' = Append(buffer, f) /\ UNCHANGED <<subs, open, want, leaving, fresh>>
        \/ Overflow
    <2>1. ~(First.t = "batch" /\ First.cv <= appliedCv)
      BY <1>0, <1>3, NeverStale, Zenon
    <2> QED
      BY <2>1, Zenon DEF OnData
  <1>5. First.s # s => ~IsHello(down[1], s) /\ ~IsErr(down[1], s) /\ ~IsSnap(down[1], s) /\ ~IsBatch(down[1], s)
    BY <1>3, Kinds, Zenon
  <1>6. CASE Overflow
    <2>1. ~Active(s)' /\ s \notin fresh'
      BY <1>6, Zenon DEF Overflow, Active
    <2> QED
      BY <2>1, QuietEpoch, Zenon
  <1>7. CASE First.s \notin open /\ UNCHANGED <<buffer, subs, open, want, leaving, fresh>>
    <2>1. Mine(s) /\ Same(s)
      BY <1>7, BufferSame, Zenon DEF Mine, Active
    <2>2. CASE First.s # s
      BY <1>0, <1>2, <1>3, <1>5, <2>1, <2>2, FrontEpoch, Zenon
    <2>3. CASE First.s = s
      <3>1. s \notin fresh' /\ ~Opens(s, 0)'
        BY <1>0, <1>7, <2>3, Zenon DEF Sets, Opens
      <3> QED
        BY <1>0, <1>3, <2>1, <3>1, TailEpoch, Zenon DEF Mine
    <2> QED
      BY <2>2, <2>3
  <1>8. CASE First.s \in open /\ buffer' = Append(buffer, f) /\ UNCHANGED <<subs, open, want, leaving, fresh>>
    <2>1. First.s \in Stream /\ First.i \in Nat /\ First.cv \in Nat
      BY <1>0, <1>3, HeadFrame, Zenon
    <2>2. f \in Buffered /\ f.s = First.s /\ f.kind = First.t /\ f.i = First.i
      BY <1>3, <2>1 DEF Buffered
    <2>3. Mine(s)
      BY <1>8, Zenon DEF Mine, Active
    <2> HIDE DEF f
    <2>4. CASE First.s # s
      <3>1. Same(s)
        BY <1>0, <1>8, <2>2, <2>4, AppendSame, Zenon
      <3> QED
        BY <1>0, <1>2, <1>3, <1>5, <2>3, <2>4, <3>1, FrontEpoch, Zenon
    <2>5. CASE First.s = s
      <3>1. f.s = s /\ f.kind = down[1].t /\ f.i = down[1].i /\ down[1].t \in {"snapshot", "batch"} /\ down[1].s = s
        BY <1>3, <2>2, <2>5, Zenon
      <3> QED
        BY <1>0, <1>2, <1>3, <1>8, <2>2, <2>3, <3>1, BufferEpoch, Zenon
    <2> QED
      BY <2>4, <2>5
  <1> QED
    BY <1>4, <1>6, <1>7, <1>8

(* Folding shows all of s up to p: it starts from q, and the rest is held.     *)
Starts(s, q) ==
  \/ \E x \in DOMAIN buffer :
       /\ HeldSnap(buffer[x], s) /\ buffer[x].i = q
       /\ \A n \in DOMAIN buffer : HeldSnap(buffer[n], s) => n = x
       /\ \A n \in DOMAIN buffer : HeldBatch(buffer[n], s) => q < buffer[n].i
  \/ data[s] = Touching(s, q) /\ \A n \in DOMAIN buffer : ~HeldSnap(buffer[n], s)

(* In one boot, cv and position order the buffer alike. *)
LEMMA HeldNumbers ==
  ASSUME BaseInv, lastBootId = bootId, NEW c \in Nat, NEW p \in Nat, c + base = p, NEW n \in DOMAIN buffer
  PROVE  /\ buffer[n].i \in Nat /\ (buffer[n].cv <= c <=> buffer[n].i <= p) /\ (buffer[n].cv > c <=> p < buffer[n].i)
         /\ \A m \in DOMAIN buffer : buffer[m].i < buffer[n].i => buffer[m].cv < buffer[n].cv
  <1>0. TypeOK /\ Buffer
    BY Zenon DEF BaseInv
  <1>1. \A m \in DOMAIN buffer : buffer[m].i \in Nat /\ buffer[m].cv \in Nat /\ buffer[m].cv + base = buffer[m].i
    <2>1. \A m \in DOMAIN buffer : buffer[m] \in Buffered
      BY <1>0, Types, Zenon
    <2> QED
      BY <1>0, <2>1, HeldTypes, Zenon DEF Buffer
  <1>2. base \in Nat
    BY <1>0, Types
  <1>3. buffer[n].i \in Nat /\ buffer[n].cv \in Nat /\ buffer[n].cv + base = buffer[n].i
    BY <1>1
  <1>4. (buffer[n].cv <= c <=> buffer[n].i <= p) /\ (buffer[n].cv > c <=> p < buffer[n].i)
    BY <1>2, <1>3, SMT
  <1>5. ASSUME NEW m \in DOMAIN buffer, buffer[m].i < buffer[n].i PROVE buffer[m].cv < buffer[n].cv
    <2>1. buffer[m].i \in Nat /\ buffer[m].cv \in Nat /\ buffer[m].cv + base = buffer[m].i
      BY <1>1
    <2> QED
      BY <1>2, <1>3, <1>5, <2>1, SMT
  <1> QED
    BY <1>3, <1>4, <1>5, Zenon

(* Folding the buffer up to a cut loses no commit that touches the stream. *)
LEMMA FoldExact ==
  ASSUME BaseInv, lastBootId = bootId, NEW s \in Stream, NEW c \in Nat, NEW p \in Nat, c + base = p, p <= Now,
         NEW q \in Nat, q <= p, Starts(s, q),
         \A j \in Nat : q < j /\ j <= p /\ Touches(s, j) => InBuffer(s, j)
  PROVE  Touching(s, p) \subseteq Fold(s, c)
  <1>0. TypeOK
    BY Zenon DEF BaseInv
  <1> DEFINE ready == {n \in DOMAIN buffer : buffer[n].s = s /\ buffer[n].cv <= c}
             Before(m, n) == \/ buffer[m].cv < buffer[n].cv
                             \/ buffer[m].cv = buffer[n].cv /\ m < n
             snapshots == {n \in ready : buffer[n].kind = "snapshot"}
             last == {n \in snapshots : \A m \in snapshots \ {n} : Before(m, n)}
             batches == {n \in ready \ snapshots : \A m \in last : Before(m, n)}
  <1>1. Fold(s, c) = (IF last = {} THEN data[s] ELSE UNION {Touching(s, buffer[n].i) : n \in last})
                       \cup {buffer[n].i : n \in batches}
    BY Zenon DEF Fold
  <1>2. \A n \in DOMAIN buffer : /\ buffer[n].cv <= c <=> buffer[n].i <= p
                                 /\ \A m \in DOMAIN buffer : buffer[m].i < buffer[n].i => buffer[m].cv < buffer[n].cv
    BY HeldNumbers, Zenon
  <1>3. \A n \in snapshots : n \in DOMAIN buffer /\ HeldSnap(buffer[n], s)
    BY Zenon DEF HeldSnap
  <1>4. /\ Touching(s, q) \subseteq Fold(s, c)
        /\ \A m \in last, n \in DOMAIN buffer : HeldBatch(buffer[n], s) => buffer[m].i < buffer[n].i
    <2>1. CASE data[s] = Touching(s, q) /\ \A n \in DOMAIN buffer : ~HeldSnap(buffer[n], s)
      <3>1. snapshots = {}
        BY <1>3, <2>1, Zenon
      <3>2. last = {}
        BY <3>1, Zenon
      <3> HIDE DEF last, batches
      <3> QED
        BY <1>1, <2>1, <3>2, Zenon
    <2>2. ASSUME NEW x \in DOMAIN buffer, HeldSnap(buffer[x], s), buffer[x].i = q,
                 \A n \in DOMAIN buffer : HeldSnap(buffer[n], s) => n = x,
                 \A n \in DOMAIN buffer : HeldBatch(buffer[n], s) => q < buffer[n].i
          PROVE  /\ Touching(s, q) \subseteq Fold(s, c)
                 /\ \A m \in last, n \in DOMAIN buffer : HeldBatch(buffer[n], s) => buffer[m].i < buffer[n].i
      <3>1. x \in snapshots
        BY <1>2, <2>2, Zenon DEF HeldSnap
      <3>2. \A m \in snapshots : m = x
        BY <1>3, <2>2, Zenon
      <3>3. x \in last /\ \A m \in last : m = x
        BY <3>1, <3>2, Zenon
      <3> HIDE DEF last, batches
      <3> QED
        BY <1>1, <2>2, <3>3, Zenon
    <2> QED
      BY <2>1, <2>2, Zenon DEF Starts
  <1>5. ASSUME NEW j \in Nat, InBuffer(s, j), j <= p PROVE j \in Fold(s, c)
    <2>1. PICK n \in DOMAIN buffer : HeldBatch(buffer[n], s) /\ buffer[n].i = j
      BY <1>5, Zenon DEF InBuffer
    <2>2. n \in ready
      BY <1>2, <1>5, <2>1, Zenon DEF HeldBatch
    <2>3. buffer[n].kind # "snapshot"
      BY <2>1 DEF HeldBatch
    <2>4. ASSUME NEW m \in last PROVE Before(m, n)
      <3>1. m \in DOMAIN buffer
        BY Zenon
      <3>2. buffer[m].i < buffer[n].i
        BY <1>4, <2>1, Zenon
      <3> QED
        BY <1>2, <3>1, <3>2, Zenon
    <2>5. n \in batches
      BY <2>2, <2>3, <2>4, Zenon
    <2> HIDE DEF last, batches
    <2> QED
      BY <1>1, <2>1, <2>5, Zenon
  <1>6. ASSUME NEW j \in Touching(s, p) PROVE j \in Fold(s, c)
    <2>1. j \in 1..p /\ s \in commits[j]
      BY Zenon DEF Touching
    <2>2. j \in Nat /\ j <= p /\ j \in 1..Now /\ (j \in 1..q \/ q < j)
      <3>1. Now \in Nat
        BY <1>0, Types
      <3> QED
        BY <2>1, <3>1, SMT
    <2>3. CASE j \in 1..q
      <3>1. j \in Touching(s, q)
        BY <2>1, <2>3, Zenon DEF Touching
      <3> QED
        BY <1>4, <3>1, Zenon
    <2>4. CASE q < j
      <3>1. InBuffer(s, j)
        BY <2>1, <2>2, <2>4, Zenon DEF Touches
      <3> QED
        BY <1>5, <2>2, <3>1, Zenon
    <2> QED
      BY <2>2, <2>3, <2>4
  <1> QED
    BY <1>6, Zenon

(* A progress frame at p is taken, and releases what is held up to it.        *)
Releases(c, p) ==
  /\ Takes /\ lastBootId = bootId /\ 1 \in DOMAIN down
  /\ c \in Nat /\ p \in Nat /\ c + base = p /\ cut <= p /\ p <= told
  /\ down[1].t = "progress" /\ down[1].i = p
  /\ cut' = p /\ data' = [s \in Stream |-> Fold(s, c)]
  /\ Kept({n \in DOMAIN buffer : buffer[n].cv > c})
  /\ fresh' = fresh \cup {s \in open : ~Superseded(s) /\ \E n \in DOMAIN buffer :
                            HeldSnap(buffer[n], s) /\ buffer[n].cv <= c}
  /\ UNCHANGED <<want, leaving, subs, open>>

(* A progress frame releases the buffer up to its cv, if it does anything. *)
LEMMA OnProgressReleases ==
  ASSUME BaseInv, OnProgress
  PROVE  Releases(First.cv, First.i)
  <1>0. TypeOK /\ Wire
    BY Zenon DEF BaseInv
  <1>1. /\ Receive({"progress"}) /\ data' = [s \in Stream |-> Fold(s, First.cv)]
        /\ Keep({n \in DOMAIN buffer : buffer[n].cv > First.cv}) /\ cut' = First.i
        /\ fresh' = fresh \cup {s \in open : ~Superseded(s) /\ \E n \in DOMAIN buffer :
                                  HeldSnap(buffer[n], s) /\ buffer[n].cv <= First.cv}
        /\ UNCHANGED <<daemonVars, want, leaving, sourceVars>>
    <2>1. {s \in open : ~Superseded(s) /\ \E n \in DOMAIN buffer : HeldSnap(buffer[n], s) /\ buffer[n].cv <= First.cv}
            = {s \in open : ~Superseded(s) /\ \E n \in DOMAIN buffer :
                /\ buffer[n].s = s /\ buffer[n].kind = "snapshot" /\ buffer[n].cv <= First.cv}
      BY Zenon DEF HeldSnap
    <2> QED
      BY <2>1, Zenon DEF OnProgress
  <1>2. UNCHANGED daemonVars /\ UNCHANGED <<want, leaving, subs, open>>
    BY <1>1, Zenon DEF sourceVars
  <1>3. Takes /\ down # <<>> /\ First = down[1] /\ First.t \in {"progress"} /\ 1 \in DOMAIN down
    BY <1>1, <1>2, ReceiveTakes, Zenon
  <1>4. First.t = "progress"
    BY <1>3, Zenon
  <1>5. First.cv \in Nat /\ First.i \in Nat /\ First.cv + base = First.i /\ lastBootId = bootId
    BY <1>3, <1>4, HeadFrame, Awake, Zenon
  <1>6. cut <= First.i /\ First.i <= told
    BY <1>0, <1>3, <1>4, Zenon DEF Wire
  <1>7. Kept({n \in DOMAIN buffer : buffer[n].cv > First.cv})
    <2>1. {n \in DOMAIN buffer : buffer[n].cv > First.cv} \in SUBSET DOMAIN buffer
      BY Zenon
    <2> QED
      BY <1>0, <1>1, <2>1, KeepKeeps, Zenon
  <1> QED
    BY <1>1, <1>2, <1>3, <1>4, <1>5, <1>6, <1>7, Zenon DEF Releases

(* Batches still on the wire are beyond p; what is held beyond p stays held.  *)
LEMMA ReleaseSplits ==
  ASSUME BaseInv, NEW c, NEW p, Releases(c, p), NEW s
  PROVE  /\ \A j : OnWire(s, 0, j) => p < j
         /\ \A j : OnWire(s, 0, j) => OnWire(s, 0, j)'
         /\ \A j : InBuffer(s, j) /\ p < j => InBuffer(s, j)'
         /\ \A n \in DOMAIN buffer' : \E m \in DOMAIN buffer : buffer'[n] = buffer[m] /\ p < buffer[m].i
         /\ \A q, j : Due(s, q, j)' <=> Due(s, q, j)
  <1>0. TypeOK /\ WireOrder
    BY Zenon DEF BaseInv
  <1>1. /\ Takes /\ lastBootId = bootId /\ 1 \in DOMAIN down /\ c \in Nat /\ p \in Nat /\ c + base = p
        /\ down[1].t = "progress" /\ down[1].i = p /\ Kept({n \in DOMAIN buffer : buffer[n].cv > c})
    BY Zenon DEF Releases
  <1>2. ~IsBatch(down[1], s)
    BY <1>1, Kinds, Zenon
  <1>3. ASSUME NEW j, OnWire(s, 0, j) PROVE p < j
    <2>1. PICK n \in DOMAIN down : IsBatch(down[n], s) /\ down[n].i = j
      BY <1>3, Zenon DEF OnWire
    <2>2. n # 1
      BY <1>2, <2>1, Zenon
    <2>3. PICK k \in DOMAIN down' : n = k + 1
      BY <1>1, <2>2, TakesPlaces, Zenon
    <2>4. 1 < n
      BY <1>1, <2>3, TakesPlaces, Zenon
    <2> QED
      BY <1>0, <1>1, <2>1, <2>4, Zenon DEF WireOrder, IsBatch
  <1>4. Behind(0, 0)
    BY <1>1, TakesPlaces, Zenon
  <1>5. /\ \A q, j : Due(s, q, j)' <=> Due(s, q, j)
        /\ \A j : OnWire(s, 0, j) => OnWire(s, 0, j)'
    BY <1>1, <1>2, <1>4, TakeWires, Zenon
  <1>6. \A n \in DOMAIN buffer : buffer[n].cv > c <=> p < buffer[n].i
    BY <1>1, HeldNumbers, Zenon
  <1>7. PICK at : /\ \A n \in DOMAIN buffer' : at[n] \in {m \in DOMAIN buffer : buffer[m].cv > c} /\ buffer'[n] = buffer[at[n]]
                  /\ \A m \in {n \in DOMAIN buffer : buffer[n].cv > c} : \E n \in DOMAIN buffer' : at[n] = m
    BY <1>1, Zenon DEF Kept
  <1>8. ASSUME NEW n \in DOMAIN buffer' PROVE \E m \in DOMAIN buffer : buffer'[n] = buffer[m] /\ p < buffer[m].i
    <2>1. at[n] \in DOMAIN buffer /\ buffer[at[n]].cv > c /\ buffer'[n] = buffer[at[n]]
      BY <1>7, Zenon
    <2> QED
      BY <1>6, <2>1, Zenon
  <1>9. ASSUME NEW j, InBuffer(s, j), p < j PROVE InBuffer(s, j)'
    <2>1. PICK m \in DOMAIN buffer : HeldBatch(buffer[m], s) /\ buffer[m].i = j
      BY <1>9, Zenon DEF InBuffer
    <2>2. PICK n \in DOMAIN buffer' : at[n] = m
      BY <1>6, <1>7, <1>9, <2>1, Zenon
    <2>3. buffer'[n] = buffer[m]
      BY <1>7, <2>2, Zenon
    <2> QED
      BY <2>1, <2>3, Zenon DEF InBuffer
  <1> QED
    BY <1>3, <1>5, <1>8, <1>9, Zenon

(* A stream whose snapshot is released, now or before, shows all up to p.     *)
LEMMA Released ==
  ASSUME BaseInv, NEW c, NEW p, Releases(c, p), NEW s \in Stream, p <= pos[s], NEW q \in Nat, q <= p, Starts(s, q),
         \A n \in DOMAIN down : ~IsSnap(down[n], s),
         \A n \in DOMAIN buffer : HeldSnap(buffer[n], s) => buffer[n].i <= p,
         \A j \in Nat : Due(s, q, j) => OnWire(s, 0, j) \/ InBuffer(s, j)
  PROVE  Current(s)'
  <1>0. TypeOK /\ Positions
    BY Zenon DEF BaseInv
  <1>1. /\ Takes /\ lastBootId = bootId /\ c \in Nat /\ p \in Nat /\ c + base = p /\ cut <= p /\ p <= told
        /\ cut' = p /\ data' = [r \in Stream |-> Fold(r, c)]
    BY Zenon DEF Releases
  <1>2. pos[s] \in Nat /\ told \in Nat /\ Now \in Nat /\ told <= Now
    BY <1>0, Types, Zenon DEF Positions
  <1>3. p <= Now /\ \A j \in Nat : /\ j <= p => j <= pos[s] /\ ~(p < j)
                                   /\ p < j => q < j
    BY <1>1, <1>2, SMT
  <1>4. ASSUME NEW j \in Nat, q < j, j <= p, Touches(s, j) PROVE InBuffer(s, j)
    <2>1. Due(s, q, j)
      BY <1>3, <1>4, Zenon DEF Due
    <2> QED
      BY <1>3, <1>4, <2>1, ReleaseSplits, Zenon
  <1>5. data'[s] = Touching(s, p)
    <2>1. data'[s] = Fold(s, c)
      BY <1>1
    <2>2. Fold(s, c) \subseteq Touching(s, p)
      BY <1>1, FoldBounds, Zenon
    <2>3. Touching(s, p) \subseteq Fold(s, c)
      BY <1>1, <1>3, <1>4, FoldExact, Zenon
    <2> QED
      BY <2>1, <2>2, <2>3, Zenon
  <1>6. Touching(s, cut)' = Touching(s, p)
    BY <1>1, Zenon DEF Touching, Takes
  <1>7. ASSUME NEW n \in DOMAIN buffer' PROVE ~HeldSnap(buffer'[n], s)
    <2>1. PICK m \in DOMAIN buffer : buffer'[n] = buffer[m] /\ p < buffer[m].i
      BY ReleaseSplits, Zenon
    <2>2. buffer[m].i \in Nat
      BY <1>1, HeldNumbers, Zenon
    <2>3. ~(buffer[m].i <= p)
      BY <1>1, <2>1, <2>2, SMT
    <2> QED
      BY <2>1, <2>3, Zenon
  <1>8. ASSUME NEW n \in DOMAIN down' PROVE ~IsSnap(down'[n], s)
    <2>1. n + 1 \in DOMAIN down /\ down'[n] = down[n + 1]
      BY <1>1, TakesPlaces, Zenon
    <2> QED
      BY <2>1, Zenon
  <1>9. ASSUME NEW j \in Nat, Due(s, p, j)' PROVE OnWire(s, 0, j)' \/ InBuffer(s, j)'
    <2>1. Due(s, p, j)
      BY <1>9, ReleaseSplits, Zenon
    <2>2. p < j /\ Due(s, q, j)
      BY <1>3, <2>1, Zenon DEF Due
    <2> QED
      BY <2>2, ReleaseSplits, Zenon
  <1>10. \A j \in Nat : (Due(s, cut, j) => OnWire(s, 0, j) \/ InBuffer(s, j))'
    BY <1>1, <1>9, Zenon DEF Due
  <1> QED
    BY <1>5, <1>6, <1>7, <1>8, <1>10, Zenon DEF Current

(* A release is never ahead of an open stream. *)
LEMMA ReleaseOpen ==
  ASSUME BaseInv, NEW c, NEW p, Releases(c, p), NEW s, Epoch(s), Opens(s, 0)
  PROVE  p <= pos[s] /\ Alive(s, 0)' /\ Paced(s, 0)'
  <1>0. TypeOK
    BY Zenon DEF BaseInv
  <1>1. Takes /\ 1 \in DOMAIN down /\ down[1].t = "progress" /\ down[1].i = p
    BY Zenon DEF Releases
  <1>2. Alive(s, 0) /\ Paced(s, 0)
    BY Zenon DEF Epoch
  <1>3. 0 < 1 /\ \A m \in DOMAIN down : ~(0 < m /\ m < 1)
    <2>1. \A m \in DOMAIN down : m \in Nat
      BY <1>0, Types, Zenon
    <2> QED
      BY <2>1, SMT
  <1>4. p <= pos[s]
    BY <1>1, <1>2, <1>3, Zenon DEF Paced, IsProgress
  <1>5. Behind(0, 0) /\ ~IsErr(down[1], s)
    BY <1>1, TakesPlaces, Kinds, Zenon
  <1> QED
    BY <1>1, <1>2, <1>4, <1>5, TakeAlive, Zenon

(* A stream released before is current at the new cut. *)
LEMMA ReleaseFresh ==
  ASSUME BaseInv, NEW c, NEW p, Releases(c, p), NEW s \in Stream, Epoch(s), s \in fresh
  PROVE  Opens(s, 0) /\ Current(s)'
  <1>1. Opens(s, 0) /\ Current(s)
    BY Zenon DEF Epoch
  <1>2. p <= pos[s]
    BY <1>1, ReleaseOpen, Zenon
  <1>3. cut \in Nat /\ cut <= p
    BY Types, Zenon DEF BaseInv, Releases
  <1>4. Starts(s, cut)
    BY <1>1, Zenon DEF Starts, Current
  <1>5. /\ \A n \in DOMAIN down : ~IsSnap(down[n], s)
        /\ \A n \in DOMAIN buffer : HeldSnap(buffer[n], s) => buffer[n].i <= p
        /\ \A j \in Nat : Due(s, cut, j) => OnWire(s, 0, j) \/ InBuffer(s, j)
    BY <1>1, Zenon DEF Current
  <1> QED
    BY <1>1, <1>2, <1>3, <1>4, <1>5, Released, Zenon

(* A waiting snapshot is released with the batches up to the cut, or goes on waiting. *)
LEMMA ReleaseWaiting ==
  ASSUME BaseInv, NEW c, NEW p, Releases(c, p), NEW s \in Stream, Epoch(s), Opens(s, 0), Waiting(s)
  PROVE  \/ s \in fresh' /\ Current(s)'
         \/ (\A n \in DOMAIN buffer : ~(HeldSnap(buffer[n], s) /\ buffer[n].cv <= c)) /\ Waiting(s)'
  <1>0. TypeOK /\ Sets
    BY Zenon DEF BaseInv
  <1>1. /\ Takes /\ lastBootId = bootId /\ 1 \in DOMAIN down /\ down[1].t = "progress"
        /\ c \in Nat /\ p \in Nat /\ c + base = p
        /\ Kept({n \in DOMAIN buffer : buffer[n].cv > c})
        /\ fresh' = fresh \cup {r \in open : ~Superseded(r) /\ \E n \in DOMAIN buffer :
                                  HeldSnap(buffer[n], r) /\ buffer[n].cv <= c}
    BY Zenon DEF Releases
  <1>2. PICK x \in DOMAIN buffer :
          /\ HeldSnap(buffer[x], s)
          /\ \A n \in DOMAIN buffer : HeldSnap(buffer[n], s) => n = x
          /\ \A n \in DOMAIN buffer : HeldBatch(buffer[n], s) => buffer[x].i < buffer[n].i
          /\ \A n \in DOMAIN down : ~IsSnap(down[n], s)
          /\ \A j \in Nat : Due(s, buffer[x].i, j) => OnWire(s, 0, j) \/ InBuffer(s, j)
    BY Zenon DEF Waiting
  <1>3. \A n \in DOMAIN buffer : /\ buffer[n].i \in Nat
                                 /\ buffer[n].cv <= c <=> buffer[n].i <= p
                                 /\ buffer[n].cv > c <=> p < buffer[n].i
    BY <1>1, HeldNumbers, Zenon
  <1>4. CASE buffer[x].i <= p
    <2>1. ~Superseded(s) /\ s \in open
      <3>1. \A n \in DOMAIN down : 0 < n
        BY <1>0, Types, Zenon
      <3> QED
        BY <3>1, Zenon DEF Superseded, Opens, Active, NoHello, IsHello
    <2>2. s \in fresh'
      BY <1>1, <1>2, <1>3, <1>4, <2>1, Zenon
    <2>3. PICK q : q = buffer[x].i
      BY Zenon
    <2>4. q \in Nat /\ q <= p /\ Starts(s, q)
      BY <1>2, <1>3, <1>4, <2>3, Zenon DEF Starts
    <2>5. \A n \in DOMAIN buffer : HeldSnap(buffer[n], s) => buffer[n].i <= p
      BY <1>2, <1>4, Zenon
    <2>6. \A j \in Nat : Due(s, q, j) => OnWire(s, 0, j) \/ InBuffer(s, j)
      BY <1>2, <2>3, Zenon
    <2>7. p <= pos[s]
      BY ReleaseOpen, Zenon
    <2>8. Current(s)'
      BY <1>2, <2>4, <2>5, <2>6, <2>7, Released, Zenon
    <2> QED
      BY <2>2, <2>8
  <1>5. CASE ~(buffer[x].i <= p)
    <2>1. \A n \in DOMAIN buffer : ~(HeldSnap(buffer[n], s) /\ buffer[n].cv <= c)
      BY <1>2, <1>3, <1>5, Zenon
    <2>2. ASSUME NEW n \in DOMAIN buffer, buffer[n].s = s PROVE buffer[n].cv > c
      <3>1. buffer[n].kind \in {"snapshot", "batch"}
        BY <1>0, Types, HeldTypes, Zenon
      <3>2. HeldSnap(buffer[n], s) \/ HeldBatch(buffer[n], s)
        BY <2>2, <3>1, Zenon DEF HeldSnap, HeldBatch
      <3>3. n = x \/ buffer[x].i < buffer[n].i
        BY <1>2, <3>2, Zenon
      <3>4. buffer[n].i \in Nat /\ buffer[x].i \in Nat
        BY <1>3
      <3>5. p < buffer[n].i
        BY <1>1, <1>5, <3>3, <3>4, SMT
      <3> QED
        BY <1>3, <3>5, Zenon
    <2>3. Same(s)
      <3> DEFINE places == {n \in DOMAIN buffer : buffer[n].cv > c}
      <3>1. places \in SUBSET DOMAIN buffer /\ Kept(places) /\ \A m \in DOMAIN buffer : buffer[m].s = s => m \in places
        BY <1>1, <2>2, Zenon
      <3> HIDE DEF places
      <3> QED
        BY <3>1, KeptSame, Zenon
    <2>4. Follows(s)
      BY ReleaseSplits, Zenon DEF Follows
    <2>5. \A n \in DOMAIN down' : \E m \in DOMAIN down : down[m] = down'[n]
      BY <1>1, TakesPlaces, Zenon
    <2>6. Waiting(s)'
      BY <2>3, <2>4, <2>5, WaitingStays, Zenon
    <2> QED
      BY <2>1, <2>6
  <1> QED
    BY <1>4, <1>5

(* A release keeps every epoch. *)
LEMMA OnProgressEpoch ==
  ASSUME GateInv, OnProgress, NEW s \in Stream
  PROVE  Epoch(s)'
  <1>0. BaseInv /\ TypeOK /\ Sets /\ Epoch(s)
    BY Zenon DEF GateInv, BaseInv
  <1>1. PICK c, p : Releases(c, p)
    BY <1>0, OnProgressReleases, Zenon
  <1>2. /\ Takes /\ 1 \in DOMAIN down /\ down[1].t = "progress"
        /\ Kept({n \in DOMAIN buffer : buffer[n].cv > c})
        /\ fresh' = fresh \cup {r \in open : ~Superseded(r) /\ \E n \in DOMAIN buffer :
                                  HeldSnap(buffer[n], r) /\ buffer[n].cv <= c}
        /\ want' = want /\ leaving' = leaving /\ subs' = subs /\ open' = open
    BY <1>1, Zenon DEF Releases
  <1>3. Active(s)' <=> Active(s)
    BY <1>2, Zenon DEF Active
  <1>4. ~IsHello(down[1], s) /\ ~IsSnap(down[1], s) /\ ~IsBatch(down[1], s)
    BY <1>2, Kinds, Zenon
  <1>5. Opens(s, 0)' <=> Opens(s, 0)
    BY <1>2, <1>3, <1>4, FrontOpens, Zenon
  <1>6. ASSUME s \in fresh', s \notin fresh
        PROVE  Opens(s, 0) /\ \E n \in DOMAIN buffer : HeldSnap(buffer[n], s) /\ buffer[n].cv <= c
    <2>1. s \in open /\ ~Superseded(s) /\ \E n \in DOMAIN buffer : HeldSnap(buffer[n], s) /\ buffer[n].cv <= c
      BY <1>2, <1>6, Zenon
    <2>2. Opens(s, 0)
      BY <1>0, <2>1, Zenon DEF Superseded, Opens, Active, NoHello, IsHello, Sets
    <2> QED
      BY <2>1, <2>2
  <1>7. ASSUME Opens(s, 0), s \notin fresh
        PROVE  \/ s \in fresh' /\ Current(s)'
               \/ s \notin fresh' /\ Coming(s, 0)' /\ NotHeld(s)'
               \/ s \notin fresh' /\ Waiting(s)'
    <2>1. (Coming(s, 0) /\ NotHeld(s)) \/ Waiting(s)
      BY <1>0, <1>7, Zenon DEF Epoch
    <2>2. CASE Coming(s, 0) /\ NotHeld(s)
      <3>1. Behind(0, 0)
        BY <1>2, TakesPlaces, Zenon
      <3>2. Coming(s, 0)'
        BY <1>2, <1>4, <2>2, <3>1, TakeComing, Zenon
      <3>3. NotHeld(s)'
        <4>1. \A n \in DOMAIN buffer' : \E m \in DOMAIN buffer : buffer'[n] = buffer[m]
          BY <1>0, <1>1, ReleaseSplits, Zenon
        <4> QED
          BY <2>2, <4>1, Zenon DEF NotHeld
      <3>4. s \notin fresh'
        BY <1>6, <1>7, <2>2, Zenon DEF NotHeld, HeldSnap
      <3> QED
        BY <3>2, <3>3, <3>4
    <2>3. CASE Waiting(s)
      <3>1. \/ s \in fresh' /\ Current(s)'
            \/ (\A n \in DOMAIN buffer : ~(HeldSnap(buffer[n], s) /\ buffer[n].cv <= c)) /\ Waiting(s)'
        BY <1>0, <1>1, <1>7, <2>3, ReleaseWaiting, Zenon
      <3> QED
        BY <1>6, <1>7, <3>1, Zenon
    <2> QED
      BY <2>1, <2>2, <2>3
  <1>8. ASSUME s \in fresh PROVE Opens(s, 0) /\ Current(s)' /\ s \in fresh'
    BY <1>0, <1>1, <1>2, <1>8, ReleaseFresh, Zenon
  <1>9. s \in fresh' => Opens(s, 0)' /\ Current(s)'
    BY <1>5, <1>6, <1>7, <1>8, Zenon
  <1>10. Opens(s, 0)' => /\ Alive(s, 0)' /\ Paced(s, 0)'
                         /\ (Coming(s, 0)' /\ NotHeld(s)') \/ Waiting(s)' \/ s \in fresh'
    <2>1. Opens(s, 0) => Alive(s, 0)' /\ Paced(s, 0)'
      BY <1>0, <1>1, ReleaseOpen, Zenon
    <2> QED
      BY <1>5, <1>7, <1>8, <2>1, Zenon
  <1> QED
    BY <1>0, <1>2, <1>3, <1>9, <1>10, TailEpoch, Zenon

-----------------------------------------------------------------------------
(* The inductive invariant.                                                    *)
LEMMA GateParts == GateInv <=> BaseInv /\ \A s \in Stream : Epoch(s)
  BY Zenon DEF GateInv, BaseInv

(* The invariant holds initially. *)
LEMMA InitGate ==
  ASSUME Init
  PROVE  GateInv
  <1>1. /\ commits = <<>> /\ bootId = 1 /\ base = 0 /\ told = 0 /\ owed = FALSE
        /\ serving = {} /\ pos = [s \in Stream |-> 0]
        /\ want = {Lmid} /\ leaving = {} /\ down = <<>> /\ troubles = 0
        /\ retained = {Lmid} /\ subs = {Lmid} /\ open = {} /\ lastBootId = 0
        /\ buffer = <<>> /\ appliedCv = 0 /\ data = [s \in Stream |-> {}] /\ fresh = {} /\ cut = 0
    BY Zenon DEF Init
  <1>2. DOMAIN down = {} /\ DOMAIN buffer = {} /\ Now = 0
    BY <1>1, SMT DEF Now
  <1>3. TypeOK
    <2>1. /\ commits \in Seq(SUBSET Stream) /\ down \in Seq(Frame) /\ buffer \in Seq(Buffered)
          /\ 0 \in Nat /\ 1 \in Nat
      BY <1>1, SMT
    <2>2. {bootId, base, told, troubles, lastBootId, appliedCv, cut} \subseteq Nat /\ owed \in BOOLEAN
      BY <1>1, <2>1, Zenon
    <2>3. {serving, want, leaving, retained, subs, open, fresh} \subseteq SUBSET Stream
      <3>1. {Lmid} \in SUBSET Stream /\ {} \in SUBSET Stream
        BY Zenon DEF Stream
      <3> QED
        BY <1>1, <3>1, Zenon
    <2>4. pos \in [Stream -> Nat] /\ data \in [Stream -> SUBSET Nat]
      BY <1>1, <2>1
    <2> QED
      BY <2>1, <2>2, <2>3, <2>4, Zenon DEF TypeOK
  <1>4. Positions
    <2>1. 0 <= 0
      BY SMT
    <2>2. \A s \in Stream : pos[s] = 0
      BY <1>1
    <2> QED
      BY <1>1, <1>2, <2>1, <2>2, Zenon DEF Positions
  <1>5. Wire /\ WireOrder /\ Buffer
    BY <1>2, Zenon DEF Wire, WireOrder, Buffer
  <1>6. Boots
    BY <1>1, SMT DEF Boots
  <1>7. Sets
    BY <1>1, Zenon DEF Sets
  <1>8. Shown /\ NoOrphanRows
    BY <1>1, Zenon DEF Shown, NoOrphanRows
  <1>9. ASSUME NEW s \in Stream PROVE Epoch(s)
    BY <1>1, Zenon DEF Epoch, Opens, Active
  <1> QED
    BY <1>3, <1>4, <1>5, <1>6, <1>7, <1>8, <1>9, Zenon DEF GateInv

(* The invariant speaks of the variables only. *)
LEMMA StutterGate ==
  ASSUME GateInv, UNCHANGED vars
  PROVE  GateInv'
  <1>0. BaseInv /\ TypeOK
    BY Zenon DEF GateInv, BaseInv
  <1>1. UNCHANGED <<daemonVars, want, leaving, down, troubles, sourceVars, gateVars, history>>
    BY Zenon DEF vars
  <1>2. /\ commits' = commits /\ bootId' = bootId /\ base' = base /\ serving' = serving /\ pos' = pos /\ told' = told
        /\ owed' = owed /\ want' = want /\ leaving' = leaving /\ down' = down /\ troubles' = troubles
        /\ retained' = retained /\ subs' = subs /\ open' = open /\ lastBootId' = lastBootId
        /\ buffer' = buffer /\ appliedCv' = appliedCv /\ data' = data /\ fresh' = fresh /\ cut' = cut
    BY <1>1, Zenon DEF daemonVars, sourceVars, gateVars, history
  <1>3. TypeOK'
    BY <1>0, <1>2, Zenon DEF TypeOK
  <1>4. Positions' /\ Boots' /\ Sets' /\ NoOrphanRows'
    BY <1>0, <1>2, Zenon DEF BaseInv, Positions, Boots, Sets, NoOrphanRows, Now
  <1>5. Wire' /\ WireOrder' /\ Buffer'
    BY <1>0, <1>2, Zenon DEF BaseInv, Wire, WireOrder, Buffer, Touches, Now
  <1>6. Shown'
    BY <1>0, <1>2, Zenon DEF BaseInv, Shown, Touching
  <1>7. BaseInv'
    BY <1>3, <1>4, <1>5, <1>6, Zenon DEF BaseInv
  <1>8. ASSUME NEW s \in Stream PROVE Epoch(s)'
    <2>1. Mine(s) /\ Same(s)
      BY <1>2, BufferSame, Zenon DEF Mine, Active
    <2>2. UNCHANGED <<daemonVars, down, cut>>
      BY <1>1, <1>2, Zenon
    <2> QED
      BY <1>2, <1>7, <2>1, <2>2, StillEpoch, Zenon
  <1> QED
    BY <1>7, <1>8, GateParts, Zenon DEF GateInv, BaseInv

(* Every step keeps the invariant. *)
LEMMA NextGate ==
  ASSUME GateInv, Next
  PROVE  GateInv'
  <1>0. BaseInv
    BY GateParts
  <1>1. SUFFICES BaseInv' /\ \A s \in Stream : Epoch(s)'
    BY Zenon DEF GateInv, BaseInv
  <1>2. CASE Commit
    BY <1>0, <1>2, CommitBase, CommitEpoch, Zenon
  <1>3. CASE Progress
    BY <1>0, <1>3, ProgressBase, ProgressEpoch, Zenon
  <1>4. ASSUME NEW t \in Stream, Serve(t) PROVE BaseInv' /\ \A s \in Stream : Epoch(s)'
    BY <1>0, <1>4, ServeBase, ServeEpoch, Zenon
  <1>5. ASSUME NEW t \in Stream, Unserve(t) PROVE BaseInv' /\ \A s \in Stream : Epoch(s)'
    BY <1>0, <1>5, UnserveBase, UnserveEpoch, Zenon
  <1>6. ASSUME NEW t \in Stream, Derive(t) PROVE BaseInv' /\ \A s \in Stream : Epoch(s)'
    BY <1>0, <1>6, DeriveBase, DeriveEpoch, Zenon
  <1>7. ASSUME NEW t \in Stream, Fault(t) PROVE BaseInv' /\ \A s \in Stream : Epoch(s)'
    BY <1>0, <1>7, FaultBase, FaultEpoch, Zenon
  <1>8. CASE OnHello
    BY <1>0, <1>8, OnHelloBase, OnHelloEpoch, Zenon
  <1>9. CASE OnData
    BY <1>0, <1>9, OnDataBase, OnDataEpoch, Zenon
  <1>10. CASE OnProgress
    BY <1>0, <1>10, OnProgressBase, OnProgressEpoch, Zenon
  <1>11. CASE OnQueryError
    BY <1>0, <1>11, OnQueryErrorBase, OnQueryErrorEpoch, Zenon
  <1>12. ASSUME NEW q \in Query, ReleaseQuery(q) PROVE BaseInv' /\ \A s \in Stream : Epoch(s)'
    BY <1>0, <1>12, ReleaseQueryBase, ReleaseQueryEpoch, Zenon
  <1>13. ASSUME NEW q \in Query, RetainQuery(q) PROVE BaseInv' /\ \A s \in Stream : Epoch(s)'
    BY <1>0, <1>13, RetainQueryBase, RetainQueryEpoch, Zenon
  <1>14. CASE Reconnect
    BY <1>0, <1>14, ReconnectBase, ReconnectEpoch, Zenon
  <1> QED
    BY <1>2, <1>3, <1>4, <1>5, <1>6, <1>7, <1>8, <1>9, <1>10, <1>11, <1>12, <1>13, <1>14, Zenon
    DEF Next, Daemon, Client

(* The inductive invariant of the gate. *)
LEMMA GateAlways == Spec => []GateInv
  <1>1. Init => GateInv
    BY InitGate
  <1>2. GateInv /\ [Next]_vars => GateInv'
    BY NextGate, StutterGate
  <1> QED
    BY <1>1, <1>2, PTL DEF Spec

(* The daemon, the wire, the source and the gate keep their types. *)
THEOREM GateTypes == Spec => []TypeOK
  BY GateAlways, PTL DEF GateInv

(* A query the application gave up leaves no rows behind: unregisterQuery sweeps its  *)
(* buffered frames and drops its rows, and no frame of it still on the wire, nor one  *)
(* another stream's overflow, error or restart brings back, is folded afterwards.     *)
THEOREM OrphansNever == Spec => []NoOrphanRows
  BY GateAlways, PTL DEF GateInv

-----------------------------------------------------------------------------
(* The refinement: what each step does to the log, the cut, the live streams   *)
(* and what they show.                                                         *)
LEMMA ReleaseStep ==
  ASSUME GateInv, GateInv', OnProgress
  PROVE  Replica!Release
  <1>0. BaseInv /\ BaseInv' /\ TypeOK /\ Positions /\ TypeOK' /\ Shown'
    BY Zenon DEF GateInv, BaseInv
  <1>1. PICK c, p : Releases(c, p)
    BY <1>0, OnProgressReleases, Zenon
  <1>2. /\ Takes /\ lastBootId = bootId /\ c \in Nat /\ p \in Nat /\ c + base = p /\ cut <= p /\ p <= told
        /\ cut' = p /\ data' = [s \in Stream |-> Fold(s, c)] /\ fresh \subseteq fresh'
    BY <1>1, Zenon DEF Releases
  <1>3. commits' = commits
    BY <1>2, Zenon DEF Takes
  <1>4. cut' \in cut..Len(commits)
    <2>1. cut \in Nat /\ told \in Nat /\ Now \in Nat /\ told <= Now
      BY <1>0, Types, Zenon DEF Positions
    <2> QED
      BY <1>2, <2>1, SMT DEF Now
  <1>5. ASSUME NEW s \in Stream
        PROVE  IF s \in fresh' THEN data'[s] = Touching(s, cut)'
                               ELSE data[s] \subseteq data'[s] /\ data'[s] \subseteq Touching(s, cut)'
    <2>1. s \in fresh' => data'[s] = Touching(s, cut)'
      BY Zenon DEF GateInv, Epoch, Current
    <2>2. data'[s] = Fold(s, c)
      BY <1>2
    <2>3. data[s] \subseteq data'[s]
      BY <1>0, <1>2, <2>2, FoldBounds, Zenon
    <2>4. data'[s] \subseteq Touching(s, cut)'
      BY <1>0, Zenon DEF Shown
    <2> QED
      BY <2>1, <2>3, <2>4, Zenon
  <1>6. ASSUME NEW s \in Stream
        PROVE  IF s \in fresh' THEN data'[s] = Replica!Upto(s, cut')
                               ELSE data[s] \subseteq data'[s] /\ data'[s] \subseteq Replica!Upto(s, cut')
    <2>1. Touching(s, cut)' = Replica!Upto(s, cut')
      BY <1>3, Zenon DEF Replica!Upto, Touching
    <2> QED
      BY <1>5, <2>1, Zenon
  <1> QED
    BY <1>2, <1>3, <1>4, <1>6, Zenon DEF Replica!Release

(* A commit is a commit of the replica. *)
LEMMA CommitStep ==
  ASSUME Commit
  PROVE  Replica!Commit
  <1>1. PICK touched \in SUBSET Stream \ {{}} : commits' = Append(commits, touched)
    BY Zenon DEF Commit
  <1>2. UNCHANGED <<gateVars, history>>
    BY Zenon DEF Commit
  <1> QED
    BY <1>1, <1>2, Zenon DEF Replica!Commit, gateVars, history

(* A hello, a buffered frame, an error or a dropped socket shows nothing new. *)
LEMMA SuspendStep ==
  ASSUME OnHello \/ OnData \/ OnQueryError \/ Reconnect
  PROVE  Replica!Suspend
  <1>1. commits' = commits /\ cut' = cut /\ data' = data
    BY Zenon DEF OnHello, OnData, OnQueryError, Reconnect, daemonVars, gateVars
  <1>2. fresh' \subseteq fresh
    <2>1. CASE OnHello
      BY <2>1, Zenon DEF OnHello
    <2>2. CASE OnData
      BY <2>2, Zenon DEF OnData, Overflow
    <2>3. CASE OnQueryError
      BY <2>3, Zenon DEF OnQueryError
    <2>4. CASE Reconnect
      BY <2>4, Zenon DEF Reconnect
    <2> QED
      BY <2>1, <2>2, <2>3, <2>4
  <1> QED
    BY <1>1, <1>2, Zenon DEF Replica!Suspend

(* Releasing a query drops its rows. *)
LEMMA DropStep ==
  ASSUME NEW q \in Query, ReleaseQuery(q)
  PROVE  q \in Stream /\ Replica!Drop(q)
  <1>1. fresh' = fresh \ {q} /\ data' = [data EXCEPT ![q] = {}] /\ commits' = commits /\ cut' = cut
    BY Zenon DEF ReleaseQuery, daemonVars
  <1> QED
    BY <1>1, Zenon DEF Replica!Drop, Stream

(* The other steps of the daemon and retaining a query are not visible. *)
LEMMA QuietStep ==
  ASSUME \/ Progress
         \/ \E s \in Stream : Serve(s) \/ Unserve(s) \/ Derive(s) \/ Fault(s)
         \/ \E q \in Query : RetainQuery(q)
         \/ UNCHANGED vars
  PROVE  UNCHANGED Replica!vars
  <1>1. UNCHANGED <<gateVars, history>> /\ commits' = commits
    <2>1. CASE Progress
      BY <2>1, Zenon DEF Progress
    <2>2. ASSUME NEW s \in Stream, Serve(s) \/ Unserve(s) \/ Derive(s) \/ Fault(s)
          PROVE  UNCHANGED <<gateVars, history>> /\ commits' = commits
      BY <2>2, Zenon DEF Serve, Unserve, Derive, Fault
    <2>3. ASSUME NEW q \in Query, RetainQuery(q) PROVE UNCHANGED <<gateVars, history>> /\ commits' = commits
      BY <2>3, Zenon DEF RetainQuery, daemonVars
    <2>4. CASE UNCHANGED vars
      BY <2>4, Zenon DEF vars, daemonVars
    <2> QED
      BY <2>1, <2>2, <2>3, <2>4, Zenon
  <1>2. cut' = cut /\ fresh' = fresh /\ data' = data
    BY <1>1, Zenon DEF gateVars, history
  <1> QED
    BY <1>1, <1>2, Zenon DEF Replica!vars

(* Every step is a step of the replica, or stutters. *)
LEMMA StepRefines ==
  ASSUME GateInv, GateInv', [Next]_vars
  PROVE  [Replica!Next]_(Replica!vars)
  <1>1. CASE Commit
    BY <1>1, CommitStep, Zenon DEF Replica!Next
  <1>2. CASE OnProgress
    BY <1>2, ReleaseStep, Zenon DEF Replica!Next
  <1>3. CASE OnHello \/ OnData \/ OnQueryError \/ Reconnect
    BY <1>3, SuspendStep, Zenon DEF Replica!Next
  <1>4. ASSUME NEW q \in Query, ReleaseQuery(q) PROVE Replica!Next
    BY <1>4, DropStep, Zenon DEF Replica!Next
  <1>5. CASE \/ Progress
             \/ \E s \in Stream : Serve(s) \/ Unserve(s) \/ Derive(s) \/ Fault(s)
             \/ \E q \in Query : RetainQuery(q)
             \/ UNCHANGED vars
    BY <1>5, QuietStep, Zenon
  <1> QED
    BY <1>1, <1>2, <1>3, <1>4, <1>5, Zenon DEF Next, Daemon, Client

(* The initial state is one of the replica. *)
LEMMA InitRefines ==
  ASSUME Init
  PROVE  Replica!Init
  BY Zenon DEF Init, Replica!Init

(* The gate implements the abstract replica of CutReplica: whatever the buffer cap,   *)
(* the queries and the order of commits, faults, drops, restarts, retains and         *)
(* releases, onGateProgress moves the client from one consistent cut to a later one,  *)
(* every stream whose snapshot was released shows exactly the commits of that cut,    *)
(* and no overflow, error, reconnect or restart takes back what was shown.            *)
THEOREM GateRefines == Spec => IsReplica
  <1>1. Init => Replica!Init
    BY InitRefines
  <1>2. GateInv /\ GateInv' /\ [Next]_vars => [Replica!Next]_(Replica!vars)
    BY StepRefines
  <1> QED
    BY <1>1, <1>2, GateAlways, PTL DEF Spec, IsReplica, Replica!Spec

=============================================================================
