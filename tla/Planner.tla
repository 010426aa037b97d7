------------------------------ MODULE Planner ------------------------------
(* The cost-based planner (rindle-planner): which EXISTS of a query are       *)
(* flipped, so that the child drives the join.  The flip of a condition is    *)
(* optional here; the builder reads an absent one as FALSE.  Costs are exact  *)
(* fractions <<n, d>> where the code has floats, and the cost model answers   *)
(* whole numbers of rows and a whole fanout.                                  *)
EXTENDS QueryAst

CONSTANTS MaxFlippable,   \* MAX_FLIPPABLE_JOINS
          PlanChunk,      \* the chunk size of a flipped join's parent fetches
          (* The functions of these names, as the model gives them. *)
          DoPlansOf(_, _), DoCheaper(_, _, _, _)

VARIABLES toPlan, costModel, planned

planVars == <<toPlan, costModel, planned>>

-----------------------------------------------------------------------------
(* Fractions. *)
RECURSIVE Gcd(_, _)
Gcd(a, b) == IF b = 0 THEN a ELSE Gcd(b, a % b)

Ratio(n, d) == LET g == Gcd(n, d) IN IF n = 0 THEN <<0, 1>> ELSE <<n \div g, d \div g>>

Whole(n) == <<n, 1>>

Plus(a, b) == Ratio(a[1] * b[2] + b[1] * a[2], a[2] * b[2])

Minus(a, b) == Ratio(a[1] * b[2] - b[1] * a[2], a[2] * b[2])

Times(a, b) == Ratio(a[1] * b[1], a[2] * b[2])

Over(a, b) == Ratio(a[1] * b[2], a[2] * b[1])

Below(a, b) == a[1] * b[2] < b[1] * a[2]

Smaller(a, b) == IF Below(b, a) THEN b ELSE a

Larger(a, b) == IF Below(a, b) THEN b ELSE a

Power(a, n) == FoldLeft(Times, Whole(1), [i \in 1..n |-> a])

CeilOver(a, n) == (a[1] + a[2] * n - 1) \div (a[2] * n)

Complement(a) == Minus(Whole(1), a)

-----------------------------------------------------------------------------
(* The cost model: rows of a table, fewer when filtered, less a cut for every *)
(* column of the constraint.                                                  *)
Estimate(m, t, filters, constraint) ==
  LET columns == IF IsSome(constraint) THEN Len(The(constraint)) ELSE 0
      all == IF IsSome(filters) THEN m.filtered[t] ELSE m.rows[t]
  IN [startup |-> Whole(m.startup[t]), rows |-> Whole(Max({1, all - columns * m.cut}))]

(* The structural inputs the memo compares. *)
MemoKey(t, sort, filters, constraint) == <<t, sort, filters, constraint>>

(* The memoising wrapper: answers from the memo, else asks and remembers. *)
CachedEstimate(g, t, sort, filters, constraint) ==
  LET key == MemoKey(t, sort, filters, constraint)
      cost == Estimate(g.model, t, filters, constraint)
  IN IF key \in DOMAIN g.memo THEN [e |-> g.memo[key], g |-> g]
     ELSE [e |-> cost, g |-> [g EXCEPT !.memo = @ @@ (key :> cost)]]

(* The columns of a, then the new ones of b. *)
MergeColumns(a, b) ==
  IF ~IsSome(a) THEN b
  ELSE IF ~IsSome(b) THEN a
  ELSE Some(FoldLeft(PushUnique, The(a), The(b)))

-----------------------------------------------------------------------------
(* The graph: its nodes in order of creation, and the memo of the model. *)
NewPlanGraph(m) == [nodes |-> <<>>, memo |-> <<>>, model |-> m, nextId |-> 0]

AddPlanNode(g, node) == [g EXCEPT !.nodes = Append(@, node)]

Newest(g) == Len(g.nodes)

IdsOf(g, kind) == SelectSeq([i \in DOMAIN g.nodes |-> i], LAMBDA i : g.nodes[i].k = kind)

(* A connection with its selectivity: only an EXISTS child with filters has one. *)
ConnectPlan(g, t, sort, filters, root, base, limit) ==
  LET with == CachedEstimate(g, t, sort, filters, None)
      without == CachedEstimate(with.g, t, sort, None, None)
      measured == IsSome(limit) /\ IsSome(filters)
  IN AddPlanNode(IF measured THEN without.g ELSE g,
       [k |-> "conn", table |-> t, sort |-> sort, filters |-> filters, root |-> root,
        base |-> base, baseLimit |-> limit, limit |-> limit,
        sel |-> IF measured THEN Over(with.e.rows, without.e.rows) ELSE Whole(1),
        cons |-> <<>>, cached |-> <<>>, out |-> 0])

(* One source serves all the connections of a table. *)
SourceConnect(g, sub, limit) == ConnectPlan(g, sub.table, sub.order, sub.where, FALSE, None, limit)

NewFanOut(input) == [k |-> "fanout", input |-> input, outs |-> <<>>, union |-> FALSE]

NewFanIn(inputs) == [k |-> "fanin", inputs |-> inputs, out |-> 0, union |-> FALSE]

NewTerminus(input) == [k |-> "terminus", input |-> input]

NewPlanJoin(parent, child, pc, cc, id, kind) ==
  [k |-> "join", parent |-> parent, child |-> child, pc |-> pc, cc |-> cc, id |-> id, out |-> 0,
   flippable |-> kind.flippable, init |-> kind.flipped, type |-> kind.flipped]

FlipJoin(n) == [n EXCEPT !.type = TRUE]

(* An output replaces the one before, and adds a branch to a fan-out. *)
WireOutput(g, from, to) ==
  IF g.nodes[from].k = "fanout"
  THEN [g EXCEPT !.nodes[from].outs = Append(@, to)]
  ELSE [g EXCEPT !.nodes[from].out = to]

StoreConstraint(g, id, path, c) ==
  [g EXCEPT !.nodes[id] = [@ EXCEPT !.cons = (path :> c) @@ @, !.cached = <<>>]]

(* Cost of a scan, remembered by branch: not by selectivity. *)
EstimateConnection(g, id, sel, path) ==
  LET n == g.nodes[id]
      own == IF path \in DOMAIN n.cons THEN n.cons[path] ELSE None
      m == CachedEstimate(g, n.table, n.sort, n.filters, MergeColumns(n.base, own))
      cost == [startup |-> m.e.startup, cost |-> Whole(0), rows |-> m.e.rows, sel |-> n.sel,
               limit |-> n.limit, table |-> n.table,
               scan |-> IF IsSome(n.limit)
                        THEN Smaller(m.e.rows, Over(Whole(The(n.limit)), sel)) ELSE m.e.rows]
  IN IF path \in DOMAIN n.cached THEN [c |-> n.cached[path], g |-> g]
     ELSE [c |-> cost, g |-> [m.g EXCEPT !.nodes[id].cached = @ @@ (path :> cost)]]

Unlimit(g, id) == IF g.nodes[id].root THEN g ELSE [g EXCEPT !.nodes[id].limit = None]

(* Back to what construction left. *)
ResetConnection(n) == [n EXCEPT !.cons = <<>>, !.limit = n.baseLimit, !.cached = <<>>]

ResetJoin(n) == [n EXCEPT !.type = n.init]

ResetFan(n) == [n EXCEPT !.union = FALSE]

ResetNode(n) ==
  CASE n.k = "conn" -> ResetConnection(n)
    [] n.k = "join" -> ResetJoin(n)
    [] n.k \in {"fanout", "fanin"} -> ResetFan(n)
    [] OTHER -> n

ResetPlanningState(g) == [g EXCEPT !.nodes = [i \in DOMAIN @ |-> ResetNode(@[i])]]

-----------------------------------------------------------------------------
(* From the query to the graph.  A step of the builder returns the graph and  *)
(* the node where the flow now ends.                                          *)
RECURSIVE HasCorrelatedSubquery(_)
HasCorrelatedSubquery(cond) ==
  \/ cond.k = "csq"
  \/ IsJunction(cond) /\ \E i \in DOMAIN cond.conds : HasCorrelatedSubquery(cond.conds[i])

(* A column named twice counts once. *)
ExtractConstraint(fields) == FoldLeft(PushUnique, <<>>, fields)

RECURSIVE ProcessCondition(_, _, _)

ProcessAnd(g, conds, input) ==
  FoldLeft(LAMBDA b, c : ProcessCondition(b.g, c, b.end), [g |-> g, end |-> input], conds)

(* Only the branches with a subquery take part in the fan.  A branch is wired *)
(* to the fan-out both by the node that reads it and by its end.              *)
ProcessOr(g, conds, input) ==
  LET forked == SelectSeq(conds, HasCorrelatedSubquery)
      added == AddPlanNode(g, NewFanOut(input))
      fo == Newest(added)
      branch(b, c) == LET r == ProcessCondition(b.g, c, fo)
                      IN [g |-> WireOutput(r.g, fo, r.end), ends |-> Append(b.ends, r.end)]
      all == FoldLeft(branch, [g |-> WireOutput(added, input, fo), ends |-> <<>>], forked)
      merge(b) == LET merged == AddPlanNode(b.g, NewFanIn(b.ends))
                      fi == Newest(merged)
                  IN [g |-> FoldLeft(LAMBDA h, e : WireOutput(h, e, fi), merged, b.ends),
                      end |-> fi]
  IN IF forked = <<>> THEN [g |-> g, end |-> input] ELSE Given(all, merge)

(* NOT EXISTS never flips, and a flip the query asks for is not the planner's. *)
JoinKind(c) == [flippable |-> ~c.not /\ c.flip = None, flipped |-> ~c.not /\ c.flip = Some(TRUE)]

(* The identity is given after the conditions of the child. *)
ProcessCorrelatedSubquery(g, c, input) ==
  LET sub == c.rel.sub
      conn == SourceConnect(g, sub, IF c.not THEN None ELSE Some(1))
      child == IF IsSome(sub.where) THEN ProcessCondition(conn, The(sub.where), Newest(conn))
               ELSE [g |-> conn, end |-> Newest(conn)]
      node == NewPlanJoin(input, child.end, ExtractConstraint(c.rel.pf),
                          ExtractConstraint(c.rel.cf), child.g.nextId, JoinKind(c))
      joined == AddPlanNode([child.g EXCEPT !.nextId = @ + 1], node)
      j == Newest(joined)
  IN [g |-> WireOutput(WireOutput(joined, input, j), child.end, j), end |-> j]

ProcessCondition(g, c, input) ==
  Given(g, LAMBDA h :
    CASE c.k = "simple" -> [g |-> h, end |-> input]
      [] c.k = "and" -> ProcessAnd(h, c.conds, input)
      [] c.k = "or" -> ProcessOr(h, c.conds, input)
      [] c.k = "csq" -> ProcessCorrelatedSubquery(h, c, input))

(* The terminus is the last node.  Every relationship has a plan of its own. *)
RECURSIVE BuildPlanGraph(_, _, _)
BuildPlanGraph(ast, m, base) ==
  LET conn == ConnectPlan(NewPlanGraph(m), ast.table, ast.order, ast.where, TRUE, base, ast.limit)
      built == IF IsSome(ast.where) THEN ProcessCondition(conn, The(ast.where), 1)
               ELSE [g |-> conn, end |-> 1]
      done == AddPlanNode(built.g, NewTerminus(built.end))
      sub(rel) == BuildPlanGraph(rel.sub, m, Some(ExtractConstraint(rel.cf)))
  IN [plan |-> WireOutput(done, built.end, Newest(done)),
      subs |-> [i \in DOMAIN ast.related |->
                  [alias |-> ast.related[i].sub.alias, plans |-> sub(ast.related[i])]]]

-----------------------------------------------------------------------------
(* Costs flow from the connections to the terminus. *)
LimitScan(rows, limit, sel) ==
  IF ~IsSome(limit) THEN rows
  ELSE Smaller(rows, IF sel = Whole(0) THEN sel ELSE Over(Whole(The(limit)), sel))

(* A semi-join probes the child for every parent row; a flipped one scans the *)
(* child and fetches parents in chunks.                                       *)
CombineCost(flipped, sel, child, parent) ==
  LET rows == Times(parent.rows, IF flipped THEN child.rows ELSE child.sel)
      probes == Times(parent.scan, Plus(child.startup, Plus(child.cost, child.scan)))
      fetches == Plus(Times(Whole(CeilOver(child.scan, PlanChunk)), parent.startup),
                      Times(child.scan, Plus(parent.cost, parent.scan)))
  IN [parent EXCEPT
        !.startup = IF flipped THEN child.startup ELSE @,
        !.scan = LimitScan(IF flipped THEN rows ELSE parent.rows, parent.limit, sel),
        !.cost = IF flipped THEN Plus(child.cost, fetches) ELSE Plus(@, probes),
        !.rows = rows,
        !.sel = Times(@, child.sel)]

(* The costs of the branches of an OR: the largest when one fetch serves them *)
(* all, the sum when every branch fetches for itself.                         *)
MergeBranches(union, costs) ==
  LET merge(a, b) == IF union THEN Plus(a, b) ELSE Larger(a, b)
      over(Field(_)) == FoldLeft(LAMBDA a, c : merge(a, Field(c)), Whole(0), costs)
  IN [Last(costs) EXCEPT
        !.startup = over(LAMBDA c : c.startup),
        !.scan = over(LAMBDA c : c.scan),
        !.cost = over(LAMBDA c : c.cost),
        !.rows = over(LAMBDA c : c.rows),
        !.sel = Complement(FoldLeft(LAMBDA a, c : Times(a, Complement(c.sel)), Whole(1), costs))]

(* The branch a fan-in gives its i-th input. *)
BranchOf(fanin, i, path) == <<IF fanin.union THEN i - 1 ELSE 0>> \o path

RECURSIVE EstimateCost(_, _, _, _)

EstimateJoin(g, n, sel, path) ==
  LET child == EstimateCost(g, n.child, Whole(1), path)
      fanout == g.model.fanout[child.c.table]
      scaled == Complement(Power(Complement(child.c.sel), fanout))
      parent == EstimateCost(child.g, n.parent, IF n.type THEN sel ELSE Times(scaled, sel), path)
  IN [c |-> CombineCost(n.type, sel, child.c, parent.c), g |-> parent.g]

EstimateFanIn(g, n, sel, path) ==
  LET branch(acc, i) == LET r == EstimateCost(acc.g, n.inputs[i], sel, BranchOf(n, i, path))
                        IN [costs |-> Append(acc.costs, r.c), g |-> r.g]
      all == FoldLeft(branch, [costs |-> <<>>, g |-> g], [i \in DOMAIN n.inputs |-> i])
  IN [c |-> MergeBranches(n.union, all.costs), g |-> all.g]

EstimateCost(g, id, sel, path) ==
  LET n == g.nodes[id]
  IN CASE n.k = "conn" -> EstimateConnection(g, id, sel, path)
       [] n.k = "join" -> EstimateJoin(g, n, sel, path)
       [] n.k = "fanout" -> EstimateCost(g, n.input, sel, path)
       [] n.k = "fanin" -> EstimateFanIn(g, n, sel, path)
       [] n.k = "terminus" -> EstimateCost(g, n.input, Whole(1), <<>>)

(* The cost of the plan the graph now holds. *)
GetTotalCost(g) ==
  LET e == EstimateCost(g, Newest(g), Whole(1), <<>>)
  IN [g |-> e.g, cost |-> Plus(e.c.cost, e.c.startup)]

-----------------------------------------------------------------------------
(* Constraints flow from the terminus to the connections.  A flipped join     *)
(* translates what it receives to the columns of its child, by position.      *)
TranslateConstraints(incoming, pc, cc) ==
  LET known == SelectSeq(OrElse(incoming, Some(<<>>))[1], LAMBDA c : c \in Range(pc))
      at(c) == CHOOSE i \in DOMAIN pc : pc[i] = c
      kept == SelectSeq(known, LAMBDA c : at(c) \in DOMAIN cc)
      mapped == FoldLeft(PushUnique, <<>>, [i \in DOMAIN kept |-> cc[at(kept[i])]])
  IN IF mapped = <<>> THEN None ELSE Some(mapped)

RECURSIVE PropagateConstraints(_, _, _, _)
PropagateConstraints(g, id, path, c) ==
  LET n == g.nodes[id]
      into(h, i) == PropagateConstraints(h, n.inputs[i], BranchOf(n, i, path), c)
  IN CASE n.k = "conn" -> StoreConstraint(g, id, path, c)
       [] n.k = "join" ->
            LET down == PropagateConstraints(g, n.child, path,
                          IF n.type THEN TranslateConstraints(c, n.pc, n.cc) ELSE Some(n.cc))
            IN PropagateConstraints(down, n.parent, path,
                 IF n.type THEN MergeColumns(c, Some(n.pc)) ELSE c)
       [] n.k = "fanout" -> PropagateConstraints(g, n.input, path, c)
       [] n.k = "fanin" -> FoldLeft(into, g, [i \in DOMAIN n.inputs |-> i])
       [] n.k = "terminus" -> PropagateConstraints(g, n.input, <<>>, None)

PropagateFromTerminus(g) == PropagateConstraints(g, Newest(g), <<>>, None)

(* The outer loop of a flipped join produces all its rows. *)
RECURSIVE UnlimitChain(_, _)
UnlimitChain(g, id) ==
  LET n == g.nodes[id]
  IN CASE n.k = "conn" -> Unlimit(g, id)
       [] n.k = "join" -> UnlimitChain(g, n.parent)
       [] n.k = "fanout" -> UnlimitChain(g, n.input)
       [] n.k = "fanin" -> FoldLeft(UnlimitChain, g, n.inputs)
       [] n.k = "terminus" -> g

UnlimitFlippedJoins(g) ==
  FoldLeft(LAMBDA h, j : IF h.nodes[j].type THEN UnlimitChain(h, h.nodes[j].child) ELSE h,
           g, IdsOf(g, "join"))

-----------------------------------------------------------------------------
(* The fan-in of a fan-out and the joins between: a breadth-first walk over   *)
(* the outputs that stops at every fan-in and keeps the last one it met.      *)
RECURSIVE FindFiAndJoins(_, _, _, _, _)
FindFiAndJoins(g, queue, visited, fi, joins) ==
  IF queue = <<>> THEN [fi |-> fi, joins |-> joins]
  ELSE LET id == Head(queue)
           n == g.nodes[id]
           seen == visited \cup {id}
       IN CASE id \in visited -> FindFiAndJoins(g, Tail(queue), visited, fi, joins)
            [] id \notin visited /\ n.k = "join" ->
                 FindFiAndJoins(g, Append(Tail(queue), n.out), seen, fi, joins \cup {id})
            [] id \notin visited /\ n.k = "fanout" ->
                 FindFiAndJoins(g, Tail(queue) \o n.outs, seen, fi, joins)
            [] id \notin visited /\ n.k = "fanin" ->
                 FindFiAndJoins(g, Tail(queue), seen, Some(id), joins)
            [] OTHER -> FindFiAndJoins(g, Tail(queue), seen, fi, joins)

BuildFofiCache(g) ==
  [i \in DOMAIN IdsOf(g, "fanout") |->
     LET fo == IdsOf(g, "fanout")[i]
     IN [fo |-> fo, to |-> FindFiAndJoins(g, g.nodes[fo].outs, {}, None, {})]]

ConvertToUnion(n) == [n EXCEPT !.union = TRUE]

(* A flipped join between the two makes every branch fetch for itself. *)
CheckAndConvertFofi(g, cache) ==
  LET convert(h, e) ==
        IF IsSome(e.to.fi) /\ \E j \in e.to.joins : h.nodes[j].type
        THEN [h EXCEPT !.nodes[e.fo] = ConvertToUnion(@), !.nodes[The(e.to.fi)] = ConvertToUnion(@)] ELSE h
  IN FoldLeft(convert, g, cache)

(* The cost of one choice of flips, from whatever the pattern before left. *)
TryPattern(g, cache, flips) ==
  LET reset == ResetPlanningState(g)
      applied == [reset EXCEPT !.nodes = [i \in DOMAIN @ |->
                    IF i \in flips THEN FlipJoin(@[i]) ELSE @[i]]]
      routed == UnlimitFlippedJoins(CheckAndConvertFofi(applied, cache))
  IN Given(Given(routed, PropagateFromTerminus), GetTotalCost)

CapturePlanningSnapshot(g) == g.nodes

(* Joins and connections go back to the snapshot; a fan is only ever upgraded. *)
RestorePlanningSnapshot(g, saved) ==
  LET back(n, old) ==
        CASE n.k = "conn" -> [n EXCEPT !.limit = old.limit, !.cons = old.cons, !.cached = <<>>]
          [] n.k = "join" -> IF old.type /\ ~n.init THEN FlipJoin(ResetJoin(n)) ELSE ResetJoin(n)
          [] n.k \in {"fanout", "fanin"} -> IF old.union THEN ConvertToUnion(n) ELSE n
          [] OTHER -> n
  IN [g EXCEPT !.nodes = [i \in DOMAIN @ |-> back(@[i], saved[i])]]

(* The joins the i-th bit of the pattern stands for. *)
FlipsOf(pattern, flippable) ==
  {flippable[i] : i \in {j \in DOMAIN flippable : (pattern \div 2^(j - 1)) % 2 = 1}}

(* Tries every pattern in order and keeps the first of the cheapest. *)
PlanGraph(g) ==
  LET flippable == SelectSeq(IdsOf(g, "join"), LAMBDA j : g.nodes[j].flippable)
      cache == BuildFofiCache(g)
      try(acc, p) ==
        LET t == TryPattern(acc.g, cache, FlipsOf(p, flippable))
        IN IF ~IsSome(acc.best) \/ Below(t.cost, acc.cost)
           THEN [g |-> t.g, cost |-> t.cost, best |-> Some(CapturePlanningSnapshot(t.g))]
           ELSE [acc EXCEPT !.g = t.g]
      end == FoldLeft(try, [g |-> g, cost |-> Whole(0), best |-> None],
                      [i \in 1..2^Len(flippable) |-> i - 1])
  IN IF Len(flippable) > MaxFlippable \/ flippable = <<>> THEN g
     ELSE PropagateFromTerminus(RestorePlanningSnapshot(end.g, The(end.best)))

RECURSIVE PlanRecursively(_)
PlanRecursively(plans) ==
  [plan |-> PlanGraph(plans.plan),
   subs |-> [i \in DOMAIN plans.subs |-> [plans.subs[i] EXCEPT !.plans = PlanRecursively(@)]]]

-----------------------------------------------------------------------------
(* From the graph back to the query.  The identities are counted again, by    *)
(* the same walk over the conditions.                                         *)
FlippedJoinPlanIds(g) ==
  {g.nodes[j].id : j \in {i \in DOMAIN g.nodes : g.nodes[i].k = "join" /\ g.nodes[i].type}}

RECURSIVE ApplyToCondition(_, _, _)

ApplyToAll(conds, flipped, n) ==
  FoldLeft(LAMBDA acc, c : LET r == ApplyToCondition(c, flipped, acc.n)
                           IN [conds |-> Append(acc.conds, r.c), n |-> r.n],
           [conds |-> <<>>, n |-> n], conds)

\* Mutant: a condition takes its identity before the conditions of its child.
ApplyToExistsFirst(c, flipped, n) ==
  LET inner == ApplyToAll(c.rel.sub.where, flipped, n + 1)
  IN [c |-> [c EXCEPT !.flip = Some(n \in flipped), !.rel.sub.where = inner.conds],
      n |-> inner.n]

(* A condition takes its identity after the conditions of its child. *)
ApplyToExists(c, flipped, n) ==
  LET inner == ApplyToAll(c.rel.sub.where, flipped, n)
  IN [c |-> [c EXCEPT !.flip = Some(inner.n \in flipped), !.rel.sub.where = inner.conds],
      n |-> inner.n + 1]

ApplyToCondition(c, flipped, n) ==
  CASE c.k = "simple" -> [c |-> c, n |-> n]
    [] c.k = "csq" -> ApplyToExists(c, flipped, n)
    [] OTHER -> LET r == ApplyToAll(c.conds, flipped, n)
                IN [c |-> [c EXCEPT !.conds = r.conds], n |-> r.n]

(* A relationship takes the first plan of its alias. *)
RECURSIVE ApplyPlansToAst(_, _)
ApplyPlansToAst(ast, plans) ==
  LET sub(rel) ==
        LET mine == SelectSeq(plans.subs, LAMBDA s : s.alias = rel.sub.alias)
        IN [rel EXCEPT !.sub = ApplyPlansToAst(@, mine[1].plans)]
  IN [ast EXCEPT !.where = ApplyToAll(@, FlippedJoinPlanIds(plans.plan), 0).conds,
                 !.related = [i \in DOMAIN @ |-> sub(@[i])]]

PlansOf(ast, m) == PlanRecursively(BuildPlanGraph(ast, m, None))

(* Whether planning could change anything: every subquery is looked into. *)
RECURSIVE HasFlippableExists(_)
HasFlippableExists(ast) ==
  \/ \E c \in Range(GatherCsqConditions(ast.where)) :
       (~c.not /\ c.flip = None) \/ HasFlippableExists(c.rel.sub)
  \/ \E i \in DOMAIN ast.related : HasFlippableExists(ast.related[i].sub)

-----------------------------------------------------------------------------
(* One query planned with one cost model. *)
PlanInit(asts, models) == toPlan \in asts /\ costModel \in models /\ planned = None

PlanQuery ==
  /\ planned = None
  /\ \E plans \in {DoPlansOf(toPlan, costModel)} : planned' = Some(ApplyPlansToAst(toPlan, plans))
  /\ UNCHANGED <<toPlan, costModel>>

(* The conditions with every subquery's flip, and those of its child, chosen  *)
(* by the set of the paths to flip; a path is a sequence of positions.        *)
RECURSIVE ForceAt(_, _, _)
ForceAt(cond, path, flips) ==
  CASE cond.k = "simple" -> cond
    [] cond.k = "csq" ->
         [cond EXCEPT !.flip = Some(path \in flips),
                      !.rel.sub.where = [i \in DOMAIN @ |-> ForceAt(@[i], Append(path, 0), flips)]]
    [] OTHER -> [cond EXCEPT !.conds =
                   [i \in DOMAIN @ |-> ForceAt(@[i], Append(path, i), flips)]]

(* The paths of the subqueries that pass the test. *)
RECURSIVE PathsOf(_, _, _)
PathsOf(cond, path, open) ==
  CASE cond.k = "simple" -> {}
    [] cond.k = "csq" ->
         (IF ~cond.not /\ (IF open THEN cond.flip = None ELSE cond.flip = Some(TRUE))
          THEN {path} ELSE {})
         \cup UNION {PathsOf(w, Append(path, 0), open) : w \in Range(cond.rel.sub.where)}
    [] OTHER -> UNION {PathsOf(cond.conds[i], Append(path, i), open) : i \in DOMAIN cond.conds}

Force(ast, flips) == [ast EXCEPT !.where = [i \in DOMAIN @ |-> ForceAt(@[i], <<>>, flips)]]

FlipPaths(ast, open) == UNION {PathsOf(c, <<>>, open) : c \in Range(ast.where)}

(* Whether a query with all its flips decided costs less than another, each   *)
(* on a graph of its own.                                                     *)
Cheaper(a, b, base, m) ==
  LET graph(ast) == BuildPlanGraph([ast EXCEPT !.related = <<>>], m, base).plan
      cost(h) == TryPattern(h, BuildFofiCache(h), {}).cost
  IN \E g \in {graph(a)}, h \in {graph(b)} : Below(cost(g), cost(h))

RECURSIVE CheapestPlan(_, _, _)
CheapestPlan(raw, done, base) ==
  LET fixed == FlipPaths(raw, FALSE)
      free == FlipPaths(raw, TRUE)
      cheaper(f, h) == DoCheaper(Force(raw, fixed \cup f), Force(raw, fixed \cup h), base, costModel)
      chosen == FlipPaths(done, FALSE) \ fixed
  IN /\ Cardinality(free) <= MaxFlippable =>
          /\ \A flips \in SUBSET free : ~cheaper(flips, chosen)
          /\ chosen # {} => cheaper(chosen, {})
     /\ \A i \in DOMAIN raw.related :
          CheapestPlan(raw.related[i].sub, done.related[i].sub,
                       Some(ExtractConstraint(raw.related[i].cf)))

(* The flips written back into the query are the cheapest of all choices: no  *)
(* other assignment, written into the query and costed on a graph of its own, *)
(* costs less, and none is flipped unless that is strictly cheaper than not   *)
(* flipping.  Behaviour: plan, which reuses one graph for all its patterns    *)
(* (graph.rs:626), and apply_to_condition, which counts again the identities  *)
(* the builder gave the joins (builder.rs:270).                               *)
PlanCheapest == IsSome(planned) => CheapestPlan(toPlan, The(planned), None)

(* A query without its planned flips. *)
RECURSIVE Bare(_, _)
Bare(ast, keep) ==
  LET erased == Force(ast, IF keep THEN FlipPaths(ast, FALSE) ELSE {})
  IN [erased EXCEPT !.related = [i \in DOMAIN @ |-> [@[i] EXCEPT !.sub = Bare(@, keep)]]]

(* Planning changes nothing but flips; it keeps the flips the query forces    *)
(* and flips no NOT EXISTS; and a query has_flippable_exists turns away would *)
(* have come back the same (builder.rs:229).                                  *)
PlanConservative ==
  IsSome(planned) =>
    LET done == The(planned)
    IN /\ Bare(done, FALSE) = Bare(toPlan, FALSE)
       /\ FlipPaths(toPlan, FALSE) \subseteq FlipPaths(done, FALSE)
       /\ FlipPaths(done, FALSE) \subseteq FlipPaths(toPlan, FALSE) \cup FlipPaths(toPlan, TRUE)
       /\ ~HasFlippableExists(toPlan) => Bare(done, TRUE) = Bare(toPlan, TRUE)

(* A plan is the cheapest and nothing but a plan. *)
PlanExact == PlanCheapest /\ PlanConservative
=============================================================================
