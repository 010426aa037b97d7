------------------------------- MODULE BTree -------------------------------
(* The copy-on-write B+tree that holds the rows of an index (btree.rs): the   *)
(* writes, the cursors and the structural diff between a tree and a fork of   *)
(* it.  A node is [leaf, keys, kids, sh]; keys are the rows of a leaf, or for *)
(* each child the greatest row below it.  sh tells that the node is the very  *)
(* object it was when the two trees were last forked: two nodes are the same  *)
(* object when both are and their values agree.  A tree is [root, size].      *)
EXTENDS Rows

CONSTANTS
  MaxNodeSize,  (* rows of a leaf, children of an internal node               *)
  TreeSort,     (* the order of the index                                     *)
  TreeRows,     (* the rows written; several may have the same sort key       *)
  TreeBounds,   (* the bounds cursors start from                              *)
  MaxTreeOps    (* writes after the fork                                      *)

VARIABLES
  tree,      (* the tree being written                                        *)
  fork,      (* its fork, written as well                                     *)
  held,      (* what tree should hold                                         *)
  heldFork,  (* what fork should hold                                         *)
  treeOps    (* writes made so far                                            *)

treeVars == <<tree, fork, held, heldFork, treeOps>>

LeafNode(keys) == [leaf |-> TRUE, keys |-> keys, kids |-> <<>>, sh |-> FALSE]

MaxKey(node) == Last(node.keys)

InternalNode(kids) ==
  [leaf |-> FALSE, keys |-> [i \in DOMAIN kids |-> MaxKey(kids[i])], kids |-> kids, sh |-> FALSE]

IsEmptyNode(node) == IF node.leaf THEN node.keys = <<>> ELSE node.kids = <<>>

(* A shared node is copied before it is written. *)
MakeMut(node) == [node EXCEPT !.sh = FALSE]

RECURSIVE MarkShared(_)
MarkShared(node) ==
  [node EXCEPT !.sh = TRUE, !.kids = [i \in DOMAIN @ |-> MarkShared(@[i])]]

EmptyTree == [root |-> LeafNode(<<>>), size |-> 0]

Fork(tr) == [tr EXCEPT !.root = MarkShared(@)]

-----------------------------------------------------------------------------
(* Searching.  right tells of each position whether the target lies beyond. *)
RECURSIVE Bisect(_, _, _)
Bisect(right, lo, hi) ==
  LET mid == (lo + hi) \div 2
  IN IF lo >= hi THEN lo
     ELSE IF right[mid] THEN Bisect(right, mid + 1, hi) ELSE Bisect(right, lo, mid)

(* The first key that is not smaller; past the end when all are. *)
LowerBound(keys, row) ==
  Bisect([i \in DOMAIN keys |-> CompareRows(TreeSort, keys[i], row) < 0], 1, Len(keys) + 1)

SearchKeys(keys, row) ==
  LET at == LowerBound(keys, row)
  IN [at |-> at, found |-> at <= Len(keys) /\ CompareRows(TreeSort, keys[at], row) = 0]

(* The child to descend into: the last one when the row is past the end. *)
ChildIndex(keys, row) ==
  LET at == LowerBound(keys, row) IN IF at > Len(keys) THEN Len(keys) ELSE at

(* The same with a bound, a partial row whose cells may be below or above     *)
(* every value.                                                               *)
LeafLowerBound(keys, bound) ==
  Bisect([i \in DOMAIN keys |-> CompareRows(TreeSort, bound, keys[i]) > 0], 1, Len(keys) + 1)

LeafUpperBound(keys, bound) ==
  Bisect([i \in DOMAIN keys |-> CompareRows(TreeSort, bound, keys[i]) >= 0], 1, Len(keys) + 1)

\* Mutant: a bound equal to a separator descends to the right of it.
ChildIndexBoundPast(keys, bound) ==
  LET at == LeafUpperBound(keys, bound) IN IF at > Len(keys) THEN Len(keys) ELSE at

ChildIndexBound(keys, bound) ==
  LET at == LeafLowerBound(keys, bound) IN IF at > Len(keys) THEN Len(keys) ELSE at

RECURSIVE FindRow(_, _)
FindRow(node, row) ==
  LET s == SearchKeys(node.keys, row)
  IN CASE node.leaf -> IF s.found THEN Some(node.keys[s.at]) ELSE None
       [] ~node.leaf /\ node.kids = <<>> -> None
       [] OTHER -> FindRow(node.kids[ChildIndex(node.keys, row)], row)

-----------------------------------------------------------------------------
(* Insertion.  A node that overflows keeps its first half; right is the new   *)
(* sibling to graft beside it.                                                *)
SplitOver(node) ==
  LET mid == Len(node.keys) \div 2
      part(a, b) == [node EXCEPT !.keys = SubSeq(@, a, b),
                                 !.kids = IF node.leaf THEN @ ELSE SubSeq(@, a, b)]
  IN IF Len(node.keys) <= MaxNodeSize THEN [node |-> node, right |-> None, new |-> TRUE]
     ELSE [node |-> part(1, mid), right |-> Some(part(mid + 1, Len(node.keys))), new |-> TRUE]

(* An equal row is overwritten; its copies in the keys above follow. *)
RECURSIVE NodeSet(_, _)
NodeSet(node, row) ==
  LET s == SearchKeys(node.keys, row)
      i == ChildIndex(node.keys, row)
      r == NodeSet(MakeMut(node.kids[i]), row)
      kept == [node EXCEPT !.kids[i] = r.node, !.keys[i] = MaxKey(r.node)]
      grafted == [kept EXCEPT !.kids = InsertAt(@, i + 1, The(r.right)),
                              !.keys = InsertAt(@, i + 1, MaxKey(The(r.right)))]
  IN CASE node.leaf /\ s.found ->
            [node |-> [node EXCEPT !.keys[s.at] = row], right |-> None, new |-> FALSE]
       [] node.leaf /\ ~s.found -> SplitOver([node EXCEPT !.keys = InsertAt(@, s.at, row)])
       [] ~node.leaf /\ IsSome(r.right) -> SplitOver(grafted)
       [] OTHER -> [node |-> kept, right |-> None, new |-> r.new]

TreeAdd(tr, row) ==
  LET r == NodeSet(MakeMut(tr.root), row)
  IN [root |-> IF IsSome(r.right) THEN InternalNode(<<r.node, The(r.right)>>) ELSE r.node,
      size |-> IF r.new THEN tr.size + 1 ELSE tr.size]

-----------------------------------------------------------------------------
(* Deletion.  Two neighbours that fit one node become one, and the seam       *)
(* between their children is tried in turn.                                   *)
RECURSIVE TryMerge(_, _)

MergeInto(left, right) ==
  LET joined == [left EXCEPT !.keys = @ \o right.keys, !.kids = @ \o right.kids]
  IN IF left.leaf THEN joined ELSE TryMerge(joined, Len(left.kids))

TryMerge(node, i) ==
  LET m == MergeInto(MakeMut(node.kids[i]), node.kids[i + 1])
  IN IF /\ i + 1 <= Len(node.kids)
        /\ Len(node.kids[i].keys) + Len(node.kids[i + 1].keys) <= MaxNodeSize
     THEN [node EXCEPT !.kids = [RemoveAt(@, i + 1) EXCEPT ![i] = m],
                       !.keys = [RemoveAt(@, i + 1) EXCEPT ![i] = MaxKey(m)]]
     ELSE node

(* An emptied child is dropped, an underfull one merged with the next. *)
TidyChild(node, j) ==
  IF j > Len(node.kids) \/ Len(node.kids[j].keys) > MaxNodeSize \div 2 THEN node
  ELSE IF IsEmptyNode(node.kids[j])
  THEN [node EXCEPT !.kids = RemoveAt(@, j), !.keys = RemoveAt(@, j)]
  ELSE TryMerge(node, j)

RECURSIVE NodeDelete(_, _)
NodeDelete(node, row) ==
  LET s == SearchKeys(node.keys, row)
      i == LowerBound(node.keys, row)
      r == NodeDelete(MakeMut(node.kids[i]), row)
      kept == [node EXCEPT !.kids[i] = r.node,
                           !.keys[i] = IF IsEmptyNode(r.node) THEN @ ELSE MaxKey(r.node)]
      tidied == IF i > 1 THEN TidyChild(TidyChild(kept, i), i - 1) ELSE TidyChild(kept, i)
  IN CASE node.leaf /\ s.found -> [node |-> [node EXCEPT !.keys = RemoveAt(@, s.at)], removed |-> TRUE]
       [] node.leaf /\ ~s.found -> [node |-> node, removed |-> FALSE]
       [] ~node.leaf /\ i > Len(node.kids) -> [node |-> node, removed |-> FALSE]
       [] OTHER -> [node |-> tidied, removed |-> r.removed]

RECURSIVE CollapseRoot(_)
CollapseRoot(node) ==
  CASE ~node.leaf /\ Len(node.kids) = 1 -> CollapseRoot(node.kids[1])
    [] ~node.leaf /\ Len(node.kids) = 0 -> LeafNode(<<>>)
    [] OTHER -> node

TreeDelete(tr, row) ==
  LET r == NodeDelete(MakeMut(tr.root), row)
  IN IF r.removed THEN [root |-> CollapseRoot(r.node), size |-> tr.size - 1]
     ELSE [tr EXCEPT !.root = r.node]

(* Bulk load: full leaves, then level after level. *)
RECURSIVE BuildLevels(_)
BuildLevels(level) ==
  LET groups == Chunks(level, MaxNodeSize)
  IN IF Len(level) = 1 THEN level[1]
     ELSE BuildLevels([i \in DOMAIN groups |-> InternalNode(groups[i])])

FromSorted(rows) ==
  LET leaves == Chunks(rows, MaxNodeSize)
  IN IF rows = <<>> THEN EmptyTree
     ELSE [root |-> BuildLevels([i \in DOMAIN leaves |-> LeafNode(leaves[i])]), size |-> Len(rows)]

-----------------------------------------------------------------------------
(* What holds of every tree between two calls. *)
RECURSIVE Depth(_)
Depth(node) == IF node.leaf THEN 0 ELSE Depth(node.kids[1]) + 1

RECURSIVE AllRows(_)
AllRows(node) ==
  IF node.leaf THEN node.keys ELSE FlattenSeq([i \in DOMAIN node.kids |-> AllRows(node.kids[i])])

StrictlySorted(keys) ==
  \A i \in 1..(Len(keys) - 1) : CompareRows(TreeSort, keys[i], keys[i + 1]) < 0

RECURSIVE WalkNode(_, _)
WalkNode(node, isRoot) ==
  /\ Len(node.keys) <= MaxNodeSize
  /\ StrictlySorted(node.keys)
  /\ IF node.leaf THEN isRoot \/ node.keys # <<>>
     ELSE /\ node.kids # <<>>
          /\ Len(node.keys) = Len(node.kids)
          /\ \A i \in DOMAIN node.kids :
               /\ WalkNode(node.kids[i], FALSE)
               /\ node.keys[i] = MaxKey(node.kids[i])
               /\ Depth(node.kids[i]) = Depth(node.kids[1])

CheckInvariants(tr) == WalkNode(tr.root, TRUE) /\ tr.size = Len(AllRows(tr.root))

-----------------------------------------------------------------------------
(* Cursors: [stack, leaf, pos], the stack holding the nodes above the leaf    *)
(* with the child taken, the leaf None when the cursor is exhausted.          *)
EmptyCursor == [stack |-> <<>>, leaf |-> None, pos |-> 1]

Deeper(c, node, i) == [c EXCEPT !.stack = Append(@, <<node, i>>)]

RECURSIVE DescendFirst(_, _)
DescendFirst(c, node) ==
  IF node.leaf THEN [c EXCEPT !.leaf = Some(node), !.pos = 1]
  ELSE DescendFirst(Deeper(c, node, 1), node.kids[1])

RECURSIVE DescendLast(_, _)
DescendLast(c, node) ==
  IF node.leaf THEN [c EXCEPT !.leaf = Some(node), !.pos = Len(node.keys)]
  ELSE DescendLast(Deeper(c, node, Len(node.kids)), Last(node.kids))

(* Up to the first node with a child left to visit, then down its near edge. *)
RECURSIVE NextLeaf(_)
NextLeaf(c) ==
  LET top == Last(c.stack)
      popped == [c EXCEPT !.stack = Front(@)]
  IN IF c.stack = <<>> THEN [c EXCEPT !.leaf = None]
     ELSE IF top[2] < Len(top[1].kids)
     THEN DescendFirst(Deeper(popped, top[1], top[2] + 1), top[1].kids[top[2] + 1])
     ELSE NextLeaf(popped)

RECURSIVE PrevLeaf(_)
PrevLeaf(c) ==
  LET top == Last(c.stack)
      popped == [c EXCEPT !.stack = Front(@)]
  IN IF c.stack = <<>> THEN [c EXCEPT !.leaf = None]
     ELSE IF top[2] > 1
     THEN DescendLast(Deeper(popped, top[1], top[2] - 1), top[1].kids[top[2] - 1])
     ELSE PrevLeaf(popped)

RECURSIVE DescendSeek(_, _, _, _)
DescendSeek(c, node, bound, inclusive) ==
  LET i == ChildIndexBound(node.keys, bound)
      at == LeafLowerBound(node.keys, bound)
      equal == at <= Len(node.keys) /\ CompareRows(TreeSort, bound, node.keys[at]) = 0
  IN IF ~node.leaf THEN DescendSeek(Deeper(c, node, i), node.kids[i], bound, inclusive)
     ELSE [c EXCEPT !.leaf = Some(node), !.pos = IF ~inclusive /\ equal THEN at + 1 ELSE at]

(* The descent is the forward one; when its leaf has nothing small enough the *)
(* greatest row of the leaf before it is the one.                             *)
RECURSIVE DescendSeekReverse(_, _, _, _)
DescendSeekReverse(c, node, bound, inclusive) ==
  LET i == ChildIndexBound(node.keys, bound)
      past == IF inclusive THEN LeafUpperBound(node.keys, bound) ELSE LeafLowerBound(node.keys, bound)
      here == [c EXCEPT !.leaf = Some(node), !.pos = past - 1]
  IN IF ~node.leaf THEN DescendSeekReverse(Deeper(c, node, i), node.kids[i], bound, inclusive)
     ELSE IF past = 1 THEN PrevLeaf(here) ELSE here

OnRow(c) == IsSome(c.leaf) /\ c.pos \in DOMAIN The(c.leaf).keys

(* A seek may end past the last row of its leaf. *)
RECURSIVE NormalizeForward(_)
NormalizeForward(c) == IF IsSome(c.leaf) /\ ~OnRow(c) THEN NormalizeForward(NextLeaf(c)) ELSE c

RECURSIVE NormalizeReverse(_)
NormalizeReverse(c) == IF IsSome(c.leaf) /\ ~OnRow(c) THEN NormalizeReverse(PrevLeaf(c)) ELSE c

StepCursor(c, reverse) ==
  LET next == [c EXCEPT !.pos = @ + 1]
  IN CASE reverse -> IF c.pos = 1 THEN PrevLeaf(c) ELSE [c EXCEPT !.pos = @ - 1]
       [] ~reverse -> IF OnRow(next) THEN next ELSE NextLeaf(next)

RECURSIVE DrainCursor(_, _)
DrainCursor(c, reverse) ==
  IF ~OnRow(c) THEN <<>>
  ELSE <<The(c.leaf).keys[c.pos]>> \o DrainCursor(StepCursor(c, reverse), reverse)

ValuesFromBound(tr, bound, inclusive) ==
  IF tr.size = 0 THEN <<>>
  ELSE DrainCursor(NormalizeForward(
         IF IsSome(bound) THEN DescendSeek(EmptyCursor, tr.root, The(bound), inclusive)
         ELSE DescendFirst(EmptyCursor, tr.root)), FALSE)

ValuesFromReversed(tr, bound, inclusive) ==
  IF tr.size = 0 THEN <<>>
  ELSE DrainCursor(NormalizeReverse(
         IF IsSome(bound) THEN DescendSeekReverse(EmptyCursor, tr.root, The(bound), inclusive)
         ELSE DescendLast(EmptyCursor, tr.root)), TRUE)

-----------------------------------------------------------------------------
(* The structural diff.  Its cursor walks down the rows and can rest on a     *)
(* node: spine holds the siblings of every level, indices the one chosen at   *)
(* each and, inside a leaf, the row.                                          *)
NewDiffCursor(tr) ==
  [height |-> Depth(tr.root), spine |-> << <<tr.root>> >>, indices |-> <<1>>, leaf |-> None,
   key |-> MaxKey(tr.root)]

CurrentNode(c) == Last(c.spine)[c.indices[Len(c.spine)]]

(* To the sibling before, of the deepest level that has one. *)
StepToNode(c) ==
  LET open == {k \in DOMAIN c.spine : c.indices[k] > 1}
      k == Max(open)
      at == c.indices[k] - 1
  IN IF open = {} THEN [ok |-> FALSE, c |-> c]
     ELSE [ok |-> TRUE,
           c |-> [c EXCEPT !.leaf = None, !.spine = SubSeq(@, 1, k),
                           !.indices = Append(SubSeq(@, 1, k - 1), at),
                           !.key = MaxKey(c.spine[k][at])]]

StepInto(c) ==
  LET node == CurrentNode(c)
  IN IF node.leaf
     THEN [c EXCEPT !.key = MaxKey(node), !.indices = Append(@, Len(node.keys)), !.leaf = Some(node)]
     ELSE [c EXCEPT !.key = MaxKey(Last(node.kids)), !.spine = Append(@, node.kids),
                    !.indices = Append(@, Len(node.kids))]

(* One step down the rows; not ok, and no move, at the far end. *)
StepDiff(c, toNode) ==
  LET at == Last(c.indices) - 1
  IN CASE toNode \/ (IsSome(c.leaf) /\ at = 0) -> StepToNode(c)
       [] ~toNode /\ IsSome(c.leaf) /\ at > 0 ->
            [ok |-> TRUE, c |-> [c EXCEPT !.indices = Append(Front(@), at),
                                          !.key = The(c.leaf).keys[at]]]
       [] OTHER -> [ok |-> TRUE, c |-> StepInto(c)]

(* Greater rows come first; of two cursors at one row the one higher up, the  *)
(* heights of the trees evened out, is behind.                                *)
CompareCursors(a, b) ==
  LET byKey == CompareRows(TreeSort, b.key, a.key)
      low == IF a.height < b.height THEN a.height ELSE b.height
      depth(c) == Len(c.indices) - (c.height - low)
  IN IF byKey # 0 THEN byKey ELSE CompareValues(depth(a), depth(b))

(* The rows from the cursor on, each turned into a change. *)
RECURSIVE StepToEnd(_, _)
StepToEnd(c, Change) ==
  LET here == IF IsSome(c.leaf) THEN <<[t |-> Change, row |-> c.key]>> ELSE <<>>
      s == StepDiff(c, FALSE)
  IN IF s.ok THEN here \o StepToEnd(s.c, Change) ELSE here

FinishWalk(c, finished, Change) ==
  LET s == StepDiff(c, FALSE)
  IN IF CompareCursors(c, finished) # 0 THEN StepToEnd(c, Change)
     ELSE IF s.ok THEN StepToEnd(s.c, Change) ELSE <<>>

SameNode(a, b) == a.sh /\ b.sh /\ a = b

(* The walk of both trees; prev is the order found one step before.  The same *)
(* shared node is passed over whole (skip); else the cursor behind moves, and *)
(* a row the other tree lacks is told.                                        *)
RECURSIVE DiffWalk(_, _, _, _)

\* Where a walk goes on: with the changes of both, or the rest of the longer one.
DiffOn(t, o, next, identity) ==
  IF t.ok /\ o.ok THEN DiffWalk(t.c, o.c, next, identity)
  ELSE (IF t.ok THEN FinishWalk(t.c, o.c, "Remove") ELSE <<>>)
       \o (IF o.ok THEN FinishWalk(o.c, t.c, "Add") ELSE <<>>)

\* Mutant: a pair of rows leaves the order found as it is, equal.
DiffPairSilent(tc, oc, identity) ==
  (IF tc.key = oc.key THEN <<>> ELSE <<SrcEdit(oc.key, tc.key)>>)
  \o DiffOn(StepDiff(tc, FALSE), StepDiff(oc, FALSE), 0, identity)

\* Two rows of one key are consumed together; the row after them is told.
DiffPair(tc, oc, identity) ==
  (IF tc.key = oc.key THEN <<>> ELSE <<SrcEdit(oc.key, tc.key)>>)
  \o DiffOn(StepDiff(tc, FALSE), StepDiff(oc, FALSE), -1, identity)

DiffWalk(tc, oc, prev, identity) ==
  LET order == CompareCursors(tc, oc)
      tl == IsSome(tc.leaf)
      ol == IsSome(oc.leaf)
      skip == order = 0 /\ ~tl /\ ~ol /\ identity /\ SameNode(CurrentNode(tc), CurrentNode(oc))
      told == CASE prev # 0 /\ order > 0 /\ ol -> <<SrcAdd(oc.key)>>
                [] prev # 0 /\ order < 0 /\ tl -> <<SrcRemove(tc.key)>>
                [] OTHER -> <<>>
      stay(c) == [ok |-> TRUE, c |-> c]
      t == IF skip \/ order < 0 THEN StepDiff(tc, skip) ELSE stay(tc)
      o == IF skip \/ order >= 0 THEN StepDiff(oc, skip) ELSE stay(oc)
  IN IF order = 0 /\ tl /\ ol THEN DiffPair(tc, oc, identity)
     ELSE told \o DiffOn(t, o, order, identity)

DiffVisit(this, other, identity) ==
  CASE this.size = 0 /\ other.size = 0 -> <<>>
    [] this.size = 0 /\ other.size > 0 -> StepToEnd(NewDiffCursor(other), "Add")
    [] this.size > 0 /\ other.size = 0 -> StepToEnd(NewDiffCursor(this), "Remove")
    [] OTHER -> LET tc == NewDiffCursor(this)
                    oc == NewDiffCursor(other)
                IN DiffWalk(tc, oc, CompareCursors(tc, oc), identity)

(* The changes that turn one tree into the other. *)
TreeDiff(this, other) == DiffVisit(this, other, TRUE)

TreeApply(tr, ch) ==
  CASE ch.t = "Add" -> TreeAdd(tr, ch.row)
    [] ch.t = "Remove" -> TreeDelete(tr, ch.row)
    [] ch.t = "Edit" -> TreeAdd(TreeDelete(tr, ch.old), ch.row)

-----------------------------------------------------------------------------
SameKey(a, b) == CompareRows(TreeSort, a, b) = 0

WithoutKey(rows, row) == {r \in rows : ~SameKey(r, row)}

TreeInit(seeds) ==
  \E seed \in seeds :
    /\ tree = Fork(FromSorted(SortedRows(seed, TreeSort)))
    /\ fork = tree
    /\ held = seed
    /\ heldFork = seed
    /\ treeOps = 0

TreeOp == treeOps < MaxTreeOps /\ treeOps' = treeOps + 1

AddRow(row) ==
  /\ TreeOp
  /\ tree' = TreeAdd(tree, row)
  /\ held' = WithoutKey(held, row) \cup {row}
  /\ UNCHANGED <<fork, heldFork>>

DeleteRow(row) ==
  /\ TreeOp
  /\ tree' = TreeDelete(tree, row)
  /\ held' = WithoutKey(held, row)
  /\ UNCHANGED <<fork, heldFork>>

ApplyToFork(ch) ==
  /\ TreeOp
  /\ fork' = TreeApply(fork, ch)
  /\ heldFork' = WithoutKey(heldFork, ch.row) \cup (IF ch.t = "Add" THEN {ch.row} ELSE {})
  /\ UNCHANGED <<tree, held>>

ForkAgain ==
  /\ TreeOp
  /\ tree' = Fork(tree)
  /\ fork' = tree'
  /\ heldFork' = held
  /\ UNCHANGED held

TreeNext ==
  \/ \E row \in TreeRows : AddRow(row) \/ DeleteRow(row)
  \/ \E row \in TreeRows : ApplyToFork(SrcAdd(row)) \/ ApplyToFork(SrcRemove(row))
  \/ ForkAgain

-----------------------------------------------------------------------------
(* Properties. *)

(* Splits, merges and the collapse of the root (node_set, node_delete,        *)
(* try_merge) keep both trees balanced, sorted, within the node size, with    *)
(* the cached greatest rows and the size exact, and they hold what was        *)
(* written: neither tree sees the writes of the other.                        *)
TreesSound ==
  /\ CheckInvariants(tree) /\ AllRows(tree.root) = SortedRows(held, TreeSort)
  /\ CheckInvariants(fork) /\ AllRows(fork.root) = SortedRows(heldFork, TreeSort)
  /\ \A r \in TreeRows : ToSet(FindRow(tree.root, r)) = {x \in held : SameKey(x, r)}

(* A cursor from any bound, inclusive or not, in either direction, delivers   *)
(* exactly the rows on its side of the bound, in order (descend_seek,         *)
(* descend_seek_reverse, next_leaf, prev_leaf).                               *)
CursorsExact ==
  LET all == SortedRows(held, TreeSort)
      side(b, inc, rev) ==
        SelectSeq(IF rev THEN Reverse(all) ELSE all, LAMBDA r :
          LET o == CompareRows(TreeSort, r, b)
          IN (inc /\ o = 0) \/ (IF rev THEN o < 0 ELSE o > 0))
  IN /\ ValuesFromBound(tree, None, TRUE) = all
     /\ ValuesFromReversed(tree, None, TRUE) = Reverse(all)
     /\ \A b \in TreeBounds, inc \in BOOLEAN :
          /\ ValuesFromBound(tree, Some(b), inc) = side(b, inc, FALSE)
          /\ ValuesFromReversed(tree, Some(b), inc) = side(b, inc, TRUE)

(* The trees hold what was written to each, and every way to read them, by    *)
(* key or by cursor, delivers it.                                             *)
TreesExact == TreesSound /\ CursorsExact

(* The structural diff tells, in descending order, exactly the rows the trees *)
(* do not share, whatever the shapes and heights writes gave them; skipping   *)
(* shared nodes changes nothing (diff_visit), and applying it to one tree     *)
(* gives the other.                                                           *)
DiffExact ==
  LET diff == TreeDiff(tree, fork)
      at(rows, r) == {x \in rows : SameKey(x, r)}
      keys == {r \in held : r \notin heldFork} \cup {r \in heldFork : at(held, r) = {}}
      order == Reverse(SortedRows(keys, TreeSort))
      told(r) == IF r \notin held THEN SrcAdd(r)
                 ELSE IF at(heldFork, r) = {} THEN SrcRemove(r)
                 ELSE SrcEdit(CHOOSE x \in at(heldFork, r) : TRUE, r)
  IN /\ diff = [i \in DOMAIN order |-> told(order[i])]
     /\ diff = DiffVisit(tree, fork, FALSE)
     /\ AllRows(FoldLeft(TreeApply, tree, diff).root) = AllRows(fork.root)
=============================================================================
