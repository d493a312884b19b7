------------------------------- MODULE BTree -------------------------------
(***************************************************************************)
(* The B-Link tree a table keeps its rows in (tpt-archon-core/src/         *)
(* btree.rs): nodes in a vector, addressed by position, each with a        *)
(* right-link and a high key; inserts split full nodes on the way back up, *)
(* deletes only empty a leaf.  Positions start at 1 here and NoNode is     *)
(* `None`; a high key is a sequence of at most one key.                    *)
(***************************************************************************)
EXTENDS Naturals, Sequences, FiniteSets, SequencesExt

CONSTANT NodeCapacity   \* NODE_CAPACITY, 64 in the code

NoNode == 0
Leaf(keys, vals, right, high) ==
  [leaf |-> TRUE, keys |-> keys, vals |-> vals, children |-> <<>>, right |-> right, high |-> high]
Internal(keys, children, right, high) ==
  [leaf |-> FALSE, keys |-> keys, vals |-> <<>>, children |-> children, right |-> right, high |-> high]

NewTree == [nodes |-> <<Leaf(<<>>, <<>>, NoNode, <<>>)>>, root |-> 1]

-----------------------------------------------------------------------------
\* Where binary_search finds `key`, or would insert it.
KeysUpTo(node, key) == Cardinality({i \in DOMAIN node.keys : node.keys[i] <= key})
KeysBelow(node, key) == Cardinality({i \in DOMAIN node.keys : node.keys[i] < key})
ChildFor(node, key) == node.children[KeysUpTo(node, key) + 1]
Holds(node, key) == \E i \in DOMAIN node.keys : node.keys[i] = key
Slot(node, key) == KeysUpTo(node, key)

\* The key is beyond the node's coverage, and there is a right sibling.
BeyondNode(node, key) == node.high # <<>> /\ key >= node.high[1] /\ node.right # NoNode

\* The leaf that get and delete end in, right-links followed on every level.
RECURSIVE LeafWithLinks(_, _, _)
LeafWithLinks(tree, id, key) ==
  LET node == tree.nodes[id] IN
    IF BeyondNode(node, key) THEN LeafWithLinks(tree, node.right, key)
    ELSE IF node.leaf THEN id
    ELSE LeafWithLinks(tree, ChildFor(node, key), key)

\* get: a sequence of at most one value.
get(tree, key) ==
  LET node == tree.nodes[LeafWithLinks(tree, tree.root, key)] IN
    IF Holds(node, key) THEN <<node.vals[Slot(node, key)]>> ELSE <<>>

contains(tree, key) == get(tree, key) # <<>>

delete(tree, key) ==
  LET id == LeafWithLinks(tree, tree.root, key)
      node == tree.nodes[id]
  IN IF ~Holds(node, key) THEN tree
     ELSE [tree EXCEPT !.nodes[id] =
             [@ EXCEPT !.keys = RemoveAt(@, Slot(node, key)), !.vals = RemoveAt(@, Slot(node, key))]]

RECURSIVE LeafUnder(_, _, _)
LeafUnder(tree, id, key) ==
  IF tree.nodes[id].leaf THEN id ELSE LeafUnder(tree, ChildFor(tree.nodes[id], key), key)
leftmost_leaf_for(tree, key) == LeafUnder(tree, tree.root, key)

RECURSIVE FirstLeaf(_, _)
FirstLeaf(tree, id) ==
  IF tree.nodes[id].leaf THEN id ELSE FirstLeaf(tree, tree.nodes[id].children[1])
leftmost_leaf(tree) == FirstLeaf(tree, tree.root)

\* The <<key, value>> pairs from leaf `id` on, along the right-links.
RECURSIVE Chain(_, _)
Chain(tree, id) ==
  LET node == tree.nodes[id] IN
    [i \in DOMAIN node.keys |-> <<node.keys[i], node.vals[i]>>]
      \o (IF node.right = NoNode THEN <<>> ELSE Chain(tree, node.right))

\* range stops at the first key past `hi`, wherever the chain goes from there.
range(tree, lo, hi) ==
  IF lo >= hi THEN <<>>
  ELSE LET chain == Chain(tree, leftmost_leaf_for(tree, lo))
           past == {i \in DOMAIN chain : chain[i][1] >= hi}
           upto == IF past = {} THEN Len(chain) ELSE Min(past) - 1
       IN SelectSeq(SubSeq(chain, 1, upto), LAMBDA e : e[1] >= lo)

len(tree) == Len(Chain(tree, leftmost_leaf(tree)))

-----------------------------------------------------------------------------
Mid == (NodeCapacity + 1) \div 2
NoSplit(nodes) == [nodes |-> nodes, split |-> <<>>]

\* `node`, at `id`, becomes its left half; the right half is pushed.
Halve(nodes, id, left, right, sep) ==
  [nodes |-> Append([nodes EXCEPT ![id] = [left EXCEPT !.right = Len(nodes) + 1, !.high = <<sep>>]], right),
   split |-> <<[sep |-> sep, right |-> Len(nodes) + 1]>>]

split_leaf_drops_link(nodes, id, node) ==
  LET r_keys == SubSeq(node.keys, Mid + 1, Len(node.keys)) IN
    Halve(nodes, id,
      [node EXCEPT !.keys = SubSeq(@, 1, Mid), !.vals = SubSeq(@, 1, Mid)],
      Leaf(r_keys, SubSeq(node.vals, Mid + 1, Len(node.vals)), NoNode, node.high), r_keys[1])
split_leaf(nodes, id, node) ==
  LET r_keys == SubSeq(node.keys, Mid + 1, Len(node.keys)) IN
    Halve(nodes, id,
      [node EXCEPT !.keys = SubSeq(@, 1, Mid), !.vals = SubSeq(@, 1, Mid)],
      Leaf(r_keys, SubSeq(node.vals, Mid + 1, Len(node.vals)), node.right, node.high), r_keys[1])

split_internal_keeps_separator(nodes, id, node) ==
  Halve(nodes, id,
    [node EXCEPT !.keys = SubSeq(@, 1, Mid), !.children = SubSeq(@, 1, Mid + 1)],
    Internal(SubSeq(node.keys, Mid + 2, Len(node.keys)),
             SubSeq(node.children, Mid + 2, Len(node.children)), node.right, node.high),
    node.keys[Mid + 2])
split_internal(nodes, id, node) ==
  Halve(nodes, id,
    [node EXCEPT !.keys = SubSeq(@, 1, Mid), !.children = SubSeq(@, 1, Mid + 1)],
    Internal(SubSeq(node.keys, Mid + 2, Len(node.keys)),
             SubSeq(node.children, Mid + 2, Len(node.children)), node.right, node.high),
    node.keys[Mid + 1])

LeafWith(node, key, value) ==
  LET at == KeysBelow(node, key) + 1 IN
    [node EXCEPT !.keys = InsertAt(@, at, key), !.vals = InsertAt(@, at, value)]
NodeWith(node, split) ==
  LET at == KeysBelow(node, split.sep) + 1 IN
    [node EXCEPT !.keys = InsertAt(@, at, split.sep), !.children = InsertAt(@, at + 1, split.right)]

\* The nodes after the insert, and the split of `id` if it had to split.
RECURSIVE insert_rec(_, _, _, _)
insert_rec(nodes, id, key, value) ==
  LET node == nodes[id]
      grown == LeafWith(node, key, value)
      below == insert_rec(nodes, ChildFor(node, key), key, value)
      widened == NodeWith(node, below.split[1])
  IN CASE node.leaf /\ Holds(node, key) ->
            NoSplit([nodes EXCEPT ![id].vals[Slot(node, key)] = value])
       [] node.leaf /\ ~Holds(node, key) ->
            IF Len(grown.keys) > NodeCapacity THEN split_leaf(nodes, id, grown)
            ELSE NoSplit([nodes EXCEPT ![id] = grown])
       [] OTHER ->
            IF below.split = <<>> THEN NoSplit(below.nodes)
            ELSE IF Len(widened.keys) > NodeCapacity THEN split_internal(below.nodes, id, widened)
            ELSE NoSplit([below.nodes EXCEPT ![id] = widened])

insert(tree, key, value) ==
  LET done == insert_rec(tree.nodes, tree.root, key, value) IN
    IF done.split = <<>> THEN [tree EXCEPT !.nodes = done.nodes]
    ELSE [nodes |-> Append(done.nodes,
            Internal(<<done.split[1].sep>>, <<tree.root, done.split[1].right>>, NoNode, <<>>)),
          root |-> Len(done.nodes) + 1]
=============================================================================
