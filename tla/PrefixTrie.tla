------------------------------ MODULE PrefixTrie ------------------------------
(* The path-compressed prefix trie of prefix_trie.rs, in its fixed pool: each *)
(* node has the run of address bits that leads to it, two children, and a     *)
(* value when a stored prefix ends there.  A prefix is a sequence of bits, so *)
(* the shifts and masks of the code are SubSeq.  Operators take the pool and  *)
(* give the pool the code leaves behind.                                      *)
EXTENDS Naturals, SequencesExt, Optional

CONSTANT MaxPrefixes        \* the pool has the roots and two nodes per prefix

Roots == {0, 1}             \* V4_ROOT and V6_ROOT
NodeIds == 0 .. (1 + 2 * MaxPrefixes)

NewNode(edge) == [edge |-> edge, children |-> [b \in {0, 1} |-> None], value |-> None]
EmptyTrie == [r \in Roots |-> NewNode(<<>>)]

Available(nodes) == Cardinality(NodeIds \ DOMAIN nodes)
FreeNode(nodes) == Min(NodeIds \ DOMAIN nodes)
Release(nodes, id) == Restrict(nodes, DOMAIN nodes \ {id})
Drop(bits, n) == SubSeq(bits, n + 1, Len(bits))

\* The walk all operations share: follow children while their whole edge matches.
RECURSIVE Descend(_, _, _)
Descend(nodes, path, rest) ==
    IF rest = <<>> THEN [path |-> path, rest |-> rest]
    ELSE LET child == nodes[Last(path)].children[Head(rest)] IN
         IF child = None THEN [path |-> path, rest |-> rest]
         ELSE IF ~IsPrefix(nodes[child].edge, rest) THEN [path |-> path, rest |-> rest]
         ELSE Descend(nodes, Append(path, child), Drop(rest, Len(nodes[child].edge)))

TrieLookup(nodes, root, addr) ==
    LET path == Descend(nodes, <<root>>, addr).path
        hit == SelectLastInSeq(path, LAMBDA id : nodes[id].value # None)
    IN  IF hit = 0 THEN None ELSE nodes[path[hit]].value

TrieGet(nodes, root, prefix) ==
    LET d == Descend(nodes, <<root>>, prefix)
    IN  IF d.rest = <<>> THEN nodes[Last(d.path)].value ELSE None

\* A new leaf below node, for the bits that are left.
AddLeaf(nodes, node, rest, value) ==
    LET leaf == FreeNode(nodes) IN
    [id \in DOMAIN nodes \cup {leaf} |->
        IF id = leaf THEN [NewNode(rest) EXCEPT !.value = value]
        ELSE IF id = node THEN [nodes[id] EXCEPT !.children[Head(rest)] = leaf]
        ELSE nodes[id]]

\* A node in the middle of the edge to child, after the bits both share.
SplitEdge(nodes, node, child, shared) ==
    LET mid == FreeNode(nodes)
        edge == nodes[child].edge
    IN  [id \in DOMAIN nodes \cup {mid} |->
            CASE id = mid -> [NewNode(SubSeq(edge, 1, shared))
                                EXCEPT !.children[edge[shared + 1]] = child]
              [] id = child -> [nodes[id] EXCEPT !.edge = Drop(edge, shared)]
              [] id = node -> [nodes[id] EXCEPT !.children[Head(edge)] = mid]
              [] OTHER -> nodes[id]]

\* insert: ok is FALSE when the pool is exhausted, and nothing has changed then.
TrieInsert(nodes, root, prefix, value) ==
    LET d == Descend(nodes, <<root>>, prefix)
        node == Last(d.path)
    IN  IF d.rest = <<>> THEN [ok |-> TRUE, nodes |-> [nodes EXCEPT ![node].value = value]]
        ELSE LET child == nodes[node].children[Head(d.rest)] IN
             IF child = None
             THEN IF Available(nodes) < 1 THEN [ok |-> FALSE, nodes |-> nodes]
                  ELSE [ok |-> TRUE, nodes |-> AddLeaf(nodes, node, d.rest, value)]
             ELSE LET shared == Len(LongestCommonPrefix({d.rest, nodes[child].edge}))
                      endsHere == shared = Len(d.rest)
                      mid == FreeNode(nodes)
                      split == SplitEdge(nodes, node, child, shared)
                  IN  IF Available(nodes) < (IF endsHere THEN 1 ELSE 2)
                      THEN [ok |-> FALSE, nodes |-> nodes]
                      ELSE [ok |-> TRUE,
                            nodes |-> IF endsHere THEN [split EXCEPT ![mid].value = value]
                                      ELSE AddLeaf(split, mid, Drop(d.rest, shared), value)]

\* merge_into_child: node goes, its edge is put before the edge of its only child.
MergeIntoChild(nodes, parent, node, child) ==
    LET edge == nodes[node].edge IN
    Release([nodes EXCEPT ![child].edge = edge \o @,
                          ![parent].children[Head(edge)] = child], node)

OnlyChild(n) ==
    LET there == {b \in {0, 1} : n.children[b] # None}
    IN  IF Cardinality(there) = 1 THEN n.children[CHOOSE b \in there : TRUE] ELSE None

\* What remove does to a node that lost its value: keep it if it has two
\* children, merge it if it has one; without a child it goes, and a parent
\* that is then neither a root, nor has a value, nor two children, is merged.
Prune(nodes, path) ==
    LET node == Last(path)
        parent == path[Len(path) - 1]
        only == OnlyChild(nodes[node])
        cut == Release([nodes EXCEPT ![parent].children[Head(nodes[node].edge)] = None], node)
        left == OnlyChild(cut[parent])
    IN  IF only # None THEN MergeIntoChild(nodes, parent, node, only)
        ELSE IF nodes[node].children[0] # None THEN nodes
        ELSE IF Len(path) > 2 /\ cut[parent].value = None /\ left # None
             THEN MergeIntoChild(cut, path[Len(path) - 2], parent, left)
        ELSE cut

\* remove: the value that was there, or None and no change.
TrieRemove(nodes, root, prefix) ==
    LET d == Descend(nodes, <<root>>, prefix)
        node == Last(d.path)
        old == IF d.rest = <<>> THEN nodes[node].value ELSE None
        cleared == [nodes EXCEPT ![node].value = None]
    IN  IF old = None THEN [value |-> None, nodes |-> nodes]
        ELSE [value |-> old,
              nodes |-> IF Len(d.path) = 1 THEN cleared ELSE Prune(cleared, d.path)]
===============================================================================
