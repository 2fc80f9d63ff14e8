------------------------------ MODULE MuxTree ------------------------------
(* The pane tree of a window of the multiplexer (core/src/tree.rs): leaves *)
(* are panes, splits have an ordered list of children, and a path is the   *)
(* list of child positions from the root (counted from 1 here).  Split     *)
(* orientation and sizes are layout and are left out.  The operators below *)
(* compute what the functions of the source return; they are recursive and *)
(* used by TLC's runs only.                                                *)
EXTENDS Integers, SequencesExt

NoPane == 0
NoPath == <<0>>
NoTree == [pane |-> NoPane, kids |-> <<>>]

Leaf(p)     == [pane |-> p, kids |-> <<>>]
Split(kids) == [pane |-> NoPane, kids |-> kids]
IsLeaf(n)   == n.pane # NoPane

-----------------------------------------------------------------------------
(* Looking things up.                                                      *)

RECURSIVE LeafPaths(_)
\* the paths of the panes, in depth-first order
LeafPaths(n) ==
    IF IsLeaf(n) THEN << <<>> >>
    ELSE FlattenSeq([i \in DOMAIN n.kids |->
             LET below == LeafPaths(n.kids[i])
             IN  [k \in DOMAIN below |-> <<i>> \o below[k]]])

RECURSIVE PaneIds(_)
PaneIds(n) ==
    IF IsLeaf(n) THEN <<n.pane>>
    ELSE FlattenSeq([i \in DOMAIN n.kids |-> PaneIds(n.kids[i])])

PanesIn(n) == ToSet(PaneIds(n))

RECURSIVE NodeAt(_, _)
\* the node a path leads to, NoTree when it leads nowhere
NodeAt(n, path) ==
    IF path = <<>> THEN n
    ELSE IF IsLeaf(n) \/ Head(path) \notin DOMAIN n.kids THEN NoTree
    ELSE NodeAt(n.kids[Head(path)], Tail(path))

PathExists(n, path) == NodeAt(n, path) # NoTree

\* the pane exactly at the path: what keys are written to
ActivePane(n, path) == NodeAt(n, path).pane

RECURSIVE ActivePaneId(_, _)
\* the same, but a path that ends early, late or nowhere still names a pane
ActivePaneId(n, path) ==
    IF IsLeaf(n) THEN n.pane
    ELSE IF path # <<>> /\ Head(path) \in DOMAIN n.kids
         THEN ActivePaneId(n.kids[Head(path)], Tail(path))
         ELSE ActivePaneId(n.kids[1], <<>>)

FirstLeafPath(n) == LeafPaths(n)[1]

FindPath(n, p) ==
    LET at == SelectInSeq(LeafPaths(n), LAMBDA path : NodeAt(n, path).pane = p)
    IN  IF at = 0 THEN NoPath ELSE LeafPaths(n)[at]

\* where the first of the listed panes that is still in the tree is
FindFirst(n, ids) ==
    LET at == SelectInSeq(ids, LAMBDA p : p \in PanesIn(n))
    IN  IF at = 0 THEN FirstLeafPath(n) ELSE FindPath(n, ids[at])

-----------------------------------------------------------------------------
(* Changing the tree.                                                      *)

\* a split that is left with one child becomes that child
Collapsed(kids) == IF Len(kids) = 1 THEN kids[1] ELSE Split(kids)

RECURSIVE PutSplit(_, _, _)
\* the node at an existing path and the new leaf become a split
PutSplit(n, path, new) ==
    IF path = <<>> THEN Split(<<n, new>>)
    ELSE Split([n.kids EXCEPT ![Head(path)] = PutSplit(@, Tail(path), new)])

RECURSIVE LeadsThroughLeaf(_, _)
LeadsThroughLeaf(n, path) ==
    /\ path # <<>>
    /\ \/ IsLeaf(n)
       \/ /\ Head(path) \in DOMAIN n.kids
          /\ LeadsThroughLeaf(n.kids[Head(path)], Tail(path))

\* mutant: the new node is dropped
ReplaceLeafWithSplit_Drops(n, path, new) ==
    IF PathExists(n, path)
    THEN [root |-> PutSplit(n, path, new), killed |-> {}, panics |-> FALSE]
    ELSE [root |-> n, killed |-> {}, panics |-> ~LeadsThroughLeaf(n, path)]

\* A path through a leaf has the new node killed; a child position beyond the
\* last one, at the end of the path, is an index out of bounds; earlier in the
\* path it is one as well.
ReplaceLeafWithSplit(n, path, new) ==
    IF PathExists(n, path)
    THEN [root |-> PutSplit(n, path, new), killed |-> {}, panics |-> FALSE]
    ELSE IF LeadsThroughLeaf(n, path)
    THEN [root |-> n, killed |-> PanesIn(new), panics |-> FALSE]
    ELSE [root |-> n, killed |-> {}, panics |-> TRUE]

RECURSIVE RemoveNode(_, _)
RemoveNode(n, path) ==
    IF IsLeaf(n) \/ path = <<>> THEN n
    ELSE LET i == Head(path)
         IN  IF i \notin DOMAIN n.kids THEN n
             ELSE IF Len(path) = 1 THEN Collapsed(RemoveAt(n.kids, i))
             ELSE Split([n.kids EXCEPT ![i] = RemoveNode(@, Tail(path))])

\* mutant: the walk stops one step above
KilledAt_Parent(n, path) ==
    IF path = <<>> THEN PanesIn(n) ELSE PanesIn(NodeAt(n, Front(path)))

\* the panes whose processes a removal ends: the whole subtree, and a root
\* that is a single pane although it stays in the tree
KilledAt(n, path) ==
    IF path = <<>> /\ ~IsLeaf(n) THEN {}
    ELSE LET at == NodeAt(n, path) IN IF at = NoTree THEN {} ELSE PanesIn(at)

RECURSIVE ExtractNode(_, _)
\* takes the subtree at the path out: what remains and what was taken
ExtractNode(n, path) ==
    IF path = <<>> THEN [rest |-> NoTree, out |-> n]
    ELSE IF IsLeaf(n) \/ Head(path) \notin DOMAIN n.kids
    THEN [rest |-> n, out |-> NoTree]
    ELSE LET i     == Head(path)
             below == ExtractNode(n.kids[i], Tail(path))
             kids  == IF below.rest = NoTree THEN RemoveAt(n.kids, i)
                      ELSE ReplaceAt(n.kids, i, below.rest)
         IN  [rest |-> Collapsed(kids), out |-> below.out]

RECURSIVE PruneExited(_, _)
\* the tree without the panes in gone; NoTree when none is left
PruneExited(n, gone) ==
    IF IsLeaf(n) THEN IF n.pane \in gone THEN NoTree ELSE n
    ELSE LET kids == SelectSeq([i \in DOMAIN n.kids |-> PruneExited(n.kids[i], gone)],
                               LAMBDA kid : kid # NoTree)
         IN  IF kids = <<>> THEN NoTree ELSE Collapsed(kids)

\* Rotation moves the children of the root only.
RotatePanes(n, reverse) ==
    IF IsLeaf(n) THEN n
    ELSE IF reverse THEN Split(Append(Tail(n.kids), Head(n.kids)))
    ELSE Split(<<Last(n.kids)>> \o Front(n.kids))

-----------------------------------------------------------------------------
(* The named layouts rebuild the tree from its leaves.                     *)

RECURSIVE BuildTiled(_)
BuildTiled(leaves) ==
    IF Len(leaves) = 1 THEN leaves[1]
    ELSE IF Len(leaves) = 2 THEN Split(leaves)
    ELSE LET mid == Len(leaves) \div 2
         IN  Split(<<BuildTiled(SubSeq(leaves, 1, mid)),
                     BuildTiled(SubSeq(leaves, mid + 1, Len(leaves)))>>)

Layouts == {"even", "main", "tiled"}

\* at least two panes
ApplyLayout(n, layout) ==
    LET leaves == [i \in DOMAIN PaneIds(n) |-> Leaf(PaneIds(n)[i])]
    IN  CASE layout = "even"  -> Split(leaves)
          [] layout = "main"  -> Split(<<Head(leaves), Collapsed(Tail(leaves))>>)
          [] layout = "tiled" -> BuildTiled(leaves)

-----------------------------------------------------------------------------
(* The panes of a window in the order they were used last.                 *)

TouchMru(mru, p)      == <<p>> \o SelectSeq(mru, LAMBDA q : q # p)
RemoveFromMru(mru, p) == SelectSeq(mru, LAMBDA q : q # p)

=============================================================================
