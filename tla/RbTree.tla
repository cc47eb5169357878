------------------------------- MODULE RbTree -------------------------------
(***************************************************************************)
(* The red-black tree of compat/rbtree/rb.c that timers, threads and       *)
(* clients keep their nodes in, as built without RBDEBUG.                  *)
(*                                                                         *)
(* A tree is a record of the fields of its nodes.  Its nodes are the items *)
(* they are embedded in, and RootLink, the tree's own rbt_root taken       *)
(* for the left child of a node.  A removed item has no fields any more:   *)
(* its owner frees it.  Position and direction are 0, left, or 1, right.   *)
(***************************************************************************)
EXTENDS Integers, Functions, TLC

CONSTANTS
  Items,      \* the objects that may be inserted
  RbKey(_)    \* the key the client's compare functions look at

RootLink == 0
NoItem == -1     \* RB_SENTINEL_NODE

ASSUME RbTreeConstants ==
  /\ RootLink \notin Items /\ NoItem \notin Items
  /\ \A i \in Items : RbKey(i) \in Int

VARIABLES
  tree,       \* the tree
  ret         \* what the last operation returned

Dirs == {0, 1}
Keys == {RbKey(i) : i \in Items}

\* The macros of sys/rbtree.h.
InTree(t) == DOMAIN t.red
Kid(t, n, d) == t.kid[n][d]
Root(t) == Kid(t, RootLink, 0)
Red(t, n) == n # NoItem /\ t.red[n]
Childless(t, n) == n = NoItem \/ \A d \in Dirs : Kid(t, n, d) = NoItem
TwoChildren(t, n) == n # NoItem /\ \A d \in Dirs : Kid(t, n, d) # NoItem
Mark(t, n, red) == [t EXCEPT !.red[n] = red]

\* rb_tree_init
EmptyTree ==
  [kid |-> [n \in {RootLink} |-> [d \in Dirs |-> NoItem]], father |-> <<>>, pos |-> <<>>, red |-> <<>>,
   minmax |-> [d \in Dirs |-> NoItem]]

\* The node is in the tree no longer.
Forget(t, n) ==
  [t EXCEPT !.kid = Restrict(@, DOMAIN @ \ {n}), !.father = Restrict(@, DOMAIN @ \ {n}),
            !.pos = Restrict(@, DOMAIN @ \ {n}), !.red = Restrict(@, DOMAIN @ \ {n})]

-----------------------------------------------------------------------------
(***************************************************************************)
(* Searching.                                                              *)
(***************************************************************************)
Side(t, n, k) == IF RbKey(n) < k THEN 1 ELSE 0

RECURSIVE FindFrom(_, _, _), FindGeqFrom(_, _, _, _), FindLeqFrom(_, _, _, _)

\* rb_tree_find_node
FindFrom(t, n, k) ==
  IF n = NoItem \/ RbKey(n) = k THEN n ELSE FindFrom(t, Kid(t, n, Side(t, n, k)), k)

\* rb_tree_find_node_geq
FindGeqFrom(t, n, k, last) ==
  IF n = NoItem THEN last
  ELSE IF RbKey(n) = k THEN n
  ELSE FindGeqFrom(t, Kid(t, n, Side(t, n, k)), k, IF RbKey(n) > k THEN n ELSE last)

\* rb_tree_find_node_leq
FindLeqFrom(t, n, k, last) ==
  IF n = NoItem THEN last
  ELSE IF RbKey(n) = k THEN n
  ELSE FindLeqFrom(t, Kid(t, n, Side(t, n, k)), k, IF RbKey(n) < k THEN n ELSE last)

RECURSIVE Up(_, _, _), Farthest(_, _, _)

\* Up until the father is in the direction to go.
Up(t, n, other) ==
  IF n = Root(t) THEN NoItem
  ELSE IF t.pos[n] = other THEN t.father[n] ELSE Up(t, t.father[n], other)

Farthest(t, n, d) == IF Kid(t, n, d) = NoItem THEN n ELSE Farthest(t, Kid(t, n, d), d)

\* rb_tree_iterate
IterateFrom(t, n, dir) ==
  IF n = NoItem THEN (IF Root(t) = NoItem THEN NoItem ELSE t.minmax[dir])
  ELSE IF Kid(t, n, dir) = NoItem THEN Up(t, n, 1 - dir)
  ELSE Farthest(t, Kid(t, n, dir), 1 - dir)

-----------------------------------------------------------------------------
(***************************************************************************)
(* Insertion.                                                              *)
(***************************************************************************)
\* rb_tree_reparent_nodes: father f and its child swap places and colours.
Reparent(t, f, which) ==
  LET other == 1 - which
      g == t.father[f]
      c == Kid(t, f, which)
      s == Kid(t, c, other)
      swapped == [t EXCEPT !.kid[g][t.pos[f]] = c, !.kid[f][which] = s, !.kid[c][other] = f,
                           !.father[c] = g, !.father[f] = c,
                           !.red[c] = t.red[f], !.red[f] = t.red[c],
                           !.pos[c] = t.pos[f], !.pos[f] = other]
  IN  IF s = NoItem THEN swapped ELSE [swapped EXCEPT !.father[s] = f, !.pos[s] = which]

\* Case 2 of rb_tree_insert_rebalance: on the uncle's side, self becomes the father.
Case2(t, self, father, other) ==
  IF self = Kid(t, father, other) THEN Reparent(t, father, other) ELSE t

RECURSIVE InsertRebalance(_, _)

\* rb_tree_insert_rebalance: case 1 until the uncle is black, then 2 and 3.
InsertRebalance(t, self) ==
  LET father == t.father[self]
      grandpa == t.father[father]
      which == IF father = Kid(t, grandpa, 1) THEN 1 ELSE 0
      other == 1 - which
      uncle == Kid(t, grandpa, other)
      recoloured == Mark(Mark(t, uncle, FALSE), father, FALSE)
      reddened == Mark(recoloured, grandpa, TRUE)
      turned == Reparent(Case2(t, self, father, other), grandpa, which)
  IN  IF ~Red(t, uncle) THEN Mark(turned, Root(turned), FALSE)
      ELSE IF grandpa = Root(t) THEN recoloured
      ELSE IF ~t.red[t.father[grandpa]] THEN reddened
      ELSE InsertRebalance(reddened, grandpa)

RECURSIVE PlaceFrom(_, _, _, _)

\* The leaf to insert at, father and position, or the item with the same key.
PlaceFrom(t, father, d, k) ==
  LET n == Kid(t, father, d)
  IN  IF n = NoItem THEN [father |-> father, pos |-> d, same |-> NoItem]
      ELSE IF RbKey(n) = k THEN [father |-> father, pos |-> d, same |-> n]
      ELSE PlaceFrom(t, n, Side(t, n, k), k)

\* Mutant: the cache of the ends is kept only when the tree was empty.
BugNoMinmax(t, father, d, self) ==
  IF father = RootLink THEN [e \in Dirs |-> self] ELSE t.minmax

\* rb_tree_insert_node: rbt_minmax with self below father.
InsertMinmax(t, father, d, self) ==
  IF father = RootLink THEN [e \in Dirs |-> self]
  ELSE [t.minmax EXCEPT ![d] = IF @ = father THEN self ELSE @]

\* ... and self as a leaf there, red but for the root.
Leaf(t, father, d, self) ==
  [kid |-> [(self :> [e \in Dirs |-> NoItem]) @@ t.kid EXCEPT ![father][d] = self],
   father |-> (self :> father) @@ t.father, pos |-> (self :> d) @@ t.pos,
   red |-> (self :> (father # RootLink)) @@ t.red,
   minmax |-> InsertMinmax(t, father, d, self)]

\* rb_tree_insert_node
InsertNode(t, self) ==
  LET at == PlaceFrom(t, RootLink, 0, RbKey(self))
      leaf == Leaf(t, at.father, at.pos, self)
  IN  IF at.same # NoItem THEN t
      ELSE IF at.father # RootLink /\ t.red[at.father] THEN InsertRebalance(leaf, self) ELSE leaf

-----------------------------------------------------------------------------
(***************************************************************************)
(* Removal.                                                                *)
(***************************************************************************)
BlackNephews(t, brother) == \A d \in Dirs : ~Red(t, Kid(t, brother, d))

\* Cases 3 and 4 of rb_tree_removal_rebalance: a nephew is red.
RedNephew(t, parent, which) ==
  LET other == 1 - which
      brother == Kid(t, parent, other)
      near == IF ~Red(t, Kid(t, brother, other)) THEN Reparent(t, brother, which) ELSE t
      far == Kid(near, Kid(near, parent, other), other)
  IN  Reparent(Mark(near, far, FALSE), parent, other)

\* Parent, brother and nephews are black: above parent, too, a black node is missing now.
AllBlack(t, parent, which) ==
  LET brother == Kid(t, parent, 1 - which) IN ~t.red[parent] /\ ~t.red[brother] /\ BlackNephews(t, brother)

Lighten(t, parent, which) == Mark(t, Kid(t, parent, 1 - which), TRUE)

\* The other cases end the loop: a red brother (1) goes up, and then case 2b or 3 and 4.
Settle(t, parent, which) ==
  LET other == 1 - which
      brother == Kid(t, parent, other)
      plain == ~t.red[parent] /\ BlackNephews(t, brother)
      level == IF plain THEN Reparent(t, parent, other) ELSE t
      sibling == Kid(level, parent, other)
  IN  IF level.red[parent] /\ ~level.red[sibling] /\ BlackNephews(level, sibling)
        THEN Mark(Lighten(level, parent, which), parent, FALSE)
        ELSE RedNephew(level, parent, which)

\* Mutant: what is missing above parent is left to be.
BugNoClimb(t, parent, which) ==
  IF Red(t, Kid(t, parent, which)) THEN t
  ELSE IF AllBlack(t, parent, which) THEN Lighten(t, parent, which)
  ELSE Settle(t, parent, which)

RECURSIVE RemovalRebalance(_, _, _)

\* rb_tree_removal_rebalance: below parent, at which, a black node is missing.
RemovalRebalance(t, parent, which) ==
  IF Red(t, Kid(t, parent, which)) THEN t
  ELSE IF ~AllBlack(t, parent, which) THEN Settle(t, parent, which)
  ELSE IF parent = Root(t) THEN Lighten(t, parent, which)
  ELSE RemovalRebalance(Lighten(t, parent, which), t.father[parent], t.pos[parent])

\* rb_tree_prune_node: a childless node goes.
PruneNode(t, self) ==
  LET father == t.father[self]
      which == t.pos[self]
      ends == IF t.minmax[which] # self THEN t.minmax
              ELSE IF self = Root(t) THEN [d \in Dirs |-> father]
              ELSE [t.minmax EXCEPT ![which] = father]
      pruned == Forget([t EXCEPT !.kid[father][which] = NoItem, !.minmax = ends], self)
  IN  IF ~t.red[self] /\ self # Root(t) THEN RemovalRebalance(pruned, father, which) ELSE pruned

\* rb_tree_prune_blackred_branch: the only son, at which, takes the place of self.
PruneBlackRedBranch(t, self, which) ==
  LET father == t.father[self]
      son == Kid(t, self, which)
      ends == IF self = Root(t) THEN [t.minmax EXCEPT ![1 - which] = son]
              ELSE [t.minmax EXCEPT ![t.pos[self]] = IF @ = self THEN son ELSE @]
  IN  Forget([t EXCEPT !.pos[son] = t.pos[self], !.red[son] = t.red[self],
                       !.kid[father][t.pos[self]] = son, !.father[son] = father,
                       !.minmax = ends], self)

\* standin, of which only son is left, and then self's far son move up.
TakePlace(t, self, standin, son) ==
  LET which == t.pos[standin]
      other == 1 - which
      father == t.father[standin]
      near == Kid(t, self, which)
      far == Kid(t, self, other)
      cut == IF father = self THEN t
             ELSE [t EXCEPT !.kid[father][which] = son,
                            !.kid[standin][which] = near, !.father[near] = standin]
  IN  Forget([cut EXCEPT !.kid[standin][other] = far, !.father[far] = standin,
                         !.pos[standin] = t.pos[self], !.red[standin] = t.red[self],
                         !.father[standin] = t.father[self],
                         !.kid[t.father[self]][t.pos[self]] = standin,
                         !.minmax[t.pos[self]] = IF @ = self THEN t.father[self] ELSE @], self)

\* Mutant: a black standin leaves its place and nothing is rebalanced.
BugNoRebalance(t, self, standin) ==
  TakePlace(t, self, standin,
            Kid(t, standin, IF t.father[standin] = self THEN t.pos[standin] ELSE 1 - t.pos[standin]))

(***************************************************************************)
(* rb_tree_swap_prune_and_rebalance: self has two children; standin, its   *)
(* neighbour in the order, takes its place.  A red son of standin turns    *)
(* black in standin's old place.                                           *)
(***************************************************************************)
SwapPruneAndRebalance(t, self, standin) ==
  LET which == t.pos[standin]
      father == t.father[standin]
      son == Kid(t, standin, IF father = self THEN which ELSE 1 - which)
      black == IF ~Red(t, son) THEN t
               ELSE IF father = self THEN Mark(t, son, FALSE)
               ELSE [t EXCEPT !.red[son] = FALSE, !.father[son] = father, !.pos[son] = which]
      swapped == TakePlace(black, self, standin, son)
  IN  IF t.red[standin] \/ Red(t, son) THEN swapped
      ELSE RemovalRebalance(swapped, IF father = self THEN standin ELSE father, which)

\* rb_tree_remove_node
RemoveNode(t, self) ==
  IF Childless(t, self) THEN PruneNode(t, self)
  ELSE IF ~TwoChildren(t, self)
    THEN PruneBlackRedBranch(t, self, IF Kid(t, self, 0) = NoItem THEN 1 ELSE 0)
  ELSE SwapPruneAndRebalance(t, self, IterateFrom(t, self, 1 - t.pos[self]))

-----------------------------------------------------------------------------
RbInit == tree = EmptyTree /\ ret = NoItem

RbInsert(i) ==
  /\ i \notin InTree(tree)
  /\ tree' = InsertNode(tree, i)
  /\ LET same == PlaceFrom(tree, RootLink, 0, RbKey(i)).same IN ret' = IF same = NoItem THEN i ELSE same

RbRemove(i) == i \in InTree(tree) /\ tree' = RemoveNode(tree, i) /\ UNCHANGED ret

RbFind(k) == ret' = FindFrom(tree, Root(tree), k) /\ UNCHANGED tree
RbFindGeq(k) == ret' = FindGeqFrom(tree, Root(tree), k, NoItem) /\ UNCHANGED tree
RbFindLeq(k) == ret' = FindLeqFrom(tree, Root(tree), k, NoItem) /\ UNCHANGED tree

RbIterate(i, dir) ==
  /\ i \in InTree(tree) \cup {NoItem}
  /\ ret' = IterateFrom(tree, i, dir)
  /\ UNCHANGED tree

\* A client changes the tree, or looks for the keys and items of I.
RbChange(i) == RbInsert(i) \/ RbRemove(i)
RbSearch(I) ==
  \/ \E k \in {RbKey(i) : i \in I} : RbFind(k) \/ RbFindGeq(k) \/ RbFindLeq(k)
  \/ \E i \in I \cup {NoItem}, dir \in Dirs : RbIterate(i, dir)

RbNext == (\E i \in Items : RbChange(i)) \/ RbSearch(Items)

RbSpec == RbInit /\ [][RbNext]_<<tree, ret>>

-----------------------------------------------------------------------------
(***************************************************************************)
(* The asserts of rb_tree_check_node with red_check, which a build with    *)
(* RBDEBUG executes after every change.                                    *)
(***************************************************************************)
\* The relationship to the father, and the cached ends.
CheckPlace(t, n) ==
  LET father == t.father[n]
      which == t.pos[n]
  IN  /\ Kid(t, father, which) = n
      /\ IF n = Root(t) THEN father = RootLink /\ which = 0
                        ELSE IF which = 0 THEN RbKey(n) < RbKey(father) ELSE RbKey(n) > RbKey(father)
      /\ \A d \in Dirs : IterateFrom(t, n, d) = NoItem => t.minmax[d] = n

CheckRed(t, n) ==
  LET brother == Kid(t, t.father[n], 1 - t.pos[n])
  IN  /\ n # Root(t) /\ ~t.red[t.father[n]]
      /\ Childless(t, n) => Childless(t, brother) \/ Red(t, brother)
      /\ ~Childless(t, n) =>
            /\ TwoChildren(t, n) /\ BlackNephews(t, n)
            /\ Red(t, brother) => TwoChildren(t, brother) /\ BlackNephews(t, brother)

CheckBlack(t, n) ==
  LET which == t.pos[n]
      next == IterateFrom(t, n, 1 - which)
      relative == IterateFrom(t, next, 1 - which)
  IN  /\ ~TwoChildren(t, n) =>
            \A d \in Dirs : LET son == Kid(t, n, d) IN son # NoItem => Red(t, son) /\ Childless(t, son)
      /\ n # Root(t) /\ Childless(t, n) /\ ~t.red[t.father[n]] =>
            next # NoItem /\ relative # NoItem /\ Kid(t, relative, which) = NoItem

\* How deep the tree may be on one side of n when it is not on the other.
CheckKin(t, n) ==
  /\ n # Root(t) /\ t.father[n] # Root(t) => TwoChildren(t, t.father[t.father[n]])
  /\ \A d \in Dirs :
       LET one == Kid(t, n, d)
           other == Kid(t, n, 1 - d)
       IN  /\ one = NoItem => Childless(t, other)
           /\ \/ TwoChildren(t, one) \/ Childless(t, other)
              \/ \E e \in Dirs : LET g == Kid(t, other, e) IN ~TwoChildren(t, g) \/ \E f \in Dirs : Childless(t, Kid(t, g, f))
           /\ TwoChildren(t, n) => Kid(t, IterateFrom(t, n, d), 1 - d) = NoItem

CheckNode(t, n) ==
  /\ CheckPlace(t, n) /\ CheckKin(t, n)
  /\ IF t.red[n] THEN CheckRed(t, n) ELSE CheckBlack(t, n)

RECURSIVE CountBlack(_, _)

\* rb_tree_count_black, -1 where the two sides differ.
CountBlack(t, n) ==
  IF n = NoItem THEN 0
  ELSE LET left == CountBlack(t, Kid(t, n, 0))
       IN  IF left = -1 \/ left # CountBlack(t, Kid(t, n, 1)) THEN -1
           ELSE left + (IF Red(t, n) THEN 0 ELSE 1)

(***************************************************************************)
(* Every sequence of insertions and removals leaves a red-black tree:      *)
(* what rb_tree_check asserts of order, links, the cached ends and colours *)
(* holds for every node, and all paths have the same black height.         *)
(***************************************************************************)
TreeChecked ==
  /\ \A n \in InTree(tree) : CheckNode(tree, n)
  /\ CountBlack(tree, Root(tree)) # -1

(***************************************************************************)
(* The tree is the ordered set that sys/rbtree.h promises: an insertion    *)
(* returns the item with the same key if there is one, a removal takes out *)
(* that item alone, and searches and walks find what they should.          *)
(***************************************************************************)
Ordered == INSTANCE OrderedSet WITH items <- InTree(tree), Key <- RbKey
ImplementsOrderedSet == Ordered!Spec
=============================================================================
