-------------------------------- MODULE RbTree --------------------------------
(***************************************************************************)
(* The red-black tree of nginx (src/core/ngx_rbtree.c) with the ordering of *)
(* the timers: keys are unsigned numbers that wrap around and are compared  *)
(* by the sign of their difference.  An insertion or a deletion is the      *)
(* change of the links followed by one step for each round of the loop that *)
(* rebalances the tree.                                                     *)
(*                                                                         *)
(* The two halves of the code, for a left and for a right child, are mirror *)
(* images; here they are one definition with the side as its parameter.     *)
(***************************************************************************)
EXTENDS Integers, Sequences, FiniteSets, SequencesExt

CONSTANTS
  Nodes,    \* the nodes that can be in the tree
  Nil,      \* the sentinel
  Modulus   \* keys are 0 .. Modulus - 1 (2^32 or 2^64 in the code)

ASSUME RbTreeAssumption ==
  /\ IsFiniteSet(Nodes) /\ Nil \notin Nodes
  /\ Modulus \in Nat /\ Modulus % 2 = 0

VARIABLES
  root,    \* tree->root
  child,   \* child["l"] and child["r"]: the pointers left and right
  parent,  \* the pointer parent; that of the sentinel is scratch space
  red,     \* the colour
  key,     \* the keys of the nodes in the tree
  pc,      \* "idle", "insert" or "delete": rebalancing after that operation
  at,      \* the variable node (insert) or temp (delete) of the loop
  order    \* the nodes of the tree in order; not in the code

vars == <<root, child, parent, red, key, pc, at, order>>

Sides == {"l", "r"}
Mirror(side) == IF side = "l" THEN "r" ELSE "l"
All == Nodes \cup {Nil}
Keys == 0..Modulus - 1

TypeOK ==
  /\ root \in All
  /\ child \in [Sides -> [Nodes -> All]]
  /\ parent \in [All -> All]
  /\ red \in [All -> BOOLEAN]
  /\ key \in [Nodes -> Keys]
  /\ pc \in {"idle", "insert", "delete"}
  /\ at \in All
  /\ order \in Seq(Nodes)

Init ==
  /\ root = Nil
  /\ child = [side \in Sides |-> [n \in Nodes |-> Nil]]
  /\ parent = [n \in All |-> Nil]
  /\ red = [n \in All |-> FALSE]
  /\ key = [n \in Nodes |-> 0]
  /\ pc = "idle" /\ at = Nil
  /\ order = <<>>

(* (ngx_rbtree_key_int_t) (a - b) < 0 *)
Less(a, b) == (a - b) % Modulus >= Modulus \div 2

InTree == {order[i] : i \in DOMAIN order}

(* A tree as a record, so that rotations and recolourings compose. *)
Tree == [root |-> root, child |-> child, parent |-> parent, red |-> red]

Becomes(t) ==
  /\ root' = t.root /\ child' = t.child /\ parent' = t.parent /\ red' = t.red

SideOf(t, n) == IF n = t.child["l"][t.parent[n]] THEN "l" ELSE "r"
Paint(t, n, isRed) == [t EXCEPT !.red[n] = isRed]

(* The parent of n, or the root pointer, points to m instead. *)
Replace(t, n, m) ==
  IF n = t.root THEN [t EXCEPT !.root = m]
                ELSE [t EXCEPT !.child[SideOf(t, n)][t.parent[n]] = m]

(* ngx_rbtree_left_rotate() for side = "l", ngx_rbtree_right_rotate() for "r" *)
Rotate(t, side, n) ==
  LET m == t.child[Mirror(side)][n]
      inner == t.child[side][m]
      t1 == [t EXCEPT !.child[Mirror(side)][n] = inner,
                      !.parent[inner] = IF inner = Nil THEN @ ELSE n]
      t2 == Replace(t1, n, m)
  IN  [t2 EXCEPT !.parent[m] = t.parent[n], !.child[side][m] = n, !.parent[n] = m]

-----------------------------------------------------------------------------
(* Where ngx_rbtree_insert_timer_value() attaches a node: an edge that leads to
   the sentinel, and on the way down every comparison chose that direction. *)
Down(k, n) == IF Less(k, key[n]) THEN "l" ELSE "r"

PathTo(k) ==
  LET reach[d \in 0..Cardinality(Nodes)] ==
        IF d = 0 THEN root
        ELSE LET n == reach[d - 1] IN
             IF child[Down(k, n)][n] = Nil THEN n ELSE child[Down(k, n)][n]
  IN  reach[Cardinality(Nodes)]

(* The keys in the tree lie within half of the range, as the code assumes. *)
Comparable(k) ==
  \E base \in {key[n] : n \in InTree} \cup {k} :
    \A j \in {key[n] : n \in InTree} \cup {k} : (j - base) % Modulus < Modulus \div 2

(* The order of time: a comes before b if b is less than half the range ahead. *)
Earlier(a, b) == \E d \in 1..(Modulus \div 2 - 1) : (a + d) % Modulus = b

(* The position of a new node in the reference: behind all that are not later. *)
InsertInOrder(n, k) ==
  LET before == SelectSeq(order, LAMBDA m : ~ Earlier(k, key[m]))
      behind == SelectSeq(order, LAMBDA m : Earlier(k, key[m]))
  IN  before \o <<n>> \o behind

(* ngx_rbtree_insert(), up to the loop *)
Insert(n, k) ==
  /\ pc = "idle" /\ n \notin InTree /\ Comparable(k)
  /\ key' = [key EXCEPT ![n] = k]
  /\ order' = InsertInOrder(n, k)
  /\ \/ /\ root = Nil
        /\ Becomes([Tree EXCEPT !.root = n, !.red[n] = FALSE, !.parent[n] = Nil])
        /\ UNCHANGED <<pc, at>>
     \/ /\ root # Nil
        /\ LET p == PathTo(k)
           IN  Becomes([Tree EXCEPT !.child[Down(k, p)][p] = n, !.parent[n] = p,
                                    !.red[n] = TRUE])
        /\ pc' = "insert" /\ at' = n

Uncle(n) == child[Mirror(SideOf(Tree, parent[n]))][parent[parent[n]]]

\* Bug: the inner grandchild is not rotated outwards first
InsertRotationSingle(n) ==
  LET side == SideOf(Tree, parent[n])
      p == parent[n]
      g == parent[p]
  IN  Rotate(Paint(Paint(Tree, p, FALSE), g, TRUE), Mirror(side), g)

(* A red parent and a black uncle: one or two rotations end the loop. *)
InsertRotation(n) ==
  LET side == SideOf(Tree, parent[n])
      inner == n = child[Mirror(side)][parent[n]]
      t == IF inner THEN Rotate(Tree, side, parent[n]) ELSE Tree
      m == IF inner THEN parent[n] ELSE n
      p == t.parent[m]
      g == t.parent[p]
  IN  Rotate(Paint(Paint(t, p, FALSE), g, TRUE), Mirror(side), g)

(* One round of the loop of ngx_rbtree_insert(), or its end *)
InsertFixup ==
  /\ pc = "insert"
  /\ LET unbalanced == at # root /\ red[parent[at]] IN
     \/ /\ unbalanced /\ red[Uncle(at)]
        /\ Becomes(Paint(Paint(Paint(Tree, parent[at], FALSE), Uncle(at), FALSE),
                         parent[parent[at]], TRUE))
        /\ at' = parent[parent[at]] /\ UNCHANGED pc
     \/ /\ unbalanced /\ ~ red[Uncle(at)]
        /\ LET t == InsertRotation(at) IN Becomes(Paint(t, t.root, FALSE))
        /\ pc' = "idle" /\ at' = Nil
     \/ /\ ~ unbalanced
        /\ Becomes(Paint(Tree, root, FALSE))
        /\ pc' = "idle" /\ at' = Nil
  /\ UNCHANGED <<key, order>>

-----------------------------------------------------------------------------
(* ngx_rbtree_min() of a subtree *)
LeftMost(n) ==
  LET down[d \in 0..Cardinality(Nodes)] ==
        IF d = 0 THEN n
        ELSE IF child["l"][down[d - 1]] = Nil THEN down[d - 1]
        ELSE child["l"][down[d - 1]]
  IN  down[Cardinality(Nodes)]

(* The node that leaves its place, and the one that takes it. *)
Subst(n) ==
  IF child["l"][n] = Nil \/ child["r"][n] = Nil THEN n ELSE LeftMost(child["r"][n])

Temp(n) ==
  LET s == Subst(n) IN IF child["l"][s] # Nil THEN child["l"][s] ELSE child["r"][s]

(* subst takes the place of node: its links, its colour and its children. *)
Substituted(t, n, s) ==
  LET t1 == [t EXCEPT !.child["l"][s] = t.child["l"][n],
                      !.child["r"][s] = t.child["r"][n],
                      !.parent[s] = t.parent[n], !.red[s] = t.red[n]]
      t2 == Replace(t1, n, s)
      kids == {t2.child[side][s] : side \in Sides} \ {Nil}
  IN  [t2 EXCEPT !.parent = [m \in All |-> IF m \in kids THEN s ELSE t2.parent[m]]]

(* node leaves the tree; what is left in it is cleared ("DEBUG stuff"). *)
Cleared(t, n) ==
  [t EXCEPT !.child["l"][n] = Nil, !.child["r"][n] = Nil, !.parent[n] = Nil,
            !.red[n] = FALSE]

NoKey == 0

(* ngx_rbtree_delete(), up to the loop *)
Delete(n) ==
  /\ pc = "idle" /\ n \in InTree
  /\ order' = SelectSeq(order, LAMBDA m : m # n)
  /\ key' = [key EXCEPT ![n] = NoKey]
  /\ LET s == Subst(n)
         x == Temp(n) IN
     \/ /\ s = root
        /\ Becomes(Cleared([Tree EXCEPT !.root = x, !.red[x] = FALSE], n))
        /\ UNCHANGED <<pc, at>>
     \/ /\ s # root
        /\ LET t1 == [Tree EXCEPT !.child[SideOf(Tree, s)][parent[s]] = x,
                                  !.parent[x] = IF s # n /\ parent[s] = n THEN s ELSE parent[s]]
               t2 == IF s = n THEN t1 ELSE Substituted(t1, n, s)
           IN  Becomes(Cleared(t2, n))
        /\ \/ red[s] /\ UNCHANGED <<pc, at>>
           \/ ~ red[s] /\ pc' = "delete" /\ at' = x

(* A red sibling is rotated above the parent: the new sibling is black. *)
RedSibling(x, side) ==
  LET w == child[Mirror(side)][parent[x]]
  IN  IF red[w] THEN Rotate(Paint(Paint(Tree, w, FALSE), parent[x], TRUE), side, parent[x])
                ELSE Tree

(* The last rotations of the deletion: the outer nephew is made red first. *)
DeleteRotation(t, x, side) ==
  LET w == t.child[Mirror(side)][t.parent[x]]
      t1 == IF t.red[t.child[Mirror(side)][w]] THEN t
            ELSE Rotate(Paint(Paint(t, t.child[side][w], FALSE), w, TRUE), Mirror(side), w)
      v == t1.child[Mirror(side)][t.parent[x]]
      p == t.parent[x]
      t2 == Paint(Paint(Paint(t1, v, t1.red[p]), p, FALSE), t1.child[Mirror(side)][v], FALSE)
  IN  Rotate(t2, side, p)

(* One round of the loop of ngx_rbtree_delete(), or its end *)
DeleteFixup ==
  /\ pc = "delete"
  /\ \/ /\ at # root /\ ~ red[at]
        /\ LET side == SideOf(Tree, at)
               t == RedSibling(at, side)
               w == t.child[Mirror(side)][t.parent[at]] IN
           \/ /\ \A s \in Sides : ~ t.red[t.child[s][w]]
              /\ Becomes(Paint(t, w, TRUE))
              /\ at' = t.parent[at] /\ UNCHANGED pc
           \/ /\ \E s \in Sides : t.red[t.child[s][w]]
              /\ LET t1 == DeleteRotation(t, at, side) IN Becomes(Paint(t1, t1.root, FALSE))
              /\ pc' = "idle" /\ at' = Nil
     \/ /\ at = root \/ red[at]
        /\ Becomes(Paint(Tree, at, FALSE))
        /\ pc' = "idle" /\ at' = Nil
  /\ UNCHANGED <<key, order>>

Next ==
  \/ \E n \in Nodes, k \in Keys : Insert(n, k)
  \/ \E n \in Nodes : Delete(n)
  \/ InsertFixup \/ DeleteFixup

Spec == Init /\ [][Next]_vars

-----------------------------------------------------------------------------
Depth == Cardinality(Nodes)

(* The nodes of a subtree, from left to right *)
Walk ==
  LET walk[d \in 0..Depth, n \in All] ==
        IF d = 0 \/ n = Nil THEN <<>>
        ELSE walk[d - 1, child["l"][n]] \o <<n>> \o walk[d - 1, child["r"][n]]
  IN  walk[Depth, root]

(* The set of the numbers of black nodes on the ways from a node to the sentinel *)
BlackHeights ==
  LET height[d \in 0..Depth, n \in All] ==
        IF d = 0 \/ n = Nil THEN {0}
        ELSE {h + (IF red[n] THEN 0 ELSE 1) :
                h \in height[d - 1, child["l"][n]] \cup height[d - 1, child["r"][n]]}
  IN  height[Depth, root]

(* The tree holds exactly the nodes that were put into it, in the order of their
   keys, equal keys in the order of insertion: at every moment, also between two
   rounds of rebalancing, and across the overflow of the keys.  The parent pointers
   agree with the child pointers, and the sentinel, shared by all leaves, stays black.
   Between operations the tree is balanced: the root is black, no red node has a red
   child, and all ways down have the same number of black nodes. *)
SearchTree ==
  /\ TypeOK
  /\ Walk = order
  /\ \A n \in InTree, s \in Sides : child[s][n] # Nil => parent[child[s][n]] = n
  /\ ~ red[Nil]
  /\ pc = "idle" =>
       /\ ~ red[root]
       /\ \A n \in InTree : red[n] => \A s \in Sides : ~ red[child[s][n]]
       /\ Cardinality(BlackHeights) = 1
===============================================================================
