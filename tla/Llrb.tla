-------------------------------- MODULE Llrb --------------------------------
(***************************************************************************)
(* The left-leaning red-black trees of the JIT (llrb.c), and the sets      *)
(* (set.h) and register maps (rmap.h) made of them.  A tree is NULL or a   *)
(* node with its two subtrees; no two trees share a node, so what an       *)
(* operation writes into nodes it returns as a new tree.                   *)
(*                                                                         *)
(* The recursive functions of llrb.c are functions of a number too: f[n]   *)
(* is what f does where n more calls may nest.  Depth is enough of them:   *)
(* no tree becomes higher (LlrbProofs.tla).                                *)
(***************************************************************************)
EXTENDS Integers, FiniteSets, TLC

CONSTANTS
  Owners,   \* the structures that hold a tree each
  Keys,
  Values,
  Inserts,  \* the keys with the values that are inserted for them
  Room      \* the nodes the tree of an owner may have: a bound of the model

ASSUME KeysAssumption == Keys \subseteq Int /\ IsFiniteSet(Keys)
ASSUME InsertsAssumption == Inserts \subseteq Keys \X Values
ASSUME RoomAssumption == Room \in [Owners -> Nat]

VARIABLE root   \* root[o] is the tree of o

RED == 1
BLACK == 0
NULL == [color |-> BLACK]

Depth == 2 * Cardinality(Keys)

\* The trees with at most n nodes on a way down.
Trees[n \in Nat] ==
  IF n = 0 THEN {NULL}
  ELSE LET T == Trees[n - 1]
       IN  {NULL} \cup [color : {RED, BLACK}, key : Keys, value : Values, left : T, right : T]
Tree == Trees[Depth]

-----------------------------------------------------------------------------
(* Nodes                                                                   *)

is_red(n) == n # NULL /\ n.color = RED

Flipped(n) == [n EXCEPT !.color = 1 - @]
color_flip(h) == [Flipped(h) EXCEPT !.left = Flipped(@), !.right = Flipped(@)]

rotate_left(h) ==
  LET x == h.right
  IN  [x EXCEPT !.left = [h EXCEPT !.right = x.left, !.color = RED], !.color = h.color]
rotate_right(h) ==
  LET x == h.left
  IN  [x EXCEPT !.right = [h EXCEPT !.left = x.right, !.color = RED], !.color = h.color]

\* The three repairs of fixup, one after the other.
LeanLeft(h) == IF is_red(h.right) THEN rotate_left(h) ELSE h
Unstack(h) ==
  IF is_red(h.left) /\ is_red(h.left.left) THEN color_flip(rotate_right(h)) ELSE h
Split(h) == IF is_red(h.left) /\ is_red(h.right) THEN color_flip(h) ELSE h
\* A mutant: without the second one.
TwoRepairs(h) == Split(LeanLeft(h))
fixup(h) == Split(Unstack(LeanLeft(h)))

node_new(key, value) ==
  [key |-> key, value |-> value, color |-> RED, left |-> NULL, right |-> NULL]

-----------------------------------------------------------------------------
(* Insertion, search                                                       *)

InsertBelow(h, key, value, insert) ==
  CASE h.key = key -> [h EXCEPT !.value = value]
    [] h.key > key -> [h EXCEPT !.left = insert[@][key][value]]
    [] h.key < key -> [h EXCEPT !.right = insert[@][key][value]]
node_insert[n \in Nat] ==
  [h \in Tree |-> [key \in Keys |-> [value \in Values |->
     IF n = 0 \/ h = NULL THEN node_new(key, value)
     ELSE fixup(InsertBelow(Split(h), key, value, node_insert[n - 1]))]]]

Blackened(h) == [h EXCEPT !.color = BLACK]
rb_insert(r, key, value) == Blackened(node_insert[Depth][r][key][value])

\* A mutant: the other way.
WrongWay(h, key) == IF h.key < key THEN h.left ELSE h.right
Way(h, key) == IF h.key > key THEN h.left ELSE h.right
search[n \in Nat] ==
  [h \in Tree |-> [key \in Keys |->
     IF n = 0 \/ h = NULL THEN NULL
     ELSE IF h.key = key THEN h
     ELSE search[n - 1][Way(h, key)][key]]]
rb_search(h, key) == search[Depth][h][key]

-----------------------------------------------------------------------------
(* Deletion                                                                *)

move_red_left(h) ==
  LET f == color_flip(h)
  IN  IF is_red(f.right.left)
      THEN color_flip(rotate_left([f EXCEPT !.right = rotate_right(@)])) ELSE f
move_red_right(h) ==
  LET f == color_flip(h)
  IN  IF is_red(f.left.left) THEN color_flip(rotate_right(f)) ELSE f

least[n \in Nat] ==
  [x \in Tree \ {NULL} |-> IF n = 0 \/ x.left = NULL THEN x.key ELSE least[n - 1][x.left]]
node_min(x) == least[Depth][x]

\* Whether the nodes on the way down have to be made red first.
LeftIsThin(h) == ~is_red(h.left) /\ h.left # NULL /\ ~is_red(h.left.left)
RightIsThin(h) == ~is_red(h.right) /\ h.right # NULL /\ ~is_red(h.right.left)

without_min[n \in Nat] ==
  [h \in Tree \ {NULL} |->
     IF n = 0 \/ h.left = NULL THEN NULL
     ELSE LET f == IF ~is_red(h.left) /\ ~is_red(h.left.left) THEN move_red_left(h) ELSE h
          IN  fixup([f EXCEPT !.left = without_min[n - 1][@]])]
delete_min(h) == without_min[Depth][h]

\* A mutant: the value stays.
OnlyKeyReplaced(h) == [h EXCEPT !.key = node_min(h.right), !.right = delete_min(@)]
\* The node takes over the key and the value of the next one, which is removed.
Replaced(h) ==
  [h EXCEPT !.value = rb_search(h.right, node_min(h.right)).value,
            !.key = node_min(h.right), !.right = delete_min(@)]

DeleteLeft(h, key, delete) == fixup([h EXCEPT !.left = delete[@][key]])
DeleteHere(h, key, delete) ==
  fixup(IF key = h.key THEN Replaced(h) ELSE [h EXCEPT !.right = delete[@][key]])
DeleteRight(h, key, delete) ==
  IF key = h.key /\ h.right = NULL THEN NULL
  ELSE DeleteHere(IF RightIsThin(h) THEN move_red_right(h) ELSE h, key, delete)
DeleteFrom(h, key, delete) ==
  IF key < h.key
  THEN DeleteLeft(IF LeftIsThin(h) THEN move_red_left(h) ELSE h, key, delete)
  ELSE DeleteRight(IF is_red(h.left) THEN rotate_right(h) ELSE h, key, delete)
delete_node[n \in Nat] ==
  [h \in Tree |-> [key \in Keys |->
     IF n = 0 \/ h = NULL THEN NULL ELSE DeleteFrom(h, key, delete_node[n - 1])]]

\* rb_delete
BlackRoot(h) == IF h = NULL THEN NULL ELSE Blackened(h)
rb_delete(r, key) == BlackRoot(delete_node[Depth][r][key])

-----------------------------------------------------------------------------
(* Whole trees                                                             *)

InsertNode(target, h) == rb_insert(target, h.key, h.value)
addall[n \in Nat] ==
  [target \in Tree |-> [h \in Tree |->
     IF n = 0 \/ h = NULL THEN target
     ELSE addall[n - 1][InsertNode(addall[n - 1][target][h.left], h)][h.right]]]
rb_addall(target, h) == addall[Depth][target][h]
rb_clone(r) == rb_addall(NULL, r)

\* The node h and those below it.
nodes[n \in Nat] ==
  [h \in Tree |->
     IF n = 0 \/ h = NULL THEN {}
     ELSE {h} \cup nodes[n - 1][h.left] \cup nodes[n - 1][h.right]]
Nodes(h) == nodes[Depth][h]

rb_subset(r, h) == \A x \in Nodes(h) : rb_search(r, x.key) # NULL
\* A mutant: one of the two inclusions.
Included(r1, r2) == rb_subset(r1, r2)
rb_equal(r1, r2) == rb_subset(r1, r2) /\ rb_subset(r2, r1)

\* jitset_get; rmap_get; rmap_is_associated: the key, or none.
jitset_get(o, key) == rb_search(root[o], key) # NULL
rmap_get(o, key) == rb_search(root[o], key).value
FirstOf(a, b) == IF a # {} THEN a ELSE b
associated[n \in Nat] ==
  [h \in Tree |-> [value \in Values |->
     IF n = 0 \/ h = NULL THEN {}
     ELSE IF h.value = value THEN {h.key}
     ELSE FirstOf(associated[n - 1][h.left][value], associated[n - 1][h.right][value])]]
rmap_is_associated(o, value) == associated[Depth][root[o]][value]

-----------------------------------------------------------------------------
(* Operations                                                              *)

Becomes(o, tree) == root' = [root EXCEPT ![o] = tree]
Fits(o, tree) == Cardinality(Nodes(tree)) <= Room[o]

Init == root = [o \in Owners |-> NULL]

\* jitset_set(s, key, 1), rmap_assoc
Insert(o, key, value) ==
  LET tree == rb_insert(root[o], key, value)
  IN  Fits(o, tree) /\ Becomes(o, tree)

\* jitset_set(s, key, 0), rmap_unassoc
Delete(o, key) == Becomes(o, rb_delete(root[o], key))

\* jitset_or
Or(o, s) ==
  LET tree == rb_addall(root[o], root[s])
  IN  o # s /\ Fits(o, tree) /\ Becomes(o, tree)

\* jitset_clone, rmap_clone: o gets a tree of its own.
Clone(o, s) ==
  /\ o # s /\ root[o] = NULL /\ Fits(o, root[s])
  /\ Becomes(o, rb_clone(root[s]))

\* jitset_free, rmap_free
Free(o) == root[o] # NULL /\ Becomes(o, NULL)

Next ==
  \/ \E o \in Owners, pair \in Inserts : Insert(o, pair[1], pair[2])
  \/ \E o \in Owners, key \in Keys : Delete(o, key)
  \/ \E o, s \in Owners : Or(o, s) \/ Clone(o, s)
  \/ \E o \in Owners : Free(o)

Spec == Init /\ [][Next]_root

-----------------------------------------------------------------------------
(* Properties                                                              *)

\* The map a tree stands for.
MapOf(n) ==
  [k \in {x.key : x \in Nodes(n)} |-> (CHOOSE x \in Nodes(n) : x.key = k).value]

Map == INSTANCE MapSpec WITH maps <- [o \in Owners |-> MapOf(root[o])]

\* Every operation does to the tree what it should do to the map: a deletion keeps
\* the values of the keys it moves, an insertion replaces the value of its key,
\* a union takes the values of the second tree, and a clone has the same keys.
ImplementsMap == Map!SSpec

\* The numbers of black nodes on the ways down.
black[n \in Nat] ==
  [h \in Tree |->
     IF n = 0 \/ h = NULL THEN {0}
     ELSE {b + 1 - h.color : b \in black[n - 1][h.left] \cup black[n - 1][h.right]}]
BlackHeights(h) == black[Depth][h]

\* The trees stay balanced, and leaning left, through insertions and deletions in
\* any order, so no search is longer than twice the shortest: all ways down have
\* as many black nodes, no red node has a red child, and no right child is red.
Balanced ==
  \A o \in Owners :
    /\ ~is_red(root[o])
    /\ Cardinality(BlackHeights(root[o])) = 1
    /\ \A n \in Nodes(root[o]) : ~is_red(n.right) /\ ~(is_red(n) /\ is_red(n.left))

\* A search finds what is in the tree, with its value, and nothing else, although
\* it follows one way down only; the register map also finds back the key of a
\* value that it holds.
FindsExactly ==
  \A o \in Owners :
    LET map == MapOf(root[o])
    IN  /\ \A k \in Keys : jitset_get(o, k) = (k \in DOMAIN map)
        /\ \A k \in DOMAIN map : rmap_get(o, k) = map[k]
        /\ \A v \in Values :
             IF \E k \in DOMAIN map : map[k] = v
             THEN \E k \in rmap_is_associated(o, v) : map[k] = v
             ELSE rmap_is_associated(o, v) = {}

\* Two sets are equal for rb_equal when they have the same elements, whatever the
\* orders of insertion and deletion that gave their trees different shapes: the
\* data-flow analysis ends when no set has changed.
EqualSets ==
  \A o, s \in Owners :
    rb_equal(root[o], root[s]) = (DOMAIN MapOf(root[o]) = DOMAIN MapOf(root[s]))
=============================================================================
