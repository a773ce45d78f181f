----------------------------- MODULE LlrbProofs -----------------------------
(***************************************************************************)
(* Proofs about Llrb.tla, for every finite set of keys: the left-leaning   *)
(* red-black trees stay balanced through insertions and deletions in any   *)
(* order, are searched exactly, compared as sets, and implement maps.      *)
(*                                                                         *)
(* That a tree is balanced is not enough to prove that the next deletion   *)
(* leaves it so: the deletion goes down through nodes that it has made     *)
(* red, over trees that are not balanced for a while, and repairs them on  *)
(* the way back.  So the proof works with sets of pairs <<h, S>> of a tree *)
(* and what it holds:                                                      *)
(*   - Joins(c, L, R): a node of color c, with its left subtree from L and *)
(*     its right one from R, and the keys in order;                        *)
(*   - Even[b]: the trees that owners have, with b black nodes on each way *)
(*     down; Red, Either, Two, LeftRed, RightRed, Black and Stacked say    *)
(*     what stands above such trees.                                       *)
(* A lemma on each helper of llrb.c says from which of these sets to which *)
(* it leads (FixupEither, MoveRedLeft, MoveRedRight, ...), and the lemmas  *)
(* on one level of an operation use those (InsertLeftRed, SinkLeft,        *)
(* SinkRight).  The inductions over the calls that nest (InsertGood,       *)
(* MinGood, DeleteGood, AddAllGood) give what an operation does to a tree  *)
(* and to its pairs: InsertRooted, DeleteRooted and AddAllRooted.  The     *)
(* inductive invariant IInv says that the tree of every owner is in        *)
(* Even[b], for some b.                                                    *)
(***************************************************************************)
EXTENDS Llrb, Numbers

-----------------------------------------------------------------------------
(* The recursive functions: what one call does, and that the functions are *)
(* what their definitions say.                                             *)

TreesOf(n, f) ==
  IF n = 0 THEN {NULL}
  ELSE {NULL} \cup [color : {RED, BLACK}, key : Keys, value : Values, left : f, right : f]
Of_Trees == INSTANCE Recursion WITH Step <- TreesOf

InsertOf(n, f) ==
  [h \in Tree |-> [key \in Keys |-> [value \in Values |->
     IF n = 0 \/ h = NULL THEN node_new(key, value)
     ELSE fixup(InsertBelow(Split(h), key, value, f))]]]
Of_node_insert == INSTANCE Recursion WITH Step <- InsertOf

SearchOf(n, f) ==
  [h \in Tree |-> [key \in Keys |->
     IF n = 0 \/ h = NULL THEN NULL ELSE IF h.key = key THEN h ELSE f[Way(h, key)][key]]]
Of_search == INSTANCE Recursion WITH Step <- SearchOf

LeastOf(n, f) ==
  [x \in Tree \ {NULL} |-> IF n = 0 \/ x.left = NULL THEN x.key ELSE f[x.left]]
Of_least == INSTANCE Recursion WITH Step <- LeastOf

WithoutMinOf(n, f) ==
  [h \in Tree \ {NULL} |->
     IF n = 0 \/ h.left = NULL THEN NULL
     ELSE LET g == IF ~is_red(h.left) /\ ~is_red(h.left.left) THEN move_red_left(h) ELSE h
          IN  fixup([g EXCEPT !.left = f[@]])]
Of_without_min == INSTANCE Recursion WITH Step <- WithoutMinOf

DeleteOf(n, f) ==
  [h \in Tree |-> [key \in Keys |->
     IF n = 0 \/ h = NULL THEN NULL ELSE DeleteFrom(h, key, f)]]
Of_delete_node == INSTANCE Recursion WITH Step <- DeleteOf

AddAllOf(n, f) ==
  [target \in Tree |-> [h \in Tree |->
     IF n = 0 \/ h = NULL THEN target
     ELSE f[InsertNode(f[target][h.left], h)][h.right]]]
Of_addall == INSTANCE Recursion WITH Step <- AddAllOf

NodesOf(n, f) ==
  [h \in Tree |-> IF n = 0 \/ h = NULL THEN {} ELSE {h} \cup f[h.left] \cup f[h.right]]
Of_nodes == INSTANCE Recursion WITH Step <- NodesOf

AssociatedOf(n, f) ==
  [h \in Tree |-> [value \in Values |->
     IF n = 0 \/ h = NULL THEN {}
     ELSE IF h.value = value THEN {h.key}
     ELSE FirstOf(f[h.left][value], f[h.right][value])]]
Of_associated == INSTANCE Recursion WITH Step <- AssociatedOf

BlackOf(n, f) ==
  [h \in Tree |->
     IF n = 0 \/ h = NULL THEN {0}
     ELSE {b + 1 - h.color : b \in f[h.left] \cup f[h.right]}]
Of_black == INSTANCE Recursion WITH Step <- BlackOf

\* What Recursion.tla needs.
LEMMA NumberInduction ==
  \A P \in SUBSET Nat : 0 \in P /\ (\A n \in P : n + 1 \in P) => P = Nat
BY EveryNumber

LEMMA TreesIs == Trees = [n \in Nat |-> TreesOf(n, Trees[n - 1])]
<1>1. Trees = CHOOSE g : g = [n \in Nat |-> TreesOf(n, g[n - 1])]
  BY DEF Trees, TreesOf
<1>2. \A x : TreesOf(0, x) = TreesOf(0, 0)
  BY DEF TreesOf
<1>3. QED
  BY <1>1, <1>2, NumberInduction, Of_Trees!Recursive, Zenon DEF Of_Trees!Induction

LEMMA InsertIs == node_insert = [n \in Nat |-> InsertOf(n, node_insert[n - 1])]
<1>1. node_insert = CHOOSE g : g = [n \in Nat |-> InsertOf(n, g[n - 1])]
  BY DEF node_insert, InsertOf
<1>2. \A x : InsertOf(0, x) = InsertOf(0, 0)
  BY DEF InsertOf
<1>3. QED
  BY <1>1, <1>2, NumberInduction, Of_node_insert!Recursive, Zenon DEF Of_node_insert!Induction

LEMMA SearchIs == search = [n \in Nat |-> SearchOf(n, search[n - 1])]
<1>1. search = CHOOSE g : g = [n \in Nat |-> SearchOf(n, g[n - 1])]
  BY DEF search, SearchOf
<1>2. \A x : SearchOf(0, x) = SearchOf(0, 0)
  BY DEF SearchOf
<1>3. QED
  BY <1>1, <1>2, NumberInduction, Of_search!Recursive, Zenon DEF Of_search!Induction

LEMMA LeastIs == least = [n \in Nat |-> LeastOf(n, least[n - 1])]
<1>1. least = CHOOSE g : g = [n \in Nat |-> LeastOf(n, g[n - 1])]
  BY DEF least, LeastOf
<1>2. \A x : LeastOf(0, x) = LeastOf(0, 0)
  BY DEF LeastOf
<1>3. QED
  BY <1>1, <1>2, NumberInduction, Of_least!Recursive, Zenon DEF Of_least!Induction

LEMMA WithoutMinIs == without_min = [n \in Nat |-> WithoutMinOf(n, without_min[n - 1])]
<1>1. without_min = CHOOSE g : g = [n \in Nat |-> WithoutMinOf(n, g[n - 1])]
  BY DEF without_min, WithoutMinOf
<1>2. \A x : WithoutMinOf(0, x) = WithoutMinOf(0, 0)
  BY DEF WithoutMinOf
<1>3. QED
  BY <1>1, <1>2, NumberInduction, Of_without_min!Recursive, Zenon DEF Of_without_min!Induction

LEMMA DeleteIs == delete_node = [n \in Nat |-> DeleteOf(n, delete_node[n - 1])]
<1>1. delete_node = CHOOSE g : g = [n \in Nat |-> DeleteOf(n, g[n - 1])]
  BY DEF delete_node, DeleteOf
<1>2. \A x : DeleteOf(0, x) = DeleteOf(0, 0)
  BY DEF DeleteOf
<1>3. QED
  BY <1>1, <1>2, NumberInduction, Of_delete_node!Recursive, Zenon DEF Of_delete_node!Induction

LEMMA AddAllIs == addall = [n \in Nat |-> AddAllOf(n, addall[n - 1])]
<1>1. addall = CHOOSE g : g = [n \in Nat |-> AddAllOf(n, g[n - 1])]
  BY DEF addall, AddAllOf
<1>2. \A x : AddAllOf(0, x) = AddAllOf(0, 0)
  BY DEF AddAllOf
<1>3. QED
  BY <1>1, <1>2, NumberInduction, Of_addall!Recursive, Zenon DEF Of_addall!Induction

LEMMA NodesIs == nodes = [n \in Nat |-> NodesOf(n, nodes[n - 1])]
<1>1. nodes = CHOOSE g : g = [n \in Nat |-> NodesOf(n, g[n - 1])]
  BY DEF nodes, NodesOf
<1>2. \A x : NodesOf(0, x) = NodesOf(0, 0)
  BY DEF NodesOf
<1>3. QED
  BY <1>1, <1>2, NumberInduction, Of_nodes!Recursive, Zenon DEF Of_nodes!Induction

LEMMA AssociatedIs == associated = [n \in Nat |-> AssociatedOf(n, associated[n - 1])]
<1>1. associated = CHOOSE g : g = [n \in Nat |-> AssociatedOf(n, g[n - 1])]
  BY DEF associated, AssociatedOf
<1>2. \A x : AssociatedOf(0, x) = AssociatedOf(0, 0)
  BY DEF AssociatedOf
<1>3. QED
  BY <1>1, <1>2, NumberInduction, Of_associated!Recursive, Zenon DEF Of_associated!Induction

LEMMA BlackIs == black = [n \in Nat |-> BlackOf(n, black[n - 1])]
<1>1. black = CHOOSE g : g = [n \in Nat |-> BlackOf(n, g[n - 1])]
  BY DEF black, BlackOf
<1>2. \A x : BlackOf(0, x) = BlackOf(0, 0)
  BY DEF BlackOf
<1>3. QED
  BY <1>1, <1>2, NumberInduction, Of_black!Recursive, Zenon DEF Of_black!Induction

-----------------------------------------------------------------------------
(* Nodes, and what the operations do to them.                              *)

Node(c, k, v, l, r) == [color |-> c, key |-> k, value |-> v, left |-> l, right |-> r]
Colors == {RED, BLACK}

LEMMA NodeFields ==
  ASSUME NEW c, NEW k, NEW v, NEW l, NEW r
  PROVE  LET h == Node(c, k, v, l, r)
         IN  /\ h.color = c /\ h.key = k /\ h.value = v /\ h.left = l /\ h.right = r
             /\ h # NULL /\ (is_red(h) <=> c = RED)
<1> DEFINE h == Node(c, k, v, l, r)
<1>1. h.color = c /\ h.key = k /\ h.value = v /\ h.left = l /\ h.right = r
  BY DEF Node
<1>2. h # NULL
  <2>1. "key" \in DOMAIN h /\ "key" \notin DOMAIN NULL
    BY DEF Node, NULL
  <2>2. QED
    BY <2>1
<1>3. QED
  BY <1>1, <1>2 DEF is_red

LEMMA Reds ==
  ASSUME NEW k, NEW v, NEW l, NEW r
  PROVE  is_red(Node(RED, k, v, l, r)) /\ ~is_red(Node(BLACK, k, v, l, r)) /\ ~is_red(NULL)
<1>1. RED # BLACK
  BY DEF RED, BLACK
<1>2. QED
  BY <1>1, NodeFields DEF is_red

WithColor(h, x) == [h EXCEPT !.color = x]
WithKey(h, x) == [h EXCEPT !.key = x]
WithValue(h, x) == [h EXCEPT !.value = x]
WithLeft(h, x) == [h EXCEPT !.left = x]
WithRight(h, x) == [h EXCEPT !.right = x]

LEMMA NodeChanges ==
  ASSUME NEW c, NEW k, NEW v, NEW l, NEW r, NEW x
  PROVE  /\ WithColor(Node(c, k, v, l, r), x) = Node(x, k, v, l, r)
         /\ WithKey(Node(c, k, v, l, r), x) = Node(c, x, v, l, r)
         /\ WithValue(Node(c, k, v, l, r), x) = Node(c, k, x, l, r)
         /\ WithLeft(Node(c, k, v, l, r), x) = Node(c, k, v, x, r)
         /\ WithRight(Node(c, k, v, l, r), x) = Node(c, k, v, l, x)
  BY DEF Node, WithColor, WithKey, WithValue, WithLeft, WithRight

\* What the code writes, one field after the other.
LEMMA FlippedWrites ==
  ASSUME NEW h
  PROVE  Flipped(h) = WithColor(h, 1 - h.color)
  BY Zenon DEF Flipped, WithColor

LEMMA ColorFlipWrites ==
  ASSUME NEW h
  PROVE  color_flip(h) = WithRight(WithLeft(Flipped(h), Flipped(Flipped(h).left)), Flipped(Flipped(h).right))
  BY Zenon DEF color_flip, WithLeft, WithRight

LEMMA RotateLeftWrites ==
  ASSUME NEW h
  PROVE  rotate_left(h) = WithColor(WithLeft(h.right, WithColor(WithRight(h, h.right.left), RED)), h.color)
  BY Zenon DEF rotate_left, WithColor, WithLeft, WithRight

LEMMA RotateRightWrites ==
  ASSUME NEW h
  PROVE  rotate_right(h) = WithColor(WithRight(h.left, WithColor(WithLeft(h, h.left.right), RED)), h.color)
  BY Zenon DEF rotate_right, WithColor, WithLeft, WithRight

LEMMA Flip ==
  ASSUME NEW c, NEW k, NEW v, NEW l, NEW r
  PROVE  Flipped(Node(c, k, v, l, r)) = Node(1 - c, k, v, l, r)
  BY FlippedWrites, NodeChanges, NodeFields

LEMMA FlipNode ==
  ASSUME NEW c, NEW k, NEW v, NEW l, NEW r
  PROVE  color_flip(Node(c, k, v, l, r)) = Node(1 - c, k, v, Flipped(l), Flipped(r))
<1> DEFINE h == Node(1 - c, k, v, l, r)
<1>1. h.left = l /\ h.right = r
  BY NodeFields
<1>2. WithRight(WithLeft(h, Flipped(l)), Flipped(r)) = Node(1 - c, k, v, Flipped(l), Flipped(r))
  BY NodeChanges
<1>3. Flipped(Node(c, k, v, l, r)) = h
  BY Flip
<1> HIDE DEF h
<1>4. QED
  BY <1>1, <1>2, <1>3, ColorFlipWrites

LEMMA RotateLeft ==
  ASSUME NEW c, NEW k, NEW v, NEW l, NEW d, NEW j, NEW w, NEW a, NEW b
  PROVE  rotate_left(Node(c, k, v, l, Node(d, j, w, a, b)))
           = Node(c, j, w, Node(RED, k, v, l, a), b)
<1> DEFINE x == Node(d, j, w, a, b)
           h == Node(c, k, v, l, x)
<1>1. h.right = x /\ x.left = a /\ h.color = c
  BY NodeFields
<1>2. WithColor(WithRight(h, a), RED) = Node(RED, k, v, l, a)
  BY NodeChanges
<1>3. WithColor(WithLeft(x, Node(RED, k, v, l, a)), c) = Node(c, j, w, Node(RED, k, v, l, a), b)
  BY NodeChanges
<1> HIDE DEF x, h
<1>4. rotate_left(h) = Node(c, j, w, Node(RED, k, v, l, a), b)
  BY <1>1, <1>2, <1>3, RotateLeftWrites
<1>5. QED
  BY <1>4 DEF x, h

LEMMA RotateRight ==
  ASSUME NEW c, NEW k, NEW v, NEW r, NEW d, NEW j, NEW w, NEW a, NEW b
  PROVE  rotate_right(Node(c, k, v, Node(d, j, w, a, b), r))
           = Node(c, j, w, a, Node(RED, k, v, b, r))
<1> DEFINE x == Node(d, j, w, a, b)
           h == Node(c, k, v, x, r)
<1>1. h.left = x /\ x.right = b /\ h.color = c
  BY NodeFields
<1>2. WithColor(WithLeft(h, b), RED) = Node(RED, k, v, b, r)
  BY NodeChanges
<1>3. WithColor(WithRight(x, Node(RED, k, v, b, r)), c) = Node(c, j, w, a, Node(RED, k, v, b, r))
  BY NodeChanges
<1> HIDE DEF x, h
<1>4. rotate_right(h) = Node(c, j, w, a, Node(RED, k, v, b, r))
  BY <1>1, <1>2, <1>3, RotateRightWrites
<1>5. QED
  BY <1>4 DEF x, h

-----------------------------------------------------------------------------
(* Trees together with the pairs of a key and a value that they hold.      *)

Pairs == Keys \X Values
Put(S, k, v) == {p \in S : p[1] # k} \cup {<<k, v>>}
Cut(S, k) == {p \in S : p[1] # k}

\* k is between the keys of A and those of D.
Between(A, k, D) ==
  A \subseteq Pairs /\ D \subseteq Pairs /\ (\A p \in A : p[1] < k) /\ (\A p \in D : k < p[1])

\* The nodes of a color with their left subtree from L, their right one from R.
Joins(c, L, R) ==
  {<<Node(c, q[1], q[2], q[3][1], q[4][1]), q[3][2] \cup {<<q[1], q[2]>>} \cup q[4][2]>> :
     q \in {s \in Keys \X Values \X L \X R : Between(s[3][2], s[1], s[4][2])}}

Kind(X) == \A x \in X : x = <<x[1], x[2]>> /\ x[2] \subseteq Pairs

LEMMA JoinIntro ==
  ASSUME NEW c, NEW L, NEW R, NEW k \in Keys, NEW v \in Values, NEW l, NEW A, NEW r, NEW D, NEW S,
         <<l, A>> \in L, <<r, D>> \in R, Between(A, k, D), S = A \cup {<<k, v>>} \cup D
  PROVE  <<Node(c, k, v, l, r), S>> \in Joins(c, L, R)
<1> DEFINE q == <<k, v, <<l, A>>, <<r, D>>>>
<1>1. q \in {s \in Keys \X Values \X L \X R : Between(s[3][2], s[1], s[4][2])}
  OBVIOUS
<1>2. q[1] = k /\ q[2] = v /\ q[3][1] = l /\ q[3][2] = A /\ q[4][1] = r /\ q[4][2] = D
  OBVIOUS
<1> HIDE DEF q
<1>3. <<Node(c, q[1], q[2], q[3][1], q[4][1]), q[3][2] \cup {<<q[1], q[2]>>} \cup q[4][2]>>
        \in Joins(c, L, R)
  BY <1>1, Zenon DEF Joins
<1>4. QED
  BY <1>2, <1>3

\* The parts of a node h that holds S.
Parts(h, S, c, L, R, k, v, l, A, r, D) ==
  /\ k \in Keys /\ v \in Values /\ <<l, A>> \in L /\ <<r, D>> \in R /\ Between(A, k, D)
  /\ h = Node(c, k, v, l, r) /\ S = A \cup {<<k, v>>} \cup D

LEMMA JoinElim ==
  ASSUME NEW c, NEW L, NEW R, Kind(L), Kind(R), NEW x \in Joins(c, L, R)
  PROVE  x = <<x[1], x[2]>> /\ \E k, v, l, A, r, D : Parts(x[1], x[2], c, L, R, k, v, l, A, r, D)
<1>1. PICK q \in {s \in Keys \X Values \X L \X R : Between(s[3][2], s[1], s[4][2])} :
        x = <<Node(c, q[1], q[2], q[3][1], q[4][1]), q[3][2] \cup {<<q[1], q[2]>>} \cup q[4][2]>>
  BY Zenon DEF Joins
<1>2. q[1] \in Keys /\ q[2] \in Values /\ q[3] \in L /\ q[4] \in R
  OBVIOUS
<1>3. Between(q[3][2], q[1], q[4][2])
  OBVIOUS
<1>4. <<q[3][1], q[3][2]>> \in L /\ <<q[4][1], q[4][2]>> \in R
  BY <1>2, Zenon DEF Kind
<1>5. /\ x[1] = Node(c, q[1], q[2], q[3][1], q[4][1])
      /\ x[2] = q[3][2] \cup {<<q[1], q[2]>>} \cup q[4][2]
      /\ x = <<x[1], x[2]>>
  BY <1>1
<1>6. Parts(x[1], x[2], c, L, R, q[1], q[2], q[3][1], q[3][2], q[4][1], q[4][2])
  BY <1>2, <1>3, <1>4, <1>5, Zenon DEF Parts
<1>7. QED
  BY <1>5, <1>6, Zenon

LEMMA JoinParts ==
  ASSUME NEW c, NEW L, NEW R, Kind(L), Kind(R), NEW h, NEW S, <<h, S>> \in Joins(c, L, R)
  PROVE  \E k, v, l, A, r, D : Parts(h, S, c, L, R, k, v, l, A, r, D)
<1> DEFINE x == <<h, S>>
<1>1. x[1] = h /\ x[2] = S
  OBVIOUS
<1>2. x \in Joins(c, L, R)
  OBVIOUS
<1> HIDE DEF x
<1>3. \E k, v, l, A, r, D : Parts(x[1], x[2], c, L, R, k, v, l, A, r, D)
  BY <1>2, JoinElim, Zenon
<1>4. QED
  BY <1>1, <1>3

LEMMA JoinKind ==
  ASSUME NEW c, NEW L, NEW R, Kind(L), Kind(R)
  PROVE  Kind(Joins(c, L, R))
<1> SUFFICES ASSUME NEW x \in Joins(c, L, R)
             PROVE  x = <<x[1], x[2]>> /\ x[2] \subseteq Pairs
  BY DEF Kind
<1>1. PICK k, v, l, A, r, D : Parts(x[1], x[2], c, L, R, k, v, l, A, r, D)
  BY JoinElim, Zenon
<1>2. x[2] = A \cup {<<k, v>>} \cup D /\ k \in Keys /\ v \in Values
      /\ A \subseteq Pairs /\ D \subseteq Pairs /\ x = <<x[1], x[2]>>
  BY <1>1, JoinElim DEF Parts, Between
<1>3. A \cup {<<k, v>>} \cup D \subseteq Pairs
  BY <1>2 DEF Pairs
<1>4. QED
  BY <1>2, <1>3

LEMMA JoinMonotone ==
  ASSUME NEW c, NEW L, NEW R, NEW L2, NEW R2, L \subseteq L2, R \subseteq R2
  PROVE  Joins(c, L, R) \subseteq Joins(c, L2, R2)
  BY DEF Joins

-----------------------------------------------------------------------------
(* The order of the keys.                                                  *)

LEMMA KeysAreNumbers ==
  /\ \A k \in Keys : k \in Int
  /\ \A p \in Pairs : p[1] \in Keys /\ p[1] \in Int /\ p[2] \in Values /\ p = <<p[1], p[2]>>
<1>1. \A k \in Keys : k \in Int
  BY KeysAssumption
<1>2. ASSUME NEW p \in Pairs
      PROVE  p[1] \in Keys /\ p[2] \in Values /\ p = <<p[1], p[2]>>
  BY DEF Pairs
<1>3. QED
  BY <1>1, <1>2

\* A subtree in the middle may hang from the right.
LEMMA HangRight ==
  ASSUME NEW j \in Keys, NEW k \in Keys, NEW v \in Values, NEW w \in Values, NEW A, NEW B, NEW D,
         Between(A \cup {<<k, v>>} \cup B, j, D), Between(A, k, B)
  PROVE  Between(A, k, B \cup {<<j, w>>} \cup D) /\ Between(B, j, D) /\ k < j
<1>1. <<j, w>> \in Pairs /\ <<k, v>> \in Pairs /\ <<j, w>>[1] = j /\ <<k, v>>[1] = k
      /\ j \in Int /\ k \in Int
  BY KeysAreNumbers DEF Pairs
<1>2. k < j
  BY <1>1 DEF Between
<1>3. A \subseteq Pairs /\ B \subseteq Pairs /\ D \subseteq Pairs
  BY DEF Between
<1>4. \A p \in D : p[1] \in Int /\ j < p[1]
  BY <1>3, KeysAreNumbers DEF Between
<1>5. \A p \in D : k < p[1]
  BY <1>1, <1>2, <1>4
<1>6. QED
  BY <1>1, <1>2, <1>3, <1>5 DEF Between

\* Or from the left.
LEMMA Regroup ==
  ASSUME NEW j \in Keys, NEW k \in Keys, NEW v \in Values, NEW w \in Values, NEW A, NEW B, NEW D
  PROVE  /\ (A \cup {<<k, v>>} \cup B) \cup {<<j, w>>} \cup D
              = A \cup {<<k, v>>} \cup (B \cup {<<j, w>>} \cup D)
         /\ Between(A, k, B \cup {<<j, w>>} \cup D) /\ Between(B, j, D)
            <=> Between(A \cup {<<k, v>>} \cup B, j, D) /\ Between(A, k, B)
         /\ Between(A, k, B \cup {<<j, w>>} \cup D) => k < j
         /\ Between(A \cup {<<k, v>>} \cup B, j, D) => k < j
<1>1. (A \cup {<<k, v>>} \cup B) \cup {<<j, w>>} \cup D
        = A \cup {<<k, v>>} \cup (B \cup {<<j, w>>} \cup D)
  OBVIOUS
<1>2. <<j, w>> \in Pairs /\ <<k, v>> \in Pairs /\ <<j, w>>[1] = j /\ <<k, v>>[1] = k
      /\ j \in Int /\ k \in Int
  BY KeysAreNumbers DEF Pairs
<1>3. ASSUME Between(A, k, B \cup {<<j, w>>} \cup D)
      PROVE  k < j
  BY <1>2, <1>3 DEF Between
<1>4. ASSUME Between(A \cup {<<k, v>>} \cup B, j, D)
      PROVE  k < j
  BY <1>2, <1>4 DEF Between
<1>5. ASSUME Between(A, k, B \cup {<<j, w>>} \cup D), Between(B, j, D)
      PROVE  Between(A \cup {<<k, v>>} \cup B, j, D) /\ Between(A, k, B)
  <2>1. A \subseteq Pairs /\ B \subseteq Pairs /\ D \subseteq Pairs
    BY <1>5 DEF Between
  <2>2. \A p \in A : p[1] \in Int /\ p[1] < k
    BY <1>5, <2>1, KeysAreNumbers DEF Between
  <2>3. \A p \in A : p[1] < j
    BY <1>2, <1>3, <1>5, <2>2
  <2>4. QED
    BY <1>2, <1>3, <1>5, <2>1, <2>3 DEF Between
<1>6. ASSUME Between(A \cup {<<k, v>>} \cup B, j, D), Between(A, k, B)
      PROVE  Between(A, k, B \cup {<<j, w>>} \cup D) /\ Between(B, j, D)
  BY <1>6, HangRight, Zenon
<1>7. QED
  BY <1>1, <1>3, <1>4, <1>5, <1>6

-----------------------------------------------------------------------------
(* Trees of which every way down has as many black nodes: X are those of   *)
(* some number of them with a black root, or none.                         *)

Red(X) == Joins(RED, X, X)
Either(X) == X \cup Red(X)
Two(X) == Joins(BLACK, X, X)
LeftRed(X) == Joins(BLACK, Red(X), X)
RightRed(X) == Joins(BLACK, X, Red(X))
Black(X) == Joins(BLACK, Either(X), X)
Stacked(X) == Joins(RED, Either(X), X)

Tame(X) == Kind(X) /\ \A x \in X : ~is_red(x[1])

LEMMA TameKinds ==
  ASSUME NEW X, Tame(X)
  PROVE  /\ Kind(X) /\ Kind(Red(X)) /\ Kind(Either(X)) /\ Kind(Two(X)) /\ Kind(LeftRed(X))
         /\ Kind(RightRed(X)) /\ Kind(Black(X)) /\ Kind(Stacked(X))
<1>1. Kind(X)
  BY DEF Tame
<1>2. Kind(Red(X))
  BY <1>1, JoinKind, Zenon DEF Red
<1>3. Kind(Either(X))
  BY <1>1, <1>2, Zenon DEF Either, Kind
<1>4. QED
  BY <1>1, <1>2, <1>3, JoinKind, Zenon DEF Two, LeftRed, RightRed, Black, Stacked

LEMMA JoinRed ==
  ASSUME NEW c, NEW L, NEW R, Kind(L), Kind(R), NEW h, NEW S, <<h, S>> \in Joins(c, L, R)
  PROVE  h # NULL /\ (is_red(h) <=> c = RED) /\ S \subseteq Pairs
<1>1. PICK k, v, l, A, r, D : Parts(h, S, c, L, R, k, v, l, A, r, D)
  BY JoinParts, Zenon
<1>2. h # NULL /\ (is_red(h) <=> c = RED)
  BY <1>1, NodeFields DEF Parts
<1>3. Kind(Joins(c, L, R))
  BY JoinKind, Zenon
<1>4. S \subseteq Pairs
  <2>1. <<h, S>>[2] \subseteq Pairs
    BY <1>3, Zenon DEF Kind
  <2>2. QED
    BY <2>1
<1>5. QED
  BY <1>2, <1>4

LEMMA TameRoot ==
  ASSUME NEW X, Tame(X), NEW h, NEW S, <<h, S>> \in X
  PROVE  ~is_red(h) /\ S \subseteq Pairs
<1>1. ~is_red(<<h, S>>[1]) /\ <<h, S>>[2] \subseteq Pairs
  BY Zenon DEF Tame, Kind
<1>2. QED
  BY <1>1

LEMMA BlackTame ==
  ASSUME NEW X, Tame(X)
  PROVE  Tame(Black(X))
<1>1. Kind(X) /\ Kind(Either(X)) /\ Kind(Black(X))
  BY TameKinds, Zenon
<1>2. ASSUME NEW x \in Black(X)
      PROVE  ~is_red(x[1])
  <2>1. x = <<x[1], x[2]>>
    BY <1>1, <1>2, Zenon DEF Kind
  <2>2. <<x[1], x[2]>> \in Joins(BLACK, Either(X), X)
    BY <1>2, <2>1 DEF Black
  <2>3. is_red(x[1]) <=> BLACK = RED
    BY <1>1, <2>2, JoinRed, Zenon
  <2>4. QED
    BY <2>3 DEF BLACK, RED
<1>3. QED
  BY <1>1, <1>2, Zenon DEF Tame

\* A node with such trees below it has a red left child, or none.
LEMMA EitherSide ==
  ASSUME NEW X, NEW c, NEW R
  PROVE  /\ Joins(c, Either(X), R) = Joins(c, X, R) \cup Joins(c, Red(X), R)
         /\ Joins(c, R, Either(X)) = Joins(c, R, X) \cup Joins(c, R, Red(X))
  BY DEF Joins, Either

LEMMA BlackParts ==
  ASSUME NEW X
  PROVE  Black(X) = Two(X) \cup LeftRed(X)
  BY EitherSide DEF Black, Two, LeftRed

LEMMA BlackSide ==
  ASSUME NEW X, NEW c, NEW R
  PROVE  /\ Joins(c, Black(X), R) = Joins(c, Two(X), R) \cup Joins(c, LeftRed(X), R)
         /\ Joins(c, R, Black(X)) = Joins(c, R, Two(X)) \cup Joins(c, R, LeftRed(X))
<1> DEFINE A == Black(X)
           B == Two(X)
           D == LeftRed(X)
<1>1. A = B \cup D
  BY BlackParts
<1> HIDE DEF A, B, D
<1>2. Joins(c, A, R) = Joins(c, B, R) \cup Joins(c, D, R)
  BY <1>1 DEF Joins
<1>3. Joins(c, R, A) = Joins(c, R, B) \cup Joins(c, R, D)
  BY <1>1 DEF Joins
<1>4. QED
  BY <1>2, <1>3 DEF A, B, D

LEMMA StackedParts ==
  ASSUME NEW X
  PROVE  Stacked(X) = Red(X) \cup Joins(RED, Red(X), X)
  BY EitherSide DEF Stacked, Red

-----------------------------------------------------------------------------
(* fixup.                                                                  *)

\* One red child: it goes to the left.
LEMMA FixupOne ==
  ASSUME NEW X, Tame(X), NEW c \in Colors, NEW h, NEW S,
         <<h, S>> \in Joins(c, Either(X), X) \cup Joins(c, X, Either(X))
  PROVE  <<fixup(h), S>> \in Joins(c, Either(X), X)
<1>0. Kind(X) /\ Kind(Red(X)) /\ Kind(Either(X))
  BY TameKinds, Zenon
<1>1. CASE <<h, S>> \in Joins(c, Either(X), X)
  <2>1. PICK k, v, l, A, r, D : Parts(h, S, c, Either(X), X, k, v, l, A, r, D)
    BY <1>0, <1>1, JoinParts, Zenon
  <2>2. <<l, A>> \in Either(X) /\ <<r, D>> \in X /\ h = Node(c, k, v, l, r)
    BY <2>1, Zenon DEF Parts
  <2>3. h.left = l /\ h.right = r /\ ~is_red(r)
    BY <2>2, NodeFields, TameRoot
  <2>4. LeanLeft(h) = h
    BY <2>3, Zenon DEF LeanLeft
  <2>5. ~(is_red(l) /\ is_red(l.left))
    <3>1. CASE <<l, A>> \in X
      BY <3>1, TameRoot, Zenon
    <3>2. CASE <<l, A>> \in Red(X)
      <4>1. PICK j, w, a, B, b, E : Parts(l, A, RED, X, X, j, w, a, B, b, E)
        BY <1>0, <3>2, JoinParts, Zenon DEF Red
      <4>2. <<a, B>> \in X /\ l = Node(RED, j, w, a, b)
        BY <4>1, Zenon DEF Parts
      <4>3. l.left = a /\ ~is_red(a)
        BY <4>2, NodeFields, TameRoot
      <4>4. QED
        BY <4>3
    <3>3. QED
      BY <2>2, <3>1, <3>2 DEF Either
  <2>6. Unstack(h) = h /\ Split(h) = h
    BY <2>3, <2>5, Zenon DEF Unstack, Split
  <2>7. QED
    BY <1>1, <2>4, <2>6, Zenon DEF fixup
<1>2. CASE <<h, S>> \in Joins(c, X, Red(X))
  <2>1. PICK k, v, l, A, r, D : Parts(h, S, c, X, Red(X), k, v, l, A, r, D)
    BY <1>0, <1>2, JoinParts, Zenon
  <2>2. <<r, D>> \in Red(X)
    BY <2>1, Zenon DEF Parts
  <2>3. PICK j, w, a, B, b, E : Parts(r, D, RED, X, X, j, w, a, B, b, E)
    BY <1>0, <2>2, JoinParts, Zenon DEF Red
  <2>4. /\ k \in Keys /\ v \in Values /\ j \in Keys /\ w \in Values
        /\ <<l, A>> \in X /\ <<a, B>> \in X /\ <<b, E>> \in X
        /\ Between(A, k, B \cup {<<j, w>>} \cup E) /\ Between(B, j, E)
        /\ h = Node(c, k, v, l, r) /\ r = Node(RED, j, w, a, b)
        /\ S = A \cup {<<k, v>>} \cup (B \cup {<<j, w>>} \cup E)
    BY <2>1, <2>3, Zenon DEF Parts
  <2> DEFINE g == Node(c, j, w, Node(RED, k, v, l, a), b)
             T == A \cup {<<k, v>>} \cup B
  <2>5. Between(A, k, B) /\ Between(T, j, E) /\ S = T \cup {<<j, w>>} \cup E
    BY <2>4, Regroup
  <2>6. <<Node(RED, k, v, l, a), T>> \in Either(X)
    BY <2>4, <2>5, JoinIntro DEF Red, Either
  <2>7. <<g, S>> \in Joins(c, Either(X), X)
    BY <2>4, <2>5, <2>6, JoinIntro
  <2>8. LeanLeft(h) = g
    <3>1. is_red(r)
      BY <2>4, Reds
    <3>2. h.right = r
      BY <2>4, NodeFields
    <3>3. rotate_left(h) = g
      BY <2>4, RotateLeft
    <3>4. QED
      BY <3>1, <3>2, <3>3, Zenon DEF LeanLeft
  <2>9. g.left.left = l /\ ~is_red(l) /\ g.right = b /\ ~is_red(b)
    BY <2>4, NodeFields, TameRoot
  <2> HIDE DEF g
  <2>10. Unstack(g) = g /\ Split(g) = g
    BY <2>9, Zenon DEF Unstack, Split
  <2>11. QED
    BY <2>7, <2>8, <2>10, Zenon DEF fixup
<1>3. QED
  <2>1. Joins(c, X, Either(X)) = Joins(c, X, X) \cup Joins(c, X, Red(X))
    BY EitherSide
  <2>2. Joins(c, Either(X), X) = Joins(c, X, X) \cup Joins(c, Red(X), X)
    BY EitherSide
  <2>3. QED
    BY <1>1, <1>2, <2>1, <2>2

LEMMA FlipJoin ==
  ASSUME NEW c, NEW L, NEW R, Kind(L), Kind(R), NEW h, NEW S, <<h, S>> \in Joins(c, L, R)
  PROVE  <<Flipped(h), S>> \in Joins(1 - c, L, R)
<1>1. PICK k, v, l, A, r, D : Parts(h, S, c, L, R, k, v, l, A, r, D)
  BY JoinParts, Zenon
<1>2. /\ k \in Keys /\ v \in Values /\ <<l, A>> \in L /\ <<r, D>> \in R /\ Between(A, k, D)
      /\ Flipped(h) = Node(1 - c, k, v, l, r) /\ S = A \cup {<<k, v>>} \cup D
  BY <1>1, Flip DEF Parts
<1>3. QED
  BY <1>2, JoinIntro

\* color_flip changes the colors of a node and of both its children.
LEMMA FlipJoins ==
  ASSUME NEW c, NEW d, NEW e, NEW L, NEW R, NEW M, NEW N, Kind(L), Kind(R), Kind(M), Kind(N),
         NEW h, NEW S, <<h, S>> \in Joins(c, Joins(d, L, R), Joins(e, M, N))
  PROVE  /\ <<color_flip(h), S>> \in Joins(1 - c, Joins(1 - d, L, R), Joins(1 - e, M, N))
         /\ color_flip(h).key = h.key /\ color_flip(h).left = Flipped(h.left)
         /\ color_flip(h).right = Flipped(h.right)
<1> DEFINE LL == Joins(d, L, R)
           RR == Joins(e, M, N)
<1>1. Kind(LL) /\ Kind(RR)
  BY JoinKind, Zenon
<1>2. PICK k, v, l, A, r, D : Parts(h, S, c, LL, RR, k, v, l, A, r, D)
  BY <1>1, JoinParts, Zenon
<1>3. /\ k \in Keys /\ v \in Values /\ <<l, A>> \in LL /\ <<r, D>> \in RR /\ Between(A, k, D)
      /\ h = Node(c, k, v, l, r) /\ S = A \cup {<<k, v>>} \cup D
  BY <1>2, Zenon DEF Parts
<1>4. <<Flipped(l), A>> \in Joins(1 - d, L, R)
  BY <1>3, FlipJoin, Zenon
<1>5. <<Flipped(r), D>> \in Joins(1 - e, M, N)
  BY <1>3, FlipJoin, Zenon
<1>6. color_flip(h) = Node(1 - c, k, v, Flipped(l), Flipped(r))
  BY <1>3, FlipNode
<1>7. color_flip(h).key = h.key /\ color_flip(h).left = Flipped(h.left)
      /\ color_flip(h).right = Flipped(h.right)
  BY <1>3, <1>6, NodeFields
<1>8. QED
  BY <1>3, <1>4, <1>5, <1>6, <1>7, JoinIntro

\* A rotation to the right, of a node with a left child.
LEMMA RotateRightJoin ==
  ASSUME NEW c, NEW d, NEW L, NEW M, NEW R, Kind(L), Kind(M), Kind(R),
         NEW h, NEW S, <<h, S>> \in Joins(c, Joins(d, L, M), R)
  PROVE  /\ <<rotate_right(h), S>> \in Joins(c, L, Joins(RED, M, R))
         /\ rotate_right(h).key < h.key /\ rotate_right(h).right.key = h.key
<1> DEFINE LL == Joins(d, L, M)
<1>1. Kind(LL)
  BY JoinKind, Zenon
<1>2. PICK k, v, l, A, r, D : Parts(h, S, c, LL, R, k, v, l, A, r, D)
  BY <1>1, JoinParts, Zenon
<1>3. <<l, A>> \in Joins(d, L, M)
  BY <1>2, Zenon DEF Parts
<1>4. PICK j, w, a, B, b, E : Parts(l, A, d, L, M, j, w, a, B, b, E)
  BY <1>3, JoinParts, Zenon
<1>5. /\ k \in Keys /\ v \in Values /\ j \in Keys /\ w \in Values
      /\ <<a, B>> \in L /\ <<b, E>> \in M /\ <<r, D>> \in R
      /\ Between(B \cup {<<j, w>>} \cup E, k, D) /\ Between(B, j, E)
      /\ h = Node(c, k, v, Node(d, j, w, a, b), r)
      /\ S = (B \cup {<<j, w>>} \cup E) \cup {<<k, v>>} \cup D
  BY <1>2, <1>4, Zenon DEF Parts
<1> DEFINE T == E \cup {<<k, v>>} \cup D
<1>6. Between(B, j, T) /\ Between(E, k, D) /\ S = B \cup {<<j, w>>} \cup T /\ j < k
  <2>1. S = B \cup {<<j, w>>} \cup T
    BY <1>5
  <2>2. Between(B, j, E \cup {<<k, v>>} \cup D) /\ Between(E, k, D)
    BY <1>5, HangRight
  <2>3. j < k
    BY <1>5, HangRight
  <2>4. QED
    BY <2>1, <2>2, <2>3
<1>7. <<Node(RED, k, v, b, r), T>> \in Joins(RED, M, R)
  BY <1>5, <1>6, JoinIntro
<1>8. rotate_right(h) = Node(c, j, w, a, Node(RED, k, v, b, r))
  BY <1>5, RotateRight
<1>9. <<rotate_right(h), S>> \in Joins(c, L, Joins(RED, M, R))
  BY <1>5, <1>6, <1>7, <1>8, JoinIntro
<1>10. rotate_right(h).key = j /\ rotate_right(h).right.key = k /\ h.key = k
  BY <1>5, <1>8, NodeFields
<1>11. QED
  BY <1>6, <1>9, <1>10

\* And to the left.
LEMMA RotateLeftJoin ==
  ASSUME NEW c, NEW d, NEW L, NEW M, NEW R, Kind(L), Kind(M), Kind(R),
         NEW h, NEW S, <<h, S>> \in Joins(c, L, Joins(d, M, R))
  PROVE  /\ <<rotate_left(h), S>> \in Joins(c, Joins(RED, L, M), R)
         /\ h.key < rotate_left(h).key
<1> DEFINE RR == Joins(d, M, R)
<1>1. Kind(RR)
  BY JoinKind, Zenon
<1>2. PICK k, v, l, A, r, D : Parts(h, S, c, L, RR, k, v, l, A, r, D)
  BY <1>1, JoinParts, Zenon
<1>3. <<r, D>> \in Joins(d, M, R)
  BY <1>2, Zenon DEF Parts
<1>4. PICK j, w, a, B, b, E : Parts(r, D, d, M, R, j, w, a, B, b, E)
  BY <1>3, JoinParts, Zenon
<1>5. /\ k \in Keys /\ v \in Values /\ j \in Keys /\ w \in Values
      /\ <<l, A>> \in L /\ <<a, B>> \in M /\ <<b, E>> \in R
      /\ Between(A, k, B \cup {<<j, w>>} \cup E) /\ Between(B, j, E)
      /\ h = Node(c, k, v, l, Node(d, j, w, a, b))
      /\ S = A \cup {<<k, v>>} \cup (B \cup {<<j, w>>} \cup E)
  BY <1>2, <1>4, Zenon DEF Parts
<1> DEFINE T == A \cup {<<k, v>>} \cup B
<1>6. Between(A, k, B) /\ Between(T, j, E) /\ S = T \cup {<<j, w>>} \cup E /\ k < j
  BY <1>5, Regroup
<1>7. <<Node(RED, k, v, l, a), T>> \in Joins(RED, L, M)
  BY <1>5, <1>6, JoinIntro
<1>8. rotate_left(h) = Node(c, j, w, Node(RED, k, v, l, a), b)
  BY <1>5, RotateLeft
<1>9. <<rotate_left(h), S>> \in Joins(c, Joins(RED, L, M), R)
  BY <1>5, <1>6, <1>7, <1>8, JoinIntro
<1>10. rotate_left(h).key = j /\ h.key = k
  BY <1>5, <1>8, NodeFields
<1>11. QED
  BY <1>6, <1>9, <1>10

\* A node and its children.
LEMMA Children ==
  ASSUME NEW c, NEW L, NEW R, Kind(L), Kind(R), NEW h, NEW S, <<h, S>> \in Joins(c, L, R)
  PROVE  /\ h.key \in Keys /\ h.value \in Values /\ h.color = c /\ h # NULL
         /\ h = Node(c, h.key, h.value, h.left, h.right)
         /\ \E A, D : /\ <<h.left, A>> \in L /\ <<h.right, D>> \in R /\ Between(A, h.key, D)
                      /\ S = A \cup {<<h.key, h.value>>} \cup D
<1>1. PICK k, v, l, A, r, D : Parts(h, S, c, L, R, k, v, l, A, r, D)
  BY JoinParts, Zenon
<1>2. h.key = k /\ h.value = v /\ h.left = l /\ h.right = r /\ h.color = c /\ h # NULL
  BY <1>1, NodeFields DEF Parts
<1>3. QED
  BY <1>1, <1>2 DEF Parts

IsNode(h) == h = Node(h.color, h.key, h.value, h.left, h.right)

LEMMA NodeIs ==
  ASSUME NEW c, NEW L, NEW R, Kind(L), Kind(R), NEW h, NEW S, <<h, S>> \in Joins(c, L, R)
  PROVE  IsNode(h) /\ h.key \in Keys /\ h.key \in Int /\ h.value \in Values /\ h # NULL
<1>1. PICK k, v, l, A, r, D : Parts(h, S, c, L, R, k, v, l, A, r, D)
  BY JoinParts, Zenon
<1>2. h = Node(c, k, v, l, r) /\ k \in Keys /\ v \in Values
  BY <1>1, Zenon DEF Parts
<1>3. h.key = k /\ h.value = v /\ h.left = l /\ h.right = r /\ h.color = c /\ h # NULL
  BY <1>2, NodeFields
<1>4. IsNode(h)
  BY <1>2, <1>3 DEF IsNode
<1>5. QED
  BY <1>2, <1>3, <1>4, KeysAreNumbers

LEMMA NodeKeys ==
  ASSUME NEW h, IsNode(h)
  PROVE  /\ Flipped(h).key = h.key
         /\ color_flip(h).key = h.key /\ color_flip(h).right = Flipped(h.right)
         /\ color_flip(h).left = Flipped(h.left)
         /\ \A x : WithRight(h, x).key = h.key /\ WithRight(h, x).left = h.left /\ WithRight(h, x).right = x
         /\ \A x : WithLeft(h, x).key = h.key /\ WithLeft(h, x).right = h.right /\ WithLeft(h, x).left = x
<1> DEFINE c == h.color
           k == h.key
           v == h.value
           l == h.left
           r == h.right
<1>1. h = Node(c, k, v, l, r)
  BY Zenon DEF IsNode
<1>2. h.key = k /\ h.left = l /\ h.right = r
  OBVIOUS
<1> HIDE DEF c, k, v, l, r
<1>3. Flipped(h) = Node(1 - c, k, v, l, r)
  BY <1>1, Flip
<1>4. color_flip(h) = Node(1 - c, k, v, Flipped(l), Flipped(r))
  BY <1>1, FlipNode
<1>5. Flipped(h).key = k
  BY <1>3, NodeFields
<1>6. color_flip(h).key = k /\ color_flip(h).left = Flipped(l) /\ color_flip(h).right = Flipped(r)
  BY <1>4, NodeFields
<1>7. ASSUME NEW x
      PROVE  WithRight(h, x).key = k /\ WithRight(h, x).left = l /\ WithRight(h, x).right = x
  <2>1. WithRight(h, x) = Node(c, k, v, l, x)
    BY <1>1, NodeChanges
  <2>2. QED
    BY <2>1, NodeFields
<1>8. ASSUME NEW x
      PROVE  WithLeft(h, x).key = k /\ WithLeft(h, x).right = r /\ WithLeft(h, x).left = x
  <2>1. WithLeft(h, x) = Node(c, k, v, x, r)
    BY <1>1, NodeChanges
  <2>2. QED
    BY <2>1, NodeFields
<1>9. QED
  BY <1>2, <1>5, <1>6, <1>7, <1>8

LEMMA RotatedKey ==
  ASSUME NEW h, IsNode(h), IsNode(h.left)
  PROVE  rotate_right(h).right.key = h.key
<1> DEFINE c == h.color
           k == h.key
           v == h.value
           r == h.right
           x == h.left
           d == x.color
           j == x.key
           w == x.value
           a == x.left
           b == x.right
<1>1. h = Node(c, k, v, x, r) /\ x = Node(d, j, w, a, b) /\ h.key = k
  BY Zenon DEF IsNode
<1> HIDE DEF c, k, v, r, x, d, j, w, a, b
<1>2. rotate_right(h) = Node(c, j, w, a, Node(RED, k, v, b, r))
  BY <1>1, RotateRight
<1>3. QED
  BY <1>1, <1>2, NodeFields

LEMMA LeftChild ==
  ASSUME NEW c, NEW L, NEW R, Kind(L), Kind(R), NEW h, NEW S, <<h, S>> \in Joins(c, L, R)
  PROVE  \E A : <<h.left, A>> \in L
<1>1. PICK k, v, l, A, r, D : Parts(h, S, c, L, R, k, v, l, A, r, D)
  BY JoinParts, Zenon
<1>2. <<l, A>> \in L /\ h = Node(c, k, v, l, r)
  BY <1>1, Zenon DEF Parts
<1>3. h.left = l
  BY <1>2, NodeFields
<1>4. QED
  BY <1>2, <1>3, Zenon

LEMMA RightChild ==
  ASSUME NEW c, NEW L, NEW R, Kind(L), Kind(R), NEW h, NEW S, <<h, S>> \in Joins(c, L, R)
  PROVE  \E D : <<h.right, D>> \in R
<1>1. PICK k, v, l, A, r, D : Parts(h, S, c, L, R, k, v, l, A, r, D)
  BY JoinParts, Zenon
<1>2. <<r, D>> \in R /\ h = Node(c, k, v, l, r)
  BY <1>1, Zenon DEF Parts
<1>3. h.right = r
  BY <1>2, NodeFields
<1>4. QED
  BY <1>2, <1>3, Zenon

\* Another right child with the same pairs.
LEMMA NewRight ==
  ASSUME NEW c, NEW L, NEW R, NEW R2, Kind(L), Kind(R), NEW h, NEW S, <<h, S>> \in Joins(c, L, R),
         NEW x, \A D : <<h.right, D>> \in R => <<x, D>> \in R2
  PROVE  /\ <<WithRight(h, x), S>> \in Joins(c, L, R2) /\ WithRight(h, x).key = h.key
<1>1. PICK A, D : /\ <<h.left, A>> \in L /\ <<h.right, D>> \in R /\ Between(A, h.key, D)
                  /\ S = A \cup {<<h.key, h.value>>} \cup D
  BY Children
<1>2. h.key \in Keys /\ h.value \in Values
  BY Children, Zenon
<1>3. h = Node(c, h.key, h.value, h.left, h.right)
  BY Children, Zenon
<1>4. <<x, D>> \in R2
  BY <1>1
<1>5. <<Node(c, h.key, h.value, h.left, x), S>> \in Joins(c, L, R2)
  BY <1>1, <1>2, <1>4, JoinIntro
<1>6. WithRight(h, x) = Node(c, h.key, h.value, h.left, x)
  BY <1>3, NodeChanges
<1>7. WithRight(h, x).key = h.key
  BY <1>6, NodeFields
<1>8. QED
  BY <1>5, <1>6, <1>7

LEMMA RedChild ==
  ASSUME NEW X, Tame(X), NEW h, NEW S, <<h, S>> \in Red(X)
  PROVE  is_red(h) /\ ~is_red(h.left) /\ ~is_red(h.right)
<1>1. Kind(X) /\ <<h, S>> \in Joins(RED, X, X)
  BY TameKinds, Zenon DEF Red
<1>2. is_red(h)
  BY <1>1, JoinRed
<1>3. ~is_red(h.left)
  <2>1. PICK A : <<h.left, A>> \in X
    BY <1>1, LeftChild, Zenon
  <2>2. QED
    BY <2>1, TameRoot, Zenon
<1>4. ~is_red(h.right)
  <2>1. PICK A : <<h.right, A>> \in X
    BY <1>1, RightChild, Zenon
  <2>2. QED
    BY <2>1, TameRoot, Zenon
<1>5. QED
  BY <1>2, <1>3, <1>4

LEMMA TwoChild ==
  ASSUME NEW X, Tame(X), NEW h, NEW S, <<h, S>> \in Two(X)
  PROVE  ~is_red(h) /\ ~is_red(h.left) /\ ~is_red(h.right) /\ h # NULL
<1>1. Kind(X) /\ <<h, S>> \in Joins(BLACK, X, X)
  BY TameKinds, Zenon DEF Two
<1>2. ~is_red(h) /\ h # NULL
  BY <1>1, JoinRed DEF BLACK, RED
<1>3. ~is_red(h.left)
  <2>1. PICK A : <<h.left, A>> \in X
    BY <1>1, LeftChild, Zenon
  <2>2. QED
    BY <2>1, TameRoot, Zenon
<1>4. ~is_red(h.right)
  <2>1. PICK A : <<h.right, A>> \in X
    BY <1>1, RightChild, Zenon
  <2>2. QED
    BY <2>1, TameRoot, Zenon
<1>5. QED
  BY <1>2, <1>3, <1>4

LEMMA LeftRedChild ==
  ASSUME NEW X, Tame(X), NEW h, NEW S, <<h, S>> \in LeftRed(X)
  PROVE  ~is_red(h) /\ is_red(h.left) /\ ~is_red(h.right) /\ h # NULL
<1>1. Kind(X) /\ Kind(Red(X)) /\ <<h, S>> \in Joins(BLACK, Red(X), X)
  BY TameKinds, Zenon DEF LeftRed
<1>2. ~is_red(h) /\ h # NULL
  BY <1>1, JoinRed DEF BLACK, RED
<1>3. is_red(h.left)
  BY <1>1, LeftChild, RedChild
<1>4. ~is_red(h.right)
  <2>1. PICK A : <<h.right, A>> \in X
    BY <1>1, RightChild, Zenon
  <2>2. QED
    BY <2>1, TameRoot, Zenon
<1>5. QED
  BY <1>2, <1>3, <1>4

LEMMA Recolor == 1 - RED = BLACK /\ 1 - BLACK = RED /\ \A c \in Colors : 1 - c \in Colors /\ 1 - (1 - c) = c
  BY DEF RED, BLACK, Colors

\* Two red nodes on top of each other, on the left: the second repair.
LEMMA UnstackJoin ==
  ASSUME NEW X, Tame(X), NEW c, NEW h, NEW S, <<h, S>> \in Joins(c, Joins(RED, Red(X), X), X)
  PROVE  <<Split(Unstack(h)), S>> \in Joins(1 - c, Two(X), Two(X))
<1> DEFINE Stack == Joins(RED, Red(X), X)
           g == rotate_right(h)
           f == color_flip(g)
<1>1. Kind(X) /\ Kind(Red(X)) /\ Kind(Stack) /\ Kind(Two(X))
  BY TameKinds, JoinKind, Zenon
<1>2. PICK A : <<h.left, A>> \in Stack
  BY <1>1, LeftChild, Zenon
<1>3. is_red(h.left)
  BY <1>1, <1>2, JoinRed
<1>4. is_red(h.left.left)
  <2>1. PICK B : <<h.left.left, B>> \in Red(X)
    BY <1>1, <1>2, LeftChild, Zenon
  <2>2. QED
    BY <2>1, RedChild, Zenon
<1>5. Unstack(h) = f
  BY <1>3, <1>4, Zenon DEF Unstack
<1>6. <<g, S>> \in Joins(c, Joins(RED, X, X), Joins(RED, X, X))
  BY <1>1, RotateRightJoin, Zenon DEF Red
<1>7. <<f, S>> \in Joins(1 - c, Joins(1 - RED, X, X), Joins(1 - RED, X, X))
  BY <1>1, <1>6, FlipJoins, Zenon
<1>8. <<f, S>> \in Joins(1 - c, Two(X), Two(X))
  BY <1>7, Recolor DEF Two
<1> HIDE DEF f
<1>9. ~is_red(f.left)
  <2>1. PICK B : <<f.left, B>> \in Two(X)
    BY <1>1, <1>8, LeftChild, Zenon
  <2>2. QED
    BY <2>1, TwoChild, Zenon
<1>10. Split(f) = f
  BY <1>9, Zenon DEF Split
<1>11. QED
  BY <1>5, <1>8, <1>10

LEMMA FixupStack ==
  ASSUME NEW X, Tame(X), NEW c, NEW h, NEW S, <<h, S>> \in Joins(c, Joins(RED, Red(X), X), X)
  PROVE  <<fixup(h), S>> \in Joins(1 - c, Two(X), Two(X))
<1>1. Kind(X) /\ Kind(Joins(RED, Red(X), X))
  BY TameKinds, JoinKind, Zenon
<1>2. ~is_red(h.right)
  <2>1. PICK A : <<h.right, A>> \in X
    BY <1>1, RightChild, Zenon
  <2>2. QED
    BY <2>1, TameRoot, Zenon
<1>3. LeanLeft(h) = h
  BY <1>2, Zenon DEF LeanLeft
<1>4. QED
  BY <1>3, UnstackJoin DEF fixup

\* Two red children.
LEMMA FixupTwo ==
  ASSUME NEW X, Tame(X), NEW c, NEW h, NEW S, <<h, S>> \in Joins(c, Red(X), Red(X))
  PROVE  <<fixup(h), S>> \in Joins(1 - c, Two(X), Two(X))
<1> DEFINE g == rotate_left(h)
<1>1. Kind(X) /\ Kind(Red(X))
  BY TameKinds, Zenon
<1>2. is_red(h.right)
  <2>1. PICK D : <<h.right, D>> \in Red(X)
    BY <1>1, RightChild, Zenon
  <2>2. QED
    BY <2>1, RedChild, Zenon
<1>3. LeanLeft(h) = g
  BY <1>2, Zenon DEF LeanLeft
<1>4. <<g, S>> \in Joins(c, Joins(RED, Red(X), X), X)
  BY <1>1, RotateLeftJoin, Zenon DEF Red
<1> HIDE DEF g
<1>5. QED
  BY <1>3, <1>4, UnstackJoin DEF fixup

\* fixup of a node with trees below it that may be red or not.
Fixed(c, X) == Joins(c, Either(X), X) \cup Joins(1 - c, Two(X), Two(X))

LEMMA FixupEither ==
  ASSUME NEW X, Tame(X), NEW c \in Colors, NEW h, NEW S, <<h, S>> \in Joins(c, Either(X), Either(X))
  PROVE  <<fixup(h), S>> \in Fixed(c, X)
<1>1. Joins(c, Either(X), Either(X)) = Joins(c, Either(X), X) \cup Joins(c, Either(X), Red(X))
  BY EitherSide
<1>2. Joins(c, Either(X), Red(X)) = Joins(c, X, Red(X)) \cup Joins(c, Red(X), Red(X))
  BY EitherSide
<1>3. Joins(c, X, Red(X)) \subseteq Joins(c, X, Either(X))
  BY EitherSide
<1>4. CASE <<h, S>> \in Joins(c, Red(X), Red(X))
  BY <1>4, FixupTwo DEF Fixed
<1>5. CASE <<h, S>> \in Joins(c, Either(X), X) \cup Joins(c, X, Either(X))
  BY <1>5, FixupOne DEF Fixed
<1>6. QED
  BY <1>1, <1>2, <1>3, <1>4, <1>5

-----------------------------------------------------------------------------
(* Before the deletion goes down, it makes a node red below.               *)

LEMMA MoveRedLeft ==
  ASSUME NEW X, Tame(X), NEW c \in Colors, NEW h, NEW S, <<h, S>> \in Joins(c, Two(X), Black(X))
  PROVE  /\ <<move_red_left(h), S>> \in Joins(1 - c, Red(X), Red(X)) \cup Joins(c, LeftRed(X), Two(X))
         /\ h.key <= move_red_left(h).key
<1> DEFINE f == color_flip(h)
<1>1. /\ Kind(X) /\ Kind(Red(X)) /\ Kind(Two(X)) /\ Kind(LeftRed(X)) /\ Kind(Black(X))
      /\ Kind(Joins(RED, Red(X), X)) /\ Kind(Joins(RED, X, Red(X))) /\ Kind(Joins(RED, X, X))
  BY TameKinds, JoinKind, Zenon DEF Red
<1>0. IsNode(h)
  BY <1>1, NodeIs, Zenon
<1>2. h.key \in Int
  BY <1>1, NodeIs, Zenon
<1>3. CASE <<h, S>> \in Joins(c, Two(X), Two(X))
  <2>1. <<h, S>> \in Joins(c, Joins(BLACK, X, X), Joins(BLACK, X, X))
    BY <1>3 DEF Two
  <2>2. <<f, S>> \in Joins(1 - c, Joins(1 - BLACK, X, X), Joins(1 - BLACK, X, X))
    BY <1>1, <2>1, FlipJoins, Zenon
  <2>3. f.key = h.key
    BY <1>0, NodeKeys, Zenon
  <2>4. <<f, S>> \in Joins(1 - c, Red(X), Red(X))
    BY <2>2, Recolor DEF Red
  <2> HIDE DEF f
  <2>5. ~is_red(f.right.left)
    <3>1. PICK D : <<f.right, D>> \in Red(X)
      BY <1>1, <2>4, RightChild, Zenon
    <3>2. QED
      BY <3>1, RedChild, Zenon
  <2>6. move_red_left(h) = f
    BY <2>5, Zenon DEF move_red_left, f
  <2>7. QED
    BY <1>2, <2>3, <2>4, <2>6
<1>4. CASE <<h, S>> \in Joins(c, Two(X), LeftRed(X))
  <2>0. <<h, S>> \in Joins(c, Joins(BLACK, X, X), Joins(BLACK, Red(X), X))
    BY <1>4 DEF Two, LeftRed
  <2>1. <<f, S>> \in Joins(1 - c, Joins(1 - BLACK, X, X), Joins(1 - BLACK, Red(X), X))
    BY <1>1, <2>0, FlipJoins, Zenon
  <2>1a. f.key = h.key
    BY <1>0, NodeKeys, Zenon
  <2>2. <<f, S>> \in Joins(1 - c, Red(X), Joins(RED, Red(X), X))
    BY <2>1, Recolor DEF Red
  <2> HIDE DEF f
  <2>3. is_red(f.right.left)
    <3>1. PICK D : <<f.right, D>> \in Joins(RED, Red(X), X)
      BY <1>1, <2>2, RightChild, Zenon
    <3>2. PICK E : <<f.right.left, E>> \in Red(X)
      BY <1>1, <3>1, LeftChild, Zenon
    <3>3. QED
      BY <3>2, RedChild, Zenon
  <2> DEFINE x == rotate_right(f.right)
             g == WithRight(f, x)
             e == rotate_left(g)
  <2>4. ASSUME NEW D, <<f.right, D>> \in Joins(RED, Red(X), X)
        PROVE  <<x, D>> \in Joins(RED, X, Red(X))
    <3>1. <<f.right, D>> \in Joins(RED, Joins(RED, X, X), X)
      BY <2>4 DEF Red
    <3>2. <<x, D>> \in Joins(RED, X, Joins(RED, X, X))
      BY <1>1, <3>1, RotateRightJoin, Zenon
    <3>3. QED
      BY <3>2 DEF Red
  <2> HIDE DEF x
  <2>5. <<g, S>> \in Joins(1 - c, Red(X), Joins(RED, X, Red(X)))
    BY <1>1, <2>2, <2>4, NewRight, Zenon
  <2>5a. WithRight(f, x).key = f.key
    <3>1. IsNode(f)
      BY <1>1, <2>2, NodeIs, Zenon
    <3>2. QED
      BY <3>1, NodeKeys, Zenon
  <2>6. [f EXCEPT !.right = rotate_right(@)] = g
    BY Zenon DEF WithRight, x
  <2> HIDE DEF g
  <2>7. <<e, S>> \in Joins(1 - c, Joins(RED, Red(X), X), Red(X))
    BY <1>1, <2>5, RotateLeftJoin, Zenon
  <2>7a. g.key < e.key
    BY <1>1, <2>5, RotateLeftJoin, Zenon
  <2> HIDE DEF e
  <2>8. <<e, S>> \in Joins(1 - c, Joins(RED, Red(X), X), Joins(RED, X, X))
    BY <2>7 DEF Red
  <2>9. <<color_flip(e), S>> \in Joins(1 - (1 - c), Joins(1 - RED, Red(X), X), Joins(1 - RED, X, X))
    BY <1>1, <2>8, FlipJoins, Zenon
  <2>10. color_flip(e).key = e.key
    <3>1. IsNode(e)
      BY <1>1, <2>7, NodeIs, Zenon
    <3>2. QED
      BY <3>1, NodeKeys, Zenon
  <2>11. <<color_flip(e), S>> \in Joins(c, LeftRed(X), Two(X))
    BY <2>9, Recolor DEF LeftRed, Two
  <2>12. move_red_left(h) = color_flip(e)
    BY <2>3, <2>6, Zenon DEF move_red_left, f, e
  <2>13. e.key \in Int
    BY <1>1, <2>7, NodeIs, Zenon
  <2>14. QED
    <3>1. g.key = f.key
      BY <2>5a, Zenon DEF g
    <3>2. QED
      BY <3>1, <1>2, <2>1a, <2>7a, <2>10, <2>11, <2>12, <2>13
<1>5. QED
  <2>1. Joins(c, Two(X), Black(X)) = Joins(c, Two(X), Two(X)) \cup Joins(c, Two(X), LeftRed(X))
    BY BlackSide
  <2>2. QED
    BY <1>3, <1>4, <2>1

LEMMA MoveRedRight ==
  ASSUME NEW X, Tame(X), NEW c \in Colors, NEW h, NEW S, <<h, S>> \in Joins(c, Black(X), Two(X))
  PROVE  LET f == move_red_right(h)
         IN  \/ <<f, S>> \in Joins(1 - c, Red(X), Red(X)) /\ f.key = h.key
             \/ <<f, S>> \in Joins(c, Two(X), RightRed(X)) /\ f.key < h.key /\ f.right.key = h.key
<1> DEFINE f == color_flip(h)
<1>1. /\ Kind(X) /\ Kind(Red(X)) /\ Kind(Two(X)) /\ Kind(LeftRed(X)) /\ Kind(Black(X))
      /\ Kind(Joins(RED, Red(X), X)) /\ Kind(Joins(RED, X, Red(X))) /\ Kind(Joins(RED, X, X))
  BY TameKinds, JoinKind, Zenon DEF Red
<1>0. IsNode(h)
  BY <1>1, NodeIs, Zenon
<1>3. CASE <<h, S>> \in Joins(c, Two(X), Two(X))
  <2>1. <<h, S>> \in Joins(c, Joins(BLACK, X, X), Joins(BLACK, X, X))
    BY <1>3 DEF Two
  <2>2. <<f, S>> \in Joins(1 - c, Joins(1 - BLACK, X, X), Joins(1 - BLACK, X, X))
    BY <1>1, <2>1, FlipJoins, Zenon
  <2>3. f.key = h.key
    BY <1>0, NodeKeys, Zenon
  <2>4. <<f, S>> \in Joins(1 - c, Red(X), Red(X))
    BY <2>2, Recolor DEF Red
  <2> HIDE DEF f
  <2>5. ~is_red(f.left.left)
    <3>1. PICK D : <<f.left, D>> \in Red(X)
      BY <1>1, <2>4, LeftChild, Zenon
    <3>2. QED
      BY <3>1, RedChild, Zenon
  <2>6. move_red_right(h) = f
    BY <2>5, Zenon DEF move_red_right, f
  <2>7. QED
    BY <2>3, <2>4, <2>6
<1>4. CASE <<h, S>> \in Joins(c, LeftRed(X), Two(X))
  <2>0. <<h, S>> \in Joins(c, Joins(BLACK, Red(X), X), Joins(BLACK, X, X))
    BY <1>4 DEF Two, LeftRed
  <2>1. <<f, S>> \in Joins(1 - c, Joins(1 - BLACK, Red(X), X), Joins(1 - BLACK, X, X))
    BY <1>1, <2>0, FlipJoins, Zenon
  <2>1a. f.key = h.key
    BY <1>0, NodeKeys, Zenon
  <2>2. <<f, S>> \in Joins(1 - c, Joins(RED, Red(X), X), Red(X))
    BY <2>1, Recolor DEF Red
  <2> HIDE DEF f
  <2>3. is_red(f.left.left)
    <3>1. PICK D : <<f.left, D>> \in Joins(RED, Red(X), X)
      BY <1>1, <2>2, LeftChild, Zenon
    <3>2. PICK E : <<f.left.left, E>> \in Red(X)
      BY <1>1, <3>1, LeftChild, Zenon
    <3>3. QED
      BY <3>2, RedChild, Zenon
  <2> DEFINE g == rotate_right(f)
  <2>4. <<g, S>> \in Joins(1 - c, Red(X), Joins(RED, X, Red(X)))
    BY <1>1, <2>2, RotateRightJoin, Zenon
  <2>4a. g.key < f.key
    BY <1>1, <2>2, RotateRightJoin, Zenon
  <2>4b. g.right.key = f.key
    <3>1. PICK D : <<f.left, D>> \in Joins(RED, Red(X), X)
      BY <1>1, <2>2, LeftChild, Zenon
    <3>2. IsNode(f) /\ IsNode(f.left)
      BY <1>1, <2>2, <3>1, NodeIs, Zenon
    <3>3. QED
      BY <3>2, RotatedKey, Zenon DEF g
  <2> HIDE DEF g
  <2>4c. <<g, S>> \in Joins(1 - c, Joins(RED, X, X), Joins(RED, X, Red(X)))
    BY <2>4 DEF Red
  <2>5. <<color_flip(g), S>> \in Joins(1 - (1 - c), Joins(1 - RED, X, X), Joins(1 - RED, X, Red(X)))
    BY <1>1, <2>4c, FlipJoins, Zenon
  <2>5a. color_flip(g).key = g.key /\ color_flip(g).right = Flipped(g.right)
    <3>1. IsNode(g)
      BY <1>1, <2>4, NodeIs, Zenon
    <3>2. QED
      BY <3>1, NodeKeys, Zenon
  <2>6. <<color_flip(g), S>> \in Joins(c, Two(X), RightRed(X))
    BY <2>5, Recolor DEF RightRed, Two
  <2>7. Flipped(g.right).key = g.right.key
    <3>1. PICK D : <<g.right, D>> \in Joins(RED, X, Red(X))
      BY <1>1, <2>4, RightChild, Zenon
    <3>2. IsNode(g.right)
      BY <1>1, <3>1, NodeIs, Zenon
    <3>3. QED
      BY <3>2, NodeKeys, Zenon
  <2>8. move_red_right(h) = color_flip(g)
    BY <2>3, Zenon DEF move_red_right, f, g
  <2>9. QED
    BY <2>1a, <2>4a, <2>4b, <2>5a, <2>6, <2>7, <2>8
<1>5. QED
  <2>1. Joins(c, Black(X), Two(X)) = Joins(c, Two(X), Two(X)) \cup Joins(c, LeftRed(X), Two(X))
    BY BlackSide
  <2>2. QED
    BY <1>3, <1>4, <2>1
-----------------------------------------------------------------------------
(* The trees by their number of black nodes on a way down.                 *)

EvenOf(n, f) == IF n = 0 THEN {<<NULL, {}>>} ELSE Black(f)
Even[n \in Nat] == IF n = 0 THEN {<<NULL, {}>>} ELSE Black(Even[n - 1])
Of_Even == INSTANCE Recursion WITH Step <- EvenOf

LEMMA EvenIs == Even = [n \in Nat |-> EvenOf(n, Even[n - 1])]
<1>1. Even = CHOOSE g : g = [n \in Nat |-> EvenOf(n, g[n - 1])]
  BY DEF Even, EvenOf
<1>2. \A x : EvenOf(0, x) = EvenOf(0, 0)
  BY DEF EvenOf
<1>3. QED
  BY <1>1, <1>2, NumberInduction, Of_Even!Recursive, Zenon DEF Of_Even!Induction

LEMMA EvenNext ==
  /\ Even[0] = {<<NULL, {}>>}
  /\ \A b \in Nat : Even[b + 1] = Black(Even[b])
  /\ \A b \in Nat \ {0} : Even[b] = Black(Even[b - 1])
<1> DEFINE E == Even
<1>1. E = [n \in Nat |-> EvenOf(n, E[n - 1])]
  BY EvenIs
<1> HIDE DEF E
<1>2. \A n \in Nat : E[n] = EvenOf(n, E[n - 1])
  BY <1>1
<1>3. E[0] = {<<NULL, {}>>}
  BY <1>2 DEF EvenOf
<1>4. ASSUME NEW b \in Nat \ {0}
      PROVE  E[b] = Black(E[b - 1])
  BY <1>2 DEF EvenOf
<1>5. ASSUME NEW b \in Nat
      PROVE  E[b + 1] = Black(E[b])
  <2>1. b + 1 \in Nat \ {0} /\ (b + 1) - 1 = b
    OBVIOUS
  <2>2. E[b + 1] = Black(E[(b + 1) - 1])
    BY <1>4, <2>1, Zenon
  <2>3. QED
    BY <2>1, <2>2
<1>6. QED
  BY <1>3, <1>4, <1>5 DEF E

LEMMA EvenTame == \A b \in Nat : Tame(Even[b])
<1> DEFINE P == {b \in Nat : Tame(Even[b])}
<1>1. 0 \in P
  <2>1. ~is_red(NULL)
    BY Reds
  <2>2. Tame({<<NULL, {}>>})
    BY <2>1 DEF Tame, Kind
  <2>3. QED
    BY <2>2, EvenNext
<1>2. ASSUME NEW n \in P
      PROVE  n + 1 \in P
  <2>1. n \in Nat /\ Tame(Even[n]) /\ Even[n + 1] = Black(Even[n])
    BY <1>2, EvenNext
  <2>2. Tame(Black(Even[n]))
    BY <2>1, BlackTame
  <2>3. QED
    BY <2>1, <2>2
<1> HIDE DEF P
<1>3. P = Nat
  <2>1. P \in SUBSET Nat
    BY DEF P
  <2>2. QED
    BY <1>1, <1>2, <2>1, EveryNumber
<1>4. QED
  BY <1>3 DEF P

LEMMA EvenRoot ==
  ASSUME NEW b \in Nat, NEW h, NEW S, <<h, S>> \in Even[b]
  PROVE  /\ ~is_red(h) /\ S \subseteq Pairs
         /\ (h = NULL <=> b = 0) /\ (h = NULL => S = {})
         /\ b # 0 => <<h, S>> \in Two(Even[b - 1]) \cup LeftRed(Even[b - 1])
<1>1. ~is_red(h) /\ S \subseteq Pairs
  BY EvenTame, TameRoot, Zenon
<1>2. CASE b = 0
  <2>1. Even[0] = {<<NULL, {}>>}
    BY EvenNext
  <2>2. h = NULL /\ S = {}
    BY <1>2, <2>1
  <2>3. QED
    BY <1>1, <1>2, <2>2
<1>3. CASE b # 0
  <2> DEFINE X == Even[b - 1]
  <2>1. <<h, S>> \in Black(X)
    BY <1>3, EvenNext
  <2>2. Tame(X)
    BY <1>3, EvenTame
  <2> HIDE DEF X
  <2>3. <<h, S>> \in Two(X) \cup LeftRed(X)
    BY <2>1, BlackParts
  <2>4. h # NULL
    BY <2>2, <2>3, TwoChild, LeftRedChild
  <2>5. QED
    BY <1>1, <1>3, <2>3, <2>4 DEF X
<1>4. QED
  BY <1>2, <1>3

\* As many keys at least as black nodes on a way.
KeysOf(S) == {p[1] : p \in S}

LEMMA KeysCount ==
  ASSUME NEW S, S \subseteq Pairs
  PROVE  KeysOf(S) \in SUBSET Keys /\ IsFiniteSet(KeysOf(S)) /\ Cardinality(KeysOf(S)) \in Nat
         /\ Cardinality(Keys) \in Nat /\ Cardinality(KeysOf(S)) <= Cardinality(Keys)
<1>1. KeysOf(S) \in SUBSET Keys
  BY KeysAreNumbers DEF KeysOf
<1>2. IsFiniteSet(Keys)
  BY KeysAssumption
<1>3. IsFiniteSet(KeysOf(S))
  BY <1>1, <1>2, FS_Subset, Zenon
<1>4. QED
  BY <1>1, <1>2, <1>3, FewerInPart

LEMMA EnoughKeys ==
  \A b \in Nat : \A x \in Even[b] : b <= Cardinality(KeysOf(x[2]))
<1> DEFINE P == {b \in Nat : \A x \in Even[b] : b <= Cardinality(KeysOf(x[2]))}
<1>1. 0 \in P
  <2>1. ASSUME NEW x \in Even[0]
        PROVE  0 <= Cardinality(KeysOf(x[2]))
    <3>1. Kind(Even[0])
      BY EvenTame DEF Tame
    <3>2. x[2] \subseteq Pairs
      BY <3>1 DEF Kind
    <3>3. QED
      BY <3>2, KeysCount
  <2>2. QED
    BY <2>1
<1>2. ASSUME NEW b \in P
      PROVE  b + 1 \in P
  <2> DEFINE X == Even[b]
  <2>0. b \in Nat /\ \A x \in X : b <= Cardinality(KeysOf(x[2]))
    BY <1>2
  <2>1. Even[b + 1] = Black(X) /\ Tame(X)
    BY <2>0, EvenNext, EvenTame
  <2>2. ASSUME NEW x \in Black(X)
        PROVE  b + 1 <= Cardinality(KeysOf(x[2]))
    <3> HIDE DEF X
    <3>1. Kind(X) /\ Kind(Either(X)) /\ Kind(Black(X))
      BY <2>1, TameKinds, Zenon
    <3>2. x \in Joins(BLACK, Either(X), X)
      BY <2>2 DEF Black
    <3>3. PICK k, v, l, A, r, D : Parts(x[1], x[2], BLACK, Either(X), X, k, v, l, A, r, D)
      BY <3>1, <3>2, JoinElim, Zenon
    <3>4. /\ k \in Keys /\ v \in Values /\ <<r, D>> \in X /\ Between(A, k, D)
          /\ x[2] = A \cup {<<k, v>>} \cup D
      BY <3>3, Zenon DEF Parts
    <3>5. x[2] \subseteq Pairs
      BY <2>2, <3>1, Zenon DEF Kind
    <3>6. b <= Cardinality(KeysOf(D))
      <4>1. b <= Cardinality(KeysOf(<<r, D>>[2]))
        BY <2>0, <3>4, Zenon
      <4>2. QED
        BY <4>1
    <3>7. D \subseteq Pairs /\ KeysOf(D) \subseteq KeysOf(x[2])
      BY <3>4 DEF Between, KeysOf
    <3>8. k \notin KeysOf(D)
      BY <3>4, KeysAreNumbers DEF Between, KeysOf
    <3>9. k \in KeysOf(x[2])
      <4>1. <<k, v>> \in x[2] /\ <<k, v>>[1] = k
        BY <3>4
      <4>2. QED
        BY <4>1 DEF KeysOf
    <3>10. IsFiniteSet(KeysOf(x[2])) /\ Cardinality(KeysOf(x[2])) \in Nat
           /\ Cardinality(KeysOf(D)) \in Nat
      BY <3>5, <3>7, KeysCount
    <3>11. KeysOf(D) # KeysOf(x[2])
      BY <3>8, <3>9
    <3>12. Cardinality(KeysOf(D)) < Cardinality(KeysOf(x[2]))
      BY <3>7, <3>10, <3>11, FewerInPart
    <3>13. QED
      BY <2>0, <3>6, <3>10, <3>12
  <2>3. QED
    BY <2>0, <2>1, <2>2
<1> HIDE DEF P
<1>3. P = Nat
  <2>1. P \in SUBSET Nat
    BY DEF P
  <2>2. QED
    BY <1>1, <1>2, <2>1, EveryNumber
<1>4. QED
  BY <1>3, Zenon DEF P

LEMMA DepthEnough ==
  ASSUME NEW b \in Nat, NEW h, NEW S, <<h, S>> \in Even[b]
  PROVE  Depth \in Nat /\ 2 * b <= Depth
<1>1. S \subseteq Pairs
  BY EvenRoot, Zenon
<1>2. Cardinality(KeysOf(S)) \in Nat /\ Cardinality(Keys) \in Nat
      /\ Cardinality(KeysOf(S)) <= Cardinality(Keys)
  BY <1>1, KeysCount
<1>3. b <= Cardinality(KeysOf(S))
  <2>1. b <= Cardinality(KeysOf(<<h, S>>[2]))
    BY EnoughKeys, Zenon
  <2>2. QED
    BY <2>1
<1>4. QED
  BY <1>2, <1>3 DEF Depth

-----------------------------------------------------------------------------
(* Search-ordered trees by their height.                                   *)

Grown(X) == {<<NULL, {}>>} \cup Joins(RED, X, X) \cup Joins(BLACK, X, X)
SortedOf(n, f) == IF n = 0 THEN {<<NULL, {}>>} ELSE Grown(f)
Sorted[n \in Nat] == IF n = 0 THEN {<<NULL, {}>>} ELSE Grown(Sorted[n - 1])
Of_Sorted == INSTANCE Recursion WITH Step <- SortedOf

LEMMA SortedIs == Sorted = [n \in Nat |-> SortedOf(n, Sorted[n - 1])]
<1>1. Sorted = CHOOSE g : g = [n \in Nat |-> SortedOf(n, g[n - 1])]
  BY DEF Sorted, SortedOf
<1>2. \A x : SortedOf(0, x) = SortedOf(0, 0)
  BY DEF SortedOf
<1>3. QED
  BY <1>1, <1>2, NumberInduction, Of_Sorted!Recursive, Zenon DEF Of_Sorted!Induction

LEMMA SortedNext ==
  /\ Sorted[0] = {<<NULL, {}>>}
  /\ \A n \in Nat : Sorted[n + 1] = Grown(Sorted[n])
<1> DEFINE E == Sorted
<1>1. E = [n \in Nat |-> SortedOf(n, E[n - 1])]
  BY SortedIs
<1> HIDE DEF E
<1>2. \A n \in Nat : E[n] = SortedOf(n, E[n - 1])
  BY <1>1
<1>3. E[0] = {<<NULL, {}>>}
  BY <1>2 DEF SortedOf
<1>4. ASSUME NEW b \in Nat
      PROVE  E[b + 1] = Grown(E[b])
  <2>1. b + 1 \in Nat /\ (b + 1) - 1 = b /\ b + 1 # 0
    OBVIOUS
  <2>2. E[b + 1] = Grown(E[(b + 1) - 1])
    BY <1>2, <2>1 DEF SortedOf
  <2>3. QED
    BY <2>1, <2>2
<1>5. QED
  BY <1>3, <1>4 DEF E

LEMMA TreesNext ==
  /\ Trees[0] = {NULL}
  /\ \A n \in Nat :
       Trees[n + 1] = {NULL} \cup [color : {RED, BLACK}, key : Keys, value : Values,
                                   left : Trees[n], right : Trees[n]]
<1> DEFINE E == Trees
<1>1. E = [n \in Nat |-> TreesOf(n, E[n - 1])]
  BY TreesIs
<1> HIDE DEF E
<1>2. \A n \in Nat : E[n] = TreesOf(n, E[n - 1])
  BY <1>1
<1>3. E[0] = {NULL}
  BY <1>2 DEF TreesOf
<1>4. ASSUME NEW b \in Nat
      PROVE  E[b + 1] = {NULL} \cup [color : {RED, BLACK}, key : Keys, value : Values,
                                     left : E[b], right : E[b]]
  <2>1. b + 1 \in Nat /\ (b + 1) - 1 = b /\ b + 1 # 0
    OBVIOUS
  <2>2. E[b + 1] = TreesOf(b + 1, E[b])
    BY <1>2, <2>1, Zenon
  <2>3. QED
    BY <2>1, <2>2, Zenon DEF TreesOf
<1>5. QED
  BY <1>3, <1>4 DEF E

LEMMA SortedKind == \A n \in Nat : Kind(Sorted[n])
<1> DEFINE P == {n \in Nat : Kind(Sorted[n])}
<1>0. Kind({<<NULL, {}>>})
  BY DEF Kind
<1>1. 0 \in P
  BY <1>0, SortedNext
<1>2. ASSUME NEW n \in P
      PROVE  n + 1 \in P
  <2> DEFINE X == Sorted[n]
  <2>1. n \in Nat /\ Kind(X) /\ Sorted[n + 1] = Grown(X)
    BY <1>2, SortedNext
  <2> HIDE DEF X
  <2>2. Kind(Joins(RED, X, X)) /\ Kind(Joins(BLACK, X, X))
    BY <2>1, JoinKind, Zenon
  <2>3. Kind(Grown(X))
    BY <1>0, <2>2, Zenon DEF Kind, Grown
  <2>4. QED
    BY <2>1, <2>3
<1> HIDE DEF P
<1>3. P = Nat
  <2>1. P \in SUBSET Nat
    BY DEF P
  <2>2. QED
    BY <1>1, <1>2, <2>1, EveryNumber
<1>4. QED
  BY <1>3 DEF P

\* A tree of some height counts as one of every greater height.
LEMMA SortedMonotone ==
  \A m \in Nat : \A n \in 0 .. m : Sorted[n] \subseteq Sorted[m]
<1>1. ASSUME NEW X, NEW Y, X \subseteq Y
      PROVE  Grown(X) \subseteq Grown(Y)
  <2>1. Joins(RED, X, X) \subseteq Joins(RED, Y, Y) /\ Joins(BLACK, X, X) \subseteq Joins(BLACK, Y, Y)
    BY <1>1, JoinMonotone, Zenon
  <2>2. QED
    BY <2>1 DEF Grown
<1>2. \A n \in Nat : Sorted[n] \subseteq Sorted[n + 1]
  <2> DEFINE P == {n \in Nat : Sorted[n] \subseteq Sorted[n + 1]}
  <2>1. 0 \in P
    <3>1. Sorted[0] = {<<NULL, {}>>} /\ Sorted[0 + 1] = Grown(Sorted[0])
      BY SortedNext
    <3>2. QED
      BY <3>1 DEF Grown
  <2>2. ASSUME NEW n \in P
        PROVE  n + 1 \in P
    <3>1. n \in Nat /\ n + 1 \in Nat /\ Sorted[n] \subseteq Sorted[n + 1]
      OBVIOUS
    <3>2. Sorted[n + 1] = Grown(Sorted[n]) /\ Sorted[(n + 1) + 1] = Grown(Sorted[n + 1])
      BY <3>1, SortedNext, Zenon
    <3>3. Grown(Sorted[n]) \subseteq Grown(Sorted[n + 1])
      BY <1>1, <3>1, Zenon
    <3>4. QED
      BY <3>1, <3>2, <3>3
  <2> HIDE DEF P
  <2>3. P = Nat
    <3>1. P \in SUBSET Nat
      BY DEF P
    <3>2. QED
      BY <2>1, <2>2, <3>1, EveryNumber
  <2>4. QED
    BY <2>3 DEF P
<1> DEFINE Q == {m \in Nat : \A n \in 0 .. m : Sorted[n] \subseteq Sorted[m]}
<1>3. 0 \in Q
  OBVIOUS
<1>4. ASSUME NEW m \in Q
      PROVE  m + 1 \in Q
  <2>1. m \in Nat /\ Sorted[m] \subseteq Sorted[m + 1]
    BY <1>2
  <2>2. ASSUME NEW n \in 0 .. m + 1
        PROVE  Sorted[n] \subseteq Sorted[m + 1]
    <3>1. CASE n = m + 1
      BY <3>1
    <3>2. CASE n # m + 1
      <4>1. n \in 0 .. m
        BY <2>1, <3>2
      <4>2. Sorted[n] \subseteq Sorted[m]
        BY <1>4, <4>1
      <4>3. QED
        BY <2>1, <4>2
    <3>3. QED
      BY <3>1, <3>2
  <2>3. QED
    BY <2>1, <2>2
<1> HIDE DEF Q
<1>5. Q = Nat
  <2>1. Q \in SUBSET Nat
    BY DEF Q
  <2>2. QED
    BY <1>3, <1>4, <2>1, EveryNumber
<1>6. QED
  BY <1>5 DEF Q

\* A node h that holds S, its left subtree A and its right one D.
Below(h, S, c, L, R, A, D) ==
  /\ h.key \in Keys /\ h.value \in Values /\ h.color = c /\ h # NULL
  /\ <<h.left, A>> \in L /\ <<h.right, D>> \in R /\ Between(A, h.key, D)
  /\ S = A \cup {<<h.key, h.value>>} \cup D /\ h = Node(c, h.key, h.value, h.left, h.right)

LEMMA BelowNode ==
  ASSUME NEW c, NEW L, NEW R, Kind(L), Kind(R), NEW h, NEW S, <<h, S>> \in Joins(c, L, R)
  PROVE  \E A, D : Below(h, S, c, L, R, A, D)
<1>1. PICK k, v, l, A, r, D : Parts(h, S, c, L, R, k, v, l, A, r, D)
  BY JoinParts, Zenon
<1>2. /\ k \in Keys /\ v \in Values /\ <<l, A>> \in L /\ <<r, D>> \in R /\ Between(A, k, D)
      /\ h = Node(c, k, v, l, r) /\ S = A \cup {<<k, v>>} \cup D
  BY <1>1, Zenon DEF Parts
<1>3. h.key = k /\ h.value = v /\ h.left = l /\ h.right = r /\ h.color = c /\ h # NULL
  BY <1>2, NodeFields
<1>4. Below(h, S, c, L, R, A, D)
  BY <1>2, <1>3 DEF Below
<1>5. QED
  BY <1>4, Zenon

LEMMA SortedRoot ==
  ASSUME NEW n \in Nat, NEW h, NEW S, <<h, S>> \in Sorted[n]
  PROVE  /\ S \subseteq Pairs /\ (h = NULL => S = {})
         /\ h # NULL => /\ n # 0
                        /\ \E c \in Colors : \E A, D : Below(h, S, c, Sorted[n - 1], Sorted[n - 1], A, D)
<1>1. S \subseteq Pairs
  <2>1. <<h, S>>[2] \subseteq Pairs
    BY SortedKind, Zenon DEF Kind
  <2>2. QED
    BY <2>1
<1>2. CASE n = 0
  <2>1. h = NULL /\ S = {}
    BY <1>2, SortedNext
  <2>2. QED
    BY <1>1, <2>1
<1>3. CASE n # 0
  <2> DEFINE X == Sorted[n - 1]
  <2>1. n - 1 \in Nat /\ (n - 1) + 1 = n
    BY <1>3
  <2>2. <<h, S>> \in Grown(X) /\ Kind(X)
    <3>1. Sorted[(n - 1) + 1] = Grown(X) /\ Kind(X)
      BY <2>1, SortedNext, SortedKind, Zenon
    <3>2. QED
      BY <2>1, <3>1
  <2> HIDE DEF X
  <2>3. <<h, S>> = <<NULL, {}>> \/ <<h, S>> \in Joins(RED, X, X) \/ <<h, S>> \in Joins(BLACK, X, X)
    BY <2>2, Zenon DEF Grown
  <2>4. ASSUME NEW c \in Colors, <<h, S>> \in Joins(c, X, X)
        PROVE  h # NULL /\ \E A, D : Below(h, S, c, X, X, A, D)
    <3>1. PICK A, D : Below(h, S, c, X, X, A, D)
      BY <2>2, <2>4, BelowNode, Zenon
    <3>2. QED
      BY <3>1, Zenon DEF Below
  <2>5. CASE <<h, S>> = <<NULL, {}>>
    <3>1. h = NULL /\ S = {}
      BY <2>5
    <3>2. QED
      BY <1>1, <3>1
  <2>6. CASE <<h, S>> \in Joins(RED, X, X)
    <3>1. RED \in Colors
      BY DEF Colors
    <3>2. h # NULL /\ \E A, D : Below(h, S, RED, X, X, A, D)
      BY <2>4, <2>6, <3>1, Zenon
    <3>3. QED
      BY <1>1, <1>3, <3>1, <3>2, Zenon DEF X
  <2>7. CASE <<h, S>> \in Joins(BLACK, X, X)
    <3>1. BLACK \in Colors
      BY DEF Colors
    <3>2. h # NULL /\ \E A, D : Below(h, S, BLACK, X, X, A, D)
      BY <2>4, <2>7, <3>1, Zenon
    <3>3. QED
      BY <1>1, <1>3, <3>1, <3>2, Zenon DEF X
  <2>8. QED
    BY <2>3, <2>5, <2>6, <2>7
<1>4. QED
  BY <1>2, <1>3

LEMMA SortedNode ==
  ASSUME NEW n \in Nat, NEW h, NEW S, <<h, S>> \in Sorted[n + 1], h # NULL
  PROVE  \E c \in Colors : \E A, D : Below(h, S, c, Sorted[n], Sorted[n], A, D)
<1>1. n + 1 \in Nat /\ (n + 1) - 1 = n
  OBVIOUS
<1>2. \E c \in Colors : \E A, D : Below(h, S, c, Sorted[(n + 1) - 1], Sorted[(n + 1) - 1], A, D)
  BY <1>1, SortedRoot, Zenon
<1>3. QED
  BY <1>1, <1>2, Zenon

LEMMA SortedTrees == \A n \in Nat : \A h, S : <<h, S>> \in Sorted[n] => h \in Trees[n]
<1> DEFINE P == {n \in Nat : \A h, S : <<h, S>> \in Sorted[n] => h \in Trees[n]}
<1>1. 0 \in P
  <2>1. Sorted[0] = {<<NULL, {}>>} /\ Trees[0] = {NULL}
    BY SortedNext, TreesNext, Zenon
  <2>2. QED
    BY <2>1
<1>2. ASSUME NEW n \in P
      PROVE  n + 1 \in P
  <2>0. n \in Nat /\ \A h, S : <<h, S>> \in Sorted[n] => h \in Trees[n]
    BY <1>2
  <2>1. Trees[n + 1] = {NULL} \cup [color : {RED, BLACK}, key : Keys, value : Values,
                                    left : Trees[n], right : Trees[n]]
    BY <2>0, TreesNext, Zenon
  <2>2. ASSUME NEW h, NEW S, <<h, S>> \in Sorted[n + 1]
        PROVE  h \in Trees[n + 1]
    <3>1. CASE h = NULL
      BY <2>1, <3>1
    <3>2. CASE h # NULL
      <4>color. PICK c \in Colors : \E A, D : Below(h, S, c, Sorted[n], Sorted[n], A, D)
        BY <2>0, <2>2, <3>2, SortedNode, Zenon
      <4>2. PICK A, D : Below(h, S, c, Sorted[n], Sorted[n], A, D)
        BY <4>color
      <4>3. /\ h.key \in Keys /\ h.value \in Values /\ h = Node(c, h.key, h.value, h.left, h.right)
            /\ <<h.left, A>> \in Sorted[n] /\ <<h.right, D>> \in Sorted[n]
        BY <4>2, Zenon DEF Below
      <4>4. h.left \in Trees[n] /\ h.right \in Trees[n]
        BY <2>0, <4>3, Zenon
      <4> DEFINE k == h.key
                 v == h.value
                 l == h.left
                 r == h.right
                 T == Trees[n]
      <4>5. k \in Keys /\ v \in Values /\ l \in T /\ r \in T /\ h = Node(c, k, v, l, r)
        BY <4>3, <4>4, Zenon
      <4> HIDE DEF k, v, l, r, T
      <4>6. Node(c, k, v, l, r) \in [color : {RED, BLACK}, key : Keys, value : Values, left : T, right : T]
        BY <4>5 DEF Node, Colors
      <4>7. QED
        BY <2>1, <4>5, <4>6 DEF T
    <3>3. QED
      BY <3>1, <3>2
  <2>3. QED
    BY <2>0, <2>2
<1> HIDE DEF P
<1>3. P = Nat
  <2>1. P \in SUBSET Nat
    BY DEF P
  <2>2. QED
    BY <1>1, <1>2, <2>1, EveryNumber
<1>4. QED
  BY <1>3, Zenon DEF P

LEMMA DepthNumber == Depth \in Nat
<1>1. Cardinality(Keys) \in Nat
  <2>1. {} \subseteq Pairs
    OBVIOUS
  <2>2. QED
    BY <2>1, KeysCount, Zenon
<1>2. QED
  BY <1>1 DEF Depth

LEMMA SortedTree ==
  ASSUME NEW n \in 0 .. Depth, NEW h, NEW S, <<h, S>> \in Sorted[n]
  PROVE  h \in Tree /\ <<h, S>> \in Sorted[Depth]
<1>1. Sorted[n] \subseteq Sorted[Depth]
  BY DepthNumber, SortedMonotone
<1>2. <<h, S>> \in Sorted[Depth]
  BY <1>1
<1>3. h \in Trees[Depth]
  BY <1>2, DepthNumber, SortedTrees, Zenon
<1>4. QED
  BY <1>2, <1>3, Zenon DEF Tree

\* At most every second node on a way down is red.
LEMMA EvenSorted ==
  \A b \in Nat :
    /\ Even[b] \subseteq Sorted[2 * b]
    /\ Red(Even[b]) \subseteq Sorted[2 * b + 1]
    /\ \A c \in Colors : Joins(c, Even[b], Even[b]) \subseteq Sorted[2 * b + 1]
    /\ LeftRed(Even[b]) \subseteq Sorted[2 * b + 2] /\ RightRed(Even[b]) \subseteq Sorted[2 * b + 2]
<1>1. ASSUME NEW b \in Nat, Even[b] \subseteq Sorted[2 * b]
      PROVE  /\ Red(Even[b]) \subseteq Sorted[2 * b + 1]
             /\ \A c \in Colors : Joins(c, Even[b], Even[b]) \subseteq Sorted[2 * b + 1]
             /\ LeftRed(Even[b]) \subseteq Sorted[2 * b + 2]
             /\ RightRed(Even[b]) \subseteq Sorted[2 * b + 2]
             /\ Black(Even[b]) \subseteq Sorted[2 * b + 2]
  <2> DEFINE X == Even[b]
             n == 2 * b
             N1 == Sorted[n + 1]
             N2 == Sorted[n + 2]
  <2>1. n \in Nat /\ n + 1 \in Nat /\ n + 2 \in Nat /\ (n + 1) + 1 = n + 2
        /\ n \in 0 .. n + 2 /\ n + 1 \in 0 .. n + 2 /\ n \in 0 .. n + 1
    OBVIOUS
  <2>2. X \subseteq Sorted[n]
    BY <1>1
  <2> HIDE DEF X, n
  <2>3. N1 = Grown(Sorted[n])
    BY <2>1, SortedNext, Zenon
  <2>4. N2 = Grown(N1)
    <3>1. Sorted[(n + 1) + 1] = Grown(Sorted[n + 1])
      BY <2>1, SortedNext, Zenon
    <3>2. QED
      BY <2>1, <3>1
  <2>5. Sorted[n] \subseteq N1
    BY <2>1, SortedMonotone, Zenon
  <2> HIDE DEF N1, N2
  <2>6. \A c \in Colors : Joins(c, X, X) \subseteq N1
    <3>1. \A c : Joins(c, X, X) \subseteq Joins(c, Sorted[n], Sorted[n])
      BY <2>2, JoinMonotone, Zenon
    <3>2. \A c \in Colors : Joins(c, Sorted[n], Sorted[n]) \subseteq N1
      BY <2>3 DEF Grown, Colors
    <3>3. QED
      BY <3>1, <3>2
  <2>7. Red(X) \subseteq N1
    BY <2>6 DEF Red, Colors
  <2>8. X \subseteq N1 /\ Either(X) \subseteq N1
    BY <2>2, <2>5, <2>7 DEF Either
  <2>9. Joins(BLACK, N1, N1) \subseteq N2
    BY <2>4 DEF Grown
  <2>10. /\ Joins(BLACK, Red(X), X) \subseteq Joins(BLACK, N1, N1)
         /\ Joins(BLACK, X, Red(X)) \subseteq Joins(BLACK, N1, N1)
         /\ Joins(BLACK, Either(X), X) \subseteq Joins(BLACK, N1, N1)
    BY <2>7, <2>8, JoinMonotone, Zenon
  <2>11. LeftRed(X) \subseteq N2 /\ RightRed(X) \subseteq N2 /\ Black(X) \subseteq N2
    BY <2>9, <2>10 DEF LeftRed, RightRed, Black
  <2>12. QED
    BY <2>6, <2>7, <2>11 DEF X, n, N1, N2
<1> DEFINE P == {b \in Nat : Even[b] \subseteq Sorted[2 * b]}
<1>2. 0 \in P
  <2>1. Even[0] = {<<NULL, {}>>} /\ Sorted[0] = {<<NULL, {}>>} /\ 2 * 0 = 0
    BY EvenNext, SortedNext
  <2>2. QED
    BY <2>1
<1>3. ASSUME NEW b \in P
      PROVE  b + 1 \in P
  <2>1. b \in Nat /\ Even[b] \subseteq Sorted[2 * b] /\ 2 * (b + 1) = 2 * b + 2 /\ b + 1 \in Nat
    OBVIOUS
  <2>2. Even[b + 1] = Black(Even[b])
    BY <2>1, EvenNext, Zenon
  <2>3. Black(Even[b]) \subseteq Sorted[2 * b + 2]
    BY <1>1, <2>1
  <2>4. QED
    BY <2>1, <2>2, <2>3
<1> HIDE DEF P
<1>4. P = Nat
  <2>1. P \in SUBSET Nat
    BY DEF P
  <2>2. QED
    BY <1>2, <1>3, <2>1, EveryNumber
<1>5. \A b \in Nat : Even[b] \subseteq Sorted[2 * b]
  BY <1>4, Zenon DEF P
<1>6. QED
  BY <1>1, <1>5, Zenon

LEMMA EvenTree ==
  ASSUME NEW b \in Nat, NEW h, NEW S
  PROVE  /\ <<h, S>> \in Even[b] /\ 2 * b <= Depth => h \in Tree
         /\ <<h, S>> \in Red(Even[b]) /\ 2 * b + 1 <= Depth => h \in Tree
         /\ <<h, S>> \in LeftRed(Even[b]) \cup RightRed(Even[b]) /\ 2 * b + 2 <= Depth => h \in Tree
         /\ \A c \in Colors : <<h, S>> \in Joins(c, Even[b], Even[b]) /\ 2 * b + 1 <= Depth => h \in Tree
<1>1. ASSUME NEW n \in Nat, n <= Depth, <<h, S>> \in Sorted[n]
      PROVE  h \in Tree
  <2>1. n \in 0 .. Depth
    BY <1>1, DepthNumber
  <2>2. QED
    BY <1>1, <2>1, SortedTree, Zenon
<1>2. /\ Even[b] \subseteq Sorted[2 * b]
      /\ Red(Even[b]) \subseteq Sorted[2 * b + 1]
      /\ \A c \in Colors : Joins(c, Even[b], Even[b]) \subseteq Sorted[2 * b + 1]
      /\ LeftRed(Even[b]) \subseteq Sorted[2 * b + 2] /\ RightRed(Even[b]) \subseteq Sorted[2 * b + 2]
  BY EvenSorted, Zenon
<1>3. 2 * b \in Nat /\ 2 * b + 1 \in Nat /\ 2 * b + 2 \in Nat
  OBVIOUS
<1>4. QED
  BY <1>1, <1>2, <1>3

\* No key twice.
LEMMA OneValue ==
  \A n \in Nat : \A h, S : <<h, S>> \in Sorted[n] => \A p, q \in S : p[1] = q[1] => p = q
<1> DEFINE P == {n \in Nat : \A h, S : <<h, S>> \in Sorted[n] => \A p, q \in S : p[1] = q[1] => p = q}
<1>1. 0 \in P
  <2>1. Sorted[0] = {<<NULL, {}>>}
    BY SortedNext, Zenon
  <2>2. QED
    BY <2>1
<1>2. ASSUME NEW n \in P
      PROVE  n + 1 \in P
  <2>0. n \in Nat /\ \A h, S : <<h, S>> \in Sorted[n] => \A p, q \in S : p[1] = q[1] => p = q
    BY <1>2
  <2>2. ASSUME NEW h, NEW S, <<h, S>> \in Sorted[n + 1]
        PROVE  \A p, q \in S : p[1] = q[1] => p = q
    <3>0. n + 1 \in Nat
      BY <2>0
    <3>1. CASE h = NULL
      <4>1. S = {}
        BY <2>2, <3>0, <3>1, SortedRoot, Zenon
      <4>2. QED
        BY <4>1
    <3>2. CASE h # NULL
      <4>color. PICK c \in Colors : \E A, D : Below(h, S, c, Sorted[n], Sorted[n], A, D)
        BY <2>0, <2>2, <3>2, SortedNode, Zenon
      <4>2. PICK A, D : Below(h, S, c, Sorted[n], Sorted[n], A, D)
        BY <4>color
      <4> DEFINE k == h.key
                 v == h.value
      <4>3. k \in Keys /\ v \in Values /\ Between(A, k, D) /\ S = A \cup {<<k, v>>} \cup D
            /\ <<h.left, A>> \in Sorted[n] /\ <<h.right, D>> \in Sorted[n]
        BY <4>2, Zenon DEF Below
      <4>4. (\A p, q \in A : p[1] = q[1] => p = q) /\ (\A p, q \in D : p[1] = q[1] => p = q)
        BY <2>0, <4>3, Zenon
      <4> HIDE DEF k, v
      <4>5. /\ \A p \in A : p[1] \in Int /\ p[1] < k
            /\ \A p \in D : p[1] \in Int /\ k < p[1]
            /\ k \in Int /\ <<k, v>>[1] = k
        BY <4>3, KeysAreNumbers DEF Between
      <4>6. QED
        BY <4>3, <4>4, <4>5
    <3>3. QED
      BY <3>1, <3>2
  <2>3. QED
    BY <2>0, <2>2
<1> HIDE DEF P
<1>3. P = Nat
  <2>1. P \in SUBSET Nat
    BY DEF P
  <2>2. QED
    BY <1>1, <1>2, <2>1, EveryNumber
<1>4. QED
  BY <1>3, Zenon DEF P

-----------------------------------------------------------------------------
(* Walks: what the functions do that change nothing.                       *)

At2(f, x, y) == f[x][y]
At3(f, x, y, z) == f[x][y][z]

LEMMA SearchNext ==
  ASSUME NEW m \in Nat, NEW h \in Tree, NEW k \in Keys
  PROVE  /\ At2(search[0], h, k) = NULL
         /\ At2(search[m + 1], h, k) = IF h = NULL THEN NULL
                                       ELSE IF h.key = k THEN h ELSE At2(search[m], Way(h, k), k)
<1> DEFINE f == search
<1>1. f = [n \in Nat |-> SearchOf(n, f[n - 1])]
  BY SearchIs
<1> HIDE DEF f
<1>2. \A n \in Nat : f[n] = SearchOf(n, f[n - 1])
  BY <1>1
<1>3. f[0] = SearchOf(0, f[0 - 1]) /\ f[m + 1] = SearchOf(m + 1, f[m])
  <2>1. m + 1 \in Nat /\ (m + 1) - 1 = m
    OBVIOUS
  <2>2. f[m + 1] = SearchOf(m + 1, f[(m + 1) - 1])
    BY <1>2, <2>1, Zenon
  <2>3. QED
    BY <1>2, <2>1, <2>2
<1>4. ASSUME NEW n, NEW g
      PROVE  At2(SearchOf(n, g), h, k) = IF n = 0 \/ h = NULL THEN NULL
                                         ELSE IF h.key = k THEN h ELSE At2(g, Way(h, k), k)
  BY DEF SearchOf, At2
<1>5. m + 1 # 0
  OBVIOUS
<1>6. QED
  BY <1>3, <1>4, <1>5 DEF f

LEMMA LeastNext ==
  ASSUME NEW m \in Nat, NEW h \in Tree, h # NULL
  PROVE  /\ least[0][h] = h.key
         /\ least[m + 1][h] = IF h.left = NULL THEN h.key ELSE least[m][h.left]
<1> DEFINE f == least
<1>1. f = [n \in Nat |-> LeastOf(n, f[n - 1])]
  BY LeastIs
<1> HIDE DEF f
<1>2. \A n \in Nat : f[n] = LeastOf(n, f[n - 1])
  BY <1>1
<1>3. f[0] = LeastOf(0, f[0 - 1]) /\ f[m + 1] = LeastOf(m + 1, f[m])
  <2>1. m + 1 \in Nat /\ (m + 1) - 1 = m
    OBVIOUS
  <2>2. f[m + 1] = LeastOf(m + 1, f[(m + 1) - 1])
    BY <1>2, <2>1, Zenon
  <2>3. QED
    BY <1>2, <2>1, <2>2
<1>4. ASSUME NEW n, NEW g
      PROVE  LeastOf(n, g)[h] = IF n = 0 \/ h.left = NULL THEN h.key ELSE g[h.left]
  BY DEF LeastOf
<1>5. m + 1 # 0
  OBVIOUS
<1>6. QED
  BY <1>3, <1>4, <1>5 DEF f

LEMMA NodesNext ==
  ASSUME NEW m \in Nat, NEW h \in Tree
  PROVE  /\ nodes[0][h] = {}
         /\ nodes[m + 1][h] = IF h = NULL THEN {} ELSE {h} \cup nodes[m][h.left] \cup nodes[m][h.right]
<1> DEFINE f == nodes
<1>1. f = [n \in Nat |-> NodesOf(n, f[n - 1])]
  BY NodesIs
<1> HIDE DEF f
<1>2. \A n \in Nat : f[n] = NodesOf(n, f[n - 1])
  BY <1>1
<1>3. f[0] = NodesOf(0, f[0 - 1]) /\ f[m + 1] = NodesOf(m + 1, f[m])
  <2>1. m + 1 \in Nat /\ (m + 1) - 1 = m
    OBVIOUS
  <2>2. f[m + 1] = NodesOf(m + 1, f[(m + 1) - 1])
    BY <1>2, <2>1, Zenon
  <2>3. QED
    BY <1>2, <2>1, <2>2
<1>4. ASSUME NEW n, NEW g
      PROVE  NodesOf(n, g)[h] = IF n = 0 \/ h = NULL THEN {} ELSE {h} \cup g[h.left] \cup g[h.right]
  BY DEF NodesOf
<1>5. m + 1 # 0
  OBVIOUS
<1>6. f[0][h] = {} /\ (h = NULL => f[m + 1][h] = {})
  BY <1>3, <1>4, Zenon
<1>7. ASSUME h # NULL
      PROVE  f[m + 1][h] = {h} \cup f[m][h.left] \cup f[m][h.right]
  <2> DEFINE g == f[m]
             N == {h} \cup g[h.left] \cup g[h.right]
  <2>1. NodesOf(m + 1, g)[h] = N
    BY <1>7, <1>5 DEF NodesOf
  <2> HIDE DEF N
  <2>2. f[m + 1][h] = N
    BY <1>3, <2>1
  <2>3. QED
    BY <2>2 DEF N
<1>8. QED
  BY <1>6, <1>7, Zenon DEF f

LEMMA AssociatedNext ==
  ASSUME NEW m \in Nat, NEW h \in Tree, NEW v \in Values
  PROVE  /\ At2(associated[0], h, v) = {}
         /\ h = NULL => At2(associated[m + 1], h, v) = {}
         /\ h # NULL /\ h.value = v => At2(associated[m + 1], h, v) = {h.key}
         /\ h # NULL /\ h.value # v =>
              At2(associated[m + 1], h, v)
                = FirstOf(At2(associated[m], h.left, v), At2(associated[m], h.right, v))
<1> DEFINE f == associated
<1>1. f = [n \in Nat |-> AssociatedOf(n, f[n - 1])]
  BY AssociatedIs
<1> HIDE DEF f
<1>2. \A n \in Nat : f[n] = AssociatedOf(n, f[n - 1])
  BY <1>1
<1>3. f[0] = AssociatedOf(0, f[0 - 1]) /\ f[m + 1] = AssociatedOf(m + 1, f[m])
  <2>1. m + 1 \in Nat /\ (m + 1) - 1 = m
    OBVIOUS
  <2>2. f[m + 1] = AssociatedOf(m + 1, f[(m + 1) - 1])
    BY <1>2, <2>1, Zenon
  <2>3. QED
    BY <1>2, <2>1, <2>2
<1>4. ASSUME NEW n, NEW g
      PROVE  /\ n = 0 \/ h = NULL => At2(AssociatedOf(n, g), h, v) = {}
             /\ n # 0 /\ h # NULL /\ h.value = v => At2(AssociatedOf(n, g), h, v) = {h.key}
             /\ n # 0 /\ h # NULL /\ h.value # v =>
                  At2(AssociatedOf(n, g), h, v) = FirstOf(At2(g, h.left, v), At2(g, h.right, v))
  BY DEF AssociatedOf, At2
<1>5. m + 1 # 0
  OBVIOUS
<1>6. QED
  BY <1>3, <1>4, <1>5, Zenon DEF f

LEMMA BlackNext ==
  ASSUME NEW m \in Nat, NEW h \in Tree
  PROVE  /\ black[0][h] = {0}
         /\ h = NULL => black[m + 1][h] = {0}
         /\ h # NULL => black[m + 1][h]
                          = {b + 1 - h.color : b \in black[m][h.left] \cup black[m][h.right]}
<1> DEFINE f == black
<1>1. f = [n \in Nat |-> BlackOf(n, f[n - 1])]
  BY BlackIs
<1> HIDE DEF f
<1>2. \A n \in Nat : f[n] = BlackOf(n, f[n - 1])
  BY <1>1
<1>3. f[0] = BlackOf(0, f[0 - 1]) /\ f[m + 1] = BlackOf(m + 1, f[m])
  <2>1. m + 1 \in Nat /\ (m + 1) - 1 = m
    OBVIOUS
  <2>2. f[m + 1] = BlackOf(m + 1, f[(m + 1) - 1])
    BY <1>2, <2>1, Zenon
  <2>3. QED
    BY <1>2, <2>1, <2>2
<1> DEFINE next == {b + 1 - h.color : b \in f[m][h.left] \cup f[m][h.right]}
<1>4. BlackOf(0, f[0 - 1])[h] = {0}
  BY DEF BlackOf
<1>5. h = NULL => BlackOf(m + 1, f[m])[h] = {0}
  BY DEF BlackOf
<1>6. h # NULL => BlackOf(m + 1, f[m])[h] = next
  BY DEF BlackOf
<1> HIDE DEF next
<1>7. f[0][h] = {0} /\ (h = NULL => f[m + 1][h] = {0}) /\ (h # NULL => f[m + 1][h] = next)
  BY <1>3, <1>4, <1>5, <1>6
<1>8. QED
  BY <1>7, Zenon DEF f, next

LEMMA NullTree == NULL \in Tree /\ \A n \in Nat : <<NULL, {}>> \in Sorted[n]
<1>1. \A n \in Nat : <<NULL, {}>> \in Sorted[n]
  <2>1. ASSUME NEW n \in Nat
        PROVE  Sorted[0] \subseteq Sorted[n]
    BY SortedMonotone
  <2>2. QED
    BY <2>1, SortedNext
<1>2. 0 \in 0 .. Depth
  BY DepthNumber
<1>3. NULL \in Tree
  BY <1>1, <1>2, SortedTree, Zenon
<1>4. QED
  BY <1>1, <1>3

\* A node below Depth and its children are trees.
LEMMA NodeTrees ==
  ASSUME NEW n \in Nat, n + 1 <= Depth, NEW h, NEW S, <<h, S>> \in Sorted[n + 1],
         NEW c, NEW A, NEW D, Below(h, S, c, Sorted[n], Sorted[n], A, D)
  PROVE  h \in Tree /\ h.left \in Tree /\ h.right \in Tree
<1>1. n \in 0 .. Depth /\ n + 1 \in 0 .. Depth
  BY DepthNumber
<1>2. <<h.left, A>> \in Sorted[n] /\ <<h.right, D>> \in Sorted[n]
  BY Zenon DEF Below
<1>3. QED
  BY <1>1, <1>2, SortedTree, Zenon

\* What a search for k gives in a tree that holds S.
Found(x, S, k) ==
  /\ x = NULL => \A p \in S : p[1] # k
  /\ x # NULL => <<k, x.value>> \in S /\ x.key = k

LEMMA SearchFinds ==
  \A n \in Nat : n <= Depth =>
    \A h, S : <<h, S>> \in Sorted[n] =>
      \A k \in Keys : Found(At2(search[n], h, k), S, k)
<1> DEFINE Good(n) == n <= Depth =>
             \A h, S : <<h, S>> \in Sorted[n] => \A k \in Keys : Found(At2(search[n], h, k), S, k)
           P == {n \in Nat : Good(n)}
<1>1. 0 \in P
  <2>1. ASSUME NEW h, NEW S, <<h, S>> \in Sorted[0], NEW k \in Keys
        PROVE  Found(At2(search[0], h, k), S, k)
    <3>1. h = NULL /\ S = {}
      BY <2>1, SortedNext
    <3>2. At2(search[0], h, k) = NULL
      BY <3>1, NullTree, SearchNext
    <3>3. QED
      BY <3>1, <3>2 DEF Found
  <2>2. QED
    BY <2>1
<1>2. ASSUME NEW n \in P
      PROVE  n + 1 \in P
  <2>0. n \in Nat /\ Good(n)
    OBVIOUS
  <2>1. ASSUME n + 1 <= Depth, NEW h, NEW S, <<h, S>> \in Sorted[n + 1], NEW k \in Keys
        PROVE  Found(At2(search[n + 1], h, k), S, k)
    <3>1. CASE h = NULL
      <4>1. S = {}
        BY <2>0, <2>1, <3>1, SortedRoot
      <4>2. At2(search[n + 1], h, k) = NULL
        BY <2>0, <3>1, NullTree, SearchNext
      <4>3. QED
        BY <4>1, <4>2 DEF Found
    <3>2. CASE h # NULL
      <4>color. PICK c \in Colors : \E A, D : Below(h, S, c, Sorted[n], Sorted[n], A, D)
        BY <2>0, <2>1, <3>2, SortedNode, Zenon
      <4>1. PICK A, D : Below(h, S, c, Sorted[n], Sorted[n], A, D)
        BY <4>color
      <4>2. h \in Tree
        BY <2>0, <2>1, <4>1, NodeTrees, Zenon
      <4>3. At2(search[n + 1], h, k) = IF h.key = k THEN h ELSE At2(search[n], Way(h, k), k)
        BY <2>0, <3>2, <4>2, SearchNext
      <4>4. /\ <<h.left, A>> \in Sorted[n] /\ <<h.right, D>> \in Sorted[n] /\ h.key \in Keys
            /\ Between(A, h.key, D) /\ S = A \cup {<<h.key, h.value>>} \cup D
        BY <4>1, Zenon DEF Below
      <4>5. n <= Depth
        BY <2>0, <2>1, DepthNumber
      <4>6. Found(At2(search[n], h.left, k), A, k) /\ Found(At2(search[n], h.right, k), D, k)
        BY <2>0, <2>1, <4>4, <4>5
      <4> DEFINE a == At2(search[n], h.left, k)
                 d == At2(search[n], h.right, k)
                 x == At2(search[n + 1], h, k)
                 j == h.key
                 v == h.value
      <4>7. /\ Found(a, A, k) /\ Found(d, D, k) /\ Between(A, j, D) /\ S = A \cup {<<j, v>>} \cup D
            /\ j \in Keys
        BY <4>4, <4>6
      <4>8. x = IF j = k THEN h ELSE IF j > k THEN a ELSE d
        BY <4>3 DEF Way
      <4>9. j = k => x # NULL /\ x.key = k /\ x.value = v
        BY <3>2, <4>8
      <4> HIDE DEF a, d, x, j, v
      <4> SUFFICES Found(x, S, k)
        BY Zenon DEF x
      <4>10. /\ \A p \in A : p[1] \in Int /\ p[1] < j
             /\ \A p \in D : p[1] \in Int /\ j < p[1]
             /\ j \in Int /\ k \in Int /\ <<j, v>>[1] = j
        BY <4>7, <2>1, KeysAreNumbers DEF Between
      <4>11. CASE j = k
        BY <4>7, <4>9, <4>11 DEF Found
      <4>12. CASE j > k
        <5>1. x = a /\ \A p \in {<<j, v>>} \cup D : p[1] # k
          BY <4>8, <4>10, <4>12
        <5>2. QED
          BY <4>7, <5>1 DEF Found
      <4>13. CASE j < k
        <5>1. x = d /\ \A p \in A \cup {<<j, v>>} : p[1] # k
          BY <4>8, <4>10, <4>13
        <5>2. QED
          BY <4>7, <5>1 DEF Found
      <4>14. QED
        BY <4>10, <4>11, <4>12, <4>13
    <3>3. QED
      BY <3>1, <3>2
  <2>2. QED
    BY <2>0, <2>1
<1> HIDE DEF P
<1>3. P = Nat
  <2>1. P \in SUBSET Nat
    BY DEF P
  <2>2. QED
    BY <1>1, <1>2, <2>1, EveryNumber
<1>4. QED
  BY <1>3, Zenon DEF P

\* j is the least key of S.
LeastKey(S, j) == (\E w : <<j, w>> \in S) /\ \A p \in S : j <= p[1]

LEMMA LeastFinds ==
  \A n \in Nat : n <= Depth =>
    \A h, S : <<h, S>> \in Sorted[n] /\ h # NULL => LeastKey(S, least[n][h])
<1> DEFINE Good(n) == n <= Depth =>
             \A h, S : <<h, S>> \in Sorted[n] /\ h # NULL => LeastKey(S, least[n][h])
           P == {n \in Nat : Good(n)}
<1>0. ASSUME NEW A, NEW k \in Keys, NEW v, NEW D, Between(A, k, D)
      PROVE  /\ A = {} => LeastKey(A \cup {<<k, v>>} \cup D, k)
             /\ \A j \in Int : LeastKey(A, j) => LeastKey(A \cup {<<k, v>>} \cup D, j)
  <2>1. /\ \A p \in A : p[1] \in Int /\ p[1] < k
        /\ \A p \in D : p[1] \in Int /\ k < p[1]
        /\ k \in Int /\ <<k, v>>[1] = k
    BY <1>0, KeysAreNumbers DEF Between
  <2>2. ASSUME A = {}
        PROVE  LeastKey(A \cup {<<k, v>>} \cup D, k)
    BY <2>1, <2>2 DEF LeastKey
  <2>3. ASSUME NEW j \in Int, LeastKey(A, j)
        PROVE  LeastKey(A \cup {<<k, v>>} \cup D, j)
    <3>1. PICK w : <<j, w>> \in A
      BY <2>3 DEF LeastKey
    <3>2. j < k
      <4>1. <<j, w>>[1] < k
        BY <2>1, <3>1
      <4>2. QED
        BY <4>1
    <3>3. j <= k /\ k \in Int /\ \A p \in A : j <= p[1]
      BY <2>1, <2>3, <3>2 DEF LeastKey
    <3>4. \A p \in D : j <= p[1]
      BY <2>1, <3>3
    <3>5. \A p \in A \cup {<<k, v>>} \cup D : j <= p[1]
      BY <2>1, <3>3, <3>4
    <3>6. <<j, w>> \in A \cup {<<k, v>>} \cup D
      BY <3>1
    <3>7. QED
      BY <3>5, <3>6, Zenon DEF LeastKey
  <2>4. QED
    BY <2>2, <2>3
<1>1. 0 \in P
  <2>1. \A h, S : <<h, S>> \in Sorted[0] => h = NULL
    BY SortedNext
  <2>2. QED
    BY <2>1
<1>2. ASSUME NEW n \in P
      PROVE  n + 1 \in P
  <2>0. n \in Nat /\ Good(n)
    OBVIOUS
  <2>1. ASSUME n + 1 <= Depth, NEW h, NEW S, <<h, S>> \in Sorted[n + 1], h # NULL
        PROVE  LeastKey(S, least[n + 1][h])
    <3>color. PICK c \in Colors : \E A, D : Below(h, S, c, Sorted[n], Sorted[n], A, D)
      BY <2>0, <2>1, SortedNode, Zenon
    <3>1. PICK A, D : Below(h, S, c, Sorted[n], Sorted[n], A, D)
      BY <3>color
    <3>2. /\ <<h.left, A>> \in Sorted[n] /\ h.key \in Keys
          /\ Between(A, h.key, D) /\ S = A \cup {<<h.key, h.value>>} \cup D
      BY <3>1, Zenon DEF Below
    <3>3. h \in Tree
      BY <2>0, <2>1, <3>1, NodeTrees, Zenon
    <3>4. CASE h.left = NULL
      <4>1. A = {}
        BY <2>0, <3>2, <3>4, SortedRoot
      <4>2. least[n + 1][h] = h.key
        BY <2>0, <2>1, <3>3, <3>4, LeastNext
      <4>3. QED
        BY <1>0, <3>2, <4>1, <4>2
    <3>5. CASE h.left # NULL
      <4> DEFINE j == least[n][h.left]
      <4>1. least[n + 1][h] = j
        BY <2>0, <2>1, <3>3, <3>5, LeastNext
      <4>2. n <= Depth
        BY <2>0, <2>1, DepthNumber
      <4>3. LeastKey(A, j)
        BY <2>0, <3>2, <3>5, <4>2
      <4> HIDE DEF j
      <4>4. j \in Int
        <5>1. PICK w : <<j, w>> \in A
          BY <4>3 DEF LeastKey
        <5>2. <<j, w>>[1] \in Int
          BY <3>2, <5>1, KeysAreNumbers DEF Between
        <5>3. QED
          BY <5>2
      <4>5. LeastKey(S, j)
        BY <1>0, <3>2, <4>3, <4>4
      <4>6. QED
        BY <4>1, <4>5
    <3>6. QED
      BY <3>4, <3>5
  <2>2. QED
    BY <2>0, <2>1
<1> HIDE DEF P
<1>3. P = Nat
  <2>1. P \in SUBSET Nat
    BY DEF P
  <2>2. QED
    BY <1>1, <1>2, <2>1, EveryNumber
<1>4. QED
  BY <1>3, Zenon DEF P

\* The nodes N hold the pairs S.
Hold(N, S) ==
  /\ \A x \in N : <<x.key, x.value>> \in S
  /\ \A p \in S : \E x \in N : p = <<x.key, x.value>>

LEMMA NodesHold ==
  \A n \in Nat : n <= Depth =>
    \A h, S : <<h, S>> \in Sorted[n] => Hold(nodes[n][h], S)
<1> DEFINE Good(n) == n <= Depth => \A h, S : <<h, S>> \in Sorted[n] => Hold(nodes[n][h], S)
           P == {n \in Nat : Good(n)}
<1>1. 0 \in P
  <2>1. ASSUME NEW h, NEW S, <<h, S>> \in Sorted[0]
        PROVE  Hold(nodes[0][h], S)
    <3>1. h = NULL /\ S = {}
      BY <2>1, SortedNext
    <3>2. nodes[0][h] = {}
      BY <3>1, NullTree, NodesNext
    <3>3. QED
      BY <3>1, <3>2 DEF Hold
  <2>2. QED
    BY <2>1
<1>2. ASSUME NEW n \in P
      PROVE  n + 1 \in P
  <2>0. n \in Nat /\ Good(n)
    OBVIOUS
  <2>1. ASSUME n + 1 <= Depth, NEW h, NEW S, <<h, S>> \in Sorted[n + 1]
        PROVE  Hold(nodes[n + 1][h], S)
    <3>1. CASE h = NULL
      <4>1. S = {}
        BY <2>0, <2>1, <3>1, SortedRoot
      <4>2. nodes[n + 1][h] = {}
        BY <2>0, <3>1, NullTree, NodesNext
      <4>3. QED
        BY <4>1, <4>2 DEF Hold
    <3>2. CASE h # NULL
      <4>color. PICK c \in Colors : \E A, D : Below(h, S, c, Sorted[n], Sorted[n], A, D)
        BY <2>0, <2>1, <3>2, SortedNode, Zenon
      <4>1. PICK A, D : Below(h, S, c, Sorted[n], Sorted[n], A, D)
        BY <4>color
      <4>2. h \in Tree
        BY <2>0, <2>1, <4>1, NodeTrees, Zenon
      <4> DEFINE a == nodes[n][h.left]
                 d == nodes[n][h.right]
      <4>3. nodes[n + 1][h] = {h} \cup a \cup d
        BY <2>0, <3>2, <4>2, NodesNext
      <4>4. /\ <<h.left, A>> \in Sorted[n] /\ <<h.right, D>> \in Sorted[n]
            /\ S = A \cup {<<h.key, h.value>>} \cup D
        BY <4>1, Zenon DEF Below
      <4>5. n <= Depth
        BY <2>0, <2>1, DepthNumber
      <4>6. Hold(a, A) /\ Hold(d, D)
        BY <2>0, <2>1, <4>4, <4>5
      <4> HIDE DEF a, d
      <4>7. QED
        BY <4>3, <4>4, <4>6 DEF Hold
    <3>3. QED
      BY <3>1, <3>2
  <2>2. QED
    BY <2>0, <2>1
<1> HIDE DEF P
<1>3. P = Nat
  <2>1. P \in SUBSET Nat
    BY DEF P
  <2>2. QED
    BY <1>1, <1>2, <2>1, EveryNumber
<1>4. QED
  BY <1>3, Zenon DEF P

\* The keys that the way back from a value gives in a tree that holds S.
FoundKey(K, S, v) ==
  /\ \A k \in K : <<k, v>> \in S
  /\ K = {} => \A p \in S : p[2] # v

LEMMA AssociatedFinds ==
  \A n \in Nat : n <= Depth =>
    \A h, S : <<h, S>> \in Sorted[n] =>
      \A v \in Values : FoundKey(At2(associated[n], h, v), S, v)
<1> DEFINE Good(n) == n <= Depth =>
             \A h, S : <<h, S>> \in Sorted[n] =>
               \A v \in Values : FoundKey(At2(associated[n], h, v), S, v)
           P == {n \in Nat : Good(n)}
<1>1. 0 \in P
  <2>1. ASSUME NEW h, NEW S, <<h, S>> \in Sorted[0], NEW v \in Values
        PROVE  FoundKey(At2(associated[0], h, v), S, v)
    <3>1. h = NULL /\ S = {}
      BY <2>1, SortedNext
    <3>2. At2(associated[0], h, v) = {}
      BY <3>1, NullTree, AssociatedNext
    <3>3. QED
      BY <3>1, <3>2 DEF FoundKey
  <2>2. QED
    BY <2>1
<1>2. ASSUME NEW n \in P
      PROVE  n + 1 \in P
  <2>0. n \in Nat /\ Good(n)
    OBVIOUS
  <2>1. ASSUME n + 1 <= Depth, NEW h, NEW S, <<h, S>> \in Sorted[n + 1], NEW v \in Values
        PROVE  FoundKey(At2(associated[n + 1], h, v), S, v)
    <3>1. CASE h = NULL
      <4>1. S = {}
        BY <2>0, <2>1, <3>1, SortedRoot
      <4>2. At2(associated[n + 1], h, v) = {}
        BY <2>0, <3>1, NullTree, AssociatedNext
      <4>3. QED
        BY <4>1, <4>2 DEF FoundKey
    <3>2. CASE h # NULL
      <4>color. PICK c \in Colors : \E A, D : Below(h, S, c, Sorted[n], Sorted[n], A, D)
        BY <2>0, <2>1, <3>2, SortedNode, Zenon
      <4>1. PICK A, D : Below(h, S, c, Sorted[n], Sorted[n], A, D)
        BY <4>color
      <4>2. h \in Tree
        BY <2>0, <2>1, <4>1, NodeTrees, Zenon
      <4> DEFINE a == At2(associated[n], h.left, v)
                 d == At2(associated[n], h.right, v)
                 x == At2(associated[n + 1], h, v)
                 j == h.key
                 w == h.value
      <4>3. (w = v => x = {j}) /\ (w # v => x = FirstOf(a, d))
        BY <2>0, <2>1, <3>2, <4>2, AssociatedNext
      <4>4. /\ <<h.left, A>> \in Sorted[n] /\ <<h.right, D>> \in Sorted[n]
            /\ S = A \cup {<<j, w>>} \cup D
        BY <4>1, Zenon DEF Below
      <4>5. n <= Depth
        BY <2>0, <2>1, DepthNumber
      <4>6. FoundKey(a, A, v) /\ FoundKey(d, D, v)
        BY <2>0, <2>1, <4>4, <4>5
      <4> HIDE DEF a, d, x, j, w
      <4> SUFFICES FoundKey(x, S, v)
        BY Zenon DEF x
      <4>7. QED
        BY <4>3, <4>4, <4>6 DEF FoundKey, FirstOf
    <3>3. QED
      BY <3>1, <3>2
  <2>2. QED
    BY <2>0, <2>1
<1> HIDE DEF P
<1>3. P = Nat
  <2>1. P \in SUBSET Nat
    BY DEF P
  <2>2. QED
    BY <1>1, <1>2, <2>1, EveryNumber
<1>4. QED
  BY <1>3, Zenon DEF P

-----------------------------------------------------------------------------
(* What holds of the even trees.                                           *)

Leans(x) == ~is_red(x.right) /\ ~(is_red(x) /\ is_red(x.left))
Level(n, h, b) == black[n][h] = {b} /\ \A x \in nodes[n][h] : Leans(x)

LEMMA LevelNode ==
  ASSUME NEW n \in Nat, NEW h \in Tree, h # NULL, NEW b \in Nat,
         Level(n, h.left, b), Level(n, h.right, b), Leans(h), h.color \in Colors
  PROVE  Level(n + 1, h, b + 1 - h.color)
<1>1. black[n + 1][h] = {b + 1 - h.color}
  <2>1. black[n + 1][h] = {x + 1 - h.color : x \in black[n][h.left] \cup black[n][h.right]}
    BY BlackNext
  <2>2. black[n][h.left] = {b} /\ black[n][h.right] = {b}
    BY DEF Level
  <2>3. QED
    BY <2>1, <2>2
<1>2. nodes[n + 1][h] = {h} \cup nodes[n][h.left] \cup nodes[n][h.right]
  BY NodesNext
<1>3. QED
  BY <1>1, <1>2 DEF Level

LEMMA LevelNull == \A n \in Nat : Level(n, NULL, 0)
<1>1. ASSUME NEW m \in Nat
      PROVE  Level(0, NULL, 0) /\ Level(m + 1, NULL, 0)
  BY NullTree, NodesNext, BlackNext DEF Level
<1>2. ASSUME NEW n \in Nat
      PROVE  Level(n, NULL, 0)
  <2>1. CASE n = 0
    BY <1>1, <2>1
  <2>2. CASE n # 0
    <3>1. n - 1 \in Nat /\ (n - 1) + 1 = n
      BY <2>2
    <3>2. Level((n - 1) + 1, NULL, 0)
      BY <1>1, <3>1, Zenon
    <3>3. QED
      BY <3>1, <3>2
  <2>3. QED
    BY <2>1, <2>2
<1>3. QED
  BY <1>2

LEMMA EvenLevel ==
  \A n \in Nat : n <= Depth =>
    \A b \in Nat : \A h, S :
      /\ <<h, S>> \in Even[b] /\ 2 * b <= n => Level(n, h, b)
      /\ <<h, S>> \in Red(Even[b]) /\ 2 * b + 1 <= n => Level(n, h, b)
<1> DEFINE Good(n) == n <= Depth =>
             \A b \in Nat : \A h, S :
               /\ <<h, S>> \in Even[b] /\ 2 * b <= n => Level(n, h, b)
               /\ <<h, S>> \in Red(Even[b]) /\ 2 * b + 1 <= n => Level(n, h, b)
           P == {n \in Nat : Good(n)}
<1>1. 0 \in P
  <2>1. ASSUME NEW b \in Nat, NEW h, NEW S, <<h, S>> \in Even[b], 2 * b <= 0
        PROVE  Level(0, h, b)
    <3>1. b = 0
      BY <2>1
    <3>2. h = NULL
      BY <2>1, <3>1, EvenRoot
    <3>3. QED
      BY <3>1, <3>2, LevelNull
  <2>2. \A b \in Nat : ~(2 * b + 1 <= 0)
    OBVIOUS
  <2>3. QED
    BY <2>1, <2>2
<1>2. ASSUME NEW n \in P
      PROVE  n + 1 \in P
  <2>0. n \in Nat /\ Good(n)
    OBVIOUS
  <2>1. ASSUME n + 1 <= Depth, NEW b \in Nat, NEW h, NEW S
        PROVE  /\ <<h, S>> \in Even[b] /\ 2 * b <= n + 1 => Level(n + 1, h, b)
               /\ <<h, S>> \in Red(Even[b]) /\ 2 * b + 1 <= n + 1 => Level(n + 1, h, b)
    <3>0. n <= Depth
      BY <2>0, <2>1, DepthNumber
    <3>1. ASSUME <<h, S>> \in Even[b], 2 * b <= n + 1
          PROVE  Level(n + 1, h, b)
      <4>1. CASE b = 0
        <5>1. h = NULL
          BY <3>1, <4>1, EvenRoot
        <5>2. QED
          BY <2>0, <4>1, <5>1, LevelNull
      <4>2. CASE b # 0
        <5> DEFINE i == b - 1
                   X == Even[i]
        <5>1. i \in Nat /\ i + 1 - BLACK = b /\ 2 * i <= n /\ 2 * i + 1 <= n
          BY <2>0, <3>1, <4>2 DEF BLACK
        <5>2. <<h, S>> \in Two(X) \cup LeftRed(X) /\ h # NULL
          BY <3>1, <4>2, EvenRoot
        <5>3. Tame(X) /\ Kind(X) /\ Kind(Red(X)) /\ BLACK \in Colors
          BY <5>1, EvenTame, TameKinds DEF Colors
        <5>4. h \in Tree
          <6>1. 2 * b <= Depth
            BY <2>0, <2>1, <3>1, DepthNumber
          <6>2. QED
            BY <3>1, <6>1, EvenTree
        <5> HIDE DEF i
        <5>5. ASSUME NEW l, NEW A, <<l, A>> \in X
              PROVE  Level(n, l, i)
          BY <2>0, <3>0, <5>1, <5>5
        <5>6. ASSUME NEW l, NEW A, <<l, A>> \in Red(X)
              PROVE  Level(n, l, i)
          BY <2>0, <3>0, <5>1, <5>6
        <5> HIDE DEF X
        <5>7. CASE <<h, S>> \in Two(X)
          <6>1. PICK A, D : Below(h, S, BLACK, X, X, A, D)
            BY <5>3, <5>7, BelowNode, Zenon DEF Two
          <6>2. h.color = BLACK /\ <<h.left, A>> \in X /\ <<h.right, D>> \in X
            BY <6>1, Zenon DEF Below
          <6>3. Level(n, h.left, i) /\ Level(n, h.right, i)
            BY <5>5, <6>2
          <6>4. Leans(h)
            BY <5>3, <5>7, TwoChild DEF Leans
          <6>5. Level(n + 1, h, i + 1 - h.color)
            BY <2>0, <5>1, <5>2, <5>3, <5>4, <6>2, <6>3, <6>4, LevelNode
          <6>6. QED
            BY <5>1, <6>2, <6>5
        <5>8. CASE <<h, S>> \in LeftRed(X)
          <6>1. PICK A, D : Below(h, S, BLACK, Red(X), X, A, D)
            BY <5>3, <5>8, BelowNode, Zenon DEF LeftRed
          <6>2. h.color = BLACK /\ <<h.left, A>> \in Red(X) /\ <<h.right, D>> \in X
            BY <6>1, Zenon DEF Below
          <6>3. Level(n, h.left, i) /\ Level(n, h.right, i)
            BY <5>5, <5>6, <6>2
          <6>4. Leans(h)
            BY <5>3, <5>8, LeftRedChild DEF Leans
          <6>5. Level(n + 1, h, i + 1 - h.color)
            BY <2>0, <5>1, <5>2, <5>3, <5>4, <6>2, <6>3, <6>4, LevelNode
          <6>6. QED
            BY <5>1, <6>2, <6>5
        <5>9. QED
          BY <5>2, <5>7, <5>8
      <4>3. QED
        BY <4>1, <4>2
    <3>2. ASSUME <<h, S>> \in Red(Even[b]), 2 * b + 1 <= n + 1
          PROVE  Level(n + 1, h, b)
      <4> DEFINE X == Even[b]
      <4>1. 2 * b <= n /\ b + 1 - RED = b /\ RED \in Colors
        BY <2>0, <3>2 DEF RED, Colors
      <4>2. Tame(X) /\ Kind(X)
        BY EvenTame, TameKinds
      <4>3. h \in Tree
        <5>1. 2 * b + 1 <= Depth
          BY <2>0, <2>1, <3>2, DepthNumber
        <5>2. QED
          BY <3>2, <5>1, EvenTree
      <4>4. ASSUME NEW l, NEW A, <<l, A>> \in X
            PROVE  Level(n, l, b)
        BY <2>0, <3>0, <4>1, <4>4
      <4> HIDE DEF X
      <4>5. <<h, S>> \in Red(X)
        BY <3>2 DEF X
      <4>6. PICK A, D : Below(h, S, RED, X, X, A, D)
        BY <4>2, <4>5, BelowNode, Zenon DEF Red
      <4>7. h.color = RED /\ <<h.left, A>> \in X /\ <<h.right, D>> \in X /\ h # NULL
        BY <4>6, Zenon DEF Below
      <4>8. Level(n, h.left, b) /\ Level(n, h.right, b)
        BY <4>4, <4>7
      <4>9. Leans(h)
        BY <4>2, <4>5, RedChild DEF Leans
      <4>10. Level(n + 1, h, b + 1 - h.color)
        BY <2>0, <4>1, <4>3, <4>7, <4>8, <4>9, LevelNode
      <4>11. QED
        BY <4>1, <4>7, <4>10
    <3>3. QED
      BY <3>1, <3>2
  <2>2. QED
    BY <2>0, <2>1
<1> HIDE DEF P
<1>3. P = Nat
  <2>1. P \in SUBSET Nat
    BY DEF P
  <2>2. QED
    BY <1>1, <1>2, <2>1, EveryNumber
<1>4. QED
  BY <1>3, Zenon DEF P

-----------------------------------------------------------------------------
(* Insertion.                                                              *)

LEMMA InsertNext ==
  ASSUME NEW m \in Nat, NEW h \in Tree, NEW k \in Keys, NEW v \in Values
  PROVE  /\ At3(node_insert[0], h, k, v) = node_new(k, v)
         /\ h = NULL => At3(node_insert[m + 1], h, k, v) = node_new(k, v)
         /\ h # NULL => At3(node_insert[m + 1], h, k, v)
                          = fixup(InsertBelow(Split(h), k, v, node_insert[m]))
<1> DEFINE f == node_insert
<1>1. f = [n \in Nat |-> InsertOf(n, f[n - 1])]
  BY InsertIs
<1> HIDE DEF f
<1>2. \A n \in Nat : f[n] = InsertOf(n, f[n - 1])
  BY <1>1
<1>3. f[0] = InsertOf(0, f[0 - 1]) /\ f[m + 1] = InsertOf(m + 1, f[m])
  <2>1. m + 1 \in Nat /\ (m + 1) - 1 = m
    OBVIOUS
  <2>2. f[m + 1] = InsertOf(m + 1, f[(m + 1) - 1])
    BY <1>2, <2>1, Zenon
  <2>3. QED
    BY <1>2, <2>1, <2>2
<1>4. ASSUME NEW n, NEW g
      PROVE  /\ n = 0 \/ h = NULL => At3(InsertOf(n, g), h, k, v) = node_new(k, v)
             /\ n # 0 /\ h # NULL => At3(InsertOf(n, g), h, k, v)
                                       = fixup(InsertBelow(Split(h), k, v, g))
  BY DEF InsertOf, At3
<1>5. m + 1 # 0
  OBVIOUS
<1>6. QED
  BY <1>3, <1>4, <1>5, Zenon DEF f

\* Putting a pair into one of the sides.
LEMMA SideKeys ==
  ASSUME NEW A, NEW j \in Keys, NEW w \in Values, NEW D, Between(A, j, D),
         NEW k \in Keys, NEW v
  PROVE  /\ \A p \in A : p[1] \in Int /\ p[1] < j
         /\ \A p \in D : p[1] \in Int /\ j < p[1]
         /\ j \in Int /\ k \in Int /\ <<j, w>>[1] = j /\ <<k, v>>[1] = k
         /\ A \subseteq Pairs /\ D \subseteq Pairs /\ (v \in Values => <<k, v>> \in Pairs)
  BY KeysAreNumbers DEF Between, Pairs

Around(A, j, w, D) == A \cup {<<j, w>>} \cup D

LEMMA PutHere ==
  ASSUME NEW A, NEW j \in Keys, NEW w \in Values, NEW D, Between(A, j, D), NEW v \in Values
  PROVE  Put(Around(A, j, w, D), j, v) = Around(A, j, v, D)
<1>1. /\ \A p \in A : p[1] \in Int /\ p[1] < j
      /\ \A p \in D : p[1] \in Int /\ j < p[1]
      /\ j \in Int /\ <<j, w>>[1] = j
  BY SideKeys
<1>2. QED
  BY <1>1 DEF Put, Around

LEMMA PutLeft ==
  ASSUME NEW A, NEW j \in Keys, NEW w \in Values, NEW D, Between(A, j, D),
         NEW k \in Keys, NEW v \in Values, k < j
  PROVE  /\ Put(Around(A, j, w, D), k, v) = Around(Put(A, k, v), j, w, D)
         /\ Between(Put(A, k, v), j, D)
<1>1. /\ \A p \in A : p[1] \in Int /\ p[1] < j
      /\ \A p \in D : p[1] \in Int /\ j < p[1]
      /\ j \in Int /\ k \in Int /\ <<j, w>>[1] = j /\ <<k, v>>[1] = k
      /\ A \subseteq Pairs /\ D \subseteq Pairs /\ <<k, v>> \in Pairs
  BY SideKeys
<1>2. \A p \in {<<j, w>>} \cup D : p[1] # k
  BY <1>1
<1>3. Put(Around(A, j, w, D), k, v) = Around(Put(A, k, v), j, w, D)
  BY <1>2 DEF Put, Around
<1>4. Between(Put(A, k, v), j, D)
  BY <1>1 DEF Between, Put
<1>5. QED
  BY <1>3, <1>4

LEMMA PutRight ==
  ASSUME NEW A, NEW j \in Keys, NEW w \in Values, NEW D, Between(A, j, D),
         NEW k \in Keys, NEW v \in Values, j < k
  PROVE  /\ Put(Around(A, j, w, D), k, v) = Around(A, j, w, Put(D, k, v))
         /\ Between(A, j, Put(D, k, v))
<1>1. /\ \A p \in A : p[1] \in Int /\ p[1] < j
      /\ \A p \in D : p[1] \in Int /\ j < p[1]
      /\ j \in Int /\ k \in Int /\ <<j, w>>[1] = j /\ <<k, v>>[1] = k
      /\ A \subseteq Pairs /\ D \subseteq Pairs /\ <<k, v>> \in Pairs
  BY SideKeys
<1>2. \A p \in A \cup {<<j, w>>} : p[1] # k
  BY <1>1
<1>3. Put(Around(A, j, w, D), k, v) = Around(A, j, w, Put(D, k, v))
  BY <1>2 DEF Put, Around
<1>4. Between(A, j, Put(D, k, v))
  BY <1>1 DEF Between, Put
<1>5. QED
  BY <1>3, <1>4

\* One level of the insertion, by what it does below.
LEMMA InsertJoin ==
  ASSUME NEW c, NEW L, NEW R, Kind(L), Kind(R), NEW h, NEW S, <<h, S>> \in Joins(c, L, R),
         NEW k \in Keys, NEW v \in Values, NEW f, NEW L2, NEW R2,
         \A l, A : <<l, A>> \in L => <<At3(f, l, k, v), Put(A, k, v)>> \in L2,
         \A r, D : <<r, D>> \in R => <<At3(f, r, k, v), Put(D, k, v)>> \in R2
  PROVE  <<InsertBelow(h, k, v, f), Put(S, k, v)>>
           \in Joins(c, L, R) \cup Joins(c, L2, R) \cup Joins(c, L, R2)
<1>1. PICK A, D : Below(h, S, c, L, R, A, D)
  BY BelowNode, Zenon
<1> DEFINE j == h.key
           w == h.value
           l == h.left
           r == h.right
           a == At3(f, l, k, v)
           d == At3(f, r, k, v)
<1>2. /\ j \in Keys /\ w \in Values /\ <<l, A>> \in L /\ <<r, D>> \in R /\ Between(A, j, D)
      /\ S = A \cup {<<j, w>>} \cup D /\ h = Node(c, j, w, l, r)
  BY <1>1, Zenon DEF Below
<1>3. <<a, Put(A, k, v)>> \in L2 /\ <<d, Put(D, k, v)>> \in R2
  BY <1>2, Zenon
<1>4. InsertBelow(h, k, v, f)
        = CASE j = k -> WithValue(h, v) [] j > k -> WithLeft(h, a) [] j < k -> WithRight(h, d)
  BY Zenon DEF InsertBelow, WithValue, WithLeft, WithRight, At3
<1> HIDE DEF j, w, l, r, a, d
<1>5. j \in Int /\ k \in Int
  BY <1>2, KeysAreNumbers
<1>4a. /\ j = k => InsertBelow(h, k, v, f) = WithValue(h, v)
       /\ j > k => InsertBelow(h, k, v, f) = WithLeft(h, a)
       /\ j < k => InsertBelow(h, k, v, f) = WithRight(h, d)
  BY <1>4, <1>5
<1>6. CASE j = k
  <2>1. WithValue(h, v) = Node(c, j, v, l, r)
    BY <1>2, NodeChanges
  <2>2. Put(S, k, v) = A \cup {<<j, v>>} \cup D
    <3>1. Put(Around(A, j, w, D), j, v) = Around(A, j, v, D)
      <4>1. Between(A, j, D) /\ j \in Keys /\ w \in Values
        BY <1>2, Zenon
      <4>2. QED
        BY <4>1, PutHere, Zenon
    <3>2. QED
      BY <1>2, <1>6, <3>1 DEF Around
  <2>3. <<WithValue(h, v), Put(S, k, v)>> \in Joins(c, L, R)
    BY <1>2, <2>1, <2>2, JoinIntro
  <2>4. QED
    BY <1>4a, <1>6, <2>3
<1>7. CASE k < j
  <2>1. WithLeft(h, a) = Node(c, j, w, a, r)
    BY <1>2, NodeChanges
  <2>2. Put(S, k, v) = Put(A, k, v) \cup {<<j, w>>} \cup D /\ Between(Put(A, k, v), j, D)
    <3>1. Put(Around(A, j, w, D), k, v) = Around(Put(A, k, v), j, w, D)
      BY <1>2, <1>7, PutLeft
    <3>2. Between(Put(A, k, v), j, D)
      BY <1>2, <1>7, PutLeft
    <3>3. QED
      BY <1>2, <3>1, <3>2 DEF Around
  <2>3. <<WithLeft(h, a), Put(S, k, v)>> \in Joins(c, L2, R)
    BY <1>2, <1>3, <2>1, <2>2, JoinIntro
  <2>4. j > k
    BY <1>5, <1>7
  <2>5. QED
    BY <1>4a, <2>3, <2>4
<1>8. CASE j < k
  <2>1. WithRight(h, d) = Node(c, j, w, l, d)
    BY <1>2, NodeChanges
  <2>2. Put(S, k, v) = A \cup {<<j, w>>} \cup Put(D, k, v) /\ Between(A, j, Put(D, k, v))
    <3>1. Put(Around(A, j, w, D), k, v) = Around(A, j, w, Put(D, k, v))
      BY <1>2, <1>8, PutRight
    <3>2. Between(A, j, Put(D, k, v))
      BY <1>2, <1>8, PutRight
    <3>3. QED
      BY <1>2, <3>1, <3>2 DEF Around
  <2>3. <<WithRight(h, d), Put(S, k, v)>> \in Joins(c, L, R2)
    BY <1>2, <1>3, <2>1, <2>2, JoinIntro
  <2>4. QED
    BY <1>4a, <1>8, <2>3
<1>9. QED
  BY <1>5, <1>6, <1>7, <1>8

\* What it does with a pair below, and at a node.
InsertsInto(f, k, v, X, Y) == \A h, S : <<h, S>> \in X => <<At3(f, h, k, v), Put(S, k, v)>> \in Y
InsertsAt(f, k, v, X, Y) ==
  \A h, S : <<h, S>> \in X => <<fixup(InsertBelow(Split(h), k, v, f)), Put(S, k, v)>> \in Y

LEMMA InsertTwo ==
  ASSUME NEW X, Tame(X), NEW c \in Colors, NEW k \in Keys, NEW v \in Values, NEW f,
         InsertsInto(f, k, v, X, Either(X))
  PROVE  InsertsAt(f, k, v, Joins(c, X, X), Joins(c, Either(X), X))
<1> SUFFICES ASSUME NEW h, NEW S, <<h, S>> \in Joins(c, X, X)
             PROVE  <<fixup(InsertBelow(Split(h), k, v, f)), Put(S, k, v)>> \in Joins(c, Either(X), X)
  BY Zenon DEF InsertsAt
<1>1. Kind(X)
  BY TameKinds, Zenon
<1>2. Split(h) = h
  <2>1. PICK D : <<h.right, D>> \in X
    BY <1>1, RightChild, Zenon
  <2>2. ~is_red(h.right)
    BY <2>1, TameRoot, Zenon
  <2>3. QED
    BY <2>2, Zenon DEF Split
<1> DEFINE g == InsertBelow(h, k, v, f)
           T == Put(S, k, v)
<1>3. <<g, T>> \in Joins(c, X, X) \cup Joins(c, Either(X), X) \cup Joins(c, X, Either(X))
  <2>1. \A l, A : <<l, A>> \in X => <<At3(f, l, k, v), Put(A, k, v)>> \in Either(X)
    BY Zenon DEF InsertsInto
  <2>2. QED
    BY <1>1, <2>1, InsertJoin, Zenon
<1> HIDE DEF g, T
<1>4. Joins(c, X, X) \subseteq Joins(c, Either(X), X)
  BY EitherSide
<1>5. <<g, T>> \in Joins(c, Either(X), X) \cup Joins(c, X, Either(X))
  BY <1>3, <1>4
<1>6. <<fixup(g), T>> \in Joins(c, Either(X), X)
  BY <1>5, FixupOne, Zenon
<1>7. QED
  BY <1>2, <1>6, Zenon DEF g, T

LEMMA InsertLeftRed ==
  ASSUME NEW X, Tame(X), NEW k \in Keys, NEW v \in Values, NEW f,
         InsertsInto(f, k, v, X, Either(X)), InsertsInto(f, k, v, Red(X), Stacked(X))
  PROVE  InsertsAt(f, k, v, LeftRed(X), Either(Black(X)))
<1> SUFFICES ASSUME NEW h, NEW S, <<h, S>> \in LeftRed(X)
             PROVE  <<fixup(InsertBelow(Split(h), k, v, f)), Put(S, k, v)>> \in Either(Black(X))
  BY Zenon DEF InsertsAt
<1>1. Kind(X) /\ Kind(Red(X)) /\ <<h, S>> \in Joins(BLACK, Red(X), X) /\ BLACK \in Colors
  BY TameKinds, Zenon DEF LeftRed, Colors
<1>2. Split(h) = h
  <2>1. ~is_red(h.right)
    BY LeftRedChild, Zenon
  <2>2. QED
    BY <2>1, Zenon DEF Split
<1> DEFINE g == InsertBelow(h, k, v, f)
           T == Put(S, k, v)
<1>3. <<g, T>> \in Joins(BLACK, Red(X), X) \cup Joins(BLACK, Stacked(X), X) \cup Joins(BLACK, Red(X), Either(X))
  <2>1. \A l, A : <<l, A>> \in X => <<At3(f, l, k, v), Put(A, k, v)>> \in Either(X)
    BY Zenon DEF InsertsInto
  <2>2. \A l, A : <<l, A>> \in Red(X) => <<At3(f, l, k, v), Put(A, k, v)>> \in Stacked(X)
    BY Zenon DEF InsertsInto
  <2>3. QED
    BY <1>1, <2>1, <2>2, InsertJoin, Zenon
<1> HIDE DEF g, T
<1>4. Joins(BLACK, Stacked(X), X) = Joins(BLACK, Red(X), X) \cup Joins(BLACK, Joins(RED, Red(X), X), X)
  <2> DEFINE Y == Red(X)
             Z == Joins(RED, Red(X), X)
  <2>1. Stacked(X) = Y \cup Z
    BY StackedParts
  <2> HIDE DEF Y, Z
  <2>2. Joins(BLACK, Stacked(X), X) = Joins(BLACK, Y, X) \cup Joins(BLACK, Z, X)
    BY <2>1 DEF Joins
  <2>3. QED
    BY <2>2 DEF Y, Z
<1>5. Joins(BLACK, Red(X), X) \cup Joins(BLACK, Red(X), Either(X)) \subseteq Joins(BLACK, Either(X), Either(X))
  <2>1. X \subseteq Either(X) /\ Red(X) \subseteq Either(X)
    BY DEF Either
  <2>2. Joins(BLACK, Red(X), X) \subseteq Joins(BLACK, Either(X), Either(X))
    BY <2>1, JoinMonotone, Zenon
  <2>3. Joins(BLACK, Red(X), Either(X)) \subseteq Joins(BLACK, Either(X), Either(X))
    BY <2>1, JoinMonotone, Zenon
  <2>4. QED
    BY <2>2, <2>3
<1>6. Joins(1 - BLACK, Two(X), Two(X)) \subseteq Either(Black(X))
  <2>1. Two(X) \subseteq Black(X)
    BY BlackParts
  <2>2. Joins(RED, Two(X), Two(X)) \subseteq Joins(RED, Black(X), Black(X))
    BY <2>1, JoinMonotone, Zenon
  <2>3. QED
    BY <2>2, Recolor DEF Either, Red
<1>7. CASE <<g, T>> \in Joins(BLACK, Joins(RED, Red(X), X), X)
  <2>1. <<fixup(g), T>> \in Joins(1 - BLACK, Two(X), Two(X))
    BY <1>7, FixupStack, Zenon
  <2>2. QED
    BY <1>2, <1>6, <2>1 DEF g, T
<1>8. CASE <<g, T>> \in Joins(BLACK, Either(X), Either(X))
  <2>1. <<fixup(g), T>> \in Fixed(BLACK, X)
    BY <1>1, <1>8, FixupEither, Zenon
  <2>2. Fixed(BLACK, X) \subseteq Either(Black(X))
    BY <1>6 DEF Fixed, Either, Black
  <2>3. QED
    BY <1>2, <2>1, <2>2 DEF g, T
<1>9. QED
  BY <1>3, <1>4, <1>5, <1>7, <1>8

LEMMA NewNode ==
  ASSUME NEW k \in Keys, NEW v \in Values
  PROVE  <<node_new(k, v), Put({}, k, v)>> \in Red(Even[0])
<1>1. node_new(k, v) = Node(RED, k, v, NULL, NULL)
  BY DEF node_new, Node
<1>2. Put({}, k, v) = {<<k, v>>}
  BY DEF Put
<1>3. <<NULL, {}>> \in Even[0]
  BY EvenNext
<1>4. Between({}, k, {}) /\ {<<k, v>>} = {} \cup {<<k, v>>} \cup {}
  BY DEF Between
<1>5. QED
  BY <1>1, <1>2, <1>3, <1>4, JoinIntro DEF Red

\* The insertion adds at most a red node on top.
LEMMA InsertGood ==
  ASSUME NEW k \in Keys, NEW v \in Values
  PROVE  \A m \in Nat : \A b \in Nat :
           /\ 2 * b <= m /\ 2 * b <= Depth
                => InsertsInto(node_insert[m], k, v, Even[b], Either(Even[b]))
           /\ 2 * b + 1 <= m /\ 2 * b + 1 <= Depth
                => InsertsInto(node_insert[m], k, v, Red(Even[b]), Stacked(Even[b]))
<1> DEFINE Good(m) == \A b \in Nat :
             /\ 2 * b <= m /\ 2 * b <= Depth
                  => InsertsInto(node_insert[m], k, v, Even[b], Either(Even[b]))
             /\ 2 * b + 1 <= m /\ 2 * b + 1 <= Depth
                  => InsertsInto(node_insert[m], k, v, Red(Even[b]), Stacked(Even[b]))
           P == {m \in Nat : Good(m)}
<1>0. ASSUME NEW m \in Nat
      PROVE  InsertsInto(node_insert[m], k, v, Even[0], Either(Even[0]))
  <2> SUFFICES ASSUME NEW h, NEW S, <<h, S>> \in Even[0]
               PROVE  <<At3(node_insert[m], h, k, v), Put(S, k, v)>> \in Either(Even[0])
    BY Zenon DEF InsertsInto
  <2>1. h = NULL /\ S = {}
    BY EvenNext
  <2>2. \A n \in Nat : At3(node_insert[0], h, k, v) = node_new(k, v)
                       /\ At3(node_insert[n + 1], h, k, v) = node_new(k, v)
    BY <2>1, NullTree, InsertNext
  <2>3. At3(node_insert[m], h, k, v) = node_new(k, v)
    <3>1. CASE m = 0
      BY <2>2, <3>1
    <3>2. CASE m # 0
      <4>1. m - 1 \in Nat /\ (m - 1) + 1 = m
        BY <3>2
      <4>2. At3(node_insert[(m - 1) + 1], h, k, v) = node_new(k, v)
        BY <2>2, <4>1, Zenon
      <4>3. QED
        BY <4>1, <4>2
    <3>3. QED
      BY <3>1, <3>2
  <2>4. <<node_new(k, v), Put(S, k, v)>> \in Red(Even[0])
    BY <2>1, NewNode
  <2>5. QED
    BY <2>3, <2>4 DEF Either
<1>1. 0 \in P
  <2>1. ASSUME NEW b \in Nat, 2 * b <= 0
        PROVE  b = 0
    BY <2>1
  <2>2. \A b \in Nat : ~(2 * b + 1 <= 0)
    OBVIOUS
  <2>3. InsertsInto(node_insert[0], k, v, Even[0], Either(Even[0]))
    BY <1>0
  <2>4. QED
    BY <2>1, <2>2, <2>3
<1>2. ASSUME NEW m \in P
      PROVE  m + 1 \in P
  <2>0. m \in Nat /\ Good(m)
    OBVIOUS
  <2> DEFINE f == node_insert[m]
             g == node_insert[m + 1]
  <2>1. ASSUME NEW b \in Nat, 2 * b + 1 <= m + 1, 2 * b + 1 <= Depth
        PROVE  InsertsInto(g, k, v, Red(Even[b]), Stacked(Even[b]))
    <3> DEFINE X == Even[b]
    <3>1. 2 * b <= m /\ 2 * b <= Depth
      BY <2>0, <2>1, DepthNumber
    <3>2. InsertsInto(f, k, v, X, Either(X))
      BY <2>0, <3>1
    <3>3. Tame(X) /\ RED \in Colors
      BY EvenTame DEF Colors
    <3>4. \A h, S : <<h, S>> \in Red(X) => h \in Tree /\ h # NULL
      <4>1. ASSUME NEW h, NEW S, <<h, S>> \in Red(X)
            PROVE  h \in Tree /\ h # NULL
        <5>1. h \in Tree
          BY <2>1, <4>1, EvenTree
        <5>2. is_red(h)
          BY <3>3, <4>1, RedChild, Zenon
        <5>3. QED
          BY <5>1, <5>2 DEF is_red
      <4>2. QED
        BY <4>1
    <3> HIDE DEF X, f, g
    <3>5. InsertsAt(f, k, v, Red(X), Stacked(X))
      BY <3>2, <3>3, InsertTwo, Zenon DEF Red, Stacked
    <3>6. ASSUME NEW h, NEW S, <<h, S>> \in Red(X)
          PROVE  <<At3(g, h, k, v), Put(S, k, v)>> \in Stacked(X)
      <4>1. At3(g, h, k, v) = fixup(InsertBelow(Split(h), k, v, f))
        BY <2>0, <3>4, <3>6, InsertNext, Zenon DEF f, g
      <4>2. <<fixup(InsertBelow(Split(h), k, v, f)), Put(S, k, v)>> \in Stacked(X)
        BY <3>5, <3>6, Zenon DEF InsertsAt
      <4>3. QED
        BY <4>1, <4>2
    <3>7. QED
      BY <3>6, Zenon DEF InsertsInto, X
  <2>2. ASSUME NEW b \in Nat, 2 * b <= m + 1, 2 * b <= Depth
        PROVE  InsertsInto(g, k, v, Even[b], Either(Even[b]))
    <3>1. CASE b = 0
      <4>1. m + 1 \in Nat
        BY <2>0
      <4>2. QED
        BY <1>0, <3>1, <4>1
    <3>2. CASE b # 0
      <4> DEFINE i == b - 1
                 X == Even[i]
                 Y == Even[b]
      <4>1. /\ i \in Nat /\ 2 * i <= m /\ 2 * i <= Depth
            /\ 2 * i + 1 <= m /\ 2 * i + 1 <= Depth
        BY <2>0, <2>2, <3>2, DepthNumber
      <4> HIDE DEF i
      <4>2. InsertsInto(f, k, v, X, Either(X)) /\ InsertsInto(f, k, v, Red(X), Stacked(X))
        BY <2>0, <4>1
      <4>3. Tame(X) /\ BLACK \in Colors
        BY <4>1, EvenTame DEF Colors
      <4>4. Y = Black(X)
        BY <3>2, EvenNext DEF i
      <4>5. \A h, S : <<h, S>> \in Y => h \in Tree /\ h # NULL
        BY <2>2, <3>2, EvenTree, EvenRoot
      <4> HIDE DEF X, Y, f, g
      <4>6. InsertsAt(f, k, v, Two(X), Black(X))
        BY <4>2, <4>3, InsertTwo, Zenon DEF Two, Black
      <4>7. InsertsAt(f, k, v, LeftRed(X), Either(Black(X)))
        BY <4>2, <4>3, InsertLeftRed, Zenon
      <4>8. ASSUME NEW h, NEW S, <<h, S>> \in Y
            PROVE  <<At3(g, h, k, v), Put(S, k, v)>> \in Either(Y)
        <5>1. At3(g, h, k, v) = fixup(InsertBelow(Split(h), k, v, f))
          BY <2>0, <4>5, <4>8, InsertNext, Zenon DEF f, g
        <5>2. <<h, S>> \in Two(X) \/ <<h, S>> \in LeftRed(X)
          BY <4>4, <4>8, BlackParts
        <5>3. CASE <<h, S>> \in Two(X)
          <6>1. <<fixup(InsertBelow(Split(h), k, v, f)), Put(S, k, v)>> \in Black(X)
            BY <4>6, <5>3, Zenon DEF InsertsAt
          <6>2. QED
            BY <4>4, <5>1, <6>1 DEF Either
        <5>4. CASE <<h, S>> \in LeftRed(X)
          <6>1. <<fixup(InsertBelow(Split(h), k, v, f)), Put(S, k, v)>> \in Either(Black(X))
            BY <4>7, <5>4, Zenon DEF InsertsAt
          <6>2. QED
            BY <4>4, <5>1, <6>1
        <5>5. QED
          BY <5>2, <5>3, <5>4
      <4>9. QED
        BY <4>8, Zenon DEF InsertsInto, Y
    <3>3. QED
      BY <3>1, <3>2
  <2>3. QED
    BY <2>0, <2>1, <2>2
<1> HIDE DEF P
<1>3. P = Nat
  <2>1. P \in SUBSET Nat
    BY DEF P
  <2>2. QED
    BY <1>1, <1>2, <2>1, EveryNumber
<1>4. QED
  BY <1>3, Zenon DEF P

\* A tree as an owner holds it.
Rooted(h, S) == \E b \in Nat : <<h, S>> \in Even[b]

LEMMA RootedTree ==
  ASSUME NEW h, NEW S, Rooted(h, S)
  PROVE  /\ h \in Tree /\ S \subseteq Pairs /\ ~is_red(h) /\ (h = NULL => S = {})
         /\ <<h, S>> \in Sorted[Depth]
<1>1. PICK b \in Nat : <<h, S>> \in Even[b]
  BY DEF Rooted
<1>2. 2 * b <= Depth /\ Depth \in Nat /\ 2 * b \in 0 .. Depth
  BY <1>1, DepthEnough
<1>3. <<h, S>> \in Sorted[2 * b]
  BY <1>1, EvenSorted
<1>4. h \in Tree /\ <<h, S>> \in Sorted[Depth]
  BY <1>2, <1>3, SortedTree, Zenon
<1>5. QED
  BY <1>1, <1>4, EvenRoot

LEMMA Blacken ==
  ASSUME NEW c, NEW L, NEW R, Kind(L), Kind(R), NEW h, NEW S, <<h, S>> \in Joins(c, L, R)
  PROVE  <<Blackened(h), S>> \in Joins(BLACK, L, R)
<1>1. PICK k, v, l, A, r, D : Parts(h, S, c, L, R, k, v, l, A, r, D)
  BY JoinParts, Zenon
<1>2. /\ k \in Keys /\ v \in Values /\ <<l, A>> \in L /\ <<r, D>> \in R /\ Between(A, k, D)
      /\ h = Node(c, k, v, l, r) /\ S = A \cup {<<k, v>>} \cup D
  BY <1>1, Zenon DEF Parts
<1>3. Blackened(h) = WithColor(h, BLACK)
  BY Zenon DEF Blackened, WithColor
<1>4. WithColor(h, BLACK) = Node(BLACK, k, v, l, r)
  BY <1>2, NodeChanges
<1>5. QED
  BY <1>2, <1>3, <1>4, JoinIntro

\* An insertion keeps a tree as owners have them, and puts the pair in (llrb.c:98).
LEMMA InsertRooted ==
  ASSUME NEW h, NEW S, Rooted(h, S), NEW k \in Keys, NEW v \in Values
  PROVE  Rooted(rb_insert(h, k, v), Put(S, k, v))
<1>1. PICK b \in Nat : <<h, S>> \in Even[b]
  BY DEF Rooted
<1> DEFINE X == Even[b]
           g == At3(node_insert[Depth], h, k, v)
           T == Put(S, k, v)
<1>2. Tame(X) /\ Kind(X) /\ Even[b + 1] = Black(X) /\ b + 1 \in Nat
  BY EvenTame, TameKinds, EvenNext
<1>3. <<g, T>> \in Either(X)
  <2>1. 2 * b <= Depth /\ Depth \in Nat
    BY <1>1, DepthEnough
  <2>2. InsertsInto(node_insert[Depth], k, v, Even[b], Either(Even[b]))
    BY <2>1, InsertGood
  <2>3. QED
    BY <1>1, <2>2, Zenon DEF InsertsInto
<1>4. rb_insert(h, k, v) = Blackened(g)
  BY Zenon DEF rb_insert, At3
<1> HIDE DEF g, T
<1>5. CASE <<g, T>> \in Red(X)
  <2>1. <<Blackened(g), T>> \in Two(X)
    <3> HIDE DEF X
    <3>1. QED
      BY <1>2, <1>5, Blacken, Zenon DEF Red, Two
  <2>2. Two(X) \subseteq Even[b + 1]
    BY <1>2, BlackParts
  <2>3. QED
    BY <1>2, <1>4, <2>1, <2>2 DEF Rooted, T
<1>6. CASE <<g, T>> \in X
  <2>1. b # 0
    <3>1. T # {}
      BY DEF T, Put
    <3>2. QED
      BY <1>6, <3>1, EvenNext
  <2> DEFINE Y == Even[b - 1]
  <2>2. Tame(Y) /\ Kind(Y) /\ Kind(Either(Y)) /\ X = Black(Y)
    BY <2>1, EvenTame, TameKinds, EvenNext
  <2> HIDE DEF Y
  <2>3. <<g, T>> \in Joins(BLACK, Either(Y), Y)
    BY <1>6, <2>2 DEF Black
  <2>4. <<Blackened(g), T>> \in Joins(BLACK, Either(Y), Y)
    BY <2>2, <2>3, Blacken, Zenon
  <2>5. <<Blackened(g), T>> \in X
    BY <2>2, <2>4 DEF Black
  <2>6. QED
    BY <1>4, <2>5 DEF Rooted, T
<1>7. QED
  BY <1>3, <1>5, <1>6 DEF Either

-----------------------------------------------------------------------------
(* Removal: one level of it, by what it does below.                        *)

LEMMA CutHere ==
  ASSUME NEW A, NEW j \in Keys, NEW w \in Values, NEW D, Between(A, j, D)
  PROVE  Cut(Around(A, j, w, D), j) = A \cup D
<1>1. /\ \A p \in A : p[1] \in Int /\ p[1] < j
      /\ \A p \in D : p[1] \in Int /\ j < p[1]
      /\ j \in Int /\ <<j, w>>[1] = j
  BY SideKeys
<1>2. QED
  BY <1>1 DEF Cut, Around

LEMMA CutLeft ==
  ASSUME NEW A, NEW j \in Keys, NEW w \in Values, NEW D, Between(A, j, D), NEW k \in Keys, k < j
  PROVE  /\ Cut(Around(A, j, w, D), k) = Around(Cut(A, k), j, w, D)
         /\ Between(Cut(A, k), j, D)
<1>1. /\ \A p \in A : p[1] \in Int /\ p[1] < j
      /\ \A p \in D : p[1] \in Int /\ j < p[1]
      /\ j \in Int /\ k \in Int /\ <<j, w>>[1] = j
      /\ A \subseteq Pairs /\ D \subseteq Pairs
  BY SideKeys
<1>2. \A p \in {<<j, w>>} \cup D : p[1] # k
  BY <1>1
<1>3. Cut(Around(A, j, w, D), k) = Around(Cut(A, k), j, w, D)
  BY <1>2 DEF Cut, Around
<1>4. Between(Cut(A, k), j, D)
  BY <1>1 DEF Between, Cut
<1>5. QED
  BY <1>3, <1>4

LEMMA CutRight ==
  ASSUME NEW A, NEW j \in Keys, NEW w \in Values, NEW D, Between(A, j, D), NEW k \in Keys, j < k
  PROVE  /\ Cut(Around(A, j, w, D), k) = Around(A, j, w, Cut(D, k))
         /\ Between(A, j, Cut(D, k))
<1>1. /\ \A p \in A : p[1] \in Int /\ p[1] < j
      /\ \A p \in D : p[1] \in Int /\ j < p[1]
      /\ j \in Int /\ k \in Int /\ <<j, w>>[1] = j
      /\ A \subseteq Pairs /\ D \subseteq Pairs
  BY SideKeys
<1>2. \A p \in A \cup {<<j, w>>} : p[1] # k
  BY <1>1
<1>3. Cut(Around(A, j, w, D), k) = Around(A, j, w, Cut(D, k))
  BY <1>2 DEF Cut, Around
<1>4. Between(A, j, Cut(D, k))
  BY <1>1 DEF Between, Cut
<1>5. QED
  BY <1>3, <1>4

\* Where the least key is removed (q = 1), k is the least one.
Fit(q, S, k) == q = 1 => LeastKey(S, k)

LEMMA FitLeft ==
  ASSUME NEW A, NEW j \in Keys, NEW w \in Values, NEW D, Between(A, j, D), NEW k \in Keys, k < j,
         NEW q, Fit(q, Around(A, j, w, D), k)
  PROVE  Fit(q, A, k)
<1> SUFFICES ASSUME q = 1
             PROVE  LeastKey(A, k)
  BY DEF Fit
<1>1. /\ \A p \in A : p[1] \in Int /\ p[1] < j
      /\ \A p \in D : p[1] \in Int /\ j < p[1]
      /\ j \in Int /\ k \in Int /\ <<j, w>>[1] = j
  BY SideKeys
<1>2. LeastKey(Around(A, j, w, D), k)
  BY DEF Fit
<1>3. PICK v : <<k, v>> \in Around(A, j, w, D)
  BY <1>2, Zenon DEF LeastKey
<1>4. <<k, v>> \in A
  <2>1. <<k, v>>[1] = k
    OBVIOUS
  <2>2. \A p \in {<<j, w>>} \cup D : p[1] # k
    BY <1>1
  <2>3. <<k, v>> \notin {<<j, w>>} \cup D
    BY <2>1, <2>2
  <2>4. QED
    BY <1>3, <2>3 DEF Around
<1>5. \A p \in A : k <= p[1]
  BY <1>2 DEF LeastKey, Around
<1>6. QED
  BY <1>4, <1>5, Zenon DEF LeastKey

LEMMA LeftJoin ==
  ASSUME NEW c, NEW L, NEW R, Kind(L), Kind(R), NEW h, NEW S, <<h, S>> \in Joins(c, L, R),
         NEW k \in Keys, k < h.key, NEW q, Fit(q, S, k), NEW x, NEW L2,
         \A A : <<h.left, A>> \in L /\ Fit(q, A, k) => <<x, Cut(A, k)>> \in L2
  PROVE  <<WithLeft(h, x), Cut(S, k)>> \in Joins(c, L2, R)
<1>1. PICK A, D : Below(h, S, c, L, R, A, D)
  BY BelowNode, Zenon
<1> DEFINE j == h.key
           w == h.value
           l == h.left
           r == h.right
<1>2. /\ j \in Keys /\ w \in Values /\ <<l, A>> \in L /\ <<r, D>> \in R /\ Between(A, j, D)
      /\ S = Around(A, j, w, D) /\ h = Node(c, j, w, l, r) /\ k < j
  BY <1>1, Zenon DEF Below, Around
<1>3. Fit(q, A, k) => <<x, Cut(A, k)>> \in L2
  BY <1>2, Zenon
<1> HIDE DEF j, w, l, r
<1>4. Fit(q, Around(A, j, w, D), k)
  BY <1>2
<1>5. Fit(q, A, k)
  BY <1>2, <1>4, FitLeft
<1>6. WithLeft(h, x) = Node(c, j, w, x, r)
  BY <1>2, NodeChanges
<1>7. Cut(Around(A, j, w, D), k) = Around(Cut(A, k), j, w, D)
  BY <1>2, CutLeft
<1>8. Between(Cut(A, k), j, D)
  BY <1>2, CutLeft, Zenon
<1>9. Cut(S, k) = Cut(A, k) \cup {<<j, w>>} \cup D
  BY <1>2, <1>7 DEF Around
<1>10. QED
  BY <1>2, <1>3, <1>5, <1>6, <1>8, <1>9, JoinIntro

LEMMA RightJoin ==
  ASSUME NEW c, NEW L, NEW R, Kind(L), Kind(R), NEW h, NEW S, <<h, S>> \in Joins(c, L, R),
         NEW k \in Keys, h.key < k, NEW x, NEW R2,
         \A D : <<h.right, D>> \in R => <<x, Cut(D, k)>> \in R2
  PROVE  <<WithRight(h, x), Cut(S, k)>> \in Joins(c, L, R2)
<1>1. PICK A, D : Below(h, S, c, L, R, A, D)
  BY BelowNode, Zenon
<1> DEFINE j == h.key
           w == h.value
           l == h.left
           r == h.right
<1>2. /\ j \in Keys /\ w \in Values /\ <<l, A>> \in L /\ <<r, D>> \in R /\ Between(A, j, D)
      /\ S = Around(A, j, w, D) /\ h = Node(c, j, w, l, r) /\ j < k
  BY <1>1, Zenon DEF Below, Around
<1>3. <<x, Cut(D, k)>> \in R2
  BY <1>2, Zenon
<1> HIDE DEF j, w, l, r
<1>6. WithRight(h, x) = Node(c, j, w, l, x)
  BY <1>2, NodeChanges
<1>7. Cut(Around(A, j, w, D), k) = Around(A, j, w, Cut(D, k))
  BY <1>2, CutRight
<1>8. Between(A, j, Cut(D, k))
  BY <1>2, CutRight, Zenon
<1>9. Cut(S, k) = A \cup {<<j, w>>} \cup Cut(D, k)
  BY <1>2, <1>7 DEF Around
<1>10. QED
  BY <1>2, <1>3, <1>6, <1>8, <1>9, JoinIntro

\* The node takes over the next key i and its value u from the right.
Next2(D, i, u) == LeastKey(D, i) /\ <<i, u>> \in D /\ \A p \in D : p[1] = i => p = <<i, u>>

LEMMA ReplaceJoin ==
  ASSUME NEW c, NEW L, NEW R, Kind(L), Kind(R), NEW h, NEW S, <<h, S>> \in Joins(c, L, R),
         NEW i, NEW u, NEW x, NEW R2,
         \A D : <<h.right, D>> \in R => Next2(D, i, u) /\ <<x, Cut(D, i)>> \in R2
  PROVE  <<WithRight(WithKey(WithValue(h, u), i), x), Cut(S, h.key)>> \in Joins(c, L, R2)
<1>1. PICK A, D : Below(h, S, c, L, R, A, D)
  BY BelowNode, Zenon
<1> DEFINE j == h.key
           w == h.value
           l == h.left
           r == h.right
<1>2. /\ j \in Keys /\ w \in Values /\ <<l, A>> \in L /\ <<r, D>> \in R /\ Between(A, j, D)
      /\ S = Around(A, j, w, D) /\ h = Node(c, j, w, l, r)
  BY <1>1, Zenon DEF Below, Around
<1>3. Next2(D, i, u) /\ <<x, Cut(D, i)>> \in R2
  BY <1>2, Zenon
<1> HIDE DEF j, w, l, r
<1>4. /\ \A p \in A : p[1] \in Int /\ p[1] < j
      /\ \A p \in D : p[1] \in Int /\ j < p[1]
      /\ j \in Int /\ A \subseteq Pairs /\ D \subseteq Pairs
  BY <1>2, KeysAreNumbers DEF Between
<1>5. <<i, u>> \in Pairs /\ i \in Keys /\ u \in Values /\ i \in Int /\ j < i
  <2>1. <<i, u>> \in D /\ <<i, u>>[1] = i /\ <<i, u>>[2] = u
    BY <1>3 DEF Next2
  <2>2. <<i, u>> \in Pairs /\ j < i
    BY <1>4, <2>1
  <2>3. QED
    BY <2>1, <2>2, KeysAreNumbers
<1>6. Cut(S, j) = A \cup {<<i, u>>} \cup Cut(D, i)
  <2>1. Cut(S, j) = A \cup D
    <3>1. Cut(Around(A, j, w, D), j) = A \cup D
      BY <1>2, CutHere
    <3>2. QED
      BY <1>2, <3>1
  <2>2. D = {<<i, u>>} \cup Cut(D, i)
    BY <1>3 DEF Next2, Cut
  <2>3. QED
    BY <2>1, <2>2
<1>7. Between(A, i, Cut(D, i))
  <2>1. \A p \in A : p[1] < i
    BY <1>4, <1>5
  <2>2. \A p \in Cut(D, i) : i < p[1]
    BY <1>3, <1>4, <1>5 DEF Next2, LeastKey, Cut
  <2>3. QED
    BY <1>4, <2>1, <2>2 DEF Between, Cut
<1>8. WithRight(WithKey(WithValue(h, u), i), x) = Node(c, i, u, l, x)
  BY <1>2, NodeChanges
<1>9. <<WithRight(WithKey(WithValue(h, u), i), x), Cut(S, j)>> \in Joins(c, L, R2)
  BY <1>2, <1>3, <1>5, <1>6, <1>7, <1>8, JoinIntro
<1>10. QED
  BY <1>9, Zenon DEF j

\* fixup of a node that needs none.
LEMMA FixupNone ==
  ASSUME NEW X, Tame(X), NEW c, NEW h, NEW S, <<h, S>> \in Joins(c, X, X)
  PROVE  fixup(h) = h
<1>1. Kind(X)
  BY TameKinds, Zenon
<1>2. ~is_red(h.left)
  <2>1. PICK A : <<h.left, A>> \in X
    BY <1>1, LeftChild, Zenon
  <2>2. QED
    BY <2>1, TameRoot, Zenon
<1>3. ~is_red(h.right)
  <2>1. PICK D : <<h.right, D>> \in X
    BY <1>1, RightChild, Zenon
  <2>2. QED
    BY <2>1, TameRoot, Zenon
<1>4. LeanLeft(h) = h
  BY <1>3, Zenon DEF LeanLeft
<1>5. Unstack(h) = h
  BY <1>2, Zenon DEF Unstack
<1>6. Split(h) = h
  BY <1>2, Zenon DEF Split
<1>7. QED
  BY <1>4, <1>5, <1>6, Zenon DEF fixup

\* What is left of a node of color c above trees of Black(Y): as high as before, or less.
Shrunk(c, Y) == Fixed(1 - c, Y) \cup Joins(c, Black(Y), Black(Y))

LEMMA SinkLeft ==
  ASSUME NEW Y, Tame(Y), NEW c \in Colors, NEW g, NEW S,
         <<g, S>> \in Joins(1 - c, Red(Y), Red(Y)) \cup Joins(c, LeftRed(Y), Black(Y)),
         NEW k \in Keys, k < g.key, NEW q, Fit(q, S, k), NEW x,
         \A A : <<g.left, A>> \in Red(Y) /\ Fit(q, A, k) => <<x, Cut(A, k)>> \in Either(Y),
         \A A : <<g.left, A>> \in LeftRed(Y) /\ Fit(q, A, k) => <<x, Cut(A, k)>> \in Black(Y)
  PROVE  <<fixup(WithLeft(g, x)), Cut(S, k)>> \in Shrunk(c, Y)
<1> DEFINE e == WithLeft(g, x)
           T == Cut(S, k)
<1>1. /\ Kind(Y) /\ Kind(Red(Y)) /\ Kind(LeftRed(Y)) /\ Kind(Black(Y)) /\ Tame(Black(Y))
      /\ 1 - c \in Colors
  BY TameKinds, BlackTame, Recolor
<1>2. CASE <<g, S>> \in Joins(1 - c, Red(Y), Red(Y))
  <2>1. <<e, T>> \in Joins(1 - c, Either(Y), Red(Y))
    BY <1>1, <1>2, LeftJoin, Zenon
  <2>2. Joins(1 - c, Either(Y), Red(Y)) \subseteq Joins(1 - c, Either(Y), Either(Y))
    BY EitherSide
  <2> HIDE DEF e, T
  <2>3. <<e, T>> \in Joins(1 - c, Either(Y), Either(Y))
    BY <2>1, <2>2
  <2>4. <<fixup(e), T>> \in Fixed(1 - c, Y)
    BY <1>1, <2>3, FixupEither, Zenon
  <2>5. QED
    BY <2>4 DEF Shrunk, e, T
<1>3. CASE <<g, S>> \in Joins(c, LeftRed(Y), Black(Y))
  <2>1. <<e, T>> \in Joins(c, Black(Y), Black(Y))
    BY <1>1, <1>3, LeftJoin, Zenon
  <2> HIDE DEF e, T
  <2>2. fixup(e) = e
    BY <1>1, <2>1, FixupNone, Zenon
  <2>3. <<fixup(e), T>> \in Joins(c, Black(Y), Black(Y))
    BY <2>1, <2>2
  <2>4. QED
    BY <2>3 DEF Shrunk, e, T
<1>4. QED
  BY <1>2, <1>3

-----------------------------------------------------------------------------
(* Removal of the least key.                                               *)

Lower(h) == IF ~is_red(h.left) /\ ~is_red(h.left.left) THEN move_red_left(h) ELSE h
MinStep(h, f) == fixup(WithLeft(Lower(h), f[Lower(h).left]))

LEMMA WithoutMinNext ==
  ASSUME NEW m \in Nat, NEW h \in Tree, h # NULL
  PROVE  /\ h.left = NULL => without_min[m + 1][h] = NULL
         /\ h.left # NULL => without_min[m + 1][h] = MinStep(h, without_min[m])
<1> DEFINE f == without_min
<1>1. f = [n \in Nat |-> WithoutMinOf(n, f[n - 1])]
  BY WithoutMinIs
<1> HIDE DEF f
<1>2. \A n \in Nat : f[n] = WithoutMinOf(n, f[n - 1])
  BY <1>1
<1>3. f[m + 1] = WithoutMinOf(m + 1, f[m])
  <2>1. m + 1 \in Nat /\ (m + 1) - 1 = m
    OBVIOUS
  <2>2. f[m + 1] = WithoutMinOf(m + 1, f[(m + 1) - 1])
    BY <1>2, <2>1, Zenon
  <2>3. QED
    BY <2>1, <2>2
<1>4. ASSUME NEW n, NEW g
      PROVE  WithoutMinOf(n, g)
               = [x \in Tree \ {NULL} |-> IF n = 0 \/ x.left = NULL THEN NULL ELSE MinStep(x, g)]
  BY Zenon DEF WithoutMinOf, MinStep, Lower, WithLeft
<1>5. ASSUME NEW n, NEW g
      PROVE  WithoutMinOf(n, g)[h] = IF n = 0 \/ h.left = NULL THEN NULL ELSE MinStep(h, g)
  BY <1>4
<1>6. m + 1 # 0
  OBVIOUS
<1>7. QED
  BY <1>3, <1>5, <1>6 DEF f

LEMMA NonEmpty ==
  ASSUME NEW c, NEW L, NEW R, Kind(L), Kind(R), NEW h, NEW S, <<h, S>> \in Joins(c, L, R)
  PROVE  S # {}
<1>1. PICK k, v, l, A, r, D : Parts(h, S, c, L, R, k, v, l, A, r, D)
  BY JoinParts, Zenon
<1>2. S = A \cup {<<k, v>>} \cup D
  BY <1>1, Zenon DEF Parts
<1>3. QED
  BY <1>2

LEMMA LeastIsKey ==
  ASSUME NEW S, S \subseteq Pairs, NEW j, LeastKey(S, j)
  PROVE  j \in Keys /\ j \in Int
<1>1. PICK w : <<j, w>> \in S
  BY DEF LeastKey
<1>2. <<j, w>> \in Pairs /\ <<j, w>>[1] = j
  BY <1>1
<1>3. QED
  BY <1>2, KeysAreNumbers

\* The least key is below a node that has a left child.
LEMMA LeastIsLeft ==
  ASSUME NEW c, NEW L, NEW R, Kind(L), Kind(R), NEW h, NEW S, <<h, S>> \in Joins(c, L, R),
         NEW j, LeastKey(S, j), \A l, A : <<l, A>> \in L => A # {}
  PROVE  j \in Keys /\ j \in Int /\ h.key \in Int /\ j < h.key
<1>1. PICK A, D : Below(h, S, c, L, R, A, D)
  BY BelowNode, Zenon
<1>2. /\ <<h.left, A>> \in L /\ Between(A, h.key, D) /\ h.key \in Keys
      /\ S = A \cup {<<h.key, h.value>>} \cup D
  BY <1>1, Zenon DEF Below
<1>3. A # {}
  BY <1>2, Zenon
<1>4. PICK p \in A : TRUE
  BY <1>3
<1>5. p[1] \in Int /\ p[1] < h.key /\ h.key \in Int
  BY <1>2, KeysAreNumbers DEF Between
<1>6. j <= p[1]
  BY <1>2 DEF LeastKey
<1>7. S \subseteq Pairs
  BY JoinRed, Zenon
<1>8. j \in Keys /\ j \in Int
  BY <1>7, LeastIsKey, Zenon
<1>9. QED
  BY <1>5, <1>6, <1>8

LEMMA BlackNode ==
  ASSUME NEW Y, Tame(Y), NEW h, NEW S, <<h, S>> \in Black(Y)
  PROVE  ~is_red(h) /\ h # NULL /\ S # {}
<1>1. Kind(Y) /\ Kind(Either(Y)) /\ <<h, S>> \in Joins(BLACK, Either(Y), Y)
  BY TameKinds, Zenon DEF Black
<1>2. S # {}
  BY <1>1, NonEmpty, Zenon
<1>3. h # NULL
  BY <1>1, JoinRed, Zenon
<1>4. is_red(h) <=> BLACK = RED
  BY <1>1, JoinRed, Zenon
<1>5. QED
  BY <1>2, <1>3, <1>4 DEF BLACK, RED

LEMMA LowerLeft ==
  ASSUME NEW Y, Tame(Y), NEW c \in Colors, NEW h, NEW S, <<h, S>> \in Joins(c, Black(Y), Black(Y))
  PROVE  /\ <<Lower(h), S>> \in Joins(1 - c, Red(Y), Red(Y)) \cup Joins(c, LeftRed(Y), Black(Y))
         /\ h.key \in Int /\ Lower(h).key \in Int /\ h.key <= Lower(h).key
<1>1. Kind(Y) /\ Kind(Red(Y)) /\ Kind(Two(Y)) /\ Kind(LeftRed(Y)) /\ Kind(Black(Y))
  BY TameKinds, Zenon
<1>2. PICK A : <<h.left, A>> \in Black(Y)
  BY <1>1, LeftChild, Zenon
<1>3. ~is_red(h.left)
  BY <1>2, BlackNode, Zenon
<1>4. h.key \in Int
  BY <1>1, NodeIs, Zenon
<1>5. Joins(c, Black(Y), Black(Y)) = Joins(c, Two(Y), Black(Y)) \cup Joins(c, LeftRed(Y), Black(Y))
  BY BlackSide
<1>6. CASE <<h, S>> \in Joins(c, Two(Y), Black(Y))
  <2>1. PICK B : <<h.left, B>> \in Two(Y)
    BY <1>1, <1>6, LeftChild, Zenon
  <2>2. ~is_red(h.left.left)
    BY <2>1, TwoChild, Zenon
  <2>3. Lower(h) = move_red_left(h)
    BY <1>3, <2>2, Zenon DEF Lower
  <2> DEFINE g == move_red_left(h)
  <2>4. /\ <<g, S>> \in Joins(1 - c, Red(Y), Red(Y)) \cup Joins(c, LeftRed(Y), Two(Y))
        /\ h.key <= g.key
    BY <1>6, MoveRedLeft, Zenon
  <2> HIDE DEF g
  <2>5. Joins(c, LeftRed(Y), Two(Y)) \subseteq Joins(c, LeftRed(Y), Black(Y))
    BY BlackSide
  <2>6. <<g, S>> \in Joins(1 - c, Red(Y), Red(Y)) \/ <<g, S>> \in Joins(c, LeftRed(Y), Black(Y))
    BY <2>4, <2>5
  <2>7. g.key \in Int
    BY <1>1, <2>6, NodeIs, Zenon
  <2>8. QED
    BY <1>4, <2>3, <2>4, <2>6, <2>7 DEF g
<1>7. CASE <<h, S>> \in Joins(c, LeftRed(Y), Black(Y))
  <2>1. PICK B : <<h.left, B>> \in LeftRed(Y)
    BY <1>1, <1>7, LeftChild, Zenon
  <2>2. is_red(h.left.left)
    BY <2>1, LeftRedChild, Zenon
  <2>3. Lower(h) = h
    BY <2>2, Zenon DEF Lower
  <2>4. QED
    BY <1>4, <1>7, <2>3
<1>8. QED
  BY <1>5, <1>6, <1>7

LEMMA ShrunkRed ==
  ASSUME NEW Y
  PROVE  Shrunk(RED, Y) \subseteq Either(Black(Y))
<1>1. Two(Y) \subseteq Black(Y)
  BY BlackParts
<1>2. Joins(RED, Two(Y), Two(Y)) \subseteq Joins(RED, Black(Y), Black(Y))
  BY <1>1, JoinMonotone, Zenon
<1>3. Fixed(1 - RED, Y) = Joins(BLACK, Either(Y), Y) \cup Joins(RED, Two(Y), Two(Y))
  BY Recolor DEF Fixed
<1>4. QED
  BY <1>2, <1>3 DEF Shrunk, Either, Red, Black

RemovesMin(f, X, Y) == \A h, S, j : <<h, S>> \in X /\ LeastKey(S, j) => <<f[h], Cut(S, j)>> \in Y

LEMMA MinRed ==
  ASSUME NEW Y, Tame(Y), NEW f, RemovesMin(f, Red(Y), Either(Y)), RemovesMin(f, LeftRed(Y), Black(Y)),
         NEW h, NEW S, <<h, S>> \in Red(Black(Y)), NEW j, LeastKey(S, j)
  PROVE  <<MinStep(h, f), Cut(S, j)>> \in Either(Black(Y))
<1> DEFINE g == Lower(h)
           x == f[g.left]
<1>1. /\ Kind(Black(Y)) /\ RED \in Colors /\ <<h, S>> \in Joins(RED, Black(Y), Black(Y))
  BY TameKinds, Zenon DEF Red, Colors
<1>2. j \in Keys /\ j \in Int /\ h.key \in Int /\ j < h.key
  <2>1. \A l, A : <<l, A>> \in Black(Y) => A # {}
    BY BlackNode, Zenon
  <2>2. QED
    BY <1>1, <2>1, LeastIsLeft, Zenon
<1>3. /\ <<g, S>> \in Joins(1 - RED, Red(Y), Red(Y)) \cup Joins(RED, LeftRed(Y), Black(Y))
      /\ g.key \in Int /\ h.key <= g.key
  BY <1>1, LowerLeft, Zenon
<1>4. j < g.key
  BY <1>2, <1>3
<1>5. Fit(1, S, j)
  BY DEF Fit
<1>6. \A A : <<g.left, A>> \in Red(Y) /\ Fit(1, A, j) => <<x, Cut(A, j)>> \in Either(Y)
  BY Zenon DEF RemovesMin, Fit
<1>7. \A A : <<g.left, A>> \in LeftRed(Y) /\ Fit(1, A, j) => <<x, Cut(A, j)>> \in Black(Y)
  BY Zenon DEF RemovesMin, Fit
<1> HIDE DEF g, x
<1>8. <<fixup(WithLeft(g, x)), Cut(S, j)>> \in Shrunk(RED, Y)
  BY <1>1, <1>2, <1>3, <1>4, <1>5, <1>6, <1>7, SinkLeft, Zenon
<1>9. MinStep(h, f) = fixup(WithLeft(g, x))
  BY Zenon DEF MinStep, g, x
<1>10. QED
  BY <1>8, <1>9, ShrunkRed

LEMMA MinLeftRed ==
  ASSUME NEW X, Tame(X), NEW f, RemovesMin(f, Red(X), Either(X)),
         NEW h, NEW S, <<h, S>> \in LeftRed(X), NEW j, LeastKey(S, j)
  PROVE  <<MinStep(h, f), Cut(S, j)>> \in Black(X)
<1> DEFINE x == f[h.left]
<1>1. Kind(X) /\ Kind(Red(X)) /\ <<h, S>> \in Joins(BLACK, Red(X), X) /\ BLACK \in Colors
  BY TameKinds, Zenon DEF LeftRed, Colors
<1>2. Lower(h) = h
  <2>1. is_red(h.left)
    BY LeftRedChild, Zenon
  <2>2. QED
    BY <2>1, Zenon DEF Lower
<1>3. j \in Keys /\ j < h.key
  <2>1. \A l, A : <<l, A>> \in Red(X) => A # {}
    BY <1>1, NonEmpty, Zenon DEF Red
  <2>2. QED
    BY <1>1, <2>1, LeastIsLeft, Zenon
<1>4. Fit(1, S, j)
  BY DEF Fit
<1>5. \A A : <<h.left, A>> \in Red(X) /\ Fit(1, A, j) => <<x, Cut(A, j)>> \in Either(X)
  BY Zenon DEF RemovesMin, Fit
<1>6. MinStep(h, f) = fixup(WithLeft(h, x))
  BY <1>2, Zenon DEF MinStep
<1> HIDE DEF x
<1>7. <<WithLeft(h, x), Cut(S, j)>> \in Joins(BLACK, Either(X), X)
  BY <1>1, <1>3, <1>4, <1>5, LeftJoin, Zenon
<1>8. <<WithLeft(h, x), Cut(S, j)>> \in Joins(BLACK, Either(X), X) \cup Joins(BLACK, X, Either(X))
  BY <1>7
<1>9. <<fixup(WithLeft(h, x)), Cut(S, j)>> \in Joins(BLACK, Either(X), X)
  BY <1>1, <1>8, FixupOne, Zenon
<1>10. QED
  BY <1>6, <1>9 DEF Black

LEMMA MinGood ==
  \A m \in Nat : \A b \in Nat :
    /\ 2 * b + 1 <= m /\ 2 * b + 1 <= Depth
         => RemovesMin(without_min[m], Red(Even[b]), Either(Even[b]))
    /\ 2 * b + 2 <= m /\ 2 * b + 2 <= Depth
         => RemovesMin(without_min[m], LeftRed(Even[b]), Black(Even[b]))
<1> DEFINE Good(m) == \A b \in Nat :
             /\ 2 * b + 1 <= m /\ 2 * b + 1 <= Depth
                  => RemovesMin(without_min[m], Red(Even[b]), Either(Even[b]))
             /\ 2 * b + 2 <= m /\ 2 * b + 2 <= Depth
                  => RemovesMin(without_min[m], LeftRed(Even[b]), Black(Even[b]))
           P == {m \in Nat : Good(m)}
<1>1. 0 \in P
  <2>1. \A b \in Nat : ~(2 * b + 1 <= 0) /\ ~(2 * b + 2 <= 0)
    OBVIOUS
  <2>2. QED
    BY <2>1
<1>2. ASSUME NEW m \in P
      PROVE  m + 1 \in P
  <2>0. m \in Nat /\ Good(m)
    OBVIOUS
  <2> DEFINE f == without_min[m]
             g == without_min[m + 1]
  <2>1. ASSUME NEW b \in Nat, 2 * b + 1 <= m + 1, 2 * b + 1 <= Depth
        PROVE  RemovesMin(g, Red(Even[b]), Either(Even[b]))
    <3> SUFFICES ASSUME NEW h, NEW S, NEW j, <<h, S>> \in Red(Even[b]), LeastKey(S, j)
                 PROVE  <<g[h], Cut(S, j)>> \in Either(Even[b])
      BY Zenon DEF RemovesMin
    <3> DEFINE X == Even[b]
    <3>1. Tame(X) /\ Kind(X) /\ <<h, S>> \in Joins(RED, X, X)
      BY EvenTame, TameKinds DEF Red
    <3>2. h \in Tree /\ h # NULL
      <4>1. h \in Tree
        BY <2>1, EvenTree
      <4>2. QED
        BY <3>1, <4>1, JoinRed, Zenon
    <3>3. CASE b = 0
      <4>1. PICK A, D : Below(h, S, RED, X, X, A, D)
        BY <3>1, BelowNode, Zenon
      <4>2. /\ <<h.left, A>> \in X /\ <<h.right, D>> \in X /\ S = A \cup {<<h.key, h.value>>} \cup D
        BY <4>1, Zenon DEF Below
      <4>3. h.left = NULL /\ A = {} /\ D = {}
        BY <3>3, <4>2, EvenNext
      <4>4. Cut(S, j) = {}
        <5>1. PICK w : <<j, w>> \in S
          BY DEF LeastKey
        <5>2. S = {<<h.key, h.value>>}
          BY <4>2, <4>3
        <5>3. j = h.key
          BY <5>1, <5>2
        <5>4. QED
          BY <5>2, <5>3 DEF Cut
      <4>5. g[h] = NULL
        BY <2>0, <3>2, <4>3, WithoutMinNext
      <4>6. <<NULL, {}>> \in X
        BY <3>3, EvenNext
      <4>7. QED
        BY <4>4, <4>5, <4>6 DEF Either
    <3>4. CASE b # 0
      <4> DEFINE i == b - 1
                 Y == Even[i]
      <4>1. /\ i \in Nat /\ 2 * i + 1 <= m /\ 2 * i + 1 <= Depth
            /\ 2 * i + 2 <= m /\ 2 * i + 2 <= Depth
        BY <2>0, <2>1, <3>4, DepthNumber
      <4>2. X = Black(Y)
        BY <3>4, EvenNext
      <4> HIDE DEF i
      <4>3. RemovesMin(f, Red(Y), Either(Y)) /\ RemovesMin(f, LeftRed(Y), Black(Y)) /\ Tame(Y)
        BY <2>0, <4>1, EvenTame
      <4>4. h.left # NULL
        <5>1. PICK A : <<h.left, A>> \in X
          BY <3>1, LeftChild, Zenon
        <5>2. <<h.left, A>> \in Even[b]
          BY <5>1
        <5>3. QED
          BY <3>4, <5>2, EvenRoot
      <4>5. g[h] = MinStep(h, f)
        BY <2>0, <3>2, <4>4, WithoutMinNext
      <4> HIDE DEF Y, f, g, X
      <4>6. <<MinStep(h, f), Cut(S, j)>> \in Either(Black(Y))
        <5>1. <<h, S>> \in Red(Black(Y))
          BY <3>1, <4>2 DEF Red
        <5>2. QED
          BY <4>3, <5>1, MinRed, Zenon
      <4>7. QED
        BY <4>2, <4>5, <4>6 DEF X
    <3>5. QED
      BY <3>3, <3>4
  <2>2. ASSUME NEW b \in Nat, 2 * b + 2 <= m + 1, 2 * b + 2 <= Depth
        PROVE  RemovesMin(g, LeftRed(Even[b]), Black(Even[b]))
    <3> SUFFICES ASSUME NEW h, NEW S, NEW j, <<h, S>> \in LeftRed(Even[b]), LeastKey(S, j)
                 PROVE  <<g[h], Cut(S, j)>> \in Black(Even[b])
      BY Zenon DEF RemovesMin
    <3> DEFINE X == Even[b]
    <3>1. Tame(X)
      BY EvenTame
    <3>2. 2 * b + 1 <= m /\ 2 * b + 1 <= Depth
      BY <2>0, <2>2, DepthNumber
    <3>3. h \in Tree
      BY <2>2, EvenTree
    <3>4. RemovesMin(f, Red(X), Either(X))
      BY <2>0, <3>2
    <3> HIDE DEF X, f
    <3>5. h # NULL /\ h.left # NULL
      <4>1. h # NULL /\ is_red(h.left)
        BY <3>1, LeftRedChild, Zenon DEF X
      <4>2. QED
        BY <4>1 DEF is_red
    <3>6. g[h] = MinStep(h, f)
      BY <2>0, <3>3, <3>5, WithoutMinNext DEF f
    <3>7. <<MinStep(h, f), Cut(S, j)>> \in Black(X)
      BY <3>1, <3>4, MinLeftRed, Zenon DEF X
    <3>8. QED
      BY <3>6, <3>7 DEF X
  <2>3. QED
    BY <2>0, <2>1, <2>2
<1> HIDE DEF P
<1>3. P = Nat
  <2>1. P \in SUBSET Nat
    BY DEF P
  <2>2. QED
    BY <1>1, <1>2, <2>1, EveryNumber
<1>4. QED
  BY <1>3, Zenon DEF P

\* What the deletion puts in the place of the node above r.
LEMMA NextKey ==
  ASSUME NEW r, NEW D, <<r, D>> \in Sorted[Depth], r # NULL
  PROVE  Next2(D, node_min(r), rb_search(r, node_min(r)).value)
<1> DEFINE i == least[Depth][r]
           x == At2(search[Depth], r, i)
<1>1. LeastKey(D, i)
  BY LeastFinds, DepthNumber
<1>2. D \subseteq Pairs
  BY SortedRoot, DepthNumber, Zenon
<1>3. i \in Keys
  BY <1>1, <1>2, LeastIsKey
<1>4. Found(x, D, i)
  BY <1>3, SearchFinds, DepthNumber
<1>5. \A p, q \in D : p[1] = q[1] => p = q
  BY OneValue, DepthNumber, Zenon
<1>6. node_min(r) = i
  BY DEF node_min
<1>7. rb_search(r, i) = x
  BY Zenon DEF rb_search, At2
<1> HIDE DEF i, x
<1>8. PICK w : <<i, w>> \in D
  BY <1>1 DEF LeastKey
<1>9. x # NULL
  <2>1. <<i, w>>[1] = i
    OBVIOUS
  <2>2. QED
    BY <1>4, <1>8, <2>1 DEF Found
<1>10. <<i, x.value>> \in D
  BY <1>4, <1>9 DEF Found
<1>11. \A p \in D : p[1] = i => p = <<i, x.value>>
  <2>1. <<i, x.value>>[1] = i
    OBVIOUS
  <2>2. QED
    BY <1>5, <1>10, <2>1
<1>12. QED
  BY <1>1, <1>6, <1>7, <1>10, <1>11, Zenon DEF Next2

-----------------------------------------------------------------------------
(* Removal of a key.                                                       *)

LowerL(h) == IF LeftIsThin(h) THEN move_red_left(h) ELSE h
LowerR(h) == IF RightIsThin(h) THEN move_red_right(h) ELSE h
Turned(h) == IF is_red(h.left) THEN rotate_right(h) ELSE h
HereOf(h, k, f) == IF k = h.key THEN Replaced(h) ELSE WithRight(h, At2(f, h.right, k))

LEMMA DeleteNext ==
  ASSUME NEW m \in Nat, NEW h \in Tree, NEW k \in Keys
  PROVE  /\ h = NULL => At2(delete_node[m], h, k) = NULL
         /\ h # NULL => At2(delete_node[m + 1], h, k) = DeleteFrom(h, k, delete_node[m])
<1> DEFINE f == delete_node
<1>1. f = [n \in Nat |-> DeleteOf(n, f[n - 1])]
  BY DeleteIs
<1> HIDE DEF f
<1>2. \A n \in Nat : f[n] = DeleteOf(n, f[n - 1])
  BY <1>1
<1>3. f[m + 1] = DeleteOf(m + 1, f[m])
  <2>1. m + 1 \in Nat /\ (m + 1) - 1 = m
    OBVIOUS
  <2>2. f[m + 1] = DeleteOf(m + 1, f[(m + 1) - 1])
    BY <1>2, <2>1, Zenon
  <2>3. QED
    BY <2>1, <2>2
<1>4. ASSUME NEW n, NEW g
      PROVE  At2(DeleteOf(n, g), h, k) = IF n = 0 \/ h = NULL THEN NULL ELSE DeleteFrom(h, k, g)
  <2> DEFINE F(x, y) == IF n = 0 \/ x = NULL THEN NULL ELSE DeleteFrom(x, y, g)
  <2>1. DeleteOf(n, g) = [x \in Tree |-> [y \in Keys |-> F(x, y)]]
    BY Zenon DEF DeleteOf
  <2> HIDE DEF F
  <2>2. At2(DeleteOf(n, g), h, k) = F(h, k)
    BY <2>1 DEF At2
  <2>3. QED
    BY <2>2, Zenon DEF F
<1>5. m + 1 # 0
  OBVIOUS
<1>6. f[m] = DeleteOf(m, f[m - 1])
  BY <1>2
<1>7. h = NULL => At2(f[m], h, k) = NULL
  BY <1>4, <1>6, Zenon
<1>8. h # NULL => At2(f[m + 1], h, k) = DeleteFrom(h, k, f[m])
  BY <1>3, <1>4, <1>5, Zenon
<1>9. QED
  BY <1>7, <1>8, Zenon DEF f

\* The ways of the deletion.
LEMMA DeleteWays ==
  ASSUME NEW h, NEW k, NEW f
  PROVE  /\ k < h.key =>
              DeleteFrom(h, k, f) = fixup(WithLeft(LowerL(h), At2(f, LowerL(h).left, k)))
         /\ ~(k < h.key) => DeleteFrom(h, k, f) = DeleteRight(Turned(h), k, f)
         /\ k = h.key /\ h.right = NULL => DeleteRight(h, k, f) = NULL
         /\ ~(k = h.key /\ h.right = NULL) => DeleteRight(h, k, f) = fixup(HereOf(LowerR(h), k, f))
<1>1. ASSUME NEW g PROVE DeleteLeft(g, k, f) = fixup(WithLeft(g, At2(f, g.left, k)))
  BY Zenon DEF DeleteLeft, WithLeft, At2
<1>2. ASSUME NEW g PROVE DeleteHere(g, k, f) = fixup(HereOf(g, k, f))
  BY Zenon DEF DeleteHere, HereOf, WithRight, At2
<1>3. k < h.key => DeleteFrom(h, k, f) = DeleteLeft(LowerL(h), k, f)
  BY Zenon DEF DeleteFrom, LowerL
<1>4. ~(k < h.key) => DeleteFrom(h, k, f) = DeleteRight(Turned(h), k, f)
  BY Zenon DEF DeleteFrom, Turned
<1>5. k = h.key /\ h.right = NULL => DeleteRight(h, k, f) = NULL
  BY Zenon DEF DeleteRight
<1>6. ~(k = h.key /\ h.right = NULL) => DeleteRight(h, k, f) = DeleteHere(LowerR(h), k, f)
  BY Zenon DEF DeleteRight, LowerR
<1>7. QED
  BY <1>1, <1>2, <1>3, <1>4, <1>5, <1>6, Zenon

Deletes(f, k, X, Y) == \A h, S : <<h, S>> \in X => <<At2(f, h, k), Cut(S, k)>> \in Y
\* Only from a node with a key below k, or with k.
DeletesAbove(f, k, X, Y) ==
  \A h, S : <<h, S>> \in X /\ h.key <= k => <<At2(f, h, k), Cut(S, k)>> \in Y
Held(X) == \A h, S : <<h, S>> \in X => <<h, S>> \in Sorted[Depth] /\ h # NULL
\* What the deletion needs to know of trees below a node.
Able(f, k, X, Y) == Held(X) /\ RemovesMin(without_min[Depth], X, Y) /\ Deletes(f, k, X, Y)

LEMMA ReplacedWrites ==
  ASSUME NEW h
  PROVE  LET i == node_min(h.right)
             u == rb_search(h.right, i).value
         IN  IsNode(h) => Replaced(h) = WithRight(WithKey(WithValue(h, u), i), delete_min(h.right))
<1> DEFINE i == node_min(h.right)
           u == rb_search(h.right, i).value
           e == WithKey(WithValue(h, u), i)
<1>1. Replaced(h) = [[[h EXCEPT !.value = u] EXCEPT !.key = i] EXCEPT !.right = delete_min(@)]
  BY Zenon DEF Replaced
<1>2. [e EXCEPT !.right = delete_min(@)] = WithRight(e, delete_min(e.right))
  BY Zenon DEF WithRight
<1>3. Replaced(h) = WithRight(e, delete_min(e.right))
  BY <1>1, <1>2, Zenon DEF WithKey, WithValue
<1>4. IsNode(h) => e.right = h.right
  <2> HIDE DEF i, u
  <2>1. \A c, k, v, l, r : WithKey(WithValue(Node(c, k, v, l, r), u), i) = Node(c, i, u, l, r)
    BY NodeChanges
  <2>2. \A c, l, r : Node(c, i, u, l, r).right = r
    BY NodeFields
  <2>3. ASSUME NEW c, NEW k, NEW v, NEW l, NEW r, h = Node(c, k, v, l, r)
        PROVE  WithKey(WithValue(h, u), i).right = r
    BY <2>1, <2>2, <2>3
  <2>4. IsNode(h) => WithKey(WithValue(h, u), i).right = h.right
    BY <2>3 DEF IsNode
  <2>5. QED
    BY <2>4
<1>5. QED
  BY <1>3, <1>4, Zenon

LEMMA HereJoin ==
  ASSUME NEW c, NEW L, NEW R, NEW R2, Kind(L), Kind(R), NEW g, NEW S, <<g, S>> \in Joins(c, L, R),
         NEW k \in Keys, g.key <= k, NEW f, Able(f, k, R, R2)
  PROVE  <<HereOf(g, k, f), Cut(S, k)>> \in Joins(c, L, R2)
<1>1. IsNode(g) /\ g.key \in Int /\ k \in Int
  BY NodeIs, KeysAreNumbers
<1>2. CASE k = g.key
  <2> DEFINE i == node_min(g.right)
             u == rb_search(g.right, i).value
             x == delete_min(g.right)
  <2>1. HereOf(g, k, f) = WithRight(WithKey(WithValue(g, u), i), x)
    BY <1>1, <1>2, ReplacedWrites, Zenon DEF HereOf
  <2>2. x = without_min[Depth][g.right]
    BY Zenon DEF delete_min
  <2>3. ASSUME NEW D, <<g.right, D>> \in R
        PROVE  Next2(D, i, u) /\ <<x, Cut(D, i)>> \in R2
    <3>1. Next2(D, i, u)
      BY <2>3, NextKey, Zenon DEF Able, Held
    <3>2. LeastKey(D, i)
      BY <3>1, Zenon DEF Next2
    <3>3. <<x, Cut(D, i)>> \in R2
      BY <2>2, <2>3, <3>2, Zenon DEF Able, RemovesMin
    <3>4. QED
      BY <3>1, <3>3
  <2> HIDE DEF i, u, x
  <2>4. <<WithRight(WithKey(WithValue(g, u), i), x), Cut(S, g.key)>> \in Joins(c, L, R2)
    BY <2>3, ReplaceJoin, Zenon
  <2>5. QED
    BY <1>2, <2>1, <2>4
<1>3. CASE k # g.key
  <2> DEFINE x == At2(f, g.right, k)
  <2>1. \A D : <<g.right, D>> \in R => <<x, Cut(D, k)>> \in R2
    BY Zenon DEF Able, Deletes
  <2>2. HereOf(g, k, f) = WithRight(g, x)
    BY <1>3, Zenon DEF HereOf
  <2> HIDE DEF x
  <2>3. g.key < k
    BY <1>1, <1>3
  <2>4. <<WithRight(g, x), Cut(S, k)>> \in Joins(c, L, R2)
    BY <2>1, <2>3, RightJoin, Zenon
  <2>5. QED
    BY <2>2, <2>4
<1>4. QED
  BY <1>2, <1>3

\* From a node of which the right child is red.
LEMMA DeleteRightRed ==
  ASSUME NEW X, Tame(X), NEW k \in Keys, NEW f, Able(f, k, Red(X), Either(X)),
         NEW h, NEW S, <<h, S>> \in RightRed(X), h.key <= k
  PROVE  /\ <<DeleteRight(h, k, f), Cut(S, k)>> \in Black(X)
         /\ <<DeleteFrom(h, k, f), Cut(S, k)>> \in Black(X)
<1>1. Kind(X) /\ Kind(Red(X)) /\ <<h, S>> \in Joins(BLACK, X, Red(X)) /\ BLACK \in Colors
  BY TameKinds, Zenon DEF RightRed, Colors
<1>2. h.key \in Int /\ k \in Int /\ ~(k < h.key)
  <2>1. h.key \in Int /\ k \in Int
    BY <1>1, NodeIs, KeysAreNumbers
  <2>2. QED
    BY <2>1
<1>3. is_red(h.right)
  <2>1. PICK D : <<h.right, D>> \in Red(X)
    BY <1>1, RightChild, Zenon
  <2>2. QED
    BY <2>1, RedChild, Zenon
<1>4. ~is_red(h.left)
  <2>1. PICK A : <<h.left, A>> \in X
    BY <1>1, LeftChild, Zenon
  <2>2. QED
    BY <2>1, TameRoot, Zenon
<1>5. h.right # NULL /\ LowerR(h) = h
  BY <1>3, Zenon DEF is_red, LowerR, RightIsThin
<1>6. DeleteRight(h, k, f) = fixup(HereOf(h, k, f))
  <2>1. ~(k = h.key /\ h.right = NULL)
    BY <1>5
  <2>2. DeleteRight(h, k, f) = fixup(HereOf(LowerR(h), k, f))
    BY <2>1, DeleteWays
  <2>3. QED
    BY <1>5, <2>2
<1>7. DeleteFrom(h, k, f) = DeleteRight(h, k, f)
  BY <1>2, <1>4, DeleteWays, Zenon DEF Turned
<1> DEFINE e == HereOf(h, k, f)
           T == Cut(S, k)
<1>8. <<e, T>> \in Joins(BLACK, X, Either(X))
  BY <1>1, HereJoin, Zenon
<1> HIDE DEF e, T
<1>9. <<e, T>> \in Joins(BLACK, Either(X), X) \cup Joins(BLACK, X, Either(X))
  BY <1>8
<1>10. <<fixup(e), T>> \in Joins(BLACK, Either(X), X)
  BY <1>1, <1>9, FixupOne, Zenon
<1>11. QED
  BY <1>6, <1>7, <1>10 DEF Black, e, T

\* From a node of which the left child is red.
LEMMA DeleteLeftRed ==
  ASSUME NEW X, Tame(X), NEW k \in Keys, NEW f, Able(f, k, Red(X), Either(X)),
         NEW h, NEW S, <<h, S>> \in LeftRed(X)
  PROVE  <<DeleteFrom(h, k, f), Cut(S, k)>> \in Black(X)
<1>1. Kind(X) /\ Kind(Red(X)) /\ <<h, S>> \in Joins(BLACK, Red(X), X) /\ BLACK \in Colors
  BY TameKinds, Zenon DEF LeftRed, Colors
<1>2. h.key \in Int /\ k \in Int
  BY <1>1, NodeIs, KeysAreNumbers
<1>3. is_red(h.left)
  BY LeftRedChild, Zenon
<1>4. CASE k < h.key
  <2> DEFINE x == At2(f, h.left, k)
  <2>1. LowerL(h) = h
    BY <1>3, Zenon DEF LowerL, LeftIsThin
  <2>2. DeleteFrom(h, k, f) = fixup(WithLeft(h, x))
    <3>1. DeleteFrom(h, k, f) = fixup(WithLeft(LowerL(h), At2(f, LowerL(h).left, k)))
      BY <1>4, DeleteWays
    <3>2. QED
      BY <2>1, <3>1
  <2>3. \A A : <<h.left, A>> \in Red(X) /\ Fit(0, A, k) => <<x, Cut(A, k)>> \in Either(X)
    BY Zenon DEF Able, Deletes
  <2>4. Fit(0, S, k)
    BY DEF Fit
  <2> HIDE DEF x
  <2>5. <<WithLeft(h, x), Cut(S, k)>> \in Joins(BLACK, Either(X), X)
    BY <1>1, <1>4, <2>3, <2>4, LeftJoin, Zenon
  <2>6. <<WithLeft(h, x), Cut(S, k)>> \in Joins(BLACK, Either(X), X) \cup Joins(BLACK, X, Either(X))
    BY <2>5
  <2>7. <<fixup(WithLeft(h, x)), Cut(S, k)>> \in Joins(BLACK, Either(X), X)
    BY <1>1, <2>6, FixupOne, Zenon
  <2>8. QED
    BY <2>2, <2>7 DEF Black
<1>5. CASE ~(k < h.key)
  <2> DEFINE g == rotate_right(h)
  <2>1. DeleteFrom(h, k, f) = DeleteRight(g, k, f)
    <3>1. DeleteFrom(h, k, f) = DeleteRight(Turned(h), k, f)
      BY <1>5, DeleteWays
    <3>2. Turned(h) = g
      BY <1>3, Zenon DEF Turned
    <3>3. QED
      BY <3>1, <3>2, Zenon
  <2>2. <<h, S>> \in Joins(BLACK, Joins(RED, X, X), X)
    BY <1>1 DEF Red
  <2>3. <<g, S>> \in Joins(BLACK, X, Joins(RED, X, X)) /\ g.key < h.key
    BY <1>1, <2>2, RotateRightJoin, Zenon
  <2> HIDE DEF g
  <2>4. <<g, S>> \in RightRed(X)
    BY <2>3 DEF RightRed, Red
  <2>5. g.key \in Int
    BY <1>1, <2>3, NodeIs, Zenon DEF Red
  <2>6. g.key <= k
    BY <1>2, <1>5, <2>3, <2>5
  <2>7. <<DeleteRight(g, k, f), Cut(S, k)>> \in Black(X)
    BY <2>4, <2>6, DeleteRightRed, Zenon
  <2>8. QED
    BY <2>1, <2>7
<1>6. QED
  BY <1>4, <1>5

\* The node above trees of Black(Y) is prepared for the way to the right.
LEMMA LowerRight ==
  ASSUME NEW Y, Tame(Y), NEW c \in Colors, NEW h, NEW S, <<h, S>> \in Joins(c, Black(Y), Black(Y))
  PROVE  LET g == LowerR(h)
         IN  \/ <<g, S>> \in Joins(1 - c, Red(Y), Red(Y)) /\ g.key = h.key
             \/ <<g, S>> \in Joins(c, Two(Y), RightRed(Y)) /\ g.key < h.key /\ g.right.key = h.key
             \/ <<g, S>> \in Joins(c, Black(Y), LeftRed(Y)) /\ g = h
<1>1. Kind(Y) /\ Kind(Red(Y)) /\ Kind(Two(Y)) /\ Kind(LeftRed(Y)) /\ Kind(Black(Y))
  BY TameKinds, Zenon
<1>2. PICK D : <<h.right, D>> \in Black(Y)
  BY <1>1, RightChild, Zenon
<1>3. ~is_red(h.right) /\ h.right # NULL
  BY <1>2, BlackNode, Zenon
<1>4. Joins(c, Black(Y), Black(Y)) = Joins(c, Black(Y), Two(Y)) \cup Joins(c, Black(Y), LeftRed(Y))
  BY BlackSide
<1>5. CASE <<h, S>> \in Joins(c, Black(Y), Two(Y))
  <2>1. PICK B : <<h.right, B>> \in Two(Y)
    BY <1>1, <1>5, RightChild, Zenon
  <2>2. ~is_red(h.right.left)
    BY <2>1, TwoChild, Zenon
  <2>3. LowerR(h) = move_red_right(h)
    BY <1>3, <2>2, Zenon DEF LowerR, RightIsThin
  <2>4. QED
    BY <1>5, <2>3, MoveRedRight, Zenon
<1>6. CASE <<h, S>> \in Joins(c, Black(Y), LeftRed(Y))
  <2>1. PICK B : <<h.right, B>> \in LeftRed(Y)
    BY <1>1, <1>6, RightChild, Zenon
  <2>2. is_red(h.right.left)
    BY <2>1, LeftRedChild, Zenon
  <2>3. LowerR(h) = h
    BY <2>2, Zenon DEF LowerR, RightIsThin
  <2>4. QED
    BY <1>6, <2>3, Zenon
<1>7. QED
  BY <1>4, <1>5, <1>6

\* The same two kinds of trees below, and that with a red right child.
AbleBelow(f, k, Y) ==
  /\ Able(f, k, Red(Y), Either(Y))
  /\ Able(f, k, LeftRed(Y), Black(Y))
  /\ DeletesAbove(f, k, RightRed(Y), Black(Y))

LEMMA SinkRight ==
  ASSUME NEW Y, Tame(Y), NEW c \in Colors, NEW h, NEW S, <<h, S>> \in Joins(c, Black(Y), Black(Y)),
         NEW k \in Keys, h.key <= k, NEW f, AbleBelow(f, k, Y)
  PROVE  <<fixup(HereOf(LowerR(h), k, f)), Cut(S, k)>> \in Shrunk(c, Y)
<1> DEFINE g == LowerR(h)
           e == HereOf(g, k, f)
           T == Cut(S, k)
<1>1. /\ Kind(Y) /\ Kind(Red(Y)) /\ Kind(Two(Y)) /\ Kind(LeftRed(Y)) /\ Kind(RightRed(Y))
      /\ Kind(Black(Y)) /\ Tame(Black(Y)) /\ 1 - c \in Colors
  BY TameKinds, BlackTame, Recolor
<1>2. h.key \in Int /\ k \in Int
  BY <1>1, NodeIs, KeysAreNumbers
<1>3. \/ <<g, S>> \in Joins(1 - c, Red(Y), Red(Y)) /\ g.key = h.key
      \/ <<g, S>> \in Joins(c, Two(Y), RightRed(Y)) /\ g.key < h.key /\ g.right.key = h.key
      \/ <<g, S>> \in Joins(c, Black(Y), LeftRed(Y)) /\ g = h
  BY LowerRight, Zenon
<1> HIDE DEF g
<1>4. CASE <<g, S>> \in Joins(1 - c, Red(Y), Red(Y)) /\ g.key = h.key
  <2>1. g.key <= k
    BY <1>4
  <2>2. <<e, T>> \in Joins(1 - c, Red(Y), Either(Y))
    BY <1>1, <1>4, <2>1, HereJoin, Zenon DEF AbleBelow
  <2>3. Joins(1 - c, Red(Y), Either(Y)) \subseteq Joins(1 - c, Either(Y), Either(Y))
    BY EitherSide
  <2> HIDE DEF e, T
  <2>4. <<e, T>> \in Joins(1 - c, Either(Y), Either(Y))
    BY <2>2, <2>3
  <2>5. <<fixup(e), T>> \in Fixed(1 - c, Y)
    BY <1>1, <2>4, FixupEither, Zenon
  <2>6. QED
    BY <2>5 DEF Shrunk, e, T, g
<1>5. ASSUME <<e, T>> \in Joins(c, Black(Y), Black(Y))
      PROVE  <<fixup(e), T>> \in Shrunk(c, Y)
  <2> HIDE DEF e, T
  <2>1. fixup(e) = e
    BY <1>1, <1>5, FixupNone, Zenon
  <2>2. QED
    BY <1>5, <2>1 DEF Shrunk
<1>6. CASE <<g, S>> \in Joins(c, Two(Y), RightRed(Y)) /\ g.key < h.key /\ g.right.key = h.key
  <2> DEFINE x == At2(f, g.right, k)
  <2>1. g.key \in Int
    BY <1>1, <1>6, NodeIs, Zenon
  <2>2. g.key < k /\ k # g.key /\ g.right.key <= k
    BY <1>2, <1>6, <2>1
  <2>3. \A D : <<g.right, D>> \in RightRed(Y) => <<x, Cut(D, k)>> \in Black(Y)
    BY <2>2, Zenon DEF AbleBelow, DeletesAbove
  <2>4. e = WithRight(g, x)
    BY <2>2, Zenon DEF HereOf
  <2> HIDE DEF x
  <2>5. <<WithRight(g, x), T>> \in Joins(c, Two(Y), Black(Y))
    BY <1>1, <1>6, <2>2, <2>3, RightJoin, Zenon
  <2>6. Joins(c, Two(Y), Black(Y)) \subseteq Joins(c, Black(Y), Black(Y))
    BY BlackSide
  <2> HIDE DEF e, T
  <2>7. <<e, T>> \in Joins(c, Black(Y), Black(Y))
    BY <2>4, <2>5, <2>6
  <2>8. QED
    BY <1>5, <2>7 DEF e, T, g
<1>7. CASE <<g, S>> \in Joins(c, Black(Y), LeftRed(Y)) /\ g = h
  <2>1. g.key <= k
    BY <1>7
  <2>2. <<e, T>> \in Joins(c, Black(Y), Black(Y))
    BY <1>1, <1>7, <2>1, HereJoin, Zenon DEF AbleBelow
  <2>3. QED
    BY <1>5, <2>2 DEF e, T, g
<1>8. QED
  BY <1>3, <1>4, <1>6, <1>7

\* From a node above trees that have a black root.
LEMMA DeleteTwo ==
  ASSUME NEW Y, Tame(Y), NEW c \in Colors, NEW h, NEW S, <<h, S>> \in Joins(c, Black(Y), Black(Y)),
         NEW k \in Keys, NEW f, AbleBelow(f, k, Y)
  PROVE  <<DeleteFrom(h, k, f), Cut(S, k)>> \in Shrunk(c, Y)
<1>1. Kind(Black(Y))
  BY TameKinds, Zenon
<1>2. h.key \in Int /\ k \in Int
  BY <1>1, NodeIs, KeysAreNumbers
<1>3. ~is_red(h.left) /\ h.left # NULL
  <2>1. PICK A : <<h.left, A>> \in Black(Y)
    BY <1>1, LeftChild, Zenon
  <2>2. QED
    BY <2>1, BlackNode, Zenon
<1>4. h.right # NULL
  <2>1. PICK D : <<h.right, D>> \in Black(Y)
    BY <1>1, RightChild, Zenon
  <2>2. QED
    BY <2>1, BlackNode, Zenon
<1>5. CASE k < h.key
  <2> DEFINE g == Lower(h)
             x == At2(f, g.left, k)
  <2>1. LowerL(h) = Lower(h)
    BY <1>3, Zenon DEF LowerL, LeftIsThin, Lower
  <2>2. DeleteFrom(h, k, f) = fixup(WithLeft(LowerL(h), At2(f, LowerL(h).left, k)))
    BY <1>5, DeleteWays
  <2>3. DeleteFrom(h, k, f) = fixup(WithLeft(g, x))
    BY <2>1, <2>2
  <2>4. /\ <<g, S>> \in Joins(1 - c, Red(Y), Red(Y)) \cup Joins(c, LeftRed(Y), Black(Y))
        /\ g.key \in Int /\ h.key <= g.key
    BY LowerLeft, Zenon
  <2>5. \A A : <<g.left, A>> \in Red(Y) /\ Fit(0, A, k) => <<x, Cut(A, k)>> \in Either(Y)
    BY Zenon DEF AbleBelow, Able, Deletes
  <2>6. \A A : <<g.left, A>> \in LeftRed(Y) /\ Fit(0, A, k) => <<x, Cut(A, k)>> \in Black(Y)
    BY Zenon DEF AbleBelow, Able, Deletes
  <2>7. Fit(0, S, k)
    BY DEF Fit
  <2> HIDE DEF g, x
  <2>8. k < g.key
    BY <1>2, <1>5, <2>4
  <2>9. <<fixup(WithLeft(g, x)), Cut(S, k)>> \in Shrunk(c, Y)
    BY <2>4, <2>5, <2>6, <2>7, <2>8, SinkLeft, Zenon
  <2>10. QED
    BY <2>3, <2>9
<1>6. CASE ~(k < h.key)
  <2>1. Turned(h) = h
    BY <1>3, Zenon DEF Turned
  <2>2. DeleteFrom(h, k, f) = DeleteRight(Turned(h), k, f)
    BY <1>6, DeleteWays
  <2>3. DeleteRight(h, k, f) = fixup(HereOf(LowerR(h), k, f))
    BY <1>4, DeleteWays
  <2>4. h.key <= k
    BY <1>2, <1>6
  <2>5. <<fixup(HereOf(LowerR(h), k, f)), Cut(S, k)>> \in Shrunk(c, Y)
    BY <2>4, SinkRight, Zenon
  <2>6. QED
    BY <2>1, <2>2, <2>3, <2>5
<1>7. QED
  BY <1>5, <1>6

\* From a node without children.
LEMMA DeleteLeaf ==
  ASSUME NEW c \in Colors, NEW h, NEW S, <<h, S>> \in Joins(c, Even[0], Even[0]), NEW k \in Keys, NEW f,
         At2(f, NULL, k) = NULL
  PROVE  <<DeleteFrom(h, k, f), Cut(S, k)>> \in Joins(c, Even[0], Even[0]) \cup Even[0]
<1> DEFINE X == Even[0]
<1>1. Tame(X) /\ Kind(X) /\ 0 \in Nat
  BY EvenTame, TameKinds
<1>2. X = {<<NULL, {}>>}
  BY EvenNext
<1>3. h.key \in Int /\ k \in Int
  BY <1>1, NodeIs, KeysAreNumbers
<1>4. h.left = NULL
  <2>1. PICK A : <<h.left, A>> \in X
    BY <1>1, LeftChild, Zenon
  <2>2. QED
    BY <1>2, <2>1
<1>5. h.right = NULL
  <2>1. PICK D : <<h.right, D>> \in X
    BY <1>1, RightChild, Zenon
  <2>2. QED
    BY <1>2, <2>1
<1>6. Cut({}, k) = {}
  BY DEF Cut
<1>7. ~is_red(NULL)
  BY Zenon DEF is_red
<1>8. \A A : <<NULL, A>> \in X => <<NULL, Cut(A, k)>> \in X
  BY <1>2, <1>6
<1> HIDE DEF X
<1>9. CASE k < h.key
  <2>1. LowerL(h) = h
    BY <1>4, Zenon DEF LowerL, LeftIsThin
  <2>2. DeleteFrom(h, k, f) = fixup(WithLeft(LowerL(h), At2(f, LowerL(h).left, k)))
    BY <1>9, DeleteWays
  <2>3. DeleteFrom(h, k, f) = fixup(WithLeft(h, NULL))
    BY <1>4, <2>1, <2>2
  <2>4. \A A : <<h.left, A>> \in X /\ Fit(0, A, k) => <<NULL, Cut(A, k)>> \in X
    BY <1>4, <1>8
  <2>5. Fit(0, S, k)
    BY DEF Fit
  <2>6. <<WithLeft(h, NULL), Cut(S, k)>> \in Joins(c, X, X)
    BY <1>1, <1>9, <2>4, <2>5, LeftJoin, Zenon DEF X
  <2>7. fixup(WithLeft(h, NULL)) = WithLeft(h, NULL)
    BY <1>1, <2>6, FixupNone, Zenon
  <2>8. QED
    BY <2>3, <2>6, <2>7 DEF X
<1>10. ASSUME ~(k < h.key)
       PROVE  DeleteFrom(h, k, f) = DeleteRight(h, k, f)
  <2>1. Turned(h) = h
    BY <1>4, <1>7, Zenon DEF Turned
  <2>2. DeleteFrom(h, k, f) = DeleteRight(Turned(h), k, f)
    BY <1>10, DeleteWays
  <2>3. QED
    BY <2>1, <2>2
<1>11. CASE k = h.key
  <2>1. DeleteRight(h, k, f) = NULL
    BY <1>5, <1>11, DeleteWays
  <2>2. Cut(S, k) = {}
    <3>1. PICK A, D : Below(h, S, c, X, X, A, D)
      BY <1>1, BelowNode, Zenon DEF X
    <3>2. /\ <<h.left, A>> \in X /\ <<h.right, D>> \in X /\ S = A \cup {<<h.key, h.value>>} \cup D
      BY <3>1, Zenon DEF Below
    <3>3. S = {<<h.key, h.value>>}
      BY <1>2, <3>2
    <3>4. QED
      BY <1>11, <3>3 DEF Cut
  <2>3. ~(k < h.key)
    BY <1>3, <1>11
  <2>4. QED
    BY <1>2, <1>10, <2>1, <2>2, <2>3 DEF X
<1>12. CASE ~(k < h.key) /\ k # h.key
  <2>1. LowerR(h) = h
    BY <1>5, Zenon DEF LowerR, RightIsThin
  <2>2. DeleteRight(h, k, f) = fixup(HereOf(LowerR(h), k, f))
    BY <1>12, DeleteWays
  <2>3. HereOf(h, k, f) = WithRight(h, NULL)
    BY <1>5, <1>12, Zenon DEF HereOf
  <2>4. \A D : <<h.right, D>> \in X => <<NULL, Cut(D, k)>> \in X
    BY <1>5, <1>8
  <2>5. h.key < k
    BY <1>3, <1>12
  <2>6. <<WithRight(h, NULL), Cut(S, k)>> \in Joins(c, X, X)
    BY <1>1, <2>4, <2>5, RightJoin, Zenon DEF X
  <2>7. fixup(WithRight(h, NULL)) = WithRight(h, NULL)
    BY <1>1, <2>6, FixupNone, Zenon
  <2>8. QED
    BY <1>10, <1>12, <2>1, <2>2, <2>3, <2>6, <2>7 DEF X
<1>13. QED
  BY <1>9, <1>11, <1>12

LEMMA EvenHeld ==
  ASSUME NEW b \in Nat
  PROVE  /\ 2 * b + 1 <= Depth => Held(Red(Even[b]))
         /\ 2 * b + 2 <= Depth => Held(LeftRed(Even[b])) /\ Held(RightRed(Even[b]))
<1>1. Tame(Even[b]) /\ Kind(Even[b]) /\ Kind(Red(Even[b]))
  BY EvenTame, TameKinds
<1>2. Depth \in Nat
  BY DepthNumber
<1>3. ASSUME 2 * b + 1 <= Depth
      PROVE  Held(Red(Even[b]))
  <2> SUFFICES ASSUME NEW h, NEW S, <<h, S>> \in Red(Even[b])
               PROVE  <<h, S>> \in Sorted[Depth] /\ h # NULL
    BY Zenon DEF Held
  <2>1. <<h, S>> \in Sorted[2 * b + 1]
    BY EvenSorted
  <2>2. 2 * b + 1 \in 0 .. Depth
    BY <1>2, <1>3
  <2>3. <<h, S>> \in Sorted[Depth]
    BY <2>1, <2>2, SortedTree, Zenon
  <2>4. h # NULL
    BY <1>1, JoinRed, Zenon DEF Red
  <2>5. QED
    BY <2>3, <2>4
<1>4. ASSUME 2 * b + 2 <= Depth, NEW h, NEW S, <<h, S>> \in LeftRed(Even[b]) \cup RightRed(Even[b])
      PROVE  <<h, S>> \in Sorted[Depth] /\ h # NULL
  <2>1. <<h, S>> \in Sorted[2 * b + 2]
    BY <1>4, EvenSorted
  <2>2. 2 * b + 2 \in 0 .. Depth
    BY <1>2, <1>4
  <2>3. <<h, S>> \in Sorted[Depth]
    BY <2>1, <2>2, SortedTree, Zenon
  <2>4. <<h, S>> \in LeftRed(Even[b]) => h # NULL
    BY <1>1, JoinRed, Zenon DEF LeftRed
  <2>5. <<h, S>> \in RightRed(Even[b]) => h # NULL
    BY <1>1, JoinRed, Zenon DEF RightRed
  <2>6. QED
    BY <1>4, <2>3, <2>4, <2>5
<1>5. QED
  BY <1>3, <1>4 DEF Held

DeletesRed(f, k, b) == Deletes(f, k, Red(Even[b]), Either(Even[b]))
DeletesHigh(f, k, b) ==
  /\ Deletes(f, k, LeftRed(Even[b]), Black(Even[b]))
  /\ DeletesAbove(f, k, RightRed(Even[b]), Black(Even[b]))

LEMMA AbleRed ==
  ASSUME NEW b \in Nat, 2 * b + 1 <= Depth, NEW f, NEW k, DeletesRed(f, k, b)
  PROVE  Able(f, k, Red(Even[b]), Either(Even[b]))
<1>1. Held(Red(Even[b]))
  BY EvenHeld
<1>2. RemovesMin(without_min[Depth], Red(Even[b]), Either(Even[b]))
  BY MinGood, DepthNumber
<1>3. QED
  BY <1>1, <1>2, Zenon DEF Able, DeletesRed

LEMMA AbleHigh ==
  ASSUME NEW b \in Nat, 2 * b + 2 <= Depth, NEW f, NEW k, DeletesRed(f, k, b), DeletesHigh(f, k, b)
  PROVE  AbleBelow(f, k, Even[b])
<1>1. Held(LeftRed(Even[b]))
  BY EvenHeld
<1>2. RemovesMin(without_min[Depth], LeftRed(Even[b]), Black(Even[b]))
  BY MinGood, DepthNumber
<1>3. 2 * b + 1 <= Depth
  BY DepthNumber
<1>4. Able(f, k, Red(Even[b]), Either(Even[b]))
  BY <1>3, AbleRed
<1>5. Able(f, k, LeftRed(Even[b]), Black(Even[b]))
  BY <1>1, <1>2, Zenon DEF Able, DeletesHigh
<1>6. QED
  BY <1>4, <1>5, Zenon DEF AbleBelow, DeletesHigh

\* What delete_node leaves of a tree with a red node on top or right below it.
LEMMA DeleteGood ==
  ASSUME NEW k \in Keys
  PROVE  \A m \in Nat : \A b \in Nat :
           /\ 2 * b + 1 <= m /\ 2 * b + 1 <= Depth => DeletesRed(delete_node[m], k, b)
           /\ 2 * b + 2 <= m /\ 2 * b + 2 <= Depth => DeletesHigh(delete_node[m], k, b)
<1> DEFINE Good(m) == \A b \in Nat :
             /\ 2 * b + 1 <= m /\ 2 * b + 1 <= Depth => DeletesRed(delete_node[m], k, b)
             /\ 2 * b + 2 <= m /\ 2 * b + 2 <= Depth => DeletesHigh(delete_node[m], k, b)
           P == {m \in Nat : Good(m)}
<1>1. 0 \in P
  <2>1. \A b \in Nat : ~(2 * b + 1 <= 0) /\ ~(2 * b + 2 <= 0)
    OBVIOUS
  <2>2. QED
    BY <2>1
<1>2. ASSUME NEW m \in P
      PROVE  m + 1 \in P
  <2>0. m \in Nat /\ Good(m)
    OBVIOUS
  <2> DEFINE f == delete_node[m]
             g == delete_node[m + 1]
  <2>1. \A h \in Tree : h # NULL => At2(g, h, k) = DeleteFrom(h, k, f)
    BY <2>0, DeleteNext
  <2>2. ASSUME NEW b \in Nat, 2 * b + 1 <= m + 1, 2 * b + 1 <= Depth
        PROVE  DeletesRed(g, k, b)
    <3> SUFFICES ASSUME NEW h, NEW S, <<h, S>> \in Red(Even[b])
                 PROVE  <<At2(g, h, k), Cut(S, k)>> \in Either(Even[b])
      BY Zenon DEF DeletesRed, Deletes
    <3>1. Tame(Even[b]) /\ Kind(Even[b]) /\ <<h, S>> \in Joins(RED, Even[b], Even[b]) /\ RED \in Colors
      BY EvenTame, TameKinds DEF Red, Colors
    <3>2. h \in Tree /\ h # NULL
      <4>1. h \in Tree
        BY <2>2, EvenTree
      <4>2. QED
        BY <3>1, <4>1, JoinRed, Zenon
    <3>3. At2(g, h, k) = DeleteFrom(h, k, f)
      BY <2>1, <3>2, Zenon
    <3>4. CASE b = 0
      <4>1. At2(f, NULL, k) = NULL
        BY <2>0, NullTree, DeleteNext
      <4>2. <<h, S>> \in Joins(RED, Even[0], Even[0])
        BY <3>1, <3>4
      <4> HIDE DEF f, g
      <4>3. <<DeleteFrom(h, k, f), Cut(S, k)>> \in Joins(RED, Even[0], Even[0]) \cup Even[0]
        BY <3>1, <4>1, <4>2, DeleteLeaf, Zenon
      <4>4. QED
        BY <3>3, <3>4, <4>3 DEF Either, Red
    <3>5. CASE b # 0
      <4> DEFINE i == b - 1
      <4>1. i \in Nat /\ 2 * i + 1 <= m /\ 2 * i + 2 <= m /\ 2 * i + 1 <= Depth /\ 2 * i + 2 <= Depth
        BY <2>0, <2>2, <3>5, DepthNumber
      <4>2. Even[b] = Black(Even[i])
        BY <3>5, EvenNext
      <4> HIDE DEF i
      <4>3. DeletesRed(f, k, i) /\ DeletesHigh(f, k, i) /\ Tame(Even[i])
        BY <2>0, <4>1, EvenTame
      <4>4. AbleBelow(f, k, Even[i])
        BY <4>1, <4>3, AbleHigh
      <4> HIDE DEF f, g
      <4>5. <<h, S>> \in Joins(RED, Black(Even[i]), Black(Even[i]))
        BY <3>1, <4>2
      <4>6. <<DeleteFrom(h, k, f), Cut(S, k)>> \in Shrunk(RED, Even[i])
        BY <3>1, <4>3, <4>4, <4>5, DeleteTwo, Zenon
      <4>7. QED
        BY <3>3, <4>2, <4>6, ShrunkRed
    <3>6. QED
      BY <3>4, <3>5
  <2>3. ASSUME NEW b \in Nat, 2 * b + 2 <= m + 1, 2 * b + 2 <= Depth
        PROVE  DeletesHigh(g, k, b)
    <3>1. Tame(Even[b])
      BY EvenTame
    <3>2. 2 * b + 1 <= m /\ 2 * b + 1 <= Depth
      BY <2>0, <2>3, DepthNumber
    <3>3. DeletesRed(f, k, b)
      BY <2>0, <3>2
    <3>4. Able(f, k, Red(Even[b]), Either(Even[b]))
      BY <3>2, <3>3, AbleRed
    <3>5. \A h, S : <<h, S>> \in LeftRed(Even[b]) \cup RightRed(Even[b]) => h \in Tree /\ h # NULL
      BY <2>3, EvenTree, EvenHeld DEF Held
    <3> HIDE DEF f, g
    <3>6. ASSUME NEW h, NEW S, <<h, S>> \in LeftRed(Even[b])
          PROVE  <<At2(g, h, k), Cut(S, k)>> \in Black(Even[b])
      <4>1. <<DeleteFrom(h, k, f), Cut(S, k)>> \in Black(Even[b])
        BY <3>1, <3>4, <3>6, DeleteLeftRed, Zenon
      <4>2. At2(g, h, k) = DeleteFrom(h, k, f)
        BY <2>1, <3>5, <3>6
      <4>3. QED
        BY <4>1, <4>2
    <3>7. ASSUME NEW h, NEW S, <<h, S>> \in RightRed(Even[b]), h.key <= k
          PROVE  <<At2(g, h, k), Cut(S, k)>> \in Black(Even[b])
      <4>1. <<DeleteFrom(h, k, f), Cut(S, k)>> \in Black(Even[b])
        BY <3>1, <3>4, <3>7, DeleteRightRed, Zenon
      <4>2. At2(g, h, k) = DeleteFrom(h, k, f)
        BY <2>1, <3>5, <3>7
      <4>3. QED
        BY <4>1, <4>2
    <3>8. QED
      BY <3>6, <3>7, Zenon DEF DeletesHigh, Deletes, DeletesAbove
  <2>4. QED
    BY <2>0, <2>2, <2>3
<1> HIDE DEF P
<1>3. P = Nat
  <2>1. P \in SUBSET Nat
    BY DEF P
  <2>2. QED
    BY <1>1, <1>2, <2>1, EveryNumber
<1>4. QED
  BY <1>3, Zenon DEF P

\* A node above two trees of the same number of black nodes is a tree with one more.
LEMMA RootedJoin ==
  ASSUME NEW b \in Nat, NEW h, NEW S, <<h, S>> \in Joins(BLACK, Either(Even[b]), Even[b])
  PROVE  Rooted(h, S)
<1>1. Even[b + 1] = Black(Even[b]) /\ b + 1 \in Nat
  BY EvenNext
<1>2. <<h, S>> \in Even[b + 1]
  BY <1>1 DEF Black
<1>3. QED
  BY <1>1, <1>2 DEF Rooted

\* Whatever its color, the root that is left becomes a black one.
LEMMA BlackRooted ==
  ASSUME NEW b \in Nat, NEW c, NEW h, NEW S, <<h, S>> \in Joins(c, Either(Even[b]), Even[b])
  PROVE  Rooted(BlackRoot(h), S)
<1>1. Kind(Either(Even[b])) /\ Kind(Even[b])
  BY EvenTame, TameKinds
<1>2. h # NULL
  BY <1>1, JoinRed, Zenon
<1>3. BlackRoot(h) = Blackened(h)
  BY <1>2, Zenon DEF BlackRoot
<1>4. <<Blackened(h), S>> \in Joins(BLACK, Either(Even[b]), Even[b])
  BY <1>1, Blacken, Zenon
<1>5. QED
  BY <1>3, <1>4, RootedJoin

LEMMA ShrunkRooted ==
  ASSUME NEW b \in Nat, NEW c, NEW h, NEW S, <<h, S>> \in Shrunk(c, Even[b])
  PROVE  Rooted(BlackRoot(h), S)
<1> DEFINE Y == Even[b]
<1>1. Even[b + 1] = Black(Y) /\ b + 1 \in Nat
  BY EvenNext
<1>2. Two(Y) \subseteq Black(Y)
  BY BlackParts
<1>3. Black(Y) \subseteq Either(Black(Y))
  BY DEF Either
<1>4. \A d : Joins(d, Two(Y), Two(Y)) \subseteq Joins(d, Either(Black(Y)), Black(Y))
  BY <1>2, <1>3, JoinMonotone
<1>5. \A d : Joins(d, Black(Y), Black(Y)) \subseteq Joins(d, Either(Black(Y)), Black(Y))
  BY <1>3, JoinMonotone
<1>6. ASSUME NEW d, <<h, S>> \in Joins(d, Either(Y), Y)
      PROVE  Rooted(BlackRoot(h), S)
  BY <1>6, BlackRooted
<1>7. ASSUME NEW d, <<h, S>> \in Joins(d, Either(Black(Y)), Black(Y))
      PROVE  Rooted(BlackRoot(h), S)
  <2>1. <<h, S>> \in Joins(d, Either(Even[b + 1]), Even[b + 1])
    BY <1>1, <1>7
  <2>2. QED
    BY <1>1, <2>1, BlackRooted
<1>8. \E d : <<h, S>> \in Joins(d, Either(Y), Y) \cup Joins(d, Either(Black(Y)), Black(Y))
  <2> HIDE DEF Y
  <2>1. <<h, S>> \in Joins(1 - c, Either(Y), Y) \cup Joins(1 - (1 - c), Two(Y), Two(Y))
                       \cup Joins(c, Black(Y), Black(Y))
    BY DEF Shrunk, Fixed, Y
  <2>2. QED
    BY <1>4, <1>5, <2>1
<1>9. QED
  BY <1>6, <1>7, <1>8

\* So does a deletion, which takes the pair of the key out (llrb.c:191).
LEMMA DeleteRooted ==
  ASSUME NEW h, NEW S, Rooted(h, S), NEW k \in Keys
  PROVE  Rooted(rb_delete(h, k), Cut(S, k))
<1>1. PICK b \in Nat : <<h, S>> \in Even[b]
  BY DEF Rooted
<1>2. h \in Tree /\ Depth \in Nat /\ 2 * b <= Depth
  BY <1>1, RootedTree, DepthEnough
<1> DEFINE g == At2(delete_node[Depth], h, k)
<1>3. rb_delete(h, k) = BlackRoot(g)
  BY Zenon DEF rb_delete, At2
<1>4. BlackRoot(NULL) = NULL
  BY Zenon DEF BlackRoot
<1>5. CASE b = 0
  <2>1. h = NULL /\ S = {}
    BY <1>1, <1>5, EvenNext
  <2>2. g = NULL
    BY <1>2, <2>1, DeleteNext
  <2>3. Cut({}, k) = {}
    BY DEF Cut
  <2>4. <<NULL, {}>> \in Even[0]
    BY EvenNext
  <2>5. QED
    BY <1>3, <1>4, <2>1, <2>2, <2>3, <2>4 DEF Rooted
<1>6. CASE b # 0
  <2> DEFINE i == b - 1
  <2>1. i \in Nat /\ 2 * i + 2 <= Depth /\ Depth - 1 \in Nat /\ Depth = (Depth - 1) + 1
        /\ i + 1 = b /\ 2 * i + 1 <= Depth - 1
    BY <1>2, <1>6
  <2>2. Even[b] = Black(Even[i]) /\ <<h, S>> \in Two(Even[i]) \cup LeftRed(Even[i]) /\ h # NULL
    BY <1>1, <1>6, EvenNext, EvenRoot
  <2> HIDE DEF i
  <2>3. CASE <<h, S>> \in LeftRed(Even[i])
    <3>1. DeletesHigh(delete_node[Depth], k, i)
      BY <1>2, <2>1, DeleteGood
    <3>2. <<g, Cut(S, k)>> \in Black(Even[i])
      BY <2>3, <3>1, Zenon DEF DeletesHigh, Deletes
    <3> HIDE DEF g
    <3>3. <<g, Cut(S, k)>> \in Joins(BLACK, Either(Even[i]), Even[i])
      BY <3>2 DEF Black
    <3>4. QED
      BY <1>3, <2>1, <3>3, BlackRooted
  <2>4. CASE <<h, S>> \in Two(Even[i])
    <3> DEFINE f == delete_node[Depth - 1]
    <3>1. g = DeleteFrom(h, k, f)
      <4>1. At2(delete_node[(Depth - 1) + 1], h, k) = DeleteFrom(h, k, f)
        BY <1>2, <2>1, <2>2, DeleteNext
      <4>2. QED
        BY <2>1, <4>1
    <3>2. <<h, S>> \in Joins(BLACK, Even[i], Even[i]) /\ BLACK \in Colors
      BY <2>4 DEF Two, Colors
    <3>3. CASE i = 0
      <4>1. At2(f, NULL, k) = NULL
        BY <2>1, NullTree, DeleteNext
      <4>2. <<h, S>> \in Joins(BLACK, Even[0], Even[0])
        BY <3>2, <3>3
      <4> HIDE DEF f, g
      <4>3. <<g, Cut(S, k)>> \in Joins(BLACK, Even[0], Even[0]) \cup Even[0]
        BY <3>1, <3>2, <4>1, <4>2, DeleteLeaf
      <4>4. CASE <<g, Cut(S, k)>> \in Joins(BLACK, Even[0], Even[0])
        <5>1. Joins(BLACK, Even[0], Even[0]) \subseteq Joins(BLACK, Either(Even[0]), Even[0])
          BY JoinMonotone DEF Either
        <5>2. <<g, Cut(S, k)>> \in Joins(BLACK, Either(Even[0]), Even[0]) /\ 0 \in Nat
          BY <4>4, <5>1
        <5>3. QED
          BY <1>3, <5>2, BlackRooted, Zenon
      <4>5. CASE <<g, Cut(S, k)>> \in Even[0]
        <5>1. g = NULL
          BY <4>5, EvenNext
        <5>2. QED
          BY <1>3, <1>4, <4>5, <5>1 DEF Rooted
      <4>6. QED
        BY <4>3, <4>4, <4>5
    <3>4. CASE i # 0
      <4> DEFINE j == i - 1
      <4>1. /\ j \in Nat /\ 2 * j + 2 <= Depth /\ 2 * j + 1 <= Depth /\ Depth - 1 \in Nat
            /\ 2 * j + 1 <= Depth - 1 /\ 2 * j + 2 <= Depth - 1
        BY <1>2, <2>1, <3>4
      <4>2. Even[i] = Black(Even[j])
        BY <2>1, <3>4, EvenNext
      <4> HIDE DEF j
      <4>3. DeletesRed(f, k, j) /\ DeletesHigh(f, k, j) /\ Tame(Even[j])
        BY <4>1, DeleteGood, EvenTame
      <4>4. AbleBelow(f, k, Even[j])
        BY <4>1, <4>3, AbleHigh
      <4> HIDE DEF f, g
      <4>5. <<h, S>> \in Joins(BLACK, Black(Even[j]), Black(Even[j]))
        BY <3>2, <4>2
      <4>6. <<g, Cut(S, k)>> \in Shrunk(BLACK, Even[j])
        BY <3>1, <3>2, <4>3, <4>4, <4>5, DeleteTwo
      <4>7. QED
        BY <1>3, <4>1, <4>6, ShrunkRooted
    <3>5. QED
      BY <3>3, <3>4
  <2>5. QED
    BY <2>2, <2>3, <2>4
<1>7. QED
  BY <1>5, <1>6

-----------------------------------------------------------------------------
(* A tree added to another.                                                *)

LEMMA AddAllNext ==
  ASSUME NEW m \in Nat, NEW t \in Tree, NEW h \in Tree
  PROVE  /\ At2(addall[0], t, h) = t
         /\ h = NULL => At2(addall[m + 1], t, h) = t
         /\ h # NULL => At2(addall[m + 1], t, h)
              = At2(addall[m], InsertNode(At2(addall[m], t, h.left), h), h.right)
<1> DEFINE f == addall
<1>1. f = [n \in Nat |-> AddAllOf(n, f[n - 1])]
  BY AddAllIs
<1> HIDE DEF f
<1>2. \A n \in Nat : f[n] = AddAllOf(n, f[n - 1])
  BY <1>1
<1>3. f[m + 1] = AddAllOf(m + 1, f[m])
  <2>1. m + 1 \in Nat /\ (m + 1) - 1 = m
    OBVIOUS
  <2>2. f[m + 1] = AddAllOf(m + 1, f[(m + 1) - 1])
    BY <1>2, <2>1, Zenon
  <2>3. QED
    BY <2>1, <2>2
<1> DEFINE More(g, x, y) == At2(g, InsertNode(At2(g, x, y.left), y), y.right)
<1>4. ASSUME NEW n, NEW g
      PROVE  At2(AddAllOf(n, g), t, h) = IF n = 0 \/ h = NULL THEN t ELSE More(g, t, h)
  <2> DEFINE F(x, y) == IF n = 0 \/ y = NULL THEN x ELSE More(g, x, y)
  <2>1. AddAllOf(n, g) = [x \in Tree |-> [y \in Tree |-> F(x, y)]]
    BY Zenon DEF AddAllOf, At2
  <2> HIDE DEF F
  <2>2. At2(AddAllOf(n, g), t, h) = F(t, h)
    BY <2>1 DEF At2
  <2>3. QED
    BY <2>2, Zenon DEF F
<1> HIDE DEF More
<1>5. m + 1 # 0 /\ 0 \in Nat
  OBVIOUS
<1>6. At2(f[0], t, h) = t
  <2>1. f[0] = AddAllOf(0, f[0 - 1])
    BY <1>2, <1>5, Zenon
  <2>2. QED
    BY <1>4, <2>1
<1>7. h = NULL => At2(f[m + 1], t, h) = t
  BY <1>3, <1>4, Zenon
<1>8. h # NULL => At2(f[m + 1], t, h) = More(f[m], t, h)
  BY <1>3, <1>4, <1>5, Zenon
<1>9. QED
  BY <1>6, <1>7, <1>8, Zenon DEF f, More

\* The pairs of T, with those of S over them.
Over(T, S) == {p \in T : \A q \in S : p[1] # q[1]} \cup S

LEMMA OverNode ==
  ASSUME NEW T, T \subseteq Pairs, NEW A, NEW j \in Keys, NEW w \in Values, NEW D, Between(A, j, D)
  PROVE  Over(T, Around(A, j, w, D)) = Over(Put(Over(T, A), j, w), D)
<1>1. /\ \A p \in A : p[1] \in Int /\ p[1] < j
      /\ \A p \in D : p[1] \in Int /\ j < p[1]
      /\ j \in Int /\ <<j, w>>[1] = j
  BY SideKeys
<1>2. \A p \in A : p[1] # j /\ \A q \in D : p[1] # q[1]
  BY <1>1
<1>3. \A q \in D : <<j, w>>[1] # q[1]
  BY <1>1
<1> DEFINE x == <<j, w>>
<1>4. ASSUME NEW p \in Over(T, Around(A, j, w, D))
      PROVE  p \in Over(Put(Over(T, A), j, w), D)
  <2>1. CASE p \in D
    BY <2>1 DEF Over
  <2>2. CASE p = x
    BY <1>3, <2>2 DEF Over, Put
  <2>3. CASE p \in A
    BY <1>2, <2>3 DEF Over, Put
  <2>4. CASE p \in T /\ \A q \in Around(A, j, w, D) : p[1] # q[1]
    <3>1. p[1] # j
      BY <1>1, <2>4 DEF Around
    <3>2. (\A q \in A : p[1] # q[1]) /\ (\A q \in D : p[1] # q[1])
      BY <2>4 DEF Around
    <3>3. QED
      BY <2>4, <3>1, <3>2 DEF Over, Put
  <2>5. QED
    BY <2>1, <2>2, <2>3, <2>4 DEF Over, Around
<1>5. ASSUME NEW p \in Over(Put(Over(T, A), j, w), D)
      PROVE  p \in Over(T, Around(A, j, w, D))
  <2>1. CASE p \in Around(A, j, w, D)
    BY <2>1 DEF Over
  <2>2. CASE p \notin Around(A, j, w, D)
    <3>1. p \notin A /\ p # x /\ p \notin D
      BY <2>2 DEF Around
    <3>2. p \in Put(Over(T, A), j, w) /\ \A q \in D : p[1] # q[1]
      BY <3>1 DEF Over
    <3>3. p \in Over(T, A) /\ p[1] # j
      BY <3>1, <3>2 DEF Put
    <3>4. p \in T /\ \A q \in A : p[1] # q[1]
      BY <3>1, <3>3 DEF Over
    <3>5. \A q \in Around(A, j, w, D) : p[1] # q[1]
      BY <1>1, <3>2, <3>3, <3>4 DEF Around
    <3>6. QED
      BY <3>4, <3>5 DEF Over
  <2>3. QED
    BY <2>1, <2>2
<1>6. QED
  BY <1>4, <1>5

\* What addall does for the nodes from h on.
LEMMA AddAllGood ==
  \A n \in Nat : n <= Depth =>
    \A h, S, t, T : <<h, S>> \in Sorted[n] /\ Rooted(t, T) => Rooted(At2(addall[n], t, h), Over(T, S))
<1> DEFINE Good(n) == n <= Depth =>
             \A h, S, t, T : <<h, S>> \in Sorted[n] /\ Rooted(t, T)
                               => Rooted(At2(addall[n], t, h), Over(T, S))
           P == {n \in Nat : Good(n)}
<1>1. ASSUME NEW T
      PROVE  Over(T, {}) = T
  BY DEF Over
<1>2. 0 \in P
  <2> SUFFICES ASSUME NEW h, NEW S, NEW t, NEW T, <<h, S>> \in Sorted[0], Rooted(t, T)
               PROVE  Rooted(At2(addall[0], t, h), Over(T, S))
    OBVIOUS
  <2>1. h = NULL /\ S = {}
    BY SortedNext
  <2>2. h \in Tree /\ t \in Tree
    BY <2>1, NullTree, RootedTree
  <2>3. At2(addall[0], t, h) = t
    BY <2>2, AddAllNext
  <2>4. QED
    BY <1>1, <2>1, <2>3
<1>3. ASSUME NEW n \in P
      PROVE  n + 1 \in P
  <2>0. n \in Nat /\ Good(n) /\ Depth \in Nat
    BY DepthNumber
  <2> DEFINE f == addall[n]
             g == addall[n + 1]
  <2> SUFFICES ASSUME n + 1 <= Depth, NEW h, NEW S, NEW t, NEW T, <<h, S>> \in Sorted[n + 1], Rooted(t, T)
               PROVE  Rooted(At2(g, t, h), Over(T, S))
    BY <2>0
  <2>1. n <= Depth /\ n + 1 \in 0 .. Depth
    BY <2>0
  <2>2. h \in Tree /\ t \in Tree
    BY <2>1, SortedTree, RootedTree
  <2>3. CASE h = NULL
    <3>1. S = {}
      <4>1. n + 1 \in Nat
        BY <2>0
      <4>2. QED
        BY <2>3, <4>1, SortedRoot, Zenon
    <3>2. At2(g, t, h) = t
      BY <2>0, <2>2, <2>3, AddAllNext
    <3>3. QED
      BY <1>1, <3>1, <3>2
  <2>4. CASE h # NULL
    <3>color. PICK c \in Colors : \E A, D : Below(h, S, c, Sorted[n], Sorted[n], A, D)
      BY <2>0, <2>4, SortedNode
    <3>1. PICK A, D : Below(h, S, c, Sorted[n], Sorted[n], A, D)
      BY <3>color
    <3> DEFINE t1 == At2(f, t, h.left)
               t2 == InsertNode(t1, h)
               t3 == At2(f, t2, h.right)
    <3>2. /\ h.key \in Keys /\ h.value \in Values
          /\ <<h.left, A>> \in Sorted[n] /\ <<h.right, D>> \in Sorted[n] /\ Between(A, h.key, D)
          /\ S = Around(A, h.key, h.value, D)
      BY <3>1, Zenon DEF Below, Around
    <3>3. At2(g, t, h) = t3
      BY <2>0, <2>2, <2>4, AddAllNext
    <3>4. Rooted(t1, Over(T, A))
      BY <2>0, <2>1, <3>2
    <3>5. Rooted(t2, Put(Over(T, A), h.key, h.value))
      <4>1. t2 = rb_insert(t1, h.key, h.value)
        BY Zenon DEF InsertNode
      <4> HIDE DEF t1, t2
      <4>2. QED
        BY <3>2, <3>4, <4>1, InsertRooted
    <3>6. Rooted(t3, Over(Put(Over(T, A), h.key, h.value), D))
      BY <2>0, <2>1, <3>2, <3>5
    <3>7. Over(T, S) = Over(Put(Over(T, A), h.key, h.value), D)
      <4>1. T \subseteq Pairs
        BY RootedTree
      <4>2. QED
        BY <3>2, <4>1, OverNode
    <3>8. QED
      BY <3>3, <3>6, <3>7
  <2>5. QED
    BY <2>3, <2>4
<1> HIDE DEF P
<1>4. P = Nat
  <2>1. P \in SUBSET Nat
    BY DEF P
  <2>2. QED
    BY <1>2, <1>3, <2>1, EveryNumber
<1>5. QED
  BY <1>4, Zenon DEF P

\* And a union, whose second tree wins (llrb.c:201).
LEMMA AddAllRooted ==
  ASSUME NEW t, NEW T, Rooted(t, T), NEW h, NEW S, Rooted(h, S)
  PROVE  Rooted(rb_addall(t, h), Over(T, S))
<1>1. <<h, S>> \in Sorted[Depth] /\ Depth \in Nat
  BY RootedTree, DepthNumber
<1>2. rb_addall(t, h) = At2(addall[Depth], t, h)
  BY Zenon DEF rb_addall, At2
<1>3. QED
  BY <1>1, <1>2, AddAllGood

-----------------------------------------------------------------------------
(* The map a tree stands for.                                              *)

MapsTo(f, S) ==
  /\ f = [k \in DOMAIN f |-> f[k]] /\ DOMAIN f = KeysOf(S)
  /\ \A p \in S : f[p[1]] = p[2]

LEMMA SameMap ==
  ASSUME NEW f, NEW g, NEW S, MapsTo(f, S), MapsTo(g, S)
  PROVE  f = g
<1>1. \A k \in KeysOf(S) : f[k] = g[k]
  BY DEF MapsTo, KeysOf
<1>2. QED
  BY <1>1 DEF MapsTo

LEMMA HoldKeys ==
  ASSUME NEW N, NEW S, Hold(N, S)
  PROVE  {x.key : x \in N} = KeysOf(S)
<1>1. ASSUME NEW x \in N
      PROVE  x.key \in KeysOf(S)
  <2>1. <<x.key, x.value>> \in S /\ <<x.key, x.value>>[1] = x.key
    BY DEF Hold
  <2> DEFINE p == <<x.key, x.value>>
  <2> HIDE DEF p
  <2>2. p \in S /\ p[1] = x.key
    BY <2>1 DEF p
  <2>3. QED
    BY <2>2 DEF KeysOf
<1>2. ASSUME NEW p \in S
      PROVE  \E x \in N : p[1] = x.key
  <2>1. PICK x \in N : p = <<x.key, x.value>>
    BY DEF Hold
  <2>2. p[1] = x.key
    BY <2>1
  <2>3. QED
    BY <2>2
<1>3. \A k \in KeysOf(S) : \E p \in S : k = p[1]
  BY DEF KeysOf
<1>4. QED
  BY <1>1, <1>2, <1>3

\* What the theorems use of a tree that holds S.
LEMMA RootedHolds ==
  ASSUME NEW h, NEW S, Rooted(h, S)
  PROVE  /\ S \subseteq Pairs /\ KeysOf(S) \subseteq Keys
         /\ \A p, q \in S : p[1] = q[1] => p = q
         /\ Hold(Nodes(h), S)
         /\ \A k \in Keys : Found(rb_search(h, k), S, k)
         /\ \A v \in Values : FoundKey(associated[Depth][h][v], S, v)
<1>1. S \subseteq Pairs /\ <<h, S>> \in Sorted[Depth] /\ Depth \in Nat /\ Depth <= Depth
  BY RootedTree, DepthNumber
<1>2. KeysOf(S) \subseteq Keys
  BY <1>1, KeysCount
<1>3. \A p, q \in S : p[1] = q[1] => p = q
  BY <1>1, OneValue, Zenon
<1>4. Hold(Nodes(h), S)
  BY <1>1, NodesHold, Zenon DEF Nodes
<1>5. \A k \in Keys : Found(rb_search(h, k), S, k)
  <2>1. \A k \in Keys : Found(At2(search[Depth], h, k), S, k)
    BY <1>1, SearchFinds, Zenon
  <2>2. QED
    BY <2>1, Zenon DEF rb_search, At2
<1>6. \A v \in Values : FoundKey(associated[Depth][h][v], S, v)
  <2>1. \A v \in Values : FoundKey(At2(associated[Depth], h, v), S, v)
    BY <1>1, AssociatedFinds, Zenon
  <2>2. QED
    BY <2>1, Zenon DEF At2
<1>7. QED
  BY <1>1, <1>2, <1>3, <1>4, <1>5, <1>6

LEMMA RootedMap ==
  ASSUME NEW h, NEW S, Rooted(h, S)
  PROVE  MapsTo(MapOf(h), S)
<1> DEFINE N == Nodes(h)
           At(k) == CHOOSE x \in N : x.key = k
           f == [k \in {x.key : x \in N} |-> At(k).value]
<1>1. /\ \A p, q \in S : p[1] = q[1] => p = q
      /\ \A x \in N : <<x.key, x.value>> \in S
      /\ \A p \in S : \E x \in N : p = <<x.key, x.value>>
  BY RootedHolds, Zenon DEF Hold
<1>2. MapOf(h) = f
  BY Zenon DEF MapOf
<1> HIDE DEF N
<1>3. ASSUME NEW x \in N
      PROVE  At(x.key) \in N /\ At(x.key).key = x.key
  BY Zenon
<1> DEFINE V(k) == At(k).value
<1>4. ASSUME NEW x \in N
      PROVE  <<x.key, V(x.key)>> \in S
  <2>1. <<At(x.key).key, At(x.key).value>> \in S
    BY <1>1, <1>3, Zenon
  <2>2. QED
    BY <1>3, <2>1, Zenon
<1>5. f = [k \in {x.key : x \in N} |-> V(k)]
  BY Zenon
<1> HIDE DEF f, V, At
<1>6. DOMAIN f = {x.key : x \in N}
  BY <1>5
<1>7. {x.key : x \in N} = KeysOf(S)
  BY <1>1, HoldKeys DEF Hold
<1>8. ASSUME NEW p \in S
      PROVE  f[p[1]] = p[2]
  <2>1. PICK x \in N : p = <<x.key, x.value>>
    BY <1>1
  <2>2. p[1] = x.key
    BY <2>1
  <2>3. f[p[1]] = V(x.key)
    BY <1>5, <2>2
  <2>4. p = <<x.key, V(x.key)>>
    <3>1. <<x.key, V(x.key)>>[1] = p[1] /\ <<x.key, V(x.key)>> \in S
      BY <1>4, <2>2
    <3>2. QED
      BY <1>1, <3>1
  <2>5. QED
    BY <2>3, <2>4
<1>9. f = [k \in DOMAIN f |-> f[k]]
  BY <1>5
<1>10. QED
  BY <1>2, <1>6, <1>7, <1>8, <1>9, Zenon DEF MapsTo

\* The operations on maps, by those on the pairs.
LEMMA MapPut ==
  ASSUME NEW f, NEW S, MapsTo(f, S), NEW k, NEW v
  PROVE  MapsTo(Map!Above(Map!Single(k, v), f), Put(S, k, v))
<1> DEFINE g == Map!Above(Map!Single(k, v), f)
<1>1. g = [j \in {k} \cup DOMAIN f |-> IF j = k THEN v ELSE f[j]]
  BY DEF Map!Above, Map!Single
<1> HIDE DEF g
<1>2. DOMAIN g = {k} \cup DOMAIN f /\ g = [j \in DOMAIN g |-> g[j]]
  BY <1>1
<1>3. DOMAIN g = KeysOf(Put(S, k, v))
  <2>1. DOMAIN g = {k} \cup KeysOf(S)
    BY <1>2 DEF MapsTo
  <2>2. ASSUME NEW p \in Put(S, k, v)
        PROVE  p[1] \in {k} \cup KeysOf(S)
    BY DEF Put, KeysOf
  <2>3. ASSUME NEW p \in S
        PROVE  p[1] \in KeysOf(Put(S, k, v)) \cup {k}
    BY DEF Put, KeysOf
  <2>4. k \in KeysOf(Put(S, k, v))
    <3> DEFINE p == <<k, v>>
    <3>1. p[1] = k /\ p \in Put(S, k, v)
      BY DEF Put
    <3> HIDE DEF p
    <3>2. QED
      BY <3>1 DEF KeysOf
  <2>5. KeysOf(Put(S, k, v)) \subseteq {k} \cup KeysOf(S)
    BY <2>2 DEF KeysOf
  <2>6. KeysOf(S) \subseteq KeysOf(Put(S, k, v)) \cup {k}
    BY <2>3 DEF KeysOf
  <2>7. QED
    BY <2>1, <2>4, <2>5, <2>6
<1>4. ASSUME NEW p \in Put(S, k, v)
      PROVE  g[p[1]] = p[2]
  <2>1. CASE p = <<k, v>>
    BY <1>1, <2>1
  <2>2. CASE p \in S /\ p[1] # k
    <3>1. p[1] \in DOMAIN f /\ f[p[1]] = p[2]
      BY <2>2 DEF MapsTo, KeysOf
    <3>2. QED
      BY <1>1, <2>2, <3>1
  <2>3. QED
    BY <2>1, <2>2 DEF Put
<1>5. QED
  BY <1>2, <1>3, <1>4, Zenon DEF MapsTo, g

LEMMA MapCut ==
  ASSUME NEW f, NEW S, MapsTo(f, S), NEW k
  PROVE  MapsTo(Map!Without(f, k), Cut(S, k))
<1> DEFINE g == Map!Without(f, k)
<1>1. g = [j \in DOMAIN f \ {k} |-> f[j]]
  BY DEF Map!Without
<1> HIDE DEF g
<1>2. DOMAIN g = DOMAIN f \ {k} /\ g = [j \in DOMAIN g |-> g[j]]
  BY <1>1
<1>3. DOMAIN g = KeysOf(Cut(S, k))
  BY <1>2 DEF MapsTo, KeysOf, Cut
<1>4. ASSUME NEW p \in Cut(S, k)
      PROVE  g[p[1]] = p[2]
  <2>1. p[1] \in DOMAIN f /\ f[p[1]] = p[2] /\ p[1] # k
    BY DEF MapsTo, KeysOf, Cut
  <2>2. QED
    BY <1>1, <2>1
<1>5. QED
  BY <1>2, <1>3, <1>4, Zenon DEF MapsTo, g

LEMMA MapOver ==
  ASSUME NEW f, NEW T, MapsTo(f, T), NEW g, NEW S, MapsTo(g, S)
  PROVE  MapsTo(Map!Above(g, f), Over(T, S))
<1> DEFINE e == Map!Above(g, f)
<1>1. e = [j \in DOMAIN g \cup DOMAIN f |-> IF j \in DOMAIN g THEN g[j] ELSE f[j]]
  BY DEF Map!Above
<1> HIDE DEF e
<1>2. DOMAIN e = DOMAIN g \cup DOMAIN f /\ e = [j \in DOMAIN e |-> e[j]]
  BY <1>1
<1>3. DOMAIN g = KeysOf(S) /\ DOMAIN f = KeysOf(T)
  BY DEF MapsTo
<1>4. DOMAIN e = KeysOf(Over(T, S))
  BY <1>2, <1>3 DEF KeysOf, Over
<1>5. ASSUME NEW p \in Over(T, S)
      PROVE  e[p[1]] = p[2]
  <2>1. CASE p \in S
    <3>1. p[1] \in DOMAIN g /\ g[p[1]] = p[2]
      BY <2>1 DEF MapsTo, KeysOf
    <3>2. QED
      BY <1>1, <3>1
  <2>2. CASE p \in T /\ \A q \in S : p[1] # q[1]
    <3>1. p[1] \in DOMAIN f /\ f[p[1]] = p[2]
      BY <2>2 DEF MapsTo, KeysOf
    <3>2. p[1] \notin DOMAIN g
      BY <1>3, <2>2 DEF KeysOf
    <3>3. QED
      BY <1>1, <3>1, <3>2
  <2>3. QED
    BY <2>1, <2>2 DEF Over
<1>6. QED
  BY <1>2, <1>4, <1>5, Zenon DEF MapsTo, e

LEMMA NullRooted ==
  Rooted(NULL, {}) /\ MapOf(NULL) = <<>>
<1>1. Rooted(NULL, {})
  BY EvenNext DEF Rooted
<1>2. MapsTo(MapOf(NULL), {})
  BY <1>1, RootedMap
<1>3. MapsTo(<<>>, {})
  BY DEF MapsTo, KeysOf
<1>4. QED
  BY <1>1, <1>2, <1>3, SameMap

-----------------------------------------------------------------------------
(* The properties, of one tree or of two.                                  *)

LEMMA RootedBalanced ==
  ASSUME NEW h, NEW S, Rooted(h, S)
  PROVE  /\ ~is_red(h) /\ Cardinality(BlackHeights(h)) = 1
         /\ \A n \in Nodes(h) : ~is_red(n.right) /\ ~(is_red(n) /\ is_red(n.left))
<1>1. PICK b \in Nat : <<h, S>> \in Even[b]
  BY DEF Rooted
<1>2. 2 * b <= Depth /\ Depth \in Nat /\ Depth <= Depth
  BY <1>1, DepthEnough
<1>3. Level(Depth, h, b)
  BY <1>1, <1>2, EvenLevel
<1>4. BlackHeights(h) = {b}
  BY <1>3, Zenon DEF Level, BlackHeights
<1>5. Cardinality({b}) = 1
  BY FS_Singleton
<1>6. ~is_red(h)
  BY RootedTree, Zenon
<1>7. \A n \in Nodes(h) : ~is_red(n.right) /\ ~(is_red(n) /\ is_red(n.left))
  BY <1>3, Zenon DEF Level, Leans, Nodes
<1>8. QED
  BY <1>4, <1>5, <1>6, <1>7

LEMMA RootedFinds ==
  ASSUME NEW h, NEW S, Rooted(h, S)
  PROVE  LET map == MapOf(h)
             keys(v) == associated[Depth][h][v]
         IN  /\ \A k \in Keys : rb_search(h, k) # NULL <=> k \in DOMAIN map
             /\ \A k \in DOMAIN map : rb_search(h, k).value = map[k]
             /\ \A v \in Values :
                  /\ (\E k \in DOMAIN map : map[k] = v) => \E k \in keys(v) : map[k] = v
                  /\ (\A k \in DOMAIN map : map[k] # v) => keys(v) = {}
<1> DEFINE map == MapOf(h)
           keys(v) == associated[Depth][h][v]
<1>1. /\ S \subseteq Pairs /\ KeysOf(S) \subseteq Keys
      /\ \A k \in Keys : Found(rb_search(h, k), S, k)
      /\ \A v \in Values : FoundKey(keys(v), S, v)
  BY RootedHolds, Zenon
<1>2. DOMAIN map = KeysOf(S) /\ \A p \in S : map[p[1]] = p[2]
  BY RootedMap, Zenon DEF MapsTo
<1>3. \A p \in S : p[1] \in Keys /\ p = <<p[1], p[2]>>
  BY <1>1, KeysAreNumbers
<1> HIDE DEF map, keys
<1>4. ASSUME NEW k \in Keys
      PROVE  rb_search(h, k) # NULL <=> k \in DOMAIN map
  <2> DEFINE x == rb_search(h, k)
  <2>1. Found(x, S, k)
    BY <1>1
  <2> HIDE DEF x
  <2>2. x = NULL => k \notin KeysOf(S)
    BY <2>1 DEF Found, KeysOf
  <2>3. x # NULL => k \in KeysOf(S)
    <3>1. <<k, x.value>>[1] = k
      OBVIOUS
    <3>2. QED
      BY <2>1, <3>1 DEF Found, KeysOf
  <2>4. QED
    BY <1>2, <2>2, <2>3, Zenon DEF x
<1>5. ASSUME NEW k \in DOMAIN map
      PROVE  rb_search(h, k).value = map[k]
  <2> DEFINE x == rb_search(h, k)
  <2>1. k \in Keys
    BY <1>1, <1>2
  <2>2. Found(x, S, k) /\ x # NULL
    BY <1>1, <1>4, <2>1
  <2> HIDE DEF x
  <2>3. <<k, x.value>> \in S /\ <<k, x.value>>[1] = k /\ <<k, x.value>>[2] = x.value
    BY <2>2 DEF Found
  <2>4. x.value = map[k]
    BY <1>2, <2>3
  <2>5. QED
    BY <2>4 DEF x
<1>6. ASSUME NEW v \in Values
      PROVE  /\ (\E k \in DOMAIN map : map[k] = v) => \E k \in keys(v) : map[k] = v
             /\ (\A k \in DOMAIN map : map[k] # v) => keys(v) = {}
  <2>1. FoundKey(keys(v), S, v)
    BY <1>1
  <2>2. ASSUME NEW k \in keys(v)
        PROVE  k \in DOMAIN map /\ map[k] = v
    <3>1. <<k, v>> \in S /\ <<k, v>>[1] = k /\ <<k, v>>[2] = v
      BY <2>1 DEF FoundKey
    <3>2. QED
      BY <1>2, <3>1 DEF KeysOf
  <2>3. ASSUME NEW k \in DOMAIN map, map[k] = v
        PROVE  keys(v) # {}
    <3>1. PICK p \in S : p[1] = k
      BY <1>2 DEF KeysOf
    <3>2. p[2] = v
      BY <1>2, <2>3, <3>1
    <3>3. QED
      BY <2>1, <3>2 DEF FoundKey
  <2>4. QED
    BY <2>2, <2>3
<1>7. QED
  BY <1>4, <1>5, <1>6, Zenon DEF map, keys

LEMMA RootedSubset ==
  ASSUME NEW h, NEW S, Rooted(h, S), NEW r, NEW T, Rooted(r, T)
  PROVE  rb_subset(r, h) <=> KeysOf(S) \subseteq KeysOf(T)
<1>1. Hold(Nodes(h), S) /\ KeysOf(S) \subseteq Keys
  BY RootedHolds, Zenon
<1>2. \A k \in Keys : rb_search(r, k) # NULL <=> k \in DOMAIN MapOf(r)
  BY RootedFinds, Zenon
<1>3. DOMAIN MapOf(r) = KeysOf(T)
  BY RootedMap, Zenon DEF MapsTo
<1>4. KeysOf(S) = {x.key : x \in Nodes(h)}
  BY <1>1, HoldKeys
<1>5. \A x \in Nodes(h) : rb_search(r, x.key) # NULL <=> x.key \in KeysOf(T)
  BY <1>1, <1>2, <1>3, <1>4
<1>6. rb_subset(r, h) <=> \A x \in Nodes(h) : rb_search(r, x.key) # NULL
  BY Zenon DEF rb_subset
<1>7. QED
  BY <1>4, <1>5, <1>6

LEMMA RootedEqual ==
  ASSUME NEW h, NEW S, Rooted(h, S), NEW r, NEW T, Rooted(r, T)
  PROVE  rb_equal(h, r) <=> DOMAIN MapOf(h) = DOMAIN MapOf(r)
<1>1. rb_subset(r, h) <=> KeysOf(S) \subseteq KeysOf(T)
  BY RootedSubset
<1>2. rb_subset(h, r) <=> KeysOf(T) \subseteq KeysOf(S)
  BY RootedSubset
<1>3. DOMAIN MapOf(h) = KeysOf(S) /\ DOMAIN MapOf(r) = KeysOf(T)
  BY RootedMap, Zenon DEF MapsTo
<1>4. rb_equal(h, r) <=> rb_subset(h, r) /\ rb_subset(r, h)
  BY Zenon DEF rb_equal
<1>5. QED
  BY <1>1, <1>2, <1>3, <1>4

-----------------------------------------------------------------------------
(* The trees of all owners.                                                *)

\* The inductive invariant: every tree is one of Even[b], for some b, and holds
\* some pairs of a key and a value.
AllRooted(r) == r \in [Owners -> Tree] /\ \A o \in Owners : \E S : Rooted(r[o], S)
IInv == AllRooted(root)

MapsOf(r) == [o \in Owners |-> MapOf(r[o])]

LEMMA OneChanges ==
  ASSUME NEW r, AllRooted(r), NEW o \in Owners, NEW t, NEW T, Rooted(t, T)
  PROVE  /\ AllRooted([r EXCEPT ![o] = t])
         /\ MapsOf([r EXCEPT ![o] = t]) = [MapsOf(r) EXCEPT ![o] = MapOf(t)]
<1> DEFINE q == [r EXCEPT ![o] = t]
<1>1. r \in [Owners -> Tree] /\ \A s \in Owners : \E S : Rooted(r[s], S)
  BY DEF AllRooted
<1>2. t \in Tree
  BY RootedTree
<1>3. q \in [Owners -> Tree] /\ \A s \in Owners : q[s] = IF s = o THEN t ELSE r[s]
  BY <1>1, <1>2
<1> HIDE DEF q
<1>4. AllRooted(q)
  BY <1>1, <1>3 DEF AllRooted
<1> DEFINE m == [s \in Owners |-> MapOf(r[s])]
           n == [s \in Owners |-> MapOf(q[s])]
<1>5. n = [m EXCEPT ![o] = MapOf(t)]
  <2>1. m = [s \in DOMAIN m |-> m[s]] /\ DOMAIN m = Owners
    OBVIOUS
  <2>2. \A s \in Owners : n[s] = IF s = o THEN MapOf(t) ELSE m[s]
    BY <1>3
  <2>3. n = [s \in Owners |-> n[s]]
    OBVIOUS
  <2> HIDE DEF m, n
  <2>4. QED
    BY <2>1, <2>2, <2>3
<1>6. MapsOf(q) = [MapsOf(r) EXCEPT ![o] = MapOf(t)]
  BY <1>5, Zenon DEF MapsOf
<1>7. QED
  BY <1>4, <1>6 DEF q

\* A step gives one owner another tree, and does to its map what it should.
Step(r, q) ==
  \E o \in Owners : \E t, T :
    /\ Rooted(t, T) /\ q = [r EXCEPT ![o] = t]
    /\ \/ \E k \in Keys, v \in Values : MapOf(t) = Map!Above(Map!Single(k, v), MapOf(r[o]))
       \/ \E k \in Keys : MapOf(t) = Map!Without(MapOf(r[o]), k)
       \/ \E s \in Owners : MapOf(t) = Map!Above(MapOf(r[s]), MapOf(r[o])) \/ MapOf(t) = MapOf(r[s])
       \/ MapOf(t) = <<>>

LEMMA NextSteps ==
  ASSUME AllRooted(root), Next
  PROVE  Step(root, root')
<1>1. \A o \in Owners : \E S : Rooted(root[o], S)
  BY DEF AllRooted
<1>2. ASSUME NEW o \in Owners, NEW pair \in Inserts, Insert(o, pair[1], pair[2])
      PROVE  Step(root, root')
  <2> DEFINE k == pair[1]
             v == pair[2]
             t == rb_insert(root[o], k, v)
  <2>1. k \in Keys /\ v \in Values
    BY InsertsAssumption
  <2>2. PICK S : Rooted(root[o], S)
    BY <1>1
  <2>3. root' = [root EXCEPT ![o] = t]
    BY <1>2, Zenon DEF Insert, Becomes
  <2> HIDE DEF k, v
  <2>4. Rooted(t, Put(S, k, v))
    BY <2>1, <2>2, InsertRooted
  <2>5. MapsTo(MapOf(root[o]), S) /\ MapsTo(MapOf(t), Put(S, k, v))
    BY <2>2, <2>4, RootedMap
  <2> HIDE DEF t
  <2>6. MapOf(t) = Map!Above(Map!Single(k, v), MapOf(root[o]))
    BY <2>5, MapPut, SameMap
  <2>7. QED
    BY <2>1, <2>3, <2>4, <2>6, Zenon DEF Step
<1>3. ASSUME NEW o \in Owners, NEW k \in Keys, Delete(o, k)
      PROVE  Step(root, root')
  <2> DEFINE t == rb_delete(root[o], k)
  <2>1. PICK S : Rooted(root[o], S)
    BY <1>1
  <2>2. root' = [root EXCEPT ![o] = t]
    BY <1>3, Zenon DEF Delete, Becomes
  <2>3. Rooted(t, Cut(S, k))
    BY <2>1, DeleteRooted
  <2>4. MapsTo(MapOf(root[o]), S) /\ MapsTo(MapOf(t), Cut(S, k))
    BY <2>1, <2>3, RootedMap
  <2> HIDE DEF t
  <2>5. MapOf(t) = Map!Without(MapOf(root[o]), k)
    BY <2>4, MapCut, SameMap
  <2>6. QED
    BY <2>2, <2>3, <2>5, Zenon DEF Step
<1>4. ASSUME NEW o \in Owners, NEW s \in Owners, Or(o, s)
      PROVE  Step(root, root')
  <2> DEFINE t == rb_addall(root[o], root[s])
  <2>1. PICK T : Rooted(root[o], T)
    BY <1>1
  <2>2. PICK S : Rooted(root[s], S)
    BY <1>1
  <2>3. root' = [root EXCEPT ![o] = t]
    BY <1>4, Zenon DEF Or, Becomes
  <2>4. Rooted(t, Over(T, S))
    BY <2>1, <2>2, AddAllRooted
  <2>5. MapsTo(MapOf(root[o]), T) /\ MapsTo(MapOf(root[s]), S) /\ MapsTo(MapOf(t), Over(T, S))
    BY <2>1, <2>2, <2>4, RootedMap
  <2> HIDE DEF t
  <2>6. MapOf(t) = Map!Above(MapOf(root[s]), MapOf(root[o]))
    BY <2>5, MapOver, SameMap
  <2>7. QED
    BY <2>3, <2>4, <2>6, Zenon DEF Step
<1>5. ASSUME NEW o \in Owners, NEW s \in Owners, Clone(o, s)
      PROVE  Step(root, root')
  <2> DEFINE t == rb_clone(root[s])
  <2>1. PICK S : Rooted(root[s], S)
    BY <1>1
  <2>2. root' = [root EXCEPT ![o] = t]
    BY <1>5, Zenon DEF Clone, Becomes
  <2>3. t = rb_addall(NULL, root[s])
    BY Zenon DEF rb_clone
  <2>4. Rooted(t, Over({}, S))
    BY <2>1, <2>3, NullRooted, AddAllRooted
  <2>5. Over({}, S) = S
    BY DEF Over
  <2>6. Rooted(t, S)
    BY <2>4, <2>5
  <2>7. MapsTo(MapOf(root[s]), S) /\ MapsTo(MapOf(t), S)
    BY <2>1, <2>6, RootedMap
  <2> HIDE DEF t
  <2>8. MapOf(t) = MapOf(root[s])
    BY <2>7, SameMap
  <2>9. QED
    BY <2>2, <2>6, <2>8, Zenon DEF Step
<1>6. ASSUME NEW o \in Owners, Free(o)
      PROVE  Step(root, root')
  <2>1. root' = [root EXCEPT ![o] = NULL]
    BY <1>6, Zenon DEF Free, Becomes
  <2>2. QED
    BY <2>1, NullRooted, Zenon DEF Step
<1>7. QED
  BY <1>2, <1>3, <1>4, <1>5, <1>6, Zenon DEF Next

LEMMA Start ==
  ASSUME Init
  PROVE  AllRooted(root) /\ MapsOf(root) = [o \in Owners |-> <<>>]
<1>1. root = [o \in Owners |-> NULL]
  BY DEF Init
<1>2. NULL \in Tree
  BY NullTree
<1>3. \A o \in Owners : root[o] = NULL
  BY <1>1
<1>4. root \in [Owners -> Tree]
  <2> DEFINE z == NULL
  <2>1. root = [o \in Owners |-> z] /\ z \in Tree
    BY <1>1, <1>2
  <2> HIDE DEF z
  <2>2. QED
    BY <2>1
<1>5. AllRooted(root)
  BY <1>3, <1>4, NullRooted DEF AllRooted
<1>6. \A o \in Owners : MapOf(root[o]) = <<>>
  BY <1>3, NullRooted
<1>7. MapsOf(root) = [o \in Owners |-> <<>>]
  BY <1>6 DEF MapsOf
<1>8. QED
  BY <1>5, <1>7

LEMMA Keeps ==
  ASSUME IInv, [Next]_root
  PROVE  IInv'
<1>1. CASE Next
  <2>1. Step(root, root')
    BY <1>1, NextSteps DEF IInv
  <2>owner. PICK o \in Owners : \E t, T : Rooted(t, T) /\ root' = [root EXCEPT ![o] = t]
    BY <2>1, Zenon DEF Step
  <2>2. PICK t, T : Rooted(t, T) /\ root' = [root EXCEPT ![o] = t]
    BY <2>owner, Zenon
  <2>3. AllRooted([root EXCEPT ![o] = t])
    BY <2>2, OneChanges DEF IInv
  <2>4. AllRooted(root')
    BY <2>2, <2>3
  <2>5. QED
    BY <2>4 DEF IInv
<1>2. CASE UNCHANGED root
  BY <1>2 DEF IInv
<1>3. QED
  BY <1>1, <1>2

\* The invariant holds in every state.
LEMMA Inductive == Spec => []IInv
<1>1. Init => IInv
  BY Start DEF IInv
<1>2. IInv /\ [Next]_root => IInv'
  BY Keeps
<1>3. QED
  BY <1>1, <1>2, PTL DEF Spec

\* Whatever is inserted and deleted (llrb.c rb_insert, rb_delete, rb_addall), the
\* trees stay balanced and left-leaning, for every set of keys.
THEOREM StaysBalanced == Spec => []Balanced
<1>1. IInv => Balanced
  <2> SUFFICES ASSUME AllRooted(root), NEW o \in Owners
               PROVE  /\ ~is_red(root[o])
                      /\ Cardinality(BlackHeights(root[o])) = 1
                      /\ \A n \in Nodes(root[o]) : ~is_red(n.right) /\ ~(is_red(n) /\ is_red(n.left))
    BY Zenon DEF Balanced, IInv
  <2>1. PICK S : Rooted(root[o], S)
    BY DEF AllRooted
  <2>2. QED
    BY <2>1, RootedBalanced
<1>2. QED
  BY <1>1, Inductive, PTL

\* rb_search, jitset_get, rmap_get and rmap_is_associated find what the map of the
\* tree holds, and nothing else.
THEOREM SearchesFindExactly == Spec => []FindsExactly
<1>1. IInv => FindsExactly
  <2> SUFFICES ASSUME AllRooted(root), NEW o \in Owners
               PROVE  LET map == MapOf(root[o])
                      IN  /\ \A k \in Keys : jitset_get(o, k) = (k \in DOMAIN map)
                          /\ \A k \in DOMAIN map : rmap_get(o, k) = map[k]
                          /\ \A v \in Values :
                               IF \E k \in DOMAIN map : map[k] = v
                               THEN \E k \in rmap_is_associated(o, v) : map[k] = v
                               ELSE rmap_is_associated(o, v) = {}
    BY Zenon DEF FindsExactly, IInv
  <2> DEFINE h == root[o]
             map == MapOf(h)
             keys(v) == associated[Depth][h][v]
  <2>1. PICK S : Rooted(h, S)
    BY DEF AllRooted
  <2>2. /\ \A k \in Keys : rb_search(h, k) # NULL <=> k \in DOMAIN map
        /\ \A k \in DOMAIN map : rb_search(h, k).value = map[k]
        /\ \A v \in Values :
             /\ (\E k \in DOMAIN map : map[k] = v) => \E k \in keys(v) : map[k] = v
             /\ (\A k \in DOMAIN map : map[k] # v) => keys(v) = {}
    BY <2>1, RootedFinds, Zenon
  <2>3. /\ \A k : jitset_get(o, k) <=> rb_search(h, k) # NULL
        /\ \A k : rmap_get(o, k) = rb_search(h, k).value
        /\ \A v : rmap_is_associated(o, v) = keys(v)
    BY Zenon DEF jitset_get, rmap_get, rmap_is_associated
  <2> HIDE DEF map, keys, h
  <2>4. \A k \in Keys : jitset_get(o, k) = (k \in DOMAIN map)
    <3>1. ASSUME NEW k \in Keys
          PROVE  jitset_get(o, k) <=> k \in DOMAIN map
      BY <2>2, <2>3, Zenon
    <3>2. ASSUME NEW k
          PROVE  jitset_get(o, k) \in BOOLEAN
      BY DEF jitset_get
    <3>3. QED
      BY <3>1, <3>2
  <2>5. \A k \in DOMAIN map : rmap_get(o, k) = map[k]
    BY <2>2, <2>3, Zenon
  <2>6. ASSUME NEW v \in Values
        PROVE  IF \E k \in DOMAIN map : map[k] = v
               THEN \E k \in rmap_is_associated(o, v) : map[k] = v
               ELSE rmap_is_associated(o, v) = {}
    <3>1. rmap_is_associated(o, v) = keys(v)
      BY <2>3, Zenon
    <3>2. CASE \E k \in DOMAIN map : map[k] = v
      <4>1. \E k \in keys(v) : map[k] = v
        BY <2>2, <3>2, Zenon
      <4>2. QED
        BY <3>1, <3>2, <4>1
    <3>3. CASE \A k \in DOMAIN map : map[k] # v
      <4>1. keys(v) = {}
        BY <2>2, <3>3, Zenon
      <4>2. QED
        BY <3>1, <3>3, <4>1
    <3>4. QED
      BY <3>2, <3>3, Zenon
  <2>7. QED
    BY <2>4, <2>5, <2>6, Zenon DEF map, h
<1>2. QED
  BY <1>1, Inductive, PTL

\* rb_equal says of every two sets whether they have the same elements, however
\* their trees came about.
THEOREM EqualityIsOfSets == Spec => []EqualSets
<1>1. IInv => EqualSets
  <2> SUFFICES ASSUME AllRooted(root), NEW o \in Owners, NEW s \in Owners
               PROVE  rb_equal(root[o], root[s]) = (DOMAIN MapOf(root[o]) = DOMAIN MapOf(root[s]))
    BY Zenon DEF EqualSets, IInv
  <2>1. PICK S : Rooted(root[o], S)
    BY DEF AllRooted
  <2>2. PICK T : Rooted(root[s], T)
    BY DEF AllRooted
  <2>3. rb_equal(root[o], root[s]) <=> DOMAIN MapOf(root[o]) = DOMAIN MapOf(root[s])
    BY <2>1, <2>2, RootedEqual, Zenon
  <2>4. rb_equal(root[o], root[s]) \in BOOLEAN
    BY DEF rb_equal, rb_subset
  <2>5. QED
    BY <2>3, <2>4
<1>2. QED
  BY <1>1, Inductive, PTL

\* The trees implement maps: every operation of llrb.c, set.h and rmap.h does to
\* the tree of its owner what MapSpec.tla says of the map.
THEOREM TreesImplementMaps == Spec => ImplementsMap
<1> DEFINE maps == [o \in Owners |-> MapOf(root[o])]
<1>1. Init => Map!SInit
  BY Start DEF MapsOf, Map!SInit
<1>2. IInv /\ [Next]_root => [Map!SNext]_maps
  <2> SUFFICES ASSUME IInv, [Next]_root
               PROVE  [Map!SNext]_maps
    OBVIOUS
  <2>1. CASE Next
    <3>1. Step(root, root')
      BY <2>1, NextSteps DEF IInv
    <3>owner. PICK o \in Owners : \E t, T :
             /\ Rooted(t, T) /\ root' = [root EXCEPT ![o] = t]
             /\ \/ \E k \in Keys, v \in Values :
                     MapOf(t) = Map!Above(Map!Single(k, v), MapOf(root[o]))
                \/ \E k \in Keys : MapOf(t) = Map!Without(MapOf(root[o]), k)
                \/ \E s \in Owners : \/ MapOf(t) = Map!Above(MapOf(root[s]), MapOf(root[o]))
                                     \/ MapOf(t) = MapOf(root[s])
                \/ MapOf(t) = <<>>
      BY <3>1, Zenon DEF Step
    <3>2. PICK t, T :
             /\ Rooted(t, T) /\ root' = [root EXCEPT ![o] = t]
             /\ \/ \E k \in Keys, v \in Values :
                     MapOf(t) = Map!Above(Map!Single(k, v), MapOf(root[o]))
                \/ \E k \in Keys : MapOf(t) = Map!Without(MapOf(root[o]), k)
                \/ \E s \in Owners : \/ MapOf(t) = Map!Above(MapOf(root[s]), MapOf(root[o]))
                                     \/ MapOf(t) = MapOf(root[s])
                \/ MapOf(t) = <<>>
      BY <3>owner, Zenon
    <3>3. MapsOf([root EXCEPT ![o] = t]) = [MapsOf(root) EXCEPT ![o] = MapOf(t)]
      <4>1. AllRooted(root) /\ Rooted(t, T)
        BY <3>2, Zenon DEF IInv
      <4>2. QED
        BY <4>1, OneChanges, Zenon
    <3>4. MapsOf(root') = [MapsOf(root) EXCEPT ![o] = MapOf(t)]
      BY <3>2, <3>3
    <3>5. maps' = [maps EXCEPT ![o] = MapOf(t)]
      BY <3>4, Zenon DEF MapsOf
    <3>6. \A s \in Owners : maps[s] = MapOf(root[s])
      OBVIOUS
    <3>7. ASSUME NEW f, MapOf(t) = f
          PROVE  Map!Change(o, f)
      BY <3>5, <3>7, Zenon DEF Map!Change
    <3>8. Map!SNext
      <4>1. ASSUME NEW k \in Keys, NEW v \in Values,
                   MapOf(t) = Map!Above(Map!Single(k, v), MapOf(root[o]))
            PROVE  Map!SInsert(o, k, v)
        <5>1. MapOf(t) = Map!Above(Map!Single(k, v), maps[o])
          BY <3>6, <4>1, Zenon
        <5>2. QED
          BY <3>7, <5>1, Zenon DEF Map!SInsert
      <4>2. ASSUME NEW k \in Keys, MapOf(t) = Map!Without(MapOf(root[o]), k)
            PROVE  Map!SDelete(o, k)
        <5>1. MapOf(t) = Map!Without(maps[o], k)
          BY <3>6, <4>2, Zenon
        <5>2. QED
          BY <3>7, <5>1, Zenon DEF Map!SDelete
      <4>3. ASSUME NEW s \in Owners, MapOf(t) = Map!Above(MapOf(root[s]), MapOf(root[o]))
            PROVE  Map!SAddAll(o, s)
        <5>1. MapOf(t) = Map!Above(maps[s], maps[o])
          BY <3>6, <4>3, Zenon
        <5>2. QED
          BY <3>7, <5>1, Zenon DEF Map!SAddAll
      <4>4. ASSUME NEW s \in Owners, MapOf(t) = MapOf(root[s])
            PROVE  Map!SClone(o, s)
        <5>1. MapOf(t) = maps[s]
          BY <3>6, <4>4, Zenon
        <5>2. QED
          BY <3>7, <5>1, Zenon DEF Map!SClone
      <4>5. ASSUME MapOf(t) = <<>>
            PROVE  Map!SFree(o)
        BY <3>7, <4>5, Zenon DEF Map!SFree
      <4>6. QED
        BY <3>2, <4>1, <4>2, <4>3, <4>4, <4>5, Zenon DEF Map!SNext
    <3>9. QED
      BY <3>8
  <2>2. CASE UNCHANGED root
    BY <2>2
  <2>3. QED
    BY <2>1, <2>2
<1>3. QED
  BY <1>1, <1>2, Inductive, PTL DEF Spec, ImplementsMap, Map!SSpec
=============================================================================
