---------------------------- MODULE RBTreeLemmas ------------------------------
(*****************************************************************************)
(* What is true of red-black search trees whoever changes them: how a tree  *)
(* is taken apart at its root and put together again, what remains of it    *)
(* when links elsewhere change, what the calls on the stack still owe to it, *)
(* and which recolourings and rotations restore it.                         *)
(*****************************************************************************)
EXTENDS RBTree, FiniteSetTheorems, SequenceTheorems, WellFoundedInduction, TLAPS

-----------------------------------------------------------------------------
(* The order.                                                              *)

\* m belongs on side l of n.
On(l, m, n) == IF l = "left" THEN Before(m, n) ELSE Before(n, m)

\* The two sides.
LEMMA SideFacts ==
    ASSUME NEW l \in Sides
    PROVE  /\ Other(l) \in Sides /\ Other(l) # l /\ Other(Other(l)) = l
           /\ Sides = {l, Other(l)}
  BY DEF Sides, Other

\* What the addresses are.
LEMMA NodeFacts ==
    /\ NULL \notin Nodes /\ Owner \notin Nodes /\ Owner # NULL
    /\ \A n \in Nodes : n \in Nat /\ Key[n] \in Int
  BY NodesAssumption, KeyAssumption DEF NULL, Owner

\* The comparator and the addresses order the nodes.
LEMMA BeforeIsOrder ==
    ASSUME NEW m \in Nodes, NEW n \in Nodes, NEW k \in Nodes
    PROVE  /\ ~Before(m, m)
           /\ Before(m, n) => ~Before(n, m)
           /\ m # n => Before(m, n) \/ Before(n, m)
           /\ Before(m, n) /\ Before(n, k) => Before(m, k)
  BY NodeFacts DEF Before

\* So do both sides, one the other way round.
LEMMA OnIsOrder ==
    ASSUME NEW l \in Sides, NEW m \in Nodes, NEW n \in Nodes, NEW k \in Nodes
    PROVE  /\ ~On(l, m, m)
           /\ On(l, m, n) => ~On(l, n, m)
           /\ On(Other(l), m, n) <=> On(l, n, m)
           /\ On(l, m, n) /\ On(l, n, k) => On(l, m, k)
           /\ m # n => On(l, m, n) \/ On(l, n, m)
  BY BeforeIsOrder DEF On, Sides, Other

-----------------------------------------------------------------------------
(* Trees.                                                                  *)

Pointers == [Sides -> [Nodes \cup {Owner} -> Nodes \cup {NULL}]]
Sets    == [Nodes \cup {NULL} -> SUBSET Nodes]
Heights == [Nodes \cup {NULL} -> Nat]

Weight(R, n) == IF n \in R THEN 0 ELSE 1

\* s and b have the nodes below n and the black nodes on every path from n,
\* and the rules of red-black search trees hold at n.
RulesAt(so, R, s, b, n) ==
    /\ s[n] = {n} \cup s[so["left"][n]] \cup s[so["right"][n]]
    /\ \A m \in s[n] : s[m] \subseteq s[n]
    /\ \A l \in Sides :
          /\ so[l][n] \in s[so[l][n]] \cup {NULL}
          /\ \A m \in s[so[l][n]] : On(l, m, n)
          /\ b[n] = b[so[l][n]] + Weight(R, n)
          /\ n \in R => so[l][n] \notin R

\* With the links so and the red nodes R, n is the root of a red-black search
\* tree of the nodes X, with h black nodes on every path.
Tree(so, R, n, X, h) ==
    /\ n \in Nodes \cup {NULL}
    /\ \E s \in Sets, b \in Heights :
          /\ s[NULL] = {} /\ b[NULL] = 0
          /\ s[n] = X /\ b[n] = h
          /\ n \in X \cup {NULL}
          /\ \A m \in X : RulesAt(so, R, s, b, m)

\* X and Y are what is on side l and on the other side of n in Z.
Joins(l, n, X, Y, Z) ==
    /\ n \in Nodes /\ X \subseteq Nodes /\ Y \subseteq Nodes
    /\ Z = {n} \cup X \cup Y
    /\ \A m \in X : On(l, m, n)
    /\ \A m \in Y : On(Other(l), m, n)

\* The parts that a node joins are apart.
LEMMA JoinsFacts ==
    ASSUME NEW l \in Sides, NEW n, NEW X, NEW Y, NEW Z, Joins(l, n, X, Y, Z)
    PROVE  /\ n \notin X /\ n \notin Y /\ X \cap Y = {}
           /\ Joins(Other(l), n, Y, X, Z)
           /\ X \subseteq Z /\ Y \subseteq Z /\ n \in Z /\ Z \subseteq Nodes
  <1>1. n \notin X /\ n \notin Y
    BY SideFacts, OnIsOrder DEF Joins
  <1>2. ASSUME NEW m \in X, m \in Y PROVE FALSE
    BY <1>2, OnIsOrder DEF Joins
  <1>3. QED
    BY <1>1, <1>2, SideFacts DEF Joins

\* The root of a tree is one of its nodes.
LEMMA TreeFacts ==
    ASSUME NEW so, NEW R, NEW n, NEW X, NEW h, Tree(so, R, n, X, h)
    PROVE  /\ n \in Nodes \cup {NULL} /\ X \subseteq Nodes /\ h \in Nat
           /\ n = NULL => X = {} /\ h = 0
           /\ n # NULL => n \in X /\ n \in Nodes
  BY NodeFacts DEF Tree, Sets, Heights

\* There is a tree without nodes.
LEMMA EmptyTree ==
    ASSUME NEW so, NEW R
    PROVE  Tree(so, R, NULL, {}, 0)
  <1> DEFINE s == [m \in Nodes \cup {NULL} |-> {}]
             b == [m \in Nodes \cup {NULL} |-> 0]
  <1>1. s \in Sets /\ b \in Heights
    BY DEF Sets, Heights
  <1>2. s[NULL] = {} /\ b[NULL] = 0
    OBVIOUS
  <1>3. QED
    BY <1>1, <1>2 DEF Tree

\* Both sons of the root of a tree are roots of trees.
LEMMA TakeApart ==
    ASSUME NEW so \in Pointers, NEW R, NEW n, NEW Z, NEW h, Tree(so, R, n, Z, h),
           n # NULL, NEW l \in Sides
    PROVE  /\ n \in R => so[l][n] \notin R /\ so[Other(l)][n] \notin R
           /\ \E X, Y \in SUBSET Nodes, k \in Nat :
                 /\ Joins(l, n, X, Y, Z)
                 /\ Tree(so, R, so[l][n], X, k)
                 /\ Tree(so, R, so[Other(l)][n], Y, k)
                 /\ h = k + Weight(R, n)
  <1>1. PICK s \in Sets, b \in Heights :
          /\ s[NULL] = {} /\ b[NULL] = 0
          /\ s[n] = Z /\ b[n] = h
          /\ n \in Z \cup {NULL}
          /\ \A m \in Z : RulesAt(so, R, s, b, m)
    BY DEF Tree
  <1>2. n \in Nodes /\ n \in Z /\ RulesAt(so, R, s, b, n)
    BY <1>1, TreeFacts
  <1> DEFINE x == so[l][n]  y == so[Other(l)][n]
  <1>3. x \in Nodes \cup {NULL} /\ y \in Nodes \cup {NULL}
    BY <1>2, SideFacts DEF Pointers
  <1>4. s[x] \in SUBSET Nodes /\ s[y] \in SUBSET Nodes /\ b[x] \in Nat /\ b[y] \in Nat
    BY <1>3 DEF Sets, Heights
  <1>5. Z = {n} \cup s[x] \cup s[y]
    BY <1>1, <1>2, SideFacts DEF RulesAt, Sides, Other
  <1>6. Joins(l, n, s[x], s[y], Z)
    BY <1>2, <1>4, <1>5, SideFacts DEF RulesAt, Joins
  <1>7. h = b[x] + Weight(R, n) /\ h = b[y] + Weight(R, n)
    BY <1>1, <1>2, SideFacts DEF RulesAt
  <1>8. b[x] = b[y]
    BY <1>4, <1>7 DEF Weight
  <1>9. n \in R => x \notin R /\ y \notin R
    BY <1>2, SideFacts DEF RulesAt
  <1>10. ASSUME NEW q \in Sides
         PROVE  Tree(so, R, so[q][n], s[so[q][n]], b[so[q][n]])
    <2>1. so[q][n] \in Nodes \cup {NULL}
      BY <1>2 DEF Pointers
    <2>2. so[q][n] \in s[so[q][n]] \cup {NULL} /\ s[so[q][n]] \subseteq Z
      BY <1>1, <1>2 DEF RulesAt, Sides
    <2>3. QED
      BY <1>1, <2>1, <2>2 DEF Tree
  <1>11. Tree(so, R, x, s[x], b[x]) /\ Tree(so, R, y, s[y], b[x])
    BY <1>8, <1>10, SideFacts
  <1>12. QED
    BY <1>4, <1>6, <1>7, <1>9, <1>11

\* The sons of a red root are black, and their trees are as high as its own.
LEMMA BelowRed ==
    ASSUME NEW so \in Pointers, NEW R, NEW n, NEW Z, NEW h, Tree(so, R, n, Z, h),
           n # NULL, NEW l \in Sides, n \in R
    PROVE  /\ so[l][n] \notin R /\ so[Other(l)][n] \notin R
           /\ \E X, Y \in SUBSET Nodes :
                 /\ Joins(l, n, X, Y, Z)
                 /\ Tree(so, R, so[l][n], X, h)
                 /\ Tree(so, R, so[Other(l)][n], Y, h)
  <1>1. PICK X \in SUBSET Nodes, Y \in SUBSET Nodes, k \in Nat :
          /\ Joins(l, n, X, Y, Z)
          /\ Tree(so, R, so[l][n], X, k)
          /\ Tree(so, R, so[Other(l)][n], Y, k)
          /\ h = k + Weight(R, n)
    BY TakeApart
  <1>2. Weight(R, n) = 0
    BY DEF Weight
  <1>3. h = k
    BY ONLY <1>1, <1>2, k \in Nat
  <1>4. so[l][n] \notin R /\ so[Other(l)][n] \notin R
    BY TakeApart
  <1>5. QED
    BY <1>1, <1>3, <1>4

\* The trees below a black root have one black node less on every path.
LEMMA BelowBlack ==
    ASSUME NEW so \in Pointers, NEW R, NEW n, NEW Z, NEW h \in Nat, Tree(so, R, n, Z, h + 1),
           n # NULL, NEW l \in Sides, n \notin R
    PROVE  \E X, Y \in SUBSET Nodes :
              /\ Joins(l, n, X, Y, Z)
              /\ Tree(so, R, so[l][n], X, h)
              /\ Tree(so, R, so[Other(l)][n], Y, h)
  <1>1. PICK X \in SUBSET Nodes, Y \in SUBSET Nodes, k \in Nat :
          /\ Joins(l, n, X, Y, Z)
          /\ Tree(so, R, so[l][n], X, k)
          /\ Tree(so, R, so[Other(l)][n], Y, k)
          /\ h + 1 = k + Weight(R, n)
    BY TakeApart
  <1>2. Weight(R, n) = 1
    BY DEF Weight
  <1>3. h = k
    BY ONLY <1>1, <1>2, k \in Nat, h \in Nat
  <1>4. QED
    BY <1>1, <1>3

\* A node with two trees of one black height below it is the root of a tree.
LEMMA PutTogether ==
    ASSUME NEW so \in Pointers, NEW R, NULL \notin R, NEW n, NEW X, NEW Y, NEW Z, NEW k \in Nat,
           NEW l \in Sides,
           Joins(l, n, X, Y, Z),
           Tree(so, R, so[l][n], X, k), Tree(so, R, so[Other(l)][n], Y, k),
           n \in R => so[l][n] \notin R /\ so[Other(l)][n] \notin R
    PROVE  Tree(so, R, n, Z, k + Weight(R, n))
  <1> DEFINE x == so[l][n]  y == so[Other(l)][n]
  <1>1. PICK s1 \in Sets, b1 \in Heights :
          /\ s1[NULL] = {} /\ b1[NULL] = 0
          /\ s1[x] = X /\ b1[x] = k
          /\ x \in X \cup {NULL}
          /\ \A m \in X : RulesAt(so, R, s1, b1, m)
    BY DEF Tree
  <1>2. PICK s2 \in Sets, b2 \in Heights :
          /\ s2[NULL] = {} /\ b2[NULL] = 0
          /\ s2[y] = Y /\ b2[y] = k
          /\ y \in Y \cup {NULL}
          /\ \A m \in Y : RulesAt(so, R, s2, b2, m)
    BY DEF Tree
  <1>3. /\ n \in Nodes /\ X \subseteq Nodes /\ Y \subseteq Nodes
        /\ n \notin X /\ n \notin Y /\ X \cap Y = {}
        /\ Z = {n} \cup X \cup Y /\ Z \subseteq Nodes
    <2>1. n \notin X /\ n \notin Y /\ X \cap Y = {}
      BY JoinsFacts
    <2>2. QED
      BY <2>1 DEF Joins
  <1> DEFINE s == [m \in Nodes \cup {NULL} |-> IF m = n THEN Z ELSE IF m \in X THEN s1[m]
                                               ELSE IF m \in Y THEN s2[m] ELSE {}]
             b == [m \in Nodes \cup {NULL} |-> IF m = n THEN k + Weight(R, n)
                                               ELSE IF m \in X THEN b1[m]
                                               ELSE IF m \in Y THEN b2[m] ELSE 0]
  <1>4. s \in Sets
    BY <1>3 DEF Sets
  <1>5. b \in Heights
    BY <1>3 DEF Heights, Weight
  <1>6. /\ s[NULL] = {} /\ b[NULL] = 0
        /\ s[n] = Z /\ b[n] = k + Weight(R, n)
        /\ \A m \in X : s[m] = s1[m] /\ b[m] = b1[m]
        /\ \A m \in Y : s[m] = s2[m] /\ b[m] = b2[m]
    BY <1>3, NodeFacts
  <1>7. x \in Nodes \cup {NULL} /\ y \in Nodes \cup {NULL}
    BY <1>3, SideFacts DEF Pointers
  <1> HIDE DEF s, b
  <1>8. s[x] = X /\ b[x] = k /\ s[y] = Y /\ b[y] = k
    <2>1. s[x] = X /\ b[x] = k
      BY <1>1, <1>6
    <2>2. s[y] = Y /\ b[y] = k
      BY <1>2, <1>6
    <2>3. QED
      BY <2>1, <2>2
  <1>9. ASSUME NEW m \in X PROVE RulesAt(so, R, s, b, m) /\ s[m] \subseteq X
    <2>1. RulesAt(so, R, s1, b1, m)
      BY <1>1
    <2>2. \A q \in Sides : so[q][m] \in X \cup {NULL} /\ s1[m] \subseteq X
      BY <1>1, <1>3, <2>1 DEF RulesAt, Sides, Tree
    <2>3. QED
      BY <1>1, <1>3, <1>6, <2>1, <2>2 DEF RulesAt, Sides
  <1>10. ASSUME NEW m \in Y PROVE RulesAt(so, R, s, b, m) /\ s[m] \subseteq Y
    <2>1. RulesAt(so, R, s2, b2, m)
      BY <1>2
    <2>2. \A q \in Sides : so[q][m] \in Y \cup {NULL} /\ s2[m] \subseteq Y
      BY <1>2, <1>3, <2>1 DEF RulesAt, Sides, Tree
    <2>3. QED
      BY <1>2, <1>3, <1>6, <2>1, <2>2 DEF RulesAt, Sides
  <1>11. RulesAt(so, R, s, b, n)
    <2>1. s[n] = {n} \cup s[so["left"][n]] \cup s[so["right"][n]]
      BY <1>3, <1>6, <1>8, SideFacts DEF Sides, Other
    <2>2. ASSUME NEW m \in s[n] PROVE s[m] \subseteq s[n]
      <3>1. CASE m \in X
        BY <1>3, <1>6, <1>9, <3>1
      <3>2. CASE m \in Y
        BY <1>3, <1>6, <1>10, <3>2
      <3>3. QED
        BY <1>3, <1>6, <2>2, <3>1, <3>2
    <2>3. ASSUME NEW q \in Sides
          PROVE  /\ so[q][n] \in s[so[q][n]] \cup {NULL}
                 /\ \A m \in s[so[q][n]] : On(q, m, n)
                 /\ b[n] = b[so[q][n]] + Weight(R, n)
                 /\ n \in R => so[q][n] \notin R
      <3>1. CASE q = l
        BY <1>1, <1>6, <1>8, <3>1 DEF Joins
      <3>2. CASE q = Other(l)
        BY <1>2, <1>6, <1>8, <3>2 DEF Joins
      <3>3. QED
        BY <3>1, <3>2, SideFacts
    <2>4. QED
      BY <2>1, <2>2, <2>3 DEF RulesAt
  <1>12. QED
    BY <1>3, <1>4, <1>5, <1>6, <1>9, <1>10, <1>11 DEF Tree

\* A tree does not notice what happens to other nodes.
LEMMA Untouched ==
    ASSUME NEW so, NEW R, NEW n, NEW X, NEW h, Tree(so, R, n, X, h),
           NEW to, NEW Q, NULL \notin R, NULL \notin Q,
           \A m \in X : (m \in Q <=> m \in R) /\ \A q \in Sides : to[q][m] = so[q][m]
    PROVE  Tree(to, Q, n, X, h)
  <1>1. PICK s \in Sets, b \in Heights :
          /\ s[NULL] = {} /\ b[NULL] = 0
          /\ s[n] = X /\ b[n] = h
          /\ n \in X \cup {NULL}
          /\ \A m \in X : RulesAt(so, R, s, b, m)
    BY DEF Tree
  <1>2. ASSUME NEW m \in X PROVE RulesAt(to, Q, s, b, m)
    <2>1. RulesAt(so, R, s, b, m) /\ n \in X
      BY <1>1
    <2>2. \A q \in Sides : so[q][m] \in X \cup {NULL}
      BY <1>1, <2>1 DEF RulesAt, Sides
    <2>3. Weight(R, m) = Weight(Q, m)
      BY DEF Weight
    <2>4. QED
      BY <2>1, <2>2, <2>3 DEF RulesAt, Sides
  <1>3. QED
    BY <1>1, <1>2, TreeFacts DEF Tree

\* The root of a tree may change its colour, if that breaks no rule.
LEMMA Repainted ==
    ASSUME NEW so \in Pointers, NEW R, NULL \notin R, NEW n, NEW X, NEW h, Tree(so, R, n, X, h),
           n # NULL, NEW Q, NULL \notin Q, \A m \in X \ {n} : m \in Q <=> m \in R,
           n \in Q => \A q \in Sides : so[q][n] \notin R
    PROVE  h - Weight(R, n) \in Nat /\ Tree(so, Q, n, X, (h - Weight(R, n)) + Weight(Q, n))
  <1>1. "left" \in Sides
    BY DEF Sides
  <1>2. PICK A, B \in SUBSET Nodes, k \in Nat :
          /\ Joins("left", n, A, B, X)
          /\ Tree(so, R, so["left"][n], A, k)
          /\ Tree(so, R, so[Other("left")][n], B, k)
          /\ h = k + Weight(R, n)
    BY <1>1, TakeApart
  <1>3. n \notin A /\ n \notin B /\ A \subseteq X /\ B \subseteq X
    BY <1>1, <1>2, JoinsFacts
  <1>4. /\ Tree(so, Q, so["left"][n], A, k)
        /\ Tree(so, Q, so[Other("left")][n], B, k)
    BY <1>2, <1>3, Untouched
  <1>5. n \in Q => so["left"][n] \notin Q /\ so[Other("left")][n] \notin Q
    BY <1>1, <1>2, <1>3, SideFacts, TreeFacts
  <1>6. Tree(so, Q, n, X, k + Weight(Q, n))
    BY <1>1, <1>2, <1>4, <1>5, PutTogether
  <1>7. QED
    BY <1>2, <1>6 DEF Weight

-----------------------------------------------------------------------------
(* Turning a tree: the nodes below a and the order among them stay.        *)

\* A rotation keeps the order.
LEMMA TurnedJoins ==
    ASSUME NEW l \in Sides, NEW a, NEW b, NEW A, NEW B, NEW C, NEW XB, NEW Z,
           Joins(l, a, XB, C, Z), Joins(l, b, A, B, XB)
    PROVE  /\ Joins(l, a, B, C, {a} \cup B \cup C)
           /\ Joins(l, b, A, {a} \cup B \cup C, Z)
  <1>1. b \in XB /\ B \subseteq XB /\ A \subseteq XB /\ XB \subseteq Nodes
    BY JoinsFacts
  <1>2. Joins(l, a, B, C, {a} \cup B \cup C)
    BY <1>1 DEF Joins
  <1>3. On(Other(l), a, b)
    BY <1>1, OnIsOrder DEF Joins
  <1>4. ASSUME NEW m \in C PROVE On(Other(l), m, b)
    BY <1>1, <1>3, OnIsOrder, SideFacts DEF Joins
  <1>5. QED
    BY <1>1, <1>2, <1>3, <1>4 DEF Joins

\* The son b of a on side l becomes the root over a.
LEMMA Rotated ==
    ASSUME NEW to \in Pointers, NEW Q, NULL \notin Q,
           NEW l \in Sides, NEW a, NEW b, NEW A, NEW B, NEW C, NEW XB, NEW Z,
           NEW i \in Nat, NEW k \in Nat,
           Joins(l, a, XB, C, Z), Joins(l, b, A, B, XB),
           Tree(to, Q, to[l][b], A, i),
           Tree(to, Q, to[l][a], B, k), Tree(to, Q, to[Other(l)][a], C, k),
           to[Other(l)][b] = a,
           i = k + Weight(Q, a),
           a \in Q => to[l][a] \notin Q /\ to[Other(l)][a] \notin Q,
           b \in Q => to[l][b] \notin Q /\ a \notin Q
    PROVE  Tree(to, Q, b, Z, i + Weight(Q, b))
  <1>1. /\ Joins(l, a, B, C, {a} \cup B \cup C)
        /\ Joins(l, b, A, {a} \cup B \cup C, Z)
    BY TurnedJoins
  <1>2. Tree(to, Q, a, {a} \cup B \cup C, i)
    BY <1>1, PutTogether
  <1>3. QED
    BY <1>1, <1>2, PutTogether

\* The inner son d of the son b of a becomes the root over b and a.
LEMMA LiftedSon ==
    ASSUME NEW to \in Pointers, NEW Q, NULL \notin Q,
           NEW l \in Sides, NEW a, NEW b, NEW d,
           NEW A, NEW D1, NEW D2, NEW C, NEW XD, NEW XB, NEW Z,
           NEW i \in Nat, NEW j \in Nat, NEW k \in Nat,
           Joins(l, a, XB, C, Z), Joins(l, b, A, XD, XB), Joins(l, d, D1, D2, XD),
           Tree(to, Q, to[l][b], A, i), Tree(to, Q, to[Other(l)][b], D1, i),
           Tree(to, Q, to[l][a], D2, j), Tree(to, Q, to[Other(l)][a], C, j),
           to[l][d] = b, to[Other(l)][d] = a,
           k = i + Weight(Q, b), k = j + Weight(Q, a),
           a \in Q => to[l][a] \notin Q /\ to[Other(l)][a] \notin Q,
           b \in Q => to[l][b] \notin Q /\ to[Other(l)][b] \notin Q,
           d \in Q => a \notin Q /\ b \notin Q
    PROVE  Tree(to, Q, d, Z, k + Weight(Q, d))
  <1> DEFINE S == {b} \cup A \cup D1  T == {a} \cup D2 \cup C
  <1>1. /\ Joins(l, b, A, D1, S) /\ Joins(l, d, S, D2, XB)
    <2>1. Joins(Other(l), b, XD, A, XB) /\ Joins(Other(l), d, D2, D1, XD)
      BY JoinsFacts
    <2>2. /\ Joins(Other(l), b, D1, A, {b} \cup D1 \cup A)
          /\ Joins(Other(l), d, D2, {b} \cup D1 \cup A, XB)
      BY <2>1, SideFacts, TurnedJoins
    <2>3. S = {b} \cup D1 \cup A
      OBVIOUS
    <2>4. /\ Joins(Other(l), b, D1, A, S)
          /\ Joins(Other(l), d, D2, S, XB)
      BY <2>2, <2>3
    <2>5. /\ Joins(Other(Other(l)), b, A, D1, S)
          /\ Joins(Other(Other(l)), d, S, D2, XB)
      BY <2>4, SideFacts, JoinsFacts
    <2>6. QED
      BY <2>5, SideFacts
  <1>2. Joins(l, a, D2, C, T) /\ Joins(l, d, S, T, Z)
    BY <1>1, TurnedJoins
  <1>3. Tree(to, Q, b, S, k)
    BY <1>1, PutTogether
  <1>4. Tree(to, Q, a, T, k)
    BY <1>2, PutTogether
  <1>5. QED
    BY <1>2, <1>3, <1>4, PutTogether

\* The same with the sons of b as high as the whole is to be.
LEMMA LiftedOverRed ==
    ASSUME NEW to \in Pointers, NEW Q, NULL \notin Q,
           NEW l \in Sides, NEW a, NEW b, NEW d,
           NEW A, NEW D1, NEW D2, NEW C, NEW XD, NEW XB, NEW Z,
           NEW i \in Nat, NEW j \in Nat,
           Joins(l, a, XB, C, Z), Joins(l, b, A, XD, XB), Joins(l, d, D1, D2, XD),
           Tree(to, Q, to[l][b], A, i), Tree(to, Q, to[Other(l)][b], D1, i),
           Tree(to, Q, to[l][a], D2, j), Tree(to, Q, to[Other(l)][a], C, j),
           to[l][d] = b, to[Other(l)][d] = a,
           i = i + Weight(Q, b), i = j + Weight(Q, a),
           a \in Q => to[l][a] \notin Q /\ to[Other(l)][a] \notin Q,
           b \in Q => to[l][b] \notin Q /\ to[Other(l)][b] \notin Q,
           d \in Q => a \notin Q /\ b \notin Q
    PROVE  Tree(to, Q, d, Z, i + Weight(Q, d))
  BY LiftedSon

\* The inner son d of the inner son c of b becomes the root over b and a.
LEMMA LiftedGrandson ==
    ASSUME NEW to \in Pointers, NEW Q, NULL \notin Q,
           NEW l \in Sides, NEW a, NEW b, NEW c, NEW d,
           NEW A, NEW E, NEW D1, NEW D2, NEW C, NEW XD, NEW XC, NEW XB, NEW Z,
           NEW h \in Nat, NEW i \in Nat, NEW j \in Nat, NEW k \in Nat,
           Joins(l, a, XB, C, Z), Joins(l, b, A, XC, XB),
           Joins(l, c, E, XD, XC), Joins(l, d, D1, D2, XD),
           Tree(to, Q, to[l][c], E, h), Tree(to, Q, to[Other(l)][c], D1, h),
           Tree(to, Q, to[l][b], A, i), to[Other(l)][b] = c,
           Tree(to, Q, to[l][a], D2, j), Tree(to, Q, to[Other(l)][a], C, j),
           to[l][d] = b, to[Other(l)][d] = a,
           i = h + Weight(Q, c), k = i + Weight(Q, b), k = j + Weight(Q, a),
           a \in Q => to[l][a] \notin Q /\ to[Other(l)][a] \notin Q,
           c \in Q => to[l][c] \notin Q /\ to[Other(l)][c] \notin Q,
           b \in Q => to[l][b] \notin Q /\ c \notin Q,
           d \in Q => a \notin Q /\ b \notin Q
    PROVE  Tree(to, Q, d, Z, k + Weight(Q, d))
  <1> DEFINE F == {c} \cup E \cup D1
  <1>1. Joins(l, c, E, D1, F) /\ Joins(l, d, F, D2, XC)
    <2>1. Joins(Other(l), c, XD, E, XC) /\ Joins(Other(l), d, D2, D1, XD)
      BY JoinsFacts
    <2>2. /\ Joins(Other(l), c, D1, E, {c} \cup D1 \cup E)
          /\ Joins(Other(l), d, D2, {c} \cup D1 \cup E, XC)
      BY <2>1, SideFacts, TurnedJoins
    <2>3. F = {c} \cup D1 \cup E
      OBVIOUS
    <2>4. /\ Joins(Other(l), c, D1, E, F)
          /\ Joins(Other(l), d, D2, F, XC)
      BY <2>2, <2>3
    <2>5. /\ Joins(Other(Other(l)), c, E, D1, F)
          /\ Joins(Other(Other(l)), d, F, D2, XC)
      BY <2>4, SideFacts, JoinsFacts
    <2>6. QED
      BY <2>5, SideFacts
  <1>2. Tree(to, Q, c, F, i)
    BY <1>1, PutTogether
  <1>3. QED
    BY <1>1, <1>2, LiftedSon

-----------------------------------------------------------------------------
(* Recursion over a tree ends: what is true of every node whose sons have  *)
(* it is true of all nodes.                                                *)

Less == {ss \in Nat \X Nat : ss[1] < ss[2]}

\* Naturals are well-founded.
LEMMA LeastNatural ==
    ASSUME NEW T, T \subseteq Nat, T # {}
    PROVE  \E x \in T : \A y \in T : x <= y
  <1>1. IsWellFoundedOn(Less, Nat)
    BY NatLessThanWellFounded DEF OpToRel, Less
  <1>2. PICK x \in T : \A y \in T : ~(<<y, x>> \in Less)
    BY <1>1, WFMin
  <1>3. ASSUME NEW y \in T PROVE x <= y
    <2>1. <<y, x>> \in Nat \X Nat /\ <<y, x>>[1] = y /\ <<y, x>>[2] = x
      OBVIOUS
    <2>2. ~(y < x)
      BY <1>2, <2>1 DEF Less
    <2>3. QED
      BY <2>2
  <1>4. QED
    BY <1>3

Rules(so, R, s, b, X) == \A m \in X : RulesAt(so, R, s, b, m) /\ s[m] \subseteq X
Inherited(so, X, P) ==
    \A m \in X : (\A q \in Sides : so[q][m] \in P \cup {NULL}) => m \in P

\* What every node inherits from its sons is true of all nodes of a tree.
LEMMA TreeInduction ==
    ASSUME NEW so \in Pointers, NEW R, NEW s \in Sets, NEW b, NEW X, X \subseteq Nodes,
           Rules(so, R, s, b, X), NEW P, Inherited(so, X, P)
    PROVE  X \subseteq P
  <1> SUFFICES ASSUME NEW n \in X, n \notin P PROVE FALSE
    OBVIOUS
  <1> USE DEF Rules, Inherited
  <1> DEFINE Bad == X \ P
             T == {Cardinality(s[m]) : m \in Bad}
  <1>1. \A m \in X : IsFiniteSet(s[m]) /\ Cardinality(s[m]) \in Nat
    BY NodesAssumption, FS_Subset, FS_CardinalityType DEF Sets
  <1>2. PICK c \in T : \A y \in T : c <= y
    <2>1. T \subseteq Nat /\ T # {}
      BY <1>1
    <2>2. QED
      BY <2>1, LeastNatural
  <1>3. PICK m \in Bad : c = Cardinality(s[m])
    BY <1>2
  <1>4. PICK q \in Sides : so[q][m] \notin P \cup {NULL}
    BY <1>3
  <1> DEFINE x == so[q][m]
  <1>5. x \in s[x] /\ s[x] \subseteq s[m] /\ m \notin s[x]
    BY <1>3, <1>4, OnIsOrder DEF RulesAt, Sides
  <1>6. m \in s[m]
    BY <1>3 DEF RulesAt
  <1>7. x \in Bad
    BY <1>3, <1>4, <1>5
  <1>8. Cardinality(s[x]) < Cardinality(s[m])
    BY <1>1, <1>3, <1>5, <1>6, FS_Subset
  <1>9. Cardinality(s[x]) \in T /\ Cardinality(s[x]) \in Nat /\ c \in Nat
    BY <1>1, <1>3, <1>7
  <1>10. c <= Cardinality(s[x])
    BY <1>2, <1>9
  <1>11. Cardinality(s[x]) < c
    BY <1>3, <1>8
  <1> HIDE DEF T, Bad, x
  <1>12. QED
    BY <1>9, <1>10, <1>11

\* The function by which NodesOf is defined exists whatever the links.
LEMMA BelowExists ==
    ASSUME NEW so \in Pointers
    PROVE  \E f : f = [n \in Nodes \cup {NULL} |->
                           IF n = NULL THEN {}
                           ELSE {n} \cup f[so["left"][n]] \cup f[so["right"][n]]]
  <1> DEFINE Closed(C) == \A k \in C, q \in Sides : so[q][k] \in C \cup {NULL}
             Reach(n) == {m \in Nodes : n # NULL /\ \A C \in SUBSET Nodes :
                                            Closed(C) /\ n \in C => m \in C}
             f == [n \in Nodes \cup {NULL} |-> Reach(n)]
  <1>1. ASSUME NEW n \in Nodes, NEW q \in Sides
        PROVE  so[q][n] \in Nodes \cup {NULL}
    BY DEF Pointers
  <1>2. ASSUME NEW n \in Nodes
        PROVE  Reach(n) = {n} \cup Reach(so["left"][n]) \cup Reach(so["right"][n])
    <2> DEFINE x == so["left"][n]  y == so["right"][n]
               C == {n} \cup Reach(x) \cup Reach(y)
    <2>1. n \in Reach(n)
      BY NodeFacts
    <2>2. Reach(x) \subseteq Reach(n) /\ Reach(y) \subseteq Reach(n)
      BY NodeFacts DEF Sides
    <2>3. C \in SUBSET Nodes
      OBVIOUS
    <2>4. ASSUME NEW z \in {x, y}, NEW k \in Reach(z), NEW q \in Sides
          PROVE  so[q][k] \in Reach(z) \cup {NULL}
      BY <1>1
    <2>5. x \in Reach(x) \cup {NULL} /\ y \in Reach(y) \cup {NULL}
      BY <1>1 DEF Sides
    <2>6. Closed(C)
      BY <2>4, <2>5 DEF Sides
    <2>7. Reach(n) \subseteq C
      BY <2>3, <2>6
    <2>8. QED
      BY <2>1, <2>2, <2>7
  <1>3. f = [n \in Nodes \cup {NULL} |->
                 IF n = NULL THEN {} ELSE {n} \cup f[so["left"][n]] \cup f[so["right"][n]]]
    <2>1. Reach(NULL) = {}
      OBVIOUS
    <2>2. ASSUME NEW n \in Nodes
          PROVE  f[so["left"][n]] = Reach(so["left"][n]) /\ f[so["right"][n]] = Reach(so["right"][n])
      BY <1>1 DEF Sides
    <2>3. QED
      BY <1>2, <2>1, <2>2, NodeFacts
  <1>4. QED
    BY <1>3

\* The nodes below the root of a tree are its nodes.
LEMMA NodesOfTree ==
    ASSUME NEW so \in Pointers, NEW R, NEW n, NEW X, NEW h, Tree(so, R, n, X, h)
    PROVE  NodesOf(so, n) = X
  <1> DEFINE f == CHOOSE g : g = [m \in Nodes \cup {NULL} |->
                                     IF m = NULL THEN {}
                                     ELSE {m} \cup g[so["left"][m]] \cup g[so["right"][m]]]
  <1>1. NodesOf(so, n) = f[n]
    BY DEF NodesOf
  <1>2. f = [m \in Nodes \cup {NULL} |->
                 IF m = NULL THEN {} ELSE {m} \cup f[so["left"][m]] \cup f[so["right"][m]]]
    BY BelowExists
  <1> HIDE DEF f
  <1>3. PICK s \in Sets, b \in Heights :
          /\ s[NULL] = {} /\ b[NULL] = 0
          /\ s[n] = X /\ b[n] = h
          /\ n \in X \cup {NULL}
          /\ \A m \in X : RulesAt(so, R, s, b, m)
    BY DEF Tree
  <1> DEFINE P == {m \in X : f[m] = s[m]}
  <1>4. X \subseteq Nodes /\ f[NULL] = {}
    BY <1>2, TreeFacts
  <1>5. \A m \in X : s[m] \subseteq X
    BY <1>3 DEF RulesAt
  <1>6. ASSUME NEW m \in X, \A q \in Sides : so[q][m] \in P \cup {NULL} PROVE m \in P
    <2>1. f[m] = {m} \cup f[so["left"][m]] \cup f[so["right"][m]]
      BY <1>2, <1>4, NodeFacts
    <2>2. s[m] = {m} \cup s[so["left"][m]] \cup s[so["right"][m]]
      BY <1>3 DEF RulesAt
    <2>3. \A q \in Sides : f[so[q][m]] = s[so[q][m]]
      BY <1>3, <1>4, <1>6
    <2>4. QED
      BY <2>1, <2>2, <2>3 DEF Sides
  <1>7. X \subseteq P
    <2> HIDE DEF P
    <2>1. Rules(so, R, s, b, X)
      BY <1>3, <1>5 DEF Rules
    <2>2. Inherited(so, X, P)
      BY <1>6 DEF Inherited
    <2>3. QED
      BY <1>4, <2>1, <2>2, TreeInduction
  <1>8. QED
    BY <1>1, <1>3, <1>4, <1>7

\* The height that the consistency check of sglib.h finds.
LEMMA HeightOfTree ==
    ASSUME son \in Pointers, NULL \notin red, NEW X, NEW h, Tree(son, red, root, X, h)
    PROVE  BlackHeight = h
  <1> DEFINE Bad(g, m) == LET l == son["left"][m]
                              r == son["right"][m]
                          IN  \/ g[l] = -1 \/ g[l] # g[r]
                              \/ l # NULL /\ Key[l] > Key[m]
                              \/ r # NULL /\ Key[m] > Key[r]
                              \/ IsRed(m) /\ (IsRed(l) \/ IsRed(r))
             Rhs(g) == [m \in Members \cup {NULL} |->
                           IF m = NULL THEN 0
                           ELSE IF Bad(g, m) THEN -1
                           ELSE g[son["left"][m]] + (IF IsBlack(m) THEN 1 ELSE 0)]
             f == CHOOSE g : g = Rhs(g)
  <1>1. BlackHeight = f[root]
    BY DEF BlackHeight
  <1>2. Members = X
    BY NodesOfTree DEF Members
  <1>3. PICK s \in Sets, b \in Heights :
          /\ s[NULL] = {} /\ b[NULL] = 0
          /\ s[root] = X /\ b[root] = h
          /\ root \in X \cup {NULL}
          /\ \A m \in X : RulesAt(son, red, s, b, m)
    BY DEF Tree
  <1>4. X \subseteq Nodes /\ NULL \notin X
    BY TreeFacts, NodeFacts
  <1>5. \A m \in X : s[m] \subseteq X
    BY <1>3 DEF RulesAt
  <1>6. ASSUME NEW g, NEW m \in X,
               \A q \in Sides : g[son[q][m]] = b[son[q][m]]
        PROVE  /\ ~Bad(g, m)
               /\ b[m] = g[son["left"][m]] + (IF IsBlack(m) THEN 1 ELSE 0)
    <2> DEFINE l == son["left"][m]  r == son["right"][m]
    <2>1. /\ l \in s[l] \cup {NULL} /\ r \in s[r] \cup {NULL}
          /\ \A k \in s[l] : Before(k, m)
          /\ \A k \in s[r] : Before(m, k)
          /\ b[m] = b[l] + Weight(red, m) /\ b[m] = b[r] + Weight(red, m)
          /\ m \in red => l \notin red /\ r \notin red
      BY <1>3 DEF RulesAt, Sides, On
    <2>2. l \in Nodes \cup {NULL} /\ r \in Nodes \cup {NULL} /\ m \in Nodes
      BY <1>4 DEF Pointers, Sides
    <2>3. b[l] \in Nat /\ b[r] \in Nat
      BY <2>2 DEF Heights
    <2>4. b[l] = b[r]
      BY <2>1, <2>3 DEF Weight
    <2>5. g[l] = b[l] /\ g[r] = b[r]
      BY <1>6 DEF Sides
    <2>6. (l # NULL => Key[l] <= Key[m]) /\ (r # NULL => Key[m] <= Key[r])
      BY <2>1, <2>2, NodeFacts DEF Before
    <2>7. ~Bad(g, m)
      BY <2>1, <2>2, <2>3, <2>4, <2>5, <2>6, NodeFacts DEF IsRed
    <2>8. QED
      BY <2>1, <2>5, <2>7 DEF IsBlack, Weight
  <1>7. \E g : g = Rhs(g)
    <2> DEFINE g == [m \in X \cup {NULL} |-> b[m]]
    <2>1. ASSUME NEW m \in X PROVE g[m] = Rhs(g)[m]
      <3>1. \A q \in Sides : son[q][m] \in X \cup {NULL}
        BY <1>3, <1>5 DEF RulesAt, Sides
      <3>2. \A q \in Sides : g[son[q][m]] = b[son[q][m]]
        BY <3>1
      <3> HIDE DEF g
      <3>3. ~Bad(g, m) /\ b[m] = g[son["left"][m]] + (IF IsBlack(m) THEN 1 ELSE 0)
        BY <1>6, <3>2
      <3>4. Rhs(g)[m] = b[m]
        BY <1>2, <1>4, <3>3
      <3>5. QED
        BY <3>4 DEF g
    <2>2. g[NULL] = Rhs(g)[NULL]
      BY <1>3
    <2>3. g = Rhs(g)
      <3> DEFINE w == Rhs(g)
      <3>1. w = [m \in X \cup {NULL} |-> w[m]]
        BY <1>2
      <3>2. \A m \in X \cup {NULL} : g[m] = w[m]
        BY <2>1, <2>2
      <3> HIDE DEF w
      <3>3. g = w
        BY <3>1, <3>2
      <3>4. QED
        BY <3>3 DEF w
    <2>4. QED
      BY <2>3
  <1>8. f = Rhs(f)
    BY <1>7
  <1> HIDE DEF f
  <1> DEFINE P == {m \in X : f[m] = b[m]}
  <1>9. f[NULL] = 0
    BY <1>8
  <1>10. ASSUME NEW m \in X, \A q \in Sides : son[q][m] \in P \cup {NULL} PROVE m \in P
    <2>1. \A q \in Sides : f[son[q][m]] = b[son[q][m]]
      BY <1>3, <1>9, <1>10
    <2>2. ~Bad(f, m) /\ b[m] = f[son["left"][m]] + (IF IsBlack(m) THEN 1 ELSE 0)
      BY <1>6, <2>1
    <2>3. f[m] = Rhs(f)[m]
      BY <1>8
    <2>4. Rhs(f)[m] = b[m]
      BY <1>2, <1>4, <2>2
    <2>5. QED
      BY <2>3, <2>4
  <1>11. X \subseteq P
    <2> HIDE DEF P
    <2>1. Rules(son, red, s, b, X)
      BY <1>3, <1>5 DEF Rules
    <2>2. Inherited(son, X, P)
      BY <1>10 DEF Inherited
    <2>3. QED
      BY <1>4, <2>1, <2>2, TreeInduction
  <1>12. QED
    BY <1>1, <1>3, <1>9, <1>11

-----------------------------------------------------------------------------
(* The calls that have not returned.                                       *)

To(so, place) == so[place.side][place.node]

\* Call i works on the tree of the nodes X[i]; the pointer to it is a member
\* of the root of the tree of call i - 1, and the nodes Y[i] are below the
\* other son of that root.  The nodes X[i] are to have H[i] black ones on every
\* path.
CallAt(so, R, st, X, Y, H, i) ==
    LET p == st[i].node  l == st[i].side  u == st[i - 1]
    IN  /\ p = To(so, u)
        /\ Joins(l, p, X[i], Y[i], X[i - 1])
        /\ Tree(so, R, so[Other(l)][p], Y[i], H[i])
        /\ H[i - 1] = H[i] + Weight(R, p)
        /\ p \in R => so[Other(l)][p] \notin R
        /\ u.node \in R \cup {Owner} => p \notin R

Context(so, R, st, X, Y, H) ==
    /\ st \in Seq(Places) /\ Len(st) >= 1 /\ st[1] = Top
    /\ X \in [Nat -> SUBSET Nodes] /\ Y \in [Nat -> SUBSET Nodes] /\ H \in [Nat -> Nat]
    /\ \A i \in 2 .. Len(st) : CallAt(so, R, st, X, Y, H, i)
    /\ \A i, j \in 1 .. Len(st) : i <= j => X[j] \subseteq X[i]

\* The last call and those before it.
LEMMA PlaceFacts ==
    ASSUME NEW st \in Seq(Places), Len(st) >= 1
    PROVE  /\ Last(st) = st[Len(st)] /\ Last(st) \in Places
           /\ \A i \in 1 .. Len(st) : st[i] \in Places /\ st[i].side \in Sides
                                      /\ st[i].node \in Nodes \cup {Owner}
           /\ Front(st) \in Seq(Places) /\ Len(Front(st)) = Len(st) - 1
           /\ \A i \in 1 .. Len(st) - 1 : Front(st)[i] = st[i]
  <1>1. \A i \in 1 .. Len(st) : st[i] \in Places
    OBVIOUS
  <1>2. Len(st) \in 1 .. Len(st)
    OBVIOUS
  <1>3. /\ Front(st) \in Seq(Places) /\ Len(Front(st)) = Len(st) - 1
        /\ \A i \in 1 .. Len(st) - 1 : Front(st)[i] = st[i]
    <2> DEFINE n == Len(st) - 1
    <2>1. 1 \in Int /\ n \in Int /\ \A i \in 1 .. n : st[i] \in Places
      BY <1>1
    <2>2. /\ SubSeq(st, 1, n) \in Seq(Places)
          /\ Len(SubSeq(st, 1, n)) = IF 1 <= n THEN n - 1 + 1 ELSE 0
          /\ \A i \in 1 .. n - 1 + 1 : SubSeq(st, 1, n)[i] = st[1 + i - 1]
      BY <2>1, SubSeqProperties
    <2>3. Front(st) = SubSeq(st, 1, n)
      BY DEF Front
    <2>4. n - 1 + 1 = n /\ n \in Nat /\ \A i \in 1 .. n : 1 + i - 1 = i
      OBVIOUS
    <2>5. Len(SubSeq(st, 1, n)) = n /\ \A i \in 1 .. n : SubSeq(st, 1, n)[i] = st[i]
      BY <2>2, <2>4
    <2> HIDE DEF n
    <2>6. QED
      BY <2>2, <2>3, <2>5 DEF n
  <1>4. QED
    BY <1>1, <1>2, <1>3 DEF Last, Places

\* Only the nodes D and the pointer at place change.
Elsewhere(so, R, to, Q, place, D) ==
    /\ D \subseteq Nodes
    /\ \A m \in (Nodes \cup {Owner}) \ D, q \in Sides :
           (q = place.side /\ m = place.node) \/ to[q][m] = so[q][m]
    /\ \A m \in Nodes \ D : m \in Q <=> m \in R

\* ts has the first n places of st.
FirstOf(ts, st, n) ==
    /\ ts \in Seq(Places) /\ Len(ts) = n
    /\ \A i \in 1 .. n : ts[i] = st[i]

\* The nodes W are where the n calls look for them.
Nested(st, W, Y, n) ==
    /\ W \in [Nat -> SUBSET Nodes]
    /\ \A i \in 2 .. n : Joins(st[i].side, st[i].node, W[i], Y[i], W[i - 1])
    /\ \A i, j \in 1 .. n : i <= j => W[j] \subseteq W[i]

\* The calls above one are not concerned by what it does to its nodes.
LEMMA ContextKept ==
    ASSUME NEW so \in Pointers, NEW R \in SUBSET Nodes, NEW st, NEW X, NEW Y, NEW H,
           Context(so, R, st, X, Y, H),
           NEW n \in 1 .. Len(st), NEW ts, FirstOf(ts, st, n),
           NEW to \in Pointers, NEW Q \in SUBSET Nodes, NEW D,
           Elsewhere(so, R, to, Q, st[n], D), D \cap X[1] \subseteq X[n],
           NEW W, Nested(st, W, Y, n)
    PROVE  Context(to, Q, ts, W, Y, H)
  <1>1. /\ st \in Seq(Places) /\ Len(st) \in Nat /\ Len(st) >= 1 /\ st[1] = Top
        /\ n \in Nat /\ 1 <= n /\ n <= Len(st)
    BY DEF Context
  <1>2. \A i, j \in 1 .. Len(st) : i <= j => X[j] \subseteq X[i]
    BY DEF Context
  <1>3. X \in [Nat -> SUBSET Nodes] /\ Y \in [Nat -> SUBSET Nodes] /\ H \in [Nat -> Nat]
    BY DEF Context
  <1> USE DEF Elsewhere, FirstOf, Nested
  <1>4. ASSUME NEW i \in 2 .. Len(st)
        PROVE  /\ CallAt(so, R, st, X, Y, H, i)
               /\ i \in 1 .. Len(st) /\ i - 1 \in 1 .. Len(st)
               /\ st[i].side \in Sides /\ st[i].node \in Nodes
               /\ st[i].node \in X[i - 1] /\ st[i].node \notin X[i]
               /\ Y[i] \subseteq X[i - 1] /\ Y[i] \subseteq Nodes
               /\ X[i] \cap Y[i] = {} /\ X[i - 1] \subseteq X[1]
    <2>1. CallAt(so, R, st, X, Y, H, i)
      BY DEF Context
    <2>2. i \in 1 .. Len(st) /\ i - 1 \in 1 .. Len(st) /\ 1 \in 1 .. Len(st) /\ 1 <= i - 1
      BY <1>1
    <2>3. st[i].side \in Sides
      BY <1>1, <2>2, PlaceFacts
    <2>4. Joins(st[i].side, st[i].node, X[i], Y[i], X[i - 1])
      BY <2>1 DEF CallAt
    <2>5. st[i].node \in Nodes /\ Y[i] \subseteq Nodes
      BY <2>4 DEF Joins
    <2>6. QED
      BY <1>2, <2>1, <2>2, <2>3, <2>4, <2>5, JoinsFacts
  <1>5. ASSUME NEW i \in 2 .. n PROVE CallAt(to, Q, ts, W, Y, H, i)
    <2> DEFINE p == st[i].node  l == st[i].side  u == st[i - 1]
    <2>1. /\ i \in 2 .. Len(st) /\ i \in 1 .. n /\ i - 1 \in 1 .. n /\ n \in 1 .. Len(st)
          /\ i <= n /\ i \in 1 .. Len(st) /\ i - 1 \in 1 .. Len(st)
      BY <1>1
    <2>2. /\ CallAt(so, R, st, X, Y, H, i)
          /\ l \in Sides /\ p \in Nodes /\ p \in X[i - 1] /\ p \notin X[i]
          /\ Y[i] \subseteq X[i - 1] /\ Y[i] \subseteq Nodes
          /\ X[i] \cap Y[i] = {} /\ X[i - 1] \subseteq X[1]
      BY <1>4, <2>1
    <2>3. X[n] \subseteq X[i]
      BY <1>2, <2>1
    <2>4. p \notin D /\ \A m \in Y[i] : m \notin D /\ m \in Nodes
      BY <2>2, <2>3
    <2>5. i - 1 # 1 => i - 1 \in 2 .. Len(st)
      BY <1>1
    <2>6. u.node = Owner \/ (u.node \in Nodes /\ u.node \in X[1] /\ u.node \notin X[i - 1])
      <3>1. CASE i - 1 = 1
        BY <1>1, <3>1 DEF Top, Place
      <3>2. CASE i - 1 # 1
        <4>1. i - 1 \in 2 .. Len(st)
          BY <2>5, <3>2
        <4>2. u.node \in Nodes /\ u.node \in X[(i - 1) - 1] /\ u.node \notin X[i - 1]
              /\ X[(i - 1) - 1] \subseteq X[1]
          BY <1>4, <4>1
        <4>3. QED
          BY <4>2
      <3>3. QED
        BY <3>1, <3>2
    <2>7. X[n] \subseteq X[i - 1]
      BY <1>2, <2>1
    <2>8. /\ u.node \notin D /\ u.node \in Nodes \cup {Owner}
          /\ u.node \in Q \cup {Owner} <=> u.node \in R \cup {Owner}
      BY <2>6, <2>7, NodeFacts
    <2>9. i - 1 # n
      BY <2>1
    <2>10. n \in 2 .. Len(st) /\ n - 1 \in 1 .. Len(st) /\ i - 1 <= n - 1 /\ i <= n
      BY <1>1, <2>1
    <2>11. st[n].node \in Nodes /\ st[n].node \in X[n - 1] /\ st[n].node \notin X[n]
      BY <1>4, <2>10
    <2>12. X[n - 1] \subseteq X[i - 1]
      BY <1>2, <2>1, <2>10
    <2>13. u.node # st[n].node
      BY <2>6, <2>11, <2>12, NodeFacts
    <2>14. u.side \in Sides
      BY <1>1, <2>1, PlaceFacts
    <2>15. p = To(to, u)
      <3>1. p = so[u.side][u.node]
        BY <2>2 DEF CallAt, To
      <3>2. to[u.side][u.node] = so[u.side][u.node]
        BY <2>8, <2>13, <2>14
      <3>3. QED
        BY <3>1, <3>2 DEF To
    <2>16. i # n => X[n - 1] \subseteq X[i] /\ st[n].node \notin Y[i] /\ p # st[n].node
      <3>1. i # n => i <= n - 1
        BY <2>1
      <3>2. i # n => X[n - 1] \subseteq X[i]
        BY <1>2, <2>1, <2>10, <3>1
      <3>3. QED
        BY <2>2, <2>11, <3>2
    <2>17. p \notin Y[i]
      <3>1. Joins(l, p, X[i], Y[i], X[i - 1])
        BY <2>2 DEF CallAt
      <3>2. QED
        BY <2>2, <3>1, JoinsFacts
    <2>18. st[n].node \notin Y[i]
      BY <2>16, <2>17
    <2>19. to[Other(l)][p] = so[Other(l)][p]
      <3>1. i = n => Other(l) # st[n].side
        BY <2>2, SideFacts
      <3>2. p # st[n].node \/ Other(l) # st[n].side
        BY <2>16, <3>1
      <3>3. QED
        BY <2>2, <2>4, <3>2, SideFacts
    <2>20. Tree(to, Q, to[Other(l)][p], Y[i], H[i])
      <3>1. Tree(so, R, so[Other(l)][p], Y[i], H[i])
        BY <2>2 DEF CallAt
      <3>2. \A m \in Y[i] : (m \in Q <=> m \in R) /\ \A q \in Sides : to[q][m] = so[q][m]
        BY <2>4, <2>18
      <3>3. QED
        BY <2>19, <3>1, <3>2, NodeFacts, Untouched
    <2>21. (p \in Q <=> p \in R) /\ Weight(Q, p) = Weight(R, p)
      BY <2>2, <2>4 DEF Weight
    <2>22. so[Other(l)][p] \in Y[i] \cup {NULL}
      <3>1. Tree(so, R, so[Other(l)][p], Y[i], H[i])
        BY <2>2 DEF CallAt
      <3>2. QED
        BY <3>1, TreeFacts
    <2>23. p \in Q => to[Other(l)][p] \notin Q
      BY <2>2, <2>4, <2>19, <2>21, <2>22, NodeFacts DEF CallAt
    <2>24. Joins(l, p, W[i], Y[i], W[i - 1])
      OBVIOUS
    <2>25. H[i - 1] = H[i] + Weight(Q, p) /\ (u.node \in Q \cup {Owner} => p \notin Q)
      BY <2>2, <2>8, <2>21 DEF CallAt
    <2>26. ts[i] = st[i] /\ ts[i - 1] = st[i - 1]
      BY <2>1
    <2>27. QED
      BY <2>15, <2>20, <2>23, <2>24, <2>25, <2>26 DEF CallAt
  <1>6. ts[1] = Top
    BY <1>1
  <1>7. QED
    BY <1>1, <1>3, <1>5, <1>6 DEF Context

\* What the last call knows of the one above it.
Called(so, R, st, X, Y, H, n) ==
    LET p == st[n].node  l == st[n].side  u == st[n - 1]
    IN  /\ n >= 2 /\ n \in 2 .. Len(st) /\ n - 1 \in 1 .. Len(st) /\ n - 1 \in Nat
        /\ l \in Sides /\ p \in Nodes
        /\ X[n] \in SUBSET Nodes /\ X[n - 1] \in SUBSET Nodes /\ Y[n] \in SUBSET Nodes
        /\ H[n] \in Nat /\ H[n - 1] \in Nat
        /\ p = so[u.side][u.node]
        /\ Joins(l, p, X[n], Y[n], X[n - 1])
        /\ Tree(so, R, so[Other(l)][p], Y[n], H[n])
        /\ H[n - 1] = H[n] + Weight(R, p)
        /\ p \in R => so[Other(l)][p] \notin R
        /\ u.node \in R \cup {Owner} => p \notin R
        /\ u.side \in Sides /\ u.node \in Nodes \cup {Owner}
        /\ u.node \notin X[n - 1]

\* What the last call may rely on.
LEMMA CallerFacts ==
    ASSUME NEW so \in Pointers, NEW R \in SUBSET Nodes, NEW st, NEW X, NEW Y, NEW H,
           Context(so, R, st, X, Y, H), NEW n \in Nat, n = Len(st), n # 1
    PROVE  Called(so, R, st, X, Y, H, n)
  <1>1. st \in Seq(Places) /\ Len(st) >= 1 /\ st[1] = Top
    BY DEF Context
  <1>2. n \in Nat /\ n - 1 \in Nat /\ n >= 2 /\ n \in 2 .. Len(st) /\ n - 1 \in 1 .. Len(st) /\ n \in 1 .. Len(st)
    BY <1>1
  <1>3. CallAt(so, R, st, X, Y, H, n)
    BY <1>2 DEF Context
  <1>4. /\ st[n].side \in Sides /\ st[n - 1].side \in Sides
        /\ st[n - 1].node \in Nodes \cup {Owner}
    BY <1>1, <1>2, PlaceFacts
  <1>5. st[n].node \in Nodes
    BY <1>3 DEF CallAt, Joins
  <1>6. X[n] \in SUBSET Nodes /\ X[n - 1] \in SUBSET Nodes /\ Y[n] \in SUBSET Nodes
        /\ H[n] \in Nat /\ H[n - 1] \in Nat
    BY <1>2 DEF Context
  <1>7. st[n - 1].node \notin X[n - 1]
    <2>1. CASE n - 1 = 1
      <3>1. st[n - 1] = Top
        BY <1>1, <2>1
      <3>2. QED
        BY <1>6, <3>1, NodeFacts DEF Top, Place
    <2>2. CASE n - 1 # 1
      <3>1. n - 1 \in 2 .. Len(st)
        BY <1>2, <2>2
      <3>2. CallAt(so, R, st, X, Y, H, n - 1)
        BY <3>1 DEF Context
      <3>3. Joins(st[n - 1].side, st[n - 1].node, X[n - 1], Y[n - 1], X[(n - 1) - 1])
        BY <3>2 DEF CallAt
      <3>4. QED
        BY <1>4, <3>3, JoinsFacts
    <2>3. QED
      BY <2>1, <2>2
  <1>8. QED
    BY <1>2, <1>3, <1>4, <1>5, <1>6, <1>7 DEF CallAt, To, Called

\* The call has returned to the one above it.
ReturnedTo(so, R, st, X, Y, H, n) ==
    /\ Context(so, R, Front(st), X, Y, H)
    /\ Len(Front(st)) = n - 1 /\ Front(st)[n - 1] = st[n - 1]

\* A call has returned that changed nothing outside of its tree.
LEMMA ContextReturned ==
    ASSUME NEW so \in Pointers, NEW R \in SUBSET Nodes, NEW st, NEW X, NEW Y, NEW H,
           Context(so, R, st, X, Y, H), NEW n \in Nat, n = Len(st), n # 1,
           NEW to \in Pointers, NEW Q \in SUBSET Nodes,
           Elsewhere(so, R, to, Q, st[n - 1], X[n - 1])
    PROVE  ReturnedTo(to, Q, st, X, Y, H, n)
  <1>1. n - 1 \in 1 .. Len(st) /\ n \in Nat /\ n >= 2 /\ X[n - 1] \in SUBSET Nodes
    <2>1. Called(so, R, st, X, Y, H, n)
      BY CallerFacts
    <2>2. QED
      BY <2>1 DEF Called
  <1>2. FirstOf(Front(st), st, n - 1)
    BY PlaceFacts DEF Context, FirstOf
  <1>3. X \in [Nat -> SUBSET Nodes]
    BY DEF Context
  <1>4. \A i \in 2 .. n - 1 : Joins(st[i].side, st[i].node, X[i], Y[i], X[i - 1])
    <2> SUFFICES ASSUME NEW i \in 2 .. n - 1
                 PROVE  Joins(st[i].side, st[i].node, X[i], Y[i], X[i - 1])
      OBVIOUS
    <2>1. i \in 2 .. Len(st)
      BY <1>1
    <2>2. CallAt(so, R, st, X, Y, H, i)
      BY <2>1 DEF Context
    <2>3. QED
      BY <2>2 DEF CallAt
  <1>5. \A i, j \in 1 .. n - 1 : i <= j => X[j] \subseteq X[i]
    <2> SUFFICES ASSUME NEW i \in 1 .. n - 1, NEW j \in 1 .. n - 1, i <= j
                 PROVE  X[j] \subseteq X[i]
      OBVIOUS
    <2>1. i \in 1 .. Len(st) /\ j \in 1 .. Len(st)
      BY <1>1
    <2>2. QED
      BY <2>1 DEF Context
  <1>6. Nested(st, X, Y, n - 1)
    BY <1>3, <1>4, <1>5 DEF Nested
  <1>7. Context(to, Q, Front(st), X, Y, H)
    <2>1. X[n - 1] \cap X[1] \subseteq X[n - 1]
      OBVIOUS
    <2>2. QED
      BY <1>1, <1>2, <1>6, <2>1, ContextKept
  <1>8. n - 1 \in 1 .. n - 1
    BY <1>1
  <1>9. QED
    BY <1>2, <1>7, <1>8 DEF FirstOf, ReturnedTo

\* A call may begin: its tree is a red-black search tree, with a black root
\* where the node above wants one.
Open(so, R, st, X, Y, H) ==
    LET n == Len(st)
    IN  /\ Context(so, R, st, X, Y, H)
        /\ Tree(so, R, To(so, st[n]), X[n], H[n])
        /\ st[n].node \in R \cup {Owner} => To(so, st[n]) \notin R

\* A call begins with the whole tree.
LEMMA Begun ==
    ASSUME NEW so \in Pointers, NEW R \in SUBSET Nodes, NEW Z, NEW h,
           Tree(so, R, To(so, Top), Z, h), To(so, Top) \notin R
    PROVE  \E X, Y, H : Open(so, R, <<Top>>, X, Y, H) /\ X[1] = Z
  <1> DEFINE X == [i \in Nat |-> Z]  Y == [i \in Nat |-> Z]  H == [i \in Nat |-> h]
  <1>1. Z \in SUBSET Nodes /\ h \in Nat
    BY TreeFacts
  <1>2. <<Top>> \in Seq(Places) /\ Len(<<Top>>) = 1 /\ <<Top>>[1] = Top
    BY DEF Places, Top, Place, Sides
  <1>3. X \in [Nat -> SUBSET Nodes] /\ Y \in [Nat -> SUBSET Nodes] /\ H \in [Nat -> Nat]
    BY <1>1
  <1>4. Context(so, R, <<Top>>, X, Y, H)
    BY <1>2, <1>3 DEF Context
  <1>5. X[1] = Z /\ H[1] = h
    OBVIOUS
  <1> HIDE DEF X, Y, H
  <1>6. Open(so, R, <<Top>>, X, Y, H)
    BY <1>2, <1>4, <1>5 DEF Open
  <1>7. QED
    BY <1>5, <1>6

\* After a call for the tree of t on side l the first n trees are as before.
Deeper(so, R, st, X, n, t, l) ==
    \E V, W, G :
       /\ Open(so, R, Append(st, Place(t, l)), V, W, G)
       /\ \A i \in 1 .. n : V[i] = X[i]
       /\ Joins(l, t, V[n + 1], W[n + 1], X[n])

\* A call descends into the tree below its own.
LEMMA Entered ==
    ASSUME NEW so \in Pointers, NEW R \in SUBSET Nodes, NEW st, NEW X, NEW Y, NEW H,
           Open(so, R, st, X, Y, H), NEW n \in Nat, n = Len(st),
           NEW t, t = To(so, st[n]), t # NULL, NEW l \in Sides
    PROVE  Deeper(so, R, st, X, n, t, l)
  <1> DEFINE ts == Append(st, Place(t, l))
  <1>1. /\ Context(so, R, st, X, Y, H) /\ Tree(so, R, t, X[n], H[n])
        /\ st[n].node \in R \cup {Owner} => t \notin R
    BY DEF Open
  <1>2. /\ st \in Seq(Places) /\ n >= 1 /\ st[1] = Top
        /\ X \in [Nat -> SUBSET Nodes] /\ Y \in [Nat -> SUBSET Nodes] /\ H \in [Nat -> Nat]
        /\ \A i \in 2 .. n : CallAt(so, R, st, X, Y, H, i)
        /\ \A i, j \in 1 .. n : i <= j => X[j] \subseteq X[i]
    BY <1>1 DEF Context
  <1>3. t \in R => so[l][t] \notin R /\ so[Other(l)][t] \notin R
    BY <1>1, TakeApart
  <1>4. PICK A \in SUBSET Nodes, B \in SUBSET Nodes, k \in Nat :
          /\ Joins(l, t, A, B, X[n])
          /\ Tree(so, R, so[l][t], A, k)
          /\ Tree(so, R, so[Other(l)][t], B, k)
          /\ H[n] = k + Weight(R, t)
    BY <1>1, TakeApart
  <1>5. t \in Nodes /\ A \subseteq X[n] /\ n + 1 \in Nat /\ n \in 1 .. n
    BY <1>2, <1>4, JoinsFacts DEF Joins
  <1> DEFINE V == [X EXCEPT ![n + 1] = A]
             W == [Y EXCEPT ![n + 1] = B]
             G == [H EXCEPT ![n + 1] = k]
  <1>6. /\ V \in [Nat -> SUBSET Nodes] /\ W \in [Nat -> SUBSET Nodes] /\ G \in [Nat -> Nat]
        /\ V[n + 1] = A /\ W[n + 1] = B /\ G[n + 1] = k
    BY <1>2, <1>5
  <1>7. ASSUME NEW i \in 1 .. n PROVE V[i] = X[i] /\ W[i] = Y[i] /\ G[i] = H[i]
    <2>1. i \in Nat /\ i # n + 1
      OBVIOUS
    <2>2. QED
      BY <1>2, <2>1
  <1>8. /\ ts \in Seq(Places) /\ Len(ts) = n + 1
        /\ ts[n + 1] = Place(t, l)
        /\ \A i \in 1 .. n : ts[i] = st[i]
    <2>1. Place(t, l) \in Places
      BY <1>5 DEF Places, Place
    <2>2. QED
      BY <1>2, <2>1
  <1> HIDE DEF V, W, G, ts
  <1>9. ASSUME NEW i \in 2 .. n PROVE CallAt(so, R, ts, V, W, G, i)
    <2>1. CallAt(so, R, st, X, Y, H, i)
      BY <1>2
    <2>2. i \in 1 .. n /\ i - 1 \in 1 .. n
      OBVIOUS
    <2>3. /\ ts[i] = st[i] /\ ts[i - 1] = st[i - 1] /\ V[i] = X[i] /\ V[i - 1] = X[i - 1]
          /\ W[i] = Y[i] /\ G[i] = H[i] /\ G[i - 1] = H[i - 1]
      BY <1>7, <1>8, <2>2
    <2>4. QED
      BY <2>1, <2>3 DEF CallAt
  <1>10. CallAt(so, R, ts, V, W, G, n + 1)
    <2>1. /\ ts[n + 1].node = t /\ ts[n + 1].side = l
          /\ ts[(n + 1) - 1] = st[n] /\ V[(n + 1) - 1] = X[n] /\ G[(n + 1) - 1] = H[n]
      BY <1>5, <1>7, <1>8 DEF Place
    <2>2. QED
      BY <1>1, <1>3, <1>4, <1>6, <2>1 DEF CallAt
  <1>11. \A i \in 2 .. n + 1 : CallAt(so, R, ts, V, W, G, i)
    <2> SUFFICES ASSUME NEW i \in 2 .. n + 1 PROVE CallAt(so, R, ts, V, W, G, i)
      OBVIOUS
    <2>1. i \in 2 .. n \/ i = n + 1
      OBVIOUS
    <2>2. QED
      BY <1>9, <1>10, <2>1
  <1>12. \A i, j \in 1 .. n + 1 : i <= j => V[j] \subseteq V[i]
    <2> SUFFICES ASSUME NEW i \in 1 .. n + 1, NEW j \in 1 .. n + 1, i <= j
                 PROVE  V[j] \subseteq V[i]
      OBVIOUS
    <2>1. CASE j = n + 1
      <3>1. i = n + 1 \/ (i \in 1 .. n /\ i <= n)
        OBVIOUS
      <3>2. i \in 1 .. n => V[i] = X[i] /\ X[n] \subseteq X[i]
        BY <1>2, <1>5, <1>7
      <3>3. QED
        BY <1>5, <1>6, <2>1, <3>1, <3>2
    <2>2. CASE j # n + 1
      <3>1. i \in 1 .. n /\ j \in 1 .. n
        BY <2>2
      <3>2. QED
        BY <1>2, <1>7, <3>1
    <2>3. QED
      BY <2>1, <2>2
  <1>13. ts[1] = Top /\ n + 1 >= 1
    BY <1>2, <1>5, <1>8
  <1>14. Context(so, R, ts, V, W, G)
    BY <1>6, <1>8, <1>11, <1>12, <1>13 DEF Context
  <1>15. To(so, ts[n + 1]) = so[l][t] /\ ts[n + 1].node = t
    BY <1>8 DEF To, Place
  <1>16. t # Owner
    BY <1>5, NodeFacts
  <1>17. Open(so, R, ts, V, W, G)
    BY <1>3, <1>4, <1>6, <1>8, <1>14, <1>15, <1>16 DEF Open
  <1>18. \A i \in 1 .. n : V[i] = X[i]
    BY <1>7
  <1>19. Joins(l, t, V[n + 1], W[n + 1], X[n])
    BY <1>4, <1>6
  <1>20. QED
    BY <1>17, <1>18, <1>19 DEF ts, Deeper

\* What is true of the stack whatever the colours.
Stacked(st, X, Y, H, n) ==
    /\ st \in Seq(Places) /\ FirstOf(st, st, n)
    /\ n >= 1 /\ n \in 1 .. Len(st) /\ 1 \in 1 .. n
    /\ X \in [Nat -> SUBSET Nodes] /\ Y \in [Nat -> SUBSET Nodes] /\ H \in [Nat -> Nat]
    /\ \A i \in 1 .. n : X[n] \subseteq X[i] /\ X[i] \subseteq X[1]
    /\ Nested(st, X, Y, n)
    /\ st[n].side \in Sides
    /\ st[n].node \in X[1] \cup {Owner} /\ st[n].node \notin X[n]

\* The trees of the calls are nested, and what is outside of them is not touched.
LEMMA ContextFacts ==
    ASSUME NEW so \in Pointers, NEW R \in SUBSET Nodes, NEW st, NEW X, NEW Y, NEW H,
           Context(so, R, st, X, Y, H), NEW n \in Nat, n = Len(st)
    PROVE  Stacked(st, X, Y, H, n)
  <1>1. /\ st \in Seq(Places) /\ n >= 1 /\ st[1] = Top
        /\ X \in [Nat -> SUBSET Nodes] /\ Y \in [Nat -> SUBSET Nodes] /\ H \in [Nat -> Nat]
        /\ \A i \in 2 .. n : CallAt(so, R, st, X, Y, H, i)
        /\ \A i, j \in 1 .. n : i <= j => X[j] \subseteq X[i]
    BY DEF Context
  <1>2. n \in 1 .. n /\ 1 \in 1 .. n /\ n \in 1 .. Len(st)
    BY <1>1
  <1>3. FirstOf(st, st, n)
    BY <1>1 DEF FirstOf
  <1>4. \A i \in 1 .. n : X[n] \subseteq X[i] /\ X[i] \subseteq X[1]
    <2>1. \A i, j \in 1 .. n : i <= j => X[j] \subseteq X[i]
      BY <1>1
    <2>2. \A i \in 1 .. n : 1 <= i /\ i <= n
      BY ONLY n \in Nat
    <2>3. QED
      BY ONLY <1>2, <2>1, <2>2
  <1>5. ASSUME NEW i \in 2 .. n PROVE Joins(st[i].side, st[i].node, X[i], Y[i], X[i - 1])
    BY <1>1 DEF CallAt
  <1>6. Nested(st, X, Y, n)
    BY <1>1, <1>5 DEF Nested
  <1>7. st[n].side \in Sides
    BY <1>1, <1>2, PlaceFacts
  <1>8. st[n].node \in X[1] \cup {Owner} /\ st[n].node \notin X[n]
    <2>1. CASE n = 1
      <3>1. st[n].node = Owner
        BY <1>1, <2>1 DEF Top, Place
      <3>2. X[n] \subseteq Nodes
        BY <1>1
      <3>3. QED
        BY <3>1, <3>2, NodeFacts
    <2>2. CASE n # 1
      <3>1. n \in 2 .. n /\ n - 1 \in 1 .. n
        BY ONLY <1>1, <2>2, n \in Nat
      <3>2. Joins(st[n].side, st[n].node, X[n], Y[n], X[n - 1])
        BY <1>5, <3>1
      <3>3. X[n - 1] \subseteq X[1]
        BY <1>4, <3>1
      <3>4. QED
        BY <1>7, <3>2, <3>3, JoinsFacts
    <2>3. QED
      BY <2>1, <2>2
  <1>9. QED
    BY <1>1, <1>2, <1>3, <1>4, <1>6, <1>7, <1>8 DEF Stacked

\* A node can come to where the calls look for it.
LEMMA NestedWith ==
    ASSUME NEW st, NEW X, NEW Y, NEW n \in Nat, n >= 1, Nested(st, X, Y, n), NEW e \in Nodes,
           \A i \in 2 .. n : On(st[i].side, e, st[i].node),
           NEW W, W = [i \in Nat |-> X[i] \cup {e}]
    PROVE  Nested(st, W, Y, n)
  <1>1. X \in [Nat -> SUBSET Nodes]
    BY DEF Nested
  <1>2. W \in [Nat -> SUBSET Nodes]
    BY <1>1
  <1>3. ASSUME NEW i \in 2 .. n PROVE Joins(st[i].side, st[i].node, W[i], Y[i], W[i - 1])
    <2>1. i \in Nat /\ i - 1 \in Nat
      OBVIOUS
    <2>2. W[i] = X[i] \cup {e} /\ W[i - 1] = X[i - 1] \cup {e}
      BY <2>1
    <2>3. Joins(st[i].side, st[i].node, X[i], Y[i], X[i - 1]) /\ On(st[i].side, e, st[i].node)
      BY DEF Nested
    <2>4. QED
      BY <2>2, <2>3 DEF Joins
  <1>4. \A i, j \in 1 .. n : i <= j => W[j] \subseteq W[i]
    BY DEF Nested
  <1>5. QED
    BY <1>2, <1>3, <1>4 DEF Nested

\* A node of the last call can go.
LEMMA NestedWithout ==
    ASSUME NEW st \in Seq(Places), NEW X, NEW Y, NEW n \in Nat, n >= 1, n = Len(st),
           Nested(st, X, Y, n), NEW e \in X[n],
           NEW W, W = [i \in Nat |-> X[i] \ {e}]
    PROVE  Nested(st, W, Y, n)
  <1>1. X \in [Nat -> SUBSET Nodes]
    BY DEF Nested
  <1>2. W \in [Nat -> SUBSET Nodes]
    BY <1>1
  <1>3. ASSUME NEW i \in 2 .. n PROVE Joins(st[i].side, st[i].node, W[i], Y[i], W[i - 1])
    <2>1. i \in Nat /\ i - 1 \in Nat /\ i \in 1 .. n /\ n \in 1 .. n
      OBVIOUS
    <2>2. W[i] = X[i] \ {e} /\ W[i - 1] = X[i - 1] \ {e}
      BY <2>1
    <2>3. Joins(st[i].side, st[i].node, X[i], Y[i], X[i - 1])
      BY DEF Nested
    <2>4. e \in X[i]
      BY <2>1 DEF Nested
    <2>5. st[i].side \in Sides
      BY <2>1, PlaceFacts
    <2>6. e # st[i].node /\ e \notin Y[i]
      BY <2>3, <2>4, <2>5, JoinsFacts
    <2>7. QED
      BY <2>2, <2>3, <2>6 DEF Joins
  <1>4. \A i, j \in 1 .. n : i <= j => W[j] \subseteq W[i]
    BY DEF Nested
  <1>5. QED
    BY <1>2, <1>3, <1>4 DEF Nested

-----------------------------------------------------------------------------
(* Adding and unlinking a node.                                            *)

\* Only the pointer at place changes, to x.
IsPut(so, to, place, x) ==
    /\ To(to, place) = x
    /\ \A q \in Sides, m \in Nodes \cup {Owner} :
          (q = place.side /\ m = place.node) \/ to[q][m] = so[q][m]

\* The root is red and so is one of its sons, or would be black.
Sore(so, R, n, X, h) ==
    /\ n \in Nodes /\ n \in R /\ h \in Nat
    /\ \E l \in Sides, A, B \in SUBSET Nodes :
          /\ Joins(l, n, A, B, X)
          /\ Tree(so, R, so[l][n], A, h) /\ Tree(so, R, so[Other(l)][n], B, h)
          /\ so[l][n] \in R /\ so[Other(l)][n] \notin R

\* An element was added to the tree of the last call.
Grown(so, R, st, X, Y, H) ==
    LET n == Len(st)
    IN  /\ Context(so, R, st, X, Y, H)
        /\ \/ Tree(so, R, To(so, st[n]), X[n], H[n])
           \/ /\ Sore(so, R, To(so, st[n]), X[n], H[n])
              /\ st[n].node \notin R \cup {Owner}

\* An element was taken from the tree of the last call.
Shrunk(so, R, st, X, Y, H, less) ==
    LET n == Len(st)
    IN  /\ Context(so, R, st, X, Y, H)
        /\ Tree(so, R, To(so, st[n]), X[n], H[n] - IF less THEN 1 ELSE 0)
        /\ st[n].node \in R \cup {Owner} => To(so, st[n]) \notin R

\* The new nodes are the old ones and e, without t.
GrownBy(to, Q, st, X, Y, H, e) ==
    \E W : Grown(to, Q, st, W, Y, H) /\ W[1] = X[1] \cup {e}

ShrunkBy(to, Q, st, X, Y, H, less, n, t) ==
    \E W : /\ Shrunk(to, Q, st, W, Y, H, less)
           /\ \A i \in 1 .. n : W[i] = X[i] \ {t}

\* The new element is put where the search for its place has ended.
LEMMA Linked ==
    ASSUME NEW so \in Pointers, NEW R \in SUBSET Nodes, NEW st, NEW X, NEW Y, NEW H,
           Open(so, R, st, X, Y, H), NEW n \in Nat, n = Len(st), To(so, st[n]) = NULL,
           NEW e \in Nodes, e \notin X[1], \A q \in Sides : so[q][e] = NULL,
           \A i \in 2 .. n : On(st[i].side, e, st[i].node),
           NEW to \in Pointers, IsPut(so, to, st[n], e)
    PROVE  GrownBy(to, R \cup {e}, st, X, Y, H, e)
  <1> DEFINE W == [i \in Nat |-> X[i] \cup {e}]  Q == R \cup {e}
  <1>1. Context(so, R, st, X, Y, H) /\ Tree(so, R, NULL, X[n], H[n])
    BY DEF Open
  <1>2. /\ n >= 1 /\ n \in 1 .. Len(st) /\ 1 \in 1 .. n /\ FirstOf(st, st, n)
        /\ Nested(st, X, Y, n)
        /\ st[n].side \in Sides
        /\ st[n].node \in X[1] \cup {Owner}
    <2>1. Stacked(st, X, Y, H, n)
      BY <1>1, ContextFacts
    <2>2. QED
      BY <2>1 DEF Stacked
  <1>3. X[n] = {} /\ H[n] = 0
    BY <1>1, TreeFacts
  <1>4. st[n].node # e
    BY <1>2, NodeFacts
  <1>5. Elsewhere(so, R, to, Q, st[n], {e})
    BY DEF Elsewhere, IsPut
  <1>6. {e} \cap X[1] \subseteq X[n]
    OBVIOUS
  <1>7. Nested(st, W, Y, n)
    BY <1>2, NestedWith
  <1>8. W[1] = X[1] \cup {e} /\ W[n] = {e}
    BY <1>3
  <1> HIDE DEF W
  <1>9. Q \in SUBSET Nodes /\ NULL \notin Q
    BY NodeFacts
  <1>10. Context(to, Q, st, W, Y, H)
    BY <1>1, <1>2, <1>5, <1>6, <1>7, <1>9, ContextKept
  <1>11. \A q \in Sides : to[q][e] = NULL
    BY <1>4 DEF IsPut
  <1>12. Joins("left", e, {}, {}, {e})
    BY DEF Joins
  <1>13. Tree(to, Q, e, {e}, 0 + Weight(Q, e))
    <2>1. "left" \in Sides /\ to["left"][e] = NULL /\ to[Other("left")][e] = NULL
      BY <1>11, SideFacts DEF Sides
    <2>2. Tree(to, Q, NULL, {}, 0)
      BY EmptyTree
    <2> HIDE DEF Q
    <2>3. QED
      BY <1>9, <1>12, <2>1, <2>2, PutTogether
  <1>14. Tree(to, Q, To(to, st[n]), W[n], H[n])
    BY <1>3, <1>8, <1>13 DEF IsPut, Weight
  <1>15. Grown(to, Q, st, W, Y, H)
    BY <1>10, <1>14 DEF Grown
  <1>16. QED
    BY <1>8, <1>15 DEF GrownBy

\* The root t of the tree of the last call has no son on side l and gives its
\* place to the other one.
Unlinking(so, R, st, X, Y, H, n, t, l, o, to, Q, less) ==
    /\ so \in Pointers /\ R \in SUBSET Nodes /\ Open(so, R, st, X, Y, H)
    /\ n \in Nat /\ n = Len(st)
    /\ t = To(so, st[n]) /\ t # NULL
    /\ l \in Sides /\ so[l][t] = NULL /\ o = so[Other(l)][t]
    /\ to \in Pointers /\ IsPut(so, to, st[n], o)
    /\ Q = R \ {o} /\ less \in BOOLEAN /\ (less <=> t \notin R /\ o \notin R)

\* A node with one son at most is taken out, the son takes its place.
LEMMA Unlinked ==
    ASSUME NEW so, NEW R, NEW st, NEW X, NEW Y, NEW H, NEW n, NEW t, NEW l, NEW o, NEW to,
           NEW Q, NEW less, Unlinking(so, R, st, X, Y, H, n, t, l, o, to, Q, less)
    PROVE  ShrunkBy(to, Q, st, X, Y, H, less, n, t)
  <1> DEFINE W == [i \in Nat |-> X[i] \ {t}]
  <1> USE DEF Unlinking
  <1>1. Context(so, R, st, X, Y, H) /\ Tree(so, R, t, X[n], H[n])
    BY DEF Open
  <1>2. /\ n >= 1 /\ n \in 1 .. Len(st) /\ 1 \in 1 .. n /\ FirstOf(st, st, n)
        /\ st \in Seq(Places)
        /\ Nested(st, X, Y, n)
        /\ st[n].side \in Sides
        /\ st[n].node \notin X[n]
    <2>1. Stacked(st, X, Y, H, n)
      BY <1>1, ContextFacts
    <2>2. QED
      BY <2>1 DEF Stacked
  <1>3. t \in R => o \notin R
    BY <1>1, TakeApart
  <1>4. PICK A \in SUBSET Nodes, B \in SUBSET Nodes, k \in Nat :
          /\ Joins(l, t, A, B, X[n])
          /\ Tree(so, R, NULL, A, k)
          /\ Tree(so, R, o, B, k)
          /\ H[n] = k + Weight(R, t)
    BY <1>1, TakeApart
  <1>5. A = {} /\ k = 0
    BY <1>4, TreeFacts
  <1>6. /\ t \in Nodes /\ t \in X[n] /\ t \notin B /\ B = X[n] \ {t}
        /\ X[n] \subseteq Nodes
    <2>1. t \notin B /\ X[n] \subseteq Nodes
      BY <1>4, JoinsFacts
    <2>2. QED
      BY <1>4, <1>5, <2>1 DEF Joins
  <1>7. Nested(st, W, Y, n)
    BY <1>2, <1>6, NestedWithout
  <1>8. W[n] = B /\ \A i \in 1 .. n : W[i] = X[i] \ {t}
    BY <1>6
  <1> HIDE DEF W
  <1>9. o \in B \cup {NULL}
    BY <1>4, TreeFacts
  <1>10. Elsewhere(so, R, to, Q, st[n], X[n])
    BY <1>6, <1>9, NodeFacts DEF Elsewhere, IsPut
  <1>11. Q \in SUBSET Nodes /\ NULL \notin Q /\ NULL \notin R /\ X[n] \cap X[1] \subseteq X[n]
    BY NodeFacts
  <1>12. Context(to, Q, st, W, Y, H)
    BY <1>1, <1>2, <1>7, <1>10, <1>11, ContextKept
  <1>13. \A m \in B, q \in Sides : to[q][m] = so[q][m]
    BY <1>2, <1>6 DEF IsPut
  <1>14. Tree(to, R, o, B, 0)
    BY <1>4, <1>5, <1>11, <1>13, Untouched
  <1>15. Tree(to, Q, o, B, H[n] - IF less THEN 1 ELSE 0)
    <2>1. CASE o \in R
      <3>1. Tree(to, Q, o, B, (0 - Weight(R, o)) + Weight(Q, o))
        BY <1>11, <1>14, <2>1, Repainted
      <3>2. (0 - Weight(R, o)) + Weight(Q, o) = 1
        BY <2>1 DEF Weight
      <3>3. H[n] = 1 /\ ~less
        BY <1>3, <1>4, <1>5, <2>1 DEF Weight
      <3>4. QED
        BY <3>1, <3>2, <3>3
    <2>2. CASE o \notin R
      <3>1. Q = R
        BY <2>2
      <3>2. H[n] - (IF less THEN 1 ELSE 0) = 0
        BY <1>4, <1>5, <2>2 DEF Weight
      <3>3. QED
        BY <1>14, <3>1, <3>2
    <2>3. QED
      BY <2>1, <2>2
  <1>16. To(to, st[n]) = o /\ o \notin Q
    BY DEF IsPut
  <1>17. Shrunk(to, Q, st, W, Y, H, less)
    BY <1>8, <1>12, <1>15, <1>16 DEF Shrunk
  <1>18. QED
    BY <1>6, <1>8, <1>17 DEF ShrunkBy

-----------------------------------------------------------------------------
(* Repairing a tree.  a is the root of Z, b its son on side l.             *)

\* Among the nodes Z, Rotate(a, l) and nothing else changed links.
IsRotated(so, to, a, l, Z) ==
    LET b == so[l][a]  r == Other(l)
    IN  /\ to[l][a] = so[r][b] /\ to[r][b] = a
        /\ \A q \in Sides, m \in Z :
              (q = l /\ m = a) \/ (q = r /\ m = b) \/ to[q][m] = so[q][m]

\* Among the nodes Z, Lift(a, p, l) and nothing else changed links.
IsLifted(so, to, a, p, l, Z) ==
    LET b == so[l][a]  r == Other(l)  d == so[r][p]
    IN  /\ to[r][p] = so[l][d] /\ to[l][a] = so[r][d]
        /\ to[l][d] = b /\ to[r][d] = a
        /\ \A q \in Sides, m \in Z :
              (q = r /\ m = p) \/ (q = l /\ m = a) \/ m = d \/ to[q][m] = so[q][m]

\* Below a red root with a red son.
LEMMA SorePieces ==
    ASSUME NEW so, NEW R, NEW b, NEW X, NEW h, Sore(so, R, b, X, h),
           NEW q \in Sides, so[q][b] \in R
    PROVE  /\ so[Other(q)][b] \notin R
           /\ \E A, B \in SUBSET Nodes :
                 /\ Joins(q, b, A, B, X)
                 /\ Tree(so, R, so[q][b], A, h) /\ Tree(so, R, so[Other(q)][b], B, h)
  <1>1. PICK l \in Sides, A \in SUBSET Nodes, B \in SUBSET Nodes :
          /\ Joins(l, b, A, B, X)
          /\ Tree(so, R, so[l][b], A, h) /\ Tree(so, R, so[Other(l)][b], B, h)
          /\ so[l][b] \in R /\ so[Other(l)][b] \notin R
    BY DEF Sore
  <1>2. q = l
    BY <1>1, SideFacts
  <1>3. QED
    BY <1>1, <1>2

\* FIX_INSERTION_DISCREPANCY repairs a tree by repainting it,
LEMMA RepairRecolour ==
    ASSUME NEW so \in Pointers, NEW R \in SUBSET Nodes, NEW l \in Sides,
           NEW a, NEW b, NEW c, NEW XB, NEW C, NEW Z, NEW h,
           b = so[l][a], c = so[Other(l)][a],
           Joins(l, a, XB, C, Z), Sore(so, R, b, XB, h), Tree(so, R, c, C, h),
           a \notin R, c \in R, NEW Q, Q = (R \cup {a}) \ {b, c}
    PROVE  Tree(so, Q, a, Z, h + 1)
  <1>1. PICK q \in Sides, A \in SUBSET Nodes, B \in SUBSET Nodes :
          /\ Joins(q, b, A, B, XB)
          /\ Tree(so, R, so[q][b], A, h) /\ Tree(so, R, so[Other(q)][b], B, h)
    BY DEF Sore
  <1>2. a \in Nodes /\ b \in R /\ b \in Nodes /\ NULL \notin R /\ NULL \notin Q /\ h \in Nat
    BY NodeFacts DEF Joins, Sore
  <1>3. a \notin XB /\ a \notin C /\ XB \cap C = {}
    BY JoinsFacts
  <1>4. b \notin A /\ b \notin B /\ b \in XB /\ A \subseteq XB /\ B \subseteq XB
    BY <1>1, JoinsFacts
  <1>5. c \in C /\ c # NULL
    BY <1>2, TreeFacts
  <1>6. Tree(so, Q, so[q][b], A, h) /\ Tree(so, Q, so[Other(q)][b], B, h)
    <2>1. \A m \in A \cup B : m \in Q <=> m \in R
      BY <1>3, <1>4, <1>5
    <2>2. QED
      BY <1>1, <1>2, <2>1, Untouched
  <1>7. Tree(so, Q, b, XB, h + Weight(Q, b))
    <2>1. b \notin Q
      OBVIOUS
    <2>2. QED
      BY <1>1, <1>2, <1>6, <2>1, PutTogether
  <1>8. Tree(so, Q, c, C, (h - Weight(R, c)) + Weight(Q, c))
    <2>1. \A m \in C \ {c} : m \in Q <=> m \in R
      BY <1>3, <1>4, <1>5
    <2>2. c \notin Q
      OBVIOUS
    <2>3. QED
      BY <1>2, <1>5, <2>1, <2>2, Repainted
  <1>9. Tree(so, Q, b, XB, h + 1) /\ Tree(so, Q, c, C, h + 1) /\ Weight(Q, a) = 0 /\ a \in Q
    <2>1. h + Weight(Q, b) = h + 1 /\ (h - Weight(R, c)) + Weight(Q, c) = h + 1
      BY <1>2 DEF Weight
    <2>2. a \in Q
      BY <1>3, <1>4, <1>5
    <2>3. QED
      BY <1>7, <1>8, <2>1, <2>2 DEF Weight
  <1>10. Tree(so, Q, a, Z, (h + 1) + Weight(Q, a))
    <2>1. h + 1 \in Nat /\ b \notin Q /\ c \notin Q
      BY <1>2
    <2>2. QED
      BY <1>2, <1>9, <2>1, PutTogether
  <1>11. QED
    BY <1>2, <1>9, <1>10

\* by a rotation,
LEMMA RepairRotate ==
    ASSUME NEW so \in Pointers, NEW R \in SUBSET Nodes, NEW l \in Sides,
           NEW a, NEW b, NEW XB, NEW C, NEW Z, NEW h,
           b = so[l][a],
           Joins(l, a, XB, C, Z), Sore(so, R, b, XB, h), Tree(so, R, so[Other(l)][a], C, h),
           a \notin R, so[Other(l)][a] \notin R, so[l][b] \in R,
           NEW Q, Q = (R \cup {a}) \ {b},
           NEW to \in Pointers, IsRotated(so, to, a, l, Z)
    PROVE  Tree(to, Q, b, Z, h + 1)
  <1>1. /\ so[Other(l)][b] \notin R
        /\ \E A, B \in SUBSET Nodes :
              /\ Joins(l, b, A, B, XB)
              /\ Tree(so, R, so[l][b], A, h) /\ Tree(so, R, so[Other(l)][b], B, h)
    BY SorePieces
  <1>2. PICK A \in SUBSET Nodes, B \in SUBSET Nodes :
          /\ Joins(l, b, A, B, XB)
          /\ Tree(so, R, so[l][b], A, h) /\ Tree(so, R, so[Other(l)][b], B, h)
    BY <1>1
  <1>3. a \in Nodes /\ b \in R /\ b \in Nodes /\ NULL \notin R /\ NULL \notin Q /\ h \in Nat
    BY NodeFacts DEF Joins, Sore
  <1>4. /\ a \notin XB /\ a \notin C /\ XB \cap C = {} /\ a \in Z /\ XB \subseteq Z /\ C \subseteq Z
    BY JoinsFacts
  <1>5. b \notin A /\ b \notin B /\ b \in XB /\ A \subseteq XB /\ B \subseteq XB
    BY <1>2, JoinsFacts
  <1>6. \A m \in A \cup B \cup C : /\ m \in Q <=> m \in R
                                 /\ \A q \in Sides : to[q][m] = so[q][m]
    BY <1>4, <1>5 DEF IsRotated
  <1>7. /\ Tree(to, Q, so[l][b], A, h) /\ Tree(to, Q, so[Other(l)][b], B, h)
        /\ Tree(to, Q, so[Other(l)][a], C, h)
    BY <1>2, <1>3, <1>6, Untouched
  <1>8. /\ to[l][b] = so[l][b] /\ to[l][a] = so[Other(l)][b] /\ to[Other(l)][b] = a
        /\ to[Other(l)][a] = so[Other(l)][a]
    BY <1>4, <1>5, SideFacts DEF IsRotated
  <1>9. /\ to[l][a] \notin Q /\ to[Other(l)][a] \notin Q /\ b \notin Q
    <2>1. so[Other(l)][b] \in B \cup {NULL} /\ so[Other(l)][a] \in C \cup {NULL}
      BY <1>2, TreeFacts
    <2>2. QED
      BY <1>1, <1>3, <1>6, <1>8, <2>1
  <1>10. h = h + Weight(Q, a) /\ h + Weight(Q, b) = h + 1
    BY <1>3, <1>4, <1>5 DEF Weight
  <1>11. Tree(to, Q, b, Z, h + Weight(Q, b))
    BY <1>2, <1>3, <1>7, <1>8, <1>9, <1>10, Rotated
  <1>12. QED
    BY <1>10, <1>11

\* or by a double rotation.
LEMMA RepairLift ==
    ASSUME NEW so \in Pointers, NEW R \in SUBSET Nodes, NEW l \in Sides,
           NEW a, NEW b, NEW d, NEW XB, NEW C, NEW Z, NEW h,
           b = so[l][a], d = so[Other(l)][b],
           Joins(l, a, XB, C, Z), Sore(so, R, b, XB, h), Tree(so, R, so[Other(l)][a], C, h),
           a \notin R, so[Other(l)][a] \notin R, d \in R,
           NEW Q, Q = (R \cup {a}) \ {d},
           NEW to \in Pointers, IsLifted(so, to, a, b, l, Z)
    PROVE  Tree(to, Q, d, Z, h + 1)
  <1>1. /\ so[l][b] \notin R
        /\ \E A, B \in SUBSET Nodes :
              /\ Joins(Other(l), b, A, B, XB)
              /\ Tree(so, R, d, A, h) /\ Tree(so, R, so[l][b], B, h)
    BY SorePieces, SideFacts
  <1>2. PICK XD \in SUBSET Nodes, A \in SUBSET Nodes :
          /\ Joins(Other(l), b, XD, A, XB)
          /\ Tree(so, R, d, XD, h) /\ Tree(so, R, so[l][b], A, h)
    BY <1>1
  <1>3. /\ a \in Nodes /\ b \in R /\ b \in Nodes /\ NULL \notin R /\ NULL \notin Q /\ h \in Nat
        /\ d # NULL /\ d \in Nodes
    BY NodeFacts DEF Joins, Sore
  <1>4. so[l][d] \notin R /\ so[Other(l)][d] \notin R
    BY <1>2, <1>3, TakeApart
  <1>5. PICK D1 \in SUBSET Nodes, D2 \in SUBSET Nodes :
          /\ Joins(l, d, D1, D2, XD)
          /\ Tree(so, R, so[l][d], D1, h)
          /\ Tree(so, R, so[Other(l)][d], D2, h)
    BY ONLY so \in Pointers, l \in Sides, d \in R, <1>2, <1>3, BelowRed
  <1>6. Joins(l, b, A, XD, XB)
    BY <1>2, SideFacts, JoinsFacts
  <1>7. /\ a \notin XB /\ a \notin C /\ XB \cap C = {} /\ a \in Z /\ XB \subseteq Z /\ C \subseteq Z
        /\ b \notin A /\ b \notin XD /\ b \in XB /\ A \subseteq XB /\ XD \subseteq XB /\ A \cap XD = {}
        /\ d \notin D1 /\ d \notin D2 /\ d \in XD /\ D1 \subseteq XD /\ D2 \subseteq XD
    <2>1. l \in Sides /\ Joins(l, a, XB, C, Z) /\ Joins(l, b, A, XD, XB) /\ Joins(l, d, D1, D2, XD)
      BY <1>5, <1>6
    <2>2. QED
      BY ONLY <2>1, JoinsFacts
  <1>8. \A m \in A \cup D1 \cup D2 \cup C : /\ m \in Q <=> m \in R
                                       /\ \A q \in Sides : to[q][m] = so[q][m]
    <2> SUFFICES ASSUME NEW m \in A \cup D1 \cup D2 \cup C
                 PROVE  (m \in Q <=> m \in R) /\ \A q \in Sides : to[q][m] = so[q][m]
      OBVIOUS
    <2>1. m # a /\ m # b /\ m # d /\ m \in Z
      BY <1>7
    <2>2. QED
      BY <2>1 DEF IsLifted
  <1>9. /\ Tree(to, Q, so[l][b], A, h) /\ Tree(to, Q, so[Other(l)][a], C, h)
        /\ Tree(to, Q, so[l][d], D1, h) /\ Tree(to, Q, so[Other(l)][d], D2, h)
    <2>1. Tree(so, R, so[Other(l)][a], C, h)
      OBVIOUS
    <2>2. Tree(to, Q, so[l][b], A, h)
      BY ONLY <1>2, <1>3, <1>8, Untouched
    <2>3. Tree(to, Q, so[Other(l)][a], C, h)
      BY ONLY <1>3, <1>8, <2>1, Untouched
    <2>4. Tree(to, Q, so[l][d], D1, h)
      BY ONLY <1>3, <1>5, <1>8, Untouched
    <2>5. Tree(to, Q, so[Other(l)][d], D2, h)
      BY ONLY <1>3, <1>5, <1>8, Untouched
    <2>6. QED
      BY <2>2, <2>3, <2>4, <2>5
  <1>10. a # b /\ a # d /\ b # d /\ b \in Z /\ a \in Z
    BY <1>7
  <1>11. /\ to[l][b] = so[l][b] /\ to[Other(l)][b] = so[l][d]
         /\ to[l][a] = so[Other(l)][d] /\ to[Other(l)][a] = so[Other(l)][a]
         /\ to[l][d] = b /\ to[Other(l)][d] = a
    BY <1>10, SideFacts DEF IsLifted
  <1>12. /\ so[l][b] \in A \cup {NULL} /\ so[Other(l)][a] \in C \cup {NULL}
         /\ so[l][d] \in D1 \cup {NULL} /\ so[Other(l)][d] \in D2 \cup {NULL}
    BY <1>2, <1>5, TreeFacts
  <1>13. /\ to[l][a] \notin Q /\ to[Other(l)][a] \notin Q
         /\ to[l][b] \notin Q /\ to[Other(l)][b] \notin Q
    <2>1. \A m \in A \cup D1 \cup D2 \cup C \cup {NULL} : m \in Q => m \in R
      BY ONLY <1>3, <1>8
    <2>2. so[Other(l)][a] \notin R
      OBVIOUS
    <2>3. /\ so[l][b] \notin Q /\ so[Other(l)][a] \notin Q
          /\ so[l][d] \notin Q /\ so[Other(l)][d] \notin Q
      BY ONLY <1>1, <1>4, <1>12, <2>1, <2>2
    <2>4. QED
      BY ONLY <1>11, <2>3
  <1>14. h = h + Weight(Q, a) /\ h = h + Weight(Q, b) /\ h + Weight(Q, d) = h + 1 /\ d \notin Q
    BY <1>3, <1>10 DEF Weight
  <1>15. Tree(to, Q, d, Z, h + Weight(Q, d))
    <2>1. /\ Tree(to, Q, to[l][b], A, h) /\ Tree(to, Q, to[Other(l)][b], D1, h)
          /\ Tree(to, Q, to[l][a], D2, h) /\ Tree(to, Q, to[Other(l)][a], C, h)
      BY <1>9, <1>11
    <2>2. Joins(l, a, XB, C, Z) /\ Joins(l, b, A, XD, XB) /\ Joins(l, d, D1, D2, XD)
      BY <1>5, <1>6
    <2>3. /\ a \in Q => to[l][a] \notin Q /\ to[Other(l)][a] \notin Q
          /\ b \in Q => to[l][b] \notin Q /\ to[Other(l)][b] \notin Q
          /\ d \in Q => a \notin Q /\ b \notin Q
      BY <1>13, <1>14
    <2>4. NULL \notin Q /\ h \in Nat /\ h = h + Weight(Q, a) /\ h = h + Weight(Q, b)
      BY <1>3, <1>14
    <2>5. to[l][d] = b /\ to[Other(l)][d] = a
      BY <1>11
    <2>6. to \in Pointers /\ l \in Sides
      OBVIOUS
    <2>7. QED
      BY ONLY <2>1, <2>2, <2>3, <2>4, <2>5, <2>6, LiftedSon
  <1>16. QED
    BY <1>14, <1>15

\* The tree C of a on the side opposite of l lacks a black node that the tree XB
\* of its brother b has; c is the inner son of b.
Lacking(so, R, l, a, b, c, XB, C, Z, k) ==
    /\ so \in Pointers /\ R \in SUBSET Nodes /\ l \in Sides /\ k \in Nat
    /\ b = so[l][a] /\ c = so[Other(l)][b] /\ b # NULL
    /\ Joins(l, a, XB, C, Z)
    /\ Tree(so, R, b, XB, k + 1) /\ Tree(so, R, so[Other(l)][a], C, k)

\* The brother b is red, the sons of its inner son c are black.
LEMMA RepairBelowRed1 ==
    ASSUME NEW so, NEW R, NEW l,
           NEW a, NEW b, NEW c, NEW XB, NEW C, NEW Z, NEW k,
           Lacking(so, R, l, a, b, c, XB, C, Z, k),
           b \in R, a \notin R, so[l][c] \notin R, so[Other(l)][c] \notin R,
           NEW Q, Q = (R \cup ({c} \ {NULL})) \ {b},
           NEW to \in Pointers, IsRotated(so, to, a, l, Z)
    PROVE  c # NULL /\ c \notin R /\ Tree(to, Q, b, Z, k + 2)
  <1>0. /\ so \in Pointers /\ R \in SUBSET Nodes /\ l \in Sides /\ k \in Nat
        /\ b = so[l][a] /\ c = so[Other(l)][b] /\ b # NULL
        /\ Joins(l, a, XB, C, Z)
        /\ Tree(so, R, b, XB, k + 1) /\ Tree(so, R, so[Other(l)][a], C, k)
    BY DEF Lacking
  <1> USE <1>0
  <1>1. PICK A \in SUBSET Nodes, XC \in SUBSET Nodes :
          /\ Joins(l, b, A, XC, XB)
          /\ Tree(so, R, so[l][b], A, k + 1) /\ Tree(so, R, c, XC, k + 1)
    BY ONLY <1>0, b \in R, BelowRed
  <1>2. c \notin R /\ so[l][b] \notin R
    BY TakeApart
  <1>3. c # NULL /\ c \in Nodes /\ c \in XC
    BY <1>1, TreeFacts
  <1>4. a \in Nodes /\ b \in Nodes /\ NULL \notin R /\ NULL \notin Q
    BY <1>3, NodeFacts DEF Joins
  <1>5. /\ a \notin XB /\ a \notin C /\ XB \cap C = {} /\ a \in Z /\ XB \subseteq Z /\ C \subseteq Z
        /\ b \notin A /\ b \notin XC /\ b \in XB /\ A \subseteq XB /\ XC \subseteq XB /\ A \cap XC = {}
    BY <1>1, JoinsFacts
  <1>6. \A m \in A \cup XC \cup C : \A q \in Sides : to[q][m] = so[q][m]
    BY <1>5 DEF IsRotated
  <1>7. \A m \in A \cup C : m \in Q <=> m \in R
    BY <1>3, <1>5
  <1>8. Tree(to, Q, so[l][b], A, k + 1) /\ Tree(to, Q, so[Other(l)][a], C, k)
    <2>1. \A m \in A \cup C : (m \in Q <=> m \in R) /\ \A q \in Sides : to[q][m] = so[q][m]
      BY ONLY <1>6, <1>7
    <2>2. Tree(to, Q, so[l][b], A, k + 1)
      BY ONLY <1>1, <1>4, <2>1, Untouched
    <2>3. Tree(to, Q, so[Other(l)][a], C, k)
      BY ONLY <1>0, <1>4, <2>1, Untouched
    <2>4. QED
      BY <2>2, <2>3
  <1>9. Tree(to, Q, c, XC, k)
    <2>1. Tree(so, Q, c, XC, ((k + 1) - Weight(R, c)) + Weight(Q, c))
      <3>1. \A m \in XC \ {c} : m \in Q <=> m \in R
        BY <1>5
      <3>2. \A q \in Sides : so[q][c] \notin R
        BY SideFacts
      <3>3. QED
        BY <1>1, <1>3, <1>4, <3>1, <3>2, Repainted
    <2>2. ((k + 1) - Weight(R, c)) + Weight(Q, c) = k
      BY <1>2, <1>3, <1>5 DEF Weight
    <2>3. \A m \in XC : (m \in Q <=> m \in Q) /\ \A q \in Sides : to[q][m] = so[q][m]
      BY ONLY <1>6
    <2>4. QED
      BY ONLY <1>4, <2>1, <2>2, <2>3, Untouched
  <1>10. /\ to[l][b] = so[l][b] /\ to[l][a] = c /\ to[Other(l)][b] = a
         /\ to[Other(l)][a] = so[Other(l)][a]
    BY <1>5, SideFacts DEF IsRotated
  <1>11. a \notin Q /\ b \notin Q /\ k + 1 = k + Weight(Q, a) /\ (k + 1) + Weight(Q, b) = k + 2
    BY <1>3, <1>5 DEF Weight
  <1>12. Tree(to, Q, b, Z, (k + 1) + Weight(Q, b))
    <2>1. /\ Tree(to, Q, to[l][b], A, k + 1) /\ Tree(to, Q, to[l][a], XC, k)
          /\ Tree(to, Q, to[Other(l)][a], C, k)
      BY <1>8, <1>9, <1>10
    <2>2. k + 1 \in Nat
      OBVIOUS
    <2>3. QED
      BY <1>1, <1>4, <1>10, <1>11, <2>1, <2>2, Rotated
  <1>13. QED
    BY <1>2, <1>3, <1>11, <1>12

\* The inner son d of c is red.
LEMMA RepairBelowRed2 ==
    ASSUME NEW so, NEW R, NEW l,
           NEW a, NEW b, NEW c, NEW XB, NEW C, NEW Z, NEW k,
           Lacking(so, R, l, a, b, c, XB, C, Z, k),
           b \in R, a \notin R, c # NULL,
           NEW d, d = so[Other(l)][c], d \in R,
           NEW Q, Q = R \ {d},
           NEW to \in Pointers, IsLifted(so, to, a, c, l, Z)
    PROVE  c \notin R /\ Tree(to, Q, d, Z, k + 2)
  <1>0. /\ so \in Pointers /\ R \in SUBSET Nodes /\ l \in Sides /\ k \in Nat
        /\ b = so[l][a] /\ c = so[Other(l)][b] /\ b # NULL
        /\ Joins(l, a, XB, C, Z)
        /\ Tree(so, R, b, XB, k + 1) /\ Tree(so, R, so[Other(l)][a], C, k)
    BY DEF Lacking
  <1> USE <1>0
  <1>1. PICK A \in SUBSET Nodes, XC \in SUBSET Nodes :
          /\ Joins(l, b, A, XC, XB)
          /\ Tree(so, R, so[l][b], A, k + 1) /\ Tree(so, R, c, XC, k + 1)
    BY ONLY <1>0, b \in R, BelowRed
  <1>2. c \notin R /\ so[l][b] \notin R
    BY TakeApart
  <1>3. PICK E \in SUBSET Nodes, XD \in SUBSET Nodes :
          /\ Joins(l, c, E, XD, XC)
          /\ Tree(so, R, so[l][c], E, k) /\ Tree(so, R, d, XD, k)
    BY ONLY <1>0, <1>1, <1>2, c # NULL, d = so[Other(l)][c], BelowBlack
  <1>4. /\ a \in Nodes /\ b \in Nodes /\ c \in Nodes /\ d \in Nodes /\ d # NULL
        /\ NULL \notin R /\ NULL \notin Q
    BY <1>1, <1>3, NodeFacts DEF Joins
  <1>5. so[l][d] \notin R /\ so[Other(l)][d] \notin R
    BY <1>3, <1>4, TakeApart
  <1>6. PICK D1 \in SUBSET Nodes, D2 \in SUBSET Nodes :
          /\ Joins(l, d, D1, D2, XD)
          /\ Tree(so, R, so[l][d], D1, k) /\ Tree(so, R, so[Other(l)][d], D2, k)
    BY ONLY <1>0, <1>3, <1>4, d \in R, BelowRed
  <1>7. /\ a \notin XB /\ a \notin C /\ XB \cap C = {} /\ a \in Z /\ XB \subseteq Z /\ C \subseteq Z
        /\ b \notin A /\ b \notin XC /\ b \in XB /\ A \subseteq XB /\ XC \subseteq XB /\ A \cap XC = {}
        /\ c \notin E /\ c \notin XD /\ c \in XC /\ E \subseteq XC /\ XD \subseteq XC /\ E \cap XD = {}
        /\ d \notin D1 /\ d \notin D2 /\ d \in XD /\ D1 \subseteq XD /\ D2 \subseteq XD
    <2>1. /\ a \notin XB /\ a \notin C /\ XB \cap C = {} /\ a \in Z /\ XB \subseteq Z /\ C \subseteq Z
      BY ONLY <1>0, JoinsFacts
    <2>2. /\ b \notin A /\ b \notin XC /\ b \in XB /\ A \subseteq XB /\ XC \subseteq XB /\ A \cap XC = {}
      BY ONLY <1>0, <1>1, JoinsFacts
    <2>3. /\ c \notin E /\ c \notin XD /\ c \in XC /\ E \subseteq XC /\ XD \subseteq XC /\ E \cap XD = {}
      BY ONLY <1>0, <1>3, JoinsFacts
    <2>4. /\ d \notin D1 /\ d \notin D2 /\ d \in XD /\ D1 \subseteq XD /\ D2 \subseteq XD
      BY ONLY <1>0, <1>6, JoinsFacts
    <2>5. QED
      BY <2>1, <2>2, <2>3, <2>4
  <1>8. ASSUME NEW m \in A \cup E \cup D1 \cup D2 \cup C
        PROVE  (m \in Q <=> m \in R) /\ \A q \in Sides : to[q][m] = so[q][m]
    <2>1. m # a /\ m # c /\ m # d /\ m \in Z
      BY <1>7
    <2>2. QED
      BY <2>1 DEF IsLifted
  <1>9. /\ Tree(to, Q, so[l][b], A, k + 1) /\ Tree(to, Q, so[Other(l)][a], C, k)
        /\ Tree(to, Q, so[l][c], E, k)
        /\ Tree(to, Q, so[l][d], D1, k) /\ Tree(to, Q, so[Other(l)][d], D2, k)
    <2>1. NULL \notin R /\ NULL \notin Q
      BY <1>4
    <2>2. \A m \in A \cup E \cup D1 \cup D2 \cup C :
             (m \in Q <=> m \in R) /\ \A q \in Sides : to[q][m] = so[q][m]
      BY <1>8
    <2>3. Tree(to, Q, so[l][b], A, k + 1)
      BY ONLY <1>1, <2>1, <2>2, Untouched
    <2>4. Tree(to, Q, so[Other(l)][a], C, k)
      BY ONLY <1>0, <2>1, <2>2, Untouched
    <2>5. Tree(to, Q, so[l][c], E, k)
      BY ONLY <1>3, <2>1, <2>2, Untouched
    <2>6. Tree(to, Q, so[l][d], D1, k)
      BY ONLY <1>6, <2>1, <2>2, Untouched
    <2>7. Tree(to, Q, so[Other(l)][d], D2, k)
      BY ONLY <1>6, <2>1, <2>2, Untouched
    <2>8. QED
      BY <2>3, <2>4, <2>5, <2>6, <2>7
  <1>10. a # b /\ a # c /\ a # d /\ b # c /\ b # d /\ c # d /\ {a, b, c, d} \subseteq Z
    BY <1>7
  <1>11. /\ to[l][b] = so[l][b] /\ to[Other(l)][b] = c
         /\ to[l][c] = so[l][c] /\ to[Other(l)][c] = so[l][d]
         /\ to[l][a] = so[Other(l)][d] /\ to[Other(l)][a] = so[Other(l)][a]
         /\ to[l][d] = b /\ to[Other(l)][d] = a
    BY <1>10, SideFacts DEF IsLifted
  <1>12. a \notin Q /\ c \notin Q /\ d \notin Q /\ b \in Q /\ so[l][b] \notin Q
    BY <1>2, <1>10
  <1>13. /\ k + 1 = k + Weight(Q, c) /\ k + 1 = (k + 1) + Weight(Q, b)
         /\ k + 1 = k + Weight(Q, a) /\ (k + 1) + Weight(Q, d) = k + 2
    BY ONLY <1>0, <1>12 DEF Weight
  <1>14. Tree(to, Q, d, Z, (k + 1) + Weight(Q, d))
    <2>1. /\ Tree(to, Q, to[l][c], E, k) /\ Tree(to, Q, to[Other(l)][c], D1, k)
          /\ Tree(to, Q, to[l][b], A, k + 1) /\ to[Other(l)][b] = c
          /\ Tree(to, Q, to[l][a], D2, k) /\ Tree(to, Q, to[Other(l)][a], C, k)
          /\ to[l][d] = b /\ to[Other(l)][d] = a
      BY <1>9, <1>11
    <2>2. /\ a \in Q => to[l][a] \notin Q /\ to[Other(l)][a] \notin Q
          /\ c \in Q => to[l][c] \notin Q /\ to[Other(l)][c] \notin Q
          /\ b \in Q => to[l][b] \notin Q /\ c \notin Q
          /\ d \in Q => a \notin Q /\ b \notin Q
      BY <1>11, <1>12
    <2>3. k + 1 \in Nat
      OBVIOUS
    <2>4. /\ Joins(l, a, XB, C, Z) /\ Joins(l, b, A, XC, XB)
          /\ Joins(l, c, E, XD, XC) /\ Joins(l, d, D1, D2, XD)
          /\ to \in Pointers /\ NULL \notin Q /\ l \in Sides /\ k \in Nat
      BY <1>1, <1>3, <1>4, <1>6
    <2>5. QED
      BY ONLY <1>13, <2>1, <2>2, <2>3, <2>4, LiftedGrandson
  <1>15. QED
    BY <1>2, <1>13, <1>14

\* Only the outer son of c is red.
LEMMA RepairBelowRed3 ==
    ASSUME NEW so, NEW R, NEW l,
           NEW a, NEW b, NEW c, NEW XB, NEW C, NEW Z, NEW k,
           Lacking(so, R, l, a, b, c, XB, C, Z, k),
           b \in R, a \notin R, c # NULL,
           so[l][c] \in R, so[Other(l)][c] \notin R,
           NEW Q, Q = R \ {so[l][c]},
           NEW to \in Pointers, IsLifted(so, to, a, b, l, Z)
    PROVE  c \notin R /\ Tree(to, Q, c, Z, k + 2)
  <1>0. /\ so \in Pointers /\ R \in SUBSET Nodes /\ l \in Sides /\ k \in Nat
        /\ b = so[l][a] /\ c = so[Other(l)][b] /\ b # NULL
        /\ Joins(l, a, XB, C, Z)
        /\ Tree(so, R, b, XB, k + 1) /\ Tree(so, R, so[Other(l)][a], C, k)
    BY DEF Lacking
  <1> USE <1>0
  <1> DEFINE e == so[l][c]
  <1>1. PICK A \in SUBSET Nodes, XC \in SUBSET Nodes :
          /\ Joins(l, b, A, XC, XB)
          /\ Tree(so, R, so[l][b], A, k + 1) /\ Tree(so, R, c, XC, k + 1)
    BY ONLY <1>0, b \in R, BelowRed
  <1>2. c \notin R /\ so[l][b] \notin R
    BY TakeApart
  <1>3. PICK D1 \in SUBSET Nodes, D2 \in SUBSET Nodes :
          /\ Joins(l, c, D1, D2, XC)
          /\ Tree(so, R, e, D1, k) /\ Tree(so, R, so[Other(l)][c], D2, k)
    BY ONLY <1>0, <1>1, <1>2, c # NULL, BelowBlack
  <1>4. /\ a \in Nodes /\ b \in Nodes /\ c \in Nodes /\ e \in Nodes /\ e # NULL /\ e \in D1
        /\ NULL \notin R /\ NULL \notin Q
    <2>1. NULL \notin R /\ e # NULL
      BY NodeFacts
    <2>2. QED
      BY <1>1, <1>3, <2>1, TreeFacts DEF Joins
  <1>6. Joins(l, c, D1, D2, XC)
    BY <1>3
  <1>7. /\ a \notin XB /\ a \notin C /\ XB \cap C = {} /\ a \in Z /\ XB \subseteq Z /\ C \subseteq Z
        /\ b \notin A /\ b \notin XC /\ b \in XB /\ A \subseteq XB /\ XC \subseteq XB /\ A \cap XC = {}
        /\ c \notin D1 /\ c \notin D2 /\ c \in XC /\ D1 \subseteq XC /\ D2 \subseteq XC
        /\ D1 \cap D2 = {}
    <2>1. /\ a \notin XB /\ a \notin C /\ XB \cap C = {} /\ a \in Z /\ XB \subseteq Z /\ C \subseteq Z
      BY ONLY <1>0, JoinsFacts
    <2>2. /\ b \notin A /\ b \notin XC /\ b \in XB /\ A \subseteq XB /\ XC \subseteq XB /\ A \cap XC = {}
      BY ONLY <1>0, <1>1, JoinsFacts
    <2>3. /\ c \notin D1 /\ c \notin D2 /\ c \in XC /\ D1 \subseteq XC /\ D2 \subseteq XC
          /\ D1 \cap D2 = {}
      BY ONLY <1>0, <1>6, JoinsFacts
    <2>4. QED
      BY <2>1, <2>2, <2>3
  <1>8. ASSUME NEW m \in A \cup D1 \cup D2 \cup C
        PROVE  m # a /\ m # b /\ m # c /\ \A q \in Sides : to[q][m] = so[q][m]
    <2>1. m # a /\ m # b /\ m # c /\ m \in Z
      BY <1>7
    <2>2. QED
      BY <2>1 DEF IsLifted
  <1>9. a # b /\ a # c /\ b # c /\ {a, b, c} \subseteq Z
    BY <1>7
  <1>10. /\ to[l][b] = so[l][b] /\ to[Other(l)][b] = so[l][c]
         /\ to[l][a] = so[Other(l)][c] /\ to[Other(l)][a] = so[Other(l)][a]
         /\ to[l][c] = b /\ to[Other(l)][c] = a
    BY <1>9, SideFacts DEF IsLifted
  <1>11. \A m \in A \cup D2 \cup C : m \in Q <=> m \in R
    BY <1>4, <1>7
  <1>12. Tree(so, Q, e, D1, (k - Weight(R, e)) + Weight(Q, e))
    BY <1>3, <1>4, Repainted
  <1>13. Tree(so, Q, e, D1, k + 1)
    <2>1. (k - Weight(R, e)) + Weight(Q, e) = k + 1
      BY DEF Weight
    <2>2. QED
      BY <1>12, <2>1
  <1>14. /\ Tree(to, Q, so[l][b], A, k + 1) /\ Tree(to, Q, so[Other(l)][a], C, k)
         /\ Tree(to, Q, e, D1, k + 1) /\ Tree(to, Q, so[Other(l)][c], D2, k)
    <2>1. NULL \notin R /\ NULL \notin Q
      BY <1>4
    <2>2. \A m \in A \cup D2 \cup C : (m \in Q <=> m \in R) /\ \A q \in Sides : to[q][m] = so[q][m]
      BY <1>8, <1>11
    <2>3. \A m \in D1 : (m \in Q <=> m \in Q) /\ \A q \in Sides : to[q][m] = so[q][m]
      BY <1>8
    <2>4. Tree(so, R, so[l][b], A, k + 1) /\ Tree(so, R, so[Other(l)][a], C, k)
          /\ Tree(so, R, so[Other(l)][c], D2, k)
      BY <1>1, <1>3
    <2>5. Tree(to, Q, e, D1, k + 1)
      BY ONLY <1>13, <2>1, <2>3, Untouched
    <2>6. Tree(to, Q, so[l][b], A, k + 1)
      BY ONLY <2>1, <2>2, <2>4, Untouched
    <2>7. Tree(to, Q, so[Other(l)][a], C, k)
      BY ONLY <2>1, <2>2, <2>4, Untouched
    <2>8. Tree(to, Q, so[Other(l)][c], D2, k)
      BY ONLY <2>1, <2>2, <2>4, Untouched
    <2>9. QED
      BY <2>5, <2>6, <2>7, <2>8
  <1>15. a \notin Q /\ c \notin Q /\ b \in Q /\ so[l][b] \notin Q /\ so[l][c] \notin Q
    BY <1>2, <1>4, <1>7
  <1>16. /\ k + 1 = (k + 1) + Weight(Q, b)
         /\ k + 1 = k + Weight(Q, a) /\ (k + 1) + Weight(Q, c) = k + 2
    BY ONLY <1>0, <1>15 DEF Weight
  <1>17. Tree(to, Q, c, Z, (k + 1) + Weight(Q, c))
    <2>1. /\ Tree(to, Q, to[l][b], A, k + 1) /\ Tree(to, Q, to[Other(l)][b], D1, k + 1)
          /\ Tree(to, Q, to[l][a], D2, k) /\ Tree(to, Q, to[Other(l)][a], C, k)
          /\ to[l][c] = b /\ to[Other(l)][c] = a
      BY <1>10, <1>14
    <2>2. /\ a \in Q => to[l][a] \notin Q /\ to[Other(l)][a] \notin Q
          /\ b \in Q => to[l][b] \notin Q /\ to[Other(l)][b] \notin Q
          /\ c \in Q => a \notin Q /\ b \notin Q
      BY <1>10, <1>15
    <2>3. k + 1 \in Nat
      OBVIOUS
    <2>4. /\ Joins(l, a, XB, C, Z) /\ Joins(l, b, A, XC, XB) /\ Joins(l, c, D1, D2, XC)
          /\ to \in Pointers /\ NULL \notin Q /\ l \in Sides /\ k \in Nat
      BY <1>1, <1>3, <1>4
    <2>5. QED
      BY ONLY <1>16, <2>1, <2>2, <2>3, <2>4, LiftedOverRed
  <1>18. QED
    BY <1>2, <1>16, <1>17

\* The brother b and its sons are black.
LEMMA RepairBelowBlack1 ==
    ASSUME NEW so, NEW R, NEW l,
           NEW a, NEW b, NEW c, NEW XB, NEW C, NEW Z, NEW k,
           Lacking(so, R, l, a, b, c, XB, C, Z, k),
           b \notin R, so[l][b] \notin R, c \notin R,
           NEW Q, Q = (R \cup {b}) \ {a}
    PROVE  Tree(so, Q, a, Z, k + 1)
  <1>0. /\ so \in Pointers /\ R \in SUBSET Nodes /\ l \in Sides /\ k \in Nat
        /\ b = so[l][a] /\ c = so[Other(l)][b] /\ b # NULL
        /\ Joins(l, a, XB, C, Z)
        /\ Tree(so, R, b, XB, k + 1) /\ Tree(so, R, so[Other(l)][a], C, k)
    BY DEF Lacking
  <1> USE <1>0
  <1>1. a \in Nodes /\ b \in Nodes /\ b \in XB /\ NULL \notin R /\ NULL \notin Q
    BY TreeFacts, NodeFacts DEF Joins
  <1>2. /\ a \notin XB /\ a \notin C /\ XB \cap C = {}
    BY JoinsFacts
  <1>3. Tree(so, Q, b, XB, ((k + 1) - Weight(R, b)) + Weight(Q, b))
    <2>1. \A m \in XB \ {b} : m \in Q <=> m \in R
      BY <1>2
    <2>2. \A q \in Sides : so[q][b] \notin R
      BY SideFacts
    <2>3. QED
      BY <1>1, <2>1, <2>2, Repainted
  <1>4. ((k + 1) - Weight(R, b)) + Weight(Q, b) = k /\ k + Weight(Q, a) = k + 1
    BY <1>1, <1>2 DEF Weight
  <1>5. Tree(so, Q, so[Other(l)][a], C, k)
    BY <1>1, <1>2, Untouched
  <1>6. Tree(so, Q, a, Z, k + Weight(Q, a))
    BY <1>1, <1>3, <1>4, <1>5, PutTogether
  <1>7. QED
    BY <1>4, <1>6

\* Of the sons of the black brother b the outer one is red.
LEMMA RepairBelowBlack2 ==
    ASSUME NEW so, NEW R, NEW l,
           NEW a, NEW b, NEW c, NEW XB, NEW C, NEW Z, NEW k,
           Lacking(so, R, l, a, b, c, XB, C, Z, k),
           b \notin R, NEW e, e = so[l][b], e \in R, c \notin R,
           NEW Q, Q = IF a \in R THEN (R \cup {b}) \ {a, e} ELSE R \ {a, e, b},
           NEW to \in Pointers, IsRotated(so, to, a, l, Z)
    PROVE  Tree(to, Q, b, Z, (k + 1) + Weight(R, a))
  <1>0. /\ so \in Pointers /\ R \in SUBSET Nodes /\ l \in Sides /\ k \in Nat
        /\ b = so[l][a] /\ c = so[Other(l)][b] /\ b # NULL
        /\ Joins(l, a, XB, C, Z)
        /\ Tree(so, R, b, XB, k + 1) /\ Tree(so, R, so[Other(l)][a], C, k)
    BY DEF Lacking
  <1> USE <1>0
  <1>1. PICK A \in SUBSET Nodes, XC \in SUBSET Nodes :
          /\ Joins(l, b, A, XC, XB)
          /\ Tree(so, R, so[l][b], A, k) /\ Tree(so, R, c, XC, k)
    BY ONLY <1>0, b \notin R, BelowBlack
  <1>4. /\ a \in Nodes /\ b \in Nodes /\ NULL \notin R /\ NULL \notin Q
        /\ e \in Nodes /\ e # NULL /\ e \in A
    <2>1. NULL \notin R /\ e # NULL
      BY NodeFacts
    <2>2. QED
      BY <1>1, <2>1, TreeFacts DEF Joins
  <1>5. /\ a \notin XB /\ a \notin C /\ XB \cap C = {} /\ a \in Z /\ XB \subseteq Z /\ C \subseteq Z
        /\ b \notin A /\ b \notin XC /\ b \in XB /\ A \subseteq XB /\ XC \subseteq XB /\ A \cap XC = {}
    BY <1>1, JoinsFacts
  <1>6. \A m \in A \cup XC \cup C : \A q \in Sides : to[q][m] = so[q][m]
    BY <1>5 DEF IsRotated
  <1>7. \A m \in XC \cup C : m \in Q <=> m \in R
    BY <1>4, <1>5
  <1>8. Tree(to, Q, c, XC, k) /\ Tree(to, Q, so[Other(l)][a], C, k)
    BY <1>1, <1>4, <1>6, <1>7, Untouched
  <1>9. Tree(to, Q, e, A, k + 1)
    <2>1. Tree(so, Q, e, A, (k - Weight(R, e)) + Weight(Q, e))
      <3>1. (\A m \in A \ {e} : m \in Q <=> m \in R) /\ e \notin Q
        BY <1>5
      <3>2. QED
        BY <1>1, <1>4, <3>1, Repainted
    <2>2. (k - Weight(R, e)) + Weight(Q, e) = k + 1
      BY DEF Weight
    <2>3. QED
      BY <1>4, <1>6, <2>1, <2>2, Untouched
  <1>10. /\ to[l][b] = e /\ to[l][a] = c /\ to[Other(l)][b] = a
         /\ to[Other(l)][a] = so[Other(l)][a]
    BY <1>5, SideFacts DEF IsRotated
  <1>11. a \notin Q /\ e \notin Q /\ k + 1 = k + Weight(Q, a) /\ Weight(Q, b) = Weight(R, a)
    BY <1>4, <1>5 DEF Weight
  <1>12. Tree(to, Q, b, Z, (k + 1) + Weight(Q, b))
    <2>1. /\ Tree(to, Q, to[l][b], A, k + 1) /\ Tree(to, Q, to[l][a], XC, k)
          /\ Tree(to, Q, to[Other(l)][a], C, k)
      BY <1>8, <1>9, <1>10
    <2>2. k + 1 \in Nat
      OBVIOUS
    <2>3. b \in Q => to[l][b] \notin Q /\ a \notin Q
      BY <1>10, <1>11
    <2> HIDE DEF IsRotated
    <2>4. QED
      BY <1>1, <1>4, <1>10, <1>11, <2>1, <2>2, <2>3, Rotated
  <1>13. QED
    BY <1>11, <1>12

\* The inner son c of the black brother b is red.
LEMMA RepairBelowBlack3 ==
    ASSUME NEW so, NEW R, NEW l,
           NEW a, NEW b, NEW c, NEW XB, NEW C, NEW Z, NEW k,
           Lacking(so, R, l, a, b, c, XB, C, Z, k),
           b \notin R, c \in R,
           NEW Q, Q = IF a \in R THEN (R \cup {c}) \ {a} ELSE R \ {a, c},
           NEW to \in Pointers, IsLifted(so, to, a, b, l, Z)
    PROVE  Tree(to, Q, c, Z, (k + 1) + Weight(R, a))
  <1>0. /\ so \in Pointers /\ R \in SUBSET Nodes /\ l \in Sides /\ k \in Nat
        /\ b = so[l][a] /\ c = so[Other(l)][b] /\ b # NULL
        /\ Joins(l, a, XB, C, Z)
        /\ Tree(so, R, b, XB, k + 1) /\ Tree(so, R, so[Other(l)][a], C, k)
    BY DEF Lacking
  <1> USE <1>0
  <1>1. PICK A \in SUBSET Nodes, XC \in SUBSET Nodes :
          /\ Joins(l, b, A, XC, XB)
          /\ Tree(so, R, so[l][b], A, k) /\ Tree(so, R, c, XC, k)
    BY ONLY <1>0, b \notin R, BelowBlack
  <1>2. /\ a \in Nodes /\ b \in Nodes /\ NULL \notin R /\ NULL \notin Q
        /\ c \in Nodes /\ c # NULL
    BY NodeFacts, TreeFacts DEF Joins
  <1>3. so[l][c] \notin R /\ so[Other(l)][c] \notin R
    BY <1>1, <1>2, TakeApart
  <1>6. PICK D1 \in SUBSET Nodes, D2 \in SUBSET Nodes :
          /\ Joins(l, c, D1, D2, XC)
          /\ Tree(so, R, so[l][c], D1, k) /\ Tree(so, R, so[Other(l)][c], D2, k)
    BY ONLY <1>0, <1>1, <1>2, c \in R, BelowRed
  <1>7. /\ a \notin XB /\ a \notin C /\ XB \cap C = {} /\ a \in Z /\ XB \subseteq Z /\ C \subseteq Z
        /\ b \notin A /\ b \notin XC /\ b \in XB /\ A \subseteq XB /\ XC \subseteq XB /\ A \cap XC = {}
        /\ c \notin D1 /\ c \notin D2 /\ c \in XC /\ D1 \subseteq XC /\ D2 \subseteq XC
        /\ D1 \cap D2 = {}
    <2>1. /\ a \notin XB /\ a \notin C /\ XB \cap C = {} /\ a \in Z /\ XB \subseteq Z /\ C \subseteq Z
      BY ONLY <1>0, JoinsFacts
    <2>2. /\ b \notin A /\ b \notin XC /\ b \in XB /\ A \subseteq XB /\ XC \subseteq XB /\ A \cap XC = {}
      BY ONLY <1>0, <1>1, JoinsFacts
    <2>3. /\ c \notin D1 /\ c \notin D2 /\ c \in XC /\ D1 \subseteq XC /\ D2 \subseteq XC
          /\ D1 \cap D2 = {}
      BY ONLY <1>0, <1>6, JoinsFacts
    <2>4. QED
      BY <2>1, <2>2, <2>3
  <1>8. ASSUME NEW m \in A \cup D1 \cup D2 \cup C
        PROVE  m # a /\ m # b /\ m # c /\ \A q \in Sides : to[q][m] = so[q][m]
    <2>1. m # a /\ m # b /\ m # c /\ m \in Z
      BY <1>7
    <2>2. QED
      BY <2>1 DEF IsLifted
  <1>9. a # b /\ a # c /\ b # c /\ {a, b, c} \subseteq Z
    BY <1>7
  <1>10. /\ to[l][b] = so[l][b] /\ to[Other(l)][b] = so[l][c]
         /\ to[l][a] = so[Other(l)][c] /\ to[Other(l)][a] = so[Other(l)][a]
         /\ to[l][c] = b /\ to[Other(l)][c] = a
    BY <1>9, SideFacts DEF IsLifted
  <1>11. \A m \in A \cup D1 \cup D2 \cup C : m \in Q <=> m \in R
    BY <1>8
  <1>12. /\ Tree(to, Q, so[l][b], A, k) /\ Tree(to, Q, so[Other(l)][a], C, k)
         /\ Tree(to, Q, so[l][c], D1, k) /\ Tree(to, Q, so[Other(l)][c], D2, k)
    <2>1. NULL \notin R /\ NULL \notin Q
      BY <1>2
    <2>2. \A m \in A \cup D1 \cup D2 \cup C : (m \in Q <=> m \in R) /\ \A q \in Sides : to[q][m] = so[q][m]
      BY <1>8, <1>11
    <2>3. Tree(so, R, so[l][b], A, k) /\ Tree(so, R, so[Other(l)][a], C, k)
          /\ Tree(so, R, so[l][c], D1, k) /\ Tree(so, R, so[Other(l)][c], D2, k)
      BY <1>1, <1>6
    <2>4. Tree(to, Q, so[l][b], A, k)
      BY ONLY <2>1, <2>2, <2>3, Untouched
    <2>5. Tree(to, Q, so[Other(l)][a], C, k)
      BY ONLY <2>1, <2>2, <2>3, Untouched
    <2>6. Tree(to, Q, so[l][c], D1, k)
      BY ONLY <2>1, <2>2, <2>3, Untouched
    <2>7. Tree(to, Q, so[Other(l)][c], D2, k)
      BY ONLY <2>1, <2>2, <2>3, Untouched
    <2>8. QED
      BY <2>4, <2>5, <2>6, <2>7
  <1>13. a \notin Q /\ b \notin Q
    BY <1>9
  <1>14. /\ k + 1 = k + Weight(Q, b) /\ k + 1 = k + Weight(Q, a) /\ Weight(Q, c) = Weight(R, a)
    BY <1>9, <1>13 DEF Weight
  <1>15. Tree(to, Q, c, Z, (k + 1) + Weight(Q, c))
    <2>1. /\ Tree(to, Q, to[l][b], A, k) /\ Tree(to, Q, to[Other(l)][b], D1, k)
          /\ Tree(to, Q, to[l][a], D2, k) /\ Tree(to, Q, to[Other(l)][a], C, k)
          /\ to[l][c] = b /\ to[Other(l)][c] = a
      BY <1>10, <1>12
    <2>2. k + 1 \in Nat
      OBVIOUS
    <2> HIDE DEF IsLifted
    <2>3. QED
      BY <1>1, <1>2, <1>6, <1>13, <1>14, <2>1, <2>2, LiftedSon
  <1>16. QED
    BY <1>14, <1>15
=============================================================================
