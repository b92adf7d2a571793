----------------------------- MODULE RBTreeProof ------------------------------
(*****************************************************************************)
(* Theorems about the trees of RBTree, for any nodes and any keys: they obey *)
(* the red-black rules between two calls, no assertion of sglib.h fails, and *)
(* they implement the abstract Dictionary.                                  *)
(*                                                                          *)
(* The invariant says for each stage of a call what the tree is: a standing *)
(* one, one whose last call is about to change it, one that has grown below *)
(* the last call, or one that has shrunk there.                             *)
(*****************************************************************************)
EXTENDS RBTreeLemmas

-----------------------------------------------------------------------------
(* What the assignments of sglib.h do to the links.                        *)

\* An assignment to a pointer changes that one.
LEMMA PutIs ==
    ASSUME NEW so \in Pointers, NEW place \in Places, NEW x \in Nodes \cup {NULL}
    PROVE  Put(so, place, x) \in Pointers /\ IsPut(so, Put(so, place, x), place, x)
  <1> DEFINE l == place.side  a == place.node  to == [so EXCEPT ![l][a] = x]
  <1>1. l \in Sides /\ a \in Nodes \cup {Owner}
    BY DEF Places
  <1>2. Put(so, place, x) = to
    BY DEF Put
  <1> HIDE DEF l, a
  <1>a. to = [so EXCEPT ![l][a] = x]
    OBVIOUS
  <1> HIDE DEF to
  <1>3. /\ to \in Pointers /\ to[l][a] = x
        /\ \A q \in Sides, m \in Nodes \cup {Owner} : (q = l /\ m = a) \/ to[q][m] = so[q][m]
    BY <1>1, <1>a DEF Pointers
  <1>4. QED
    BY <1>2, <1>3 DEF IsPut, To, l, a

\* One pointer is set.
IsSet(so, to, q, n, v) == to = [so EXCEPT ![q][n] = v]
OnlySet(so, to, q, n, v) ==
    /\ to \in Pointers /\ to[q][n] = v
    /\ \A s \in Sides, m \in Nodes \cup {Owner} : (s = q /\ m = n) \/ to[s][m] = so[s][m]

\* The others are left alone.
LEMMA PointerSet ==
    ASSUME NEW so \in Pointers, NEW q \in Sides, NEW n \in Nodes \cup {Owner},
           NEW v \in Nodes \cup {NULL}, NEW to, IsSet(so, to, q, n, v)
    PROVE  OnlySet(so, to, q, n, v)
  <1> DEFINE Row == [Nodes \cup {Owner} -> Nodes \cup {NULL}]
             row == [so[q] EXCEPT ![n] = v]
  <1>1. so \in [Sides -> Row] /\ so[q] \in Row
    BY DEF Pointers
  <1>2. /\ row \in Row /\ row[n] = v
        /\ \A m \in Nodes \cup {Owner} : m = n \/ row[m] = so[q][m]
    BY <1>1
  <1>3. to = [so EXCEPT ![q] = row]
    BY DEF IsSet
  <1> HIDE DEF row, Row
  <1>4. /\ to \in [Sides -> Row] /\ to[q] = row
        /\ \A s \in Sides : s = q \/ to[s] = so[s]
    BY ONLY <1>1, <1>2, <1>3, q \in Sides
  <1>5. to \in Pointers
    BY ONLY <1>4 DEF Row, Pointers
  <1>6. QED
    BY ONLY <1>2, <1>4, <1>5 DEF OnlySet

\* Only nodes of Z change their colour.
Repaints(R, Q, Z) == \A m \in Nodes \ Z : m \in Q <=> m \in R

\* A rotation changes the links of two nodes and the pointer to them.
LEMMA RotateIs ==
    ASSUME son \in Pointers, NEW a \in Nodes, NEW l \in Sides,
           NEW b \in Nodes, b = son[l][a], a # b,
           NEW u \in Places, NEW Z \in SUBSET Nodes, a \in Z, b \in Z, u.node \notin Z,
           NEW R, NEW Q, Repaints(R, Q, Z),
           NEW to, to = Put(Rotate(a, l), u, b)
    PROVE  /\ to \in Pointers /\ IsRotated(son, to, a, l, Z) /\ To(to, u) = b
           /\ Elsewhere(son, R, to, Q, u, Z)
  <1> DEFINE r == Other(l)
             s1 == [son EXCEPT ![l][a] = son[r][b]]
             s2 == [s1 EXCEPT ![r][b] = a]
  <1>1. r \in Sides /\ r # l /\ son[r][b] \in Nodes \cup {NULL}
    BY SideFacts DEF Pointers
  <1>2. /\ s1 \in Pointers /\ s1[l][a] = son[r][b]
        /\ \A q \in Sides, m \in Nodes \cup {Owner} : (q = l /\ m = a) \/ s1[q][m] = son[q][m]
    <2>1. IsSet(son, s1, l, a, son[r][b])
      BY DEF IsSet
    <2>2. /\ son \in Pointers /\ l \in Sides /\ a \in Nodes \cup {Owner}
          /\ son[r][b] \in Nodes \cup {NULL}
      BY <1>1
    <2> HIDE DEF s1
    <2>3. OnlySet(son, s1, l, a, son[r][b])
      BY ONLY <2>1, <2>2, PointerSet
    <2>4. QED
      BY ONLY <2>3 DEF OnlySet
  <1> HIDE DEF s1
  <1>3. /\ s2 \in Pointers /\ s2[r][b] = a
        /\ \A q \in Sides, m \in Nodes \cup {Owner} : (q = r /\ m = b) \/ s2[q][m] = s1[q][m]
    <2>1. IsSet(s1, s2, r, b, a)
      BY DEF IsSet
    <2>2. /\ s1 \in Pointers /\ r \in Sides /\ b \in Nodes \cup {Owner}
          /\ a \in Nodes \cup {NULL}
      BY <1>1, <1>2
    <2> HIDE DEF s2
    <2>3. OnlySet(s1, s2, r, b, a)
      BY ONLY <2>1, <2>2, PointerSet
    <2>4. QED
      BY ONLY <2>3 DEF OnlySet
  <1>4. Rotate(a, l) = s2
    BY DEF Rotate, s1
  <1> HIDE DEF s2
  <1>5. to \in Pointers /\ IsPut(s2, to, u, b)
    BY <1>3, <1>4, PutIs
  <1>6. \A q \in Sides, m \in Z : to[q][m] = s2[q][m]
    BY <1>5 DEF IsPut
  <1>7. IsRotated(son, to, a, l, Z)
    BY <1>1, <1>2, <1>3, <1>6 DEF IsRotated
  <1>8. Elsewhere(son, R, to, Q, u, Z)
    BY <1>1, <1>2, <1>3, <1>5 DEF Elsewhere, IsPut, Repaints
  <1>9. QED
    BY <1>5, <1>7, <1>8 DEF IsPut

\* A double rotation changes the links of three nodes and the pointer to them.
LEMMA LiftIs ==
    ASSUME son \in Pointers, NEW a \in Nodes, NEW l \in Sides,
           NEW p \in Nodes, NEW d \in Nodes, d = son[Other(l)][p], son[l][a] \in Nodes,
           a # d, p # d, a # p,
           NEW u \in Places, NEW Z \in SUBSET Nodes, a \in Z, p \in Z, d \in Z, u.node \notin Z,
           NEW R, NEW Q, Repaints(R, Q, Z),
           NEW to, to = Put(Lift(a, p, l), u, d)
    PROVE  /\ to \in Pointers /\ IsLifted(son, to, a, p, l, Z) /\ To(to, u) = d
           /\ Elsewhere(son, R, to, Q, u, Z)
  <1> DEFINE r == Other(l)
             s1 == [son EXCEPT ![r][p] = son[l][d]]
             s2 == [s1 EXCEPT ![l][a] = son[r][d]]
             s3 == [s2 EXCEPT ![l][d] = son[l][a]]
             s4 == [s3 EXCEPT ![r][d] = a]
  <1>1. /\ r \in Sides /\ r # l
        /\ son[l][d] \in Nodes \cup {NULL} /\ son[r][d] \in Nodes \cup {NULL}
    BY SideFacts DEF Pointers
  <1>2. /\ s1 \in Pointers /\ s1[r][p] = son[l][d]
        /\ \A q \in Sides, m \in Nodes \cup {Owner} : (q = r /\ m = p) \/ s1[q][m] = son[q][m]
    <2>1. IsSet(son, s1, r, p, son[l][d])
      BY DEF IsSet
    <2>2. /\ son \in Pointers /\ r \in Sides /\ p \in Nodes \cup {Owner}
          /\ son[l][d] \in Nodes \cup {NULL}
      BY <1>1
    <2> HIDE DEF s1
    <2>3. OnlySet(son, s1, r, p, son[l][d])
      BY ONLY <2>1, <2>2, PointerSet
    <2>4. QED
      BY ONLY <2>3 DEF OnlySet
  <1> HIDE DEF s1
  <1>3. /\ s2 \in Pointers /\ s2[l][a] = son[r][d]
        /\ \A q \in Sides, m \in Nodes \cup {Owner} : (q = l /\ m = a) \/ s2[q][m] = s1[q][m]
    <2>1. IsSet(s1, s2, l, a, son[r][d])
      BY DEF IsSet
    <2>2. /\ s1 \in Pointers /\ l \in Sides /\ a \in Nodes \cup {Owner}
          /\ son[r][d] \in Nodes \cup {NULL}
      BY <1>1, <1>2
    <2> HIDE DEF s2
    <2>3. OnlySet(s1, s2, l, a, son[r][d])
      BY ONLY <2>1, <2>2, PointerSet
    <2>4. QED
      BY ONLY <2>3 DEF OnlySet
  <1> HIDE DEF s2
  <1>4. /\ s3 \in Pointers /\ s3[l][d] = son[l][a]
        /\ \A q \in Sides, m \in Nodes \cup {Owner} : (q = l /\ m = d) \/ s3[q][m] = s2[q][m]
    <2>1. IsSet(s2, s3, l, d, son[l][a])
      BY DEF IsSet
    <2>2. /\ s2 \in Pointers /\ l \in Sides /\ d \in Nodes \cup {Owner}
          /\ son[l][a] \in Nodes \cup {NULL}
      BY <1>1, <1>3
    <2> HIDE DEF s3
    <2>3. OnlySet(s2, s3, l, d, son[l][a])
      BY ONLY <2>1, <2>2, PointerSet
    <2>4. QED
      BY ONLY <2>3 DEF OnlySet
  <1> HIDE DEF s3
  <1>5. /\ s4 \in Pointers /\ s4[r][d] = a
        /\ \A q \in Sides, m \in Nodes \cup {Owner} : (q = r /\ m = d) \/ s4[q][m] = s3[q][m]
    <2>1. IsSet(s3, s4, r, d, a)
      BY DEF IsSet
    <2>2. /\ s3 \in Pointers /\ r \in Sides /\ d \in Nodes \cup {Owner}
          /\ a \in Nodes \cup {NULL}
      BY <1>1, <1>4
    <2> HIDE DEF s4
    <2>3. OnlySet(s3, s4, r, d, a)
      BY ONLY <2>1, <2>2, PointerSet
    <2>4. QED
      BY ONLY <2>3 DEF OnlySet
  <1>6. Lift(a, p, l) = s4
    BY DEF Lift, s1, s2, s3
  <1> HIDE DEF s4
  <1>7. to \in Pointers /\ IsPut(s4, to, u, d)
    BY <1>5, <1>6, PutIs
  <1>8. \A q \in Sides, m \in Z : to[q][m] = s4[q][m]
    BY <1>7 DEF IsPut
  <1>9. IsLifted(son, to, a, p, l, Z)
    <2>1. to[r][p] = son[l][d] /\ to[l][a] = son[r][d]
      BY <1>1, <1>2, <1>3, <1>4, <1>5, <1>8
    <2>2. to[l][d] = son[l][a] /\ to[r][d] = a
      BY <1>1, <1>4, <1>5, <1>8
    <2>3. \A q \in Sides, m \in Z :
              (q = r /\ m = p) \/ (q = l /\ m = a) \/ m = d \/ to[q][m] = son[q][m]
      BY <1>2, <1>3, <1>4, <1>5, <1>8
    <2>4. QED
      BY <2>1, <2>2, <2>3 DEF IsLifted
  <1>10. Elsewhere(son, R, to, Q, u, Z)
    BY <1>1, <1>2, <1>3, <1>4, <1>5, <1>7 DEF Elsewhere, IsPut, Repaints
  <1>11. QED
    BY <1>7, <1>9, <1>10 DEF IsPut

-----------------------------------------------------------------------------
(* A call returns.                                                         *)

\* One of the sons of b, the son of a on side l, is red and so is b.
Discrepancy(so, R, a, l) ==
    so[l][a] \in R /\ \E q \in Sides : so[q][so[l][a]] \in R

\* Above an element that was added there is nothing to repair.
LEMMA GrownPast ==
    ASSUME NEW so \in Pointers, NEW R \in SUBSET Nodes, NEW st, NEW X, NEW Y, NEW H,
           Grown(so, R, st, X, Y, H), NEW n \in Nat, n = Len(st), n # 1,
           NEW p, p = st[n].node, NEW l, l = st[n].side,
           p \in R \/ ~Discrepancy(so, R, p, l)
    PROVE  Grown(so, R, Front(st), X, Y, H)
  <1> DEFINE b == so[l][p]  Z == X[n - 1]
  <1>1. Context(so, R, st, X, Y, H)
    BY DEF Grown
  <1>2. Called(so, R, st, X, Y, H, n)
    BY <1>1, CallerFacts
  <1>3. /\ n - 1 \in Nat /\ l \in Sides /\ p \in Nodes
        /\ X[n] \in SUBSET Nodes /\ Z \in SUBSET Nodes /\ Y[n] \in SUBSET Nodes
        /\ H[n] \in Nat /\ H[n - 1] \in Nat
        /\ Joins(l, p, X[n], Y[n], Z)
        /\ Tree(so, R, so[Other(l)][p], Y[n], H[n])
        /\ H[n - 1] = H[n] + Weight(R, p)
        /\ p \in R => so[Other(l)][p] \notin R
        /\ p = To(so, st[n - 1])
        /\ st[n - 1].node \in R \cup {Owner} => p \notin R
    BY <1>2 DEF Called, To
  <1>4. /\ Context(so, R, Front(st), X, Y, H)
        /\ Len(Front(st)) = n - 1 /\ Front(st)[n - 1] = st[n - 1]
    <2>1. Elsewhere(so, R, so, R, st[n - 1], X[n - 1])
      BY <1>3 DEF Elsewhere
    <2>2. ReturnedTo(so, R, st, X, Y, H, n)
      BY <1>1, <2>1, ContextReturned
    <2>3. QED
      BY <2>2 DEF ReturnedTo
  <1>5. NULL \notin R /\ To(so, st[n]) = b
    BY NodeFacts DEF To
  <1>6. Tree(so, R, b, X[n], H[n])
    <2>1. SUFFICES ASSUME Sore(so, R, b, X[n], H[n]), p \notin R PROVE FALSE
      BY <1>5 DEF Grown
    <2>2. b \in R /\ \E q \in Sides : so[q][b] \in R
      BY <2>1 DEF Sore
    <2>3. QED
      BY <2>1, <2>2 DEF Discrepancy
  <1>7. CASE p \in R /\ b \in R
    <2>1. H[n - 1] = H[n]
      BY <1>3, <1>7 DEF Weight
    <2>2. Sore(so, R, p, Z, H[n - 1])
      BY <1>3, <1>6, <1>7, <2>1 DEF Sore
    <2>3. QED
      BY <1>3, <1>4, <1>7, <2>2 DEF Grown
  <1>8. CASE p \notin R \/ b \notin R
    <2>1. Tree(so, R, p, Z, H[n] + Weight(R, p))
      BY <1>3, <1>5, <1>6, <1>8, PutTogether
    <2>2. QED
      BY <1>3, <1>4, <2>1 DEF Grown
  <1>9. QED
    BY <1>7, <1>8

\* What FIX_INSERTION_DISCREPANCY finds below the black node p.
Repairing(so, R, st, X, Y, H, n, p, l, u) ==
    /\ u \in Places /\ u.node \notin X[n - 1] /\ p = To(so, u)
    /\ l \in Sides /\ p \in Nodes /\ H[n] \in Nat /\ H[n - 1] \in Nat
    /\ X[n - 1] \in SUBSET Nodes /\ X[n] \subseteq X[n - 1] /\ Y[n] \subseteq X[n - 1]
    /\ p \in X[n - 1]
    /\ Joins(l, p, X[n], Y[n], X[n - 1])
    /\ Tree(so, R, so[Other(l)][p], Y[n], H[n])
    /\ Sore(so, R, so[l][p], X[n], H[n]) /\ H[n - 1] = H[n] + 1

\* Where FIX_INSERTION_DISCREPANCY has something to repair.
LEMMA SoreBelow ==
    ASSUME NEW so \in Pointers, NEW R \in SUBSET Nodes, NEW st, NEW X, NEW Y, NEW H,
           Grown(so, R, st, X, Y, H), NEW n \in Nat, n = Len(st), n # 1,
           NEW p, p = st[n].node, NEW l, l = st[n].side, NEW u, u = st[n - 1],
           p \notin R, Discrepancy(so, R, p, l)
    PROVE  Repairing(so, R, st, X, Y, H, n, p, l, u)
  <1> DEFINE b == so[l][p]
  <1>1. Context(so, R, st, X, Y, H)
    BY DEF Grown
  <1>2. Called(so, R, st, X, Y, H, n)
    BY <1>1, CallerFacts
  <1>3. Sore(so, R, b, X[n], H[n])
    <2>1. SUFFICES ASSUME Tree(so, R, b, X[n], H[n]) PROVE FALSE
      BY DEF Grown, To
    <2>2. PICK q \in Sides : so[q][b] \in R
      BY DEF Discrepancy
    <2>3. b \in R /\ b # NULL
      BY NodeFacts DEF Discrepancy
    <2>4. QED
      BY <2>1, <2>2, <2>3, TakeApart
  <1>4. H[n - 1] = H[n] + 1
    BY <1>2 DEF Called, Weight
  <1>5. u \in Places
    <2>1. st \in Seq(Places) /\ n - 1 \in 1 .. Len(st)
      BY <1>1, <1>2 DEF Context, Called
    <2>2. QED
      BY <2>1
  <1>6. l \in Sides /\ Joins(l, p, X[n], Y[n], X[n - 1])
    BY <1>2 DEF Called
  <1>7. X[n] \subseteq X[n - 1] /\ Y[n] \subseteq X[n - 1] /\ p \in X[n - 1]
    BY <1>6, JoinsFacts
  <1>8. QED
    BY <1>2, <1>3, <1>4, <1>5, <1>6, <1>7 DEF Called, Repairing, To

\* The tree of the outer call was repaired.
LEMMA GrownRepaired ==
    ASSUME NEW so \in Pointers, NEW R \in SUBSET Nodes, NEW st, NEW X, NEW Y, NEW H,
           Grown(so, R, st, X, Y, H), NEW n \in Nat, n = Len(st), n # 1,
           NEW u, u = st[n - 1], NEW to \in Pointers, NEW Q \in SUBSET Nodes,
           Elsewhere(so, R, to, Q, u, X[n - 1]),
           Tree(to, Q, To(to, u), X[n - 1], H[n - 1])
    PROVE  Grown(to, Q, Front(st), X, Y, H)
  <1>1. Context(so, R, st, X, Y, H)
    BY DEF Grown
  <1>2. /\ Context(to, Q, Front(st), X, Y, H)
        /\ Len(Front(st)) = n - 1 /\ Front(st)[n - 1] = st[n - 1]
    <2>1. ReturnedTo(to, Q, st, X, Y, H, n)
      BY <1>1, ContextReturned
    <2>2. QED
      BY <2>1 DEF ReturnedTo
  <1>3. QED
    BY <1>2 DEF Grown

\* The call at work is the last one, and its tree is the one that is repaired
\* at the pointer that the call before it has.
LEMMA CallingIsLast ==
    ASSUME NEW X, NEW Y, NEW H, Context(son, red, stack, X, Y, H),
           NEW n \in Nat, n = Len(stack)
    PROVE  /\ Calling = stack[n] /\ n >= 1
           /\ Calling # Top => n # 1
           /\ n # 1 => Last(Front(stack)) = stack[n - 1]
           /\ n = 1 => Calling = Top
  <1>1. stack \in Seq(Places) /\ n >= 1 /\ stack[1] = Top
    BY DEF Context
  <1>2. Calling = stack[n]
    BY DEF Calling, Last
  <1>3. ASSUME n # 1 PROVE Last(Front(stack)) = stack[n - 1]
    <2>1. /\ Front(stack) \in Seq(Places) /\ Len(Front(stack)) = n - 1
          /\ \A i \in 1 .. n - 1 : Front(stack)[i] = stack[i]
      BY <1>1, PlaceFacts
    <2>2. n - 1 \in 1 .. n - 1
      BY <1>1, <1>3
    <2>3. QED
      BY <2>1, <2>2 DEF Last
  <1>4. QED
    BY <1>1, <1>2, <1>3

\* What FIX_INSERTION_DISCREPANCY makes of the tree of p.
LEMMA InsertionFixed ==
    ASSUME son \in Pointers, red \in SUBSET Nodes, NEW X, NEW Y, NEW H,
           Grown(son, red, stack, X, Y, H), NEW n \in Nat, n = Len(stack), n # 1,
           NEW p, p = stack[n].node, NEW l, l = stack[n].side, NEW u, u = stack[n - 1],
           u = Last(Front(stack)),
           p \notin red, Discrepancy(son, red, p, l), FixInsertion(p, l)
    PROVE  /\ son' \in Pointers /\ red' \in SUBSET Nodes
           /\ Elsewhere(son, red, son', red', u, X[n - 1])
           /\ Tree(son', red', To(son', u), X[n - 1], H[n - 1])
  <1> DEFINE r == Other(l)  b == son[l][p]  c == son[r][p]  d == son[r][b]
             Z == X[n - 1]  h == H[n]
  <1>0. Repairing(son, red, stack, X, Y, H, n, p, l, u)
    BY SoreBelow
  <1>1. Sore(son, red, b, X[n], h) /\ H[n - 1] = h + 1
    BY <1>0 DEF Repairing
  <1>2. /\ u \in Places /\ u.node \notin Z /\ p = To(son, u)
        /\ l \in Sides /\ p \in Nodes /\ h \in Nat
        /\ Z \in SUBSET Nodes /\ X[n] \subseteq Z /\ Y[n] \subseteq Z /\ p \in Z
        /\ Joins(l, p, X[n], Y[n], Z)
        /\ Tree(son, red, c, Y[n], h)
    BY <1>0 DEF Repairing
  <1>3. b \in Nodes /\ b \in red /\ b \in X[n] /\ b # p
    <2>1. b \in Nodes /\ b \in red
      BY <1>1 DEF Sore
    <2>2. b \in X[n]
      BY <1>1 DEF Sore, Joins
    <2>3. QED
      BY <1>2, <2>1, <2>2, JoinsFacts
  <1>4. c \in Y[n] \cup {NULL} /\ NULL \notin red
    BY <1>2, NodeFacts, TreeFacts
  <1>5. CASE c \in red /\ Recolour(p, l) /\ UNCHANGED son
    <2>1. red' = (red \cup {p}) \ {b, c}
      BY <1>5 DEF Recolour, Paint
    <2>2. Tree(son, red', p, Z, h + 1)
      <3> DEFINE Q == red'
      <3>1. /\ son \in Pointers /\ red \in SUBSET Nodes /\ l \in Sides
            /\ b = son[l][p] /\ c = son[Other(l)][p]
            /\ Joins(l, p, X[n], Y[n], Z) /\ Sore(son, red, b, X[n], h)
            /\ Tree(son, red, c, Y[n], h)
            /\ p \notin red /\ c \in red /\ Q = (red \cup {p}) \ {b, c}
        BY <1>1, <1>2, <1>5, <2>1
      <3> HIDE DEF Q, r, b, c, d, Z, h
      <3>2. Tree(son, Q, p, Z, h + 1)
        BY ONLY <3>1, RepairRecolour
      <3>3. QED
        BY ONLY <3>2 DEF Q
    <2>3. Elsewhere(son, red, son, red', u, Z)
      BY <1>2, <1>3, <1>4, <2>1 DEF Elsewhere
    <2>4. red' \in SUBSET Nodes
      BY <1>2, <2>1
    <2>5. QED
      BY <1>1, <1>2, <1>5, <2>2, <2>3, <2>4
  <1>6. CASE /\ c \notin red /\ son[l][b] \in red
             /\ Paint({p}, {b}) /\ Becomes(Rotate(p, l), b)
    <2>1. red' = (red \cup {p}) \ {b} /\ red' \in SUBSET Nodes
      BY <1>2, <1>6 DEF Paint
    <2>2. son' = Put(Rotate(p, l), u, b)
      BY <1>6 DEF Becomes
    <2>3. Repaints(red, red', Z)
      BY <1>2, <1>3, <2>1 DEF Repaints
    <2>4. /\ son' \in Pointers /\ IsRotated(son, son', p, l, Z) /\ To(son', u) = b
          /\ Elsewhere(son, red, son', red', u, Z)
      <3> DEFINE to == son'  Q == red'
      <3>1. /\ to = Put(Rotate(p, l), u, b) /\ Repaints(red, Q, Z)
            /\ son \in Pointers /\ p \in Nodes /\ l \in Sides
            /\ b \in Nodes /\ b = son[l][p] /\ p # b
            /\ u \in Places /\ Z \in SUBSET Nodes /\ p \in Z /\ b \in Z /\ u.node \notin Z
        BY <1>2, <1>3, <2>2, <2>3
      <3> HIDE DEF to, Q, r, b, c, d, Z
      <3>2. /\ to \in Pointers /\ IsRotated(son, to, p, l, Z) /\ To(to, u) = b
            /\ Elsewhere(son, red, to, Q, u, Z)
        BY ONLY <3>1, RotateIs
      <3>3. QED
        BY <3>2 DEF to, Q
    <2>5. Tree(son', red', b, Z, h + 1)
      <3> DEFINE to == son'  Q == red'
      <3>1. /\ son \in Pointers /\ red \in SUBSET Nodes /\ l \in Sides /\ b = son[l][p]
            /\ Joins(l, p, X[n], Y[n], Z) /\ Sore(son, red, b, X[n], h)
            /\ Tree(son, red, son[Other(l)][p], Y[n], h)
            /\ p \notin red /\ son[Other(l)][p] \notin red /\ son[l][b] \in red
            /\ Q = (red \cup {p}) \ {b} /\ to \in Pointers /\ IsRotated(son, to, p, l, Z)
        BY <1>1, <1>2, <1>6, <2>1, <2>4
      <3> HIDE DEF to, Q, r, b, c, d, Z, h
      <3>2. Tree(to, Q, b, Z, h + 1)
        BY ONLY <3>1, RepairRotate
      <3>3. QED
        BY ONLY <3>2 DEF to, Q
    <2>6. QED
      BY <1>1, <2>1, <2>4, <2>5
  <1>7. CASE /\ c \notin red /\ d \in red
             /\ Paint({p}, {d}) /\ Becomes(Lift(p, b, l), d)
    <2>1. red' = (red \cup {p}) \ {d} /\ red' \in SUBSET Nodes
      BY <1>2, <1>7 DEF Paint
    <2>2. son' = Put(Lift(p, b, l), u, d)
      BY <1>7 DEF Becomes
    <2>3. d \in Nodes /\ d \in X[n] /\ d # b /\ d # p
      <3>1. /\ son[Other(r)][b] \notin red
            /\ \E A, B \in SUBSET Nodes :
                  /\ Joins(r, b, A, B, X[n])
                  /\ Tree(son, red, d, A, h) /\ Tree(son, red, son[Other(r)][b], B, h)
        BY <1>1, <1>2, <1>7, SideFacts, SorePieces
      <3>2. PICK A \in SUBSET Nodes, B \in SUBSET Nodes :
              Joins(r, b, A, B, X[n]) /\ Tree(son, red, d, A, h)
        BY <3>1
      <3>3. d \in A /\ d \in Nodes
        BY <1>4, <1>7, <3>2, TreeFacts
      <3>4. r \in Sides /\ A \subseteq X[n] /\ b \notin A
        <4>1. r \in Sides /\ Joins(r, b, A, B, X[n])
          BY <1>2, <3>2, SideFacts
        <4> HIDE DEF r, b
        <4>2. QED
          BY ONLY <3>2, <4>1, JoinsFacts
      <3>5. p \notin X[n]
        BY <1>2, JoinsFacts
      <3>6. QED
        BY <3>3, <3>4, <3>5
    <2>4. Repaints(red, red', Z)
      BY <1>2, <1>3, <2>1, <2>3 DEF Repaints
    <2>5. /\ son' \in Pointers /\ IsLifted(son, son', p, b, l, Z) /\ To(son', u) = d
          /\ Elsewhere(son, red, son', red', u, Z)
      <3> DEFINE to == son'  Q == red'
      <3>1. to = Put(Lift(p, b, l), u, d) /\ Repaints(red, Q, Z)
        BY <2>2, <2>4
      <3>2. /\ b \in Z /\ d \in Z /\ p # b /\ p # d /\ b # d
            /\ b \in Nodes /\ d \in Nodes /\ d = son[Other(l)][b] /\ son[l][p] \in Nodes
        BY <1>2, <1>3, <2>3
      <3>a. /\ son \in Pointers /\ p \in Nodes /\ l \in Sides
            /\ u \in Places /\ Z \in SUBSET Nodes /\ p \in Z /\ u.node \notin Z
        BY <1>2
      <3> HIDE DEF to, Q, r, b, c, d, Z
      <3>3. /\ to \in Pointers /\ IsLifted(son, to, p, b, l, Z) /\ To(to, u) = d
            /\ Elsewhere(son, red, to, Q, u, Z)
        BY ONLY <3>1, <3>2, <3>a, LiftIs
      <3>4. QED
        BY <3>3 DEF to, Q, d
    <2>6. Tree(son', red', d, Z, h + 1)
      <3> DEFINE to == son'  Q == red'
      <3>1. /\ son \in Pointers /\ red \in SUBSET Nodes /\ l \in Sides
            /\ b = son[l][p] /\ d = son[Other(l)][b]
            /\ Joins(l, p, X[n], Y[n], Z) /\ Sore(son, red, b, X[n], h)
            /\ Tree(son, red, son[Other(l)][p], Y[n], h)
            /\ p \notin red /\ son[Other(l)][p] \notin red /\ d \in red
            /\ Q = (red \cup {p}) \ {d} /\ to \in Pointers /\ IsLifted(son, to, p, b, l, Z)
        BY <1>1, <1>2, <1>7, <2>1, <2>5
      <3> HIDE DEF to, Q, r, b, c, d, Z, h
      <3>2. Tree(to, Q, d, Z, h + 1)
        BY ONLY <3>1, RepairLift
      <3>3. QED
        BY ONLY <3>2 DEF to, Q
    <2>7. QED
      BY <1>1, <2>1, <2>5, <2>6
  <1> HIDE DEF b, c, d
  <1>8. (c \in red /\ Recolour(p, l) /\ UNCHANGED son)
        \/ (/\ c \notin red /\ son[l][b] \in red
            /\ Paint({p}, {b}) /\ Becomes(Rotate(p, l), b))
        \/ (/\ c \notin red /\ d \in red
            /\ Paint({p}, {d}) /\ Becomes(Lift(p, b, l), d))
    <2>1. son[l][b] \in red \/ d \in red
      BY <1>2, SideFacts DEF Discrepancy, b, d
    <2>2. QED
      BY <1>3, <2>1 DEF FixInsertion, IsRed, IsBlack, b, c, d
  <1>9. QED
    BY <1>5, <1>6, <1>7, <1>8

\* A call of add_recursive() returns: its tree has the new element and stands.
LEMMA AddReturns ==
    ASSUME son \in Pointers, red \in SUBSET Nodes, NEW X, NEW Y, NEW H,
           Grown(son, red, stack, X, Y, H), AddReturn
    PROVE  /\ son' \in Pointers /\ red' \in SUBSET Nodes
           /\ Grown(son', red', stack', X, Y, H)
  <1> DEFINE n == Len(stack)  p == stack[n].node  l == stack[n].side  u == stack[n - 1]
  <1>1. Context(son, red, stack, X, Y, H)
    BY DEF Grown
  <1>2. n \in Nat /\ Calling = stack[n] /\ n # 1 /\ Last(Front(stack)) = u
    <2>1. n \in Nat
      BY <1>1 DEF Context
    <2>2. QED
      BY <1>1, <2>1, CallingIsLast DEF AddReturn
  <1>3. stack' = Front(stack)
    BY DEF AddReturn, Returns
  <1>4. l \in Sides
    <2>1. Called(son, red, stack, X, Y, H, n)
      BY <1>1, <1>2, CallerFacts
    <2>2. QED
      BY <2>1 DEF Called
  <1> HIDE DEF n
  <1>5. CASE p \in red \/ ~Discrepancy(son, red, p, l)
    <2>1. UNCHANGED treeVars
      BY <1>2, <1>4, <1>5, SideFacts
         DEF AddReturn, FixInsertion, Recolour, IsBlack, IsRed, Discrepancy
    <2>2. Grown(son, red, Front(stack), X, Y, H)
      BY <1>2, <1>5, GrownPast DEF n
    <2>3. QED
      BY <1>3, <2>1, <2>2 DEF treeVars
  <1>6. CASE p \notin red /\ Discrepancy(son, red, p, l)
    <2>1. FixInsertion(p, l)
      BY <1>2, <1>6 DEF AddReturn, IsBlack
    <2>2. /\ son' \in Pointers /\ red' \in SUBSET Nodes
          /\ Elsewhere(son, red, son', red', u, X[n - 1])
          /\ Tree(son', red', To(son', u), X[n - 1], H[n - 1])
      BY <1>2, <1>6, <2>1, InsertionFixed DEF n
    <2>3. Grown(son', red', Front(stack), X, Y, H)
      BY <1>2, <2>2, GrownRepaired DEF n
    <2>4. QED
      BY <1>3, <2>2, <2>3
  <1>7. QED
    BY <1>5, <1>6

-----------------------------------------------------------------------------
(* The same when an element was taken out.                                 *)

\* Where no black node is missing there is nothing to repair.
LEMMA ShrunkPast ==
    ASSUME NEW so \in Pointers, NEW R \in SUBSET Nodes, NEW st, NEW X, NEW Y, NEW H,
           Shrunk(so, R, st, X, Y, H, FALSE), NEW n \in Nat, n = Len(st), n # 1
    PROVE  Shrunk(so, R, Front(st), X, Y, H, FALSE)
  <1> DEFINE p == st[n].node  l == st[n].side  b == so[l][p]  Z == X[n - 1]  u == st[n - 1]
  <1>1. Context(so, R, st, X, Y, H)
    BY DEF Shrunk
  <1>2. Called(so, R, st, X, Y, H, n)
    BY <1>1, CallerFacts
  <1>3. /\ n - 1 \in Nat /\ l \in Sides /\ p \in Nodes
        /\ X[n] \in SUBSET Nodes /\ Z \in SUBSET Nodes /\ Y[n] \in SUBSET Nodes
        /\ H[n] \in Nat /\ H[n - 1] \in Nat
        /\ Joins(l, p, X[n], Y[n], Z)
        /\ Tree(so, R, so[Other(l)][p], Y[n], H[n])
        /\ H[n - 1] = H[n] + Weight(R, p)
        /\ p \in R => so[Other(l)][p] \notin R
        /\ p = To(so, u)
        /\ u.node \in R \cup {Owner} => p \notin R
    BY <1>2 DEF Called, To
  <1>4. ReturnedTo(so, R, st, X, Y, H, n)
    <2>1. Elsewhere(so, R, so, R, u, X[n - 1])
      BY <1>3 DEF Elsewhere
    <2>2. QED
      BY <1>1, <2>1, ContextReturned
  <1>5. NULL \notin R /\ To(so, st[n]) = b
    BY NodeFacts DEF To
  <1>6. Tree(so, R, b, X[n], H[n]) /\ (p \in R => b \notin R)
    <2>1. /\ Tree(so, R, b, X[n], H[n] - IF FALSE THEN 1 ELSE 0)
          /\ p \in R \cup {Owner} => b \notin R
      BY <1>5 DEF Shrunk
    <2>2. H[n] - (IF FALSE THEN 1 ELSE 0) = H[n]
      BY ONLY <1>3
    <2>3. QED
      BY ONLY <2>1, <2>2
  <1>7. Tree(so, R, p, Z, H[n] + Weight(R, p))
    BY <1>3, <1>5, <1>6, PutTogether
  <1>8. QED
    BY <1>3, <1>4, <1>7 DEF Shrunk, ReturnedTo

\* What FIX_DELETION_DISCREPANCY finds: side l of p is the longer one.
Shortened(so, R, X, Y, H, n, p, l, u, k) ==
    /\ u \in Places /\ u.node \notin X[n - 1] /\ p = To(so, u)
    /\ l \in Sides /\ p \in Nodes /\ k \in Nat /\ so[l][p] # NULL
    /\ X[n - 1] \in SUBSET Nodes
    /\ Joins(l, p, Y[n], X[n], X[n - 1])
    /\ Tree(so, R, so[l][p], Y[n], k + 1) /\ Tree(so, R, so[Other(l)][p], X[n], k)
    /\ H[n - 1] = (k + 1) + Weight(R, p)
    /\ so[l][p] \in R => p \notin R
    /\ u.node \in R \cup {Owner} => p \notin R

\* Where FIX_DELETION_DISCREPANCY has something to repair.
LEMMA ShortBelow ==
    ASSUME NEW so \in Pointers, NEW R \in SUBSET Nodes, NEW st, NEW X, NEW Y, NEW H,
           Shrunk(so, R, st, X, Y, H, TRUE), NEW n \in Nat, n = Len(st), n # 1,
           NEW p, p = st[n].node, NEW l, l = Other(st[n].side), NEW u, u = st[n - 1],
           NEW k, k = H[n] - 1
    PROVE  Shortened(so, R, X, Y, H, n, p, l, u, k)
  <1> DEFINE r == st[n].side
  <1>1. Context(so, R, st, X, Y, H) /\ Tree(so, R, so[r][p], X[n], k)
    BY DEF Shrunk, To
  <1>2. Called(so, R, st, X, Y, H, n)
    BY <1>1, CallerFacts
  <1>3. u \in Places
    <2>1. st \in Seq(Places) /\ n - 1 \in 1 .. Len(st)
      BY <1>1, <1>2 DEF Context, Called
    <2>2. QED
      BY <2>1
  <1>4. r \in Sides /\ Joins(r, p, X[n], Y[n], X[n - 1])
    BY <1>2 DEF Called
  <1>5. l \in Sides /\ Joins(l, p, Y[n], X[n], X[n - 1]) /\ Other(l) = r
    BY <1>4, SideFacts, JoinsFacts
  <1>6. H[n] \in Nat /\ k \in Nat /\ k + 1 = H[n]
    <2>1. k \in Nat
      BY <1>1, TreeFacts
    <2>2. H[n] \in Nat
      BY <1>2 DEF Called
    <2>3. QED
      BY <2>1, <2>2
  <1>7. Tree(so, R, so[l][p], Y[n], k + 1)
    BY <1>2, <1>6 DEF Called
  <1>8. so[l][p] # NULL
    <2>1. k + 1 # 0
      BY <1>6
    <2>2. QED
      BY <1>7, <2>1, TreeFacts
  <1>9. QED
    BY <1>1, <1>2, <1>3, <1>5, <1>6, <1>7, <1>8 DEF Called, Shortened, To

\* The tree of the outer call was repaired; a black node may still be missing.
Restored(so, R, to, Q, u, Z, h, less) ==
    /\ to \in Pointers /\ Q \in SUBSET Nodes
    /\ Elsewhere(so, R, to, Q, u, Z)
    /\ Tree(to, Q, To(to, u), Z, h - IF less THEN 1 ELSE 0)
    /\ u.node \in R \cup {Owner} => To(to, u) \notin Q

\* The outer call goes on with the repaired tree.
LEMMA ShrunkRepaired ==
    ASSUME NEW so \in Pointers, NEW R \in SUBSET Nodes, NEW st, NEW X, NEW Y, NEW H,
           Context(so, R, st, X, Y, H), NEW n \in Nat, n = Len(st), n # 1,
           NEW u, u = st[n - 1], NEW to, NEW Q, NEW less \in BOOLEAN,
           Restored(so, R, to, Q, u, X[n - 1], H[n - 1], less)
    PROVE  Shrunk(to, Q, Front(st), X, Y, H, less)
  <1>1. to \in Pointers /\ Q \in SUBSET Nodes /\ Elsewhere(so, R, to, Q, u, X[n - 1])
    BY DEF Restored
  <1>2. ReturnedTo(to, Q, st, X, Y, H, n)
    BY <1>1, ContextReturned
  <1>3. Called(so, R, st, X, Y, H, n)
    BY CallerFacts
  <1>4. u.node \in Q \cup {Owner} => u.node \in R \cup {Owner}
    BY <1>1, <1>3 DEF Called, Elsewhere
  <1>5. QED
    BY <1>2, <1>4 DEF Shrunk, ReturnedTo, Restored

\* A son of a root has a tree of its own.
LEMMA SonOf ==
    ASSUME NEW so \in Pointers, NEW R, NEW n, NEW X, NEW h, Tree(so, R, n, X, h), n # NULL,
           NEW q \in Sides
    PROVE  \E A \in SUBSET Nodes, k \in Nat :
              /\ A \subseteq X /\ n \notin A
              /\ Tree(so, R, so[q][n], A, k) /\ h = k + Weight(R, n)
  <1>1. PICK A \in SUBSET Nodes, B \in SUBSET Nodes, k \in Nat :
          /\ Joins(q, n, A, B, X)
          /\ Tree(so, R, so[q][n], A, k)
          /\ Tree(so, R, so[Other(q)][n], B, k)
          /\ h = k + Weight(R, n)
    BY TakeApart
  <1>2. A \subseteq X /\ n \notin A
    BY <1>1, JoinsFacts
  <1>3. QED
    BY <1>1, <1>2

\* The son b of a and its sons are different nodes of the tree.
Family(so, a, b, c, X, Z) ==
    /\ b \in Nodes /\ b \in X /\ b # a /\ X \subseteq Z
    /\ c \in X \cup {NULL} /\ c # a /\ c # b
    /\ c # NULL => c \in Nodes

\* A node, its son and its grandson are different nodes.
LEMMA FamilyFacts ==
    ASSUME NEW so \in Pointers, NEW R, NEW l \in Sides, NEW a, NEW X, NEW C, NEW Z, NEW h,
           Joins(l, a, X, C, Z), NEW b, Tree(so, R, b, X, h), b # NULL,
           NEW q \in Sides, NEW c, c = so[q][b]
    PROVE  /\ Family(so, a, b, c, X, Z)
           /\ c # NULL => \A s \in Sides : so[s][c] \in (X \ {b, c}) \cup {NULL}
  <1>1. a \notin X /\ X \subseteq Z /\ a \in Nodes /\ X \subseteq Nodes
    <2>1. a \notin X /\ X \subseteq Z
      BY JoinsFacts
    <2>2. QED
      BY <2>1 DEF Joins
  <1>2. b \in Nodes /\ b \in X
    BY TreeFacts
  <1>3. PICK A \in SUBSET Nodes, k \in Nat :
          A \subseteq X /\ b \notin A /\ Tree(so, R, c, A, k)
    BY SonOf
  <1>4. c \in A \cup {NULL} /\ (c # NULL => c \in Nodes)
    BY <1>3, TreeFacts
  <1>5. ASSUME c # NULL, NEW s \in Sides PROVE so[s][c] \in (X \ {b, c}) \cup {NULL}
    <2>1. PICK B \in SUBSET Nodes, j \in Nat :
            B \subseteq A /\ c \notin B /\ Tree(so, R, so[s][c], B, j)
      BY <1>3, <1>5, SonOf
    <2>2. so[s][c] \in B \cup {NULL}
      BY <2>1, TreeFacts
    <2>3. QED
      BY <1>3, <2>1, <2>2
  <1>6. QED
    BY <1>1, <1>2, <1>3, <1>4, <1>5, NodeFacts DEF Family

\* FIX_DELETION_DISCREPANCY restores the tree or passes the loss on.
LEMMA DeletionFixed ==
    ASSUME son \in Pointers, red \in SUBSET Nodes, failed \in BOOLEAN, NEW X, NEW Y, NEW H,
           NEW n, NEW p, NEW l, NEW u, NEW k,
           Shortened(son, red, X, Y, H, n, p, l, u, k),
           u = Last(Front(stack)), FixDeletion(p, l)
    PROVE  /\ short' \in BOOLEAN /\ failed' = failed
           /\ Restored(son, red, son', red', u, X[n - 1], H[n - 1], short')
  <1> DEFINE r == Other(l)  b == son[l][p]  bl == son[l][b]  c == son[r][b]
             cl == son[l][c]  d == son[r][c]
             Z == X[n - 1]  h == H[n - 1]
             to == son'  Q == red'
  <1>1. /\ u \in Places /\ u.node \notin Z /\ p = To(son, u)
        /\ l \in Sides /\ r \in Sides /\ p \in Nodes /\ k \in Nat /\ b # NULL
        /\ Z \in SUBSET Nodes
        /\ Joins(l, p, Y[n], X[n], Z)
        /\ Tree(son, red, b, Y[n], k + 1) /\ Tree(son, red, son[r][p], X[n], k)
        /\ h = (k + 1) + Weight(red, p)
        /\ b \in red => p \notin red
        /\ u.node \in red \cup {Owner} => p \notin red
    BY SideFacts DEF Shortened
  <1>2. /\ Family(son, p, b, c, Y[n], Z) /\ Family(son, p, b, bl, Y[n], Z)
        /\ c # NULL => \A s \in Sides : son[s][c] \in (Y[n] \ {b, c}) \cup {NULL}
    <2>1. /\ l \in Sides /\ r \in Sides /\ b # NULL
          /\ Joins(l, p, Y[n], X[n], Z) /\ Tree(son, red, b, Y[n], k + 1)
          /\ son \in Pointers /\ c = son[r][b] /\ bl = son[l][b]
      BY <1>1
    <2> HIDE DEF r, b, bl, c, Z
    <2>2. /\ Family(son, p, b, c, Y[n], Z)
          /\ c # NULL => \A s \in Sides : son[s][c] \in (Y[n] \ {b, c}) \cup {NULL}
      BY ONLY <2>1, FamilyFacts
    <2>3. Family(son, p, b, bl, Y[n], Z)
      BY ONLY <2>1, FamilyFacts
    <2>4. QED
      BY ONLY <2>2, <2>3
  <1>3. /\ b \in Nodes /\ b \in Z /\ b # p /\ p \in Z
        /\ c \in Z \cup {NULL} /\ c # p /\ c # b /\ (c # NULL => c \in Nodes)
        /\ bl \in Z \cup {NULL}
        /\ c # NULL => /\ cl \in Z \cup {NULL} /\ cl # b /\ cl # c /\ cl # p
                       /\ d \in Z \cup {NULL} /\ d # b /\ d # c /\ d # p
    <2>1. p \in Z /\ p \notin Y[n] /\ Y[n] \subseteq Z
      BY <1>1, JoinsFacts
    <2>2. p # NULL
      BY <1>1, NodeFacts
    <2> HIDE DEF b, bl, c
    <2>3. QED
      BY <1>1, <1>2, <2>1, <2>2 DEF Family
  <1>4. NULL \notin red
    BY NodeFacts
  <1> HIDE DEF r, b, bl, c, cl, d, to, Q
  <1>8. /\ b = son[l][p] /\ bl = son[l][b] /\ c = son[Other(l)][b]
        /\ cl = son[l][c] /\ d = son[Other(l)][c]
        /\ Tree(son, red, son[Other(l)][p], X[n], k)
    BY <1>1 DEF r, b, bl, c, cl, d
  <1>9. Lacking(son, red, l, p, b, c, Y[n], X[n], Z, k)
    BY <1>1, <1>8 DEF Lacking
  <1>5. CASE b \in red
    <2>1. FixBelowRed(p, l)
      BY <1>1, <1>5 DEF FixDeletion, IsRed, b
    <2>2. h = k + 2 /\ h - (IF FALSE THEN 1 ELSE 0) = k + 2 /\ p \notin red
      BY <1>1, <1>5 DEF Weight
    <2>3. short' = FALSE /\ failed' = (failed \/ c \in red)
      BY <2>1 DEF FixBelowRed, IsRed, b, c, r
    <2>4. c # NULL
      <3>1. PICK A \in SUBSET Nodes, j \in Nat :
              Tree(son, red, c, A, j) /\ k + 1 = j + Weight(red, b)
        BY <1>1, SonOf DEF c
      <3>2. j # 0
        BY <1>1, <1>5, <3>1 DEF Weight
      <3>3. QED
        BY <3>1, <3>2, TreeFacts
    <2>5. CASE /\ cl \notin red /\ d \notin red
               /\ Becomes(Rotate(p, l), b) /\ Paint({c} \ {NULL}, {b})
      <3>1. Q = (red \cup ({c} \ {NULL})) \ {b} /\ to = Put(Rotate(p, l), u, b)
        BY <2>5 DEF Paint, Becomes, to, Q
      <3>2. Repaints(red, Q, Z) /\ Q \in SUBSET Nodes /\ b \notin Q
        BY <1>3, <3>1 DEF Repaints
      <3>3. /\ to \in Pointers /\ IsRotated(son, to, p, l, Z) /\ To(to, u) = b
            /\ Elsewhere(son, red, to, Q, u, Z)
        BY <1>1, <1>3, <3>1, <3>2, RotateIs DEF b
      <3>4. c \notin red /\ Tree(to, Q, b, Z, k + 2)
        <4>2. b \in red /\ p \notin red /\ son[l][c] \notin red /\ son[Other(l)][c] \notin red
          BY <1>5, <1>8, <2>2, <2>5
        <4>3. QED
          BY <3>1, <3>3, <1>9, <4>2, RepairBelowRed1
      <3>5. Restored(son, red, to, Q, u, Z, h, FALSE)
        BY <2>2, <3>2, <3>3, <3>4 DEF Restored
      <3>6. QED
        BY <2>3, <3>4, <3>5 DEF to, Q
    <2>6. CASE d \in red /\ Becomes(Lift(p, c, l), d) /\ Paint({}, {d})
      <3>1. Q = red \ {d} /\ to = Put(Lift(p, c, l), u, d)
        BY <2>6 DEF Paint, Becomes, to, Q
      <3>2. d \in Nodes /\ d \in Z /\ c \in Nodes /\ c \in Z
        BY <1>3, <1>4, <2>4, <2>6
      <3>3. Repaints(red, Q, Z) /\ Q \in SUBSET Nodes /\ d \notin Q
        BY <3>1, <3>2 DEF Repaints
      <3>4. /\ to \in Pointers /\ IsLifted(son, to, p, c, l, Z) /\ To(to, u) = d
            /\ Elsewhere(son, red, to, Q, u, Z)
        <4>1. d = son[Other(l)][c] /\ son[l][p] \in Nodes
          BY <1>3 DEF d, b, r
        <4>2. QED
          BY <1>1, <1>3, <2>4, <3>1, <3>2, <3>3, <4>1, LiftIs
      <3>5. c \notin red /\ Tree(to, Q, d, Z, k + 2)
        <4>2. b \in red /\ p \notin red /\ c # NULL /\ d = son[Other(l)][c] /\ d \in red
          BY <1>5, <1>8, <2>2, <2>4, <2>6
        <4>3. Q = red \ {d}
          BY <3>1
        <4>4. QED
          BY <3>4, <1>9, <4>2, <4>3, RepairBelowRed2
      <3>6. Restored(son, red, to, Q, u, Z, h, FALSE)
        BY <2>2, <3>3, <3>4, <3>5 DEF Restored
      <3>7. QED
        BY <2>3, <3>5, <3>6 DEF to, Q
    <2>7. CASE cl \in red /\ d \notin red /\ Becomes(Lift(p, b, l), c) /\ Paint({}, {cl})
      <3>1. Q = red \ {cl} /\ to = Put(Lift(p, b, l), u, c)
        BY <2>7 DEF Paint, Becomes, to, Q
      <3>2. cl \in Z /\ c \in Nodes /\ c \in Z
        BY <1>3, <1>4, <2>4, <2>7
      <3>3. Repaints(red, Q, Z) /\ Q \in SUBSET Nodes
        BY <3>1, <3>2 DEF Repaints
      <3>4. /\ to \in Pointers /\ IsLifted(son, to, p, b, l, Z) /\ To(to, u) = c
            /\ Elsewhere(son, red, to, Q, u, Z)
        <4>1. c = son[Other(l)][b] /\ son[l][p] \in Nodes
          BY <1>3 DEF c, b, r
        <4>2. QED
          BY <1>1, <1>3, <2>4, <3>1, <3>2, <3>3, <4>1, LiftIs
      <3>5. c \notin red /\ Tree(to, Q, c, Z, k + 2)
        <4>2. /\ b \in red /\ p \notin red /\ c # NULL
              /\ son[l][c] \in red /\ son[Other(l)][c] \notin red
          BY <1>5, <1>8, <2>2, <2>4, <2>7
        <4>3. Q = red \ {son[l][c]}
          BY <1>8, <3>1
        <4>4. QED
          BY <3>4, <1>9, <4>2, <4>3, RepairBelowRed3
      <3>6. Restored(son, red, to, Q, u, Z, h, FALSE)
        BY <2>2, <3>1, <3>3, <3>4, <3>5 DEF Restored
      <3>7. QED
        BY <2>3, <3>5, <3>6 DEF to, Q
    <2>8. QED
      BY <2>1, <2>4, <2>5, <2>6, <2>7 DEF FixBelowRed, IsRed, IsBlack, b, c, d, cl, r
  <1>6. CASE b \notin red
    <2>1. FixBelowBlack(p, l)
      BY <1>1, <1>6 DEF FixDeletion, IsRed, b
    <2>2. failed' = failed
      BY <2>1 DEF FixBelowBlack
    <2>3. CASE /\ bl \notin red /\ c \notin red
               /\ Paint({b}, {p}) /\ short' = StillShort(p) /\ UNCHANGED son
      <3>1. Q = (red \cup {b}) \ {p} /\ to = son
        BY <2>3 DEF Paint, to, Q
      <3>2. Q \in SUBSET Nodes /\ p \notin Q /\ Elsewhere(son, red, to, Q, u, Z)
        BY <1>1, <1>3, <3>1 DEF Elsewhere
      <3>3. Tree(son, Q, p, Z, k + 1)
        <4>2. b \notin red /\ son[l][b] \notin red /\ c \notin red
          BY <1>6, <1>8, <2>3
        <4>3. QED
          BY <3>1, <1>9, <4>2, RepairBelowBlack1
      <3>4. short' = (p \notin red)
        BY <2>3 DEF StillShort, IsBlack
      <3>5. h - (IF p \notin red THEN 1 ELSE 0) = k + 1
        BY <1>1 DEF Weight
      <3>6. Restored(son, red, to, Q, u, Z, h, p \notin red)
        BY <1>1, <3>1, <3>2, <3>3, <3>5 DEF Restored
      <3>7. QED
        BY <2>2, <3>4, <3>6 DEF to, Q
    <2>4. CASE /\ bl \in red /\ c \notin red /\ short' = FALSE
               /\ Becomes(Rotate(p, l), b) /\ PaintAs(b, p, {p, bl})
      <3>1. /\ Q = IF p \in red THEN (red \cup {b}) \ {p, bl} ELSE red \ {p, bl, b}
            /\ to = Put(Rotate(p, l), u, b)
        BY <2>4 DEF PaintAs, Paint, IsRed, Becomes, to, Q
      <3>2. /\ Repaints(red, Q, Z) /\ Q \in SUBSET Nodes
            /\ u.node \in red \cup {Owner} => b \notin Q
        <4>1. Repaints(red, Q, Z)
          BY <1>1, <1>3, <1>4, <3>1, NodeFacts DEF Repaints
        <4>2. Q \in SUBSET Nodes
          BY <1>3, <3>1
        <4>3. u.node \in red \cup {Owner} => b \notin Q
          BY <1>1, <3>1
        <4>4. QED
          BY <4>1, <4>2, <4>3
      <3>3. /\ to \in Pointers /\ IsRotated(son, to, p, l, Z) /\ To(to, u) = b
            /\ Elsewhere(son, red, to, Q, u, Z)
        BY <1>1, <1>3, <3>1, <3>2, RotateIs DEF b
      <3>4. Tree(to, Q, b, Z, h)
        <4>2. b \notin red /\ bl = son[l][b] /\ bl \in red /\ c \notin red
          BY <1>6, <1>8, <2>4
        <4>3. Q = IF p \in red THEN (red \cup {b}) \ {p, bl} ELSE red \ {p, bl, b}
          BY <3>1
        <4>4. Tree(to, Q, b, Z, (k + 1) + Weight(red, p))
          BY <3>3, <1>9, <4>2, <4>3, RepairBelowBlack2
        <4>5. QED
          BY <1>1, <4>4
      <3>5. h - (IF FALSE THEN 1 ELSE 0) = h
        BY <1>1 DEF Weight
      <3>6. Restored(son, red, to, Q, u, Z, h, FALSE)
        BY <3>2, <3>3, <3>4, <3>5 DEF Restored
      <3>7. QED
        BY <2>2, <2>4, <3>6 DEF to, Q
    <2>5. CASE /\ c \in red /\ short' = FALSE
               /\ Becomes(Lift(p, b, l), c) /\ PaintAs(c, p, {p})
      <3>1. /\ Q = IF p \in red THEN (red \cup {c}) \ {p} ELSE red \ {p, c}
            /\ to = Put(Lift(p, b, l), u, c)
        BY <2>5 DEF PaintAs, Paint, IsRed, Becomes, to, Q
      <3>2. c \in Nodes /\ c \in Z
        BY <1>3, <1>4, <2>5
      <3>3. /\ Repaints(red, Q, Z) /\ Q \in SUBSET Nodes
            /\ u.node \in red \cup {Owner} => c \notin Q
        BY <1>1, <1>3, <3>1, <3>2 DEF Repaints
      <3>4. /\ to \in Pointers /\ IsLifted(son, to, p, b, l, Z) /\ To(to, u) = c
            /\ Elsewhere(son, red, to, Q, u, Z)
        <4>1. c = son[Other(l)][b] /\ son[l][p] \in Nodes
          BY <1>3 DEF c, b, r
        <4>2. QED
          BY <1>1, <1>3, <3>1, <3>2, <3>3, <4>1, LiftIs
      <3>5. Tree(to, Q, c, Z, h)
        <4>2. b \notin red /\ c \in red
          BY <1>6, <2>5
        <4>3. Q = IF p \in red THEN (red \cup {c}) \ {p} ELSE red \ {p, c}
          BY <3>1
        <4>4. Tree(to, Q, c, Z, (k + 1) + Weight(red, p))
          BY <3>4, <1>9, <4>2, <4>3, RepairBelowBlack3
        <4>5. QED
          BY <1>1, <4>4
      <3>6. h - (IF FALSE THEN 1 ELSE 0) = h
        BY <1>1 DEF Weight
      <3>7. Restored(son, red, to, Q, u, Z, h, FALSE)
        BY <3>3, <3>4, <3>5, <3>6 DEF Restored
      <3>8. QED
        BY <2>2, <2>5, <3>7 DEF to, Q
    <2>6. QED
      BY <2>1, <2>3, <2>4, <2>5 DEF FixBelowBlack, IsRed, IsBlack, b, bl, c, r
  <1>7. QED
    BY <1>5, <1>6

\* A call of delete_recursive() returns: its tree is restored.
LEMMA DeleteReturns ==
    ASSUME son \in Pointers, red \in SUBSET Nodes, {short, failed} \subseteq BOOLEAN, NEW X, NEW Y, NEW H,
           Shrunk(son, red, stack, X, Y, H, short), DeleteReturn
    PROVE  /\ son' \in Pointers /\ red' \in SUBSET Nodes
           /\ short' \in BOOLEAN /\ failed' = failed
           /\ Shrunk(son', red', stack', X, Y, H, short')
  <1> DEFINE n == Len(stack)  p == stack[n].node  l == Other(stack[n].side)
             u == stack[n - 1]  k == H[n] - 1
  <1>1. Context(son, red, stack, X, Y, H)
    BY DEF Shrunk
  <1>2. n \in Nat /\ Calling = stack[n] /\ n # 1 /\ Last(Front(stack)) = u
    <2>1. n \in Nat
      BY <1>1 DEF Context
    <2>2. QED
      BY <1>1, <2>1, CallingIsLast DEF DeleteReturn
  <1>3. stack' = Front(stack)
    BY DEF DeleteReturn, Returns
  <1> HIDE DEF n
  <1>4. CASE ~short
    <2>1. UNCHANGED <<treeVars, short, failed>>
      BY <1>4 DEF DeleteReturn
    <2>2. short = FALSE
      BY <1>4
    <2>3. Shrunk(son, red, Front(stack), X, Y, H, FALSE)
      BY <1>2, <2>2, ShrunkPast DEF n
    <2>4. QED
      BY <1>3, <2>1, <2>2, <2>3 DEF treeVars
  <1>5. CASE short
    <2>1. FixDeletion(p, l)
      BY <1>2, <1>5 DEF DeleteReturn
    <2>2. short = TRUE
      BY <1>5
    <2>3. Shortened(son, red, X, Y, H, n, p, l, u, k)
      BY <1>2, <2>2, ShortBelow DEF n
    <2>4. /\ short' \in BOOLEAN /\ failed' = failed
          /\ Restored(son, red, son', red', u, X[n - 1], H[n - 1], short')
      BY <1>2, <2>1, <2>3, DeletionFixed
    <2>5. Shrunk(son', red', Front(stack), X, Y, H, short')
      <3> DEFINE to == son'  Q == red'  less == short'
      <3>1. less \in BOOLEAN /\ Restored(son, red, to, Q, u, X[n - 1], H[n - 1], less)
        BY <2>4
      <3> HIDE DEF to, Q, less
      <3>2. Shrunk(to, Q, Front(stack), X, Y, H, less)
        BY <1>1, <1>2, <3>1, ShrunkRepaired DEF n
      <3>3. QED
        BY <3>2 DEF to, Q, less
    <2>6. QED
      BY <1>3, <2>4, <2>5 DEF Restored
  <1>6. QED
    BY <1>4, <1>5

-----------------------------------------------------------------------------
(* The leaf takes the place of the element.                                *)

\* One call more.
LEMMA ContextExtended ==
    ASSUME NEW so, NEW R, NEW st, NEW X, NEW Y, NEW H, Context(so, R, st, X, Y, H),
           NEW n \in Nat, n = Len(st), NEW place \in Places,
           NEW ts, ts = Append(st, place),
           CallAt(so, R, ts, X, Y, H, n + 1), X[n + 1] \subseteq X[n]
    PROVE  Context(so, R, ts, X, Y, H)
  <1>1. /\ st \in Seq(Places) /\ n >= 1 /\ st[1] = Top
        /\ X \in [Nat -> SUBSET Nodes] /\ Y \in [Nat -> SUBSET Nodes] /\ H \in [Nat -> Nat]
        /\ \A i \in 2 .. n : CallAt(so, R, st, X, Y, H, i)
        /\ \A i, j \in 1 .. n : i <= j => X[j] \subseteq X[i]
    BY DEF Context
  <1>2. /\ ts \in Seq(Places) /\ Len(ts) = n + 1 /\ ts[1] = Top
        /\ \A i \in 1 .. n : ts[i] = st[i]
    BY <1>1
  <1>3. ASSUME NEW i \in 2 .. n + 1 PROVE CallAt(so, R, ts, X, Y, H, i)
    <2>1. CASE i = n + 1
      BY <2>1
    <2>2. CASE i # n + 1
      <3>1. i \in 2 .. n /\ i \in 1 .. n /\ i - 1 \in 1 .. n
        BY <2>2
      <3>2. CallAt(so, R, st, X, Y, H, i) /\ ts[i] = st[i] /\ ts[i - 1] = st[i - 1]
        BY <1>1, <1>2, <3>1
      <3>3. QED
        BY <3>2 DEF CallAt
    <2>3. QED
      BY <2>1, <2>2
  <1>4. ASSUME NEW i \in 1 .. n + 1, NEW j \in 1 .. n + 1, i <= j
        PROVE  X[j] \subseteq X[i]
    <2>1. CASE j = n + 1
      <3>1. n \in 1 .. n /\ (i = n + 1 \/ (i \in 1 .. n /\ i <= n))
        BY <1>1
      <3>2. ASSUME i \in 1 .. n PROVE X[n] \subseteq X[i]
        <4>1. i <= n /\ i \in 1 .. n /\ n \in 1 .. n
          BY <3>1, <3>2
        <4>2. QED
          BY <1>1, <4>1
      <3>3. QED
        BY <2>1, <3>1, <3>2
    <2>2. CASE j # n + 1
      <3>1. i \in 1 .. n /\ j \in 1 .. n
        BY <1>4, <2>2
      <3>2. QED
        BY <1>1, <1>4, <3>1
    <2>3. QED
      BY <2>1, <2>2
  <1>5. n + 1 >= 1
    BY <1>1
  <1>6. QED
    BY <1>1, <1>2, <1>3, <1>4, <1>5 DEF Context

\* Nested trees depend on the calls there are.
LEMMA NestedSame ==
    ASSUME NEW st, NEW W, NEW Y, NEW n \in Nat, Nested(st, W, Y, n),
           NEW V \in [Nat -> SUBSET Nodes], \A i \in 1 .. n : V[i] = W[i]
    PROVE  Nested(st, V, Y, n)
  <1>1. ASSUME NEW i \in 2 .. n PROVE Joins(st[i].side, st[i].node, V[i], Y[i], V[i - 1])
    <2>1. i \in 1 .. n /\ i - 1 \in 1 .. n
      OBVIOUS
    <2>2. Joins(st[i].side, st[i].node, W[i], Y[i], W[i - 1])
      BY DEF Nested
    <2>3. V[i] = W[i] /\ V[i - 1] = W[i - 1]
      BY <2>1
    <2>4. QED
      BY <2>2, <2>3
  <1>2. \A i, j \in 1 .. n : i <= j => V[j] \subseteq V[i]
    BY DEF Nested
  <1>3. QED
    BY <1>1, <1>2 DEF Nested

\* f has the links of e, the pointer to e at u is one to f.
IsReplaced(so, to, e, f, u) ==
    /\ to["left"][f] = so["left"][e] /\ to["right"][f] = so["right"][e]
    /\ To(to, u) = f
    /\ \A q \in Sides, m \in Nodes \cup {Owner} :
          m = f \/ (q = u.side /\ m = u.node) \/ to[q][m] = so[q][m]

\* The leaf f comes in the place of e, in whose left tree it was.
Replacing(so, R, st, X, Y, H, less, n, e, f, to, Q, W, ts) ==
    /\ so \in Pointers /\ R \in SUBSET Nodes
    /\ less \in BOOLEAN /\ Shrunk(so, R, st, X, Y, H, less)
    /\ n \in Nat /\ n = Len(st) /\ n # 1
    /\ e \in Nodes /\ st[n] = Place(e, "left")
    /\ f \in Nodes /\ f \notin X[1]
    /\ \A i \in 2 .. n : On(st[i].side, f, st[i].node)
    /\ \A m \in X[n] : Before(m, f)
    /\ to \in Pointers /\ IsReplaced(so, to, e, f, st[n - 1])
    /\ Q = IF e \in R THEN R \cup {f} ELSE R \ {f}
    /\ W = [i \in Nat |-> IF i = n THEN X[n] ELSE (X[i] \ {e}) \cup {f}]
    /\ ts = Append(Front(st), Place(f, "left"))

\* The leaf takes the place of the element.
LEMMA LeafReplaces ==
    ASSUME NEW so, NEW R, NEW st, NEW X, NEW Y, NEW H, NEW less, NEW n, NEW e, NEW f,
           NEW to, NEW Q, NEW W, NEW ts,
           Replacing(so, R, st, X, Y, H, less, n, e, f, to, Q, W, ts)
    PROVE  Shrunk(to, Q, ts, W, Y, H, less)
  <1> USE DEF Replacing
  <1> DEFINE u == st[n - 1]  fs == Front(st)  j == n - 1
  <1>1. Context(so, R, st, X, Y, H)
    BY DEF Shrunk
  <1>2. Called(so, R, st, X, Y, H, n)
    BY <1>1, CallerFacts
  <1>3. /\ n \in Nat /\ j \in Nat /\ n = j + 1 /\ n \in 2 .. n /\ n >= 2
        /\ X[n] \in SUBSET Nodes /\ X[j] \in SUBSET Nodes /\ Y[n] \in SUBSET Nodes
        /\ e = so[u.side][u.node]
        /\ Joins("left", e, X[n], Y[n], X[j])
        /\ Tree(so, R, so["right"][e], Y[n], H[n])
        /\ H[j] = H[n] + Weight(R, e)
        /\ e \in R => so["right"][e] \notin R
        /\ u.node \in R \cup {Owner} => e \notin R
        /\ u.side \in Sides /\ u.node \in Nodes \cup {Owner} /\ u.node \notin X[j]
    BY <1>2 DEF Called, Place, Other
  <1>4. /\ Tree(so, R, so["left"][e], X[n], H[n] - IF less THEN 1 ELSE 0)
        /\ e \in R => so["left"][e] \notin R
    BY DEF Shrunk, To, Place
  <1>5. Context(so, R, fs, X, Y, H) /\ Len(fs) = j /\ fs[j] = u
    <2>1. Elsewhere(so, R, so, R, u, X[n - 1])
      BY <1>3 DEF Elsewhere
    <2>2. ReturnedTo(so, R, st, X, Y, H, n)
      BY <1>1, <2>1, ContextReturned
    <2>3. QED
      BY <2>2 DEF ReturnedTo
  <1>6. Stacked(fs, X, Y, H, j)
    BY <1>3, <1>5, ContextFacts
  <1>7. /\ fs \in Seq(Places) /\ FirstOf(fs, fs, j)
        /\ j >= 1 /\ j \in 1 .. Len(fs) /\ 1 \in 1 .. j
        /\ X \in [Nat -> SUBSET Nodes]
        /\ X[j] \subseteq X[1]
        /\ Nested(fs, X, Y, j)
        /\ u.node \in X[1] \cup {Owner}
    BY <1>5, <1>6 DEF Stacked
  <1>8. \A i \in 1 .. j : fs[i] = st[i]
    <2>1. st \in Seq(Places)
      BY <1>1 DEF Context
    <2>0. n >= 2
      BY <1>3
    <2>2. Len(st) >= 1 /\ j = Len(st) - 1
      BY <2>0
    <2>3. \A i \in 1 .. Len(st) - 1 : Front(st)[i] = st[i]
      BY <2>1, <2>2, PlaceFacts
    <2>4. QED
      BY <2>2, <2>3
  <1> HIDE DEF u, fs, j
  <1>9. /\ e \in X[j] /\ e \notin X[n] /\ e \notin Y[n] /\ X[n] \subseteq X[j] /\ Y[n] \subseteq X[j]
        /\ X[n] \cap Y[n] = {} /\ X[j] = {e} \cup X[n] \cup Y[n]
    <2>1. "left" \in Sides
      BY DEF Sides
    <2>2. /\ e \in X[j] /\ e \notin X[n] /\ e \notin Y[n] /\ X[n] \subseteq X[j] /\ Y[n] \subseteq X[j]
          /\ X[n] \cap Y[n] = {}
      BY ONLY <1>3, <2>1, JoinsFacts
    <2>3. QED
      BY ONLY <1>3, <2>2 DEF Joins
  <1>10. /\ f \notin X[j] /\ u.node # f /\ f # e
    BY <1>7, <1>9, NodeFacts
  <1>11. W \in [Nat -> SUBSET Nodes] /\ W[n] = X[n] /\ W[j] = (X[j] \ {e}) \cup {f}
         /\ \A i \in 1 .. j : W[i] = (X[i] \ {e}) \cup {f}
    <2>0. W = [i \in Nat |-> IF i = n THEN X[n] ELSE (X[i] \ {e}) \cup {f}] /\ f \in Nodes
      OBVIOUS
    <2>1. \A i \in Nat : (IF i = n THEN X[n] ELSE (X[i] \ {e}) \cup {f}) \in SUBSET Nodes
      BY ONLY <1>3, <1>7, <2>0
    <2>2. W \in [Nat -> SUBSET Nodes]
      BY ONLY <2>0, <2>1
    <2>3. W[n] = X[n]
      BY ONLY <1>3, <2>0
    <2>4. \A i \in 1 .. j : i \in Nat /\ i # n
      BY ONLY <1>3
    <2>5. \A i \in 1 .. j : W[i] = (X[i] \ {e}) \cup {f}
      BY ONLY <2>0, <2>4
    <2>6. j \in 1 .. j
      BY ONLY <1>3
    <2>7. QED
      BY <2>2, <2>3, <2>5, <2>6
  <1>12. Nested(fs, W, Y, j)
    <2> DEFINE V == [i \in Nat |-> X[i] \ {e}]  U == [i \in Nat |-> V[i] \cup {f}]
    <2>3. ASSUME NEW i \in 1 .. j PROVE W[i] = U[i]
      <3>1. i \in Nat
        BY ONLY <1>3, i \in 1 .. j
      <3>2. V[i] = X[i] \ {e} /\ U[i] = V[i] \cup {f}
        BY <3>1
      <3>3. QED
        BY <1>11, <3>2
    <2>4. V = [i \in Nat |-> X[i] \ {e}]
      OBVIOUS
    <2> HIDE DEF V
    <2>5. U = [i \in Nat |-> V[i] \cup {f}]
      OBVIOUS
    <2> HIDE DEF U
    <2>1. Nested(fs, V, Y, j)
      <3>1. /\ fs \in Seq(Places) /\ j \in Nat /\ j >= 1 /\ j = Len(fs)
            /\ Nested(fs, X, Y, j) /\ e \in X[j]
        BY <1>3, <1>5, <1>7, <1>9
      <3>2. QED
        BY <2>4, <3>1, NestedWithout
    <2>2. ASSUME NEW i \in 2 .. j PROVE On(fs[i].side, f, fs[i].node)
      <3>1. i \in 1 .. j /\ i \in 2 .. n
        BY ONLY <1>3, i \in 2 .. j
      <3>2. QED
        BY <1>8, <3>1
    <2>6. Nested(fs, U, Y, j)
      <3>1. j \in Nat /\ j >= 1 /\ \A i \in 2 .. j : On(fs[i].side, f, fs[i].node)
        BY <1>3, <1>7, <2>2
      <3>2. QED
        BY <2>1, <2>5, <3>1, NestedWith
    <2>7. QED
      <3>1. j \in Nat /\ W \in [Nat -> SUBSET Nodes]
        BY <1>3, <1>11
      <3>2. QED
        BY <2>3, <2>6, <3>1, NestedSame
  <1>13. /\ to["left"][f] = so["left"][e] /\ to["right"][f] = so["right"][e]
         /\ to[u.side][u.node] = f
         /\ \A q \in Sides, m \in Nodes \cup {Owner} :
               m = f \/ (q = u.side /\ m = u.node) \/ to[q][m] = so[q][m]
    BY DEF IsReplaced, To, u
  <1>14. Q \in SUBSET Nodes /\ NULL \notin Q /\ NULL \notin R /\ \A m \in Nodes \ {f} : m \in Q <=> m \in R
    BY NodeFacts
  <1>15. Weight(Q, f) = Weight(R, e) /\ (f \in Q <=> e \in R)
    BY DEF Weight
  <1>16. Context(to, Q, fs, W, Y, H)
    <2> DEFINE D == X[j] \cup {f}
    <2>1. D \cap X[1] \subseteq X[j] /\ D \subseteq Nodes
      BY <1>3
    <2>2. Elsewhere(so, R, to, Q, fs[j], D)
      BY <1>5, <1>13, <1>14, <2>1 DEF Elsewhere
    <2> HIDE DEF D
    <2>3. QED
      BY <1>5, <1>7, <1>12, <1>14, <2>1, <2>2, ContextKept
  <1>17. ASSUME NEW m \in X[n] \cup Y[n] PROVE (m \in Q <=> m \in R) /\ \A q \in Sides : to[q][m] = so[q][m]
    <2>1. m \in X[j] /\ m \in Nodes
      BY ONLY <1>3, <1>9, m \in X[n] \cup Y[n]
    <2>2. m # f /\ m # u.node
      BY ONLY <1>3, <1>10, <2>1
    <2>3. QED
      BY ONLY <1>13, <1>14, <2>1, <2>2
  <1>18. /\ Tree(to, Q, to["right"][f], Y[n], H[n])
         /\ Tree(to, Q, to["left"][f], X[n], H[n] - IF less THEN 1 ELSE 0)
    <2>1. \A m \in X[n] : (m \in Q <=> m \in R) /\ \A q \in Sides : to[q][m] = so[q][m]
      BY <1>17
    <2>2. \A m \in Y[n] : (m \in Q <=> m \in R) /\ \A q \in Sides : to[q][m] = so[q][m]
      BY <1>17
    <2>3. Tree(to, Q, so["right"][e], Y[n], H[n])
      <3>1. Tree(so, R, so["right"][e], Y[n], H[n])
        BY <1>3
      <3>2. QED
        BY ONLY <1>14, <2>2, <3>1, Untouched
    <2>4. Tree(to, Q, so["left"][e], X[n], H[n] - IF less THEN 1 ELSE 0)
      <3>1. Tree(so, R, so["left"][e], X[n], H[n] - IF less THEN 1 ELSE 0)
        BY <1>4
      <3>2. QED
        BY ONLY <1>14, <2>1, <3>1, Untouched
    <2>5. QED
      BY <1>13, <2>3, <2>4
  <1>19. f \in Q => to["left"][f] \notin Q /\ to["right"][f] \notin Q
    <2>1. so["left"][e] \in X[n] \cup {NULL} /\ so["right"][e] \in Y[n] \cup {NULL}
      BY <1>3, <1>4, TreeFacts
    <2>2. QED
      BY <1>3, <1>4, <1>13, <1>14, <1>15, <1>17, <2>1
  <1>20. Joins("left", f, W[n], Y[n], W[j])
    <2>1. On("left", f, e)
      <3>1. st[n].side = "left" /\ st[n].node = e
        BY DEF Place
      <3>2. QED
        BY <1>3, <3>1
    <2>2. ASSUME NEW m \in Y[n] PROVE On(Other("left"), m, f)
      <3>1. On(Other("left"), m, e) /\ m \in Nodes
        BY <1>3 DEF Joins
      <3>2. "left" \in Sides
        BY DEF Sides
      <3>3. QED
        BY <2>1, <3>1, <3>2, OnIsOrder
    <2>3. \A m \in X[n] : On("left", m, f)
      BY DEF On
    <2>4. W[j] = {f} \cup X[n] \cup Y[n]
      <3>1. W[j] = (X[j] \ {e}) \cup {f} /\ X[j] = {e} \cup X[n] \cup Y[n]
        BY <1>9, <1>11
      <3>2. e \notin X[n] /\ e \notin Y[n]
        BY <1>9
      <3>3. QED
        BY <3>1, <3>2
    <2>5. QED
      BY <1>3, <1>11, <2>2, <2>3, <2>4 DEF Joins
  <1>21. /\ ts \in Seq(Places) /\ Len(ts) = n /\ ts[n] = Place(f, "left") /\ ts[j] = u
         /\ ts = Append(fs, Place(f, "left")) /\ Place(f, "left") \in Places
    <2>1. Place(f, "left") \in Places
      BY DEF Places, Place, Sides
    <2>2. ts = Append(fs, Place(f, "left"))
      BY DEF fs
    <2>3. j \in 1 .. j /\ j \in 1 .. Len(fs)
      <3>1. j \in Nat /\ j >= 1 /\ j \in 1 .. Len(fs)
        BY <1>3, <1>7
      <3>2. QED
        BY ONLY <3>1
    <2> DEFINE x == Place(f, "left")
    <2>7. fs \in Seq(Places) /\ x \in Places /\ ts = Append(fs, x) /\ Len(fs) = j /\ j \in 1 .. j
      BY <1>5, <1>7, <2>1, <2>2, <2>3
    <2> HIDE DEF x
    <2>4. ts \in Seq(Places) /\ Len(ts) = j + 1
      <3>1. Append(fs, x) \in Seq(Places)
        BY <2>7
      <3>2. Len(Append(fs, x)) = Len(fs) + 1
        BY <2>7
      <3>3. QED
        BY <2>7, <3>1, <3>2
    <2>5. ts[j + 1] = x /\ ts[j] = fs[j]
      <3>1. ts[Len(fs) + 1] = x
        BY <2>7
      <3>2. ts[j] = fs[j]
        BY <2>7
      <3>3. QED
        BY <2>7, <3>1, <3>2
    <2>6. QED
      BY <1>3, <1>5, <2>1, <2>2, <2>4, <2>5 DEF x
  <1>22. CallAt(to, Q, ts, W, Y, H, n)
    <2>1. u.node \in Q \cup {Owner} => f \notin Q
      BY <1>3, <1>10, <1>14, <1>15
    <2>2. ts[n - 1] = u /\ W[n - 1] = W[j] /\ H[n - 1] = H[j]
      BY <1>21 DEF j
    <2>3. ts[n].node = f /\ ts[n].side = "left" /\ Other("left") = "right"
      BY <1>21 DEF Place, Other
    <2>4. To(to, u) = f
      BY <1>13 DEF To
    <2>5. H[j] = H[n] + Weight(Q, f)
      BY <1>3, <1>15
    <2>6. /\ Joins("left", f, W[n], Y[n], W[j])
          /\ Tree(to, Q, to["right"][f], Y[n], H[n])
          /\ f \in Q => to["right"][f] \notin Q
      BY <1>18, <1>19, <1>20
    <2>7. QED
      BY ONLY <2>1, <2>2, <2>3, <2>4, <2>5, <2>6 DEF CallAt
  <1>23. Context(to, Q, ts, W, Y, H)
    <2>1. W[n] \subseteq W[j]
      BY <1>9, <1>11
    <2>2. CallAt(to, Q, ts, W, Y, H, j + 1) /\ W[j + 1] \subseteq W[j]
      BY <1>3, <1>22, <2>1
    <2>3. j = Len(fs) /\ ts = Append(fs, Place(f, "left")) /\ Place(f, "left") \in Places /\ j \in Nat
      BY <1>3, <1>5, <1>21
    <2>4. QED
      BY <1>16, <2>2, <2>3, ContextExtended
  <1>24. QED
    <2>1. To(to, ts[n]) = to["left"][f] /\ ts[n].node = f /\ f # Owner
      BY <1>21, NodeFacts DEF To, Place
    <2>2. QED
      BY <1>11, <1>18, <1>19, <1>21, <1>23, <2>1 DEF Shrunk

-----------------------------------------------------------------------------
(* The nodes of the whole tree, also while a call has not returned.        *)

\* What is below a node: itself and what is below its sons,
LEMMA NodesOfIs ==
    ASSUME NEW so \in Pointers
    PROVE  /\ NodesOf(so, NULL) = {}
           /\ \A n \in Nodes : NodesOf(so, n) =
                  {n} \cup NodesOf(so, so["left"][n]) \cup NodesOf(so, so["right"][n])
  <1> DEFINE f == CHOOSE g : g = [m \in Nodes \cup {NULL} |->
                                     IF m = NULL THEN {}
                                     ELSE {m} \cup g[so["left"][m]] \cup g[so["right"][m]]]
  <1>1. ASSUME NEW n PROVE NodesOf(so, n) = f[n]
    BY DEF NodesOf
  <1>2. f = [m \in Nodes \cup {NULL} |->
                 IF m = NULL THEN {} ELSE {m} \cup f[so["left"][m]] \cup f[so["right"][m]]]
    BY BelowExists
  <1> HIDE DEF f
  <1>3. f[NULL] = {}
    BY <1>2
  <1>4. \A n \in Nodes : f[n] = {n} \cup f[so["left"][n]] \cup f[so["right"][n]]
    BY <1>2, NodeFacts
  <1>5. QED
    BY <1>1, <1>3, <1>4

\* on either side.
LEMMA NodesOfSides ==
    ASSUME NEW so \in Pointers, NEW n \in Nodes, NEW l \in Sides
    PROVE  NodesOf(so, n) = {n} \cup NodesOf(so, so[l][n]) \cup NodesOf(so, so[Other(l)][n])
  <1>1. NodesOf(so, n) = {n} \cup NodesOf(so, so["left"][n]) \cup NodesOf(so, so["right"][n])
    BY NodesOfIs
  <1>2. QED
    BY <1>1 DEF Sides, Other

\* What is below the pointer of a call are the nodes it works on.
LEMMA ContextNodes ==
    ASSUME NEW so \in Pointers, NEW R \in SUBSET Nodes, NEW st, NEW X, NEW Y, NEW H,
           Context(so, R, st, X, Y, H), NEW n \in Nat, n = Len(st),
           NodesOf(so, To(so, st[n])) = X[n]
    PROVE  \A k \in 1 .. n : NodesOf(so, To(so, st[k])) = X[k]
  <1> DEFINE Good(i) == NodesOf(so, To(so, st[i])) = X[i]
             Bad == {i \in Nat : i < n /\ ~Good(n - i)}
  <1>1. n >= 1 /\ st[1] = Top
    BY DEF Context
  <1>2. ASSUME NEW i \in 2 .. n, Good(i) PROVE Good(i - 1)
    <2> DEFINE p == st[i].node  l == st[i].side
    <2>1. CallAt(so, R, st, X, Y, H, i) /\ st \in Seq(Places) /\ i \in 1 .. Len(st)
      BY DEF Context
    <2>2. p = To(so, st[i - 1]) /\ Joins(l, p, X[i], Y[i], X[i - 1])
          /\ Tree(so, R, so[Other(l)][p], Y[i], H[i])
      BY <2>1 DEF CallAt
    <2>3. l \in Sides /\ p \in Nodes
      BY <1>1, <2>1, <2>2, PlaceFacts DEF Joins
    <2>4. NodesOf(so, p) = {p} \cup NodesOf(so, so[l][p]) \cup NodesOf(so, so[Other(l)][p])
      BY <2>3, NodesOfSides
    <2>5. NodesOf(so, so[Other(l)][p]) = Y[i]
      BY <2>2, NodesOfTree
    <2>6. NodesOf(so, so[l][p]) = X[i]
      BY <1>2 DEF To
    <2>7. QED
      BY <2>2, <2>4, <2>5, <2>6 DEF Joins
  <1>3. Good(n)
    OBVIOUS
  <1> HIDE DEF Good
  <1>4. Bad = {}
    <2> SUFFICES ASSUME Bad # {} PROVE FALSE
      OBVIOUS
    <2>1. PICK x \in Bad : \A y \in Bad : x <= y
      <3>1. Bad \subseteq Nat
        OBVIOUS
      <3> HIDE DEF Bad
      <3>2. QED
        BY <3>1, LeastNatural
    <2>2. x \in Nat /\ x < n /\ ~Good(n - x)
      BY <2>1
    <2>3. x # 0
      BY <1>3, <2>2
    <2>4. x - 1 \in Nat /\ x - 1 < n /\ ~(x <= x - 1)
      BY <2>2, <2>3
    <2>5. Good(n - (x - 1))
      BY <2>1, <2>4
    <2>6. n - (x - 1) \in 2 .. n /\ (n - (x - 1)) - 1 = n - x
      BY <2>2, <2>3, <2>4
    <2>7. Good((n - (x - 1)) - 1)
      BY <1>2, <2>5, <2>6
    <2>8. QED
      BY <2>2, <2>6, <2>7
  <1>5. ASSUME NEW k \in 1 .. n PROVE Good(k)
    <2>1. n - k \in Nat /\ n - k < n /\ n - (n - k) = k
      BY <1>1
    <2>2. QED
      BY <1>4, <2>1
  <1>6. QED
    BY <1>5 DEF Good

\* A tree with a red root and a red son has its nodes, too.
LEMMA SoreNodes ==
    ASSUME NEW so \in Pointers, NEW R, NEW n, NEW X, NEW h, Sore(so, R, n, X, h)
    PROVE  NodesOf(so, n) = X
  <1>1. PICK l \in Sides, A \in SUBSET Nodes, B \in SUBSET Nodes :
          /\ Joins(l, n, A, B, X)
          /\ Tree(so, R, so[l][n], A, h) /\ Tree(so, R, so[Other(l)][n], B, h)
    BY DEF Sore
  <1>2. NodesOf(so, so[l][n]) = A /\ NodesOf(so, so[Other(l)][n]) = B
    BY <1>1, NodesOfTree
  <1>3. n \in Nodes /\ X = {n} \cup A \cup B
    BY <1>1 DEF Joins
  <1>4. QED
    BY <1>2, <1>3, NodesOfSides

\* At every stage each call works on what is below its pointer.
LEMMA OpenTrees ==
    ASSUME NEW so \in Pointers, NEW R \in SUBSET Nodes, NEW st, NEW X, NEW Y, NEW H,
           Open(so, R, st, X, Y, H)
    PROVE  \A k \in 1 .. Len(st) : NodesOf(so, To(so, st[k])) = X[k]
  <1> DEFINE n == Len(st)  x == To(so, st[n])
  <1>1. Context(so, R, st, X, Y, H) /\ Tree(so, R, x, X[n], H[n])
    BY DEF Open
  <1>2. n \in Nat
    BY <1>1 DEF Context
  <1>3. NodesOf(so, x) = X[n]
    BY <1>1, NodesOfTree
  <1>4. QED
    BY <1>1, <1>2, <1>3, ContextNodes

\* So does one that adds, on its way back up.
LEMMA GrownTrees ==
    ASSUME NEW so \in Pointers, NEW R \in SUBSET Nodes, NEW st, NEW X, NEW Y, NEW H,
           Grown(so, R, st, X, Y, H)
    PROVE  \A k \in 1 .. Len(st) : NodesOf(so, To(so, st[k])) = X[k]
  <1> DEFINE n == Len(st)  x == To(so, st[n])
  <1>1. /\ Context(so, R, st, X, Y, H)
        /\ Tree(so, R, x, X[n], H[n]) \/ Sore(so, R, x, X[n], H[n])
    BY DEF Grown
  <1>2. n \in Nat
    BY <1>1 DEF Context
  <1>3. NodesOf(so, x) = X[n]
    BY <1>1, NodesOfTree, SoreNodes
  <1>4. QED
    BY <1>1, <1>2, <1>3, ContextNodes

\* And one that deletes.
LEMMA ShrunkTrees ==
    ASSUME NEW so \in Pointers, NEW R \in SUBSET Nodes, NEW st, NEW X, NEW Y, NEW H,
           NEW less, Shrunk(so, R, st, X, Y, H, less)
    PROVE  \A k \in 1 .. Len(st) : NodesOf(so, To(so, st[k])) = X[k]
  <1> DEFINE n == Len(st)  x == To(so, st[n])  h == H[n] - IF less THEN 1 ELSE 0
  <1>1. Context(so, R, st, X, Y, H) /\ Tree(so, R, x, X[n], h)
    BY DEF Shrunk
  <1>2. n \in Nat
    BY <1>1 DEF Context
  <1>3. NodesOf(so, x) = X[n]
    BY <1>1, NodesOfTree
  <1>4. QED
    BY <1>1, <1>2, <1>3, ContextNodes

\* At every stage the members are the nodes the first call works on.
LEMMA WholeTree ==
    ASSUME NEW so \in Pointers, NEW R \in SUBSET Nodes, NEW st, NEW X, NEW Y, NEW H,
           NEW less,
           \/ Open(so, R, st, X, Y, H) \/ Grown(so, R, st, X, Y, H)
           \/ Shrunk(so, R, st, X, Y, H, less)
    PROVE  NodesOf(so, To(so, Top)) = X[1]
  <1>1. Context(so, R, st, X, Y, H)
    BY DEF Open, Grown, Shrunk
  <1>2. 1 \in 1 .. Len(st) /\ st[1] = Top
    BY <1>1 DEF Context
  <1>3. \A k \in 1 .. Len(st) : NodesOf(so, To(so, st[k])) = X[k]
    BY OpenTrees, GrownTrees, ShrunkTrees
  <1>4. QED
    BY <1>2, <1>3

-----------------------------------------------------------------------------
(* The inductive invariant: what is true of the tree at every stage.       *)

\* No call is changing the tree.
Standing ==
    /\ root \notin red
    /\ \E h : Tree(son, red, root, Members, h)

\* The members with the key that is looked for are below the pointer.
Sought ==
    /\ elem \in Nodes
    /\ stack \in Seq(Places) /\ Len(stack) = 1
    /\ \E X, h : /\ Tree(son, red, At(Calling), X, h)
                 /\ X \subseteq Members
                 /\ \A m \in Members : Key[m] = Key[elem] => m \in X

\* The pointers that were followed lead to the place of the new element.
Entering ==
    /\ elem \in Nodes \ Members
    /\ \A q \in Sides : son[q][elem] = NULL
    /\ \E X, Y, H :
          /\ Open(son, red, stack, X, Y, H) /\ X[1] = Members
          /\ \A i \in 2 .. Len(stack) : On(stack[i].side, elem, stack[i].node)

\* The tree of the last call has the new element.
Arrived ==
    /\ elem \in Members
    /\ \E X, Y, H : Grown(son, red, stack, X, Y, H) /\ X[1] = Members

\* The element to delete is in the tree of the last call.
Searched ==
    \E X, Y, H :
       /\ Open(son, red, stack, X, Y, H) /\ X[1] = Members
       /\ elem \in X[Len(stack)]

\* The nodes on the left of the element that are not in the tree of the last
\* call are before those that are.
Leaving ==
    /\ elem \in Members
    /\ At(Calling) # NULL
    /\ \E X, Y, H :
          /\ Open(son, red, stack, X, Y, H) /\ X[1] = Members
          /\ \E k \in 2 .. Len(stack) :
                /\ stack[k] = Place(elem, "left")
                /\ \A m \in X[k] \ X[Len(stack)], o \in X[Len(stack)] : Before(m, o)

\* A node is out of the tree: the element, or the leaf that comes in its place.
Left ==
    /\ elem \in Nodes
    /\ \E X, Y, H :
          /\ Shrunk(son, red, stack, X, Y, H, short) /\ X[1] = Members
          /\ leaf = NULL => elem \notin Members
          /\ leaf # NULL =>
                /\ elem \in Members /\ leaf \in Nodes \ Members
                /\ \A i \in 2 .. Len(stack) : On(stack[i].side, leaf, stack[i].node)
                /\ \E k \in 2 .. Len(stack) :
                      /\ stack[k] = Place(elem, "left")
                      /\ \A m \in X[k] : Before(m, leaf)

TreeInv ==
    /\ stage \in {"idle", "lookAdd", "lookDelete"} => Standing
    /\ Looking => Sought
    /\ stage = "lookAdd" => elem \notin Members
    /\ stage = "add" => Entering
    /\ stage = "added" => Arrived
    /\ stage = "search" => Searched
    /\ stage = "leaf" => Leaving
    /\ stage = "deleted" => Left
    /\ stage # "deleted" => leaf = NULL

IInv == TypeOK /\ (at => path # <<>>) /\ ~failed /\ TreeInv

\* What the abstract dictionary may do in a step.
DictionaryStep == Set!Next \/ (Elements' = Elements /\ answer' = answer)

-----------------------------------------------------------------------------
(* The invariant holds at first, and calls begin from a standing tree.     *)

\* It holds at first.
LEMMA InitInv ==
    ASSUME Init PROVE IInv /\ Elements = {}
  <1>1. TypeOK
    <2>1. <<>> \in Seq(Places) /\ <<>> \in Seq([node : Nodes, pass : 0 .. 2]) /\ <<>> \in Seq(Nodes)
      OBVIOUS
    <2>2. son \in [Sides -> [Nodes \cup {Owner} -> Nodes \cup {NULL}]]
      BY DEF Init
    <2>3. order \in 0 .. 2
      BY DEF Init, WalkOrder, PostOrder
    <2>4. {short, at, touched, failed} \subseteq BOOLEAN
      BY DEF Init
    <2>5. QED
      BY <2>1, <2>2, <2>3, <2>4 DEF Init, TypeOK, Uses
  <1>2. root = NULL
    BY NodeFacts DEF Init, root, At, Top, Place, Sides
  <1>3. Tree(son, red, NULL, {}, 0)
    BY EmptyTree
  <1>4. son \in Pointers
    BY <1>1 DEF TypeOK, Pointers
  <1>5. Members = {}
    BY <1>2, <1>3, <1>4, NodesOfTree DEF Members
  <1>6. Standing
    BY <1>2, <1>3, <1>5, NodeFacts DEF Standing, Init
  <1>7. IInv
    BY <1>1, <1>6 DEF IInv, TreeInv, Looking, Init
  <1>8. QED
    BY <1>5, <1>7 DEF Elements, Init

\* What every action may use.
LEMMA Types ==
    ASSUME TypeOK
    PROVE  /\ son \in Pointers /\ red \in SUBSET Nodes /\ NULL \notin red
           /\ {short, failed} \subseteq BOOLEAN /\ stack \in Seq(Places)
           /\ root = To(son, Top) /\ Members = NodesOf(son, To(son, Top))
  BY NodeFacts DEF TypeOK, Pointers, root, At, To, Members

\* The tree of a standing root.
LEMMA StandingFacts ==
    ASSUME TypeOK, Standing
    PROVE  /\ \E h : Tree(son, red, To(son, Top), Members, h)
           /\ To(son, Top) \notin red
           /\ Members \subseteq Nodes
  BY Types, TreeFacts DEF Standing

\* A tree that keeps the links and colours of its nodes still stands.
LEMMA StillStanding ==
    ASSUME TypeOK, Standing, son' \in Pointers, red' \in SUBSET Nodes,
           To(son', Top) = To(son, Top),
           \A m \in Members : (m \in red' <=> m \in red) /\ \A q \in Sides : son'[q][m] = son[q][m]
    PROVE  Standing' /\ Members' = Members
  <1> DEFINE to == son'  Q == red'  n == To(son, Top)
  <1>1. PICK h : Tree(son, red, n, Members, h)
    BY StandingFacts
  <1>2. to \in Pointers /\ Q \in SUBSET Nodes /\ NULL \notin Q /\ NULL \notin red
        /\ n = To(to, Top)
    BY Types, NodeFacts DEF TypeOK, Pointers, To
  <1>3. \A m \in Members : (m \in Q <=> m \in red) /\ \A q \in Sides : to[q][m] = son[q][m]
    OBVIOUS
  <1> HIDE DEF to, Q, n
  <1>4. Tree(to, Q, n, Members, h)
    BY <1>1, <1>2, <1>3, Untouched
  <1>5. NodesOf(to, n) = Members
    BY <1>2, <1>4, NodesOfTree
  <1>6. Members' = Members
    BY <1>2, <1>5 DEF Members, root, At, To, to
  <1>7. n \notin Q
    <2>1. n \in Members \cup {NULL} /\ n \notin red
      BY <1>1, StandingFacts, TreeFacts DEF n
    <2>2. QED
      BY <1>2, <1>3, <2>1
  <1>8. root' = n
    BY <1>2 DEF root, At, To, to
  <1>9. Standing'
    BY <1>4, <1>6, <1>7, <1>8 DEF Standing, to, Q
  <1>10. QED
    BY <1>6, <1>9

\* What the steps of a call leave alone.
Stages == {"idle", "lookAdd", "lookDelete", "add", "added", "search", "leaf", "deleted"}

\* A step of a call leaves the iterator alone.
LEMMA CallStep ==
    ASSUME IInv, UNCHANGED walkVars, failed' = failed,
           son' \in Pointers, red' \in SUBSET Nodes, stage' \in Stages,
           elem' \in Nodes \cup {NULL}, leaf' \in Nodes \cup {NULL},
           answer' \in Nodes \cup {NULL}, stack' \in Seq(Places), short' \in BOOLEAN,
           TreeInv'
    PROVE  IInv'
  <1>1. TypeOK'
    <2>1. {short', at', touched', failed'} \subseteq BOOLEAN
      BY DEF IInv, TypeOK, walkVars
    <2>2. /\ use' \in Uses \cup {"none"} /\ order' \in 0 .. 2
          /\ path' \in Seq([node : Nodes, pass : 0 .. 2])
          /\ seen' \in Seq(Nodes) /\ start' \subseteq Nodes
      BY DEF IInv, TypeOK, walkVars
    <2>3. QED
      BY <2>1, <2>2 DEF TypeOK, Pointers, Stages
  <1>2. QED
    BY <1>1 DEF IInv, walkVars

\* The members before and after a step.
LEMMA MembersAre ==
    Members = NodesOf(son, To(son, Top)) /\ Members' = NodesOf(son', To(son', Top))
  BY DEF Members, root, At, To

\* The pointer to the tree of the first call.
LEMMA CallingTop ==
    /\ stack = <<Top>> => Calling = Top
    /\ stack' = <<Top>> => Calling' = Top
  BY DEF Calling, Last

\* add() begins.
LEMMA AddBegins ==
    ASSUME TypeOK, Standing, NEW e \in Nodes, e \notin Members, BeginAdd(e), red' = red
    PROVE  /\ son' \in Pointers /\ Members' = Members /\ Entering'
           /\ stage' = "add" /\ elem' = e /\ leaf' = NULL /\ short' = FALSE /\ stack' = <<Top>>
  <1> DEFINE to == son'  Q == red'
  <1>1. son \in Pointers /\ red \in SUBSET Nodes /\ NULL \notin red
    BY Types
  <1>2. /\ to \in Pointers
        /\ \A q \in Sides : to[q][e] = NULL
        /\ \A q \in Sides, m \in Nodes \cup {Owner} : m = e \/ to[q][m] = son[q][m]
    <2> DEFINE s1 == [son EXCEPT !["left"][e] = NULL]  s2 == [s1 EXCEPT !["right"][e] = NULL]
    <2>1. to = s2
      BY DEF BeginAdd
    <2>2. s1 \in Pointers /\ \A q \in Sides, m \in Nodes \cup {Owner} : IF q = "left" /\ m = e THEN s1[q][m] = NULL ELSE s1[q][m] = son[q][m]
      BY <1>1 DEF Pointers, Sides
    <2> HIDE DEF s1
    <2>3. s2 \in Pointers /\ \A q \in Sides, m \in Nodes \cup {Owner} : IF q = "right" /\ m = e THEN s2[q][m] = NULL ELSE s2[q][m] = s1[q][m]
      BY <2>2 DEF Pointers, Sides
    <2>4. QED
      BY <2>1, <2>2, <2>3 DEF Sides
  <1>3. To(to, Top) = To(son, Top)
    BY <1>2, NodeFacts DEF To, Top, Place, Sides
  <1>4. Members \subseteq Nodes
    BY StandingFacts
  <1>5. Standing' /\ Members' = Members
    <2>1. \A m \in Members : (m \in red' <=> m \in red) /\ \A q \in Sides : son'[q][m] = son[q][m]
      BY <1>2, <1>4
    <2>2. QED
      BY <1>1, <1>2, <1>3, <2>1, StillStanding
  <1>6. PICK h : Tree(to, Q, To(to, Top), Members', h)
    BY <1>5 DEF Standing, root, At, To
  <1>7. To(to, Top) \notin Q
    BY <1>5 DEF Standing, root, At, To
  <1>8. to \in Pointers /\ Q \in SUBSET Nodes
    BY <1>1, <1>2
  <1>9. stack' = <<Top>> /\ stage' = "add" /\ elem' = e /\ leaf' = NULL /\ short' = FALSE
    BY DEF BeginAdd, Begin
  <1>10. PICK X, Y, H : Open(to, Q, <<Top>>, X, Y, H) /\ X[1] = Members'
    <2> HIDE DEF to, Q
    <2>1. QED
      BY <1>6, <1>7, <1>8, Begun
  <1>11. Entering'
    <2>1. Len(stack') = 1
      BY <1>9
    <2>2. Open(son', red', stack', X, Y, H) /\ X[1] = Members'
      BY <1>9, <1>10
    <2>3. \A i \in 2 .. Len(stack') : On(stack'[i].side, elem', stack'[i].node)
      BY <2>1
    <2>4. elem' \in Nodes \ Members' /\ \A q \in Sides : son'[q][elem'] = NULL
      BY <1>2, <1>5, <1>9
    <2>5. QED
      BY <2>2, <2>3, <2>4 DEF Entering
  <1>12. QED
    BY <1>2, <1>5, <1>9, <1>11

\* A lookup begins with all members.
LEMMA SoughtBegins ==
    ASSUME TypeOK, Standing, NEW e \in Nodes, UNCHANGED treeVars, stack' = <<Top>>, elem' = e
    PROVE  Standing' /\ Sought' /\ Members' = Members
  <1>1. son' = son /\ red' = red /\ root' = root /\ Members' = Members
    BY DEF treeVars, root, At, Members
  <1>2. Standing'
    BY <1>1 DEF Standing
  <1>3. At(Calling)' = root'
    BY CallingTop DEF At, root
  <1>4. stack' \in Seq(Places) /\ Len(stack') = 1
    BY DEF Top, Place, Places, Sides
  <1>5. Sought'
    BY <1>2, <1>3, <1>4 DEF Standing, Sought
  <1>6. QED
    BY <1>1, <1>2, <1>5

\* delete() begins.
LEMMA SearchBegins ==
    ASSUME TypeOK, Standing, NEW e \in Members, UNCHANGED treeVars, Begin("search", e)
    PROVE  Searched' /\ Members' = Members /\ e \in Nodes
  <1>1. son' = son /\ red' = red /\ root' = root /\ Members' = Members
    BY DEF treeVars, root, At, Members
  <1>2. PICK h : Tree(son, red, To(son, Top), Members, h)
    BY StandingFacts
  <1>3. PICK X, Y, H : Open(son, red, <<Top>>, X, Y, H) /\ X[1] = Members
    BY <1>2, Types, StandingFacts, Begun
  <1>4. stack' = <<Top>> /\ elem' = e /\ Len(<<Top>>) = 1
    BY DEF Begin
  <1>5. Searched'
    BY <1>1, <1>3, <1>4 DEF Searched
  <1>6. QED
    BY <1>1, <1>5, StandingFacts

-----------------------------------------------------------------------------
(* The calls of the user and the lookups they begin with.                  *)

\* Between the calls and while one looks up, the tree stands.
LEMMA IdleFacts ==
    ASSUME IInv, stage \in {"idle", "lookAdd", "lookDelete"}
    PROVE  /\ TypeOK /\ Standing /\ Elements = Members /\ leaf = NULL /\ Members \subseteq Nodes
           /\ son \in Pointers /\ red \in SUBSET Nodes
  <1>1. TypeOK /\ Standing /\ leaf = NULL
    BY DEF IInv, TreeInv
  <1>2. QED
    BY <1>1, StandingFacts, Types DEF Elements

\* The variables of a call that begins
LEMMA BegunTypes ==
    ASSUME NEW d, NEW e, Begin(d, e)
    PROVE  /\ stage' = d /\ elem' = e /\ stack' = <<Top>> /\ leaf' = NULL /\ short' = FALSE
           /\ stack' \in Seq(Places) /\ short' \in BOOLEAN /\ leaf' \in Nodes \cup {NULL}
  <1>1. Top \in Places
    BY DEF Top, Place, Places, Sides
  <1>2. <<Top>> \in Seq(Places)
    BY <1>1
  <1>3. QED
    BY <1>2 DEF Begin

\* The calls of the user: each keeps the invariant and is a step of the dictionary.
LEMMA AddStep ==
    ASSUME IInv, NEW e \in Nodes, Add(e)
    PROVE  IInv' /\ DictionaryStep
  <1>1. /\ TypeOK /\ Standing /\ Elements = Members /\ Members \subseteq Nodes
        /\ e \notin Members /\ BeginAdd(e) /\ red' = red /\ red \in SUBSET Nodes
    BY IdleFacts DEF Add, Idle
  <1>2. /\ son' \in Pointers /\ Members' = Members /\ Entering'
        /\ stage' = "add" /\ elem' = e /\ leaf' = NULL /\ short' = FALSE /\ stack' = <<Top>>
    BY <1>1, AddBegins
  <1>3. TreeInv'
    BY <1>2 DEF TreeInv, Looking
  <1>4. IInv'
    BY <1>1, <1>2, <1>3, BegunTypes, CallStep DEF Add, BeginAdd, Stages
  <1>5. Elements' = Elements \cup {e} /\ e \notin Elements /\ answer' = NULL
    BY <1>1, <1>2 DEF Elements, Add
  <1>6. QED
    BY <1>4, <1>5 DEF DictionaryStep, Set!Next, Set!Add

\* add_if_not_member() begins to look for its argument.
LEMMA AddIfNotMemberStep ==
    ASSUME IInv, NEW e \in Nodes, AddIfNotMember(e)
    PROVE  IInv' /\ DictionaryStep
  <1>1. /\ TypeOK /\ Standing /\ Elements = Members /\ e \notin Members
        /\ Begin("lookAdd", e) /\ UNCHANGED treeVars
        /\ son \in Pointers /\ red \in SUBSET Nodes /\ answer \in Nodes \cup {NULL}
    BY IdleFacts DEF AddIfNotMember, Idle, TypeOK
  <1>2. /\ stage' = "lookAdd" /\ elem' = e /\ leaf' = NULL /\ stack' = <<Top>>
        /\ Standing' /\ Sought' /\ Members' = Members
    BY <1>1, BegunTypes, SoughtBegins
  <1>3. TreeInv'
    BY <1>1, <1>2 DEF TreeInv, Looking
  <1>4. IInv'
    BY <1>1, <1>2, <1>3, BegunTypes, CallStep DEF AddIfNotMember, Stages, treeVars
  <1>5. Elements' = Elements /\ answer' = answer
    BY <1>1, <1>2 DEF Elements, AddIfNotMember
  <1>6. QED
    BY <1>4, <1>5 DEF DictionaryStep

\* delete() begins to look for the node.
LEMMA DeleteStep ==
    ASSUME IInv, NEW e \in Nodes, Delete(e)
    PROVE  IInv' /\ DictionaryStep
  <1>1. /\ TypeOK /\ Standing /\ Elements = Members /\ e \in Members
        /\ Begin("search", e) /\ UNCHANGED treeVars
        /\ son \in Pointers /\ red \in SUBSET Nodes
    BY IdleFacts DEF Delete, Idle, TypeOK
  <1>2. /\ stage' = "search" /\ elem' = e /\ leaf' = NULL
        /\ Searched' /\ Members' = Members
    BY <1>1, BegunTypes, SearchBegins
  <1>3. TreeInv'
    BY <1>1, <1>2 DEF TreeInv, Looking
  <1>4. IInv'
    BY <1>1, <1>2, <1>3, BegunTypes, CallStep DEF Delete, Stages, treeVars
  <1>5. Elements' = Elements \ {e} /\ e \in Elements /\ answer' = NULL
    BY <1>1, <1>2 DEF Elements, Delete
  <1>6. QED
    BY <1>4, <1>5 DEF DictionaryStep, Set!Next, Set!Delete

\* delete_if_member() begins to look for a member with the key.
LEMMA DeleteIfMemberStep ==
    ASSUME IInv, NEW e \in Nodes, DeleteIfMember(e)
    PROVE  IInv' /\ DictionaryStep
  <1>1. /\ TypeOK /\ Standing /\ Elements = Members
        /\ Begin("lookDelete", e) /\ UNCHANGED treeVars
        /\ son \in Pointers /\ red \in SUBSET Nodes /\ answer \in Nodes \cup {NULL}
    BY IdleFacts DEF DeleteIfMember, Idle, TypeOK
  <1>2. /\ stage' = "lookDelete" /\ elem' = e /\ leaf' = NULL /\ stack' = <<Top>>
        /\ Standing' /\ Sought' /\ Members' = Members
    BY <1>1, BegunTypes, SoughtBegins
  <1>3. TreeInv'
    BY <1>1, <1>2 DEF TreeInv, Looking
  <1>4. IInv'
    BY <1>1, <1>2, <1>3, BegunTypes, CallStep DEF DeleteIfMember, Stages, treeVars
  <1>5. Elements' = Elements /\ answer' = answer
    BY <1>1, <1>2 DEF Elements, DeleteIfMember
  <1>6. QED
    BY <1>4, <1>5 DEF DictionaryStep

\* In which tree the lookup is.
LEMMA SoughtFacts ==
    ASSUME IInv, Looking
    PROVE  /\ TypeOK /\ Standing /\ Elements = Members /\ Members \subseteq Nodes /\ leaf = NULL
           /\ elem \in Nodes /\ son \in Pointers /\ red \in SUBSET Nodes
           /\ At(Calling) \in Nodes \cup {NULL}
           /\ \E X, h : /\ Tree(son, red, At(Calling), X, h)
                        /\ X \subseteq Members
                        /\ \A m \in Members : Key[m] = Key[elem] => m \in X
  <1>1. Sought /\ stage \in {"idle", "lookAdd", "lookDelete"}
    BY DEF IInv, TreeInv, Looking
  <1>2. QED
    BY <1>1, IdleFacts, TreeFacts DEF Sought

\* The steps of a lookup.
LEMMA LookDownStep ==
    ASSUME IInv, LookDown
    PROVE  IInv' /\ DictionaryStep
  <1> DEFINE t == At(Calling)
             l == IF Key[elem] < Key[t] THEN "left" ELSE "right"
  <1>1. Looking /\ ~Met
    BY DEF LookDown
  <1>2. /\ TypeOK /\ Standing /\ Elements = Members /\ Members \subseteq Nodes /\ leaf = NULL
        /\ elem \in Nodes /\ son \in Pointers /\ red \in SUBSET Nodes
    BY <1>1, SoughtFacts
  <1>3. t # NULL /\ Key[t] # Key[elem]
    BY <1>1 DEF Met
  <1>4. PICK X, h : /\ Tree(son, red, t, X, h)
                    /\ X \subseteq Members
                    /\ \A m \in Members : Key[m] = Key[elem] => m \in X
    BY <1>1, SoughtFacts
  <1>5. t \in Nodes /\ l \in Sides
    BY <1>3, <1>4, TreeFacts DEF Sides
  <1>6. PICK A \in SUBSET Nodes, B \in SUBSET Nodes, k \in Nat :
          /\ Joins(l, t, A, B, X)
          /\ Tree(son, red, son[l][t], A, k)
    <2> HIDE DEF t, l
    <2>1. QED
      BY <1>2, <1>3, <1>4, <1>5, TakeApart
  <1>7. \A m \in X : Key[m] = Key[elem] => m \in A
    <2> SUFFICES ASSUME NEW m \in X, Key[m] = Key[elem], m \notin A PROVE FALSE
      OBVIOUS
    <2>1. m # t /\ m \in B /\ m \in Nodes /\ X = {t} \cup A \cup B
      BY <1>3, <1>6 DEF Joins
    <2>2. On(Other(l), m, t)
      BY <1>6, <2>1 DEF Joins
    <2>3. Key[m] \in Int /\ Key[t] \in Int
      BY <1>5, <2>1, NodeFacts
    <2>4. IF Key[elem] < Key[t] THEN Before(t, m) ELSE Before(m, t)
      BY <2>2 DEF On, Other
    <2>5. QED
      BY <1>3, <2>3, <2>4 DEF Before
  <1>8. /\ stack' = <<Place(t, l)>> /\ UNCHANGED <<treeVars, stage, elem, leaf, short, answer, walkVars, failed>>
    BY DEF LookDown
  <1>9. son' = son /\ red' = red /\ root' = root /\ Members' = Members /\ stage' = stage /\ elem' = elem /\ leaf' = leaf
    BY <1>8 DEF treeVars, root, At, Members
  <1>10. stack' \in Seq(Places) /\ Len(stack') = 1 /\ At(Calling)' = son[l][t]
    <2>1. /\ Place(t, l) \in Places
          /\ Place(t, l).node = t /\ Place(t, l).side = l
      BY ONLY <1>5 DEF Places, Place
    <2>2. stack' \in Seq(Places) /\ Len(stack') = 1 /\ stack'[1] = Place(t, l)
      BY ONLY <1>8, <2>1
    <2>3. At(Calling)' = son'[stack'[1].side][stack'[1].node]
      BY ONLY <2>2 DEF Calling, Last, At
    <2>4. QED
      BY ONLY <1>9, <2>1, <2>2, <2>3
  <1>11. Sought'
    <2>1. A \subseteq Members' /\ \A m \in Members' : Key[m] = Key[elem'] => m \in A
      BY <1>4, <1>6, <1>7, <1>9 DEF Joins
    <2>2. Tree(son', red', At(Calling)', A, k)
      BY <1>6, <1>9, <1>10
    <2>3. QED
      BY <1>2, <1>9, <1>10, <2>1, <2>2 DEF Sought
  <1>12. Standing'
    BY <1>2, <1>9 DEF Standing
  <1>13. stage = "lookAdd" => elem \notin Members
    BY DEF IInv, TreeInv
  <1>14. TreeInv'
    BY <1>1, <1>2, <1>9, <1>11, <1>12, <1>13 DEF TreeInv, Looking
  <1>15. IInv'
    <2>1. stage \in Stages /\ answer \in Nodes \cup {NULL} /\ short \in BOOLEAN /\ leaf \in Nodes \cup {NULL}
      BY <1>2 DEF TypeOK, Stages
    <2>2. QED
      BY <1>2, <1>8, <1>9, <1>10, <1>14, <2>1, CallStep
  <1>16. Elements' = Elements /\ answer' = answer
    BY <1>8, <1>9 DEF Elements
  <1>17. QED
    BY <1>15, <1>16 DEF DictionaryStep

\* When the lookup has ended it has found what a lookup may find.
LEMMA MetFound ==
    ASSUME IInv, Looking, Met, Elements = Members
    PROVE  /\ At(Calling) \in Set!Found(elem)
           /\ At(Calling) # NULL => At(Calling) \in Members
  <1>1. /\ Members \subseteq Nodes /\ elem \in Nodes
        /\ At(Calling) \in Nodes \cup {NULL}
        /\ \E X, h : /\ Tree(son, red, At(Calling), X, h)
                     /\ X \subseteq Members
                     /\ \A m \in Members : Key[m] = Key[elem] => m \in X
    BY SoughtFacts
  <1>2. PICK X, h : /\ Tree(son, red, At(Calling), X, h)
                    /\ X \subseteq Members
                    /\ \A m \in Members : Key[m] = Key[elem] => m \in X
    BY <1>1
  <1>3. At(Calling) = NULL => X = {}
    BY <1>2, TreeFacts
  <1>4. At(Calling) # NULL => At(Calling) \in Members /\ Key[At(Calling)] = Key[elem]
    BY <1>2, TreeFacts DEF Met
  <1>5. QED
    BY <1>1, <1>2, <1>3, <1>4 DEF Set!Found

\* and of one that has ended.
LEMMA Ended ==
    ASSUME End
    PROVE  /\ stage' = "idle" /\ elem' = NULL /\ leaf' = NULL /\ stack' \in Seq(Places) /\ short' \in BOOLEAN
           /\ elem' \in Nodes \cup {NULL} /\ leaf' \in Nodes \cup {NULL} /\ stage' \in Stages
  <1>1. <<>> \in Seq(Places)
    OBVIOUS
  <1>2. QED
    BY <1>1 DEF End, Stages

\* The lookup of add_if_not_member() has found a member, or adds one.
LEMMA LookAddEndStep ==
    ASSUME IInv, LookAddEnd
    PROVE  IInv' /\ DictionaryStep
  <1>1. Looking /\ Met /\ stage = "lookAdd" /\ elem \notin Members
    BY DEF LookAddEnd, Looking, IInv, TreeInv
  <1>2. /\ TypeOK /\ Standing /\ Elements = Members /\ Members \subseteq Nodes /\ leaf = NULL
        /\ elem \in Nodes /\ son \in Pointers /\ red \in SUBSET Nodes
        /\ At(Calling) \in Nodes \cup {NULL}
    BY <1>1, SoughtFacts
  <1>3. /\ At(Calling) \in Set!Found(elem)
        /\ At(Calling) # NULL => At(Calling) \in Members
    BY <1>1, <1>2, MetFound
  <1>4. answer' = At(Calling) /\ red' = red /\ UNCHANGED walkVars /\ failed' = failed
    BY DEF LookAddEnd
  <1>5. CASE answer' = NULL
    <2>1. BeginAdd(elem)
      BY <1>5 DEF LookAddEnd
    <2>2. /\ son' \in Pointers /\ Members' = Members /\ Entering'
          /\ stage' = "add" /\ elem' = elem /\ leaf' = NULL /\ short' = FALSE /\ stack' = <<Top>>
      BY <1>1, <1>2, <1>4, <2>1, AddBegins
    <2>3. TreeInv'
      BY <2>2 DEF TreeInv, Looking
    <2>4. IInv'
      BY <1>2, <1>4, <1>5, <2>1, <2>2, <2>3, BegunTypes, CallStep DEF BeginAdd, Stages
    <2>5. Elements' = Elements \cup {elem}
      BY <1>2, <2>2 DEF Elements
    <2>6. Set!AddIfNotMember(elem)
      BY <1>1, <1>2, <1>3, <1>4, <1>5, <2>5 DEF Set!AddIfNotMember
    <2>7. QED
      BY <1>2, <2>4, <2>6 DEF DictionaryStep, Set!Next
  <1>6. CASE answer' # NULL
    <2>1. End /\ son' = son
      BY <1>6 DEF LookAddEnd
    <2>2. root' = root /\ Members' = Members
      BY <1>4, <2>1 DEF root, At, Members
    <2>3. Standing'
      BY <1>2, <1>4, <2>1, <2>2 DEF Standing
    <2>4. TreeInv'
      BY <2>1, <2>3, Ended DEF TreeInv, Looking
    <2>5. IInv'
      BY <1>2, <1>4, <2>1, <2>4, Ended, CallStep
    <2>6. Elements' = Elements
      BY <1>2, <2>1, <2>2, Ended DEF Elements
    <2>7. Set!AddIfNotMember(elem)
      BY <1>1, <1>2, <1>3, <1>4, <1>6, <2>6 DEF Set!AddIfNotMember
    <2>8. QED
      BY <1>2, <2>5, <2>7 DEF DictionaryStep, Set!Next
  <1>7. QED
    BY <1>5, <1>6

\* The lookup of delete_if_member() has found none, or deletes it.
LEMMA LookDeleteEndStep ==
    ASSUME IInv, LookDeleteEnd
    PROVE  IInv' /\ DictionaryStep
  <1>1. Looking /\ Met /\ stage = "lookDelete"
    BY DEF LookDeleteEnd, Looking
  <1>2. /\ TypeOK /\ Standing /\ Elements = Members /\ Members \subseteq Nodes /\ leaf = NULL
        /\ elem \in Nodes /\ son \in Pointers /\ red \in SUBSET Nodes
        /\ At(Calling) \in Nodes \cup {NULL}
    BY <1>1, SoughtFacts
  <1>3. /\ At(Calling) \in Set!Found(elem)
        /\ At(Calling) # NULL => At(Calling) \in Members
    BY <1>1, <1>2, MetFound
  <1>4. answer' = At(Calling) /\ UNCHANGED treeVars /\ UNCHANGED walkVars /\ failed' = failed
    BY DEF LookDeleteEnd
  <1>5. CASE answer' = NULL
    <2>1. End
      BY <1>5 DEF LookDeleteEnd
    <2>2. son' = son /\ red' = red /\ root' = root /\ Members' = Members
      BY <1>4 DEF root, At, Members, treeVars
    <2>3. Standing'
      BY <1>2, <2>2 DEF Standing
    <2>4. TreeInv'
      BY <2>1, <2>3, Ended DEF TreeInv, Looking
    <2>5. IInv'
      BY <1>2, <1>4, <2>1, <2>2, <2>4, Ended, CallStep
    <2>6. Elements' = Elements \ {answer'}
      BY <1>2, <1>5, <2>1, <2>2, Ended, NodeFacts DEF Elements
    <2>7. Set!DeleteIfMember(elem)
      BY <1>3, <1>4, <2>6 DEF Set!DeleteIfMember
    <2>8. QED
      BY <1>2, <2>5, <2>7 DEF DictionaryStep, Set!Next
  <1>6. CASE answer' # NULL
    <2>1. Begin("search", answer') /\ answer' \in Members
      BY <1>3, <1>4, <1>6 DEF LookDeleteEnd
    <2>2. stage' = "search" /\ leaf' = NULL /\ elem' = answer'
          /\ stack' \in Seq(Places) /\ short' \in BOOLEAN /\ leaf' \in Nodes \cup {NULL}
      BY <2>1, BegunTypes
    <2>3. Searched' /\ Members' = Members /\ answer' \in Nodes
      <3> DEFINE e == At(Calling)
      <3>1. e \in Members /\ Begin("search", e)
        BY <1>4, <2>1
      <3> HIDE DEF e
      <3>2. Searched' /\ Members' = Members /\ e \in Nodes
        BY <1>2, <1>4, <3>1, SearchBegins
      <3>3. QED
        BY <1>4, <3>2 DEF e
    <2>4. TreeInv'
      BY <2>2, <2>3 DEF TreeInv, Looking
    <2>5. IInv'
      BY <1>2, <1>4, <2>2, <2>3, <2>4, CallStep DEF Stages, treeVars
    <2>6. Elements' = Elements \ {answer'}
      BY <1>2, <2>2, <2>3 DEF Elements
    <2>7. Set!DeleteIfMember(elem)
      BY <1>3, <1>4, <2>6 DEF Set!DeleteIfMember
    <2>8. QED
      BY <1>2, <2>5, <2>7 DEF DictionaryStep, Set!Next
  <1>7. QED
    BY <1>5, <1>6

-----------------------------------------------------------------------------
(* Adding.                                                                 *)

\* One place more.
LEMMA PlaceAdded ==
    ASSUME NEW st \in Seq(Places), NEW x \in Places, NEW n \in Nat, n = Len(st),
           NEW ts, ts = Append(st, x)
    PROVE  /\ ts \in Seq(Places) /\ Len(ts) = n + 1 /\ ts[n + 1] = x
           /\ \A i \in 1 .. n : ts[i] = st[i]
  OBVIOUS

\* Where the call at work is.
LEMMA CallFacts ==
    ASSUME IInv, NEW X, NEW Y, NEW H, Context(son, red, stack, X, Y, H), X[1] = Members
    PROVE  /\ stack \in Seq(Places) /\ Len(stack) \in Nat /\ Len(stack) >= 1
           /\ Calling = stack[Len(stack)] /\ At(Calling) = To(son, stack[Len(stack)])
           /\ son \in Pointers /\ red \in SUBSET Nodes /\ Members \subseteq Nodes
           /\ X[Len(stack)] \subseteq Members /\ Calling.node \in Members \cup {Owner}
           /\ Calling.node \notin X[Len(stack)]
           /\ Calling \in Places
           /\ \A i \in 1 .. Len(stack) : X[Len(stack)] \subseteq X[i] /\ X[i] \subseteq Members
  <1>1. son \in Pointers /\ red \in SUBSET Nodes /\ stack \in Seq(Places)
    BY Types DEF IInv
  <1>2. Len(stack) \in Nat
    BY <1>1
  <1>3. Calling = stack[Len(stack)] /\ Len(stack) >= 1
    BY <1>2, CallingIsLast
  <1>4. Stacked(stack, X, Y, H, Len(stack))
    BY <1>1, <1>2, ContextFacts
  <1>5. \A i \in 1 .. Len(stack) : X[Len(stack)] \subseteq X[i] /\ X[i] \subseteq Members
    BY <1>4 DEF Stacked
  <1>6. X[Len(stack)] \subseteq Members /\ Members \subseteq Nodes
        /\ Calling.node \in Members \cup {Owner} /\ Calling.node \notin X[Len(stack)]
    BY <1>2, <1>3, <1>4, <1>5 DEF Stacked
  <1>7. Calling \in Places
    BY <1>1, <1>2, <1>3
  <1>8. QED
    BY <1>1, <1>2, <1>3, <1>5, <1>6, <1>7 DEF At, To

\* The steps of add().
LEMMA AddDownStep ==
    ASSUME IInv, AddDown
    PROVE  IInv' /\ DictionaryStep
  <1> DEFINE t == At(Calling)  l == Side(elem, t)  n == Len(stack)
  <1>1. stage = "add" /\ t # NULL /\ stack' = Append(stack, Place(t, l))
        /\ UNCHANGED <<treeVars, stage, elem, leaf, short, answer, walkVars, failed>>
    BY DEF AddDown, Calls
  <1>2. Entering /\ leaf = NULL /\ TypeOK
    BY <1>1 DEF IInv, TreeInv
  <1>3. PICK X, Y, H :
          /\ Open(son, red, stack, X, Y, H) /\ X[1] = Members
          /\ \A i \in 2 .. n : On(stack[i].side, elem, stack[i].node)
    BY <1>2 DEF Entering
  <1>4. elem \in Nodes \ Members /\ \A q \in Sides : son[q][elem] = NULL
    BY <1>2 DEF Entering
  <1>5. Context(son, red, stack, X, Y, H) /\ Tree(son, red, To(son, stack[n]), X[n], H[n])
    BY <1>3 DEF Open
  <1>6. /\ stack \in Seq(Places) /\ n \in Nat /\ n >= 1 /\ t = To(son, stack[n])
        /\ son \in Pointers /\ red \in SUBSET Nodes /\ X[n] \subseteq Members
    BY <1>3, <1>5, CallFacts
  <1>7. t \in Nodes /\ t \in Members
    BY <1>1, <1>5, <1>6, TreeFacts
  <1>8. l \in Sides /\ On(l, elem, t) /\ Place(t, l) \in Places
    BY <1>4, <1>7, BeforeIsOrder DEF Side, Sides, On, Place, Places
  <1>90. /\ Open(son, red, stack, X, Y, H) /\ n \in Nat /\ n = Len(stack)
         /\ t = To(son, stack[n]) /\ t # NULL /\ l \in Sides
         /\ son \in Pointers /\ red \in SUBSET Nodes
    BY <1>1, <1>3, <1>6, <1>8
  <1> HIDE DEF t, l, n
  <1>9. PICK V, W, G :
          /\ Open(son, red, Append(stack, Place(t, l)), V, W, G)
          /\ \A i \in 1 .. n : V[i] = X[i]
    <2>1. Deeper(son, red, stack, X, n, t, l)
      BY <1>90, Entered
    <2>2. QED
      BY <2>1 DEF Deeper
  <1>10. /\ stack' \in Seq(Places) /\ Len(stack') = n + 1 /\ stack'[n + 1] = Place(t, l)
         /\ \A i \in 1 .. n : stack'[i] = stack[i]
    BY <1>1, <1>6, <1>8, PlaceAdded DEF n
  <1>11. \A i \in 2 .. Len(stack') : On(stack'[i].side, elem', stack'[i].node)
    <2>1. ASSUME NEW i \in 2 .. Len(stack') PROVE On(stack'[i].side, elem, stack'[i].node)
      <3>1. i \in Nat /\ ((i \in 2 .. n /\ i \in 1 .. n) \/ i = n + 1)
        BY <1>6, <1>10
      <3>2. CASE i = n + 1
        BY <1>8, <1>10, <3>2 DEF Place
      <3>3. CASE i # n + 1
        BY <1>3, <1>10, <3>1, <3>3 DEF n
      <3>4. QED
        BY <3>2, <3>3
    <2>2. QED
      BY <1>1, <2>1
  <1>12. son' = son /\ red' = red /\ Members' = Members /\ elem' = elem /\ leaf' = leaf /\ stage' = stage
    BY <1>1 DEF treeVars, Members, root, At
  <1>13. V[1] = Members
    BY <1>3, <1>6, <1>9
  <1>14. Entering'
    BY <1>1, <1>4, <1>9, <1>11, <1>12, <1>13 DEF Entering
  <1>15. TreeInv'
    BY <1>1, <1>2, <1>12, <1>14 DEF TreeInv, Looking
  <1>16. IInv'
    BY <1>1, <1>2, <1>6, <1>10, <1>12, <1>15, CallStep DEF TypeOK, Stages
  <1>17. Elements' = Elements /\ answer' = answer
    BY <1>1, <1>12 DEF Elements
  <1>18. QED
    BY <1>16, <1>17 DEF DictionaryStep

\* The new element is put below the last node of the search.
LEMMA AddLinkStep ==
    ASSUME IInv, AddLink
    PROVE  IInv' /\ DictionaryStep
  <1> DEFINE n == Len(stack)
  <1>1. stage = "add" /\ At(Calling) = NULL /\ son' = Put(son, Calling, elem)
        /\ red' = red \cup {elem} /\ stage' = "added"
        /\ UNCHANGED <<elem, stack, leaf, short, answer, walkVars, failed>>
    BY DEF AddLink, Paint
  <1>2. Entering /\ leaf = NULL /\ TypeOK
    BY <1>1 DEF IInv, TreeInv
  <1>3. PICK X, Y, H :
          /\ Open(son, red, stack, X, Y, H) /\ X[1] = Members
          /\ \A i \in 2 .. n : On(stack[i].side, elem, stack[i].node)
    BY <1>2 DEF Entering
  <1>4. elem \in Nodes \ Members /\ \A q \in Sides : son[q][elem] = NULL
    BY <1>2 DEF Entering
  <1>5. Context(son, red, stack, X, Y, H)
    BY <1>3 DEF Open
  <1>6. /\ stack \in Seq(Places) /\ n \in Nat /\ n >= 1 /\ Calling = stack[n]
        /\ To(son, stack[n]) = NULL /\ Calling \in Places
        /\ son \in Pointers /\ red \in SUBSET Nodes
    BY <1>1, <1>3, <1>5, CallFacts
  <1>7. son' \in Pointers /\ IsPut(son, son', stack[n], elem)
    BY <1>1, <1>4, <1>6, PutIs
  <1> HIDE DEF n
  <1>8. PICK W : Grown(son', red', stack, W, Y, H) /\ W[1] = Members \cup {elem}
    <2> DEFINE to == son'
    <2>1. /\ to \in Pointers /\ IsPut(son, to, stack[n], elem)
          /\ Open(son, red, stack, X, Y, H) /\ n \in Nat /\ n = Len(stack)
          /\ To(son, stack[n]) = NULL /\ elem \in Nodes /\ elem \notin X[1]
          /\ \A i \in 2 .. n : On(stack[i].side, elem, stack[i].node)
          /\ son \in Pointers /\ red \in SUBSET Nodes
      BY <1>3, <1>4, <1>6, <1>7 DEF n
    <2> HIDE DEF to
    <2>2. GrownBy(to, red \cup {elem}, stack, X, Y, H, elem)
      BY <1>4, <2>1, Linked
    <2>3. QED
      BY <1>1, <1>3, <2>2 DEF to, GrownBy
  <1>9. red' \in SUBSET Nodes
    BY <1>1, <1>4, <1>6
  <1>10. Members' = Members \cup {elem}
    <2>1. NodesOf(son', To(son', Top)) = W[1]
      <3> DEFINE to == son'  Q == red'
      <3>1. to \in Pointers /\ Q \in SUBSET Nodes /\ Grown(to, Q, stack, W, Y, H)
        BY <1>7, <1>8, <1>9
      <3> HIDE DEF to, Q
      <3>2. NodesOf(to, To(to, Top)) = W[1]
        BY <3>1, WholeTree
      <3>3. QED
        BY <3>2 DEF to
    <2>2. QED
      BY <1>8, <2>1, MembersAre
  <1>11. Arrived'
    BY <1>1, <1>8, <1>10 DEF Arrived
  <1>12. TreeInv'
    BY <1>1, <1>2, <1>11 DEF TreeInv, Looking
  <1>13. IInv'
    BY <1>1, <1>2, <1>6, <1>7, <1>9, <1>12, CallStep DEF TypeOK, Stages
  <1>14. Elements' = Elements /\ answer' = answer
    BY <1>1, <1>2, <1>10 DEF Elements
  <1>15. QED
    BY <1>13, <1>14 DEF DictionaryStep

\* A call of the recursive add returns, and repairs what it finds.
LEMMA AddReturnStep ==
    ASSUME IInv, AddReturn
    PROVE  IInv' /\ DictionaryStep
  <1>1. stage = "added" /\ UNCHANGED <<stage, elem, leaf, short, answer, walkVars, failed>>
    BY DEF AddReturn
  <1>2. Arrived /\ leaf = NULL /\ TypeOK /\ son \in Pointers /\ red \in SUBSET Nodes
    BY <1>1, Types DEF IInv, TreeInv
  <1>3. PICK X, Y, H : Grown(son, red, stack, X, Y, H) /\ X[1] = Members
    BY <1>2 DEF Arrived
  <1>4. son' \in Pointers /\ red' \in SUBSET Nodes /\ Grown(son', red', stack', X, Y, H)
    BY <1>2, <1>3, AddReturns
  <1>5. Members' = Members /\ stack' \in Seq(Places)
    <2> DEFINE to == son'  Q == red'  ts == stack'
    <2>1. to \in Pointers /\ Q \in SUBSET Nodes /\ Grown(to, Q, ts, X, Y, H)
      BY <1>4
    <2> HIDE DEF to, Q, ts
    <2>2. NodesOf(to, To(to, Top)) = X[1]
      BY <2>1, WholeTree
    <2>3. ts \in Seq(Places)
      BY <2>1 DEF Grown, Context
    <2>4. QED
      BY <1>3, <2>2, <2>3, MembersAre DEF to, ts
  <1>6. Arrived'
    BY <1>1, <1>2, <1>3, <1>4, <1>5 DEF Arrived
  <1>7. TreeInv'
    BY <1>1, <1>2, <1>6 DEF TreeInv, Looking
  <1>8. IInv'
    BY <1>1, <1>2, <1>4, <1>5, <1>7, CallStep DEF TypeOK, Stages
  <1>9. Elements' = Elements /\ answer' = answer
    BY <1>1, <1>5 DEF Elements
  <1>10. QED
    BY <1>8, <1>9 DEF DictionaryStep

\* The call at work is the first one exactly if the user made it.
LEMMA OnlyCall ==
    ASSUME NEW so \in Pointers, NEW R \in SUBSET Nodes, NEW st, NEW X, NEW Y, NEW H,
           Context(so, R, st, X, Y, H), NEW n \in Nat, n = Len(st), st[n] = Top
    PROVE  n = 1
  <1>1. SUFFICES ASSUME n # 1 PROVE FALSE
    OBVIOUS
  <1>2. Called(so, R, st, X, Y, H, n)
    BY <1>1, CallerFacts
  <1>3. QED
    BY <1>2, NodeFacts DEF Called, Top, Place

\* All calls of add have returned: the root becomes black.
LEMMA AddEndStep ==
    ASSUME IInv, AddEnd
    PROVE  IInv' /\ DictionaryStep
  <1> DEFINE t == To(son, Top)  Q == red \ {t}
  <1>1. stage = "added" /\ Calling = Top /\ red' = Q /\ End
        /\ UNCHANGED <<son, answer, walkVars, failed>>
    BY DEF AddEnd, Paint, root, At, To
  <1>2. Arrived /\ leaf = NULL /\ TypeOK /\ son \in Pointers /\ red \in SUBSET Nodes /\ NULL \notin red
    BY <1>1, Types DEF IInv, TreeInv
  <1>3. PICK X, Y, H : Grown(son, red, stack, X, Y, H) /\ X[1] = Members
    BY <1>2 DEF Arrived
  <1>4. Context(son, red, stack, X, Y, H)
    BY <1>3 DEF Grown
  <1>5. stack \in Seq(Places) /\ Len(stack) \in Nat /\ stack[Len(stack)] = Top
    BY <1>1, <1>3, <1>4, CallFacts
  <1>6. Len(stack) = 1
    BY <1>2, <1>4, <1>5, OnlyCall
  <1>7. Tree(son, red, t, Members, H[1])
    BY <1>3, <1>5, <1>6 DEF Grown, Top, Place
  <1>8. t # NULL /\ t \in Members /\ Members \subseteq Nodes
    BY <1>2, <1>7, TreeFacts DEF Arrived
  <1>9. \E h : Tree(son, Q, t, Members, h)
    <2>1. NULL \notin Q /\ (\A m \in Members \ {t} : m \in Q <=> m \in red) /\ t \notin Q
      BY <1>2
    <2> HIDE DEF t, Q
    <2>2. QED
      BY <1>2, <1>7, <1>8, <2>1, Repainted
  <1>10. son' = son /\ root' = t /\ Members' = Members
    BY <1>1 DEF root, At, To, Members
  <1>11. Standing'
    BY <1>1, <1>9, <1>10 DEF Standing
  <1>12. TreeInv'
    BY <1>1, <1>11, Ended DEF TreeInv, Looking
  <1>13. IInv'
    <2>1. red' \in SUBSET Nodes /\ son' \in Pointers /\ answer' \in Nodes \cup {NULL}
      BY <1>1, <1>2 DEF TypeOK
    <2>2. QED
      BY <1>1, <2>1, <1>12, Ended, CallStep
  <1>14. Elements' = Elements /\ answer' = answer
    BY <1>1, <1>2, <1>10, Ended DEF Elements
  <1>15. QED
    BY <1>13, <1>14 DEF DictionaryStep

-----------------------------------------------------------------------------
(* Deleting.                                                               *)

\* delete_recursive() goes down.
LEMMA DeleteDownStep ==
    ASSUME IInv, DeleteDown
    PROVE  IInv' /\ DictionaryStep
  <1> DEFINE t == At(Calling)  l == Side(elem, t)  n == Len(stack)
  <1>1. stage = "search" /\ t # elem
        /\ UNCHANGED <<treeVars, elem, leaf, short, answer, walkVars>>
    BY DEF DeleteDown
  <1>2. Searched /\ leaf = NULL /\ TypeOK
    BY <1>1 DEF IInv, TreeInv
  <1>3. PICK X, Y, H :
          Open(son, red, stack, X, Y, H) /\ X[1] = Members /\ elem \in X[n]
    BY <1>2 DEF Searched
  <1>4. Context(son, red, stack, X, Y, H) /\ Tree(son, red, To(son, stack[n]), X[n], H[n])
    BY <1>3 DEF Open
  <1>5. /\ stack \in Seq(Places) /\ n \in Nat /\ n >= 1 /\ t = To(son, stack[n])
        /\ son \in Pointers /\ red \in SUBSET Nodes /\ X[n] \subseteq Members /\ Members \subseteq Nodes
    BY <1>3, <1>4, CallFacts
  <1>6. t # NULL /\ t \in Nodes /\ elem \in Nodes
    BY <1>3, <1>4, <1>5, TreeFacts
  <1>7. stack' = Append(stack, Place(t, l)) /\ stage' = stage /\ failed' = failed
    BY <1>6 DEF DeleteDown, Calls
  <1>8. l \in Sides /\ On(l, elem, t) /\ Place(t, l) \in Places
    BY <1>1, <1>6, BeforeIsOrder DEF Side, Sides, On, Place, Places
  <1>9. /\ Open(son, red, stack, X, Y, H) /\ n \in Nat /\ n = Len(stack)
        /\ t = To(son, stack[n]) /\ t # NULL /\ l \in Sides
        /\ son \in Pointers /\ red \in SUBSET Nodes
    BY <1>3, <1>5, <1>6, <1>8
  <1> HIDE DEF t, l, n
  <1>10. PICK V, W, G :
          /\ Open(son, red, Append(stack, Place(t, l)), V, W, G)
          /\ \A i \in 1 .. n : V[i] = X[i]
          /\ Joins(l, t, V[n + 1], W[n + 1], X[n])
    <2>1. Deeper(son, red, stack, X, n, t, l)
      BY <1>9, Entered
    <2>2. QED
      BY <2>1 DEF Deeper
  <1>11. stack' \in Seq(Places) /\ Len(stack') = n + 1
    BY <1>7, <1>5, <1>8, PlaceAdded DEF n
  <1>12. elem \in V[n + 1]
    <2>1. elem \in {t} \cup V[n + 1] \cup W[n + 1] /\ (elem \in W[n + 1] => On(Other(l), elem, t))
      BY <1>3, <1>10 DEF Joins, n
    <2>2. ~On(Other(l), elem, t)
      BY <1>6, <1>8, OnIsOrder
    <2>3. QED
      BY <1>1, <2>1, <2>2 DEF t
  <1>13. son' = son /\ red' = red /\ Members' = Members /\ elem' = elem /\ leaf' = leaf
    BY <1>1 DEF treeVars, Members, root, At
  <1>14. V[1] = Members
    BY <1>3, <1>5, <1>10
  <1>15. Searched'
    BY <1>7, <1>10, <1>11, <1>12, <1>13, <1>14 DEF Searched
  <1>16. TreeInv'
    BY <1>1, <1>2, <1>7, <1>13, <1>15 DEF TreeInv, Looking
  <1>17. IInv'
    BY <1>1, <1>2, <1>5, <1>7, <1>11, <1>13, <1>16, CallStep DEF TypeOK, Stages
  <1>18. Elements' = Elements /\ answer' = answer
    BY <1>1, <1>7, <1>13 DEF Elements
  <1>19. QED
    BY <1>17, <1>18 DEF DictionaryStep

\* Taking a node with no son on side l out of the tree of the call at work.
LEMMA UnlinkFacts ==
    ASSUME IInv, NEW X, NEW Y, NEW H, Open(son, red, stack, X, Y, H), X[1] = Members,
           NEW t, t = At(Calling), t # NULL, NEW l \in Sides, son[l][t] = NULL,
           Unlink(t, son[Other(l)][t]), UNCHANGED stack
    PROVE  /\ son' \in Pointers /\ red' \in SUBSET Nodes /\ short' \in BOOLEAN
           /\ stage' = "deleted" /\ t \in X[Len(stack)] /\ Members' = Members \ {t}
           /\ \E W : /\ Shrunk(son', red', stack', W, Y, H, short')
                     /\ \A i \in 1 .. Len(stack) : W[i] = X[i] \ {t}
  <1> DEFINE n == Len(stack)  o == son[Other(l)][t]  to == son'  Q == red'
  <1>1. Context(son, red, stack, X, Y, H) /\ Tree(son, red, To(son, stack[n]), X[n], H[n])
    BY DEF Open
  <1>2. /\ stack \in Seq(Places) /\ n \in Nat /\ n >= 1 /\ t = To(son, stack[n])
        /\ Calling = stack[n] /\ Calling \in Places
        /\ son \in Pointers /\ red \in SUBSET Nodes /\ X[n] \subseteq Members
    BY <1>1, CallFacts
  <1>3. t \in Nodes
    BY <1>1, <1>2, TreeFacts
  <1>4. o \in Nodes \cup {NULL}
    BY <1>2, <1>3, SideFacts DEF Pointers
  <1>5. /\ to = Put(son, Calling, o) /\ Q = red \ {o}
        /\ short' \in BOOLEAN /\ (short' <=> t \notin red /\ o \notin red) /\ stage' = "deleted"
    BY DEF Unlink, Paint, IsBlack
  <1>6. /\ to \in Pointers /\ IsPut(son, to, stack[n], o)
    BY <1>2, <1>4, <1>5, PutIs
  <1>7. Q \in SUBSET Nodes
    BY <1>2, <1>5
  <1>8. /\ Open(son, red, stack, X, Y, H) /\ n \in Nat /\ n = Len(stack)
        /\ t = To(son, stack[n]) /\ t # NULL /\ son[l][t] = NULL /\ o = son[Other(l)][t]
        /\ son \in Pointers /\ red \in SUBSET Nodes
    BY <1>2
  <1> DEFINE less == short'
  <1>80. less \in BOOLEAN /\ (less <=> t \notin red /\ o \notin red) /\ Q = red \ {o}
    BY <1>5
  <1> HIDE DEF n, o, to, Q, less
  <1>81. Unlinking(son, red, stack, X, Y, H, n, t, l, o, to, Q, less)
    BY <1>6, <1>8, <1>80 DEF Unlinking
  <1>9. ShrunkBy(to, Q, stack, X, Y, H, less, n, t) /\ t \in X[n]
    <2>1. ShrunkBy(to, Q, stack, X, Y, H, less, n, t)
      BY <1>81, Unlinked
    <2>2. t \in X[n]
      BY <1>1, <1>2, TreeFacts DEF n
    <2>3. QED
      BY <2>1, <2>2
  <1>10. PICK W : /\ Shrunk(to, Q, stack, W, Y, H, short')
                  /\ \A i \in 1 .. n : W[i] = X[i] \ {t}
    BY <1>9 DEF ShrunkBy, less
  <1>11. NodesOf(to, To(to, Top)) = W[1]
    BY <1>6, <1>7, <1>10, WholeTree
  <1>12. W[1] = Members \ {t}
    BY <1>2, <1>10 DEF n
  <1>13. Members' = Members \ {t}
    BY <1>11, <1>12, MembersAre DEF to
  <1>14. short' \in BOOLEAN
    BY <1>5
  <1>15. QED
    BY <1>5, <1>6, <1>7, <1>9, <1>10, <1>13, <1>14 DEF n, to, Q

\* The element is found.
LEMMA DeleteFoundStep ==
    ASSUME IInv, DeleteFound
    PROVE  IInv' /\ DictionaryStep
  <1> DEFINE n == Len(stack)
  <1>1. stage = "search" /\ At(Calling) = elem
        /\ UNCHANGED <<elem, leaf, answer, walkVars, failed>>
    BY DEF DeleteFound
  <1>2. Searched /\ leaf = NULL /\ TypeOK
    BY <1>1 DEF IInv, TreeInv
  <1>3. PICK X, Y, H :
          Open(son, red, stack, X, Y, H) /\ X[1] = Members /\ elem \in X[n]
    BY <1>2 DEF Searched
  <1>4. Context(son, red, stack, X, Y, H) /\ Tree(son, red, To(son, stack[n]), X[n], H[n])
    BY <1>3 DEF Open
  <1>5. /\ stack \in Seq(Places) /\ n \in Nat /\ n >= 1 /\ elem = To(son, stack[n])
        /\ son \in Pointers /\ red \in SUBSET Nodes /\ X[n] \subseteq Members /\ Members \subseteq Nodes
    BY <1>1, <1>3, <1>4, CallFacts
  <1>6. elem \in Members /\ elem \in Nodes /\ elem # NULL
    BY <1>3, <1>5, NodeFacts
  <1>7. CASE son["left"][elem] = NULL
    <2>1. Unlink(elem, son["right"][elem]) /\ stack' = stack
      BY <1>7 DEF DeleteFound
    <2>2. "left" \in Sides /\ Other("left") = "right"
      BY DEF Sides, Other
    <2>3. /\ son' \in Pointers /\ red' \in SUBSET Nodes /\ short' \in BOOLEAN
          /\ stage' = "deleted" /\ Members' = Members \ {elem}
          /\ \E W : /\ Shrunk(son', red', stack', W, Y, H, short')
                    /\ \A i \in 1 .. Len(stack) : W[i] = X[i] \ {elem}
      BY <1>1, <1>3, <1>6, <1>7, <2>1, <2>2, UnlinkFacts
    <2>4. PICK W : /\ Shrunk(son', red', stack', W, Y, H, short')
                   /\ \A i \in 1 .. Len(stack) : W[i] = X[i] \ {elem}
      BY <2>3
    <2>5. W[1] = Members'
      BY <1>3, <1>5, <2>3, <2>4
    <2>6. Left'
      BY <1>1, <1>2, <1>6, <2>3, <2>4, <2>5 DEF Left
    <2>7. TreeInv'
      BY <1>1, <1>2, <2>3, <2>6 DEF TreeInv, Looking
    <2>8. IInv'
      BY <1>1, <1>2, <1>5, <2>1, <2>3, <2>7, CallStep DEF TypeOK, Stages
    <2>9. Elements' = Elements /\ answer' = answer
      BY <1>1, <1>2, <2>3 DEF Elements
    <2>10. QED
      BY <2>8, <2>9 DEF DictionaryStep
  <1>8. CASE son["left"][elem] # NULL
    <2> DEFINE l == "left"  x == Place(elem, l)
    <2>1. stage' = "leaf" /\ stack' = Append(stack, x) /\ UNCHANGED <<treeVars, short>>
      BY <1>8 DEF DeleteFound, Calls
    <2>2. l \in Sides /\ x \in Places
      BY <1>6 DEF Sides, Place, Places
    <2>3. /\ Open(son, red, stack, X, Y, H) /\ n \in Nat /\ n = Len(stack)
          /\ elem = To(son, stack[n]) /\ elem # NULL /\ l \in Sides
          /\ son \in Pointers /\ red \in SUBSET Nodes
      BY <1>3, <1>5, <1>6, <2>2
    <2>4. Deeper(son, red, stack, X, n, elem, l)
      <3> HIDE DEF l, n
      <3>1. QED
        BY <2>3, Entered
    <2>5. PICK V, W, G :
            /\ Open(son, red, stack', V, W, G)
            /\ \A i \in 1 .. n : V[i] = X[i]
      BY <2>1, <2>4 DEF Deeper
    <2>6. /\ stack' \in Seq(Places) /\ Len(stack') = n + 1 /\ stack'[n + 1] = x
      BY <1>5, <2>1, <2>2, PlaceAdded
    <2>7. son' = son /\ red' = red /\ Members' = Members /\ elem' = elem /\ leaf' = leaf
      BY <1>1, <2>1 DEF treeVars, Members, root, At
    <2>8. V[1] = Members
      BY <1>3, <1>5, <2>5
    <2>9. At(Calling)' # NULL
      <3>1. Calling' = x
        BY <2>6, PlaceFacts, <1>5 DEF Calling
      <3>2. QED
        BY <1>8, <2>7, <3>1 DEF At, Place
    <2>10. Leaving'
      <3>1. n + 1 \in 2 .. Len(stack') /\ n + 1 = Len(stack')
        BY <1>5, <2>6
      <3>2. stack'[n + 1] = Place(elem', "left")
            /\ \A m \in V[n + 1] \ V[Len(stack')], o \in V[Len(stack')] : Before(m, o)
        BY <2>6, <2>7, <3>1
      <3>3. Open(son', red', stack', V, W, G) /\ V[1] = Members' /\ elem' \in Members'
        BY <1>6, <2>5, <2>7, <2>8
      <3>4. QED
        BY <2>9, <3>1, <3>2, <3>3 DEF Leaving
    <2>11. TreeInv'
      BY <1>1, <1>2, <2>1, <2>7, <2>10 DEF TreeInv, Looking
    <2>12. IInv'
      BY <1>1, <1>2, <1>5, <2>1, <2>6, <2>7, <2>11, CallStep DEF TypeOK, Stages
    <2>13. Elements' = Elements /\ answer' = answer
      BY <1>1, <2>1, <2>7 DEF Elements
    <2>14. QED
      BY <2>12, <2>13 DEF DictionaryStep
  <1>9. QED
    BY <1>7, <1>8

\* Where the calls have their pointers.
LEMMA CallersAre ==
    ASSUME NEW so, NEW R, NEW st, NEW X, NEW Y, NEW H, Context(so, R, st, X, Y, H)
    PROVE  /\ \A i \in 1 .. Len(st) : st[i].node \in X[1] \cup {Owner}
           /\ \A i \in 2 .. Len(st) : st[i].node \notin X[i] /\ \A m \in X[i] : On(st[i].side, m, st[i].node)
  <1>1. /\ st[1] = Top /\ Len(st) \in Nat /\ Len(st) >= 1 /\ st \in Seq(Places)
        /\ \A i \in 2 .. Len(st) : CallAt(so, R, st, X, Y, H, i)
        /\ \A i, j \in 1 .. Len(st) : i <= j => X[j] \subseteq X[i]
    BY DEF Context
  <1>2. ASSUME NEW i \in 2 .. Len(st)
        PROVE  /\ st[i].node \in X[1] /\ st[i].node \notin X[i]
               /\ \A m \in X[i] : On(st[i].side, m, st[i].node)
    <2>1. Joins(st[i].side, st[i].node, X[i], Y[i], X[i - 1])
      BY <1>1 DEF CallAt
    <2>2. i \in 1 .. Len(st) /\ i - 1 \in 1 .. Len(st) /\ 1 \in 1 .. Len(st) /\ 1 <= i - 1
      BY <1>1
    <2>3. X[i - 1] \subseteq X[1]
      BY <1>1, <2>2
    <2>4. st[i].side \in Sides
      BY <1>1, <2>2, PlaceFacts
    <2>5. st[i].node \notin X[i]
      BY <2>1, <2>4, JoinsFacts
    <2>6. st[i].node \in X[i - 1] /\ \A m \in X[i] : On(st[i].side, m, st[i].node)
      BY <2>1 DEF Joins
    <2>7. QED
      BY <2>3, <2>5, <2>6
  <1>3. ASSUME NEW i \in 1 .. Len(st) PROVE st[i].node \in X[1] \cup {Owner}
    <2>1. i = 1 \/ i \in 2 .. Len(st)
      BY <1>1
    <2>2. QED
      BY <1>1, <1>2, <2>1 DEF Top, Place
  <1>4. QED
    BY <1>2, <1>3

\* The leaf that takes the place of the element is looked for on its left.
LEMMA LeavingFacts ==
    ASSUME IInv, stage = "leaf"
    PROVE  /\ TypeOK /\ leaf = NULL /\ elem \in Members /\ elem \in Nodes
           /\ At(Calling) \in Nodes
           /\ \E X, Y, H :
                 /\ Open(son, red, stack, X, Y, H) /\ X[1] = Members
                 /\ At(Calling) \in X[Len(stack)]
                 /\ \E k \in 2 .. Len(stack) :
                       /\ stack[k] = Place(elem, "left")
                       /\ X[Len(stack)] \subseteq X[k] /\ elem \notin X[k]
                       /\ \A m \in X[k] \ X[Len(stack)], o \in X[Len(stack)] : Before(m, o)
  <1>1. Leaving /\ TypeOK /\ leaf = NULL
    BY DEF IInv, TreeInv
  <1>2. PICK X, Y, H :
          /\ Open(son, red, stack, X, Y, H) /\ X[1] = Members
          /\ \E k \in 2 .. Len(stack) :
                /\ stack[k] = Place(elem, "left")
                /\ \A m \in X[k] \ X[Len(stack)], o \in X[Len(stack)] : Before(m, o)
    BY <1>1 DEF Leaving
  <1>3. PICK k \in 2 .. Len(stack) :
                /\ stack[k] = Place(elem, "left")
                /\ \A m \in X[k] \ X[Len(stack)], o \in X[Len(stack)] : Before(m, o)
    BY <1>2
  <1>4. Context(son, red, stack, X, Y, H) /\ Tree(son, red, To(son, stack[Len(stack)]), X[Len(stack)], H[Len(stack)])
    BY <1>2 DEF Open
  <1>5. /\ Len(stack) \in Nat /\ Len(stack) >= 1 /\ At(Calling) = To(son, stack[Len(stack)])
        /\ Members \subseteq Nodes
        /\ \A i \in 1 .. Len(stack) : X[Len(stack)] \subseteq X[i]
    BY <1>2, <1>4, CallFacts
  <1>6. At(Calling) \in Nodes /\ At(Calling) \in X[Len(stack)] /\ elem \in Members
    BY <1>1, <1>4, <1>5, TreeFacts DEF Leaving
  <1>7. X[Len(stack)] \subseteq X[k] /\ elem \notin X[k]
    <2>1. k \in 1 .. Len(stack)
      BY <1>5
    <2>2. stack[k].node \notin X[k]
      BY <1>4, CallersAre
    <2>3. QED
      BY <1>3, <1>5, <2>1, <2>2 DEF Place
  <1>8. QED
    BY <1>1, <1>2, <1>3, <1>5, <1>6, <1>7

\* delete_rightmost_leaf() goes down.
LEMMA LeafDownStep ==
    ASSUME IInv, LeafDown
    PROVE  IInv' /\ DictionaryStep
  <1> DEFINE t == At(Calling)  l == "right"  n == Len(stack)  x == Place(t, l)
  <1>1. stage = "leaf" /\ son["right"][t] # NULL /\ stack' = Append(stack, x)
        /\ UNCHANGED <<treeVars, stage, elem, leaf, short, answer, walkVars, failed>>
    BY DEF LeafDown, Calls
  <1>2. TypeOK /\ leaf = NULL /\ elem \in Members /\ elem \in Nodes /\ t \in Nodes /\ t # NULL
    BY <1>1, LeavingFacts, NodeFacts
  <1>3. PICK X, Y, H :
          /\ Open(son, red, stack, X, Y, H) /\ X[1] = Members
          /\ t \in X[n]
          /\ \E k \in 2 .. n :
                /\ stack[k] = Place(elem, "left")
                /\ X[n] \subseteq X[k] /\ elem \notin X[k]
                /\ \A m \in X[k] \ X[n], o \in X[n] : Before(m, o)
    BY <1>1, LeavingFacts
  <1>4. PICK k \in 2 .. n :
                /\ stack[k] = Place(elem, "left")
                /\ X[n] \subseteq X[k]
                /\ \A m \in X[k] \ X[n], o \in X[n] : Before(m, o)
    BY <1>3
  <1>5. Context(son, red, stack, X, Y, H)
    BY <1>3 DEF Open
  <1>6. /\ stack \in Seq(Places) /\ n \in Nat /\ n >= 1 /\ t = To(son, stack[n])
        /\ son \in Pointers /\ red \in SUBSET Nodes /\ X[n] \subseteq Members /\ Members \subseteq Nodes
        /\ \A i \in 1 .. n : X[i] \subseteq Members
    BY <1>3, <1>5, CallFacts
  <1>7. l \in Sides /\ x \in Places
    BY <1>2 DEF Sides, Place, Places
  <1>8. /\ Open(son, red, stack, X, Y, H) /\ n \in Nat /\ n = Len(stack)
        /\ t = To(son, stack[n]) /\ t # NULL /\ l \in Sides
        /\ son \in Pointers /\ red \in SUBSET Nodes
    BY <1>2, <1>3, <1>6, <1>7
  <1>9. Deeper(son, red, stack, X, n, t, l)
    <2> HIDE DEF l, n, t
    <2>1. QED
      BY <1>8, Entered
  <1>10. PICK V, W, G :
            /\ Open(son, red, stack', V, W, G)
            /\ \A i \in 1 .. n : V[i] = X[i]
            /\ Joins(l, t, V[n + 1], W[n + 1], X[n])
    BY <1>1, <1>9 DEF Deeper
  <1>11. /\ stack' \in Seq(Places) /\ Len(stack') = n + 1 /\ stack'[n + 1] = x
         /\ \A i \in 1 .. n : stack'[i] = stack[i]
    BY <1>1, <1>6, <1>7, PlaceAdded
  <1>12. son' = son /\ red' = red /\ Members' = Members /\ elem' = elem /\ leaf' = leaf
    BY <1>1 DEF treeVars, Members, root, At
  <1>13. V[1] = Members /\ k \in 1 .. n /\ k \in 2 .. n + 1
    BY <1>3, <1>6, <1>10
  <1>14. At(Calling)' # NULL
      <2>1. Calling' = x
        BY <1>6, <1>11 DEF Calling, Last
      <2>2. QED
        BY <1>1, <1>12, <2>1 DEF At, Place
  <1>15. \A m \in V[k] \ V[n + 1], o \in V[n + 1] : Before(m, o)
    <2> SUFFICES ASSUME NEW m \in V[k] \ V[n + 1], NEW o \in V[n + 1] PROVE Before(m, o)
      OBVIOUS
    <2>1. m \in X[k] /\ o \in X[n] /\ Before(t, o) /\ m \in Nodes /\ o \in Nodes
      BY <1>6, <1>10, <1>13 DEF Joins, On
    <2>2. CASE m \in X[n]
      <3>1. m = t \/ Before(m, t)
        BY <1>10, <2>2 DEF Joins, On, Other
      <3>2. QED
        BY <1>2, <2>1, <3>1, BeforeIsOrder
    <2>3. QED
      BY <1>4, <2>1, <2>2
  <1>16. Leaving'
    <2>1. stack'[k] = Place(elem', "left") /\ k \in 2 .. Len(stack')
      BY <1>4, <1>11, <1>12, <1>13
    <2>2. \A m \in V[k] \ V[Len(stack')], o \in V[Len(stack')] : Before(m, o)
      BY <1>11, <1>15
    <2>3. Open(son', red', stack', V, W, G) /\ V[1] = Members' /\ elem' \in Members'
      BY <1>2, <1>10, <1>12, <1>13
    <2>4. QED
      BY <1>14, <2>1, <2>2, <2>3 DEF Leaving
  <1>17. TreeInv'
    BY <1>1, <1>2, <1>12, <1>16 DEF TreeInv, Looking
  <1>18. IInv'
    BY <1>1, <1>2, <1>6, <1>11, <1>12, <1>17, CallStep DEF TypeOK, Stages
  <1>19. Elements' = Elements /\ answer' = answer
    BY <1>1, <1>12 DEF Elements
  <1>20. QED
    BY <1>18, <1>19 DEF DictionaryStep

\* It takes the leaf out.
LEMMA LeafUnlinkStep ==
    ASSUME IInv, LeafUnlink
    PROVE  IInv' /\ DictionaryStep
  <1> DEFINE t == At(Calling)  l == "right"  n == Len(stack)
  <1>1. stage = "leaf" /\ son[l][t] = NULL /\ leaf' = t /\ Unlink(t, son[Other(l)][t])
        /\ UNCHANGED <<elem, stack, answer, walkVars, failed>>
    BY DEF LeafUnlink, Other
  <1>2. TypeOK /\ leaf = NULL /\ elem \in Members /\ elem \in Nodes /\ t \in Nodes /\ t # NULL
    BY <1>1, LeavingFacts, NodeFacts
  <1>3. PICK X, Y, H :
          /\ Open(son, red, stack, X, Y, H) /\ X[1] = Members
          /\ t \in X[n]
          /\ \E k \in 2 .. n :
                /\ stack[k] = Place(elem, "left")
                /\ X[n] \subseteq X[k] /\ elem \notin X[k]
                /\ \A m \in X[k] \ X[n], o \in X[n] : Before(m, o)
    BY <1>1, LeavingFacts
  <1>4. PICK k \in 2 .. n :
                /\ stack[k] = Place(elem, "left")
                /\ X[n] \subseteq X[k] /\ elem \notin X[k]
                /\ \A m \in X[k] \ X[n], o \in X[n] : Before(m, o)
    BY <1>3
  <1>5. Context(son, red, stack, X, Y, H) /\ Tree(son, red, To(son, stack[n]), X[n], H[n])
    BY <1>3 DEF Open
  <1>6. /\ stack \in Seq(Places) /\ n \in Nat /\ n >= 1 /\ t = To(son, stack[n])
        /\ son \in Pointers /\ red \in SUBSET Nodes /\ X[n] \subseteq Members /\ Members \subseteq Nodes
        /\ \A i \in 1 .. n : X[n] \subseteq X[i] /\ X[i] \subseteq Members
    BY <1>3, <1>5, CallFacts
  <1>7. l \in Sides
    BY DEF Sides
  <1>8. /\ son' \in Pointers /\ red' \in SUBSET Nodes /\ short' \in BOOLEAN
        /\ stage' = "deleted" /\ Members' = Members \ {t}
        /\ \E W : /\ Shrunk(son', red', stack', W, Y, H, short')
                  /\ \A i \in 1 .. n : W[i] = X[i] \ {t}
    BY <1>1, <1>2, <1>3, <1>7, UnlinkFacts
  <1>9. PICK W : /\ Shrunk(son', red', stack', W, Y, H, short')
                 /\ \A i \in 1 .. n : W[i] = X[i] \ {t}
    BY <1>8
  <1>10. W[1] = Members' /\ k \in 1 .. n /\ W[k] = X[k] \ {t}
    BY <1>3, <1>6, <1>8, <1>9
  <1>11. \A m \in X[n] \ {t} : Before(m, t)
    <2>1. \E A, B \in SUBSET Nodes, j \in Nat :
             Joins(l, t, A, B, X[n]) /\ Tree(son, red, son[l][t], A, j)
      <3>1. /\ son \in Pointers /\ Tree(son, red, t, X[n], H[n]) /\ t # NULL /\ l \in Sides
        BY <1>2, <1>5, <1>6, <1>7
      <3> HIDE DEF t, l, n
      <3>2. QED
        BY <3>1, TakeApart
    <2>2. PICK A \in SUBSET Nodes, B \in SUBSET Nodes, j \in Nat :
             Joins(l, t, A, B, X[n]) /\ Tree(son, red, son[l][t], A, j)
      BY <2>1
    <2>3. A = {}
      BY <1>1, <2>2, TreeFacts
    <2>4. QED
      BY <2>2, <2>3 DEF Joins, On, Other
  <1>12. \A m \in W[k] : Before(m, t)
    BY <1>3, <1>4, <1>10, <1>11
  <1>13. \A i \in 2 .. n : On(stack[i].side, t, stack[i].node)
    <2>1. ASSUME NEW i \in 2 .. n PROVE On(stack[i].side, t, stack[i].node)
      <3>1. t \in X[i]
        BY <1>3, <1>6
      <3>2. QED
        BY <1>5, <3>1, CallersAre
    <2>2. QED
      BY <2>1
  <1>14. elem # t
    BY <1>3, <1>4
  <1>15. Left'
    <2>1. elem' \in Nodes /\ elem' \in Members' /\ leaf' \in Nodes \ Members' /\ leaf' # NULL
      BY <1>1, <1>2, <1>8, <1>14
    <2>2. /\ \A i \in 2 .. Len(stack') : On(stack'[i].side, leaf', stack'[i].node)
          /\ k \in 2 .. Len(stack') /\ stack'[k] = Place(elem', "left")
          /\ \A m \in W[k] : Before(m, leaf')
      BY <1>1, <1>4, <1>12, <1>13
    <2>3. QED
      BY <1>9, <1>10, <2>1, <2>2 DEF Left
  <1>16. TreeInv'
    BY <1>8, <1>15 DEF TreeInv, Looking
  <1>17. IInv'
    BY <1>1, <1>2, <1>6, <1>8, <1>16, CallStep DEF TypeOK, Stages
  <1>18. Elements' = Elements /\ answer' = answer
    BY <1>1, <1>2, <1>3, <1>6, <1>8 DEF Elements
  <1>19. QED
    BY <1>17, <1>18 DEF DictionaryStep

\* A node is out of the tree.
LEMMA LeftFacts ==
    ASSUME IInv, stage = "deleted"
    PROVE  /\ TypeOK /\ elem \in Nodes
           /\ \E X, Y, H :
                 /\ Shrunk(son, red, stack, X, Y, H, short) /\ X[1] = Members
                 /\ Context(son, red, stack, X, Y, H)
                 /\ leaf = NULL => elem \notin Members
                 /\ leaf # NULL =>
                       /\ elem \in Members /\ leaf \in Nodes \ Members
                       /\ \A i \in 2 .. Len(stack) : On(stack[i].side, leaf, stack[i].node)
                       /\ \E k \in 2 .. Len(stack) :
                             /\ stack[k] = Place(elem, "left")
                             /\ \A m \in X[k] : Before(m, leaf)
  BY DEF IInv, TreeInv, Left, Shrunk

\* The links of e become those of f, the pointer to e one to f.
LEMMA TakePlaceIs ==
    ASSUME son \in Pointers, NEW e \in Nodes, leaf \in Nodes, NEW u \in Places,
           u = Last(Front(stack)), u.node # leaf, TakePlace(e)
    PROVE  son' \in Pointers /\ IsReplaced(son, son', e, leaf, u)
  <1> DEFINE s1 == [son EXCEPT !["left"][leaf] = son["left"][e]]
             s2 == [s1 EXCEPT !["right"][leaf] = son["right"][e]]
             f == leaf
  <1>1. son' = Put(s2, u, f)
    BY DEF TakePlace, Becomes
  <1>2. son["left"][e] \in Nodes \cup {NULL} /\ son["right"][e] \in Nodes \cup {NULL} /\ f \in Nodes
    BY DEF Pointers, Sides
  <1>3. /\ s1 \in Pointers /\ s1["left"][f] = son["left"][e]
        /\ \A q \in Sides, m \in Nodes \cup {Owner} : (q = "left" /\ m = f) \/ s1[q][m] = son[q][m]
    BY <1>2 DEF Pointers, Sides
  <1> HIDE DEF s1
  <1>4. /\ s2 \in Pointers /\ s2["right"][f] = son["right"][e]
        /\ \A q \in Sides, m \in Nodes \cup {Owner} : (q = "right" /\ m = f) \/ s2[q][m] = s1[q][m]
    BY <1>2, <1>3 DEF Pointers, Sides
  <1> HIDE DEF s2
  <1>5. /\ Put(s2, u, f) \in Pointers /\ IsPut(s2, Put(s2, u, f), u, f)
    BY <1>2, <1>4, PutIs DEF f
  <1>6. s2["left"][f] = son["left"][e]
    BY <1>2, <1>3, <1>4 DEF Sides
  <1>7. \A q \in Sides, m \in Nodes \cup {Owner} : m = f \/ s2[q][m] = son[q][m]
    BY <1>3, <1>4
  <1>8. u.node # f /\ u.side \in Sides
    BY DEF f, Places
  <1> DEFINE to == Put(s2, u, f)
  <1> HIDE DEF to, f
  <1>9. IsReplaced(son, to, e, f, u)
    BY <1>2, <1>4, <1>5, <1>6, <1>7, <1>8 DEF IsReplaced, IsPut, Sides, to
  <1>10. QED
    BY <1>1, <1>5, <1>9 DEF to, f

\* The leaf takes the place of the element in the trees of all calls above.
LEMMA LeafReturnFacts ==
    ASSUME IInv, LeafReturn
    PROVE  /\ TypeOK /\ elem \in Members /\ elem \in Nodes /\ leaf \in Nodes \ Members
           /\ son' \in Pointers /\ red' \in SUBSET Nodes /\ stack' \in Seq(Places) /\ short \in BOOLEAN
           /\ Members' = (Members \ {elem}) \cup {leaf}
           /\ \E X, Y, H, W :
                 /\ Shrunk(son, red, stack, X, Y, H, short) /\ X[1] = Members
                 /\ Shrunk(son', red', stack', W, Y, H, short) /\ W[1] = Members'
                 /\ \A i \in 1 .. Len(stack) - 1 : W[i] = (X[i] \ {elem}) \cup {leaf}
  <1> DEFINE n == Len(stack)  f == leaf  e == elem  u == stack[n - 1]
             to == son'  Q == red'  ts == stack'
  <1>1. /\ stage = "deleted" /\ leaf # NULL /\ Calling.node = elem
        /\ TakePlace(elem) /\ PaintAs(leaf, elem, {})
        /\ ts = Append(Front(stack), Place(f, "left"))
        /\ leaf' = NULL
        /\ UNCHANGED <<stage, elem, short, answer, walkVars, failed>>
    BY DEF LeafReturn
  <1>2. TypeOK /\ elem \in Nodes
    BY <1>1, LeftFacts
  <1>3. PICK X, Y, H :
          /\ Shrunk(son, red, stack, X, Y, H, short) /\ X[1] = Members
          /\ Context(son, red, stack, X, Y, H)
          /\ leaf # NULL =>
                /\ elem \in Members /\ leaf \in Nodes \ Members
                /\ \A i \in 2 .. n : On(stack[i].side, leaf, stack[i].node)
                /\ \E k \in 2 .. n :
                      /\ stack[k] = Place(elem, "left")
                      /\ \A m \in X[k] : Before(m, leaf)
    BY <1>1, LeftFacts
  <1>4. PICK k \in 2 .. n : stack[k] = Place(elem, "left") /\ \A m \in X[k] : Before(m, leaf)
    BY <1>1, <1>3
  <1>5. /\ stack \in Seq(Places) /\ n \in Nat /\ n >= 1 /\ Calling = stack[n]
        /\ son \in Pointers /\ red \in SUBSET Nodes /\ Members \subseteq Nodes
        /\ \A i \in 1 .. n : X[i] \subseteq Members
    BY <1>3, CallFacts
  <1>6. n # 1 /\ n - 1 \in 1 .. n /\ n \in 1 .. n /\ k \in 1 .. n
    BY <1>5
  <1>7. k = n
    <2>1. SUFFICES ASSUME k # n PROVE FALSE
      OBVIOUS
    <2>2. k <= n - 1
      BY <1>5, <2>1
    <2>3. Called(son, red, stack, X, Y, H, n)
      BY <1>3, <1>5, <1>6, CallerFacts
    <2>4. elem \in X[n - 1]
      BY <1>1, <1>5, <2>3 DEF Called, Joins
    <2>5. X[n - 1] \subseteq X[k]
      BY <1>3, <1>6, <2>2 DEF Context
    <2>6. stack[k].node \notin X[k]
      BY <1>3, CallersAre
    <2>7. QED
      BY <1>4, <2>4, <2>5, <2>6 DEF Place
  <1>8. u \in Places /\ u.node # leaf /\ u = Last(Front(stack))
    <2>1. u.node \in Members \cup {Owner}
      BY <1>3, <1>6, CallersAre
    <2>2. leaf \in Nodes \ Members
      BY <1>1, <1>3
    <2>3. u = Last(Front(stack))
      BY <1>3, <1>5, <1>6, CallingIsLast
    <2>4. u \in Places
      BY <1>5, <1>6
    <2>5. QED
      BY <2>1, <2>2, <2>3, <2>4, NodeFacts
  <1>9. to \in Pointers /\ IsReplaced(son, to, e, f, u)
    BY <1>1, <1>2, <1>3, <1>5, <1>8, TakePlaceIs
  <1>10. Q = IF e \in red THEN red \cup {f} ELSE red \ {f}
    BY <1>1 DEF PaintAs, Paint, IsRed
  <1>11. Q \in SUBSET Nodes
    BY <1>1, <1>3, <1>5, <1>10
  <1>12. short \in BOOLEAN
    BY <1>2 DEF TypeOK
  <1> DEFINE W == [i \in Nat |-> IF i = n THEN X[n] ELSE (X[i] \ {e}) \cup {f}]
  <1>13. Replacing(son, red, stack, X, Y, H, short, n, e, f, to, Q, W, ts)
    <2>1. /\ e \in Nodes /\ stack[n] = Place(e, "left") /\ f \in Nodes /\ f \notin X[1]
          /\ \A i \in 2 .. n : On(stack[i].side, f, stack[i].node)
          /\ \A m \in X[n] : Before(m, f)
      BY <1>1, <1>2, <1>3, <1>4, <1>7
    <2> HIDE DEF e, f, to, Q, ts
    <2>2. QED
      BY <1>1, <1>3, <1>5, <1>6, <1>9, <1>10, <1>12, <2>1 DEF Replacing
  <1>14. W[1] = (Members \ {elem}) \cup {leaf}
    BY <1>3, <1>6
  <1>15. Shrunk(to, Q, ts, W, Y, H, short)
    <2> HIDE DEF W, e, f, to, Q, ts, n
    <2>1. QED
      BY <1>13, LeafReplaces
  <1>16. Members' = W[1] /\ ts \in Seq(Places)
    <2> HIDE DEF W, to, Q, ts
    <2>1. NodesOf(to, To(to, Top)) = W[1]
      BY <1>9, <1>11, <1>15, WholeTree
    <2>2. ts \in Seq(Places)
      BY <1>15 DEF Shrunk, Context
    <2>3. QED
      BY <2>1, <2>2, MembersAre DEF to
  <1>17. \A i \in 1 .. n - 1 : W[i] = (X[i] \ {elem}) \cup {leaf}
    BY <1>5
  <1>18. leaf \in Nodes \ Members /\ elem \in Members
    BY <1>1, <1>3
  <1> HIDE DEF W
  <1>19. Members' = (Members \ {elem}) \cup {leaf}
    BY <1>14, <1>16
  <1>20. QED
    BY <1>2, <1>3, <1>9, <1>11, <1>12, <1>15, <1>16, <1>17, <1>18, <1>19

\* The leaf takes the place of the element.
LEMMA LeafReturnStep ==
    ASSUME IInv, LeafReturn
    PROVE  IInv' /\ DictionaryStep
  <1>1. /\ stage = "deleted" /\ leaf # NULL /\ leaf' = NULL
        /\ UNCHANGED <<stage, elem, short, answer, walkVars, failed>>
    BY DEF LeafReturn
  <1>2. /\ TypeOK /\ elem \in Members /\ elem \in Nodes /\ leaf \in Nodes \ Members
        /\ son' \in Pointers /\ red' \in SUBSET Nodes /\ stack' \in Seq(Places) /\ short \in BOOLEAN
        /\ Members' = (Members \ {elem}) \cup {leaf}
    BY LeafReturnFacts
  <1>3. PICK W, Y, H : Shrunk(son', red', stack', W, Y, H, short) /\ W[1] = Members'
    BY LeafReturnFacts
  <1>4. Left'
    <2>1. elem' \in Nodes /\ elem' \notin Members' /\ leaf' = NULL
      BY <1>1, <1>2
    <2>2. Shrunk(son', red', stack', W, Y, H, short') /\ W[1] = Members'
      BY <1>1, <1>3
    <2>3. QED
      BY <2>1, <2>2 DEF Left
  <1>5. TreeInv'
    BY <1>1, <1>4 DEF TreeInv, Looking
  <1>6. IInv'
    BY <1>1, <1>2, <1>5, CallStep DEF TypeOK, Stages
  <1>7. Elements' = Elements /\ answer' = answer
    BY <1>1, <1>2 DEF Elements
  <1>8. QED
    BY <1>6, <1>7 DEF DictionaryStep

\* The calls return.
LEMMA DeleteReturnStep ==
    ASSUME IInv, DeleteReturn
    PROVE  IInv' /\ DictionaryStep
  <1> DEFINE n == Len(stack)
  <1>1. /\ stage = "deleted" /\ Calling # Top
        /\ leaf # NULL => Calling.node # elem
        /\ stack' = Front(stack)
        /\ UNCHANGED <<stage, elem, leaf, answer, walkVars>>
    BY DEF DeleteReturn, Returns
  <1>2. TypeOK /\ elem \in Nodes /\ ~failed
    BY <1>1, LeftFacts DEF IInv
  <1>3. PICK X, Y, H :
          /\ Shrunk(son, red, stack, X, Y, H, short) /\ X[1] = Members
          /\ Context(son, red, stack, X, Y, H)
          /\ leaf = NULL => elem \notin Members
          /\ leaf # NULL =>
                /\ elem \in Members /\ leaf \in Nodes \ Members
                /\ \A i \in 2 .. n : On(stack[i].side, leaf, stack[i].node)
                /\ \E k \in 2 .. n :
                      /\ stack[k] = Place(elem, "left")
                      /\ \A m \in X[k] : Before(m, leaf)
    BY <1>1, LeftFacts
  <1>4. /\ stack \in Seq(Places) /\ n \in Nat /\ n >= 1 /\ Calling = stack[n]
        /\ son \in Pointers /\ red \in SUBSET Nodes
    BY <1>3, CallFacts
  <1>5. {short, failed} \subseteq BOOLEAN
    BY <1>2, Types
  <1>6. /\ son' \in Pointers /\ red' \in SUBSET Nodes
        /\ short' \in BOOLEAN /\ failed' = failed
        /\ Shrunk(son', red', stack', X, Y, H, short')
    BY <1>3, <1>4, <1>5, DeleteReturns
  <1>7. Members' = Members
    <2> DEFINE to == son'  Q == red'  ts == stack'  less == short'
    <2>1. to \in Pointers /\ Q \in SUBSET Nodes /\ Shrunk(to, Q, ts, X, Y, H, less)
      BY <1>6
    <2> HIDE DEF to, Q, ts, less
    <2>2. NodesOf(to, To(to, Top)) = X[1]
      BY <2>1, WholeTree
    <2>3. QED
      BY <1>3, <2>2, MembersAre DEF to
  <1>8. /\ Front(stack) \in Seq(Places) /\ Len(Front(stack)) = n - 1
        /\ \A i \in 1 .. n - 1 : Front(stack)[i] = stack[i]
    BY <1>4, PlaceFacts
  <1>9. ASSUME leaf # NULL
        PROVE  /\ \A i \in 2 .. Len(stack') : On(stack'[i].side, leaf, stack'[i].node)
               /\ \E k \in 2 .. Len(stack') :
                     /\ stack'[k] = Place(elem, "left")
                     /\ \A m \in X[k] : Before(m, leaf)
    <2>1. \A i \in 2 .. n - 1 : i \in 2 .. n /\ i \in 1 .. n - 1
      BY <1>4
    <2>2. \A i \in 2 .. n - 1 : On(stack'[i].side, leaf, stack'[i].node)
      BY <1>1, <1>3, <1>8, <1>9, <2>1
    <2>3. PICK k \in 2 .. n : stack[k] = Place(elem, "left") /\ \A m \in X[k] : Before(m, leaf)
      BY <1>3, <1>9
    <2>4. k # n
      BY <1>1, <1>4, <1>9, <2>3 DEF Place
    <2>5. k \in 2 .. n - 1
      BY <1>4, <2>4
    <2>6. QED
      BY <1>1, <1>8, <2>1, <2>2, <2>3, <2>5
  <1>10. Left'
    <2>1. /\ elem' \in Nodes /\ X[1] = Members'
          /\ leaf' = NULL => elem' \notin Members'
          /\ leaf' # NULL => elem' \in Members' /\ leaf' \in Nodes \ Members'
      BY <1>1, <1>2, <1>3, <1>7
    <2>2. leaf' # NULL =>
             /\ \A i \in 2 .. Len(stack') : On(stack'[i].side, leaf', stack'[i].node)
             /\ \E k \in 2 .. Len(stack') :
                   /\ stack'[k] = Place(elem', "left")
                   /\ \A m \in X[k] : Before(m, leaf')
      BY <1>1, <1>9
    <2>3. QED
      BY <1>6, <2>1, <2>2 DEF Left
  <1>11. TreeInv'
    BY <1>1, <1>10 DEF TreeInv, Looking
  <1>12. IInv'
    BY <1>1, <1>2, <1>6, <1>8, <1>11, CallStep DEF TypeOK, Stages
  <1>13. Elements' = Elements /\ answer' = answer
    BY <1>1, <1>7 DEF Elements
  <1>14. QED
    BY <1>12, <1>13 DEF DictionaryStep

\* The links of the nodes ns are as they were.
LEMMA LinksAre ==
    ASSUME son \in Pointers, NEW ns
    PROVE  /\ Links(ns) \in Pointers /\ To(Links(ns), Top) = To(son, Top)
           /\ \A q \in Sides, m \in Nodes \cap ns : Links(ns)[q][m] = son[q][m]
  BY DEF Links, Pointers, To, Top, Place, Sides

\* delete() has ended.
LEMMA DeleteEndStep ==
    ASSUME IInv, DeleteEnd
    PROVE  IInv' /\ DictionaryStep
  <1> DEFINE n == Len(stack)
  <1>1. /\ stage = "deleted" /\ Calling = Top /\ End
        /\ IF Walking THEN son' = son /\ red' = red \ {root}
           ELSE son' = Links(Nodes \ {elem}) /\ red' = red \ {root, elem}
        /\ UNCHANGED <<answer, walkVars, failed>>
    BY DEF DeleteEnd, Paint
  <1>2. TypeOK /\ elem \in Nodes
    BY <1>1, LeftFacts
  <1>3. PICK X, Y, H :
          /\ Shrunk(son, red, stack, X, Y, H, short) /\ X[1] = Members
          /\ Context(son, red, stack, X, Y, H)
          /\ leaf = NULL => elem \notin Members
          /\ leaf # NULL => 2 .. n # {}
    BY <1>1, LeftFacts
  <1>4. /\ stack \in Seq(Places) /\ n \in Nat /\ n >= 1 /\ Calling = stack[n]
        /\ son \in Pointers /\ red \in SUBSET Nodes /\ Members \subseteq Nodes
    BY <1>3, CallFacts
  <1>5. n = 1
    BY <1>1, <1>3, <1>4, OnlyCall
  <1>6. leaf = NULL /\ elem \notin Members
    BY <1>3, <1>5
  <1>7. /\ \E h : Tree(son, red, To(son, Top), Members, h)
        /\ To(son, Top) \notin red
    <2>1. stack[n] = Top /\ Top.node = Owner
      BY <1>1, <1>4 DEF Top, Place
    <2>2. QED
      BY <1>3, <1>5, <2>1 DEF Shrunk
  <1>8. root = To(son, Top)
    BY DEF root, At, To
  <1>9. Standing
    BY <1>7, <1>8 DEF Standing
  <1>10. /\ son' \in Pointers /\ red' \in SUBSET Nodes /\ To(son', Top) = To(son, Top)
         /\ \A m \in Members : (m \in red' <=> m \in red) /\ \A q \in Sides : son'[q][m] = son[q][m]
    <2>1. CASE Walking
      BY <1>1, <1>4, <1>7, <1>8, <2>1
    <2>2. CASE ~Walking
      <3>1. son' \in Pointers /\ To(son', Top) = To(son, Top)
            /\ \A q \in Sides, m \in Nodes \cap (Nodes \ {elem}) : son'[q][m] = son[q][m]
        BY <1>1, <1>4, <2>2, LinksAre
      <3>2. \A m \in Members : m \in Nodes \cap (Nodes \ {elem}) /\ m # elem
        BY <1>4, <1>6
      <3>3. QED
        BY <1>1, <1>4, <1>7, <1>8, <2>2, <3>1, <3>2
    <2>3. QED
      BY <2>1, <2>2
  <1>11. Standing' /\ Members' = Members
    BY <1>2, <1>9, <1>10, StillStanding
  <1>12. TreeInv'
    BY <1>1, <1>11, Ended DEF TreeInv, Looking
  <1>13. IInv'
    BY <1>1, <1>2, <1>10, <1>12, Ended, CallStep DEF TypeOK
  <1>14. Elements' = Elements /\ answer' = answer
    BY <1>1, <1>6, <1>11, Ended DEF Elements
  <1>15. QED
    BY <1>13, <1>14 DEF DictionaryStep

-----------------------------------------------------------------------------
(* Walking.                                                                *)

\* An iterator changes nothing of the tree.
LEMMA TreeAlone ==
    ASSUME UNCHANGED <<treeVars, callVars>>
    PROVE  /\ TreeInv' = TreeInv /\ Elements' = Elements /\ Members' = Members /\ root' = root
  <1>1. /\ son' = son /\ red' = red /\ stage' = stage /\ elem' = elem /\ stack' = stack
        /\ leaf' = leaf /\ short' = short
    BY DEF treeVars, callVars
  <1>2. root' = root /\ Members' = Members /\ Calling' = Calling /\ At(Calling)' = At(Calling) /\ Looking' = Looking
    BY <1>1 DEF root, At, Members, Calling, Looking
  <1>3. /\ Standing' = Standing /\ Sought' = Sought /\ Entering' = Entering /\ Arrived' = Arrived
        /\ Searched' = Searched /\ Leaving' = Leaving /\ Left' = Left
    BY <1>1, <1>2 DEF Standing, Sought, Entering, Arrived, Searched, Leaving, Left
  <1>4. TreeInv' = TreeInv
    BY <1>1, <1>2, <1>3 DEF TreeInv
  <1>5. QED
    BY <1>1, <1>2, <1>4 DEF Elements

Frames == [node : Nodes, pass : 0 .. 2]

\* What the steps of an iterator leave alone.
LEMMA WalkStep ==
    ASSUME IInv, UNCHANGED <<treeVars, callVars, answer, failed>>,
           use' \in Uses \cup {"none"}, order' \in 0 .. 2, path' \in Seq(Frames),
           seen' \in Seq(Nodes), start' \subseteq Nodes, at' \in BOOLEAN, touched' \in BOOLEAN,
           at' => path' # <<>>
    PROVE  IInv' /\ DictionaryStep
  <1>1. TreeInv' /\ Elements' = Elements
    BY TreeAlone DEF IInv
  <1>2. TypeOK'
    BY DEF IInv, TypeOK, treeVars, callVars, Frames
  <1>3. QED
    BY <1>1, <1>2 DEF IInv, DictionaryStep

\* The steps of an iterator.
LEMMA StartWalkStep ==
    ASSUME IInv, NEW for \in Uses, StartWalk(for)
    PROVE  IInv' /\ DictionaryStep
  <1>1. Idle /\ root # NULL
    BY DEF StartWalk
  <1>2. Members \subseteq Nodes /\ TypeOK /\ son \in Pointers
    BY <1>1, IdleFacts DEF Idle
  <1>3. root \in Nodes
    BY <1>1, <1>2, NodeFacts DEF root, At, Top, Place, Pointers, Sides
  <1>4. Frame(root) \in Frames
    BY <1>3 DEF Frame, Frames
  <1>5. path' \in Seq(Frames) /\ path' # <<>>
    BY <1>4 DEF StartWalk
  <1>6. seen' \in Seq(Nodes) /\ start' \subseteq Nodes /\ at' \in BOOLEAN /\ touched' \in BOOLEAN
    <2>1. seen' = <<>> /\ start' = Members /\ touched' = FALSE
      BY DEF StartWalk
    <2>2. at' = (order' = PreOrder)
      BY DEF StartWalk
    <2>3. at' \in BOOLEAN
      BY <2>2
    <2>4. seen' \in Seq(Nodes)
      BY <2>1
    <2>5. start' \subseteq Nodes /\ touched' \in BOOLEAN
      BY <1>2, <2>1
    <2>6. QED
      BY <2>3, <2>4, <2>5
  <1>7. order' \in 0 .. 2
    BY DEF StartWalk, WalkOrder, PreOrder, InOrder, PostOrder
  <1>8. QED
    BY <1>5, <1>6, <1>7, WalkStep DEF StartWalk

\* The last frame of a path.
LEMMA PathFacts ==
    ASSUME path \in Seq(Frames), path # <<>>
    PROVE  /\ Len(path) \in Nat /\ Len(path) >= 1 /\ Len(path) \in 1 .. Len(path)
           /\ Last(path) = path[Len(path)] /\ Last(path) \in Frames
           /\ Front(path) \in Seq(Frames) /\ Len(Front(path)) = Len(path) - 1
           /\ \A i \in 1 .. Len(path) - 1 : Front(path)[i] = path[i]
  <1>1. Len(path) \in Nat /\ Len(path) >= 1 /\ Len(path) \in 1 .. Len(path)
    OBVIOUS
  <1>2. Last(path) = path[Len(path)] /\ Last(path) \in Frames
    BY <1>1 DEF Last
  <1> DEFINE n == Len(path) - 1
  <1>3. Front(path) = SubSeq(path, 1, n) /\ n \in Nat
    BY <1>1 DEF Front
  <1>4. /\ SubSeq(path, 1, n) \in Seq(Frames) /\ Len(SubSeq(path, 1, n)) = n
        /\ \A i \in 1 .. n : SubSeq(path, 1, n)[i] = path[i]
    <2>1. \A i \in 1 .. n : i \in 1 .. Len(path)
      BY <1>1
    <2> HIDE DEF n
    <2>2. QED
      BY <1>1, <1>3, <2>1
  <1>5. QED
    BY <1>1, <1>2, <1>3, <1>4

\* A turn of the loop of an iterator leaves the tree alone.
LEMMA TurnStep ==
    ASSUME IInv, Turn
    PROVE  IInv' /\ DictionaryStep
  <1> DEFINE top  == Last(path)
             next == IF top.pass = 0 THEN son["left"][top.node] ELSE son["right"][top.node]
             here == [path EXCEPT ![Len(path)].pass = @ + 1]
  <1>1. /\ Idle /\ path # <<>>
        /\ \/ BothPassed(top) /\ path' = Front(path) /\ touched' = touched
           \/ /\ ~BothPassed(top)
              /\ path' = IF next = NULL THEN here ELSE Append(here, Frame(next))
              /\ touched' = (touched \/ \E i \in DOMAIN seen : seen[i] = top.node)
        /\ at' = (path' # <<>> /\ Last(path').pass = order)
        /\ UNCHANGED <<treeVars, callVars, answer, use, order, seen, start, failed>>
    BY DEF Turn
  <1>2. TypeOK /\ son \in Pointers
    BY <1>1, IdleFacts DEF Idle
  <1>3. path \in Seq(Frames) /\ touched \in BOOLEAN
    BY <1>2 DEF TypeOK, Frames
  <1>4. /\ Len(path) \in 1 .. Len(path) /\ top = path[Len(path)] /\ top \in Frames
        /\ Front(path) \in Seq(Frames)
    BY <1>1, <1>3, PathFacts
  <1>5. path' \in Seq(Frames) /\ touched' \in BOOLEAN
    <2>1. CASE BothPassed(top)
      BY <1>1, <1>3, <1>4, <2>1
    <2>2. CASE ~BothPassed(top)
      <3>1. top.pass + 1 \in 0 .. 2 /\ top.node \in Nodes
        BY <1>4, <2>2 DEF Frames, BothPassed
      <3>2. here \in Seq(Frames)
        <4>1. here = [path EXCEPT ![Len(path)] = [top EXCEPT !.pass = top.pass + 1]]
          BY <1>4
        <4>2. [top EXCEPT !.pass = top.pass + 1] \in Frames
          BY <1>4, <3>1 DEF Frames
        <4> DEFINE f == [top EXCEPT !.pass = top.pass + 1]
        <4> HIDE DEF f, here
        <4>3. [path EXCEPT ![Len(path)] = f] \in Seq(Frames)
          BY <1>3, <1>4, <4>2 DEF f
        <4>4. QED
          BY <4>1, <4>3 DEF f
      <3>3. next \in Nodes \cup {NULL}
        BY <1>2, <3>1 DEF Pointers, Sides
      <3>4. next # NULL => Frame(next) \in Frames
        BY <3>3 DEF Frame, Frames
      <3>5. touched' \in BOOLEAN
        BY <1>1, <1>3, <2>2
      <3> HIDE DEF here, next
      <3>6. QED
        BY <1>1, <2>2, <3>2, <3>4, <3>5
    <2>3. QED
      BY <2>1, <2>2
  <1>6. use' \in Uses \cup {"none"} /\ order' \in 0 .. 2 /\ seen' \in Seq(Nodes) /\ start' \subseteq Nodes
    BY <1>1, <1>2 DEF TypeOK
  <1>7. at' \in BOOLEAN /\ (at' => path' # <<>>)
    BY <1>1
  <1>8. QED
    BY <1>1, <1>5, <1>6, <1>7, WalkStep

\* The current member of the iterator.
LEMMA VisitFacts ==
    ASSUME IInv, Visit
    PROVE  /\ TypeOK /\ Standing /\ Elements = Members /\ leaf = NULL /\ path # <<>>
           /\ Last(path).node \in Nodes /\ seen' \in Seq(Nodes) /\ at' = FALSE
           /\ UNCHANGED <<treeVars, answer, use, order, path, start, touched, failed>>
  <1>1. /\ Idle /\ at /\ seen' = Append(seen, Last(path).node) /\ at' = FALSE
        /\ UNCHANGED <<treeVars, answer, use, order, path, start, touched, failed>>
    BY DEF Visit
  <1>2. TypeOK /\ Standing /\ Elements = Members /\ leaf = NULL /\ path # <<>>
    BY <1>1, IdleFacts DEF Idle, IInv
  <1>3. path \in Seq(Frames) /\ seen \in Seq(Nodes)
    BY <1>2 DEF TypeOK, Frames
  <1>4. Last(path).node \in Nodes
    BY <1>2, <1>3, PathFacts DEF Frames
  <1>5. QED
    BY <1>1, <1>2, <1>3, <1>4

\* So does a caller who reads or frees the members.
LEMMA VisitOnlyStep ==
    ASSUME IInv, VisitOnly
    PROVE  IInv' /\ DictionaryStep
  <1>1. Visit /\ UNCHANGED callVars
    BY DEF VisitOnly
  <1>2. /\ TypeOK /\ path # <<>>
        /\ seen' \in Seq(Nodes) /\ at' = FALSE
        /\ UNCHANGED <<treeVars, answer, use, order, path, start, touched, failed>>
    BY <1>1, VisitFacts
  <1>3. QED
    BY <1>1, <1>2, WalkStep DEF TypeOK, Frames

\* One who deletes begins to look for the current member.
LEMMA VisitAndDeleteStep ==
    ASSUME IInv, VisitAndDelete
    PROVE  IInv' /\ DictionaryStep
  <1> DEFINE e == Last(path).node
  <1>1. Visit /\ Begin("lookDelete", e)
    BY DEF VisitAndDelete
  <1>2. /\ TypeOK /\ Standing /\ Elements = Members /\ leaf = NULL /\ path # <<>>
        /\ e \in Nodes /\ seen' \in Seq(Nodes) /\ at' = FALSE
        /\ UNCHANGED <<treeVars, answer, use, order, path, start, touched, failed>>
    BY <1>1, VisitFacts
  <1>3. /\ stage' = "lookDelete" /\ elem' = e /\ stack' = <<Top>> /\ leaf' = NULL
        /\ stack' \in Seq(Places) /\ short' \in BOOLEAN
    BY <1>1, BegunTypes
  <1>4. Standing' /\ Sought' /\ Members' = Members
    <2> HIDE DEF e
    <2>1. QED
      BY <1>2, <1>3, SoughtBegins
  <1>5. TreeInv'
    BY <1>3, <1>4 DEF TreeInv, Looking
  <1>6. TypeOK'
    <2>1. {short', at', touched', failed'} \subseteq BOOLEAN
      BY <1>2, <1>3 DEF TypeOK
    <2>2. QED
      BY <1>2, <1>3, <2>1 DEF TypeOK, treeVars
  <1>7. IInv'
    BY <1>2, <1>5, <1>6 DEF IInv
  <1>8. Elements' = Elements /\ answer' = answer
    BY <1>2, <1>3, <1>4 DEF Elements
  <1>9. QED
    BY <1>7, <1>8 DEF DictionaryStep

\* The end of a walk resets the members of nodes that are not in the tree.
LEMMA EndWalkStep ==
    ASSUME IInv, EndWalk
    PROVE  IInv' /\ DictionaryStep
  <1>1. /\ Idle /\ ~at
        /\ answer' = IF use = "free" THEN NULL ELSE answer
        /\ use' = "none" /\ order' = WalkOrder /\ path' = <<>>
        /\ seen' = <<>> /\ start' = {} /\ touched' = FALSE
        /\ UNCHANGED <<callVars, at, failed>>
    BY DEF EndWalk
  <1>2. /\ TypeOK /\ Standing /\ Elements = Members /\ leaf = NULL /\ Members \subseteq Nodes
        /\ son \in Pointers /\ red \in SUBSET Nodes
    BY <1>1, IdleFacts DEF Idle
  <1>3. CASE use = "free"
    <2>1. son' = Put(Links({}), Top, NULL) /\ red' = {}
      BY <1>3 DEF EndWalk
    <2>2. Links({}) \in Pointers /\ Top \in Places
      BY <1>2, LinksAre DEF Top, Place, Places, Sides
    <2>3. son' \in Pointers /\ To(son', Top) = NULL
      BY <2>1, <2>2, PutIs DEF IsPut
    <2>4. Tree(son', red', NULL, {}, 0)
      <3> DEFINE to == son'  Q == red'
      <3> HIDE DEF to, Q
      <3>1. Tree(to, Q, NULL, {}, 0)
        BY EmptyTree
      <3>2. QED
        BY <3>1 DEF to, Q
    <2>5. Members' = {}
      <3> DEFINE to == son'  Q == red'
      <3>1. to \in Pointers /\ Tree(to, Q, NULL, {}, 0) /\ To(to, Top) = NULL
        BY <2>3, <2>4
      <3> HIDE DEF to, Q
      <3>2. NodesOf(to, To(to, Top)) = {}
        BY <3>1, NodesOfTree
      <3>3. QED
        BY <3>2, MembersAre DEF to
    <2>6. root' = NULL /\ NULL \notin red'
      BY <2>1, <2>3 DEF root, At, To
    <2>7. Standing'
      BY <2>4, <2>5, <2>6 DEF Standing
    <2>8. stage' = "idle" /\ leaf' = NULL /\ Elements' = {}
      BY <1>1, <1>2, <2>5 DEF Elements, callVars, Idle
    <2>9. Set!Drop
      BY <1>1, <1>3, <2>8 DEF Set!Drop
    <2>10. QED
      <3>1. TreeInv'
        BY <2>7, <2>8 DEF TreeInv, Looking
      <3>2. TypeOK'
        <4>1. {short', at', touched', failed'} \subseteq BOOLEAN
          BY <1>1, <1>2 DEF TypeOK, callVars
        <4>2. order' \in 0 .. 2 /\ path' \in Seq(Frames) /\ seen' \in Seq(Nodes) /\ answer' \in Nodes \cup {NULL}
          BY <1>1, <1>3 DEF WalkOrder, PostOrder
        <4>3. QED
          BY <1>1, <1>2, <2>1, <2>3, <4>1, <4>2 DEF TypeOK, callVars, Frames, Pointers
      <3>3. IInv'
        BY <1>1, <3>1, <3>2 DEF IInv
      <3>4. QED
        BY <2>9, <3>3 DEF DictionaryStep, Set!Next
  <1>4. CASE use # "free"
    <2>1. son' = Links(Members) /\ red' = red \cap Members
      BY <1>4 DEF EndWalk
    <2>2. /\ son' \in Pointers /\ To(son', Top) = To(son, Top)
          /\ \A q \in Sides, m \in Nodes \cap Members : son'[q][m] = son[q][m]
      BY <1>2, <2>1, LinksAre
    <2>3. red' \in SUBSET Nodes /\ \A m \in Members : (m \in red' <=> m \in red) /\ \A q \in Sides : son'[q][m] = son[q][m]
      BY <1>2, <2>1, <2>2
    <2>4. Standing' /\ Members' = Members
      BY <1>2, <2>2, <2>3, StillStanding
    <2>5. stage' = "idle" /\ leaf' = NULL /\ Elements' = Elements
      BY <1>1, <1>2, <2>4 DEF Elements, callVars, Idle
    <2>6. QED
      <3>1. TreeInv'
        BY <2>4, <2>5 DEF TreeInv, Looking
      <3>2. TypeOK'
        <4>1. {short', at', touched', failed'} \subseteq BOOLEAN
          BY <1>1, <1>2 DEF TypeOK, callVars
        <4>2. order' \in 0 .. 2 /\ path' \in Seq(Frames) /\ seen' \in Seq(Nodes) /\ answer' \in Nodes \cup {NULL}
          BY <1>1, <1>2, <1>4 DEF WalkOrder, PostOrder, TypeOK
        <4>3. QED
          BY <1>1, <1>2, <2>2, <2>3, <4>1, <4>2 DEF TypeOK, callVars, Frames, Pointers
      <3>3. IInv'
        BY <1>1, <3>1, <3>2 DEF IInv
      <3>4. QED
        BY <1>1, <1>4, <2>5, <3>3 DEF DictionaryStep
  <1>5. QED
    BY <1>3, <1>4

-----------------------------------------------------------------------------
(* The theorems.                                                           *)

\* Every step keeps the invariant and is a step of the dictionary.
LEMMA EveryStep ==
    ASSUME IInv, Next
    PROVE  IInv' /\ DictionaryStep
  <1>1. CASE \E e \in Nodes : Add(e) \/ AddIfNotMember(e) \/ Delete(e) \/ DeleteIfMember(e)
    BY <1>1, AddStep, AddIfNotMemberStep, DeleteStep, DeleteIfMemberStep
  <1>2. CASE LookDown
    BY <1>2, LookDownStep
  <1>3. CASE LookAddEnd
    BY <1>3, LookAddEndStep
  <1>4. CASE LookDeleteEnd
    BY <1>4, LookDeleteEndStep
  <1>5. CASE AddDown
    BY <1>5, AddDownStep
  <1>6. CASE AddLink
    BY <1>6, AddLinkStep
  <1>7. CASE AddReturn
    BY <1>7, AddReturnStep
  <1>8. CASE AddEnd
    BY <1>8, AddEndStep
  <1>9. CASE DeleteDown
    BY <1>9, DeleteDownStep
  <1>10. CASE DeleteFound
    BY <1>10, DeleteFoundStep
  <1>11. CASE LeafDown
    BY <1>11, LeafDownStep
  <1>12. CASE LeafUnlink
    BY <1>12, LeafUnlinkStep
  <1>13. CASE LeafReturn
    BY <1>13, LeafReturnStep
  <1>14. CASE DeleteReturn
    BY <1>14, DeleteReturnStep
  <1>15. CASE DeleteEnd
    BY <1>15, DeleteEndStep
  <1>16. CASE \E for \in Uses : StartWalk(for)
    BY <1>16, StartWalkStep
  <1>17. CASE Turn
    BY <1>17, TurnStep
  <1>18. CASE VisitOnly
    BY <1>18, VisitOnlyStep
  <1>19. CASE VisitAndDelete
    BY <1>19, VisitAndDeleteStep
  <1>20. CASE EndWalk
    BY <1>20, EndWalkStep
  <1>21. QED
    BY <1>1, <1>2, <1>3, <1>4, <1>5, <1>6, <1>7, <1>8, <1>9, <1>10, <1>11, <1>12, <1>13,
       <1>14, <1>15, <1>16, <1>17, <1>18, <1>19, <1>20 DEF Next

\* A step that changes nothing keeps it.
LEMMA Stutters ==
    ASSUME IInv, UNCHANGED vars
    PROVE  IInv' /\ DictionaryStep
  <1>1. /\ UNCHANGED <<treeVars, callVars, answer, failed>> /\ UNCHANGED walkVars
    BY DEF vars
  <1>2. TypeOK
    BY DEF IInv
  <1>3. QED
    BY <1>1, <1>2, WalkStep DEF walkVars, TypeOK, Frames, IInv

\* Whatever is added, deleted and walked, the tree is what its stage says:
\* a red-black search tree, or one that the calls on the stack are about to
\* repair.
THEOREM Invariance == Spec => []IInv
  <1>1. Init => IInv
    BY InitInv
  <1>2. IInv /\ [Next]_vars => IInv'
    BY EveryStep, Stutters
  <1>3. QED
    BY <1>1, <1>2, PTL DEF Spec

\* Every variable of the tree has its type.
THEOREM TypeCorrect == Spec => []TypeOK
  <1>1. IInv => TypeOK
    BY DEF IInv
  <1>2. QED
    BY <1>1, Invariance, PTL

\* Between two calls the tree obeys the red-black rules, and no assertion of
\* FIX_DELETION_DISCREPANCY fails: for any nodes and any keys.
THEOREM TreeBalanced == Spec => []Balanced
  <1>1. IInv => Balanced
    <2> SUFFICES ASSUME IInv PROVE Balanced
      OBVIOUS
    <2>1. ~failed
      BY DEF IInv
    <2>2. ASSUME Idle PROVE IsBlack(root) /\ BlackHeight # -1
      <3>1. Standing /\ TypeOK /\ son \in Pointers
        BY <2>2, IdleFacts DEF Idle
      <3>2. NULL \notin red
        BY <3>1, Types
      <3>3. PICK h : Tree(son, red, root, Members, h)
        BY <3>1 DEF Standing
      <3>4. BlackHeight = h /\ h \in Nat
        BY <3>1, <3>2, <3>3, HeightOfTree, TreeFacts
      <3>5. QED
        BY <3>1, <3>4 DEF Standing, IsBlack
    <2>3. QED
      BY <2>1, <2>2 DEF Balanced
  <1>2. QED
    BY <1>1, Invariance, PTL

\* add(), delete(), add_if_not_member() and delete_if_member() implement the
\* abstract dictionary: one element comes or goes by each, and a lookup finds
\* one with the key exactly if there is one.
THEOREM IsDictionary == Spec => DictionarySpec
  <1>1. Init => Set!Init
    BY InitInv DEF Init, Set!Init
  <1>2. IInv /\ [Next]_vars => [Set!Next]_<<Elements, answer>>
    BY EveryStep, Stutters DEF DictionaryStep
  <1>3. QED
    BY <1>1, <1>2, Invariance, PTL DEF Spec, DictionarySpec, Set!Spec
=============================================================================
