--------------------------- MODULE RBTreeWalkProof ----------------------------
(*****************************************************************************)
(* Theorems about the iterators of RBTree.                                  *)
(*                                                                          *)
(* What an iterator has returned is read off its path: below each frame what *)
(* the count of the frame says was passed, and the rest is still to come.   *)
(* When the caller deletes the members it gets, the path still leads over    *)
(* members, each ahead of those above it, and three of them are not missed.  *)
(*****************************************************************************)
EXTENDS RBTreeProof

-----------------------------------------------------------------------------
(* What an iterator has returned.                                          *)

\* What was passed below a frame f before the son c that is walked.
Passed(so, f, ord) ==
    (IF f.pass = 2 THEN NodesOf(so, so["left"][f.node]) ELSE {})
        \cup (IF f.pass > ord THEN {f.node} ELSE {})

Inner(so, f, c, S, ord) ==
    /\ f.pass \in {1, 2}
    /\ c = IF f.pass = 1 THEN so["left"][f.node] ELSE so["right"][f.node]
    /\ S \cap (NodesOf(so, f.node) \ NodesOf(so, c)) = Passed(so, f, ord)

\* What was passed below the last frame.
Topmost(so, f, S, ord, a) ==
    S \cap NodesOf(so, f.node) =
        (IF f.pass >= 1 THEN NodesOf(so, so["left"][f.node]) ELSE {})
            \cup (IF f.pass = 2 THEN NodesOf(so, so["right"][f.node]) ELSE {})
            \cup (IF f.pass > ord \/ (f.pass = ord /\ ~a) THEN {f.node} ELSE {})

\* The first m frames of pa lead down from the root top.
Leads(so, top, pa, m) ==
    /\ pa[1].node = top
    /\ \A i \in 1 .. m : pa[i].node \in NodesOf(so, top)
    /\ \A i, j \in 1 .. m : i <= j => NodesOf(so, pa[j].node) \subseteq NodesOf(so, pa[i].node)

Inners(so, pa, m, S, ord) == \A i \in 1 .. m - 1 : Inner(so, pa[i], pa[i + 1].node, S, ord)

\* S was returned when the path has m frames and, with a, its last one is current.
Walked(so, top, pa, m, S, ord, a) ==
    \/ /\ m = 0 /\ ~a
       /\ S = NodesOf(so, top)
    \/ /\ m >= 1
       /\ Leads(so, top, pa, m)
       /\ Inners(so, pa, m, S, ord)
       /\ Topmost(so, pa[m], S, ord, a)
       /\ a => pa[m].pass = ord

WalkInv ==
    Walking /\ use # "delete" =>
        /\ Idle /\ start = Members
        /\ ToSet(seen) \subseteq start /\ IsInjective(seen)
        /\ use = "free" => ~touched /\ order = 2
        /\ Walked(son, root, path, Len(path), ToSet(seen), order, at)

\* What is below every node of a tree.
Parted(so, n) ==
    LET L == NodesOf(so, so["left"][n])  R == NodesOf(so, so["right"][n])
    IN  /\ NodesOf(so, n) = {n} \cup L \cup R
        /\ n \notin L /\ n \notin R /\ L \cap R = {}
        /\ so["left"][n] # NULL => so["left"][n] \in L
        /\ so["right"][n] # NULL => so["right"][n] \in R

Standable(so, top) ==
    /\ NodesOf(so, NULL) = {}
    /\ \A n \in NodesOf(so, top) :
          n \in Nodes /\ NodesOf(so, n) \subseteq NodesOf(so, top) /\ Parted(so, n)

\* Every node of a tree is the root of a tree.
LEMMA SubTrees ==
    ASSUME NEW so, NEW R, NEW n, NEW X, NEW h, Tree(so, R, n, X, h), NEW m \in X
    PROVE  \E Y, k : Tree(so, R, m, Y, k) /\ Y \subseteq X
  <1>1. PICK s \in Sets, b \in Heights :
          /\ s[NULL] = {} /\ b[NULL] = 0
          /\ s[n] = X /\ b[n] = h
          /\ n \in X \cup {NULL}
          /\ \A o \in X : RulesAt(so, R, s, b, o)
    BY DEF Tree
  <1>2. n \in X
    BY <1>1
  <1>3. s[m] \subseteq X /\ m \in s[m]
    BY <1>1, <1>2 DEF RulesAt
  <1>4. m \in Nodes
    BY TreeFacts
  <1>5. Tree(so, R, m, s[m], b[m])
    <2>1. \A o \in s[m] : RulesAt(so, R, s, b, o)
      BY <1>1, <1>3
    <2>2. QED
      BY <1>1, <1>3, <1>4, <2>1 DEF Tree
  <1>6. QED
    BY <1>3, <1>5

\* What is below the two sons of a node is apart.
LEMMA TreeParted ==
    ASSUME NEW so \in Pointers, NEW R, NEW n, NEW X, NEW h, Tree(so, R, n, X, h)
    PROVE  Standable(so, n)
  <1>1. NodesOf(so, n) = X
    BY NodesOfTree
  <1>2. NodesOf(so, NULL) = {}
    BY NodesOfIs
  <1>3. ASSUME NEW m \in X
        PROVE  m \in Nodes /\ NodesOf(so, m) \subseteq X /\ Parted(so, m)
    <2>1. PICK Y, k : Tree(so, R, m, Y, k) /\ Y \subseteq X
      BY SubTrees
    <2>2. m \in Nodes /\ m # NULL
      BY TreeFacts, NodeFacts
    <2>3. NodesOf(so, m) = Y
      BY <2>1, NodesOfTree
    <2> DEFINE l == "left"
    <2>4. l \in Sides /\ Other(l) = "right"
      BY DEF Sides, Other
    <2>5. PICK A \in SUBSET Nodes, B \in SUBSET Nodes, j \in Nat :
            /\ Joins(l, m, A, B, Y)
            /\ Tree(so, R, so[l][m], A, j)
            /\ Tree(so, R, so[Other(l)][m], B, j)
      <3> HIDE DEF l
      <3>1. QED
        BY <2>1, <2>2, <2>4, TakeApart
    <2>6. NodesOf(so, so[l][m]) = A /\ NodesOf(so, so[Other(l)][m]) = B
      BY <2>5, NodesOfTree
    <2>7. m \notin A /\ m \notin B /\ A \cap B = {} /\ Y = {m} \cup A \cup B
      <3> HIDE DEF l
      <3>1. m \notin A /\ m \notin B /\ A \cap B = {}
        BY <2>4, <2>5, JoinsFacts
      <3>2. Y = {m} \cup A \cup B
        BY <2>5 DEF Joins
      <3>3. QED
        BY <3>1, <3>2
    <2>8. (so[l][m] # NULL => so[l][m] \in A) /\ (so[Other(l)][m] # NULL => so[Other(l)][m] \in B)
      BY <2>5, TreeFacts
    <2>9. QED
      BY <2>1, <2>2, <2>3, <2>4, <2>6, <2>7, <2>8 DEF Parted
  <1>4. QED
    BY <1>1, <1>2, <1>3 DEF Standable

\* A walk begins.
LEMMA WalkedBegun ==
    ASSUME NEW so, NEW top, Standable(so, top), top \in NodesOf(so, top), NEW ord \in 0 .. 2,
           NEW a \in BOOLEAN, a <=> ord = 0
    PROVE  Walked(so, top, <<Frame(top)>>, 1, {}, ord, a)
  <1> DEFINE pa == <<Frame(top)>>
  <1>1. pa[1].node = top /\ pa[1].pass = 0
    BY DEF Frame
  <1> HIDE DEF pa
  <1>2. Topmost(so, pa[1], {}, ord, a)
    <2>1. ~(0 >= 1) /\ ~(0 = 2) /\ ~(0 > ord) /\ ~(0 = ord /\ ~a)
      OBVIOUS
    <2>2. QED
      BY <1>1, <2>1 DEF Topmost
  <1>3. Leads(so, top, pa, 1) /\ Inners(so, pa, 1, {}, ord)
    <2>1. \A i \in 1 .. 1 : i = 1
      OBVIOUS
    <2>2. 1 .. 1 - 1 = {}
      OBVIOUS
    <2>3. QED
      BY <1>1, <2>1, <2>2 DEF Leads, Inners
  <1>4. Walked(so, top, pa, 1, {}, ord, a)
    BY <1>1, <1>2, <1>3 DEF Walked
  <1>5. QED
    BY <1>4 DEF pa

\* The current node is returned.
LEMMA WalkedVisited ==
    ASSUME NEW so, NEW top, Standable(so, top), NEW ord \in 0 .. 2, NEW pa, NEW m \in Nat, NEW S,
           Walked(so, top, pa, m, S, ord, TRUE), NEW e, e = pa[m].node
    PROVE  e \notin S /\ e \in NodesOf(so, top) /\ Walked(so, top, pa, m, S \cup {e}, ord, FALSE)
  <1>1. /\ m >= 1 /\ Leads(so, top, pa, m)
        /\ Inners(so, pa, m, S, ord)
        /\ Topmost(so, pa[m], S, ord, TRUE)
        /\ pa[m].pass = ord
    BY DEF Walked
  <1>2. m \in 1 .. m
    BY <1>1
  <1>3. Parted(so, e) /\ e \in NodesOf(so, top)
    BY <1>1, <1>2 DEF Standable, Leads
  <1>4. e \in NodesOf(so, e) /\ e \notin S
    BY <1>1, <1>2, <1>3 DEF Parted, Topmost
  <1>5. Topmost(so, pa[m], S \cup {e}, ord, FALSE)
    BY <1>1, <1>2, <1>4 DEF Topmost
  <1>6. ASSUME NEW i \in 1 .. m - 1
        PROVE  Inner(so, pa[i], pa[i + 1].node, S \cup {e}, ord)
    <2>1. i + 1 \in 1 .. m /\ i + 1 <= m
      BY <1>1
    <2>2. e \in NodesOf(so, pa[i + 1].node)
      BY <1>1, <1>2, <1>4, <2>1 DEF Leads
    <2>3. Inner(so, pa[i], pa[i + 1].node, S, ord)
      BY <1>1 DEF Inners
    <2>4. QED
      BY <2>2, <2>3 DEF Inner
  <1>7. Inners(so, pa, m, S \cup {e}, ord)
    BY <1>6 DEF Inners
  <1>8. Walked(so, top, pa, m, S \cup {e}, ord, FALSE)
    BY <1>1, <1>5, <1>7 DEF Walked
  <1>9. QED
    BY <1>3, <1>4, <1>8

\* The last frame is left.
LEMMA WalkedUp ==
    ASSUME NEW so, NEW top, Standable(so, top), NEW ord \in 0 .. 2, NEW pa \in Seq(Frames), NEW S,
           NEW m \in Nat, m = Len(pa), m >= 1,
           Walked(so, top, pa, m, S, ord, FALSE), pa[m].pass = 2, S \subseteq NodesOf(so, top),
           NEW qa, \A i \in 1 .. m - 1 : qa[i] = pa[i],
           NEW a \in BOOLEAN, a <=> m # 1 /\ qa[m - 1].pass = ord
    PROVE  Walked(so, top, qa, m - 1, S, ord, a)
  <1>1. /\ Leads(so, top, pa, m)
        /\ Inners(so, pa, m, S, ord)
        /\ Topmost(so, pa[m], S, ord, FALSE)
    <2>1. m # 0
      OBVIOUS
    <2>2. QED
      BY <2>1 DEF Walked
  <1>2. m \in 1 .. m /\ Parted(so, pa[m].node)
    BY <1>1 DEF Standable, Leads
  <1>3. S \cap NodesOf(so, pa[m].node) = NodesOf(so, pa[m].node)
    <2>1. 2 > ord \/ 2 = ord
      OBVIOUS
    <2>2. pa[m].pass = 2 /\ (2 >= 1) /\ 2 = 2
      OBVIOUS
    <2>3. QED
      BY ONLY <1>1, <1>2, <2>1, <2>2 DEF Topmost, Parted
  <1>4. CASE m = 1
    <2>1. S = NodesOf(so, top)
      BY <1>1, <1>3, <1>4 DEF Leads
    <2>2. ~a /\ m - 1 = 0
      BY <1>4
    <2>3. QED
      BY <2>1, <2>2 DEF Walked
  <1>5. CASE m # 1
    <2> DEFINE j == m - 1
    <2>1. j \in Nat /\ j >= 1 /\ j \in 1 .. m /\ j \in 1 .. j /\ j \in 1 .. m - 1 /\ 1 \in 1 .. j /\ m = j + 1
      BY <1>5
    <2>2. /\ Inner(so, pa[j], pa[m].node, S, ord) /\ Parted(so, pa[j].node) /\ qa[j] = pa[j]
          /\ pa[j] \in Frames /\ (a <=> qa[j].pass = ord)
      BY <1>1, <1>5, <2>1 DEF Standable, Leads, Inners
    <2> HIDE DEF j
    <2>3. Topmost(so, qa[j], S, ord, a)
      <3> DEFINE f == pa[j]  p == f.pass
                 L == NodesOf(so, so["left"][f.node])  R == NodesOf(so, so["right"][f.node])
                 N == NodesOf(so, f.node)
      <3>1. p \in {1, 2} /\ (a <=> p = ord)
        BY <2>2 DEF Inner
      <3>2. N = {f.node} \cup L \cup R /\ f.node \notin L /\ f.node \notin R /\ L \cap R = {}
        BY <2>2 DEF Parted
      <3>3. CASE p = 1
        <4>1. S \cap (N \ L) = IF 1 > ord THEN {f.node} ELSE {}
          BY <2>2, <3>3 DEF Inner, Passed
        <4>2. S \cap L = L
          BY <1>3, <2>2, <3>3 DEF Inner
        <4>3. S \cap N = L \cup (IF 1 > ord THEN {f.node} ELSE {})
          BY <3>2, <4>1, <4>2
        <4>4. QED
          BY <2>2, <3>1, <3>3, <4>3 DEF Topmost
      <3>4. CASE p = 2
        <4>1. S \cap (N \ R) = L \cup (IF 2 > ord THEN {f.node} ELSE {})
          BY <2>2, <3>4 DEF Inner, Passed
        <4>2. S \cap R = R
          BY <1>3, <2>2, <3>4 DEF Inner
        <4>3. S \cap N = L \cup R \cup (IF 2 > ord THEN {f.node} ELSE {})
          BY <3>2, <4>1, <4>2
        <4>4. QED
          BY <2>2, <3>1, <3>4, <4>3 DEF Topmost
      <3>5. QED
        BY <3>1, <3>3, <3>4
    <2>4. \A i \in 1 .. j - 1 : i \in 1 .. m - 1 /\ qa[i] = pa[i] /\ qa[i + 1] = pa[i + 1]
      <3>1. \A i \in 1 .. j - 1 : i \in 1 .. m - 1 /\ i + 1 \in 1 .. m - 1
        BY <2>1
      <3>2. QED
        BY <3>1
    <2>5. \A i \in 1 .. j : i \in 1 .. m /\ qa[i] = pa[i]
      BY <2>1
    <2>6. Inners(so, qa, j, S, ord)
      BY <1>1, <2>4 DEF Inners
    <2>7. Leads(so, top, qa, j)
      BY <1>1, <2>1, <2>5 DEF Leads
    <2>8. a => qa[j].pass = ord
      BY <2>2
    <2>9. Walked(so, top, qa, j, S, ord, a)
      BY <2>1, <2>3, <2>6, <2>7, <2>8 DEF Walked
    <2>10. QED
      BY <2>9 DEF j
  <1>6. QED
    BY <1>4, <1>5

\* The last of the m frames of pa, that of n, becomes that of qa: its son c is next.
Onward(so, top, ord, pa, S, m, p, n, c, qa) ==
    /\ Standable(so, top) /\ ord \in 0 .. 2 /\ m \in Nat /\ m >= 1
    /\ Walked(so, top, pa, m, S, ord, FALSE)
    /\ p \in {0, 1} /\ pa[m].pass = p /\ n = pa[m].node
    /\ c = IF p = 0 THEN so["left"][n] ELSE so["right"][n]
    /\ \A i \in 1 .. m - 1 : qa[i] = pa[i]
    /\ qa[m].node = n /\ qa[m].pass = p + 1

\* The walk goes on with a son of the node of the last frame.
LEMMA WalkedDown ==
    ASSUME NEW so, NEW top, NEW ord, NEW pa, NEW S, NEW m, NEW p, NEW n, NEW c, NEW qa,
           Onward(so, top, ord, pa, S, m, p, n, c, qa), NEW a \in BOOLEAN
    PROVE  /\ ord = 2 => n \notin S
           /\ c = NULL /\ (a <=> p + 1 = ord) => Walked(so, top, qa, m, S, ord, a)
           /\ c # NULL /\ qa[m + 1] = Frame(c) /\ (a <=> 0 = ord) =>
                 Walked(so, top, qa, m + 1, S, ord, a)
  <1>0. /\ Standable(so, top) /\ ord \in 0 .. 2 /\ m \in Nat /\ m >= 1
        /\ Walked(so, top, pa, m, S, ord, FALSE)
        /\ p \in {0, 1} /\ pa[m].pass = p /\ n = pa[m].node
        /\ c = IF p = 0 THEN so["left"][n] ELSE so["right"][n]
        /\ \A i \in 1 .. m - 1 : qa[i] = pa[i]
        /\ qa[m].node = n /\ qa[m].pass = p + 1
    BY DEF Onward
  <1> USE <1>0
  <1> DEFINE L == NodesOf(so, so["left"][n])  R == NodesOf(so, so["right"][n])
             N == NodesOf(so, n)
  <1>1. /\ Leads(so, top, pa, m)
        /\ Inners(so, pa, m, S, ord)
        /\ Topmost(so, pa[m], S, ord, FALSE)
    <2>1. m # 0
      OBVIOUS
    <2>2. QED
      BY <2>1 DEF Walked
  <1>2. m \in 1 .. m /\ n \in NodesOf(so, top) /\ Parted(so, n)
    BY <1>1 DEF Standable, Leads
  <1>3. N = {n} \cup L \cup R /\ n \notin L /\ n \notin R /\ L \cap R = {}
    BY <1>2 DEF Parted
  <1>4. S \cap N = (IF p = 1 THEN L ELSE {}) \cup (IF p >= ord THEN {n} ELSE {})
    <2>1. (p >= 1 <=> p = 1) /\ p # 2 /\ (p > ord \/ p = ord <=> p >= ord)
      OBVIOUS
    <2>2. QED
      BY <1>1, <2>1 DEF Topmost
  <1>5. ord = 2 => n \notin S
    <2> HIDE DEF L, R, N
    <2>1. p >= ord /\ ord = 2 => FALSE
      BY ONLY <1>0
    <2>2. n \in S => n \in S \cap N
      BY ONLY <1>3
    <2>3. QED
      BY ONLY <1>3, <1>4, <2>1, <2>2
  <1>6. \A i \in 1 .. m : qa[i].node = pa[i].node
    <2>1. \A i \in 1 .. m : i = m \/ i \in 1 .. m - 1
      OBVIOUS
    <2>2. QED
      BY <2>1
  <1>7. Leads(so, top, qa, m)
    <2>1. 1 \in 1 .. m
      OBVIOUS
    <2>2. QED
      BY <1>1, <1>6, <2>1 DEF Leads
  <1>8. Inners(so, qa, m, S, ord)
    <2> SUFFICES ASSUME NEW i \in 1 .. m - 1 PROVE Inner(so, qa[i], qa[i + 1].node, S, ord)
      BY DEF Inners
    <2>1. i + 1 \in 1 .. m
      OBVIOUS
    <2>2. qa[i] = pa[i] /\ qa[i + 1].node = pa[i + 1].node
      BY <1>6, <2>1
    <2>3. QED
      BY <1>1, <2>2 DEF Inners
  <1>9. ASSUME c = NULL, a <=> p + 1 = ord
        PROVE  Walked(so, top, qa, m, S, ord, a)
    <2>1. NodesOf(so, c) = {}
      BY <1>9 DEF Standable
    <2>2. Topmost(so, qa[m], S, ord, a)
      <3>1. (p + 1 >= 1) /\ (p + 1 = 2 <=> p = 1) /\ (p + 1 > ord \/ (p + 1 = ord /\ ~a) <=> p >= ord)
        BY <1>9
      <3>2. S \cap N = L \cup (IF p = 1 THEN R ELSE {}) \cup (IF p >= ord THEN {n} ELSE {})
        <4>1. CASE p = 0
          BY <1>4, <2>1, <4>1
        <4>2. CASE p = 1
          BY <1>4, <2>1, <4>2
        <4>3. QED
          BY <4>1, <4>2
      <3>3. QED
        BY <3>1, <3>2 DEF Topmost
    <2>3. QED
      BY <1>7, <1>8, <1>9, <2>2 DEF Walked
  <1>10. ASSUME c # NULL, qa[m + 1] = Frame(c), a <=> 0 = ord
         PROVE  Walked(so, top, qa, m + 1, S, ord, a)
    <2> DEFINE k == m + 1
    <2>1. k \in Nat /\ k >= 1 /\ m \in 1 .. m /\ \A i \in 1 .. k : i = k \/ (i \in 1 .. m /\ i <= m)
      OBVIOUS
    <2>2. qa[k].node = c /\ qa[k].pass = 0
      BY <1>10 DEF Frame
    <2>3. c \in NodesOf(so, c) /\ NodesOf(so, c) \subseteq N /\ NodesOf(so, c) = IF p = 0 THEN L ELSE R
      BY <1>2, <1>3, <1>10 DEF Parted
    <2>4. c \in NodesOf(so, top)
      BY <1>2, <2>3 DEF Standable
    <2>5. Leads(so, top, qa, k)
      <3>1. \A i \in 1 .. k : qa[i].node \in NodesOf(so, top)
        BY <1>7, <2>1, <2>2, <2>4 DEF Leads
      <3>2. ASSUME NEW i \in 1 .. k, NEW j \in 1 .. k, i <= j
            PROVE  NodesOf(so, qa[j].node) \subseteq NodesOf(so, qa[i].node)
        <4>1. CASE i = k
          BY <2>1, <3>2, <4>1
        <4>2. CASE i # k /\ j = k
          <5>1. i \in 1 .. m /\ i <= m
            BY <2>1, <4>2
          <5>2. N \subseteq NodesOf(so, qa[i].node)
            BY <1>7, <2>1, <5>1 DEF Leads
          <5>3. QED
            BY <2>2, <2>3, <4>2, <5>2
        <4>3. CASE i # k /\ j # k
          BY <1>7, <2>1, <3>2, <4>3 DEF Leads
        <4>4. QED
          BY <4>1, <4>2, <4>3
      <3>3. QED
        BY <1>7, <3>1, <3>2 DEF Leads
    <2>6. Inner(so, qa[m], c, S, ord)
      <3>1. p + 1 \in {1, 2} /\ (p + 1 = 1 <=> p = 0) /\ (p + 1 = 2 <=> p = 1) /\ (p + 1 > ord <=> p >= ord)
        OBVIOUS
      <3>2. S \cap (N \ NodesOf(so, c)) = (IF p = 1 THEN L ELSE {}) \cup (IF p >= ord THEN {n} ELSE {})
        <4> HIDE DEF L, R, N
        <4>1. CASE p = 0
          BY ONLY <1>3, <1>4, <2>3, <4>1
        <4>2. CASE p = 1
          BY ONLY <1>3, <1>4, <2>3, <4>2
        <4>3. QED
          BY ONLY <1>0, <4>1, <4>2
      <3>3. QED
        BY <3>1, <3>2 DEF Inner, Passed
    <2>7. Inners(so, qa, k, S, ord)
      <3> SUFFICES ASSUME NEW i \in 1 .. k - 1 PROVE Inner(so, qa[i], qa[i + 1].node, S, ord)
        BY DEF Inners
      <3>1. CASE i = m
        BY <2>2, <2>6, <3>1
      <3>2. CASE i # m
        <4>1. i \in 1 .. m - 1
          BY <3>2
        <4>2. QED
          BY <1>8, <4>1 DEF Inners
      <3>3. QED
        BY <3>1, <3>2
    <2>8. Topmost(so, qa[k], S, ord, a)
      <3>1. ~(0 >= 1) /\ ~(0 = 2) /\ ~(0 > ord) /\ ~(0 = ord /\ ~a)
        BY <1>10
      <3>2. S \cap NodesOf(so, c) = {}
        <4> HIDE DEF L, R, N
        <4>1. CASE p = 0
          BY ONLY <1>3, <1>4, <2>3, <4>1
        <4>2. CASE p = 1
          BY ONLY <1>3, <1>4, <2>3, <4>2
        <4>3. QED
          BY ONLY <1>0, <4>1, <4>2
      <3>3. QED
        BY <2>2, <3>1, <3>2 DEF Topmost
    <2>9. a => qa[k].pass = ord
      BY <1>10, <2>2
    <2> HIDE DEF k
    <2>10. Walked(so, top, qa, k, S, ord, a)
      BY <2>1, <2>5, <2>7, <2>8, <2>9 DEF Walked
    <2>11. QED
      BY <2>10 DEF k
  <1>11. QED
    BY <1>5, <1>9, <1>10

\* While the members are read or freed the tree stands.
LEMMA WalkingFacts ==
    ASSUME IInv, Idle
    PROVE  /\ Standable(son, root) /\ Members = NodesOf(son, root) /\ Members \subseteq Nodes
           /\ TypeOK /\ path \in Seq(Frames) /\ seen \in Seq(Nodes) /\ order \in 0 .. 2 /\ at \in BOOLEAN
           /\ root # NULL => root \in Members
  <1>1. TypeOK /\ Standing /\ son \in Pointers /\ Members \subseteq Nodes
    BY IdleFacts DEF Idle
  <1>2. PICK h : Tree(son, red, root, Members, h)
    BY <1>1 DEF Standing
  <1>3. Standable(son, root) /\ (root # NULL => root \in Members)
    BY <1>1, <1>2, TreeParted, TreeFacts
  <1>4. Members = NodesOf(son, root)
    BY DEF Members
  <1>5. path \in Seq(Frames) /\ seen \in Seq(Nodes) /\ order \in 0 .. 2 /\ at \in BOOLEAN
    BY <1>1 DEF TypeOK, Frames
  <1>6. QED
    BY <1>1, <1>3, <1>4, <1>5

\* it_init() has returned nothing.
LEMMA StartWalkWalks ==
    ASSUME IInv, NEW for \in Uses, StartWalk(for)
    PROVE  WalkInv'
  <1> SUFFICES ASSUME (Walking /\ use # "delete")'
      PROVE (/\ Idle /\ start = Members
             /\ ToSet(seen) \subseteq start /\ IsInjective(seen)
             /\ use = "free" => ~touched /\ order = 2
             /\ Walked(son, root, path, Len(path), ToSet(seen), order, at))'
    BY DEF WalkInv
  <1>1. /\ Idle /\ root # NULL /\ use' = for
        /\ order' \in IF for = "read" THEN {PreOrder, InOrder, WalkOrder} ELSE {WalkOrder}
        /\ path' = <<Frame(root)>> /\ at' = (order' = PreOrder)
        /\ seen' = <<>> /\ start' = Members /\ touched' = FALSE
        /\ UNCHANGED <<treeVars, callVars, answer, failed>>
    BY DEF StartWalk
  <1>2. Standable(son, root) /\ root \in NodesOf(son, root)
    BY <1>1, WalkingFacts
  <1>3. Idle' /\ Members' = Members /\ root' = root /\ son' = son
    BY <1>1, TreeAlone DEF Idle, callVars, treeVars
  <1>4. ToSet(seen') = {} /\ IsInjective(seen') /\ Len(path') = 1
    BY <1>1 DEF ToSet, IsInjective
  <1>5. order' \in 0 .. 2 /\ at' \in BOOLEAN /\ (at' <=> order' = 0)
    <2>1. order' \in 0 .. 2
      BY <1>1 DEF PreOrder, InOrder, WalkOrder, PostOrder
    <2>2. at' = (order' = 0)
      BY <1>1 DEF PreOrder
    <2>3. QED
      BY <2>1, <2>2
  <1>6. use' = "free" => ~touched' /\ order' = 2
    BY <1>1 DEF WalkOrder, PostOrder
  <1>7. Walked(son, root, <<Frame(root)>>, 1, {}, order', at')
    <2> DEFINE top == root  ord == order'  a == at'
    <2>1. Standable(son, top) /\ top \in NodesOf(son, top) /\ ord \in 0 .. 2 /\ a \in BOOLEAN /\ (a <=> ord = 0)
      BY <1>2, <1>5
    <2> HIDE DEF top, ord, a
    <2>2. Walked(son, top, <<Frame(top)>>, 1, {}, ord, a)
      BY <2>1, WalkedBegun
    <2>3. QED
      BY <2>2 DEF top, ord, a
  <1>8. Walked(son', root', path', Len(path'), ToSet(seen'), order', at')
    BY <1>1, <1>3, <1>4, <1>7
  <1>9. QED
    BY <1>1, <1>3, <1>4, <1>6, <1>8

\* The caller is done with the current member.
LEMMA VisitWalks ==
    ASSUME IInv, WalkInv, VisitOnly
    PROVE  WalkInv'
  <1> DEFINE e == path[Len(path)].node  m == Len(path)  S == ToSet(seen)
  <1> SUFFICES ASSUME (Walking /\ use # "delete")'
      PROVE (/\ Idle /\ start = Members
             /\ ToSet(seen) \subseteq start /\ IsInjective(seen)
             /\ use = "free" => ~touched /\ order = 2
             /\ Walked(son, root, path, Len(path), ToSet(seen), order, at))'
    BY DEF WalkInv
  <1>1. /\ Idle /\ Walking /\ at /\ use # "delete"
        /\ seen' = Append(seen, Last(path).node) /\ at' = FALSE
        /\ UNCHANGED <<treeVars, callVars, answer, use, order, path, start, touched, failed>>
    BY DEF VisitOnly, Visit
  <1>2. /\ Standable(son, root) /\ Members = NodesOf(son, root) /\ Members \subseteq Nodes
        /\ path \in Seq(Frames) /\ seen \in Seq(Nodes) /\ order \in 0 .. 2
    BY <1>1, WalkingFacts
  <1>3. /\ start = Members /\ S \subseteq start /\ IsInjective(seen)
        /\ use = "free" => ~touched /\ order = 2
        /\ Walked(son, root, path, m, S, order, TRUE)
    BY <1>1 DEF WalkInv
  <1>4. path # <<>> /\ m \in Nat /\ e = Last(path).node
    BY <1>1, <1>2, PathFacts DEF IInv
  <1>5. e \notin S /\ e \in Members /\ Walked(son, root, path, m, S \cup {e}, order, FALSE)
    <2> DEFINE top == root
    <2>1. Standable(son, top) /\ Walked(son, top, path, m, S, order, TRUE) /\ order \in 0 .. 2
          /\ m \in Nat /\ e = path[m].node
      BY <1>2, <1>3, <1>4
    <2> HIDE DEF top, m, S, e
    <2>2. e \notin S /\ e \in NodesOf(son, top) /\ Walked(son, top, path, m, S \cup {e}, order, FALSE)
      BY <2>1, WalkedVisited
    <2>3. QED
      BY <1>2, <2>2 DEF top
  <1>6. e \in Nodes /\ seen' = Append(seen, e)
    BY <1>1, <1>2, <1>4, <1>5
  <1> HIDE DEF e
  <1>7. ToSet(seen') = S \cup {e} /\ IsInjective(seen')
    <2>1. /\ Len(seen) \in Nat /\ DOMAIN seen = 1 .. Len(seen) /\ DOMAIN seen' = 1 .. Len(seen) + 1
          /\ \A i \in 1 .. Len(seen) : seen'[i] = seen[i]
          /\ seen'[Len(seen) + 1] = e
      BY <1>2, <1>6
    <2>2. \A i \in 1 .. Len(seen) + 1 : i \in 1 .. Len(seen) \/ i = Len(seen) + 1
      BY <2>1
    <2>3. \A i \in 1 .. Len(seen) : i \in 1 .. Len(seen) + 1 /\ seen[i] \in S
      BY <2>1 DEF ToSet
    <2>4. Len(seen) + 1 \in 1 .. Len(seen) + 1
      BY <2>1
    <2>5. ToSet(seen') = S \cup {e}
      BY <2>1, <2>2, <2>3, <2>4 DEF ToSet
    <2>6. IsInjective(seen')
      <3> SUFFICES ASSUME NEW i \in DOMAIN seen', NEW j \in DOMAIN seen', seen'[i] = seen'[j]
          PROVE i = j
        BY DEF IsInjective
      <3>1. CASE i = Len(seen) + 1
        BY <1>5, <2>1, <2>2, <2>3, <3>1
      <3>2. CASE j = Len(seen) + 1
        BY <1>5, <2>1, <2>2, <2>3, <3>2
      <3>3. CASE i # Len(seen) + 1 /\ j # Len(seen) + 1
        BY <1>3, <2>1, <2>2, <3>3 DEF IsInjective
      <3>4. QED
        BY <3>1, <3>2, <3>3
    <2>7. QED
      BY <2>5, <2>6
  <1>8. Idle' /\ Members' = Members /\ root' = root /\ son' = son
    BY <1>1, TreeAlone DEF Idle, callVars, treeVars
  <1>9. Walked(son', root', path', Len(path'), ToSet(seen'), order', at')
    BY <1>1, <1>5, <1>7, <1>8
  <1>10. QED
    BY <1>1, <1>3, <1>5, <1>7, <1>8, <1>9

\* One turn of the loop.
LEMMA TurnWalks ==
    ASSUME IInv, WalkInv, Turn
    PROVE  WalkInv'
  <1> DEFINE top  == Last(path)
             next == IF top.pass = 0 THEN son["left"][top.node] ELSE son["right"][top.node]
             here == [path EXCEPT ![Len(path)].pass = @ + 1]
             m == Len(path)  S == ToSet(seen)  rt == root  qa == path'  a == at'
  <1> SUFFICES ASSUME (Walking /\ use # "delete")'
      PROVE (/\ Idle /\ start = Members
             /\ ToSet(seen) \subseteq start /\ IsInjective(seen)
             /\ use = "free" => ~touched /\ order = 2
             /\ Walked(son, root, path, Len(path), ToSet(seen), order, at))'
    BY DEF WalkInv
  <1>1. /\ Idle /\ Walking /\ ~at /\ path # <<>> /\ use # "delete"
        /\ \/ BothPassed(top) /\ qa = Front(path) /\ touched' = touched
           \/ /\ ~BothPassed(top)
              /\ qa = IF next = NULL THEN here ELSE Append(here, Frame(next))
              /\ touched' = (touched \/ \E i \in DOMAIN seen : seen[i] = top.node)
        /\ a = (qa # <<>> /\ Last(qa).pass = order)
        /\ UNCHANGED <<treeVars, callVars, answer, use, order, seen, start, failed>>
    BY DEF Turn
  <1>2. /\ Standable(son, rt) /\ Members = NodesOf(son, rt) /\ Members \subseteq Nodes
        /\ path \in Seq(Frames) /\ seen \in Seq(Nodes) /\ order \in 0 .. 2
    BY <1>1, WalkingFacts
  <1>3. /\ start = Members /\ S \subseteq start /\ IsInjective(seen)
        /\ use = "free" => ~touched /\ order = 2
        /\ Walked(son, rt, path, m, S, order, FALSE)
    <2>1. at = FALSE
      <3>1. at \in BOOLEAN /\ ~at
        BY <1>1, WalkingFacts
      <3>2. QED
        BY <3>1
    <2>2. /\ start = Members /\ S \subseteq start /\ IsInjective(seen)
          /\ use = "free" => ~touched /\ order = 2
          /\ Walked(son, rt, path, m, S, order, at)
      BY <1>1 DEF WalkInv
    <2>3. QED
      BY <2>1, <2>2
  <1>4. /\ m \in Nat /\ m >= 1 /\ m \in 1 .. m /\ top = path[m] /\ top \in Frames
        /\ Front(path) \in Seq(Frames) /\ Len(Front(path)) = m - 1
        /\ \A i \in 1 .. m - 1 : Front(path)[i] = path[i]
    BY <1>1, <1>2, PathFacts
  <1>5. Idle' /\ Members' = Members /\ root' = root /\ son' = son
    BY <1>1, TreeAlone DEF Idle, callVars, treeVars
  <1>6. CASE BothPassed(top)
    <2>1. qa = Front(path) /\ touched' = touched /\ path[m].pass = 2
      BY <1>1, <1>4, <1>6 DEF BothPassed, Frames
    <2>2. Len(qa) = m - 1 /\ a \in BOOLEAN /\ (a <=> m # 1 /\ qa[m - 1].pass = order)
      <3>1. Len(qa) = m - 1 /\ qa \in Seq(Frames)
        BY <1>4, <2>1
      <3>2. qa # <<>> <=> m # 1
        BY <1>4, <3>1
      <3>3. m # 1 => Last(qa) = qa[m - 1]
        BY <3>1 DEF Last
      <3>4. QED
        BY <1>1, <3>1, <3>2, <3>3
    <2>3. \A i \in 1 .. m - 1 : qa[i] = path[i]
      BY <1>4, <2>1
    <2>4. S \subseteq NodesOf(son, rt)
      BY <1>2, <1>3
    <2>5. m = Len(path)
      OBVIOUS
    <2>6. Walked(son, rt, qa, m - 1, S, order, a)
      <3> HIDE DEF rt, m, S, qa, a
      <3>1. QED
        BY <1>2, <1>3, <1>4, <2>1, <2>2, <2>3, <2>4, <2>5, WalkedUp
    <2>7. QED
      BY <1>1, <1>3, <1>5, <2>1, <2>2, <2>6
  <1>7. CASE ~BothPassed(top)
    <2> DEFINE p == top.pass  n == top.node
    <2>1. /\ qa = IF next = NULL THEN here ELSE Append(here, Frame(next))
          /\ touched' = (touched \/ \E i \in DOMAIN seen : seen[i] = n)
          /\ p \in {0, 1}
      BY <1>1, <1>4, <1>7 DEF BothPassed, Frames
    <2>2. /\ Len(here) = m /\ \A i \in 1 .. m - 1 : here[i] = path[i]
          /\ here[m].node = n /\ here[m].pass = p + 1
          /\ here \in Seq(Frames)
      <3>1. \A i \in 1 .. m - 1 : i \in 1 .. m /\ i # m
        BY <1>4
      <3>2. here = [path EXCEPT ![m] = [top EXCEPT !.pass = p + 1]]
        BY <1>4
      <3> DEFINE f == [top EXCEPT !.pass = p + 1]
      <3>3. f.node = n /\ f.pass = p + 1 /\ f \in Frames
        BY <1>4, <2>1 DEF Frames
      <3> HIDE DEF f, here
      <3>5. here = [path EXCEPT ![m] = f]
        BY <3>2 DEF f
      <3>6. Len(here) = m /\ here[m] = f /\ \A i \in 1 .. m - 1 : here[i] = path[i]
        BY <1>2, <1>4, <3>1, <3>5
      <3>7. here \in Seq(Frames)
        BY <1>2, <1>4, <3>3, <3>5
      <3>8. QED
        BY <3>3, <3>6, <3>7
    <2> DEFINE k == IF next = NULL THEN m ELSE m + 1
    <2>3. /\ Len(qa) = k /\ \A i \in 1 .. m - 1 : qa[i] = path[i]
          /\ qa[m].node = n /\ qa[m].pass = p + 1
          /\ next # NULL => qa[m + 1] = Frame(next)
      <3>1. CASE next = NULL
        BY <2>1, <2>2, <3>1
      <3>2. CASE next # NULL
        <4> HIDE DEF here, next
        <4>1. qa = Append(here, Frame(next))
          BY <2>1, <3>2
        <4>2. \A i \in 1 .. m : qa[i] = here[i]
          BY <1>4, <2>2, <4>1
        <4>3. Len(qa) = m + 1 /\ qa[m + 1] = Frame(next)
          BY <1>4, <2>2, <4>1
        <4>4. QED
          BY <1>4, <2>2, <3>2, <4>2, <4>3
      <3>3. QED
        BY <3>1, <3>2
    <2>4. a \in BOOLEAN /\ (a <=> qa[k].pass = order) /\ k \in Nat /\ k # 0
      <3>1. k \in Nat /\ k # 0
        BY <1>4
      <3>2. qa # <<>> /\ Last(qa) = qa[k]
        BY <2>3, <3>1 DEF Last
      <3>3. QED
        BY <1>1, <3>1, <3>2
    <2>5. (next = NULL => (a <=> p + 1 = order)) /\ (next # NULL => (a <=> 0 = order))
      BY <2>3, <2>4 DEF Frame
    <2>6. /\ order = 2 => n \notin S
          /\ Walked(son, rt, qa, k, S, order, a)
      <3>1. next = IF p = 0 THEN son["left"][n] ELSE son["right"][n]
        OBVIOUS
      <3>2. path[m].pass = p /\ n = path[m].node
        BY <1>4
      <3> HIDE DEF rt, m, S, qa, a, p, n, next
      <3>3. /\ order = 2 => n \notin S
            /\ next = NULL /\ (a <=> p + 1 = order) => Walked(son, rt, qa, m, S, order, a)
            /\ next # NULL /\ qa[m + 1] = Frame(next) /\ (a <=> 0 = order) =>
                  Walked(son, rt, qa, m + 1, S, order, a)
        <4>1. Onward(son, rt, order, path, S, m, p, n, next, qa)
          BY <1>2, <1>3, <1>4, <2>1, <2>3, <3>1, <3>2 DEF Onward
        <4>2. QED
          BY <2>4, <4>1, WalkedDown
      <3>4. QED
        BY <2>3, <2>5, <3>3
    <2>7. use' = "free" => ~touched' /\ order' = 2
      <3>1. (\E i \in DOMAIN seen : seen[i] = n) => n \in S
        BY DEF ToSet
      <3>2. QED
        BY <1>1, <1>3, <2>1, <2>6, <3>1
    <2>8. QED
      BY <1>1, <1>3, <1>5, <2>3, <2>6, <2>7
  <1>8. QED
    BY <1>6, <1>7

\* Only an iterator matters to what it has returned.
LEMMA OthersWalk ==
    ASSUME UNCHANGED walkVars, ~(Walking /\ use # "delete")
    PROVE  WalkInv'
  BY DEF WalkInv, Walking, walkVars

\* Every step keeps what is said about the iterator.
LEMMA EveryWalk ==
    ASSUME IInv, WalkInv, Next
    PROVE  WalkInv'
  <1>1. CASE \E e \in Nodes : Add(e) \/ AddIfNotMember(e) \/ Delete(e) \/ DeleteIfMember(e)
    BY <1>1, OthersWalk DEF Add, AddIfNotMember, Delete, DeleteIfMember
  <1>2. CASE LookDown \/ LookAddEnd \/ LookDeleteEnd
    BY <1>2, OthersWalk DEF LookDown, LookAddEnd, LookDeleteEnd, Looking, WalkInv, Idle
  <1>3. CASE AddDown \/ AddLink \/ AddReturn \/ AddEnd
    BY <1>3, OthersWalk DEF AddDown, AddLink, AddReturn, AddEnd, WalkInv, Idle
  <1>4. CASE DeleteDown \/ DeleteFound \/ LeafDown \/ LeafUnlink
    BY <1>4, OthersWalk DEF DeleteDown, DeleteFound, LeafDown, LeafUnlink, WalkInv, Idle
  <1>5. CASE LeafReturn \/ DeleteReturn \/ DeleteEnd
    BY <1>5, OthersWalk DEF LeafReturn, DeleteReturn, DeleteEnd, WalkInv, Idle
  <1>6. CASE \E for \in Uses : StartWalk(for)
    BY <1>6, StartWalkWalks
  <1>7. CASE Turn
    BY <1>7, TurnWalks
  <1>8. CASE VisitOnly
    BY <1>8, VisitWalks
  <1>9. CASE VisitAndDelete
    BY <1>9 DEF VisitAndDelete, Visit, WalkInv
  <1>10. CASE EndWalk
    BY <1>10 DEF EndWalk, WalkInv, Walking
  <1>11. QED
    BY <1>1, <1>2, <1>3, <1>4, <1>5, <1>6, <1>7, <1>8, <1>9, <1>10 DEF Next

\* What an iterator has returned is always what was passed on its path, so no
\* member twice, and one that frees the members reads none of them again.
THEOREM WalkInvariance == Spec => []WalkInv
  <1>1. Init => WalkInv
    BY DEF Init, WalkInv, Walking
  <1>2. IInv /\ WalkInv /\ [Next]_vars => WalkInv'
    <2>1. ASSUME IInv, WalkInv, UNCHANGED vars PROVE WalkInv'
      <3>1. UNCHANGED <<treeVars, callVars>> /\ UNCHANGED walkVars
        BY <2>1 DEF vars
      <3>2. Members' = Members /\ root' = root /\ Idle' = Idle /\ son' = son
        BY <3>1, TreeAlone DEF Idle, callVars, treeVars
      <3>3. QED
        BY <2>1, <3>1, <3>2 DEF walkVars, WalkInv, Walking
    <2>2. QED
      BY <2>1, EveryWalk
  <1>3. QED
    BY <1>1, <1>2, Invariance, PTL DEF Spec

\* An iterator that leaves the tree alone returns every member exactly once, in
\* each of the three orders and for a tree of any size.
THEOREM WalkReachesAll == Spec => []EveryMemberOnce
  <1>1. IInv /\ WalkInv => EveryMemberOnce
    <2> SUFFICES ASSUME IInv, WalkInv PROVE EveryMemberOnce
      OBVIOUS
    <2>1. ASSUME Walking, use # "delete", path = <<>>
          PROVE  ToSet(seen) = start /\ IsInjective(seen)
      <3>1. /\ start = Members /\ IsInjective(seen)
            /\ Walked(son, root, path, Len(path), ToSet(seen), order, at)
        BY <2>1 DEF WalkInv
      <3>2. Len(path) = 0
        BY <2>1
      <3>3. ToSet(seen) = NodesOf(son, root)
        BY <3>1, <3>2 DEF Walked
      <3>4. QED
        BY <3>1, <3>3 DEF Members
    <2>2. use = "free" => ~touched
      BY DEF WalkInv, Walking
    <2>3. QED
      BY <2>1, <2>2 DEF EveryMemberOnce
  <1>2. QED
    BY <1>1, Invariance, WalkInvariance, PTL

-----------------------------------------------------------------------------
(* Walks that delete.                                                      *)

\* The side of its node a frame has the walk on, and the nodes there.
Down(f) == IF f.pass = 1 THEN "left" ELSE "right"
Ahead(so, f) == NodesOf(so, so[Down(f)][f.node])

\* Each of the first m frames of pa is ahead of those before.
Along(so, pa, m) == \A i, j \in 1 .. m : i < j => pa[j].node \in Ahead(so, pa[i])

\* What the walk still has to pass below a frame, beside the frames that follow.
Coming(so, f) ==
    {f.node} \cup (IF f.pass = 1 THEN NodesOf(so, so["right"][f.node]) ELSE {})
             \cup (IF f.pass = 0 THEN NodesOf(so, f.node) ELSE {})

Covers(so, pa, m, S) == \A e \in S : \E i \in 1 .. m : e \in Coming(so, pa[i])

\* What is on side l of x and on the other.
Branch(so, x, l) ==
    LET A == NodesOf(so, so[l][x])  B == NodesOf(so, so[Other(l)][x])
    IN  /\ so[l][x] \in Nodes \cup {NULL}
        /\ so[l][x] # NULL => so[l][x] \in A
        /\ NodesOf(so, x) = {x} \cup A \cup B
        /\ x \notin A /\ x \notin B /\ A \cap B = {}
        /\ \A y \in A : NodesOf(so, y) \subseteq A

Branches(so, X) ==
    /\ NodesOf(so, NULL) = {}
    /\ \A x \in X : x \in Nodes /\ NodesOf(so, x) \subseteq X /\ \A l \in Sides : Branch(so, x, l)

\* A tree branches at every node.
LEMMA TreeBranches ==
    ASSUME NEW so \in Pointers, NEW R, NEW n, NEW X, NEW h, Tree(so, R, n, X, h)
    PROVE  Branches(so, X)
  <1>1. NodesOf(so, NULL) = {}
    BY NodesOfIs
  <1>2. ASSUME NEW x \in X
        PROVE  x \in Nodes /\ NodesOf(so, x) \subseteq X /\ \A l \in Sides : Branch(so, x, l)
    <2>1. PICK Y, k : Tree(so, R, x, Y, k) /\ Y \subseteq X
      BY SubTrees
    <2>2. x \in Nodes /\ x # NULL
      BY TreeFacts, NodeFacts
    <2>3. NodesOf(so, x) = Y
      BY <2>1, NodesOfTree
    <2>4. ASSUME NEW l \in Sides PROVE Branch(so, x, l)
      <3>1. PICK A \in SUBSET Nodes, B \in SUBSET Nodes, j \in Nat :
              /\ Joins(l, x, A, B, Y)
              /\ Tree(so, R, so[l][x], A, j)
              /\ Tree(so, R, so[Other(l)][x], B, j)
        BY <2>1, <2>2, TakeApart
      <3>2. NodesOf(so, so[l][x]) = A /\ NodesOf(so, so[Other(l)][x]) = B
        BY <3>1, NodesOfTree
      <3>3. x \notin A /\ x \notin B /\ A \cap B = {}
        BY <3>1, JoinsFacts
      <3>4. Y = {x} \cup A \cup B
        BY <3>1 DEF Joins
      <3>5. so[l][x] \in Nodes \cup {NULL} /\ (so[l][x] # NULL => so[l][x] \in A)
        BY <3>1, TreeFacts
      <3>6. ASSUME NEW y \in A PROVE NodesOf(so, y) \subseteq A
        <4>1. PICK V, i : Tree(so, R, y, V, i) /\ V \subseteq A
          BY <3>1, SubTrees
        <4>2. QED
          BY <4>1, NodesOfTree
      <3>7. QED
        BY <2>3, <3>2, <3>3, <3>4, <3>5, <3>6 DEF Branch
    <2>5. QED
      BY <2>1, <2>2, <2>3, <2>4
  <1>3. QED
    BY <1>1, <1>2 DEF Branches

\* The side a frame has the walk on is one.
LEMMA DownFacts ==
    ASSUME NEW f
    PROVE  Down(f) \in Sides /\ (f.pass = 1 => Down(f) = "left") /\ (f.pass = 2 => Down(f) = "right")
  BY DEF Down, Sides

\* What is ahead of a frame.
LEMMA AheadFacts ==
    ASSUME NEW so, NEW X, Branches(so, X), NEW f, f.node \in X
    PROVE  /\ f.node \notin Ahead(so, f) /\ Ahead(so, f) \subseteq X
           /\ f.node \in NodesOf(so, f.node)
           /\ Ahead(so, f) \subseteq NodesOf(so, f.node)
           /\ \A y \in Ahead(so, f) : NodesOf(so, y) \subseteq Ahead(so, f)
           /\ f.pass = 1 => Ahead(so, f) \cap NodesOf(so, so["right"][f.node]) = {}
  <1> DEFINE l == Down(f)  x == f.node
  <1>1. l \in Sides /\ (f.pass = 1 => l = "left")
    BY DownFacts
  <1>2. NodesOf(so, x) \subseteq X /\ Branch(so, x, l)
    BY <1>1 DEF Branches
  <1>3. Ahead(so, f) = NodesOf(so, so[l][x])
    BY DEF Ahead
  <1>4. l = "left" => Other(l) = "right"
    BY DEF Other
  <1> HIDE DEF l, x
  <1>5. QED
    BY <1>1, <1>2, <1>3, <1>4 DEF Branch, x

\* The walk goes on with the son of the node of the last frame.
LEMMA AlongPushed ==
    ASSUME NEW so, NEW X, Branches(so, X), NEW pa, NEW m \in Nat, m >= 1,
           \A i \in 1 .. m : pa[i].node \in X, Along(so, pa, m),
           NEW qa, \A i \in 1 .. m - 1 : qa[i] = pa[i], qa[m].node = pa[m].node,
           NEW c, c = so[Down(qa[m])][qa[m].node], c # NULL, qa[m + 1].node = c
    PROVE  c \in X /\ Along(so, qa, m + 1)
  <1> DEFINE f == qa[m]
  <1>1. m \in 1 .. m /\ f.node \in X
    OBVIOUS
  <1>2. c \in Ahead(so, f) /\ c \in X
    <2>1. Branch(so, f.node, Down(f)) /\ NodesOf(so, f.node) \subseteq X
      BY <1>1, DownFacts DEF Branches
    <2>2. QED
      BY <2>1 DEF Branch, Ahead
  <1> HIDE DEF f
  <1>3. c \in NodesOf(so, pa[m].node)
    <2>1. f.node \in X /\ f.node = pa[m].node
      BY <1>1 DEF f
    <2>2. Ahead(so, f) \subseteq NodesOf(so, f.node)
      BY <2>1, AheadFacts
    <2>3. QED
      BY <1>2, <2>1, <2>2
  <1>4. ASSUME NEW i \in 1 .. m + 1, NEW j \in 1 .. m + 1, i < j
        PROVE  qa[j].node \in Ahead(so, qa[i])
    <2>1. i \in 1 .. m /\ (i = m \/ i \in 1 .. m - 1) /\ (j = m + 1 \/ j = m \/ j \in 1 .. m - 1)
      BY <1>4
    <2>2. CASE i = m
      <3>1. j = m + 1
        BY <1>4, <2>1, <2>2
      <3>2. QED
        BY <1>2, <2>2, <3>1 DEF f
    <2>3. CASE i # m
      <3>1. qa[i] = pa[i] /\ i \in 1 .. m /\ i < m
        BY <2>1, <2>3
      <3>2. CASE j = m + 1
        <4>1. pa[m].node \in Ahead(so, pa[i]) /\ pa[i].node \in X
          BY <1>1, <3>1 DEF Along
        <4>2. NodesOf(so, pa[m].node) \subseteq Ahead(so, pa[i])
          BY <4>1, AheadFacts
        <4>3. QED
          BY <1>3, <3>1, <3>2, <4>2
      <3>3. CASE j # m + 1
        <4>1. j \in 1 .. m /\ qa[j].node = pa[j].node
          BY <2>1, <3>3
        <4>2. QED
          BY <1>4, <3>1, <4>1 DEF Along
      <3>4. QED
        BY <3>2, <3>3
    <2>4. QED
      BY <2>2, <2>3
  <1>5. QED
    BY <1>2, <1>4 DEF Along

\* Losing a node that is on no frame keeps the frames ahead of each other.
Loses(so, to, pa, m, t) ==
    \A i \in 1 .. m : Ahead(so, pa[i]) \ {t} \subseteq Ahead(to, pa[i])

\* What loses none of the frames keeps them ahead of each other.
LEMMA AlongKept ==
    ASSUME NEW so, NEW to, NEW pa, NEW m \in Nat, NEW t, Along(so, pa, m), Loses(so, to, pa, m, t),
           \A i \in 1 .. m : pa[i].node # t
    PROVE  Along(to, pa, m)
  BY DEF Along, Loses

\* A turn of the loop covers the same nodes.
LEMMA CoversOnward ==
    ASSUME NEW so, NEW X, Branches(so, X), NEW pa, NEW m \in Nat, m >= 1, NEW S, Covers(so, pa, m, S),
           NEW p \in {0, 1}, pa[m].pass = p, NEW n \in X, n = pa[m].node,
           NEW c, c = IF p = 0 THEN so["left"][n] ELSE so["right"][n],
           NEW qa, \A i \in 1 .. m - 1 : qa[i] = pa[i], qa[m].node = n, qa[m].pass = p + 1
    PROVE  /\ c = NULL => Covers(so, qa, m, S)
           /\ c # NULL /\ qa[m + 1] = Frame(c) => Covers(so, qa, m + 1, S)
  <1> DEFINE L == NodesOf(so, so["left"][n])  R == NodesOf(so, so["right"][n])
  <1>1. NodesOf(so, n) = {n} \cup L \cup R /\ NodesOf(so, NULL) = {}
    <2>1. "left" \in Sides /\ Other("left") = "right"
      BY DEF Sides, Other
    <2>2. QED
      BY <2>1 DEF Branches, Branch
  <1>2. Coming(so, pa[m]) \subseteq Coming(so, qa[m]) \cup NodesOf(so, c)
    <2>1. CASE p = 0
      <3>1. Coming(so, pa[m]) = {n} \cup L \cup R
        BY <1>1, <2>1 DEF Coming
      <3>2. Coming(so, qa[m]) = {n} \cup R
        BY <2>1 DEF Coming
      <3>3. QED
        BY <2>1, <3>1, <3>2
    <2>2. CASE p = 1
      <3>1. Coming(so, pa[m]) = {n} \cup R
        BY <2>2 DEF Coming
      <3>2. n \in Coming(so, qa[m])
        BY DEF Coming
      <3>3. QED
        BY <2>2, <3>1, <3>2
    <2>3. QED
      BY <2>1, <2>2
  <1>3. ASSUME NEW e \in S
        PROVE  (\E i \in 1 .. m : e \in Coming(so, qa[i])) \/ e \in NodesOf(so, c)
    <2>1. PICK i \in 1 .. m : e \in Coming(so, pa[i])
      BY DEF Covers
    <2>2. m \in 1 .. m /\ (i = m \/ i \in 1 .. m - 1)
      OBVIOUS
    <2>3. QED
      BY <1>2, <2>1, <2>2
  <1>4. c = NULL => Covers(so, qa, m, S)
    BY <1>1, <1>3 DEF Covers
  <1>5. ASSUME c # NULL, qa[m + 1] = Frame(c)
        PROVE  Covers(so, qa, m + 1, S)
    <2>1. NodesOf(so, c) \subseteq Coming(so, qa[m + 1])
      BY <1>5 DEF Coming, Frame
    <2>2. m + 1 \in 1 .. m + 1 /\ \A i \in 1 .. m : i \in 1 .. m + 1
      OBVIOUS
    <2>3. QED
      BY <1>3, <2>1, <2>2 DEF Covers
  <1>6. QED
    BY <1>4, <1>5

\* The node of the last frame is returned.
LEMMA CoversVisited ==
    ASSUME NEW so, NEW pa, NEW m \in Nat, m >= 1, NEW S, Covers(so, pa, m, S),
           pa[m].pass = 2, NEW e, e = pa[m].node
    PROVE  Covers(so, pa, m - 1, S \ {e})
  <1>1. Coming(so, pa[m]) = {e}
    BY DEF Coming
  <1>2. \A i \in 1 .. m : i = m \/ i \in 1 .. m - 1
    OBVIOUS
  <1>3. QED
    BY <1>1, <1>2 DEF Covers

\* When nothing was missed, a node that was just returned has no sons left.
LEMMA CoveredAlone ==
    ASSUME NEW so, NEW X, Branches(so, X), NEW pa, NEW m \in Nat, m >= 1,
           \A i \in 1 .. m : pa[i].node \in X, Along(so, pa, m),
           \A i \in 1 .. m - 1 : pa[i].pass \in {1, 2},
           NEW e, e = pa[m].node, Covers(so, pa, m - 1, X \ {e})
    PROVE  NodesOf(so, e) = {e}
  <1>1. m \in 1 .. m /\ e \in X
    OBVIOUS
  <1>2. e \in NodesOf(so, e) /\ NodesOf(so, e) \subseteq X
    BY <1>1, AheadFacts DEF Branches
  <1>3. ASSUME NEW n \in NodesOf(so, e), n # e PROVE FALSE
    <2>1. PICK i \in 1 .. m - 1 : n \in Coming(so, pa[i])
      BY <1>2, <1>3 DEF Covers
    <2>2. i \in 1 .. m /\ i < m
      OBVIOUS
    <2> DEFINE f == pa[i]
    <2>3. e \in Ahead(so, f) /\ f.node \in X
      BY <1>1, <2>2 DEF Along
    <2>4. f.pass \in {1, 2}
      BY <2>1
    <2>5. n \in Coming(so, f)
      BY <2>1
    <2> HIDE DEF f
    <2>6. n \in Ahead(so, f) /\ f.node # n
      BY <2>3, <1>3, AheadFacts
    <2>7. f.pass = 1 /\ n \in NodesOf(so, so["right"][f.node])
      <3>1. f.pass # 0
        BY <2>4
      <3>2. QED
        BY <2>5, <2>6, <3>1 DEF Coming
    <2>8. QED
      BY <2>3, <2>6, <2>7, AheadFacts
  <1>4. QED
    BY <1>2, <1>3

\* What stays on its way below each frame stays covered.
LEMMA CoversKept ==
    ASSUME NEW so, NEW to, NEW pa, NEW m \in Nat, NEW S, Covers(so, pa, m, S),
           \A i \in 1 .. m : Coming(so, pa[i]) \cap S \subseteq Coming(to, pa[i])
    PROVE  Covers(to, pa, m, S)
  BY DEF Covers

\* Four are more than three.
LEMMA FourAreMore ==
    ASSUME NEW S, IsFiniteSet(S), NEW a \in S, NEW b \in S, NEW c \in S, NEW d \in S,
           a # b, a # c, a # d, b # c, b # d, c # d
    PROVE  ~(Cardinality(S) <= IteratorSafe)
  <1> DEFINE A == {} \cup {a}  B == A \cup {b}  C == B \cup {c}  D == C \cup {d}
  <1>1. IsFiniteSet({}) /\ Cardinality({}) = 0
    BY FS_EmptySet
  <1>2. IsFiniteSet(A) /\ Cardinality(A) = 1
    BY <1>1, FS_AddElement
  <1>3. b \notin A /\ c \notin B /\ d \notin C
    OBVIOUS
  <1> HIDE DEF A
  <1>4. IsFiniteSet(B) /\ Cardinality(B) = 2
    BY <1>2, <1>3, FS_AddElement
  <1> HIDE DEF B
  <1>5. IsFiniteSet(C) /\ Cardinality(C) = 3
    BY <1>4, <1>3, FS_AddElement
  <1> HIDE DEF C
  <1>6. IsFiniteSet(D) /\ Cardinality(D) = 4
    BY <1>5, <1>3, FS_AddElement
  <1>7. D \in SUBSET S
    BY DEF A, B, C
  <1> HIDE DEF D
  <1>8. Cardinality(D) <= Cardinality(S) /\ Cardinality(S) \in Nat
    BY <1>7, FS_Subset, FS_CardinalityType
  <1>9. QED
    BY <1>6, <1>8 DEF IteratorSafe

-----------------------------------------------------------------------------
(* What a walk that deletes keeps.                                         *)

\* The member of the last frame was returned and is to be deleted.
Visited == path # <<>> /\ ~at /\ Last(path).pass = 2
Lasting == IF Visited THEN Len(path) - 1 ELSE Len(path)

\* The members that were not returned.
Kept == start \ ToSet(seen)

Small == Cardinality(start) <= IteratorSafe

\* What is true of the path whatever the call at work does.
CutPath ==
    /\ order = 2
    /\ \A m, n \in start : Key[m] = Key[n] => m = n
    /\ IsInjective(seen) /\ ToSet(seen) \subseteq start
    /\ \A i \in 1 .. Len(path) - 1 : path[i].pass \in {1, 2}
    /\ at => Last(path).pass = 2
    /\ \A i \in 1 .. Lasting : path[i].node \in Kept
    /\ Along(son, path, Lasting)
    /\ Small => Covers(son, path, Lasting, Kept)

\* The call has to return to the node of the frame f, on the side of the walk.
OnStack(f, k) == \E i \in 2 .. k : stack[i] = Place(f.node, Down(f))

\* The call did not or will not touch the node of the frame, or has returned to it.
AllHeld ==
    \A i \in 1 .. Len(path) - 1 :
        OnStack(path[i], Len(stack)) \/ path[i].node \in NodesOf(son, At(Calling))

AllAbove ==
    \E k \in 2 .. Len(stack) :
        /\ stack[k] = Place(elem, "left")
        /\ \A i \in 1 .. Len(path) - 1 : OnStack(path[i], k - 1)

\* The call deletes the member of the last frame.
CutCall ==
    /\ stage \in {"lookDelete", "search", "leaf", "deleted"}
    /\ Visited /\ elem = path[Len(path)].node /\ elem \in ToSet(seen)
    /\ stage \in {"lookDelete", "search"} =>
          Standing /\ Members = Kept \cup {elem} /\ Along(son, path, Len(path))
    /\ stage = "search" => AllHeld
    /\ stage = "leaf" => Members = Kept \cup {elem} /\ AllAbove
    /\ stage = "deleted" /\ leaf = NULL => Members = Kept /\ AllHeld
    /\ stage = "deleted" /\ leaf # NULL =>
          Members = (Kept \cup {elem}) \ {leaf} /\ leaf \in Kept /\ AllAbove
    /\ Small => leaf = NULL /\ stage # "leaf"

CutInv == use = "delete" => CutPath /\ (Idle => Members = Kept) /\ (~Idle => CutCall)

\* The types of what a walk that deletes has.
LEMMA CutFacts ==
    ASSUME IInv, use = "delete"
    PROVE  /\ TypeOK /\ Walking /\ son \in Pointers /\ red \in SUBSET Nodes
           /\ path \in Seq(Frames) /\ Len(path) \in Nat /\ seen \in Seq(Nodes) /\ at \in BOOLEAN
           /\ start \subseteq Nodes /\ IsFiniteSet(start) /\ elem \in Nodes \cup {NULL}
           /\ at => path # <<>>
  <1>1. TypeOK /\ (at => path # <<>>)
    BY DEF IInv
  <1>2. son \in Pointers /\ red \in SUBSET Nodes
    BY <1>1, Types
  <1>3. start \subseteq Nodes /\ path \in Seq(Frames) /\ seen \in Seq(Nodes) /\ at \in BOOLEAN /\ elem \in Nodes \cup {NULL}
    BY <1>1 DEF TypeOK, Frames
  <1>4. IsFiniteSet(start)
    BY <1>3, NodesAssumption, FS_Subset
  <1>5. QED
    BY <1>1, <1>2, <1>3, <1>4 DEF Walking

\* The tree that stands before and after a call.
LEMMA StandingBranches ==
    ASSUME TypeOK, Standing
    PROVE  /\ Branches(son, Members) /\ Members = NodesOf(son, root) /\ Members \subseteq Nodes
           /\ root # NULL => root \in Members
           /\ root = To(son, Top)
  <1>1. son \in Pointers /\ root = To(son, Top) /\ Members = NodesOf(son, root)
    BY Types DEF Members
  <1>2. PICK h : Tree(son, red, root, Members, h)
    BY DEF Standing
  <1>3. QED
    BY <1>1, <1>2, TreeBranches, TreeFacts

\* The last frame of a path was visited or not.
LEMMA LastingIs ==
    ASSUME path \in Seq(Frames), at \in BOOLEAN
    PROVE  /\ Len(path) \in Nat /\ Lasting \in Nat
           /\ path = <<>> => ~Visited /\ Len(path) = 0 /\ Lasting = 0
           /\ path # <<>> => /\ Len(path) >= 1 /\ Last(path) = path[Len(path)]
                             /\ Visited <=> ~at /\ path[Len(path)].pass = 2
           /\ Visited => path # <<>> /\ Lasting = Len(path) - 1
           /\ ~Visited => Lasting = Len(path)
  <1>1. CASE path = <<>>
    BY <1>1 DEF Visited, Lasting
  <1>2. CASE path # <<>>
    BY <1>2, PathFacts DEF Visited, Lasting
  <1>3. QED
    BY <1>1, <1>2

\* it_init() begins with the root.
LEMMA StartWalkCuts ==
    ASSUME IInv, IInv', StartWalk("delete")
    PROVE  CutInv'
  <1>1. /\ Idle /\ root # NULL /\ UniqueKeys /\ use' = "delete" /\ order' = 2
        /\ path' = <<Frame(root)>> /\ ~at'
        /\ seen' = <<>> /\ start' = Members
        /\ son' = son /\ stage' = stage /\ Idle' /\ Members' = Members /\ root' = root
    <2>1. UNCHANGED <<treeVars, callVars, answer, failed>> /\ Idle
      BY DEF StartWalk
    <2>2. Members' = Members /\ root' = root /\ son' = son /\ Idle'
      BY <2>1, TreeAlone DEF Idle, callVars, treeVars
    <2>3. order' = 2 /\ ~at'
      <3>1. order' = 2 /\ at' = (order' = PreOrder)
        BY DEF StartWalk, WalkOrder, PostOrder
      <3>2. order' # PreOrder
        BY <3>1 DEF PreOrder
      <3>3. QED
        BY <3>1, <3>2
    <2>4. QED
      BY <2>1, <2>2, <2>3 DEF StartWalk, callVars
  <1>2. TypeOK /\ Standing
    BY <1>1, IdleFacts DEF Idle
  <1>3. root \in Members /\ Members = NodesOf(son, root)
    BY <1>1, <1>2, StandingBranches
  <1>4. Len(path') = 1 /\ path'[1].node = root /\ path'[1].pass = 0 /\ path' # <<>> /\ Last(path').pass = 0
    BY <1>1 DEF Frame, Last
  <1>5. ~Visited' /\ Lasting' = 1
    BY <1>1, <1>4 DEF Visited, Lasting
  <1>6. ToSet(seen') = {} /\ IsInjective(seen') /\ Kept' = Members
    BY <1>1 DEF ToSet, IsInjective, Kept
  <1>7. \A i \in 1 .. 1 : i = 1
    OBVIOUS
  <1>8. Along(son', path', 1) /\ 1 .. Len(path') - 1 = {}
    BY <1>4, <1>7 DEF Along
  <1>9. Covers(son', path', 1, Kept')
    <2>1. NodesOf(son, root) \subseteq Coming(son', path'[1])
      BY <1>1, <1>4 DEF Coming
    <2>2. QED
      BY <1>3, <1>6, <2>1 DEF Covers
  <1>10. \A m, n \in start' : Key[m] = Key[n] => m = n
    BY <1>1 DEF UniqueKeys
  <1>11. CutPath'
    BY <1>1, <1>3, <1>4, <1>5, <1>6, <1>7, <1>8, <1>9, <1>10 DEF CutPath
  <1>12. QED
    BY <1>1, <1>6, <1>11 DEF CutInv

\* A sequence grows by an element it does not have.
LEMMA AppendsNew ==
    ASSUME NEW S, NEW s \in Seq(S), NEW e \in S, IsInjective(s), e \notin ToSet(s)
    PROVE  ToSet(Append(s, e)) = ToSet(s) \cup {e} /\ IsInjective(Append(s, e))
  <1> DEFINE n == Len(s)  t == Append(s, e)
  <1>1. /\ n \in Nat /\ DOMAIN s = 1 .. n /\ DOMAIN t = 1 .. n + 1
        /\ \A i \in 1 .. n : t[i] = s[i]
        /\ t[n + 1] = e
    <2>1. n \in Nat /\ DOMAIN s = 1 .. n
      OBVIOUS
    <2>2. t \in Seq(S) /\ Len(t) = n + 1
      OBVIOUS
    <2>3. DOMAIN t = 1 .. n + 1
      BY <2>2
    <2>4. \A i \in 1 .. n : t[i] = s[i]
      OBVIOUS
    <2>5. t[n + 1] = e
      OBVIOUS
    <2>6. QED
      BY <2>1, <2>3, <2>4, <2>5
  <1>2. \A i \in 1 .. n + 1 : i \in 1 .. n \/ i = n + 1
    BY <1>1
  <1>3. \A i \in 1 .. n : i \in 1 .. n + 1 /\ s[i] \in ToSet(s)
    BY <1>1 DEF ToSet
  <1>4. n + 1 \in 1 .. n + 1
    BY <1>1
  <1> HIDE DEF n, t
  <1>5. ToSet(t) = ToSet(s) \cup {e}
    BY <1>1, <1>2, <1>3, <1>4 DEF ToSet
  <1>6. IsInjective(t)
    <2> SUFFICES ASSUME NEW i \in DOMAIN t, NEW j \in DOMAIN t, t[i] = t[j]
        PROVE i = j
      BY DEF IsInjective
    <2>1. CASE i = n + 1
      BY <1>1, <1>2, <1>3, <2>1
    <2>2. CASE j = n + 1
      BY <1>1, <1>2, <1>3, <2>2
    <2>3. CASE i # n + 1 /\ j # n + 1
      BY <1>1, <1>2, <2>3 DEF IsInjective
    <2>4. QED
      BY <2>1, <2>2, <2>3
  <1>7. QED
    BY <1>5, <1>6 DEF t

\* The current member is returned and its deletion begins.
LEMMA VisitCuts ==
    ASSUME IInv, IInv', CutInv, VisitAndDelete
    PROVE  CutInv'
  <1> DEFINE m == Len(path)  e == Last(path).node
  <1>1. /\ use = "delete" /\ Idle /\ at
        /\ seen' = Append(seen, e) /\ at' = FALSE
        /\ Begin("lookDelete", e)
        /\ UNCHANGED <<treeVars, answer, use, order, path, start, touched, failed>>
    BY DEF VisitAndDelete, Visit
  <1>2. /\ TypeOK /\ son \in Pointers /\ path \in Seq(Frames) /\ m \in Nat /\ seen \in Seq(Nodes)
        /\ at \in BOOLEAN /\ path # <<>>
    BY <1>1, CutFacts
  <1>3. CutPath /\ Members = Kept
    BY <1>1 DEF CutInv
  <1>4. m >= 1 /\ e = path[m].node /\ path[m].pass = 2 /\ ~Visited /\ Lasting = m /\ m \in 1 .. m
    <2>1. Last(path).pass = 2
      BY <1>1, <1>3 DEF CutPath
    <2>2. QED
      BY <1>1, <1>2, <2>1, LastingIs
  <1>5. e \in Kept /\ e \notin ToSet(seen) /\ e \in start /\ Along(son, path, m)
    BY <1>3, <1>4 DEF CutPath, Kept
  <1>6. Standing /\ Branches(son, Members)
    BY <1>1, IdleFacts, StandingBranches DEF Idle
  <1>7. son' = son /\ red' = red /\ Members' = Members /\ root' = root /\ Standing'
    <2>1. son' = son /\ red' = red
      BY <1>1 DEF treeVars
    <2>2. QED
      BY <1>6, <2>1 DEF Members, root, At, Standing
  <1>8. Visited' /\ Lasting' = m - 1
    BY <1>1, <1>2, <1>4, LastingIs DEF Visited, Lasting
  <1> HIDE DEF e
  <1>9. ToSet(seen') = ToSet(seen) \cup {e} /\ IsInjective(seen')
    <2>1. IsInjective(seen) /\ e \in Nodes
      BY <1>2, <1>3, <1>5 DEF CutPath, TypeOK
    <2>2. seen \in Seq(Nodes) /\ e \notin ToSet(seen)
      BY <1>2, <1>5
    <2>3. ToSet(Append(seen, e)) = ToSet(seen) \cup {e} /\ IsInjective(Append(seen, e))
      BY ONLY <2>1, <2>2, AppendsNew
    <2>4. QED
      BY <1>1, <2>3
  <1>10. Kept' = Kept \ {e}
    BY <1>1, <1>9 DEF Kept
  <1>11. ASSUME NEW i \in 1 .. m - 1 PROVE path[i].node \in Kept' /\ i \in 1 .. m
    <2>1. i \in 1 .. m /\ i < m
      BY <1>2
    <2>2. path[i].node \in Members /\ e \in Ahead(son, path[i])
      BY <1>3, <1>4, <1>5, <2>1 DEF CutPath, Along
    <2>3. path[i].node # e
      BY <1>6, <2>2, AheadFacts
    <2>4. QED
      BY <1>3, <1>10, <2>1, <2>2, <2>3
  <1>12. Along(son', path', m - 1)
    BY <1>1, <1>5, <1>7, <1>11 DEF Along
  <1>13. Small' => Covers(son', path', m - 1, Kept')
    <2>1. ASSUME Small PROVE Covers(son, path, m - 1, Kept \ {e})
      <3>1. Covers(son, path, m, Kept)
        BY <1>3, <1>4, <2>1 DEF CutPath
      <3>2. QED
        BY <1>2, <1>4, <3>1, CoversVisited
    <2>2. QED
      BY <1>1, <1>7, <1>10, <2>1 DEF Small
  <1>14. CutPath'
    <2>1. order' = order /\ path' = path /\ start' = start
      BY <1>1
    <2>2. \A i \in 1 .. Lasting' : path'[i].node \in Kept'
      BY <1>8, <1>11, <2>1
    <2>3. ToSet(seen') \subseteq start'
      BY <1>3, <1>5, <1>9, <2>1 DEF CutPath
    <2>4. QED
      BY <1>1, <1>3, <1>8, <1>9, <1>12, <1>13, <2>1, <2>2, <2>3 DEF CutPath
  <1>15. /\ stage' = "lookDelete" /\ elem' = e /\ leaf' = NULL
    BY <1>1, BegunTypes
  <1>16. CutCall'
    <2>1. Members' = Kept' \cup {elem'} /\ Along(son', path', Len(path'))
      BY <1>1, <1>3, <1>5, <1>7, <1>10, <1>15
    <2>2. elem' = path'[Len(path')].node /\ elem' \in ToSet(seen')
      BY <1>1, <1>4, <1>9, <1>15
    <2>3. QED
      BY <1>7, <1>8, <1>15, <2>1, <2>2 DEF CutCall
  <1>17. ~Idle'
    BY <1>15 DEF Idle
  <1>18. QED
    BY <1>14, <1>16, <1>17 DEF CutInv

\* What a turn of the loop makes of the path: the last frame goes, or it has one
\* son more passed and the son c becomes the next one if there is one.
Turned(so, pa, qa, m, k, c) ==
    LET f == pa[m]
    IN  /\ m \in Nat /\ m >= 1 /\ m = Len(pa) /\ k = Len(qa)
        /\ \A i \in 1 .. m - 1 : qa[i] = pa[i]
        /\ f.pass = 2 => k = m - 1
        /\ f.pass # 2 =>
              /\ f.pass \in {0, 1}
              /\ c = IF f.pass = 0 THEN so["left"][f.node] ELSE so["right"][f.node]
              /\ qa[m].node = f.node /\ qa[m].pass = f.pass + 1
              /\ c = NULL => k = m
              /\ c # NULL => k = m + 1 /\ qa[m + 1] = Frame(c)

\* What a turn of the loop of it_compute_current_elem() does.
LEMMA TurnFacts ==
    ASSUME IInv, Turn
    PROVE  /\ Idle /\ ~at /\ path # <<>> /\ Walking
           /\ UNCHANGED <<treeVars, callVars, answer, use, order, seen, start, failed>>
           /\ \E k \in Nat : \E c :
                 /\ Turned(son, path, path', Len(path), k, c)
                 /\ at' \in BOOLEAN /\ (at' <=> k # 0 /\ path'[k].pass = order)
  <1> DEFINE top  == Last(path)
             next == IF top.pass = 0 THEN son["left"][top.node] ELSE son["right"][top.node]
             here == [path EXCEPT ![Len(path)].pass = @ + 1]
             m == Len(path)  qa == path'  a == at'
  <1>1. /\ Idle /\ Walking /\ ~at /\ path # <<>>
        /\ \/ BothPassed(top) /\ qa = Front(path)
           \/ /\ ~BothPassed(top)
              /\ qa = IF next = NULL THEN here ELSE Append(here, Frame(next))
        /\ a = (qa # <<>> /\ Last(qa).pass = order)
        /\ UNCHANGED <<treeVars, callVars, answer, use, order, seen, start, failed>>
    BY DEF Turn
  <1>2. path \in Seq(Frames)
    BY <1>1, WalkingFacts
  <1>4. /\ m \in Nat /\ m >= 1 /\ m \in 1 .. m /\ top = path[m] /\ top \in Frames
        /\ Front(path) \in Seq(Frames) /\ Len(Front(path)) = m - 1
        /\ \A i \in 1 .. m - 1 : Front(path)[i] = path[i]
    BY <1>1, <1>2, PathFacts
  <1>5. CASE BothPassed(top)
    <2>1. qa = Front(path) /\ path[m].pass = 2
      BY <1>1, <1>4, <1>5 DEF BothPassed, Frames
    <2>2. m - 1 \in Nat /\ Len(qa) = m - 1 /\ qa \in Seq(Frames)
      BY <1>4, <2>1
    <2>3. a \in BOOLEAN /\ (a <=> m - 1 # 0 /\ qa[m - 1].pass = order)
      <3>1. qa # <<>> <=> m - 1 # 0
        BY <2>2
      <3>2. m - 1 # 0 => Last(qa) = qa[m - 1]
        BY <2>2 DEF Last
      <3>3. QED
        BY <1>1, <3>1, <3>2
    <2>4. Turned(son, path, qa, m, m - 1, NULL)
      BY <1>4, <2>1, <2>2 DEF Turned
    <2>5. QED
      BY <1>1, <2>2, <2>3, <2>4
  <1>6. CASE ~BothPassed(top)
    <2> DEFINE p == top.pass  n == top.node
    <2>1. /\ qa = IF next = NULL THEN here ELSE Append(here, Frame(next))
          /\ p \in {0, 1}
      BY <1>1, <1>4, <1>6 DEF BothPassed, Frames
    <2>2. /\ Len(here) = m /\ \A i \in 1 .. m - 1 : here[i] = path[i]
          /\ here[m].node = n /\ here[m].pass = p + 1
          /\ here \in Seq(Frames)
      <3>1. \A i \in 1 .. m - 1 : i \in 1 .. m /\ i # m
        BY <1>4
      <3>2. here = [path EXCEPT ![m] = [top EXCEPT !.pass = p + 1]]
        BY <1>4
      <3> DEFINE f == [top EXCEPT !.pass = p + 1]
      <3>3. f.node = n /\ f.pass = p + 1 /\ f \in Frames
        BY <1>4, <2>1 DEF Frames
      <3> HIDE DEF f, here
      <3>5. here = [path EXCEPT ![m] = f]
        BY <3>2 DEF f
      <3>6. Len(here) = m /\ here[m] = f /\ \A i \in 1 .. m - 1 : here[i] = path[i]
        BY <1>2, <1>4, <3>1, <3>5
      <3>7. here \in Seq(Frames)
        BY <1>2, <1>4, <3>3, <3>5
      <3>8. QED
        BY <3>3, <3>6, <3>7
    <2> DEFINE k == IF next = NULL THEN m ELSE m + 1
    <2>3. /\ Len(qa) = k /\ \A i \in 1 .. m - 1 : qa[i] = path[i]
          /\ qa[m].node = n /\ qa[m].pass = p + 1
          /\ next # NULL => qa[m + 1] = Frame(next)
      <3>1. CASE next = NULL
        BY <2>1, <2>2, <3>1
      <3>2. CASE next # NULL
        <4> HIDE DEF here, next
        <4>1. qa = Append(here, Frame(next))
          BY <2>1, <3>2
        <4>2. \A i \in 1 .. m : qa[i] = here[i]
          BY <1>4, <2>2, <4>1
        <4>3. Len(qa) = m + 1 /\ qa[m + 1] = Frame(next)
          BY <1>4, <2>2, <4>1
        <4>4. QED
          BY <1>4, <2>2, <3>2, <4>2, <4>3
      <3>3. QED
        BY <3>1, <3>2
    <2>4. a \in BOOLEAN /\ (a <=> k # 0 /\ qa[k].pass = order) /\ k \in Nat
      <3>1. k \in Nat /\ k # 0
        BY <1>4
      <3>2. qa # <<>> /\ Last(qa) = qa[k]
        BY <2>3, <3>1 DEF Last
      <3>3. QED
        BY <1>1, <3>1, <3>2
    <2>5. Turned(son, path, qa, m, k, next)
      <3>1. path[m] = top /\ p # 2 /\ k = Len(qa)
        BY <1>4, <2>1, <2>3
      <3>2. next = IF p = 0 THEN son["left"][n] ELSE son["right"][n]
        OBVIOUS
      <3>3. (next = NULL => k = m) /\ (next # NULL => k = m + 1)
        OBVIOUS
      <3> HIDE DEF k, qa, next
      <3>4. QED
        BY <1>4, <2>1, <2>3, <3>1, <3>2, <3>3 DEF Turned
    <2>6. QED
      BY <1>1, <2>4, <2>5
  <1>7. QED
    BY <1>5, <1>6

\* One turn of the loop.
LEMMA TurnCuts ==
    ASSUME IInv, IInv', CutInv, use = "delete", Turn
    PROVE  CutInv'
  <1> DEFINE m == Len(path)
  <1>1. /\ Idle /\ ~at /\ path # <<>>
        /\ UNCHANGED <<treeVars, callVars, answer, use, order, seen, start, failed>>
    BY TurnFacts
  <1>a. PICK k \in Nat : \E c : /\ Turned(son, path, path', m, k, c)
                                /\ at' \in BOOLEAN /\ (at' <=> k # 0 /\ path'[k].pass = order)
    BY TurnFacts
  <1>2. PICK c : /\ Turned(son, path, path', m, k, c)
                 /\ at' \in BOOLEAN /\ (at' <=> k # 0 /\ path'[k].pass = order)
    BY <1>a
  <1>3. CutPath /\ Members = Kept /\ order = 2
    BY <1>1 DEF CutInv, CutPath
  <1>4. /\ path \in Seq(Frames) /\ at \in BOOLEAN /\ path' \in Seq(Frames)
        /\ m \in Nat /\ m >= 1 /\ k = Len(path') /\ path[m] \in Frames
        /\ \A i \in 1 .. m - 1 : path'[i] = path[i]
    <2>1. path \in Seq(Frames) /\ at \in BOOLEAN
      BY CutFacts
    <2>2. path' \in Seq(Frames)
      BY DEF IInv, TypeOK, Frames
    <2>3. m \in Nat /\ m >= 1 /\ k = Len(path') /\ \A i \in 1 .. m - 1 : path'[i] = path[i]
      BY <1>2 DEF Turned
    <2>4. m \in 1 .. m
      BY <2>3
    <2>5. path[m] \in Frames
      BY <2>1, <2>4
    <2>6. QED
      BY <2>1, <2>2, <2>3, <2>5
  <1>5. Standing /\ Branches(son, Members)
    BY <1>1, IdleFacts, StandingBranches DEF Idle
  <1>6. /\ son' = son /\ Members' = Members /\ Idle' /\ Kept' = Kept /\ (Small' <=> Small)
        /\ order' = 2
    <2>1. Members' = Members /\ son' = son /\ Idle'
      BY <1>1, TreeAlone DEF Idle, callVars, treeVars
    <2>2. seen' = seen /\ start' = start /\ order' = order
      BY <1>1
    <2>3. QED
      BY <1>3, <2>1, <2>2 DEF Kept, Small
  <1>7. ~Visited' /\ Lasting' = k /\ (at' => Last(path').pass = 2)
    <2>1. path' = <<>> <=> k = 0
      BY <1>4
    <2>2. k # 0 => Last(path') = path'[k]
      BY <1>4, <2>1 DEF Last
    <2>3. ~Visited'
      BY <1>2, <1>3, <2>1, <2>2 DEF Visited
    <2>4. QED
      BY <1>2, <1>3, <1>4, <2>1, <2>2, <2>3 DEF Lasting
  <1>8. path[m].pass = 2 => Lasting = m - 1
    BY <1>1, <1>4, LastingIs
  <1>9. path[m].pass # 2 => Lasting = m
    BY <1>1, <1>4, LastingIs
  <1>10. CASE path[m].pass = 2
    <2>1. k = m - 1 /\ Lasting = k
      BY <1>2, <1>8, <1>10 DEF Turned
    <2>2. \A i \in 1 .. k : path'[i] = path[i]
      BY <1>4, <2>1
    <2>3. \A i \in 1 .. k - 1 : i \in 1 .. k /\ path'[i].pass \in {1, 2}
      <3>1. \A i \in 1 .. k - 1 : i \in 1 .. k /\ i \in 1 .. m - 1
        BY <1>4, <2>1
      <3>2. QED
        BY <1>3, <2>2, <3>1 DEF CutPath
    <2>4. \A i \in 1 .. k : path'[i].node \in Kept'
      BY <1>3, <1>6, <2>1, <2>2 DEF CutPath
    <2>5. Along(son', path', k)
      BY <1>3, <1>6, <2>1, <2>2 DEF CutPath, Along
    <2>6. Small' => Covers(son', path', k, Kept')
      BY <1>3, <1>6, <2>1, <2>2 DEF CutPath, Covers
    <2>7. QED
      BY <1>1, <1>3, <1>4, <1>6, <1>7, <2>3, <2>4, <2>5, <2>6 DEF CutPath, CutInv
  <1>11. CASE path[m].pass # 2
    <2> DEFINE p == path[m].pass  n == path[m].node
    <2>1. /\ p \in {0, 1} /\ path'[m].node = n /\ path'[m].pass = p + 1
          /\ c = IF p = 0 THEN son["left"][n] ELSE son["right"][n]
          /\ c = NULL => k = m
          /\ c # NULL => k = m + 1 /\ path'[m + 1] = Frame(c)
      BY <1>2, <1>11 DEF Turned
    <2>2. /\ \A i \in 1 .. m : path[i].node \in Members
          /\ Along(son, path, m)
          /\ Small => Covers(son, path, m, Kept)
      BY <1>3, <1>9, <1>11 DEF CutPath
    <2>3. n \in Members /\ \A i \in 1 .. m : i \in 1 .. m - 1 \/ i = m
      BY <1>4, <2>2
    <2>4. c = son[Down(path'[m])][path'[m].node]
      <3>1. p = 0 => Down(path'[m]) = "left"
        BY <2>1 DEF Down
      <3>2. p = 1 => Down(path'[m]) = "right"
        BY <2>1 DEF Down
      <3>3. QED
        BY <2>1, <3>1, <3>2
    <2>5. /\ c = NULL => Along(son, path', m)
          /\ c # NULL => c \in Members /\ Along(son, path', m + 1)
      <3>1. ASSUME c = NULL, NEW i \in 1 .. m, NEW j \in 1 .. m, i < j
            PROVE  path'[j].node \in Ahead(son, path'[i])
        <4>1. i \in 1 .. m - 1 /\ path'[i] = path[i]
          BY <1>4, <3>1
        <4>2. path'[j].node = path[j].node
          BY <1>4, <2>1, <2>3
        <4>3. QED
          BY <2>2, <3>1, <4>1, <4>2 DEF Along
      <3>2. ASSUME c # NULL PROVE c \in Members /\ Along(son, path', m + 1)
        <4>1. path'[m + 1].node = c
          BY <2>1, <3>2 DEF Frame
        <4> HIDE DEF n, p, m
        <4>2. path'[m].node = path[m].node
          BY <2>1 DEF n
        <4>3. QED
          BY <1>4, <1>5, <2>2, <2>4, <3>2, <4>1, <4>2, AlongPushed
      <3>3. QED
        BY <3>1, <3>2 DEF Along
    <2>6. Small => /\ c = NULL => Covers(son, path', m, Kept)
                   /\ c # NULL => Covers(son, path', m + 1, Kept)
      <3> HIDE DEF m
      <3>1. ASSUME Small
            PROVE  /\ c = NULL => Covers(son, path', m, Kept)
                   /\ c # NULL /\ path'[m + 1] = Frame(c) => Covers(son, path', m + 1, Kept)
        <4>1. Covers(son, path, m, Kept)
          BY <2>2, <3>1
        <4>2. path[m].pass = p /\ n = path[m].node
          OBVIOUS
        <4> HIDE DEF p, n
        <4>3. QED
          <5> DEFINE so == son  qa == path'
          <5>1. /\ Branches(so, Members) /\ m \in Nat /\ m >= 1 /\ Covers(so, path, m, Kept)
                /\ p \in {0, 1} /\ n \in Members
                /\ c = IF p = 0 THEN so["left"][n] ELSE so["right"][n]
                /\ \A i \in 1 .. m - 1 : qa[i] = path[i]
                /\ qa[m].node = n /\ qa[m].pass = p + 1
            BY <1>4, <1>5, <2>1, <2>3, <4>1
          <5> HIDE DEF so, qa
          <5>2. /\ c = NULL => Covers(so, qa, m, Kept)
                /\ c # NULL /\ qa[m + 1] = Frame(c) => Covers(so, qa, m + 1, Kept)
            BY ONLY <4>2, <5>1, CoversOnward
          <5>3. QED
            BY ONLY <5>2 DEF so, qa
      <3>2. QED
        BY <2>1, <3>1
    <2>7. \A i \in 1 .. k - 1 : path'[i].pass \in {1, 2}
      <3>1. \A i \in 1 .. k - 1 : i \in 1 .. m - 1 \/ i = m
        BY <1>4, <2>1
      <3>2. \A i \in 1 .. m - 1 : path[i].pass \in {1, 2}
        BY <1>3 DEF CutPath
      <3>3. path'[m].pass \in {1, 2}
        BY <2>1
      <3>4. QED
        BY <1>4, <3>1, <3>2, <3>3
    <2>8. \A i \in 1 .. k : path'[i].node \in Members
      <3>1. \A i \in 1 .. m : path'[i].node \in Members
        <4>1. \A i \in 1 .. m - 1 : i \in 1 .. m
          BY <1>4
        <4>2. QED
          BY <1>4, <2>1, <2>2, <2>3, <4>1
      <3>2. c # NULL => path'[m + 1].node \in Members
        BY <2>1, <2>5 DEF Frame
      <3>3. \A i \in 1 .. k : i \in 1 .. m \/ (c # NULL /\ i = m + 1)
        BY <1>4, <2>1
      <3>4. QED
        BY <3>1, <3>2, <3>3
    <2>9. Along(son', path', k) /\ (Small' => Covers(son', path', k, Kept'))
      <3>1. CASE c = NULL
        BY <1>6, <2>1, <2>5, <2>6, <3>1
      <3>2. CASE c # NULL
        BY <1>6, <2>1, <2>5, <2>6, <3>2
      <3>3. QED
        BY <3>1, <3>2
    <2> HIDE DEF m
    <2>10. QED
      BY <1>1, <1>3, <1>4, <1>6, <1>7, <2>7, <2>8, <2>9 DEF CutPath, CutInv
  <1>12. QED
    BY <1>10, <1>11

-----------------------------------------------------------------------------
(* The call that deletes the member of the last frame.                     *)

\* The path has m frames and the member of the last one is the element.
Cutting(m) ==
    /\ m = Len(path) /\ m \in Nat /\ m >= 1
    /\ elem = path[m].node /\ elem \in Nodes /\ elem \in start /\ elem \notin Kept
    /\ Kept \subseteq start /\ start \subseteq Nodes
    /\ \A i \in 1 .. m - 1 :
          /\ i \in 1 .. m /\ path[i].pass \in {1, 2}
          /\ path[i].node \in Kept /\ path[i].node \in Nodes /\ path[i].node # elem
    /\ Along(son, path, m - 1)
    /\ Small => Covers(son, path, m - 1, Kept)

\* While a deletion is at work the last frame is that of its argument.
LEMMA CuttingFacts ==
    ASSUME IInv, CutInv, use = "delete", ~Idle
    PROVE  Cutting(Len(path)) /\ CutCall /\ CutPath /\ TypeOK
  <1> DEFINE m == Len(path)
  <1>1. CutPath /\ CutCall /\ Visited
    BY DEF CutInv, CutCall
  <1>2. TypeOK /\ path \in Seq(Frames) /\ at \in BOOLEAN /\ start \subseteq Nodes
    BY CutFacts
  <1>3. m \in Nat /\ m >= 1 /\ Lasting = m - 1
    BY <1>1, <1>2, LastingIs
  <1>4. elem = path[m].node /\ elem \in ToSet(seen) /\ ToSet(seen) \subseteq start
    BY <1>1 DEF CutCall, CutPath
  <1>5. Kept \subseteq start /\ elem \notin Kept
    BY <1>4 DEF Kept
  <1>6. \A i \in 1 .. m - 1 : i \in 1 .. m
    BY <1>3
  <1>7. \A i \in 1 .. m - 1 : path[i].pass \in {1, 2} /\ path[i].node \in Kept
    BY <1>1, <1>3 DEF CutPath
  <1>8. Along(son, path, m - 1) /\ (Small => Covers(son, path, m - 1, Kept))
    BY <1>1, <1>3 DEF CutPath
  <1>9. Cutting(m)
    BY <1>2, <1>3, <1>4, <1>5, <1>6, <1>7, <1>8 DEF Cutting
  <1>10. QED
    BY <1>1, <1>2, <1>9

\* A step of the call leaves the iterator alone.
LEMMA CallWalks ==
    ASSUME UNCHANGED walkVars
    PROVE  /\ Kept' = Kept /\ (Visited' <=> Visited) /\ Lasting' = Lasting /\ (Small' <=> Small)
           /\ path' = path /\ use' = use /\ seen' = seen /\ start' = start /\ order' = order /\ at' = at
  BY DEF walkVars, Kept, Visited, Lasting, Small

\* A step of a call leaves the walk alone: what is to show is about the tree.
LEMMA CallCuts ==
    ASSUME IInv, CutInv, use = "delete", ~Idle, UNCHANGED walkVars, NEW m, m = Len(path),
           Along(son', path, m - 1), Small => Covers(son', path, m - 1, Kept),
           Idle' => Members' = Kept, ~Idle' => CutCall'
    PROVE  CutInv'
  <1>1. CutPath /\ Cutting(m)
    BY CuttingFacts
  <1>2. Lasting = m - 1
    <2>1. Visited /\ path \in Seq(Frames) /\ at \in BOOLEAN
      BY CutFacts DEF CutInv, CutCall
    <2>2. QED
      BY <2>1, LastingIs
  <1>3. CutPath'
    <2>1. /\ Kept' = Kept /\ Lasting' = m - 1 /\ (Small' <=> Small)
          /\ path' = path /\ seen' = seen /\ start' = start /\ order' = order /\ at' = at
      BY <1>2, CallWalks
    <2>2. \A i \in 1 .. Lasting' : path'[i].node \in Kept'
      BY <1>1, <2>1 DEF Cutting
    <2>3. Along(son', path', Lasting') /\ (Small' => Covers(son', path', Lasting', Kept'))
      BY <2>1
    <2>4. QED
      BY <1>1, <2>1, <2>2, <2>3 DEF CutPath
  <1>4. use' = use /\ Kept' = Kept
    BY CallWalks
  <1>5. QED
    BY <1>3, <1>4 DEF CutInv

\* A step that changes no link keeps the path.
LEMMA CallKeeps ==
    ASSUME IInv, CutInv, use = "delete", ~Idle, UNCHANGED walkVars, son' = son,
           Idle' => Members' = Kept, ~Idle' => CutCall'
    PROVE  CutInv'
  <1>1. Cutting(Len(path))
    BY CuttingFacts
  <1>2. Along(son', path, Len(path) - 1) /\ (Small => Covers(son', path, Len(path) - 1, Kept))
    BY <1>1 DEF Cutting
  <1>3. QED
    BY <1>2, CallCuts

\* The lookup goes down.
LEMMA LookDownCuts ==
    ASSUME IInv, IInv', CutInv, use = "delete", LookDown
    PROVE  CutInv'
  <1>1. /\ Looking
        /\ UNCHANGED <<treeVars, stage, elem, leaf, short, answer, walkVars, failed>>
    BY DEF LookDown
  <1>2. /\ son' = son /\ red' = red /\ Members' = Members /\ UNCHANGED walkVars
        /\ stage' = stage /\ elem' = elem /\ leaf' = leaf
    BY <1>1 DEF treeVars, Members, root, At
  <1>3. ~Idle
    BY <1>1 DEF Looking, Idle
  <1>4. CutCall /\ Cutting(Len(path)) /\ stage = "lookDelete"
    <2>1. CutCall /\ Cutting(Len(path))
      BY <1>3, CuttingFacts
    <2>2. QED
      BY <1>1, <2>1 DEF CutCall, Looking
  <1>5. Standing'
    BY <1>2, <1>4 DEF IInv, TreeInv
  <1>6. CutCall'
    BY <1>2, <1>4, <1>5, CallWalks DEF CutCall
  <1>7. ~Idle'
    BY <1>2, <1>4 DEF Idle
  <1>8. QED
    BY <1>2, <1>3, <1>6, <1>7, CallKeeps

\* What is found under the key of a connection is that connection.
LEMMA LookDeleteEndCuts ==
    ASSUME IInv, IInv', CutInv, use = "delete", LookDeleteEnd
    PROVE  CutInv'
  <1> DEFINE t == At(Calling)  m == Len(path)
  <1>1. /\ stage = "lookDelete" /\ Looking /\ Met /\ answer' = t
        /\ UNCHANGED <<treeVars, walkVars, failed>>
        /\ answer' # NULL => Begin("search", answer')
    BY DEF LookDeleteEnd, Looking
  <1>2. ~Idle
    BY <1>1 DEF Idle
  <1>3. Cutting(m) /\ CutCall /\ CutPath
    BY <1>2, CuttingFacts
  <1>4. Members = Kept \cup {elem} /\ Along(son, path, m) /\ Members \subseteq start
    BY <1>1, <1>3 DEF CutCall, Cutting
  <1>5. t = elem
    <2>1. Elements = Members
      BY <1>1, SoughtFacts
    <2>2. t \in Set!Found(elem) /\ (t # NULL => t \in Members)
      BY <1>1, <2>1, MetFound
    <2>3. elem \in {n \in Elements : Key[n] = Key[elem]}
      BY <1>4, <2>1
    <2>4. t \in Elements /\ Key[t] = Key[elem]
      BY <2>2, <2>3 DEF Set!Found
    <2>5. t \in start /\ elem \in start
      BY <1>3, <1>4, <2>1, <2>4 DEF Cutting
    <2>6. \A i, j \in start : Key[i] = Key[j] => i = j
      BY <1>3 DEF CutPath
    <2> HIDE DEF t
    <2>7. QED
      BY <2>4, <2>5, <2>6
  <1> HIDE DEF t
  <1>6. elem \in Nodes /\ elem # NULL
    BY <1>3, NodeFacts DEF Cutting
  <1>7. stage' = "search" /\ elem' = elem /\ leaf' = NULL /\ stack' = <<Top>>
    BY <1>1, <1>5, <1>6, BegunTypes
  <1>8. son' = son /\ red' = red /\ Members' = Members /\ root' = root /\ Standing'
    <2>1. son' = son /\ red' = red
      BY <1>1 DEF treeVars
    <2>2. Standing
      BY <1>1, SoughtFacts
    <2>3. QED
      BY <2>1, <2>2 DEF Members, root, At, Standing
  <1>9. NodesOf(son', At(Calling)') = Members
    <2>1. Calling' = Top
      BY <1>7, CallingTop
    <2>2. At(Calling)' = root'
      BY <2>1 DEF At, root
    <2>3. QED
      BY <1>8, <2>2 DEF Members
  <1>10. Kept' = Kept /\ path' = path /\ (Visited' <=> Visited) /\ seen' = seen
    BY <1>1, CallWalks
  <1>11. AllHeld'
    <2>1. \A i \in 1 .. m - 1 : path[i].node \in Members
      BY <1>3, <1>4 DEF Cutting
    <2>2. QED
      BY <1>9, <1>10, <2>1 DEF AllHeld
  <1>12. CutCall'
    BY <1>3, <1>4, <1>7, <1>8, <1>10, <1>11 DEF CutCall
  <1>13. ~Idle'
    BY <1>7 DEF Idle
  <1>14. QED
    BY <1>1, <1>2, <1>8, <1>12, <1>13, CallKeeps

\* delete_recursive() has gone down to a tree that has the element.
LEMMA SearchedFacts ==
    ASSUME IInv, stage = "search"
    PROVE  /\ son \in Pointers /\ stack \in Seq(Places) /\ Len(stack) \in Nat /\ Len(stack) >= 1
           /\ At(Calling) \in Nodes \cup {NULL}
           /\ elem \in NodesOf(son, At(Calling)) /\ NodesOf(son, At(Calling)) \subseteq Members
           /\ At(Calling) # NULL => At(Calling) \in Members
  <1>1. PICK X, Y, H : Open(son, red, stack, X, Y, H) /\ X[1] = Members /\ elem \in X[Len(stack)]
    BY DEF IInv, TreeInv, Searched
  <1> DEFINE n == Len(stack)
  <1>2. Context(son, red, stack, X, Y, H) /\ Tree(son, red, To(son, stack[n]), X[n], H[n])
    BY <1>1 DEF Open
  <1>3. /\ stack \in Seq(Places) /\ n \in Nat /\ n >= 1 /\ At(Calling) = To(son, stack[n])
        /\ son \in Pointers /\ red \in SUBSET Nodes /\ X[n] \subseteq Members
    BY <1>1, <1>2, CallFacts
  <1>4. n \in 1 .. n
    BY <1>3
  <1>5. NodesOf(son, To(son, stack[n])) = X[n]
    BY <1>1, <1>3, <1>4, OpenTrees
  <1>6. To(son, stack[n]) \in Nodes \cup {NULL} /\ (To(son, stack[n]) # NULL => To(son, stack[n]) \in X[n])
    BY <1>2, TreeFacts
  <1>7. QED
    BY <1>1, <1>3, <1>5, <1>6

\* A call for a subtree holds what was below the tree of the outer one.
LEMMA DeleteDownCuts ==
    ASSUME IInv, IInv', CutInv, use = "delete", DeleteDown
    PROVE  CutInv'
  <1> DEFINE t == At(Calling)  l == Side(elem, t)  m == Len(path)  n == Len(stack)
  <1>1. /\ stage = "search" /\ t # elem
        /\ t # NULL => Calls(t, l) /\ UNCHANGED <<stage, failed>>
        /\ t = NULL => failed' = TRUE
        /\ UNCHANGED <<treeVars, elem, leaf, short, answer, walkVars>>
    BY DEF DeleteDown
  <1>2. t # NULL
    BY <1>1 DEF IInv
  <1>3. /\ son \in Pointers /\ stack \in Seq(Places) /\ n \in Nat /\ n >= 1
        /\ t \in Nodes /\ t \in Members
    BY <1>1, <1>2, SearchedFacts
  <1>4. l \in Sides
    BY DEF Side, Sides
  <1>5. ~Idle
    BY <1>1 DEF Idle
  <1>6. Cutting(m) /\ CutCall /\ CutPath /\ TypeOK
    BY <1>5, CuttingFacts
  <1>7. Standing /\ Members = Kept \cup {elem} /\ Along(son, path, m) /\ AllHeld
    BY <1>1, <1>6 DEF CutCall
  <1>8. Branches(son, Members)
    BY <1>6, <1>7, StandingBranches
  <1>9. /\ son' = son /\ red' = red /\ Members' = Members /\ Standing'
        /\ stage' = "search" /\ elem' = elem /\ leaf' = leaf /\ stack' = Append(stack, Place(t, l))
    <2>1. son' = son /\ red' = red
      BY <1>1 DEF treeVars
    <2>2. stage' = "search" /\ elem' = elem /\ leaf' = leaf /\ stack' = Append(stack, Place(t, l))
      BY <1>1, <1>2 DEF Calls
    <2>3. QED
      BY <1>7, <2>1, <2>2 DEF Members, root, At, Standing
  <1> HIDE DEF t, l
  <1>10. /\ Len(stack') = n + 1 /\ stack'[n + 1] = Place(t, l) /\ stack' \in Seq(Places)
         /\ \A i \in 1 .. n : stack'[i] = stack[i]
    <2>1. Place(t, l) \in Places
      BY <1>3, <1>4 DEF Place, Places
    <2>2. QED
      BY <1>3, <1>9, <2>1, PlaceAdded
  <1>11. At(Calling)' = son[l][t]
    <2>1. Calling' = Place(t, l)
      BY <1>3, <1>10 DEF Calling, Last
    <2>2. QED
      BY <1>9, <2>1 DEF At, Place
  <1> DEFINE A == NodesOf(son, son[l][t])
  <1>12. elem \in A
    <2>1. PICK X, Y, H : Open(son', red', stack', X, Y, H) /\ elem' \in X[Len(stack')]
      BY <1>9 DEF IInv, TreeInv, Searched
    <2>2. n + 1 \in 1 .. Len(stack') /\ red' \in SUBSET Nodes /\ son' \in Pointers
      BY <1>3, <1>6, <1>9, <1>10, Types
    <2>3. NodesOf(son', To(son', stack'[n + 1])) = X[n + 1]
      BY <2>1, <2>2, OpenTrees
    <2>4. To(son', stack'[n + 1]) = son[l][t]
      BY <1>9, <1>10 DEF To, Place
    <2>5. QED
      BY <1>9, <1>10, <2>1, <2>3, <2>4
  <1>13. Branch(son, t, l) /\ Branch(son, t, Other(l))
    BY <1>3, <1>4, <1>8, SideFacts DEF Branches
  <1>14. ASSUME NEW i \in 1 .. m - 1
         PROVE  \/ \E j \in 2 .. n + 1 : stack'[j] = Place(path[i].node, Down(path[i]))
                \/ path[i].node \in A
    <2> DEFINE f == path[i]  B == NodesOf(son, son[Other(l)][t])
    <2>1. f.node \in Members /\ f.node \in Nodes /\ i \in 1 .. m /\ i < m /\ m \in 1 .. m
      BY <1>6, <1>7 DEF Cutting
    <2>2. elem \in Ahead(son, f)
      BY <1>6, <1>7, <2>1 DEF Along, Cutting
    <2>3. CASE OnStack(f, n)
      <3>1. PICK j \in 2 .. n : stack[j] = Place(f.node, Down(f))
        BY <2>3 DEF OnStack
      <3>2. j \in 1 .. n /\ j \in 2 .. n + 1
        BY <1>3
      <3>3. QED
        BY <1>10, <3>1, <3>2
    <2>4. CASE f.node = t
      <3>1. elem \in NodesOf(son, son[Down(f)][t])
        BY <2>2, <2>4 DEF Ahead
      <3>2. Down(f) = l
        <4>1. Down(f) \in {l, Other(l)}
          BY <1>4, DownFacts, SideFacts
        <4>2. A \cap B = {}
          BY <1>13 DEF Branch
        <4>3. QED
          BY <1>12, <3>1, <4>1, <4>2
      <3>3. n + 1 \in 2 .. n + 1
        BY <1>3
      <3>4. QED
        BY <1>10, <2>4, <3>2, <3>3
    <2>5. CASE f.node \in NodesOf(son, t) /\ f.node # t
      <3>1. f.node \in A \cup B /\ A \cap B = {}
        BY <1>13, <2>5 DEF Branch
      <3>2. ASSUME f.node \in B PROVE FALSE
        <4>1. NodesOf(son, f.node) \subseteq B
          BY <1>13, <3>2 DEF Branch
        <4>2. Ahead(son, f) \subseteq NodesOf(son, f.node)
          BY <1>8, <2>1, AheadFacts
        <4>3. QED
          BY <1>12, <2>2, <3>1, <4>1, <4>2
      <3>3. QED
        BY <3>1, <3>2
    <2>6. OnStack(f, n) \/ f.node \in NodesOf(son, t)
      BY <1>7 DEF AllHeld, t
    <2>7. QED
      BY <2>3, <2>4, <2>5, <2>6
  <1>15. /\ Kept' = Kept /\ path' = path /\ (Visited' <=> Visited) /\ seen' = seen /\ (Small' <=> Small)
         /\ UNCHANGED walkVars
    BY <1>1, CallWalks
  <1>16. AllHeld'
    BY <1>9, <1>10, <1>11, <1>14, <1>15 DEF AllHeld, OnStack
  <1>17. CutCall'
    BY <1>1, <1>6, <1>7, <1>9, <1>15, <1>16 DEF CutCall
  <1>18. ~Idle'
    BY <1>9 DEF Idle
  <1>19. QED
    BY <1>5, <1>9, <1>15, <1>17, <1>18, CallKeeps

\* What may change in the links: t is no longer ahead of the frame, and in a
\* larger tree what is coming may be turned out of the way.
Keeps(so, to, f, t) ==
    /\ Ahead(so, f) \ {t} \subseteq Ahead(to, f)
    /\ Small => Coming(so, f) \subseteq Coming(to, f)

\* If no frame loses more than t, the path still leads over members.
LEMMA KeptAcross ==
    ASSUME NEW m, Cutting(m), NEW t,
           \A i \in 1 .. m - 1 : path[i].node # t /\ Keeps(son, son', path[i], t)
    PROVE  Along(son', path, m - 1) /\ (Small => Covers(son', path, m - 1, Kept))
  <1>1. m - 1 \in Nat /\ Along(son, path, m - 1) /\ (Small => Covers(son, path, m - 1, Kept))
    BY DEF Cutting
  <1>2. Loses(son, son', path, m - 1, t)
    BY DEF Loses, Keeps
  <1>3. Along(son', path, m - 1)
    BY <1>1, <1>2, AlongKept
  <1>4. Small => \A i \in 1 .. m - 1 : Coming(son, path[i]) \cap Kept \subseteq Coming(son', path[i])
    BY DEF Keeps
  <1>5. Small => Covers(son', path, m - 1, Kept)
    BY <1>1, <1>4, CoversKept
  <1>6. QED
    BY <1>3, <1>5

\* A frame to whose node the call has to return.
AtCall(so, R, st, X, Y, H, f, j) ==
    /\ j \in 2 .. Len(st) /\ st[j] = Place(f.node, Down(f))
    /\ \/ Open(so, R, st, X, Y, H)
       \/ \E less : Shrunk(so, R, st, X, Y, H, less)

\* Such a frame has the tree of the call ahead of it.
LEMMA AheadAtCall ==
    ASSUME NEW so \in Pointers, NEW R \in SUBSET Nodes, NEW st, NEW X, NEW Y, NEW H,
           NEW f, NEW j, AtCall(so, R, st, X, Y, H, f, j)
    PROVE  /\ Ahead(so, f) = X[j] /\ f.node \notin X[j]
           /\ f.pass = 1 => NodesOf(so, so["right"][f.node]) = Y[j]
  <1>1. Context(so, R, st, X, Y, H) /\ Len(st) \in Nat
    <2>1. Open(so, R, st, X, Y, H) => Context(so, R, st, X, Y, H)
      BY DEF Open
    <2>2. \A less : Shrunk(so, R, st, X, Y, H, less) => Context(so, R, st, X, Y, H)
      BY DEF Shrunk
    <2>3. Context(so, R, st, X, Y, H)
      BY <2>1, <2>2 DEF AtCall
    <2>4. Len(st) \in Nat
      BY ONLY <2>3 DEF Context
    <2>5. QED
      BY ONLY <2>3, <2>4
  <1>2. j \in 2 .. Len(st) /\ j \in 1 .. Len(st) /\ st[j] = Place(f.node, Down(f))
    BY <1>1 DEF AtCall
  <1>3. NodesOf(so, To(so, st[j])) = X[j]
    BY <1>2, OpenTrees, ShrunkTrees DEF AtCall
  <1>4. st[j].node = f.node /\ st[j].side = Down(f)
    BY <1>2 DEF Place
  <1>5. CallAt(so, R, st, X, Y, H, j)
    BY <1>1, <1>2 DEF Context
  <1>6. Tree(so, R, so[Other(Down(f))][f.node], Y[j], H[j]) /\ Joins(Down(f), f.node, X[j], Y[j], X[j - 1])
    BY <1>4, <1>5 DEF CallAt
  <1>7. NodesOf(so, so[Other(Down(f))][f.node]) = Y[j] /\ f.node \notin X[j]
    BY <1>6, DownFacts, NodesOfTree, JoinsFacts
  <1>8. f.pass = 1 => Other(Down(f)) = "right"
    BY DownFacts DEF Other
  <1>9. QED
    BY <1>3, <1>4, <1>7, <1>8 DEF Ahead, To

\* Such a frame keeps what it has, if the call keeps its nodes but t.
LEMMA KeepsAtCall ==
    ASSUME NEW so \in Pointers, NEW R \in SUBSET Nodes, NEW st, NEW X, NEW Y, NEW H,
           NEW f, NEW j, AtCall(so, R, st, X, Y, H, f, j), f.pass \in {1, 2},
           NEW to \in Pointers, NEW Q \in SUBSET Nodes, NEW ts, NEW W, NEW G,
           AtCall(to, Q, ts, W, Y, G, f, j), NEW t, X[j] \ {t} \subseteq W[j]
    PROVE  Keeps(so, to, f, t)
  <1>1. Ahead(so, f) = X[j] /\ (f.pass = 1 => NodesOf(so, so["right"][f.node]) = Y[j])
    BY AheadAtCall
  <1>2. Ahead(to, f) = W[j] /\ (f.pass = 1 => NodesOf(to, to["right"][f.node]) = Y[j])
    BY AheadAtCall
  <1>3. Coming(so, f) \subseteq Coming(to, f)
    BY <1>1, <1>2 DEF Coming
  <1>4. QED
    BY <1>1, <1>2, <1>3 DEF Keeps

\* The element is found: the call has to return to all frames of the path.
LEMMA FoundBelow ==
    ASSUME IInv, CutInv, use = "delete", stage = "search", At(Calling) = elem
    PROVE  /\ \A i \in 1 .. Len(path) - 1 : OnStack(path[i], Len(stack))
           /\ Small => NodesOf(son, elem) = {elem}
           /\ Branch(son, elem, "left")
  <1> DEFINE m == Len(path)
  <1>1. ~Idle
    BY DEF Idle
  <1>2. Cutting(m) /\ CutCall /\ TypeOK
    BY <1>1, CuttingFacts
  <1>3. Standing /\ Members = Kept \cup {elem} /\ Along(son, path, m) /\ AllHeld
    BY <1>2 DEF CutCall
  <1>4. Branches(son, Members)
    BY <1>2, <1>3, StandingBranches
  <1>5. ASSUME NEW i \in 1 .. m - 1, path[i].node \in NodesOf(son, elem) PROVE FALSE
    <2>1. path[i].node \in Members /\ i \in 1 .. m /\ i < m /\ m \in 1 .. m
      BY <1>2, <1>3 DEF Cutting
    <2>2. elem \in Ahead(son, path[i])
      BY <1>2, <1>3, <2>1 DEF Along, Cutting
    <2>3. QED
      BY <1>4, <1>5, <2>1, <2>2, AheadFacts
  <1>6. \A i \in 1 .. m - 1 : OnStack(path[i], Len(stack))
    BY <1>3, <1>5 DEF AllHeld
  <1>7. ASSUME Small PROVE NodesOf(son, elem) = {elem}
    <2>1. Members \ {elem} = Kept
      BY <1>2, <1>3 DEF Cutting
    <2>2. \A i \in 1 .. m : i = m \/ i \in 1 .. m - 1
      BY <1>2 DEF Cutting
    <2>3. /\ m \in Nat /\ m >= 1 /\ elem = path[m].node
          /\ \A i \in 1 .. m : path[i].node \in Members
          /\ \A i \in 1 .. m - 1 : path[i].pass \in {1, 2}
          /\ Covers(son, path, m - 1, Members \ {elem})
      BY <1>2, <1>3, <1>7, <2>1, <2>2 DEF Cutting
    <2> HIDE DEF m
    <2>4. QED
      BY <1>3, <1>4, <2>3, CoveredAlone
  <1>8. Branch(son, elem, "left")
    BY <1>3, <1>4 DEF Branches, Sides
  <1>9. QED
    BY <1>6, <1>7, <1>8

\* The trees of all calls in st have lost t.
Without(X, W, st, t) == \A i \in 1 .. Len(st) : W[i] = X[i] \ {t}

\* Taking t out keeps the frames that are on the stack.
LEMMA UnlinkKeeps ==
    ASSUME NEW so \in Pointers, NEW R \in SUBSET Nodes, NEW st, NEW X, NEW Y, NEW H,
           Open(so, R, st, X, Y, H),
           NEW to \in Pointers, NEW Q \in SUBSET Nodes, NEW W, NEW G, NEW less,
           Shrunk(to, Q, st, W, Y, G, less),
           NEW t, Without(X, W, st, t),
           NEW f, f.pass \in {1, 2}, NEW j \in 2 .. Len(st), st[j] = Place(f.node, Down(f))
    PROVE  Keeps(so, to, f, t) /\ f.node \notin X[j]
  <1>1. AtCall(so, R, st, X, Y, H, f, j) /\ AtCall(to, Q, st, W, Y, G, f, j)
    BY DEF AtCall
  <1>2. X[j] \ {t} \subseteq W[j]
    BY DEF Without
  <1>3. QED
    BY ONLY <1>1, <1>2, so \in Pointers, R \in SUBSET Nodes, to \in Pointers, Q \in SUBSET Nodes,
            f.pass \in {1, 2}, KeepsAtCall, AheadAtCall

\* delete() has found the node: it is unlinked, or its leaf is looked for.
LEMMA DeleteFoundCuts ==
    ASSUME IInv, IInv', CutInv, use = "delete", DeleteFound
    PROVE  CutInv'
  <1> DEFINE m == Len(path)  n == Len(stack)
  <1>1. stage = "search" /\ At(Calling) = elem
        /\ UNCHANGED <<elem, leaf, answer, walkVars, failed>>
    BY DEF DeleteFound
  <1>2. ~Idle
    BY <1>1 DEF Idle
  <1>3. Cutting(m) /\ CutCall /\ TypeOK
    BY <1>2, CuttingFacts
  <1>4. Members = Kept \cup {elem} /\ leaf = NULL
    <2>1. stage # "deleted" => leaf = NULL
      BY DEF IInv, TreeInv
    <2>2. QED
      BY <1>1, <1>3, <2>1 DEF CutCall
  <1>5. /\ \A i \in 1 .. m - 1 : OnStack(path[i], n)
        /\ Small => NodesOf(son, elem) = {elem}
        /\ Branch(son, elem, "left")
    BY <1>1, FoundBelow
  <1>6. PICK X, Y, H : Open(son, red, stack, X, Y, H) /\ X[1] = Members
    BY <1>1 DEF IInv, TreeInv, Searched
  <1>7. son \in Pointers /\ red \in SUBSET Nodes /\ stack \in Seq(Places) /\ n \in Nat /\ n >= 1
        /\ elem \in Nodes /\ elem # NULL
    BY <1>1, <1>3, SearchedFacts, Types, NodeFacts DEF Cutting
  <1>8. /\ Kept' = Kept /\ path' = path /\ (Visited' <=> Visited) /\ seen' = seen /\ (Small' <=> Small)
        /\ UNCHANGED walkVars /\ elem' = elem /\ leaf' = NULL
    BY <1>1, <1>4, CallWalks
  <1>9. CASE son["left"][elem] = NULL
    <2>1. Unlink(elem, son["right"][elem]) /\ stack' = stack
      BY <1>9 DEF DeleteFound
    <2>2. "left" \in Sides /\ Other("left") = "right"
      BY DEF Sides, Other
    <2>3. /\ son' \in Pointers /\ red' \in SUBSET Nodes
          /\ stage' = "deleted" /\ Members' = Members \ {elem}
          /\ \E W : /\ Shrunk(son', red', stack', W, Y, H, short')
                    /\ \A i \in 1 .. Len(stack) : W[i] = X[i] \ {elem}
      BY <1>1, <1>6, <1>7, <1>9, <2>1, <2>2, UnlinkFacts
    <2>4. PICK W : /\ Shrunk(son', red', stack', W, Y, H, short')
                   /\ \A i \in 1 .. n : W[i] = X[i] \ {elem}
      BY <2>3
    <2>5. ASSUME NEW i \in 1 .. m - 1
          PROVE  path[i].node # elem /\ Keeps(son, son', path[i], elem)
      <3> DEFINE f == path[i]
      <3>1. PICK j \in 2 .. n : stack[j] = Place(f.node, Down(f))
        BY <1>5 DEF OnStack
      <3>2. f.pass \in {1, 2} /\ f.node # elem
        BY <1>3 DEF Cutting
      <3>3. Shrunk(son', red', stack, W, Y, H, short')
        BY <2>1, <2>4
      <3> HIDE DEF f
      <3>4. Keeps(son, son', f, elem)
        <4>1. Open(son, red, stack, X, Y, H) /\ Without(X, W, stack, elem)
          BY <1>6, <2>4 DEF Without
        <4>2. j \in 2 .. Len(stack) /\ f.pass \in {1, 2}
          BY <3>2
        <4>3. QED
          BY ONLY <4>1, <4>2, <1>7, <2>3, <3>1, <3>3, UnlinkKeeps
      <3>5. QED
        BY <3>2, <3>4 DEF f
    <2>6. Along(son', path, m - 1) /\ (Small => Covers(son', path, m - 1, Kept))
      BY <1>3, <2>5, KeptAcross
    <2>7. Members' = Kept
      BY <1>3, <1>4, <2>3 DEF Cutting
    <2>8. AllHeld'
      BY <1>5, <1>8, <2>1 DEF AllHeld, OnStack
    <2>9. CutCall'
      BY <1>3, <1>8, <2>3, <2>7, <2>8 DEF CutCall
    <2>10. ~Idle'
      BY <2>3 DEF Idle
    <2>11. QED
      BY <1>2, <1>8, <2>6, <2>9, <2>10, CallCuts
  <1>10. CASE son["left"][elem] # NULL
    <2> DEFINE x == Place(elem, "left")
    <2>1. stage' = "leaf" /\ stack' = Append(stack, x) /\ UNCHANGED <<treeVars, short>>
      BY <1>10 DEF DeleteFound, Calls
    <2>2. x \in Places
      BY <1>7 DEF Sides, Place, Places
    <2>3. Len(stack') = n + 1 /\ stack'[n + 1] = x /\ \A i \in 1 .. n : stack'[i] = stack[i]
      <3> HIDE DEF x
      <3>1. QED
        BY <1>7, <2>1, <2>2, PlaceAdded
    <2>4. son' = son /\ Members' = Members
      BY <2>1 DEF treeVars, Members, root, At
    <2>5. ~Small
      <3>1. son["left"][elem] \in NodesOf(son, elem) /\ son["left"][elem] # elem
        BY <1>5, <1>10 DEF Branch
      <3>2. QED
        BY <1>5, <3>1
    <2>6. AllAbove'
      <3>1. n + 1 \in 2 .. Len(stack') /\ (n + 1) - 1 = n
        BY <1>7, <2>3
      <3>2. ASSUME NEW i \in 1 .. m - 1
            PROVE  \E j \in 2 .. n : stack'[j] = Place(path[i].node, Down(path[i]))
        <4>1. PICK j \in 2 .. n : stack[j] = Place(path[i].node, Down(path[i]))
          BY <1>5 DEF OnStack
        <4>2. j \in 1 .. n
          BY <1>7
        <4>3. QED
          BY <2>3, <4>1, <4>2
      <3>3. QED
        BY <1>8, <2>3, <3>1, <3>2 DEF AllAbove, OnStack
    <2>7. CutCall'
      BY <1>3, <1>4, <1>8, <2>1, <2>4, <2>5, <2>6 DEF CutCall
    <2>8. ~Idle'
      BY <2>1 DEF Idle
    <2>9. QED
      BY <1>2, <1>8, <2>4, <2>7, <2>8, CallKeeps
  <1>11. QED
    BY <1>9, <1>10

\* delete_rightmost_leaf() goes down.
LEMMA LeafDownCuts ==
    ASSUME IInv, IInv', CutInv, use = "delete", LeafDown
    PROVE  CutInv'
  <1> DEFINE n == Len(stack)  x == Place(At(Calling), "right")
  <1>1. /\ stage = "leaf" /\ stack' = Append(stack, x)
        /\ UNCHANGED <<treeVars, stage, elem, leaf, short, answer, walkVars, failed>>
    BY DEF LeafDown, Calls
  <1>2. ~Idle
    BY <1>1 DEF Idle
  <1>3. CutCall /\ TypeOK
    BY <1>2, CuttingFacts
  <1>4. Members = Kept \cup {elem} /\ AllAbove /\ ~Small
    BY <1>1, <1>3 DEF CutCall
  <1>5. /\ Kept' = Kept /\ path' = path /\ (Visited' <=> Visited) /\ seen' = seen /\ (Small' <=> Small)
        /\ UNCHANGED walkVars /\ elem' = elem /\ stage' = "leaf"
    BY <1>1, CallWalks
  <1>6. son' = son /\ Members' = Members
    BY <1>1 DEF treeVars, Members, root, At
  <1>7. stack \in Seq(Places) /\ n \in Nat /\ x \in Places
    BY <1>1, <1>3, LeavingFacts DEF TypeOK, Sides, Place, Places
  <1>8. Len(stack') = n + 1 /\ \A i \in 1 .. n : stack'[i] = stack[i]
    <2> HIDE DEF x
    <2>1. QED
      BY <1>1, <1>7, PlaceAdded
  <1>9. AllAbove'
    <2>1. PICK k \in 2 .. n : /\ stack[k] = Place(elem, "left")
                              /\ \A i \in 1 .. Len(path) - 1 : OnStack(path[i], k - 1)
      BY <1>4 DEF AllAbove
    <2>2. k \in 2 .. Len(stack') /\ k \in 1 .. n /\ \A j \in 2 .. k - 1 : j \in 1 .. n
      BY <1>7, <1>8
    <2>3. stack'[k] = Place(elem', "left") /\ \A j \in 2 .. k - 1 : stack'[j] = stack[j]
      BY <1>5, <1>8, <2>1, <2>2
    <2>4. QED
      BY <1>5, <2>1, <2>2, <2>3 DEF AllAbove, OnStack
  <1>10. CutCall'
    BY <1>3, <1>4, <1>5, <1>6, <1>9 DEF CutCall
  <1>11. ~Idle'
    BY <1>5 DEF Idle
  <1>12. QED
    BY <1>2, <1>5, <1>6, <1>10, <1>11, CallKeeps

\* It takes the leaf out: the calls above the element keep all but the leaf.
LEMMA LeafUnlinkCuts ==
    ASSUME IInv, IInv', CutInv, use = "delete", LeafUnlink
    PROVE  CutInv'
  <1> DEFINE m == Len(path)  n == Len(stack)  t == At(Calling)
  <1>1. /\ stage = "leaf" /\ son["right"][t] = NULL /\ leaf' = t
        /\ Unlink(t, son["left"][t])
        /\ UNCHANGED <<elem, stack, answer, walkVars, failed>>
    BY DEF LeafUnlink
  <1>2. ~Idle
    BY <1>1 DEF Idle
  <1>3. Cutting(m) /\ CutCall /\ TypeOK
    BY <1>2, CuttingFacts
  <1>4. Members = Kept \cup {elem} /\ AllAbove /\ ~Small
    BY <1>1, <1>3 DEF CutCall
  <1>5. /\ Kept' = Kept /\ path' = path /\ (Visited' <=> Visited) /\ seen' = seen /\ (Small' <=> Small)
        /\ UNCHANGED walkVars /\ elem' = elem /\ stack' = stack
    BY <1>1, CallWalks
  <1>6. t \in Nodes /\ t # NULL
    BY <1>1, LeavingFacts, NodeFacts
  <1>7. PICK X, Y, H :
          /\ Open(son, red, stack, X, Y, H) /\ X[1] = Members
          /\ t \in X[n]
          /\ \E k \in 2 .. n : X[n] \subseteq X[k] /\ elem \notin X[k]
    BY <1>1, LeavingFacts
  <1>8. son \in Pointers /\ red \in SUBSET Nodes /\ n \in Nat
    <2>1. son \in Pointers /\ red \in SUBSET Nodes /\ stack \in Seq(Places)
      BY <1>3, Types
    <2>2. QED
      BY <2>1
  <1>9. /\ son' \in Pointers /\ red' \in SUBSET Nodes
        /\ stage' = "deleted" /\ Members' = Members \ {t}
        /\ \E W : /\ Shrunk(son', red', stack', W, Y, H, short')
                  /\ \A i \in 1 .. n : W[i] = X[i] \ {t}
    <2>1. "right" \in Sides /\ Other("right") = "left"
      BY DEF Sides, Other
    <2>2. UNCHANGED stack
      BY <1>1
    <2> HIDE DEF t
    <2>3. t = At(Calling)
      BY DEF t
    <2>4. QED
      BY <1>1, <1>6, <1>7, <2>1, <2>2, <2>3, UnlinkFacts
  <1>10. PICK W : /\ Shrunk(son', red', stack, W, Y, H, short')
                  /\ \A i \in 1 .. n : W[i] = X[i] \ {t}
    BY <1>5, <1>9
  <1> HIDE DEF t
  <1>11. t \in Kept /\ t # elem
    <2>1. t # elem
      BY <1>7
    <2>2. Context(son, red, stack, X, Y, H)
      BY <1>7 DEF Open
    <2>3. X[n] \subseteq Members
      BY <1>7, <2>2, CallFacts
    <2>4. QED
      BY <1>4, <1>7, <2>1, <2>3
  <1>12. PICK k \in 2 .. n : /\ stack[k] = Place(elem, "left")
                             /\ \A i \in 1 .. m - 1 : OnStack(path[i], k - 1)
    BY <1>4 DEF AllAbove
  <1>13. ASSUME NEW i \in 1 .. m - 1
         PROVE  path[i].node # t /\ Keeps(son, son', path[i], t)
    <2> DEFINE f == path[i]
    <2>1. PICK j \in 2 .. k - 1 : stack[j] = Place(f.node, Down(f))
      BY <1>12 DEF OnStack
    <2>2. f.pass \in {1, 2}
      BY <1>3 DEF Cutting
    <2>3. j \in 2 .. n /\ j \in 1 .. n /\ n \in 1 .. n /\ j <= n
      BY <1>8
    <2> HIDE DEF f
    <2>4. Keeps(son, son', f, t) /\ f.node \notin X[j]
      <3>1. Open(son, red, stack, X, Y, H) /\ Without(X, W, stack, t)
        BY <1>7, <1>10 DEF Without
      <3>2. j \in 2 .. Len(stack)
        BY <2>3
      <3>3. Shrunk(son', red', stack, W, Y, H, short')
        BY <1>10
      <3>4. QED
        BY ONLY <3>1, <3>2, <3>3, <1>8, <1>9, <2>1, <2>2, UnlinkKeeps
    <2>5. X[n] \subseteq X[j]
      BY <1>7, <2>3 DEF Open, Context
    <2>6. QED
      BY <1>7, <2>4, <2>5 DEF f
  <1>14. Along(son', path, m - 1) /\ (Small => Covers(son', path, m - 1, Kept))
    BY <1>3, <1>13, KeptAcross
  <1>15. leaf' = t /\ leaf' # NULL /\ Members' = (Kept' \cup {elem'}) \ {leaf'} /\ leaf' \in Kept'
    BY <1>1, <1>4, <1>5, <1>6, <1>9, <1>11 DEF t
  <1>16. AllAbove'
    BY <1>4, <1>5 DEF AllAbove, OnStack
  <1>17. CutCall'
    BY <1>3, <1>4, <1>5, <1>9, <1>15, <1>16 DEF CutCall
  <1>18. ~Idle'
    BY <1>9 DEF Idle
  <1>19. QED
    BY <1>2, <1>5, <1>14, <1>17, <1>18, CallCuts

\* The leaf takes the place of the element.
LEMMA LeafReturnCuts ==
    ASSUME IInv, IInv', CutInv, use = "delete", LeafReturn
    PROVE  CutInv'
  <1> DEFINE m == Len(path)  n == Len(stack)
  <1>1. /\ stage = "deleted" /\ leaf # NULL /\ leaf' = NULL
        /\ stack' = Append(Front(stack), Place(leaf, "left"))
        /\ UNCHANGED <<stage, elem, short, answer, walkVars, failed>>
    BY DEF LeafReturn
  <1>2. ~Idle
    BY <1>1 DEF Idle
  <1>3. Cutting(m) /\ CutCall /\ TypeOK
    BY <1>2, CuttingFacts
  <1>4. Members = (Kept \cup {elem}) \ {leaf} /\ leaf \in Kept /\ AllAbove /\ ~Small
    BY <1>1, <1>3 DEF CutCall
  <1>5. /\ Kept' = Kept /\ path' = path /\ (Visited' <=> Visited) /\ seen' = seen /\ (Small' <=> Small)
        /\ UNCHANGED walkVars /\ elem' = elem
    BY <1>1, CallWalks
  <1>6. /\ son' \in Pointers /\ red' \in SUBSET Nodes
        /\ Members' = (Members \ {elem}) \cup {leaf} /\ leaf \in Nodes
    BY LeafReturnFacts
  <1>7. PICK X, Y, H, W :
          /\ Shrunk(son, red, stack, X, Y, H, short)
          /\ Shrunk(son', red', stack', W, Y, H, short)
          /\ \A i \in 1 .. n - 1 : W[i] = (X[i] \ {elem}) \cup {leaf}
    BY LeafReturnFacts
  <1>8. son \in Pointers /\ red \in SUBSET Nodes /\ n \in Nat /\ stack \in Seq(Places)
    <2>1. son \in Pointers /\ red \in SUBSET Nodes /\ stack \in Seq(Places)
      BY <1>3, Types
    <2>2. QED
      BY <2>1
  <1>9. PICK k \in 2 .. n : /\ stack[k] = Place(elem, "left")
                            /\ \A i \in 1 .. m - 1 : OnStack(path[i], k - 1)
    BY <1>4 DEF AllAbove
  <1>10. Len(stack') = n /\ \A i \in 1 .. n - 1 : stack'[i] = stack[i]
    <2> DEFINE x == Place(leaf, "left")  st == Front(stack)
    <2>1. n >= 1
      BY <1>8, <1>9
    <2>2. st \in Seq(Places) /\ Len(st) = n - 1 /\ \A i \in 1 .. n - 1 : st[i] = stack[i]
      BY <1>8, <2>1, PlaceFacts
    <2>3. x \in Places /\ n - 1 \in Nat
      BY <1>6, <1>8, <2>1 DEF Place, Places, Sides
    <2> HIDE DEF x, st, n
    <2>4. stack' = Append(st, x)
      BY <1>1 DEF x, st
    <2>5. Len(stack') = (n - 1) + 1 /\ \A i \in 1 .. n - 1 : stack'[i] = st[i]
      BY <2>2, <2>3, <2>4, PlaceAdded
    <2>6. QED
      BY <1>8, <2>2, <2>5
  <1>11. \A i \in 1 .. m - 1 : \E j \in 2 .. n : /\ j \in 1 .. n - 1 /\ stack[j] = Place(path[i].node, Down(path[i]))
                                                 /\ stack'[j] = stack[j]
    <2> TAKE i \in 1 .. m - 1
    <2>1. PICK j \in 2 .. k - 1 : stack[j] = Place(path[i].node, Down(path[i]))
      BY <1>9 DEF OnStack
    <2>2. j \in 2 .. n /\ j \in 1 .. n - 1
      BY <1>8
    <2>3. QED
      BY <1>10, <2>1, <2>2
  <1>12. ASSUME NEW i \in 1 .. m - 1
         PROVE  path[i].node # elem /\ Keeps(son, son', path[i], elem)
    <2> DEFINE f == path[i]
    <2>1. PICK j \in 2 .. n : /\ j \in 1 .. n - 1 /\ stack[j] = Place(f.node, Down(f))
                              /\ stack'[j] = Place(f.node, Down(f))
      BY <1>11
    <2>2. f.pass \in {1, 2} /\ f.node # elem
      BY <1>3 DEF Cutting
    <2> HIDE DEF f
    <2>3. AtCall(son, red, stack, X, Y, H, f, j)
      BY <1>7, <2>1 DEF AtCall
    <2>4. AtCall(son', red', stack', W, Y, H, f, j)
      BY <1>7, <1>10, <2>1 DEF AtCall
    <2>5. X[j] \ {elem} \subseteq W[j]
      BY <1>7, <2>1
    <2>6. Keeps(son, son', f, elem)
      BY ONLY <1>6, <1>8, <2>2, <2>3, <2>4, <2>5, KeepsAtCall
    <2>7. QED
      BY <2>2, <2>6 DEF f
  <1>13. Along(son', path, m - 1) /\ (Small => Covers(son', path, m - 1, Kept))
    BY <1>3, <1>12, KeptAcross
  <1>14. Members' = Kept'
    BY <1>3, <1>4, <1>5, <1>6 DEF Cutting
  <1>15. AllHeld'
    BY <1>5, <1>10, <1>11 DEF AllHeld, OnStack
  <1>16. CutCall'
    BY <1>1, <1>3, <1>4, <1>5, <1>14, <1>15 DEF CutCall
  <1>17. ~Idle'
    BY <1>1 DEF Idle
  <1>18. QED
    BY <1>2, <1>5, <1>13, <1>16, <1>17, CallCuts

-----------------------------------------------------------------------------
(* A call of the deletion returns.                                         *)

\* The brother b of the short side and what is below it belong to its own side.
Brothers(Z, A, C, p, l, u, b, c, d) ==
    /\ u \in Places /\ u.node \notin Z /\ Z \in SUBSET Nodes
    /\ l \in Sides /\ p \in Nodes /\ p \in Z /\ p \notin A /\ p \notin C /\ A \subseteq Z /\ C \subseteq Z
    /\ A \cap C = {}
    /\ b \in Nodes /\ b \in A
    /\ c \in A \cup {NULL} /\ c # b
    /\ c # NULL => c \in Nodes /\ d \in A \cup {NULL} /\ d # b /\ d # c

\* Those are the nodes that FIX_DELETION_DISCREPANCY looks at.
LEMMA BrothersBelow ==
    ASSUME NEW so \in Pointers, NEW R, NEW X, NEW Y, NEW H, NEW n, NEW p, NEW l, NEW u, NEW k,
           Shortened(so, R, X, Y, H, n, p, l, u, k),
           NEW b, b = so[l][p], NEW c, c = so[Other(l)][b], NEW d, d = so[Other(l)][c]
    PROVE  Brothers(X[n - 1], Y[n], X[n], p, l, u, b, c, d)
  <1> DEFINE Z == X[n - 1]
  <1>1. /\ u \in Places /\ u.node \notin Z /\ Z \in SUBSET Nodes
        /\ l \in Sides /\ Other(l) \in Sides /\ p \in Nodes /\ b # NULL
        /\ Joins(l, p, Y[n], X[n], Z)
        /\ Tree(so, R, b, Y[n], k + 1)
    BY SideFacts DEF Shortened
  <1>2. /\ Family(so, p, b, c, Y[n], Z)
        /\ c # NULL => \A s \in Sides : so[s][c] \in (Y[n] \ {b, c}) \cup {NULL}
    <2>1. so \in Pointers /\ c = so[Other(l)][b]
      BY <1>1
    <2> HIDE DEF Z
    <2>2. QED
      BY ONLY <1>1, <2>1, FamilyFacts
  <1>3. /\ p \in Z /\ p \notin Y[n] /\ p \notin X[n] /\ Y[n] \subseteq Z /\ X[n] \subseteq Z
        /\ Y[n] \cap X[n] = {}
    BY <1>1, JoinsFacts
  <1>4. b # NULL /\ NULL \notin Nodes
    BY <1>1, NodeFacts
  <1>5. c # NULL => d \in Y[n] \cup {NULL} /\ d # b /\ d # c
    <2>1. ASSUME c # NULL PROVE d \in (Y[n] \ {b, c}) \cup {NULL}
      BY <1>1, <1>2, <2>1
    <2>2. b # NULL
      BY <1>4
    <2>3. QED
      BY <2>1, <2>2
  <1> HIDE DEF Z
  <1>6. QED
    BY <1>1, <1>2, <1>3, <1>5 DEF Brothers, Family, Z

\* FIX_DELETION_DISCREPANCY recolours, rotates or rotates twice.
LEMMA FixTurns ==
    ASSUME NULL \notin red, NEW p, NEW l, NEW u, u = Last(Front(stack)), FixDeletion(p, l),
           NEW b, b = son[l][p], NEW c, c = son[Other(l)][b], NEW d, d = son[Other(l)][c]
    PROVE  \/ son' = son
           \/ son' = Put(Rotate(p, l), u, b)
           \/ c # NULL /\ son' = Put(Lift(p, b, l), u, c)
           \/ c # NULL /\ d # NULL /\ son' = Put(Lift(p, c, l), u, d)
  <1>1. CASE b = NULL
    BY <1>1 DEF FixDeletion
  <1>2. CASE b # NULL /\ IsRed(b)
    <2>1. FixBelowRed(p, l)
      BY <1>2 DEF FixDeletion
    <2>2. \/ Becomes(Rotate(p, l), b)
          \/ c # NULL /\ IsRed(d) /\ Becomes(Lift(p, c, l), d)
          \/ c # NULL /\ Becomes(Lift(p, b, l), c)
      BY <2>1 DEF FixBelowRed
    <2>3. QED
      BY <2>2 DEF Becomes, IsRed
  <1>3. CASE b # NULL /\ ~IsRed(b)
    <2>1. FixBelowBlack(p, l)
      BY <1>3 DEF FixDeletion
    <2>2. \/ son' = son
          \/ Becomes(Rotate(p, l), b)
          \/ IsRed(c) /\ Becomes(Lift(p, b, l), c)
      BY <2>1 DEF FixBelowBlack
    <2>3. QED
      BY <2>2 DEF Becomes, IsRed
  <1>4. QED
    BY <1>1, <1>2, <1>3

\* The links on the short side are spared.
Spared(so, to, p, l, C) ==
    /\ to[Other(l)][p] = so[Other(l)][p]
    /\ \A x \in C, q \in Sides : to[q][x] = so[q][x]

\* FIX_DELETION_DISCREPANCY leaves the short side where it is.
LEMMA FixSpares ==
    ASSUME son \in Pointers, red \in SUBSET Nodes, NEW Z, NEW A, NEW C, NEW p, NEW l, NEW u,
           u = Last(Front(stack)), FixDeletion(p, l),
           NEW b, b = son[l][p], NEW c, c = son[Other(l)][b], NEW d, d = son[Other(l)][c],
           Brothers(Z, A, C, p, l, u, b, c, d)
    PROVE  Spared(son, son', p, l, C)
  <1> DEFINE to == son'  r == Other(l)
  <1>1. /\ u \in Places /\ u.node \notin Z /\ Z \in SUBSET Nodes
        /\ l \in Sides /\ r \in Sides /\ r # l /\ p \in Nodes /\ p \in Z /\ p # b
        /\ b \in Nodes /\ b \in Z
        /\ c # NULL => c \in Nodes /\ c \in Z /\ c # p /\ c # b
        /\ c # NULL /\ d # NULL => d \in Z /\ d # p /\ d # c
    BY SideFacts DEF Brothers
  <1>2. /\ \A x \in C : x \in Z /\ x # p /\ x # b /\ (c # NULL => x # c) /\ (c # NULL /\ d # NULL => x # d)
    BY DEF Brothers
  <1>3. NULL \notin red /\ Repaints(red, red, Z)
    BY NodeFacts DEF Repaints
  <1> HIDE DEF to, r
  <1>4. ASSUME to = Put(Rotate(p, l), u, b) PROVE Spared(son, to, p, l, C)
    <2>1. IsRotated(son, to, p, l, Z)
      BY <1>1, <1>3, <1>4, RotateIs
    <2>2. \A q \in Sides, x \in Z : (q = l /\ x = p) \/ (q = r /\ x = b) \/ to[q][x] = son[q][x]
      BY <2>1 DEF IsRotated, r
    <2>3. to[r][p] = son[r][p]
      BY <1>1, <2>2
    <2>4. QED
      BY <1>2, <2>2, <2>3 DEF Spared, r
  <1>5. ASSUME NEW y \in Nodes, y \in Z, y # p, \A x \in C : x # y,
               NEW z, z = son[Other(l)][y], z # NULL, z \in Z, z # p, z # y, \A x \in C : x # z,
               to = Put(Lift(p, y, l), u, z)
        PROVE  Spared(son, to, p, l, C)
    <2>1. IsLifted(son, to, p, y, l, Z)
      <3>1. son[l][p] \in Nodes
        BY <1>1
      <3>2. z \in Nodes
        BY <1>1, <1>5
      <3>3. QED
        BY <1>1, <1>3, <1>5, <3>1, <3>2, LiftIs
    <2>2. \A q \in Sides, x \in Z : (q = r /\ x = y) \/ (q = l /\ x = p) \/ x = z \/ to[q][x] = son[q][x]
      BY <1>5, <2>1 DEF IsLifted, r
    <2>3. to[r][p] = son[r][p]
      BY <1>1, <1>5, <2>2
    <2>4. QED
      BY <1>2, <1>5, <2>2, <2>3 DEF Spared, r
  <1>6. CASE to = son
    BY <1>6 DEF Spared, to
  <1>7. CASE c # NULL /\ to = Put(Lift(p, b, l), u, c)
    BY <1>1, <1>2, <1>5, <1>7 DEF to
  <1>8. CASE c # NULL /\ d # NULL /\ to = Put(Lift(p, c, l), u, d)
    BY <1>1, <1>2, <1>5, <1>8 DEF to
  <1>9. QED
    BY <1>3, <1>4, <1>6, <1>7, <1>8, FixTurns DEF to

\* The links of the nodes C are as they were, and so is what is below them.
SameLinks(so, to, C) == \A x \in C, q \in Sides : to[q][x] = so[q][x]
SameBelow(so, to, s, C) ==
    /\ NodesOf(to, s) = C /\ NodesOf(so, s) = C
    /\ \A x \in C : /\ NodesOf(to, x) = NodesOf(so, x)
                    /\ \A q \in Sides : NodesOf(to, to[q][x]) = NodesOf(so, so[q][x])

\* What is below such nodes stays below them.
LEMMA SparedNodes ==
    ASSUME NEW so \in Pointers, NEW to \in Pointers, NEW R \in SUBSET Nodes,
           NEW s, NEW C, NEW h, Tree(so, R, s, C, h), SameLinks(so, to, C)
    PROVE  SameBelow(so, to, s, C)
  <1> USE DEF SameLinks
  <1>1. NULL \notin R
    BY NodeFacts
  <1>2. NodesOf(so, s) = C
    BY NodesOfTree
  <1>3. Tree(to, R, s, C, h)
    BY <1>1, Untouched
  <1>4. NodesOf(to, s) = C
    BY <1>3, NodesOfTree
  <1>5. ASSUME NEW x \in C PROVE NodesOf(to, x) = NodesOf(so, x)
    <2>1. PICK V, k : Tree(so, R, x, V, k) /\ V \subseteq C
      BY SubTrees
    <2>2. Tree(to, R, x, V, k)
      BY <1>1, <2>1, Untouched
    <2>3. QED
      BY <2>1, <2>2, NodesOfTree
  <1>6. Branches(so, C) /\ NodesOf(to, NULL) = {}
    BY TreeBranches, NodesOfIs
  <1>7. ASSUME NEW x \in C, NEW q \in Sides PROVE NodesOf(to, to[q][x]) = NodesOf(so, so[q][x])
    <2>1. Branch(so, x, q) /\ NodesOf(so, x) \subseteq C
      BY <1>6 DEF Branches
    <2>2. so[q][x] # NULL => so[q][x] \in C
      BY <2>1 DEF Branch
    <2>3. to[q][x] = so[q][x]
      OBVIOUS
    <2>4. QED
      BY <1>5, <1>6, <2>2, <2>3 DEF Branches
  <1>8. QED
    BY <1>2, <1>4, <1>5, <1>7 DEF SameBelow

\* Of at most three members the deletion of one leaves two, which are never
\* turned.
LEMMA SmallStays ==
    ASSUME IInv, CutInv, use = "delete", Small, DeleteReturn
    PROVE  son' = son
  <1> DEFINE n == Len(stack)  p == stack[n].node  l == Other(stack[n].side)
             u == stack[n - 1]  b == son[l][p]
  <1>1. stage = "deleted" /\ Calling # Top
    BY DEF DeleteReturn
  <1>2. ~Idle
    BY <1>1 DEF Idle
  <1>3. Cutting(Len(path)) /\ CutCall /\ TypeOK
    BY <1>2, CuttingFacts
  <1>4. Members = Kept /\ elem \in start /\ elem \notin Members /\ Members \subseteq start /\ IsFiniteSet(start)
    <2>1. IsFiniteSet(start)
      BY CutFacts
    <2>2. QED
      BY <1>1, <1>3, <2>1 DEF CutCall, Cutting
  <1>5. PICK X, Y, H :
          /\ Shrunk(son, red, stack, X, Y, H, short) /\ X[1] = Members
          /\ Context(son, red, stack, X, Y, H)
    BY <1>1, LeftFacts
  <1>6. /\ son \in Pointers /\ red \in SUBSET Nodes /\ n \in Nat /\ Calling = stack[n] /\ n # 1
    <2>1. son \in Pointers /\ red \in SUBSET Nodes /\ n \in Nat
      <3>1. son \in Pointers /\ red \in SUBSET Nodes /\ stack \in Seq(Places)
        BY <1>3, Types
      <3>2. QED
        BY <3>1
    <2>2. QED
      BY <1>1, <1>5, <2>1, CallingIsLast
  <1>7. CASE ~short
    BY <1>7 DEF DeleteReturn, treeVars
  <1>8. CASE short
    <2> DEFINE k == H[n] - 1
    <2>1. FixDeletion(p, l)
      BY <1>6, <1>8 DEF DeleteReturn
    <2>2. Shortened(son, red, X, Y, H, n, p, l, u, k)
      <3>1. short = TRUE
        BY <1>3, <1>8 DEF TypeOK
      <3> HIDE DEF n
      <3>2. QED
        BY <1>5, <1>6, <3>1, ShortBelow DEF n
    <2> HIDE DEF n, p, l, u, b, k
    <2>3. /\ b # NULL /\ b = son[l][p] /\ Tree(son, red, b, Y[n], k + 1) /\ k \in Nat
          /\ Joins(l, p, Y[n], X[n], X[n - 1]) /\ l \in Sides
      BY <2>2 DEF Shortened, b
    <2>4. p \in X[n - 1] /\ p \notin Y[n] /\ Y[n] \subseteq X[n - 1] /\ b \in Y[n] /\ b # p
      BY <2>3, JoinsFacts, TreeFacts
    <2>5. X[n - 1] \subseteq Members
      <3>1. n - 1 \in 1 .. Len(stack) /\ 1 \in 1 .. Len(stack) /\ 1 <= n - 1
        <4>1. n = Len(stack) /\ Len(stack) >= 1 /\ n # 1 /\ n \in Nat
          BY <1>5, <1>6 DEF n, Context
        <4>2. QED
          BY <4>1
      <3>2. QED
        BY <1>5, <3>1 DEF Context
    <2>6. ASSUME NEW q \in Sides PROVE son[q][b] = NULL /\ b \notin red
      <3>1. PICK V \in SUBSET Nodes, j \in Nat :
              /\ V \subseteq Y[n] /\ b \notin V
              /\ Tree(son, red, son[q][b], V, j) /\ k + 1 = j + Weight(red, b)
        BY <1>6, <2>3, SonOf
      <3>2. son[q][b] = NULL
        <4> SUFFICES ASSUME son[q][b] # NULL PROVE FALSE
          OBVIOUS
        <4> DEFINE e == son[q][b]
        <4>1. e \in V
          BY <3>1, TreeFacts
        <4>2. /\ e \in start /\ b \in start /\ p \in start
              /\ e # b /\ e # p /\ b # p /\ elem # e /\ elem # b /\ elem # p
          BY <1>4, <2>4, <2>5, <3>1, <4>1
        <4> HIDE DEF e
        <4>3. ~(Cardinality(start) <= IteratorSafe)
          BY <1>4, <4>2, FourAreMore
        <4>4. QED
          BY <4>3 DEF Small
      <3>3. j = 0
        BY <3>1, <3>2, TreeFacts
      <3>4. QED
        BY <2>3, <3>1, <3>2, <3>3 DEF Weight
    <2>7. Other(l) \in Sides /\ NULL \notin red
      BY <1>6, <2>3, SideFacts, NodeFacts
    <2>8. /\ b # NULL /\ b \notin red /\ son[l][b] \notin red /\ son[Other(l)][b] \notin red
      BY <2>3, <2>6, <2>7
    <2>9. FixBelowBlack(p, l)
      BY <2>1, <2>3, <2>8 DEF FixDeletion, IsRed
    <2>10. QED
      BY <2>3, <2>8, <2>9 DEF FixBelowBlack, IsRed
  <1>9. QED
    BY <1>7, <1>8

\* A call returns: what was ahead of its node stays on its side, and so does
\* what is in its tree.
LEMMA ReturnSpares ==
    ASSUME IInv, DeleteReturn, NEW X, NEW Y, NEW H, Shrunk(son, red, stack, X, Y, H, short),
           NEW n, n = Len(stack)
    PROVE  Spared(son, son', stack[n].node, Other(stack[n].side), X[n])
  <1> DEFINE p == stack[n].node  l == Other(stack[n].side)  u == stack[n - 1]
  <1>1. TypeOK /\ Calling # Top /\ Context(son, red, stack, X, Y, H)
    BY DEF IInv, DeleteReturn, Shrunk
  <1>2. /\ son \in Pointers /\ red \in SUBSET Nodes /\ n \in Nat /\ Calling = stack[n] /\ n # 1
        /\ u = Last(Front(stack))
    <2>1. son \in Pointers /\ red \in SUBSET Nodes /\ n \in Nat
      <3>1. son \in Pointers /\ red \in SUBSET Nodes /\ stack \in Seq(Places)
        BY <1>1, Types
      <3>2. QED
        BY <3>1
    <2>2. QED
      BY <1>1, <2>1, CallingIsLast
  <1>3. CASE ~short
    <2>1. son' = son
      BY <1>3 DEF DeleteReturn, treeVars
    <2>2. QED
      BY <2>1 DEF Spared
  <1>4. CASE short
    <2> DEFINE k == H[n] - 1  b == son[l][p]  c == son[Other(l)][b]  d == son[Other(l)][c]
    <2>1. FixDeletion(p, l)
      BY <1>2, <1>4 DEF DeleteReturn
    <2>2. Shrunk(son, red, stack, X, Y, H, TRUE)
      BY <1>1, <1>4 DEF TypeOK
    <2> HIDE DEF p, l, u, b, c, d, k
    <2>3. Shortened(son, red, X, Y, H, n, p, l, u, k)
      BY <1>2, <2>2, ShortBelow DEF p, l, u, k
    <2>4. b = son[l][p] /\ c = son[Other(l)][b] /\ d = son[Other(l)][c]
      BY DEF b, c, d
    <2>5. Brothers(X[n - 1], Y[n], X[n], p, l, u, b, c, d)
      BY <1>2, <2>3, <2>4, BrothersBelow
    <2>6. Spared(son, son', p, l, X[n])
      BY <1>2, <2>1, <2>4, <2>5, FixSpares
    <2>7. QED
      BY <2>6 DEF p, l
  <1>5. QED
    BY <1>3, <1>4

\* What a frame has ahead after a call has returned.
LEMMA ReturnKeeps ==
    ASSUME IInv, DeleteReturn, NEW X, NEW Y, NEW H, Shrunk(son, red, stack, X, Y, H, short),
           son' \in Pointers, red' \in SUBSET Nodes, Shrunk(son', red', stack', X, Y, H, short'),
           NEW n, n = Len(stack), Small => son' = son, NEW t,
           NEW f, f.pass \in {1, 2}, OnStack(f, n) \/ f.node \in X[n]
    PROVE  /\ Keeps(son, son', f, t)
           /\ \/ \E j \in 2 .. n - 1 : stack'[j] = Place(f.node, Down(f))
              \/ f.node \in X[n - 1]
  <1>1. /\ TypeOK /\ Calling # Top /\ Context(son, red, stack, X, Y, H) /\ stack' = Front(stack)
        /\ Tree(son, red, To(son, stack[n]), X[n], H[n] - IF short THEN 1 ELSE 0)
    BY DEF IInv, DeleteReturn, Shrunk, Returns
  <1>2. /\ son \in Pointers /\ red \in SUBSET Nodes /\ n \in Nat /\ Calling = stack[n] /\ n # 1 /\ n >= 1
        /\ stack \in Seq(Places)
    <2>1. son \in Pointers /\ red \in SUBSET Nodes /\ n \in Nat /\ stack \in Seq(Places)
      <3>1. son \in Pointers /\ red \in SUBSET Nodes /\ stack \in Seq(Places)
        BY <1>1, Types
      <3>2. QED
        BY <3>1
    <2>2. QED
      BY <1>1, <2>1, CallingIsLast
  <1>3. Len(stack') = n - 1 /\ \A i \in 1 .. n - 1 : stack'[i] = stack[i]
    BY <1>1, <1>2, PlaceFacts
  <1>4. n \in 1 .. n /\ n \in 2 .. n /\ n - 1 \in 1 .. n
    BY <1>2
  <1> DEFINE p == stack[n].node  a == stack[n].side
  <1>5. /\ CallAt(son, red, stack, X, Y, H, n) /\ a \in Sides /\ p = To(son, stack[n - 1])
        /\ Joins(a, p, X[n], Y[n], X[n - 1])
    <2>1. CallAt(son, red, stack, X, Y, H, n)
      BY <1>1, <1>4 DEF Context
    <2>2. a \in Sides
      BY <1>2, <1>4, PlaceFacts
    <2>3. QED
      BY <2>1, <2>2 DEF CallAt
  <1>6. p \in X[n - 1] /\ X[n] \subseteq X[n - 1]
    BY <1>5, JoinsFacts
  <1>7. Spared(son, son', p, Other(a), X[n])
    BY ReturnSpares
  <1>8. /\ son'[a][p] = son[a][p] /\ \A x \in X[n], q \in Sides : son'[q][x] = son[q][x]
    BY <1>5, <1>7, SideFacts DEF Spared
  <1> DEFINE s == son[a][p]
  <1>9. s = To(son, stack[n])
    BY DEF To
  <1> HIDE DEF s, p, a
  <1>10. /\ NodesOf(son', s) = X[n] /\ NodesOf(son, s) = X[n]
         /\ \A x \in X[n] : \A q \in Sides : NodesOf(son', son'[q][x]) = NodesOf(son, son[q][x])
    <2> DEFINE h == H[n] - IF short THEN 1 ELSE 0
    <2>1. Tree(son, red, s, X[n], h)
      BY <1>1, <1>9
    <2> HIDE DEF h
    <2>2. SameLinks(son, son', X[n])
      BY <1>8 DEF SameLinks
    <2>3. SameBelow(son, son', s, X[n])
      BY ONLY <1>2, <2>1, <2>2, son' \in Pointers, SparedNodes
    <2>4. QED
      BY <2>3 DEF SameBelow
  <1>11. CASE \E j \in 2 .. n - 1 : stack[j] = Place(f.node, Down(f))
    <2>1. PICK j \in 2 .. n - 1 : stack[j] = Place(f.node, Down(f))
      BY <1>11
    <2>2. j \in 2 .. n /\ j \in 1 .. n - 1
      BY <1>2
    <2>3. AtCall(son, red, stack, X, Y, H, f, j)
      BY <2>1, <2>2 DEF AtCall
    <2>4. stack'[j] = Place(f.node, Down(f))
      BY <1>3, <2>1, <2>2
    <2>5. AtCall(son', red', stack', X, Y, H, f, j)
      BY <1>3, <2>4 DEF AtCall
    <2>6. X[j] \ {t} \subseteq X[j]
      OBVIOUS
    <2>7. Keeps(son, son', f, t)
      BY ONLY <1>2, <2>3, <2>5, <2>6, son' \in Pointers, red' \in SUBSET Nodes, f.pass \in {1, 2}, KeepsAtCall
    <2>8. QED
      BY <2>4, <2>7
  <1>12. CASE stack[n] = Place(f.node, Down(f))
    <2>1. p = f.node /\ a = Down(f)
      BY <1>12 DEF Place, p, a
    <2>2. Ahead(son, f) = X[n] /\ Ahead(son', f) = X[n]
      BY <1>8, <1>10, <2>1 DEF Ahead, s
    <2>3. Small => Coming(son, f) = Coming(son', f)
      OBVIOUS
    <2>4. QED
      BY <1>6, <2>1, <2>2, <2>3 DEF Keeps
  <1>13. CASE f.node \in X[n]
    <2>1. Ahead(son', f) = Ahead(son, f)
      BY <1>10, <1>13, DownFacts DEF Ahead
    <2>2. Small => Coming(son, f) = Coming(son', f)
      OBVIOUS
    <2>3. QED
      BY <1>6, <1>13, <2>1, <2>2 DEF Keeps
  <1>14. OnStack(f, n) => \/ \E j \in 2 .. n - 1 : stack[j] = Place(f.node, Down(f))
                          \/ stack[n] = Place(f.node, Down(f))
    <2>1. \A j \in 2 .. n : j \in 2 .. n - 1 \/ j = n
      BY <1>2
    <2>2. QED
      BY <2>1 DEF OnStack
  <1>15. QED
    BY <1>11, <1>12, <1>13, <1>14

\* A call returns, and repairs what the inner call has left short.
LEMMA DeleteReturnCuts ==
    ASSUME IInv, IInv', CutInv, use = "delete", DeleteReturn
    PROVE  CutInv'
  <1> DEFINE m == Len(path)  n == Len(stack)
  <1>1. /\ stage = "deleted" /\ Calling # Top
        /\ leaf # NULL => Calling.node # elem
        /\ stack' = Front(stack)
        /\ UNCHANGED <<stage, elem, leaf, answer, walkVars>>
    BY DEF DeleteReturn, Returns
  <1>2. ~Idle
    BY <1>1 DEF Idle
  <1>3. Cutting(m) /\ CutCall /\ TypeOK
    BY <1>2, CuttingFacts
  <1>4. PICK X, Y, H :
          /\ Shrunk(son, red, stack, X, Y, H, short) /\ X[1] = Members
          /\ Context(son, red, stack, X, Y, H)
    BY <1>1, LeftFacts
  <1>5. /\ stack \in Seq(Places) /\ n \in Nat /\ n >= 1 /\ Calling = stack[n]
        /\ son \in Pointers /\ red \in SUBSET Nodes /\ At(Calling) = To(son, stack[n])
    BY <1>4, CallFacts
  <1>6. n # 1 /\ n - 1 \in 1 .. n /\ n - 1 >= 1
    BY <1>1, <1>4, <1>5, CallingIsLast
  <1>7. {short, failed} \subseteq BOOLEAN
    BY <1>3, Types
  <1>8. /\ son' \in Pointers /\ red' \in SUBSET Nodes
        /\ Shrunk(son', red', stack', X, Y, H, short')
    BY <1>4, <1>5, <1>7, DeleteReturns
  <1>9. Len(stack') = n - 1 /\ \A i \in 1 .. n - 1 : stack'[i] = stack[i]
    BY <1>1, <1>5, PlaceFacts
  <1>10. Members' = Members
    <2> DEFINE to == son'  Q == red'  ts == stack'  less == short'
    <2>1. to \in Pointers /\ Q \in SUBSET Nodes /\ Shrunk(to, Q, ts, X, Y, H, less)
      BY <1>8
    <2> HIDE DEF to, Q, ts, less
    <2>2. NodesOf(to, To(to, Top)) = X[1]
      BY <2>1, WholeTree
    <2>3. QED
      BY <1>4, <2>2, MembersAre DEF to
  <1>11. NodesOf(son, At(Calling)) = X[n] /\ NodesOf(son', At(Calling)') = X[n - 1]
    <2>1. n \in 1 .. n /\ n - 1 \in 1 .. Len(stack')
      BY <1>5, <1>6, <1>9
    <2>2. NodesOf(son, To(son, stack[n])) = X[n]
      BY <1>4, <1>5, <2>1, ShrunkTrees
    <2>3. NodesOf(son', To(son', stack'[n - 1])) = X[n - 1]
      <3> DEFINE to == son'  Q == red'  ts == stack'  less == short'
      <3>1. to \in Pointers /\ Q \in SUBSET Nodes /\ Shrunk(to, Q, ts, X, Y, H, less)
        BY <1>8
      <3>2. n - 1 \in 1 .. Len(ts)
        BY <2>1
      <3> HIDE DEF to, Q, ts, less
      <3>3. NodesOf(to, To(to, ts[n - 1])) = X[n - 1]
        BY <3>1, <3>2, ShrunkTrees
      <3>4. QED
        BY <3>3 DEF to, ts
    <2>4. At(Calling)' = To(son', stack'[n - 1])
      BY <1>9 DEF At, Calling, Last, To
    <2>5. QED
      BY <1>5, <2>2, <2>3, <2>4
  <1>12. /\ Kept' = Kept /\ path' = path /\ (Visited' <=> Visited) /\ seen' = seen /\ (Small' <=> Small)
         /\ UNCHANGED walkVars /\ elem' = elem /\ stage' = "deleted" /\ leaf' = leaf
    BY <1>1, CallWalks
  <1>13. \A i \in 1 .. m - 1 : OnStack(path[i], n) \/ path[i].node \in X[n]
    <2>1. CASE leaf = NULL
      BY <1>1, <1>3, <1>11, <2>1 DEF CutCall, AllHeld
    <2>2. CASE leaf # NULL
      <3>1. PICK k \in 2 .. n : \A i \in 1 .. m - 1 : OnStack(path[i], k - 1)
        BY <1>1, <1>3, <2>2 DEF CutCall, AllAbove
      <3>2. \A j \in 2 .. k - 1 : j \in 2 .. n
        BY <1>5
      <3>3. QED
        BY <3>1, <3>2 DEF OnStack
    <2>3. QED
      BY <2>1, <2>2
  <1>14. ASSUME NEW i \in 1 .. m - 1
         PROVE  /\ path[i].node # elem /\ Keeps(son, son', path[i], elem)
                /\ \/ \E j \in 2 .. n - 1 : stack'[j] = Place(path[i].node, Down(path[i]))
                   \/ path[i].node \in X[n - 1]
    <2> DEFINE f == path[i]
    <2>1. f.pass \in {1, 2} /\ f.node # elem
      BY <1>3 DEF Cutting
    <2>2. OnStack(f, n) \/ f.node \in X[n]
      BY <1>13
    <2>3. Small => son' = son
      BY SmallStays
    <2> HIDE DEF f
    <2>4. /\ Keeps(son, son', f, elem)
          /\ \/ \E j \in 2 .. n - 1 : stack'[j] = Place(f.node, Down(f))
             \/ f.node \in X[n - 1]
      BY <1>4, <1>8, <2>1, <2>2, <2>3, ReturnKeeps
    <2>5. QED
      BY <2>1, <2>4 DEF f
  <1>15. Along(son', path, m - 1) /\ (Small => Covers(son', path, m - 1, Kept))
    BY <1>3, <1>14, KeptAcross
  <1>16. leaf = NULL => AllHeld'
    BY <1>9, <1>11, <1>12, <1>14 DEF AllHeld, OnStack
  <1>17. leaf # NULL => AllAbove'
    <2> SUFFICES ASSUME leaf # NULL PROVE AllAbove'
      OBVIOUS
    <2>1. PICK k \in 2 .. n : /\ stack[k] = Place(elem, "left")
                              /\ \A i \in 1 .. m - 1 : OnStack(path[i], k - 1)
      BY <1>1, <1>3 DEF CutCall, AllAbove
    <2>2. k # n
      BY <1>1, <1>5, <2>1 DEF Place
    <2>3. k \in 2 .. Len(stack') /\ k \in 1 .. n - 1 /\ \A j \in 2 .. k - 1 : j \in 1 .. n - 1
      BY <1>5, <1>9, <2>2
    <2>4. stack'[k] = Place(elem', "left") /\ \A j \in 2 .. k - 1 : stack'[j] = stack[j]
      BY <1>9, <1>12, <2>1, <2>3
    <2>5. QED
      BY <1>12, <2>1, <2>3, <2>4 DEF AllAbove, OnStack
  <1>18. CutCall'
    BY <1>1, <1>3, <1>10, <1>12, <1>16, <1>17 DEF CutCall
  <1>19. ~Idle'
    BY <1>12 DEF Idle
  <1>20. QED
    BY <1>2, <1>12, <1>15, <1>18, <1>19, CallCuts

\* delete() has ended: all calls have returned.
LEMMA DeleteEndCuts ==
    ASSUME IInv, IInv', CutInv, use = "delete", DeleteEnd
    PROVE  CutInv'
  <1> DEFINE n == Len(stack)
  <1>1. /\ stage = "deleted" /\ Calling = Top /\ End
        /\ Walking => UNCHANGED son
        /\ UNCHANGED <<answer, walkVars, failed>>
    BY DEF DeleteEnd
  <1>2. ~Idle
    BY <1>1 DEF Idle
  <1>3. CutCall /\ Walking
    BY <1>2, CuttingFacts, CutFacts
  <1>4. PICK X, Y, H : /\ X[1] = Members /\ Context(son, red, stack, X, Y, H)
    BY <1>1, LeftFacts
  <1>5. n = 1
    <2>1. n \in Nat /\ Calling = stack[n] /\ son \in Pointers /\ red \in SUBSET Nodes
      BY <1>4, CallFacts
    <2>2. QED
      BY <1>1, <1>4, <2>1, OnlyCall
  <1>6. leaf = NULL
    BY <1>1, <1>3, <1>5 DEF CutCall, AllAbove
  <1>7. son' = son /\ Members' = Members
    BY <1>1, <1>3 DEF Members, root, At
  <1>8. Members' = Kept
    BY <1>1, <1>3, <1>6, <1>7 DEF CutCall
  <1>9. Idle'
    BY <1>1 DEF End, Idle
  <1>10. UNCHANGED walkVars
    BY <1>1
  <1>11. QED
    BY <1>2, <1>7, <1>8, <1>9, <1>10, CallKeeps

\* Only a walk that deletes matters.
LEMMA OthersCut ==
    ASSUME use # "delete", use' = use PROVE CutInv'
  BY DEF CutInv

\* Every step keeps what is said about a walk that deletes.
LEMMA EveryCut ==
    ASSUME IInv, IInv', CutInv, Next
    PROVE  CutInv'
  <1>1. CASE use # "delete"
    <2>1. CASE \E e \in Nodes : Add(e) \/ AddIfNotMember(e) \/ Delete(e) \/ DeleteIfMember(e)
      BY <1>1, <2>1, OthersCut DEF Add, AddIfNotMember, Delete, DeleteIfMember, walkVars
    <2>2. CASE LookDown \/ LookAddEnd \/ LookDeleteEnd \/ AddDown \/ AddLink \/ AddReturn \/ AddEnd
      BY <1>1, <2>2, OthersCut DEF LookDown, LookAddEnd, LookDeleteEnd, AddDown, AddLink, AddReturn, AddEnd, walkVars
    <2>3. CASE DeleteDown \/ DeleteFound \/ LeafDown \/ LeafUnlink \/ LeafReturn \/ DeleteReturn \/ DeleteEnd
      BY <1>1, <2>3, OthersCut DEF DeleteDown, DeleteFound, LeafDown, LeafUnlink, LeafReturn, DeleteReturn, DeleteEnd, walkVars
    <2>4. ASSUME NEW for \in Uses, StartWalk(for) PROVE CutInv'
      <3>1. CASE for = "delete"
        BY <2>4, <3>1, StartWalkCuts
      <3>2. CASE for # "delete"
        BY <2>4, <3>2 DEF StartWalk, CutInv
      <3>3. QED
        BY <3>1, <3>2
    <2>5. CASE Turn \/ VisitOnly \/ VisitAndDelete
      BY <1>1, <2>5, OthersCut DEF Turn, VisitOnly, VisitAndDelete, Visit
    <2>6. CASE EndWalk
      BY <2>6 DEF EndWalk, CutInv
    <2>7. QED
      BY <2>1, <2>2, <2>3, <2>4, <2>5, <2>6 DEF Next
  <1>2. CASE use = "delete"
    <2>1. Walking /\ (~Idle => stage \in {"lookDelete", "search", "leaf", "deleted"})
      BY <1>2 DEF Walking, CutInv, CutCall
    <2>2. CASE \E e \in Nodes : Add(e) \/ AddIfNotMember(e) \/ Delete(e) \/ DeleteIfMember(e)
      BY <2>1, <2>2 DEF Add, AddIfNotMember, Delete, DeleteIfMember
    <2>3. CASE LookAddEnd \/ AddDown \/ AddLink \/ AddReturn \/ AddEnd
      BY <2>1, <2>3 DEF LookAddEnd, AddDown, AddLink, AddReturn, AddEnd, Idle
    <2>4. CASE LookDown \/ LookDeleteEnd
      BY <1>2, <2>4, LookDownCuts, LookDeleteEndCuts
    <2>5. CASE DeleteDown \/ DeleteFound \/ LeafDown \/ LeafUnlink
      BY <1>2, <2>5, DeleteDownCuts, DeleteFoundCuts, LeafDownCuts, LeafUnlinkCuts
    <2>6. CASE LeafReturn \/ DeleteReturn \/ DeleteEnd
      BY <1>2, <2>6, LeafReturnCuts, DeleteReturnCuts, DeleteEndCuts
    <2>7. CASE \E for \in Uses : StartWalk(for)
      BY <2>1, <2>7 DEF StartWalk
    <2>8. CASE Turn
      BY <1>2, <2>8, TurnCuts
    <2>9. CASE VisitOnly
      BY <1>2, <2>9 DEF VisitOnly
    <2>10. CASE VisitAndDelete
      BY <2>10, VisitCuts
    <2>11. CASE EndWalk
      BY <2>11 DEF EndWalk, CutInv
    <2>12. QED
      BY <2>2, <2>3, <2>4, <2>5, <2>6, <2>7, <2>8, <2>9, <2>10, <2>11 DEF Next
  <1>3. QED
    BY <1>1, <1>2

\* The path of an iterator whose caller deletes the members leads over nodes
\* that are still members, each ahead of those above, through every step of
\* every deletion; with three members at most it leads over or to all of them.
THEOREM CutInvariance == Spec => []CutInv
  <1>1. Init => CutInv
    BY DEF Init, CutInv
  <1>2. IInv /\ IInv' /\ CutInv /\ [Next]_vars => CutInv'
    <2>1. ASSUME CutInv, UNCHANGED vars PROVE CutInv'
      <3>1. /\ UNCHANGED walkVars /\ son' = son /\ red' = red /\ stage' = stage /\ elem' = elem
            /\ stack' = stack /\ leaf' = leaf
        BY <2>1 DEF vars, treeVars, callVars
      <3>2. /\ root' = root /\ Members' = Members /\ Calling' = Calling /\ At(Calling)' = At(Calling)
            /\ (Idle' <=> Idle)
        BY <3>1 DEF root, At, Members, Calling, Idle
      <3>3. (CutPath' <=> CutPath) /\ Kept' = Kept /\ use' = use
        BY <3>1, CallWalks DEF CutPath
      <3>4. (Standing' <=> Standing) /\ (AllHeld' <=> AllHeld) /\ (AllAbove' <=> AllAbove)
        BY <3>1, <3>2, CallWalks DEF Standing, AllHeld, AllAbove, OnStack
      <3>5. CutCall' <=> CutCall
        BY <3>1, <3>2, <3>3, <3>4, CallWalks DEF CutCall
      <3>6. QED
        BY <2>1, <3>2, <3>3, <3>5 DEF CutInv
    <2>2. QED
      BY <2>1, EveryCut
  <1>3. QED
    BY <1>1, <1>2, Invariance, PTL DEF Spec

\* ch_pr_stop() shuts every connection down, if there are three at most: a walk
\* that deletes the members it gets returns none of them twice, and misses none
\* of three.  The number of nodes and their keys are free.
THEOREM DeletingIsSafe == Spec => []DeletingReachesAll
  <1>1. IInv /\ CutInv => DeletingReachesAll
    <2> SUFFICES ASSUME IInv, CutInv, use = "delete"
        PROVE  /\ IsInjective(seen)
               /\ ToSet(seen) \subseteq start
               /\ Idle /\ path = <<>> /\ Cardinality(start) <= IteratorSafe =>
                     ToSet(seen) = start /\ root = NULL
      BY DEF DeletingReachesAll
    <2>1. CutPath
      BY DEF CutInv
    <2>2. ASSUME Idle, path = <<>>, Small
          PROVE  ToSet(seen) = start /\ root = NULL
      <3>1. path \in Seq(Frames) /\ at \in BOOLEAN
        BY CutFacts
      <3>2. Lasting = 0
        BY <2>2, <3>1, LastingIs
      <3>3. Covers(son, path, 0, Kept)
        BY <2>1, <2>2, <3>2 DEF CutPath
      <3>4. Kept = {}
        BY <3>3 DEF Covers
      <3>5. start \subseteq ToSet(seen)
        BY <3>4 DEF Kept
      <3>6. Members = {}
        BY <2>2, <3>4 DEF CutInv
      <3>7. TypeOK /\ Standing
        BY <2>2, IdleFacts DEF Idle
      <3>8. QED
        BY <2>1, <3>5, <3>6, <3>7, StandingBranches DEF CutPath
    <2>3. QED
      BY <2>1, <2>2 DEF CutPath, Small
  <1>2. QED
    BY <1>1, Invariance, CutInvariance, PTL
=============================================================================
