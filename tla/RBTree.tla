------------------------------- MODULE RBTree -------------------------------
(***************************************************************************)
(* The red-black trees of sglib.h, which keep the instances, the           *)
(* connections, the retired connections and the receipts of chirp, and the *)
(* iterators chirp walks them with: to signal all instances, to shut all   *)
(* connections down (which deletes them from the tree that is walked) and  *)
(* to free all receipts.                                                   *)
(*                                                                         *)
(* The nodes are linked by their members left and right, as in C, because  *)
(* an iterator keeps pointers to nodes over deletions.  The functions that *)
(* add and delete call themselves for a subtree: a call and what it does   *)
(* when the inner call has returned are actions of their own, and stack    *)
(* has the type** of the calls that have not returned.                     *)
(***************************************************************************)
EXTENDS Integers, SequencesExt

CONSTANTS Nodes,     \* the addresses of the nodes, which can be compared
          Key        \* what the comparator compares

NULL  == 0
Owner == -1          \* has the pointer to the tree, as its member left

ASSUME NodesAssumption == IsFiniteSet(Nodes) /\ Nodes \subseteq Nat \ {NULL}
ASSUME KeyAssumption   == Key \in [Nodes -> Int]

VARIABLES
    son,       \* the members left and right of every node
    red,       \* the nodes whose member bits says red
    stage,     \* what the call at work does, "idle" if there is none
    elem,      \* its argument
    stack,     \* where the pointers are to the subtrees it descends into
    leaf,      \* theLeaf, while it is out of the tree
    short,     \* deepDecreased: the paths below lost a black node
    answer,    \* the member the last lookup found
    use,       \* what the caller of the iterator does with the members
    order,     \* it->order
    path,      \* it->path with it->pass
    at,        \* it->currentelem is there
    seen,      \* the members the iterator has returned
    start,     \* those that were there when the walk began
    touched,   \* a member that was returned was read again
    failed     \* an assert() of sglib.h does not hold

treeVars == <<son, red>>
callVars == <<stage, elem, stack, leaf, short>>
walkVars == <<use, order, path, at, seen, start, touched>>
vars == <<treeVars, callVars, answer, walkVars, failed>>

-----------------------------------------------------------------------------
(* Nodes.                                                                  *)

Sides == {"left", "right"}
Other(side) == IF side = "left" THEN "right" ELSE "left"

\* A pointer to a node, where it is kept.
Place(n, side) == [node |-> n, side |-> side]
Top == Place(Owner, "left")
At(place) == son[place.side][place.node]
Put(links, place, n) == [links EXCEPT ![place.side][place.node] = n]

root == At(Top)
Calling  == Last(stack)         \* the tree of the call at work
Calls(n, side) == stack' = Append(stack, Place(n, side))
Returns  == stack' = Front(stack)

\* The comparator decides, the addresses break ties.
Before(m, n) == Key[m] < Key[n] \/ (Key[m] = Key[n] /\ m < n)
Side(e, t) == IF Before(e, t) THEN "left" ELSE "right"

IsRed(n)   == n \in red
IsBlack(n) == n \notin red
Paint(reds, blacks) == red' = (red \cup reds) \ blacks

\* n takes the colour of m.
PaintAs(n, m, blacks) ==
    IF IsRed(m) THEN Paint({n}, blacks) ELSE Paint({}, blacks \cup {n})

\* The nodes of the tree with the root top.
NodesOf(links, top) ==
    LET below[n \in Nodes \cup {NULL}] ==
            IF n = NULL THEN {}
            ELSE {n} \cup below[links["left"][n]] \cup below[links["right"][n]]
    IN  below[top]
Members == NodesOf(son, root)

\* The son b of a on side l becomes the root over a.
Rotate(a, l) ==
    LET b == son[l][a]  r == Other(l)
    IN  [son EXCEPT ![l][a] = son[r][b], ![r][b] = a]

\* The son d of p on side r, below the son b of a on side l, becomes the root
\* over b and a.
Lift(a, p, l) ==
    LET b == son[l][a]  r == Other(l)  d == son[r][p]
    IN  [son EXCEPT ![r][p] = son[l][d], ![l][a] = son[r][d],
                    ![l][d] = b, ![r][d] = a]

\* The tree of the outer call becomes n.
Becomes(links, n) == son' = Put(links, Last(Front(stack)), n)

-----------------------------------------------------------------------------
(* Looking up.                                                             *)

Idle == stage = "idle"
Walking == use # "none"

\* A call begins with the whole tree.
Begin(does, e) ==
    /\ stage' = does /\ elem' = e
    /\ stack' = <<Top>> /\ leaf' = NULL /\ short' = FALSE

End == stage' = "idle" /\ elem' = NULL /\ stack' = <<>> /\ leaf' = NULL /\ short' = FALSE

BeginAdd(e) ==
    /\ Begin("add", e)
    /\ son' = [son EXCEPT !["left"][e] = NULL, !["right"][e] = NULL]

\* BIN_TREE_FIND_MEMBER: only the comparator decides.
Looking == stage \in {"lookAdd", "lookDelete"}
Met == LET t == At(Calling) IN t # NULL => Key[t] = Key[elem]

LookDown ==
    /\ Looking /\ ~Met
    /\ LET t == At(Calling)
       IN  stack' = <<Place(t, IF Key[elem] < Key[t] THEN "left" ELSE "right")>>
    /\ UNCHANGED <<treeVars, stage, elem, leaf, short, answer, walkVars, failed>>

\* add_if_not_member() and delete_if_member() have found what they look for.
LookAddEnd ==
    /\ stage = "lookAdd" /\ Met
    /\ answer' = At(Calling)
    /\ IF answer' = NULL THEN BeginAdd(elem) ELSE End /\ UNCHANGED son
    /\ UNCHANGED <<red, walkVars, failed>>

LookDeleteEnd ==
    /\ stage = "lookDelete" /\ Met
    /\ answer' = At(Calling)
    /\ IF answer' = NULL THEN End ELSE Begin("search", answer')
    /\ UNCHANGED <<treeVars, walkVars, failed>>

-----------------------------------------------------------------------------
(* Adding.                                                                 *)

AddDown ==
    /\ stage = "add" /\ At(Calling) # NULL
    /\ LET t == At(Calling) IN Calls(t, Side(elem, t))
    /\ UNCHANGED <<treeVars, stage, elem, leaf, short, answer, walkVars, failed>>

AddLink ==
    /\ stage = "add" /\ At(Calling) = NULL
    /\ son' = Put(son, Calling, elem)
    /\ Paint({elem}, {})
    /\ stage' = "added"
    /\ UNCHANGED <<elem, stack, leaf, short, answer, walkVars, failed>>

\* Both sons are red and one of them has a red son: t takes over their colour.
RecolourHalf(t, l) == Paint({t}, {son[l][t]})
Recolour(t, l)     == Paint({t}, {son[l][t], son[Other(l)][t]})

\* FIX_INSERTION_DISCREPANCY: t is black, and an element was added below its
\* son b on side l.
FixInsertion(t, l) ==
    LET r == Other(l)
        b == son[l][t]
        c == son[r][b]
        outer == IsRed(b) /\ IsRed(son[l][b])
        inner == IsRed(b) /\ IsRed(c)
    IN  \/ /\ IsRed(son[r][t]) /\ (outer \/ inner)
           /\ Recolour(t, l) /\ UNCHANGED son
        \/ /\ IsBlack(son[r][t]) /\ outer
           /\ Paint({t}, {b}) /\ Becomes(Rotate(t, l), b)
        \/ /\ IsBlack(son[r][t]) /\ inner /\ ~outer
           /\ Paint({t}, {c}) /\ Becomes(Lift(t, b, l), c)
        \/ /\ ~outer /\ ~inner
           /\ UNCHANGED treeVars

AddReturn ==
    /\ stage = "added" /\ Calling # Top
    /\ IF IsBlack(Calling.node) THEN FixInsertion(Calling.node, Calling.side)
       ELSE UNCHANGED treeVars
    /\ Returns
    /\ UNCHANGED <<stage, elem, leaf, short, answer, walkVars, failed>>

AddEnd ==
    /\ stage = "added" /\ Calling = Top
    /\ Paint({}, {root})
    /\ End
    /\ UNCHANGED <<son, answer, walkVars, failed>>

-----------------------------------------------------------------------------
(* Deleting.                                                               *)

\* The only son of t, if it has one, takes the place of t.
Unlink(t, only) ==
    /\ son' = Put(son, Calling, only)
    /\ Paint({}, {only})
    /\ short' = (IsBlack(t) /\ IsBlack(only))
    /\ stage' = "deleted"

DeleteDown ==
    /\ stage = "search" /\ At(Calling) # elem
    /\ LET t == At(Calling)
       IN  IF t = NULL THEN failed' = TRUE /\ stage' = "deleted" /\ UNCHANGED stack
           ELSE Calls(t, Side(elem, t)) /\ UNCHANGED <<stage, failed>>
    /\ UNCHANGED <<treeVars, elem, leaf, short, answer, walkVars>>

DeleteFound ==
    /\ stage = "search" /\ At(Calling) = elem
    /\ IF son["left"][elem] = NULL
       THEN Unlink(elem, son["right"][elem]) /\ UNCHANGED stack
       ELSE /\ stage' = "leaf" /\ Calls(elem, "left")
            /\ UNCHANGED <<treeVars, short>>
    /\ UNCHANGED <<elem, leaf, answer, walkVars, failed>>

\* delete_rightmost_leaf().
LeafDown ==
    /\ stage = "leaf" /\ son["right"][At(Calling)] # NULL
    /\ Calls(At(Calling), "right")
    /\ UNCHANGED <<treeVars, stage, elem, leaf, short, answer, walkVars, failed>>

LeafUnlink ==
    /\ stage = "leaf" /\ son["right"][At(Calling)] = NULL
    /\ LET t == At(Calling) IN Unlink(t, son["left"][t]) /\ leaf' = t
    /\ UNCHANGED <<elem, stack, answer, walkVars, failed>>

\* The leaf takes the place of t: its links and its colour.
TakePlaceOnLeft(t) ==
    Becomes([son EXCEPT !["left"][leaf] = son["left"][t]], leaf)
TakePlace(t) ==
    Becomes([son EXCEPT !["left"][leaf]  = son["left"][t],
                        !["right"][leaf] = son["right"][t]], leaf)

LeafReturn ==
    /\ stage = "deleted" /\ leaf # NULL /\ Calling.node = elem
    /\ TakePlace(elem)
    /\ PaintAs(leaf, elem, {})
    /\ stack' = Append(Front(stack), Place(leaf, "left"))
    /\ leaf' = NULL
    /\ UNCHANGED <<stage, elem, short, answer, walkVars, failed>>

\* FIX_DELETION_DISCREPANCY: the paths of a on the side opposite of l have
\* lost a black node.  Its son b on side l is red, and c is the son of b on the
\* inner side.
FixBelowRed(a, l) ==
    LET r == Other(l)
        b == son[l][a]
        c == son[r][b]
        d == son[r][c]
    IN  /\ \/ /\ c # NULL => IsBlack(son[l][c]) /\ IsBlack(d)
              /\ Becomes(Rotate(a, l), b) /\ Paint({c} \ {NULL}, {b})
           \/ /\ c # NULL /\ IsRed(d)
              /\ Becomes(Lift(a, c, l), d) /\ Paint({}, {d})
           \/ /\ c # NULL /\ IsRed(son[l][c]) /\ IsBlack(d)
              /\ Becomes(Lift(a, b, l), c) /\ Paint({}, {son[l][c]})
        /\ short' = FALSE
        /\ failed' = (failed \/ IsRed(c))

\* What is still short after the brother of the short side became red.
StillShort(a) == IsBlack(a)

FixBelowBlack(a, l) ==
    LET r  == Other(l)
        b  == son[l][a]
        bl == son[l][b]
        c  == son[r][b]
    IN  /\ \/ /\ IsBlack(bl) /\ IsBlack(c)
              /\ Paint({b}, {a}) /\ short' = StillShort(a)
              /\ UNCHANGED son
           \/ /\ IsRed(bl) /\ IsBlack(c)
              /\ Becomes(Rotate(a, l), b) /\ PaintAs(b, a, {a, bl})
              /\ short' = FALSE
           \/ /\ IsRed(c)
              /\ Becomes(Lift(a, b, l), c) /\ PaintAs(c, a, {a})
              /\ short' = FALSE
        /\ UNCHANGED failed

FixDeletion(a, l) ==
    IF son[l][a] = NULL
    THEN /\ Paint({}, {a})
         /\ short' = FALSE
         /\ failed' = (failed \/ IsBlack(a))
         /\ UNCHANGED son
    ELSE IF IsRed(son[l][a]) THEN FixBelowRed(a, l) ELSE FixBelowBlack(a, l)

DeleteReturn ==
    /\ stage = "deleted" /\ Calling # Top
    /\ leaf # NULL => Calling.node # elem
    /\ IF short THEN FixDeletion(Calling.node, Other(Calling.side))
       ELSE UNCHANGED <<treeVars, short, failed>>
    /\ Returns
    /\ UNCHANGED <<stage, elem, leaf, answer, walkVars>>

\* The members of a node that is not in the tree are dead: adding it sets
\* them.  A walker still reads them.
Links(ns) == [side \in Sides |-> [n \in Nodes \cup {Owner} |->
                                     IF n \in ns \cup {Owner} THEN son[side][n] ELSE NULL]]

DeleteEnd ==
    /\ stage = "deleted" /\ Calling = Top
    /\ IF Walking THEN UNCHANGED son /\ Paint({}, {root})
       ELSE son' = Links(Nodes \ {elem}) /\ Paint({}, {root, elem})
    /\ End
    /\ UNCHANGED <<answer, walkVars, failed>>

-----------------------------------------------------------------------------
(* The calls of the user.  While a tree is walked only the walker uses it. *)

Add(e) ==
    /\ Idle /\ ~Walking
    /\ e \notin Members
    /\ BeginAdd(e)
    /\ answer' = NULL
    /\ UNCHANGED <<red, walkVars, failed>>

AddIfNotMember(e) ==
    /\ Idle /\ ~Walking
    /\ e \notin Members
    /\ Begin("lookAdd", e)
    /\ UNCHANGED <<treeVars, answer, walkVars, failed>>

Delete(e) ==
    /\ Idle /\ ~Walking
    /\ e \in Members
    /\ Begin("search", e)
    /\ answer' = NULL
    /\ UNCHANGED <<treeVars, walkVars, failed>>

DeleteIfMember(e) ==
    /\ Idle /\ ~Walking
    /\ Begin("lookDelete", e)
    /\ UNCHANGED <<treeVars, answer, walkVars, failed>>

-----------------------------------------------------------------------------
(* Walking.  The iterator is a stack of frames, each with a count of the   *)
(* sons that were passed; a node is current when its count is the order:   *)
(* 0 is preorder, 1 inorder, 2 postorder.                                  *)

Frame(n) == [node |-> n, pass |-> 0]

\* What the caller does with the members it gets from an iterator.
\*   read      ch_chirp_close_ts() on every instance
\*   delete    ch_cn_shutdown() on every connection
\*   free      ch_free() on every receipt
Uses == {"read", "delete", "free"}

\* The iterators chirp initialises are the default ones.
PreOrder  == 0
InOrder   == 1
PostOrder == 2
WalkOrderPre == PreOrder
WalkOrder    == PostOrder

\* The keys of connections are those of different remotes.
UniqueKeys == \A m, n \in Members : Key[m] = Key[n] => m = n

\* it_init().
StartWalk(for) ==
    /\ Idle /\ ~Walking
    /\ root # NULL
    /\ for = "delete" => UniqueKeys
    /\ use' = for
    /\ order' \in IF for = "read" THEN {PreOrder, InOrder, WalkOrder} ELSE {WalkOrder}
    /\ path' = <<Frame(root)>>
    /\ at' = (order' = PreOrder)
    /\ seen' = <<>> /\ start' = Members /\ touched' = FALSE
    /\ UNCHANGED <<treeVars, callVars, answer, failed>>

\* One turn of the loop of it_compute_current_elem(): up if both sons were
\* passed, else down to the next son.
LeftPassed(top) == top.pass >= 1
MorePassed(top) == top.pass > 2
BothPassed(top) == top.pass >= 2

Turn ==
    /\ Idle /\ Walking /\ ~at /\ path # <<>>
    /\ LET top  == Last(path)
           next == IF top.pass = 0 THEN son["left"][top.node] ELSE son["right"][top.node]
           here == [path EXCEPT ![Len(path)].pass = @ + 1]
       IN  \/ /\ BothPassed(top)
              /\ path' = Front(path) /\ UNCHANGED touched
           \/ /\ ~BothPassed(top)
              /\ path' = IF next = NULL THEN here ELSE Append(here, Frame(next))
              /\ touched' = (touched \/ \E i \in DOMAIN seen : seen[i] = top.node)
    /\ at' = (path' # <<>> /\ Last(path').pass = order)
    /\ UNCHANGED <<treeVars, callVars, answer, use, order, seen, start, failed>>

\* The caller is done with the current member, it_next() looks for the next.
Visit ==
    /\ Idle /\ Walking /\ at
    /\ seen' = Append(seen, Last(path).node)
    /\ at' = FALSE
    /\ UNCHANGED <<treeVars, answer, use, order, path, start, touched, failed>>

VisitOnly == use # "delete" /\ Visit /\ UNCHANGED callVars

\* ch_cn_shutdown() deletes the connection with the key of the current one.
VisitAndDelete == use = "delete" /\ Visit /\ Begin("lookDelete", Last(path).node)

\* The receipts are gone after the walk, and so is the use of the tree.
EndWalk ==
    /\ Idle /\ Walking /\ ~at /\ path = <<>>
    /\ LET left == IF use = "free" THEN {} ELSE Members
       IN  /\ son' = IF use = "free" THEN Put(Links(left), Top, NULL) ELSE Links(left)
           /\ red' = red \cap left
    /\ answer' = IF use = "free" THEN NULL ELSE answer
    /\ use' = "none" /\ order' = WalkOrder /\ path' = <<>>
    /\ seen' = <<>> /\ start' = {} /\ touched' = FALSE
    /\ UNCHANGED <<callVars, at, failed>>

-----------------------------------------------------------------------------

Init ==
    /\ son = [side \in Sides |-> [n \in Nodes \cup {Owner} |-> NULL]]
    /\ red = {}
    /\ stage = "idle" /\ elem = NULL /\ stack = <<>> /\ leaf = NULL /\ short = FALSE
    /\ answer = NULL
    /\ use = "none" /\ order = WalkOrder /\ path = <<>> /\ at = FALSE
    /\ seen = <<>> /\ start = {} /\ touched = FALSE
    /\ failed = FALSE

Next == \/ \E e \in Nodes : \/ Add(e) \/ AddIfNotMember(e)
                            \/ Delete(e) \/ DeleteIfMember(e)
        \/ LookDown \/ LookAddEnd \/ LookDeleteEnd
        \/ AddDown \/ AddLink \/ AddReturn \/ AddEnd
        \/ DeleteDown \/ DeleteFound \/ LeafDown \/ LeafUnlink
        \/ LeafReturn \/ DeleteReturn \/ DeleteEnd
        \/ \E for \in Uses : StartWalk(for)
        \/ Turn \/ VisitOnly \/ VisitAndDelete \/ EndWalk

Spec == Init /\ [][Next]_vars

-----------------------------------------------------------------------------
(* Properties.                                                             *)

Places == [node : Nodes \cup {Owner}, side : Sides]

TypeOK ==
    /\ son \in [Sides -> [Nodes \cup {Owner} -> Nodes \cup {NULL}]]
    /\ red \subseteq Nodes
    /\ stage \in {"idle", "lookAdd", "lookDelete", "add", "added", "search",
                  "leaf", "deleted"}
    /\ elem \in Nodes \cup {NULL} /\ leaf \in Nodes \cup {NULL}
    /\ answer \in Nodes \cup {NULL}
    /\ stack \in Seq(Places)
    /\ {short, at, touched, failed} \subseteq BOOLEAN
    /\ use \in Uses \cup {"none"} /\ order \in 0 .. 2
    /\ path \in Seq([node : Nodes, pass : 0 .. 2])
    /\ seen \in Seq(Nodes) /\ start \subseteq Nodes

\* The number of black nodes on every path of the tree, -1 if a rule of
\* red-black trees is broken.
BlackHeight ==
    LET height[n \in Members \cup {NULL}] ==
            IF n = NULL THEN 0
            ELSE LET l   == son["left"][n]
                     r   == son["right"][n]
                     bad == \/ height[l] = -1 \/ height[l] # height[r]
                            \/ l # NULL /\ Key[l] > Key[n]
                            \/ r # NULL /\ Key[n] > Key[r]
                            \/ IsRed(n) /\ (IsRed(l) \/ IsRed(r))
                 IN  IF bad THEN -1
                     ELSE height[l] + (IF IsBlack(n) THEN 1 ELSE 0)
    IN  height[root]

\* Whatever is added and deleted, no path of the tree is more than twice as
\* long as another: between two calls the red-black rules hold, as the
\* consistency check of sglib.h, which chirp never calls, wants them, and
\* repairing the tree never meets a constellation that one of the assertions
\* of sglib.h excludes.
Balanced == (Idle => IsBlack(root) /\ BlackHeight # -1) /\ ~failed

\* The elements: a call adds or deletes one as soon as it begins to look for
\* its place.
Elements == (Members \cup (IF stage = "add" THEN {elem} ELSE {})
                     \cup (IF leaf = NULL THEN {} ELSE {leaf}))
            \ (IF stage \in {"search", "leaf", "deleted"} THEN {elem} ELSE {})

\* The tree keeps what Connections and the writer take for granted: it is a
\* set of elements, and a lookup by key finds one exactly if there is one.
Set == INSTANCE Dictionary WITH members <- Elements
DictionarySpec == Set!Spec

\* A walk that leaves the tree alone returns every member once, and one that
\* frees the members it gets never reads one of them again.
EveryMemberOnce ==
    /\ Walking /\ use # "delete" /\ path = <<>> =>
          /\ ToSet(seen) = start
          /\ IsInjective(seen)
    /\ use = "free" => ~touched

\* A walk that deletes the members it gets returns none of them twice, and
\* each of at most three: with more it may miss some, which is what Visited
\* in ChirpClose assumes.
IteratorSafe == 3
DeletingReachesAll ==
    use = "delete" =>
        /\ IsInjective(seen)
        /\ ToSet(seen) \subseteq start
        /\ Idle /\ path = <<>> /\ Cardinality(start) <= IteratorSafe =>
              ToSet(seen) = start /\ root = NULL
=============================================================================
