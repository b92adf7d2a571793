------------------------------ MODULE MCWriter ------------------------------
(* Three messages, whose parts are empty in different places.              *)
EXTENDS Writer, TLC

CONSTANTS m1, m2, m3

Sizes(data) ==
    (m1 :> ("net" :> 1 @@ "header" :> 1 @@ "actor" :> 1 @@ "data" :> 0)) @@
    (m2 :> ("net" :> 1 @@ "header" :> 0 @@ "actor" :> 0 @@ "data" :> data)) @@
    (m3 :> ("net" :> 1 @@ "header" :> 0 @@ "actor" :> 2 @@ "data" :> 1))

\* Data that one call of _ch_cn_partial_write() encrypts.
SmallSize == Sizes(2)

\* Data that needs more than one call.
LargeSize == Sizes(3)
=============================================================================
