------------------------------ MODULE MCRBTree ------------------------------
(* A small instance of RBTree: neighbours in memory share a key.           *)
EXTENDS RBTree

MCKey == [n \in Nodes |-> n \div 2]
=============================================================================
