---------------------------- MODULE MCChirpClose ----------------------------
(* Small instances of ChirpClose.                                          *)
EXTENDS ChirpClose, TLC

\* Connections and remotes are only compared, so they can be permuted.
Symmetry == Permutations(Conns) \cup Permutations(Keys)
=============================================================================
