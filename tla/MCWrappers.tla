----------------------------- MODULE MCWrappers -----------------------------
(* Wrappers on a small instance: three wrapper objects, so that a list, an  *)
(* element copied from it and a cycle exist at once; objects are            *)
(* interchangeable, and so are nodes.                                       *)
EXTENDS Wrappers, TLC

CONSTANTS o1, o2, o3, a, b

MCObjects == {o1, o2, o3}
MCNodes == {a, b}
Interchangeable == Permutations(MCObjects) \cup Permutations(MCNodes)

=============================================================================
