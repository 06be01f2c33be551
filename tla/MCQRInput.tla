------------------------------ MODULE MCQRInput ------------------------------
(* QRInput with two objects and a handful of nodes, which are alike.        *)
EXTENDS QRInput, TLC

Symmetry == Permutations(Node) \cup Permutations(Obj)
=============================================================================
