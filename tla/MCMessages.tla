------------------------------ MODULE MCMessages ------------------------------
(* MessageServer for TLC: the children are interchangeable.                   *)
EXTENDS MessageServer, TLC

ChildSymmetry == Permutations(Child)
=============================================================================
