------------------------------ MODULE MCWalks -------------------------------
(* One parent with two children, so that a walk may find one gone and one  *)
(* still there, and one with a single child.                               *)
EXTENDS Walks

CONSTANTS p1, p2

MCParents == {p1, p2}
MCKids == {<<p1, 1>>, <<p1, 2>>, <<p2, 1>>}
MCOnlyParent == {p1}
MCOnlyKid == {<<p1, 1>>}
=============================================================================
