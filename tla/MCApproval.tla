------------------------------ MODULE MCApproval ------------------------------
(* Approval on small sets. *)
EXTENDS Approval, TLC

CONSTANTS p1, p2, p3, e1, e2

MCPerson == {p1, p2, p3}
MCAuthor == {p3}
MCEditor == {e1, e2}
Symmetry == Permutations({p1, p2})
=============================================================================
