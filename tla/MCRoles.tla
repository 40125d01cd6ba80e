------------------------------- MODULE MCRoles -------------------------------
(* Roles for TLC: two requests at a time, one human and one service user.  *)
EXTENDS Roles, TLC

CONSTANTS c1, c2
MCProc == {c1, c2}
MCSubject == {1, 2}
MCServiceUser == {2}
MCSymmetry == Permutations(MCProc)

=============================================================================
