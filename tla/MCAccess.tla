------------------------------ MODULE MCAccess ------------------------------
(* Instances of Access for TLC. *)
EXTENDS Access, TLC

CONSTANTS old, new, r1, r2

EitherRequest == Permutations(Requests)
=============================================================================
