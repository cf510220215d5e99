----------------------------- MODULE MCTenancy -----------------------------
(* Instances of Tenancy for TLC. *)
EXTENDS Tenancy, TLC

CONSTANTS root, ann, bob, crew, clip, shelf

Others == Permutations({ann, bob})
=============================================================================
