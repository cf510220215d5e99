---------------------------- MODULE MCLockOrder ----------------------------
(* Instances of LockOrder for TLC. *)
EXTENDS LockOrder, TLC

CONSTANTS p1, p2, p3, c1, k1, i1, u1, u2, u3

\* Two parts of one upload, a part of another; DELETE and cleanup of the first.
OneUpload == (p1 :> u1 @@ p2 :> u1 @@ p3 :> u2 @@ c1 :> u1 @@ k1 :> u1)

\* Every request has an upload of its own.
OwnUpload == (p1 :> u1 @@ p2 :> u2 @@ c1 :> u3)

\* Two parts of one upload.
TwoParts == (p1 :> u1 @@ p2 :> u1)

\* A part and the cleanup of its upload, and a part of another upload.
CleanedUpload == (p1 :> u1 @@ k1 :> u1 @@ p2 :> u2)
=============================================================================
