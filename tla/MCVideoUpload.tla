--------------------------- MODULE MCVideoUpload ---------------------------
(* Instances of VideoUpload for TLC. *)
EXTENDS VideoUploadInvariant

CONSTANTS good, bad,              \* two bodies; only good starts a video
          alice, root,            \* an ordinary user and an administrator
          crew,                   \* the one team
          put1, put2, comp1, comp2, work1, work2

GoodVideo == {good}
EveryPart == Parts
DeclaredGood == [u \in Uploads |-> [k \in Parts |-> good]]
AliceFounds == {<<crew, alice>>}
AllFounders == {<<crew, alice>>, <<crew, root>>}
NoManagers == {}

\* The administrator acts through put2, comp2 and work2, with a JWT.
Administrators == {put2, comp2, work2}
AliceOrRoot == [p \in Procs |-> IF p \in Administrators THEN root ELSE alice]
AdminJwts == Administrators \cap Procs
=============================================================================
