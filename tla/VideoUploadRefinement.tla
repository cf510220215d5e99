----------------------- MODULE VideoUploadRefinement -----------------------
(***************************************************************************)
(* VideoUpload implements Publication: the image rows together with the    *)
(* files they name behave as one atomic library.                           *)
(***************************************************************************)
EXTENDS VideoUpload

\* The files that verification lets upload u publish.
GoodFiles ==
    [u \in Uploads |->
        {f \in [Parts -> Blobs] : /\ f[0] \in Videos
                                  /\ \A k \in Sampled : f[k] = Declared[u][k]}]

AbstractStatus(s) ==
    CASE s = "unborn"    -> "unborn"
      [] s = "completed" -> "published"
      [] s = "gone"      -> "gone"
      [] OTHER           -> "open"

AbstractSession == [u \in Uploads |-> AbstractStatus(status[u])]

\* What a reader of /v/{c} gets: the row decides whether, the file what.
AbstractLibrary ==
    [c \in Codes |-> IF image[c] = None THEN None
                     ELSE [upload |-> image[c].upload, file |-> files[c]]]

Pub == INSTANCE Publication
         WITH Good <- GoodFiles, session <- AbstractSession,
              library <- AbstractLibrary

\* However requests, faults and crashes interleave, rows and files together
\* publish, keep and withdraw videos the way Publication says.
ImplementsPublication == Pub!Spec

\* Who uses the files of an upload: a PUT that receives its body, and a request
\* under the lease that writes or removes them.  (DELETE of a video unlinks a
\* published file and works on no upload.)
Inbound == [p \in Procs |-> IF pc[p] = "receiving" THEN {at[p]} ELSE {}]
AtFiles == [p \in Procs |->
              IF pc[p] \in {"writing", "removing", "unlinking"} /\ at[p] # None
              THEN {at[p]} ELSE {}]

Access == INSTANCE UploadAccess
            WITH Requests <- Procs, streaming <- Inbound, working <- AtFiles

\* VideoUpload takes gate, slot and lease in one step; it asks no more of them
\* than what LockOrder provides.
ImplementsAccess == Access!Spec
=============================================================================
