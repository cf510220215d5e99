------------------------ MODULE VideoUploadInvariant ------------------------
(***************************************************************************)
(* The inductive invariant behind VideoUpload's safety properties.         *)
(***************************************************************************)
EXTENDS VideoUploadRefinement

Holding == {"writing", "moving", "recording", "deciding", "undoing",
            "removing", "unlinking"}

\* Each kind of request walks its own steps, with a session in hand.
StepsInOrder ==
    /\ \A p \in Putters : pc[p] \in {"idle", "waiting", "receiving", "staged",
                                     "writing"}
    /\ \A c \in Completers : pc[c] \in {"idle", "verifying", "resetting",
                                        "verified", "moving", "recording"}
    /\ \A w \in Workers : pc[w] \in {"idle", "deciding", "undoing", "removing",
                                     "unlinking"}
    /\ \A p \in Procs : pc[p] \notin {"idle", "unlinking"} => at[p] \in Uploads
    /\ \A p \in Putters : pc[p] # "idle" => blob[p] \in Blobs

\* Whoever is between two steps of a leased handler holds the lease.
LeaseHeld == \A p \in Procs : pc[p] \in Holding <=> lease = p

Finalizing(u) == status[u] = "finalizing"

\* A session being published names a code nobody else uses and a good digest,
\* and its bytes are at exactly one of the two ends of the move.
FinalizingRecorded ==
    \A u \in Uploads : Finalizing(u) =>
        /\ info[u].code \in Codes
        /\ info[u].sha \in GoodFiles[u]
        /\ image[info[u].code] = None
        /\ \/ source[u] = info[u].sha /\ files[info[u].code] = None
           \/ source[u] = None /\ files[info[u].code] = info[u].sha
        /\ \A k \in Parts : rows[u][k] # None => info[u].sha[k] = rows[u][k]

CodesDistinct ==
    \A u, v \in Uploads :
        Finalizing(u) /\ Finalizing(v) /\ info[u].code = info[v].code => u = v

\* Before its publication a session's rows imply its bytes.
RowsBacked ==
    \A u \in Uploads :
        /\ status[u] \in {"unborn", "gone"} => rows[u] = NoRows
        /\ status[u] = "verifying" => source[u] # None
        /\ status[u] \in {"active", "verifying", "failed"} =>
             \A k \in Parts : rows[u][k] # None =>
                 source[u] # None /\ source[u][k] = rows[u][k]

\* What a handler has established stays true until its next step: a part
\* being written is still missing from its session, ...
WritesFounded ==
    \A p \in Putters : pc[p] = "writing" =>
        /\ status[at[p]] = "active"
        /\ source[at[p]] # None
        /\ rows[at[p]][part[p]] = None

\* ... the digest of an attempt that still owns its nonce is its file's, ...
VerificationsFounded ==
    \A c \in Completers : (pc[c] = "verified" /\ HasNonce(at[c], c)) =>
        /\ digest[c] = source[at[c]]
        /\ digest[c] \in GoodFiles[at[c]]
        /\ \A k \in Parts : rows[at[c]][k] # None => digest[c][k] = rows[at[c]][k]

\* ... the file to be moved has not moved, a moved one has, ...
MovesFounded ==
    /\ \A p \in Procs : pc[p] \in {"moving", "undoing"} =>
         Finalizing(at[p]) /\ source[at[p]] # None
    /\ \A p \in Procs : pc[p] \in {"recording", "deciding"} =>
         Finalizing(at[p]) /\ source[at[p]] = None

\* ... and nothing names the file or directory that is about to go.
RemovalsFounded ==
    \A w \in Workers :
        /\ pc[w] = "removing" => status[at[w]] = "gone"
        /\ (pc[w] \in {"removing", "unlinking"} /\ target[w] # None) =>
             /\ image[target[w]] = None
             /\ \A u \in Uploads : Finalizing(u) => info[u].code # target[w]

\* A published row has its file, and an upload that is published or gone.
ImagesBacked ==
    \A c \in Codes : image[c] # None =>
        /\ files[c] = image[c].sha
        /\ image[c].sha \in GoodFiles[image[c].upload]
        /\ status[image[c].upload] \in {"completed", "gone"}

\* The invariant that every step preserves.
IInv ==
    /\ TypeOK
    /\ StepsInOrder
    /\ LeaseHeld
    /\ FinalizingRecorded
    /\ CodesDistinct
    /\ RowsBacked
    /\ WritesFounded
    /\ VerificationsFounded
    /\ MovesFounded
    /\ RemovalsFounded
    /\ ImagesBacked
    /\ PublishedOnce
    /\ FailedOnlyWithoutOwner
=============================================================================
