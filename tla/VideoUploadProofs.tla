------------------------- MODULE VideoUploadProofs -------------------------
(***************************************************************************)
(* VideoUpload is safe for every number of uploads, parts, requests, users *)
(* and crashes: IInv holds initially, every step keeps it, and it implies  *)
(* the safety properties.                                                  *)
(***************************************************************************)
EXTENDS VideoUploadSteps, FiniteSetTheorems

\* A fresh data directory satisfies the invariant.
LEMMA InitIInv == Init => IInv
<1> SUFFICES ASSUME Init PROVE IInv
  OBVIOUS
<1>1. TypeOK
  BY ConstantsAssumption
     DEF Init, TypeOK, SessionTypeOK, MediaTypeOK, AccountTypeOK,
         ProcessTypeOK, ConstantsAssumption, Statuses, Infos, NoInfo, NoRows,
         Steps, Parts, Procs
<1>2. StepsInOrder /\ LeaseHeld
  BY DistinctAssumption
     DEF Init, StepsInOrder, LeaseHeld, Holding, Procs, DistinctAssumption
<1>3. /\ FinalizingRecorded /\ CodesDistinct /\ RowsBacked /\ ImagesBacked
      /\ PublishedOnce /\ FailedOnlyWithoutOwner
  BY DEF Init, FinalizingRecorded, CodesDistinct, Finalizing, RowsBacked,
         NoRows, ImagesBacked, PublishedOnce, FailedOnlyWithoutOwner
<1>4. WritesFounded /\ VerificationsFounded /\ MovesFounded /\ RemovalsFounded
  BY DEF Init, WritesFounded, VerificationsFounded, MovesFounded,
         RemovalsFounded, Procs
<1> QED
  BY <1>1, <1>2, <1>3, <1>4 DEF IInv

\* A step that changes nothing keeps it.
LEMMA StutterKeeps == ASSUME IInv, UNCHANGED vars PROVE IInv'
<1>1. TypeOK'
  BY DEF vars, rowVars, diskVars, accountVars, putVars, bootVars, IInv, TypeOK,
         SessionTypeOK, MediaTypeOK, AccountTypeOK, ProcessTypeOK
<1>2. /\ StepsInOrder' /\ LeaseHeld' /\ FinalizingRecorded' /\ CodesDistinct'
      /\ RowsBacked' /\ PublishedOnce' /\ FailedOnlyWithoutOwner'
  BY DEF vars, rowVars, diskVars, accountVars, putVars, bootVars, IInv,
         StepsInOrder, LeaseHeld, FinalizingRecorded, Finalizing,
         CodesDistinct, RowsBacked, PublishedOnce, FailedOnlyWithoutOwner
<1>3. /\ WritesFounded' /\ VerificationsFounded' /\ MovesFounded'
      /\ RemovalsFounded' /\ ImagesBacked'
  BY DEF vars, rowVars, diskVars, accountVars, putVars, bootVars, IInv,
         WritesFounded, VerificationsFounded, HasNonce, MovesFounded,
         Finalizing, RemovalsFounded, ImagesBacked
<1> QED
  BY <1>1, <1>2, <1>3 DEF IInv

\* Every step of the system keeps it.
LEMMA NextKeepsIInv == ASSUME IInv, [Next]_vars PROVE IInv'
<1>1. ASSUME NEW p \in Putters, PutStep(p) PROVE IInv'
  BY <1>1, PutBeginKeeps, PutReceiveKeeps, PutRefusedKeeps, PutStagedKeeps,
     PutRejectedKeeps, PutAbandonedKeeps, PutWriteKeeps, PutRepeatedKeeps,
     PutConflictKeeps, PutCommittedKeeps, PutWriteFailsKeeps
     DEF PutStep
<1>2. ASSUME NEW c \in Completers, CompleteStep(c) PROVE IInv'
  BY <1>2, CompleteBeginKeeps, CompleteVerifiedKeeps, CompleteUnverifiedKeeps,
     CompleteResetKeeps, CompleteDeniedKeeps, CompletePreparedKeeps,
     CompleteMovedKeeps, CompleteMoveFailsKeeps, CompleteRecordedKeeps,
     CompleteRecordFailsKeeps
     DEF CompleteStep
<1>3. ASSUME NEW w \in Workers, RecoverStep(w) PROVE IInv'
  BY <1>3, RecoverBeginKeeps, RecoverFaultKeeps, RecoverVerifyingKeeps,
     RecoverPublishKeeps, RecoverUndoKeeps, RecoverUndoneKeeps,
     RecoverFailsKeeps
     DEF RecoverStep
<1>4. ASSUME NEW w \in Workers, RemoveStep(w) PROVE IInv'
  BY <1>4, CancelCommittedKeeps, DirectoryRemovedKeeps, FileUnlinkedKeeps,
     DeleteVideoKeeps
     DEF RemoveStep
<1>5. ASSUME AccountStep PROVE IInv'
  BY <1>5, DissolveTeamKeeps, RemoveMemberKeeps, DemoteKeeps, DeleteUserKeeps
     DEF AccountStep
<1> QED
  BY <1>1, <1>2, <1>3, <1>4, <1>5, StutterKeeps, CreateUploadSessionKeeps,
     CleanupDirectoryKeeps, ExpireKeeps, CrashKeeps, StartupDoneKeeps
     DEF Next

\* The invariant the safety of uploads rests on: rows, source file and
\* published file agree at every step, with every handler half-way.
THEOREM InductiveInvariant == Spec => []IInv
<1>1. IInv /\ [Next]_vars => IInv'
  BY NextKeepsIInv
<1> QED
  BY <1>1, InitIInv, PTL DEF Spec

\* Every variable keeps its type.
THEOREM TypesHold == Spec => []TypeOK
<1>1. IInv => TypeOK
  BY DEF IInv
<1> QED
  BY <1>1, InductiveInvariant, PTL

\* A part that was acknowledged is stored until its session completes
\* (_commit_upload_part, recover_finalizing_session).
THEOREM PartsSurvive == Spec => []AcknowledgedPartsSurvive
<1>1. ASSUME IInv PROVE AcknowledgedPartsSurvive
  <2> SUFFICES ASSUME NEW u \in Uploads, NEW k \in Parts,
                      status[u] \in Statuses \ {"completed"}, rows[u][k] # None
               PROVE  Bytes(u) # None /\ Bytes(u)[k] = rows[u][k]
    BY DEF AcknowledgedPartsSurvive
  <2>1. CASE status[u] = "finalizing"
    <3>1. /\ info[u].sha \in GoodFiles[u] /\ info[u].sha[k] = rows[u][k]
          /\ Bytes(u) = info[u].sha
      BY <1>1, <2>1, DistinctAssumption, GoodFilesAreContents
         DEF IInv, FinalizingRecorded, Finalizing, Bytes, DistinctAssumption
    <3>2. info[u].sha # None
      BY <3>1, GoodFilesAreContents, DistinctAssumption DEF DistinctAssumption
    <3> QED
      BY <3>1, <3>2
  <2>2. CASE status[u] \in {"active", "verifying", "failed"}
    BY <1>1, <2>2 DEF IInv, RowsBacked, Bytes
  <2>3. CASE status[u] \in {"unborn", "gone"}
    BY <1>1, <2>3 DEF IInv, RowsBacked, NoRows
  <2> QED
    BY <2>1, <2>2, <2>3 DEF Statuses
<1> QED
  BY <1>1, InductiveInvariant, PTL

\* A published row always has its file, with the bytes that were hashed.
THEOREM PublishedStaysIntact == Spec => []PublishedIntact
<1>1. IInv => PublishedIntact
  BY DEF IInv, ImagesBacked, PublishedIntact
<1> QED
  BY <1>1, InductiveInvariant, PTL

\* Nothing but a whole, fingerprinted video is ever published
\* (_verify_parts_and_sha256, complete_upload_session).
THEOREM PublishedIsVerified == Spec => []PublishedVerified
<1>1. ASSUME IInv PROVE PublishedVerified
  <2> SUFFICES ASSUME NEW c \in Codes, image[c] # None
               PROVE  /\ \A k \in Parts : image[c].sha[k] \in Blobs
                      /\ image[c].sha[0] \in Videos
                      /\ \A k \in Sampled :
                           image[c].sha[k] = Declared[image[c].upload][k]
    BY DEF PublishedVerified
  <2>1. image[c].upload \in Uploads
    BY <1>1 DEF IInv, TypeOK, MediaTypeOK, Images
  <2>2. image[c].sha \in GoodFiles[image[c].upload]
    BY <1>1 DEF IInv, ImagesBacked
  <2> QED
    BY <2>1, <2>2 DEF GoodFiles
<1> QED
  BY <1>1, InductiveInvariant, PTL

\* An upload is published under one code at most.
THEOREM PublishedAtMostOnce == Spec => []PublishedOnce
<1>1. IInv => PublishedOnce
  BY DEF IInv
<1> QED
  BY <1>1, InductiveInvariant, PTL

\* Faults, crashes and recoveries never lose a session's bytes: it fails only
\* with its owner's account gone.
THEOREM FailureMeansNoOwner == Spec => []FailedOnlyWithoutOwner
<1>1. IInv => FailedOnlyWithoutOwner
  BY DEF IInv
<1> QED
  BY <1>1, InductiveInvariant, PTL

\* A verification reads a file that no write, move or removal touches.
THEOREM VerifiedFileStaysFrozen == Spec => VerifiedFileFrozen
<1> DEFINE Frozen == \A u \in Uploads :
             (status[u] = "verifying" /\ status'[u] = "verifying")
               => source'[u] = source[u]
<1>1. ASSUME IInv, [Next]_vars PROVE Frozen
  <2>1. /\ source \in [Uploads -> Contents \cup {None}]
        /\ \A p \in Procs : pc[p] \notin {"idle", "unlinking"} => at[p] \in Uploads
    BY <1>1 DEF IInv, TypeOK, MediaTypeOK, StepsInOrder
  <2>2. ASSUME NEW p \in Putters, PutStep(p) PROVE Frozen
    <3>1. CASE PutWrite(p)
      BY <2>1, <3>1 DEF PutWrite, MayCommitPart, Placed, Procs
    <3>2. CASE PutCommitted(p) \/ PutWriteFails(p)
      <4>1. status[at[p]] = "active" /\ at[p] \in Uploads
        BY <1>1, <2>1, <3>2
           DEF PutCommitted, PutWriteFails, IInv, WritesFounded, Procs
      <4> QED
        BY <2>1, <3>2, <4>1 DEF PutCommitted, PutWriteFails, Written
    <3> QED
      BY <2>2, <3>1, <3>2
         DEF PutStep, PutBegin, PutReceive, PutRefused, PutStaged, PutRejected,
             PutAbandoned, PutRepeated, PutConflict, diskVars
  <2>3. ASSUME NEW c \in Completers, CompleteStep(c) PROVE Frozen
    <3>1. CASE CompleteMoved(c)
      <4>1. Finalizing(at[c]) /\ at[c] \in Uploads
        BY <1>1, <2>1, <3>1 DEF CompleteMoved, IInv, MovesFounded, Procs
      <4> QED
        BY <2>1, <3>1, <4>1 DEF CompleteMoved, MoveToFiles, Finalizing
    <3> QED
      BY <2>3, <3>1
         DEF CompleteStep, CompleteBegin, CompleteVerified, CompleteUnverified,
             CompleteReset, CompleteDenied, CompletePrepared,
             CompleteMoveFails, CompleteRecorded, CompleteRecordFails, diskVars
  <2>4. ASSUME NEW w \in Workers, RecoverStep(w) PROVE Frozen
    <3>1. ASSUME NEW u \in Uploads, RecoverBegin(w, u) PROVE Frozen
      BY <1>1, <3>1, RecoverBeginPointwise DEF Finalizing
    <3>2. CASE RecoverUndo(w)
      BY <1>1, <3>2, UndoPointwise DEF Finalizing
    <3> QED
      BY <2>4, <3>1, <3>2
         DEF RecoverStep, RecoverFault, RecoverVerifying, RecoverPublish,
             RecoverUndone, RecoverFails, diskVars
  <2>5. ASSUME NEW w \in Workers, RemoveStep(w) PROVE Frozen
    <3>1. CASE DirectoryRemoved(w)
      <4>1. status[at[w]] = "gone" /\ at[w] \in Uploads
        BY <1>1, <2>1, <3>1 DEF DirectoryRemoved, IInv, RemovalsFounded, Procs
      <4> QED
        BY <2>1, <3>1, <4>1 DEF DirectoryRemoved, RemoveDirectory
    <3> QED
      BY <2>5, <3>1
         DEF RemoveStep, CancelCommitted, DeleteVideo, FileUnlinked, diskVars
  <2>6. ASSUME NEW u \in Uploads, CleanupDirectory(u) PROVE Frozen
    BY <2>1, <2>6 DEF CleanupDirectory, HasRow, RemoveDirectory
  <2>7. ASSUME NEW w \in Workers, NEW x \in Users, DeleteUser(w, x) PROVE Frozen
    BY <1>1, <2>7, DeleteUserSessions
  <2> QED
    BY <1>1, <2>2, <2>3, <2>4, <2>5, <2>6, <2>7
       DEF Next, AccountStep, CreateUploadSession, Expire, Crash, StartupDone,
           DissolveTeam, RemoveMember, Demote, diskVars, vars
<1>2. [Next]_vars /\ IInv => [Frozen]_vars
  BY <1>1
<1> QED
  BY <1>2, InductiveInvariant, PTL DEF Spec, VerifiedFileFrozen

\* A request authorized before its session was cancelled does not bring the
\* removed directory back (store_upload_part).
THEOREM RemovedDirectoriesStayRemoved == Spec => NoResurrectedDirectory
<1> DEFINE Absent == \A u \in Uploads :
             (status[u] = "gone" /\ u \notin dir) => u \notin dir'
<1>1. ASSUME IInv, [Next]_vars PROVE Absent
  <2>1. ASSUME NEW p \in Putters, PutStep(p) PROVE Absent
    BY <2>1
       DEF PutStep, PutReceive, MayUse, HasRow, PutBegin, PutRefused,
           PutStaged, PutRejected, PutAbandoned, PutWrite, PutRepeated,
           PutConflict, PutCommitted, PutWriteFails, diskVars
  <2>2. ASSUME NEW c \in Completers, CompleteStep(c) PROVE Absent
    BY <2>2
       DEF CompleteStep, CompleteBegin, CompleteVerified, CompleteUnverified,
           CompleteReset, CompleteDenied, CompletePrepared, CompleteMoved,
           CompleteMoveFails, CompleteRecorded, CompleteRecordFails, diskVars
  <2>3. ASSUME NEW w \in Workers, RecoverStep(w) PROVE Absent
    <3>1. CASE RecoverUndo(w)
      BY <1>1, <3>1, UndoPointwise DEF RecoverUndo, Finalizing
    <3> QED
      BY <2>3, <3>1
         DEF RecoverStep, RecoverBegin, RecoverFault, RecoverVerifying,
             RecoverPublish, RecoverUndone, RecoverFails, diskVars
  <2>4. ASSUME NEW w \in Workers, RemoveStep(w) PROVE Absent
    BY <2>4
       DEF RemoveStep, CancelCommitted, DirectoryRemoved, RemoveDirectory,
           DeleteVideo, FileUnlinked, diskVars
  <2>5. ASSUME NEW w \in Workers, NEW u \in Uploads, NEW t \in Teams \cup {None},
               CreateUploadSession(w, u, t)
        PROVE  Absent
    BY <2>5 DEF CreateUploadSession
  <2> QED
    BY <1>1, <2>1, <2>2, <2>3, <2>4, <2>5
       DEF Next, AccountStep, CleanupDirectory, RemoveDirectory, DeleteUser,
           Expire, Crash, StartupDone, DissolveTeam, RemoveMember, Demote,
           diskVars, vars
<1>2. [Next]_vars /\ IInv => [Absent]_vars
  BY <1>1
<1> QED
  BY <1>2, InductiveInvariant, PTL DEF Spec, NoResurrectedDirectory

\* A request between its last check and the commit of its publication still has
\* the authority that the check found.
Authorised ==
    \A c \in Completers : pc[c] \in {"moving", "recording"} =>
        Controls(c, at[c]) /\ MayEnter(c, team[at[c]])

\* A completion walks by its own steps, until the process ends.
LEMMA OwnStepsOnly ==
    ASSUME IInv, Next, NEW c \in Completers, ~CompleteStep(c)
    PROVE  (pc'[c] = pc[c] /\ at'[c] = at[c]) \/ pc'[c] = "idle"
<1>1. /\ c \in Procs /\ c \notin Putters \cup Workers
      /\ pc \in [Procs -> Steps] /\ at \in [Procs -> Uploads \cup {None}]
  BY DistinctAssumption
     DEF Procs, DistinctAssumption, IInv, TypeOK, ProcessTypeOK
<1>2. ASSUME NEW p \in Putters, PutStep(p) PROVE pc'[c] = pc[c] /\ at'[c] = at[c]
  BY <1>1, <1>2
     DEF PutStep, PutBegin, PutReceive, PutRefused, PutStaged, PutRejected,
         PutAbandoned, PutWrite, PutRepeated, PutConflict, PutCommitted,
         PutWriteFails, PutDone, Go, Finish
<1>3. ASSUME NEW d \in Completers \ {c}, CompleteStep(d)
      PROVE  pc'[c] = pc[c] /\ at'[c] = at[c]
  BY <1>1, <1>3
     DEF CompleteStep, CompleteBegin, CompleteVerified, CompleteUnverified,
         CompleteReset, CompleteDenied, CompletePrepared, CompleteMoved,
         CompleteMoveFails, CompleteRecorded, CompleteRecordFails,
         CompleteDone, Go, Finish
<1>4. ASSUME NEW w \in Workers, RecoverStep(w) \/ RemoveStep(w)
      PROVE  pc'[c] = pc[c] /\ at'[c] = at[c]
  BY <1>1, <1>4
     DEF RecoverStep, RecoverBegin, RecoverFault, RecoverVerifying,
         RecoverPublish, RecoverUndo, RecoverUndone, RecoverFails,
         RemoveStep, CancelCommitted, DeleteVideo, DirectoryRemoved,
         FileUnlinked, Go, Finish
<1>5. AccountStep \/ StartupDone => pc'[c] = pc[c] /\ at'[c] = at[c]
  BY DEF AccountStep, DissolveTeam, RemoveMember, Demote, DeleteUser, StartupDone
<1>6. Crash => pc'[c] = "idle"
  BY <1>1 DEF Crash
<1> QED
  BY <1>2, <1>3, <1>4, <1>5, <1>6
     DEF Next, CreateUploadSession, CleanupDirectory, Expire

\* Nobody else changes what the authority of the lease's holder rests on.
LEMMA HolderUndisturbed ==
    ASSUME IInv, Next, NEW c \in Completers, lease = c, ~CompleteStep(c)
    PROVE  UNCHANGED <<accountVars, owner, team>>
<1>1. c \in Procs /\ c \notin Putters \cup Workers /\ ~LeaseFree
  BY DistinctAssumption DEF Procs, DistinctAssumption, LeaseFree
<1>2. \A p \in Procs : pc[p] \in Holding => p = c
  BY DEF IInv, LeaseHeld
<1>3. ASSUME NEW p \in Putters, PutStep(p)
      PROVE  UNCHANGED <<accountVars, owner, team>>
  BY <1>3
     DEF PutStep, PutBegin, PutReceive, PutRefused, PutStaged, PutRejected,
         PutAbandoned, PutWrite, PutRepeated, PutConflict, PutCommitted,
         PutWriteFails, Written, rowVars
<1>4. ASSUME NEW d \in Completers, CompleteStep(d)
      PROVE  UNCHANGED <<accountVars, owner, team>>
  BY <1>4
     DEF CompleteStep, CompleteBegin, CompleteVerified, CompleteUnverified,
         CompleteReset, CompleteDenied, CompletePrepared, CompleteMoved,
         CompleteMoveFails, CompleteRecorded, CompleteRecordFails, rowVars
<1>5. ASSUME NEW w \in Workers, RecoverStep(w) \/ RemoveStep(w)
      PROVE  UNCHANGED <<accountVars, owner, team>>
  BY <1>1, <1>5
     DEF RecoverStep, RecoverBegin, RecoverFault, RecoverVerifying,
         RecoverPublish, RecoverUndo, RecoverUndone, RecoverFails,
         RemoveStep, CancelCommitted, DeleteVideo, DirectoryRemoved,
         FileUnlinked, rowVars
<1>6. ~AccountStep
  BY <1>1 DEF AccountStep, DissolveTeam, RemoveMember, Demote, DeleteUser,
              AccountChange
<1> QED
  BY <1>1, <1>3, <1>4, <1>5, <1>6
     DEF Next, CreateUploadSession, CleanupDirectory, Expire, Crash,
         StartupDone, rowVars

\* What the last check found stays until the publication is committed.
LEMMA AuthorityLasts == ASSUME IInv, Authorised, [Next]_vars PROVE Authorised'
<1> SUFFICES ASSUME NEW c \in Completers, pc'[c] \in {"moving", "recording"}
             PROVE  (Controls(c, at[c]) /\ MayEnter(c, team[at[c]]))'
  BY DEF Authorised
<1>1. c \in Procs /\ pc \in [Procs -> Steps] /\ at \in [Procs -> Uploads \cup {None}]
  BY DEF Procs, IInv, TypeOK, ProcessTypeOK
<1>2. ASSUME UNCHANGED <<accountVars, owner, team>>, at'[c] = at[c],
             Controls(c, at[c]), MayEnter(c, team[at[c]])
      PROVE  (Controls(c, at[c]) /\ MayEnter(c, team[at[c]]))'
  BY <1>2 DEF Controls, MayEnter, GlobalAdmin, accountVars
<1>3. CASE CompletePrepared(c)
  BY <1>2, <1>3 DEF CompletePrepared, MayPublish, MayUse
<1>4. CASE CompleteMoved(c)
  BY <1>2, <1>4 DEF CompleteMoved, rowVars, Authorised
<1>5. CASE UNCHANGED vars
  BY <1>2, <1>5 DEF vars, rowVars, Authorised
<1>6. CASE CompleteStep(c) /\ ~CompletePrepared(c) /\ ~CompleteMoved(c)
  BY <1>1, <1>6
     DEF CompleteStep, CompleteBegin, CompleteVerified, CompleteUnverified,
         CompleteReset, CompleteDenied, CompleteMoveFails, CompleteRecorded,
         CompleteRecordFails, CompleteDone, Go, Finish
<1>7. CASE Next /\ ~CompleteStep(c)
  <2>1. pc[c] \in {"moving", "recording"} /\ at'[c] = at[c]
    BY <1>7, OwnStepsOnly
  <2>2. lease = c
    BY <1>1, <2>1 DEF IInv, LeaseHeld, Holding
  <2> QED
    BY <1>2, <1>7, <2>1, <2>2, HolderUndisturbed DEF Authorised
<1> QED
  BY <1>3, <1>4, <1>5, <1>6, <1>7

\* Only the two commits that publish complete a session.
LEMMA CompletedByPublication ==
    ASSUME IInv, [Next]_vars, NEW u \in Uploads,
           status[u] # "completed", status'[u] = "completed"
    PROVE  \/ \E c \in Completers : pc[c] = "recording" /\ at[c] = u
           \/ \E w \in Workers :
                pc[w] = "deciding" /\ at[w] = u /\ OwnerMayPublish(u)
<1>1. /\ status \in [Uploads -> Statuses]
      /\ \A p \in Procs : pc[p] \notin {"idle", "unlinking"} => at[p] \in Uploads
  BY DEF IInv, TypeOK, SessionTypeOK, StepsInOrder
<1>2. ASSUME NEW p \in Putters, PutStep(p) PROVE FALSE
  BY <1>1, <1>2
     DEF PutStep, PutBegin, PutReceive, PutRefused, PutStaged, PutRejected,
         PutAbandoned, PutWrite, PutRepeated, PutConflict, PutCommitted,
         PutWriteFails, Written, rowVars
<1>3. ASSUME NEW c \in Completers, CompleteStep(c)
      PROVE  pc[c] = "recording" /\ at[c] = u
  <2>1. CASE CompleteRecorded(c)
    BY <1>1, <2>1 DEF CompleteRecorded, Publish, Procs
  <2>2. CASE ~CompleteRecorded(c)
    BY <1>1, <1>3, <2>2
       DEF CompleteStep, CompleteBegin, CompleteVerified, CompleteUnverified,
           CompleteReset, CompleteDenied, CompletePrepared, CompleteMoved,
           CompleteMoveFails, CompleteRecordFails, ReturnToActive,
           SettledStatus, rowVars, Procs
  <2> QED
    BY <2>1, <2>2
<1>4. ASSUME NEW w \in Workers, RecoverStep(w)
      PROVE  pc[w] = "deciding" /\ at[w] = u /\ OwnerMayPublish(u)
  <2>1. CASE RecoverPublish(w)
    BY <1>1, <2>1 DEF RecoverPublish, Publish, Procs
  <2>2. CASE ~RecoverPublish(w)
    BY <1>1, <1>4, <2>2
       DEF RecoverStep, RecoverBegin, RecoverFault, RecoverVerifying,
           RecoverUndo, RecoverUndone, RecoverFails, SettledStatus, rowVars,
           Procs
  <2> QED
    BY <2>1, <2>2
<1>5. ASSUME NEW w \in Workers, RemoveStep(w) PROVE FALSE
  BY <1>1, <1>5
     DEF RemoveStep, CancelCommitted, DropRows, DeleteVideo, DirectoryRemoved,
         FileUnlinked, rowVars
<1>6. ~AccountStep
  <2>1. ASSUME NEW w \in Workers, NEW x \in Users, DeleteUser(w, x) PROVE FALSE
    <3>1. status'[u] \in {"gone", status[u]}
      BY <2>1 DEF DeleteUser
    <3> QED
      BY <3>1
  <2> QED
    BY <2>1 DEF AccountStep, DissolveTeam, RemoveMember, Demote, rowVars
<1> QED
  BY <1>1, <1>2, <1>3, <1>4, <1>5, <1>6
     DEF Next, vars, CreateUploadSession, CleanupDirectory, Expire, Crash,
         StartupDone, rowVars

\* Who publishes may do so at the moment of the commit, however long ago the
\* upload was checked and hashed (complete_upload_session,
\* recover_finalizing_session).
THEOREM PublicationIsAuthorised == Spec => PublishedWithAuthority
<1> DEFINE Permitted == \A u \in Uploads :
             (status[u] # "completed" /\ status'[u] = "completed") => CouldPublish(u)
<1>1. Init => Authorised
  BY DEF Init, Authorised, Procs
<1>2. Spec => []Authorised
  BY <1>1, AuthorityLasts, InductiveInvariant, PTL DEF Spec
<1>3. ASSUME IInv, Authorised, [Next]_vars PROVE Permitted
  <2> SUFFICES ASSUME NEW u \in Uploads,
                      status[u] # "completed", status'[u] = "completed"
               PROVE  CouldPublish(u)
    OBVIOUS
  <2>1. CASE \E c \in Completers : pc[c] = "recording" /\ at[c] = u
    BY <1>3, <2>1 DEF Authorised, CouldPublish, Controls
  <2>2. CASE ~\E c \in Completers : pc[c] = "recording" /\ at[c] = u
    <3>1. OwnerMayPublish(u)
      BY <1>3, <2>2, CompletedByPublication
    <3> QED
      BY <2>2, <3>1 DEF CouldPublish, OwnerMayPublish
  <2> QED
    BY <2>1, <2>2
<1>4. [Next]_vars /\ IInv /\ Authorised => [Permitted]_vars
  BY <1>3
<1> QED
  BY <1>2, <1>4, InductiveInvariant, PTL DEF Spec, PublishedWithAuthority

-----------------------------------------------------------------------------
(* Refinement.  Under IInv every step opens, publishes, withdraws or leaves  *)
(* what is served alone, and so VideoUpload implements Publication.          *)

\* What the abstract library can see of a state.
SameStatus == \A u \in Uploads : AbstractStatus(status'[u]) = AbstractStatus(status[u])
SameServed ==
    \A c \in Codes :
        \/ image[c] = None /\ image'[c] = None
        \/ /\ image[c] # None /\ image'[c] # None
           /\ image'[c].upload = image[c].upload /\ files'[c] = files[c]

\* The empty system maps to the empty library.
LEMMA InitRefines == Init => Pub!Init
  BY DEF Init, Pub!Init, AbstractSession, AbstractLibrary, AbstractStatus

\* A step that keeps open sessions open, and published files, is a stutter.
LEMMA HiddenStep ==
    ASSUME SameStatus, SameServed
    PROVE  UNCHANGED Pub!pubVars
  BY DEF SameStatus, SameServed, AbstractSession, AbstractLibrary, Pub!pubVars

\* The commit of _create_final_image is the abstract publication.
LEMMA PublishRefines ==
    ASSUME IInv, NEW u \in Uploads, Finalizing(u), source[u] = None, Publish(u),
           UNCHANGED files
    PROVE  Pub!Next
<1> DEFINE code == info[u].code
           sha == info[u].sha
<1>1. code \in Codes /\ sha \in GoodFiles[u] /\ image[code] = None /\ files[code] = sha
  BY DistinctAssumption, GoodFilesAreContents
     DEF IInv, FinalizingRecorded, DistinctAssumption
<1>2. /\ image'[code] # None /\ image'[code].upload = u
      /\ \A d \in Codes \ {code} : image'[d] = image[d]
      /\ status'[u] = "completed"
      /\ \A v \in Uploads \ {u} : status'[v] = status[v]
  BY PublishPointwise
<1>3. AbstractSession[u] = "open"
  BY DEF AbstractSession, AbstractStatus, Finalizing
<1>4. AbstractSession' = [AbstractSession EXCEPT ![u] = "published"]
  BY <1>2 DEF AbstractSession, AbstractStatus
<1>5. AbstractLibrary[code] = None
  BY <1>1 DEF AbstractLibrary
<1>6. AbstractLibrary' = [AbstractLibrary EXCEPT ![code] = [upload |-> u, file |-> sha]]
  BY <1>1, <1>2 DEF AbstractLibrary
<1>7. Pub!Publish(u, code, sha)
  BY <1>3, <1>4, <1>5, <1>6 DEF Pub!Publish
<1> QED
  BY <1>1, <1>7 DEF Pub!Next

\* Rows that go withdraw what they named, and touch nothing else.
LEMMA WithdrawRefines ==
    ASSUME NEW us \in SUBSET Uploads, NEW cs \in SUBSET Codes,
           \A u \in us : HasRow(u),
           status \in [Uploads -> Statuses],
           \A u \in Uploads : status'[u] = IF u \in us THEN "gone" ELSE status[u],
           \A c \in cs : image'[c] = None,
           \A c \in Codes \ cs :
               \/ image[c] = None /\ image'[c] = None
               \/ /\ image[c] # None /\ image'[c] # None
                  /\ image'[c].upload = image[c].upload /\ files'[c] = files[c]
    PROVE  Pub!Next
<1>1. \A u \in us : AbstractSession[u] \in {"open", "published"}
  BY DEF AbstractSession, AbstractStatus, HasRow
<1>2. AbstractSession' = [u \in Uploads |-> IF u \in us THEN "gone" ELSE AbstractSession[u]]
  BY DEF AbstractSession, AbstractStatus
<1>3. AbstractLibrary' = [c \in Codes |-> IF c \in cs THEN None ELSE AbstractLibrary[c]]
  BY DEF AbstractLibrary
<1>4. Pub!Withdraw(us, cs)
  BY <1>1, <1>2, <1>3 DEF Pub!Withdraw
<1> QED
  BY <1>4 DEF Pub!Next

\* A created session is the abstract Open.
LEMMA CreateRefines ==
    ASSUME IInv, NEW w \in Workers, NEW u \in Uploads, NEW t \in Teams \cup {None},
           CreateUploadSession(w, u, t)
    PROVE  Pub!Next
<1>1. status[u] = "unborn" /\ status' = [status EXCEPT ![u] = "active"]
      /\ UNCHANGED <<image, files>>
  BY DEF CreateUploadSession
<1>2. status \in [Uploads -> Statuses]
  BY DEF IInv, TypeOK, SessionTypeOK
<1>3. AbstractSession[u] = "unborn"
  BY <1>1 DEF AbstractSession, AbstractStatus
<1>4. AbstractSession' = [AbstractSession EXCEPT ![u] = "open"]
  BY <1>1, <1>2 DEF AbstractSession, AbstractStatus
<1>5. AbstractLibrary' = AbstractLibrary
  BY <1>1 DEF AbstractLibrary
<1>6. Pub!Open(u)
  BY <1>3, <1>4, <1>5 DEF Pub!Open
<1> QED
  BY <1>6 DEF Pub!Next

\* No step of a PUT shows in the library.
LEMMA PutRefines ==
    ASSUME NEW p \in Putters, PutStep(p)
    PROVE  UNCHANGED Pub!pubVars
<1>1. UNCHANGED <<status, image, files>>
  BY DEF PutStep, PutBegin, PutReceive, PutRefused, PutStaged, PutRejected,
         PutAbandoned, PutWrite, PutRepeated, PutConflict, PutCommitted,
         PutWriteFails, rowVars, diskVars
<1> QED
  BY <1>1, HiddenStep DEF SameStatus, SameServed

\* Of a completion, only its recording does.
LEMMA CompleteRefines ==
    ASSUME IInv, NEW c \in Completers, CompleteStep(c)
    PROVE  Pub!Next \/ UNCHANGED Pub!pubVars
<1> USE DEF Procs
<1>1. /\ status \in [Uploads -> Statuses]
      /\ files \in [Codes -> Contents \cup {None}]
      /\ pc[c] # "idle" => at[c] \in Uploads
      /\ info \in [Uploads -> Infos]
  BY DEF IInv, TypeOK, SessionTypeOK, MediaTypeOK, StepsInOrder, Procs
<1>2. CASE \E u \in Uploads : CompleteBegin(c, u)
  <2>1. SameStatus
    BY <1>1, <1>2 DEF CompleteBegin, SameStatus, AbstractStatus
  <2>2. SameServed
    BY <1>2 DEF CompleteBegin, SameServed, diskVars
  <2> QED
    BY <2>1, <2>2, HiddenStep
<1>3. CASE CompleteVerified(c) \/ CompleteUnverified(c) \/ CompleteRecordFails(c)
  BY <1>3, HiddenStep
     DEF CompleteVerified, CompleteUnverified, CompleteRecordFails, rowVars,
         diskVars, SameStatus, SameServed
<1>4. CASE CompleteReset(c) \/ CompleteDenied(c)
  <2>1. SameStatus
    BY <1>1, <1>4
       DEF CompleteReset, CompleteDenied, ReturnToActive, SettledStatus,
           HasNonce, SameStatus, AbstractStatus
  <2>2. SameServed
    BY <1>4 DEF CompleteReset, CompleteDenied, SameServed, diskVars
  <2> QED
    BY <2>1, <2>2, HiddenStep
<1>5. CASE CompletePrepared(c)
  <2>1. SameStatus
    BY <1>1, <1>5
       DEF CompletePrepared, MayPublish, HasNonce, SameStatus, AbstractStatus
  <2>2. SameServed
    BY <1>5 DEF CompletePrepared, SameServed, diskVars
  <2> QED
    BY <2>1, <2>2, HiddenStep
<1>6. CASE CompleteMoved(c)
  <2>1. Finalizing(at[c]) /\ at[c] \in Uploads
    BY <1>1, <1>6 DEF CompleteMoved, IInv, MovesFounded
  <2>2. image[info[at[c]].code] = None
    BY <2>1 DEF IInv, FinalizingRecorded
  <2>3. SameServed
    BY <1>1, <1>6, <2>2 DEF CompleteMoved, MoveToFiles, SameServed
  <2>4. SameStatus
    BY <1>6 DEF CompleteMoved, SameStatus, rowVars
  <2> QED
    BY <2>3, <2>4, HiddenStep
<1>7. CASE CompleteMoveFails(c)
  <2>1. Finalizing(at[c]) /\ at[c] \in Uploads
    BY <1>1, <1>7 DEF CompleteMoveFails, IInv, MovesFounded
  <2>2. SameStatus
    BY <1>1, <1>7, <2>1
       DEF CompleteMoveFails, Finalizing, SameStatus, AbstractStatus
  <2>3. SameServed
    BY <1>7 DEF CompleteMoveFails, SameServed, diskVars
  <2> QED
    BY <2>2, <2>3, HiddenStep
<1>8. CASE CompleteRecorded(c)
  <2>1. Finalizing(at[c]) /\ at[c] \in Uploads /\ source[at[c]] = None
    BY <1>1, <1>8 DEF CompleteRecorded, IInv, MovesFounded
  <2>2. Publish(at[c]) /\ UNCHANGED files
    BY <1>8 DEF CompleteRecorded
  <2> QED
    BY <2>1, <2>2, PublishRefines
<1> QED
  BY <1>2, <1>3, <1>4, <1>5, <1>6, <1>7, <1>8 DEF CompleteStep

\* Of a recovery, only its publication does.
LEMMA RecoverRefines ==
    ASSUME IInv, NEW w \in Workers, RecoverStep(w)
    PROVE  Pub!Next \/ UNCHANGED Pub!pubVars
<1> USE DEF Procs
<1>1. /\ status \in [Uploads -> Statuses]
      /\ files \in [Codes -> Contents \cup {None}]
      /\ pc[w] \notin {"idle", "unlinking"} => at[w] \in Uploads
  BY DEF IInv, TypeOK, SessionTypeOK, MediaTypeOK, StepsInOrder
<1>2. ASSUME NEW u \in Uploads, RecoverBegin(w, u) PROVE UNCHANGED Pub!pubVars
  <2>1. /\ UNCHANGED <<status, image>> /\ image[info[u].code] = None
        /\ \A d \in Codes \ {info[u].code} : files'[d] = files[d]
    BY <1>2, RecoverBeginPointwise DEF rowVars
  <2> QED
    BY <2>1, HiddenStep DEF SameStatus, SameServed
<1>3. ASSUME NEW u \in Uploads, RecoverFault(w, u) PROVE UNCHANGED Pub!pubVars
  BY <1>3, HiddenStep DEF RecoverFault, rowVars, diskVars, SameStatus, SameServed
<1>4. ASSUME NEW u \in Uploads, RecoverVerifying(w, u) PROVE UNCHANGED Pub!pubVars
  <2>1. SameStatus
    BY <1>1, <1>4
       DEF RecoverVerifying, SettledStatus, SameStatus, AbstractStatus
  <2> QED
    BY <1>4, <2>1, HiddenStep DEF RecoverVerifying, diskVars, SameServed
<1>5. CASE RecoverPublish(w)
  <2>1. Finalizing(at[w]) /\ at[w] \in Uploads /\ source[at[w]] = None
    BY <1>1, <1>5 DEF RecoverPublish, IInv, MovesFounded
  <2>2. Publish(at[w]) /\ UNCHANGED files
    BY <1>5 DEF RecoverPublish, diskVars
  <2> QED
    BY <2>1, <2>2, PublishRefines
<1>6. CASE RecoverUndo(w)
  <2>1. /\ image[info[at[w]].code] = None
        /\ \A d \in Codes \ {info[at[w]].code} : files'[d] = files[d]
    BY <1>6, UndoPointwise
  <2> QED
    BY <1>6, <2>1, HiddenStep DEF RecoverUndo, rowVars, SameStatus, SameServed
<1>7. CASE RecoverUndone(w)
  <2>1. Finalizing(at[w]) /\ at[w] \in Uploads
    BY <1>1, <1>7 DEF RecoverUndone, IInv, MovesFounded
  <2>2. SameStatus
    BY <1>1, <1>7, <2>1 DEF RecoverUndone, Finalizing, SameStatus, AbstractStatus
  <2> QED
    BY <1>7, <2>2, HiddenStep DEF RecoverUndone, diskVars, SameServed
<1>8. CASE RecoverFails(w)
  BY <1>8, HiddenStep DEF RecoverFails, rowVars, diskVars, SameStatus, SameServed
<1> QED
  BY <1>2, <1>3, <1>4, <1>5, <1>6, <1>7, <1>8 DEF RecoverStep

\* Cancelling withdraws a session, deleting withdraws a video; the files that
\* go afterwards nothing serves.
LEMMA RemoveRefines ==
    ASSUME IInv, NEW w \in Workers, RemoveStep(w)
    PROVE  Pub!Next \/ UNCHANGED Pub!pubVars
<1>1. /\ status \in [Uploads -> Statuses]
      /\ files \in [Codes -> Contents \cup {None}]
  BY DEF IInv, TypeOK, SessionTypeOK, MediaTypeOK
<1>2. ASSUME NEW u \in Uploads, CancelCommitted(w, u) PROVE Pub!Next
  <2>1. HasRow(u) /\ UNCHANGED <<image, files>>
    BY <1>2 DEF CancelCommitted, MayUse, HasRow, diskVars
  <2>2. \A v \in Uploads : status'[v] = IF v \in {u} THEN "gone" ELSE status[v]
    BY <1>2 DEF CancelCommitted, DropRows
  <2>3. /\ {u} \in SUBSET Uploads /\ {} \in SUBSET Codes
        /\ \A v \in {u} : HasRow(v)
        /\ \A c \in {} : image'[c] = None
    BY <2>1
  <2>4. \A c \in Codes \ {} :
          \/ image[c] = None /\ image'[c] = None
          \/ /\ image[c] # None /\ image'[c] # None
             /\ image'[c].upload = image[c].upload /\ files'[c] = files[c]
    BY <2>1
  <2> QED
    BY <1>1, <2>2, <2>3, <2>4, WithdrawRefines
<1>3. ASSUME NEW c \in Codes, DeleteVideo(w, c) PROVE Pub!Next
  <2>1. /\ image' = [image EXCEPT ![c] = None] /\ UNCHANGED <<status, files>>
        /\ image \in [Codes -> Images \cup {None}]
    BY <1>3 DEF DeleteVideo, rowVars, diskVars, IInv, TypeOK, MediaTypeOK
  <2>2. \A d \in {c} : image'[d] = None
    BY <2>1
  <2>3. \A d \in Codes \ {c} :
          \/ image[d] = None /\ image'[d] = None
          \/ /\ image[d] # None /\ image'[d] # None
             /\ image'[d].upload = image[d].upload /\ files'[d] = files[d]
    BY <2>1
  <2>4. \A u \in Uploads : status'[u] = IF u \in {} THEN "gone" ELSE status[u]
    BY <2>1
  <2>5. /\ {} \in SUBSET Uploads /\ {c} \in SUBSET Codes
        /\ \A u \in {} : HasRow(u)
    OBVIOUS
  <2> QED
    BY <1>1, <2>2, <2>3, <2>4, <2>5, WithdrawRefines
<1>4. CASE DirectoryRemoved(w)
  BY <1>4, HiddenStep DEF DirectoryRemoved, rowVars, SameStatus, SameServed
<1>5. CASE FileUnlinked(w)
  <2>1. target[w] # None => image[target[w]] = None
    BY <1>5 DEF FileUnlinked, IInv, RemovalsFounded
  <2>2. \A c \in Codes : image[c] # None => files'[c] = files[c]
    BY <1>5, <2>1, DistinctAssumption DEF FileUnlinked, DistinctAssumption
  <2> QED
    BY <1>5, <2>2, HiddenStep DEF FileUnlinked, rowVars, SameStatus, SameServed
<1> QED
  BY <1>2, <1>3, <1>4, <1>5 DEF RemoveStep

\* Deleting an account withdraws its personal sessions and videos; teams and
\* memberships do not show.
LEMMA AccountRefines ==
    ASSUME IInv, AccountStep
    PROVE  Pub!Next \/ UNCHANGED Pub!pubVars
<1>1. /\ status \in [Uploads -> Statuses]
      /\ image \in [Codes -> Images \cup {None}]
  BY DEF IInv, TypeOK, SessionTypeOK, MediaTypeOK
<1>2. ASSUME NEW t \in Teams, DissolveTeam(t) PROVE UNCHANGED Pub!pubVars
  <2>1. SameServed
    BY <1>1, <1>2, DistinctAssumption
       DEF DissolveTeam, diskVars, SameServed, Images, DistinctAssumption
  <2> QED
    BY <1>2, <2>1, HiddenStep DEF DissolveTeam, SameStatus
<1>3. ASSUME NEW t \in Teams, NEW x \in Users, RemoveMember(t, x)
      PROVE  UNCHANGED Pub!pubVars
  BY <1>3, HiddenStep DEF RemoveMember, rowVars, diskVars, SameStatus, SameServed
<1>4. ASSUME NEW x \in Users, Demote(x) PROVE UNCHANGED Pub!pubVars
  BY <1>4, HiddenStep DEF Demote, rowVars, diskVars, SameStatus, SameServed
<1>5. ASSUME NEW x \in Users, NEW w \in Workers, DeleteUser(w, x) PROVE Pub!Next
  <2>1. /\ Personal(x) \in SUBSET Uploads /\ Bare(x) \in SUBSET Codes
        /\ \A u \in Personal(x) : HasRow(u)
    BY DEF Personal, Bare
  <2>2. \A u \in Uploads :
          status'[u] = IF u \in Personal(x) THEN "gone" ELSE status[u]
    BY <1>5 DEF DeleteUser
  <2>3. \A c \in Bare(x) : image'[c] = None
    BY <1>5, <2>1 DEF DeleteUser, HandOver
  <2>4. \A c \in Codes \ Bare(x) : image[c] = None <=> image'[c] = None
    <3>1. PICK heir \in Heirs(w, x) : HandOver(x, heir)
      BY <1>5 DEF DeleteUser
    <3>2. SUFFICES ASSUME NEW c \in Codes \ Bare(x)
                   PROVE  image[c] = None <=> image'[c] = None
      OBVIOUS
    <3>3. CASE image[c] = None
      BY <3>1, <3>3 DEF HandOver
    <3>4. CASE image[c] # None
      <4>1. image[c] \in Images
        BY <1>1, <3>4
      <4>2. \/ image'[c] = image[c]
            \/ /\ image'[c] = [image[c] EXCEPT !.owner = heir[image[c].team]]
               /\ image[c].team \in Shared(x)
        BY <3>1, <3>4 DEF HandOver
      <4>3. image[c].team \in Shared(x) => heir[image[c].team] \in Users
        BY <3>1 DEF Heirs, Shared, IInv, TypeOK, AccountTypeOK
      <4>4. image'[c] \in Images
        BY <4>1, <4>2, <4>3 DEF Images
      <4> QED
        BY <3>4, <4>4, DistinctAssumption DEF DistinctAssumption
    <3> QED
      BY <3>3, <3>4
  <2>5. \A c \in Codes : image'[c] # None =>
          image'[c].upload = image[c].upload /\ files'[c] = files[c]
    BY <1>5, DeleteUserMedia
  <2>6. \A c \in Codes \ Bare(x) :
          \/ image[c] = None /\ image'[c] = None
          \/ /\ image[c] # None /\ image'[c] # None
             /\ image'[c].upload = image[c].upload /\ files'[c] = files[c]
    BY <2>4, <2>5
  <2> QED
    BY <1>1, <2>1, <2>2, <2>3, <2>6, WithdrawRefines
<1> QED
  BY <1>2, <1>3, <1>4, <1>5 DEF AccountStep

\* Every step maps to an abstract step or to none.
LEMMA StepRefines ==
    ASSUME IInv, [Next]_vars
    PROVE  [Pub!Next]_Pub!pubVars
<1>1. ASSUME UNCHANGED vars PROVE UNCHANGED Pub!pubVars
  BY <1>1, HiddenStep DEF vars, rowVars, diskVars, SameStatus, SameServed
<1>2. ASSUME NEW u \in Uploads, CleanupDirectory(u) \/ Expire(u)
      PROVE  UNCHANGED Pub!pubVars
  BY <1>2, HiddenStep
     DEF CleanupDirectory, Expire, rowVars, diskVars, SameStatus, SameServed
<1>3. ASSUME Crash \/ StartupDone PROVE UNCHANGED Pub!pubVars
  BY <1>3, HiddenStep
     DEF Crash, StartupDone, rowVars, diskVars, SameStatus, SameServed
<1> QED
  BY <1>1, <1>2, <1>3, CreateRefines, PutRefines, CompleteRefines,
     RecoverRefines, RemoveRefines, AccountRefines
     DEF Next

\* Rows, files, locks, faults and crashes together behave as one atomic
\* library (app/services/videos.py implements Publication).
THEOREM Refinement == Spec => ImplementsPublication
<1>1. IInv /\ [Next]_vars => [Pub!Next]_Pub!pubVars
  BY StepRefines
<1> QED
  BY <1>1, InitRefines, InductiveInvariant, PTL
     DEF Spec, Pub!Spec, ImplementsPublication

-----------------------------------------------------------------------------
(* Gates, slots and lease are used the way UploadAccess says.              *)

Working == {"writing", "removing", "unlinking"}

\* A request between two calls has no upload in hand.
IdleEmptyHanded == \A p \in Procs : pc[p] = "idle" => at[p] = None

\* A request that uses no upload's files.
Aside(p) == pc[p] # "receiving" /\ ~(pc[p] \in Working /\ at[p] # None)

\* What a step of p leaves to the others.
OnlyMoves(p) == \A q \in Procs \ {p} : pc'[q] = pc[q] /\ at'[q] = at[q]

\* A request that uses no files before and after its step does not show.
LEMMA AsideUnseen ==
    ASSUME NEW p \in Procs, OnlyMoves(p), Aside(p), Aside(p)'
    PROVE  UNCHANGED Access!accessVars
<1>1. Inbound' = Inbound
  BY DEF Inbound, OnlyMoves, Aside
<1>2. AtFiles' = AtFiles
  BY DEF AtFiles, OnlyMoves, Aside, Working
<1> QED
  BY <1>1, <1>2 DEF Access!accessVars

\* Nor does one that goes on with the files it works on.
LEMMA StillUnseen ==
    ASSUME NEW p \in Procs, OnlyMoves(p), at'[p] = at[p],
           pc[p] \in Working, pc'[p] \in Working
    PROVE  UNCHANGED Access!accessVars
<1>1. Inbound' = Inbound
  BY DEF Inbound, OnlyMoves, Working
<1>2. AtFiles' = AtFiles
  BY DEF AtFiles, OnlyMoves, Working
<1> QED
  BY <1>1, <1>2 DEF Access!accessVars

\* A free gate means that nobody uses the upload.
LEMMA FreeGateUnused ==
    ASSUME NEW u \in Uploads, GateFree(u)
    PROVE  ~Access!InUse(u)
  BY DEF GateFree, GateHolders, Access!InUse, Inbound, AtFiles

\* A free lease means that nobody works on files.
LEMMA FreeLeaseUnused ==
    ASSUME IInv, LeaseFree
    PROVE  AtFiles = Access!Nothing
  BY NobodyHolds DEF AtFiles, Access!Nothing, Holding

\* Gate and slot: the body streams (PutReceive).
LEMMA ReceiveStreams ==
    ASSUME IInv, NEW p \in Putters, PutReceive(p)
    PROVE  Access!Stream(p, at[p])
<1>1. p \in Procs /\ pc \in [Procs -> Steps] /\ pc[p] = "waiting"
  BY DEF PutReceive, Procs, IInv, TypeOK, ProcessTypeOK
<1>2. at[p] \in Uploads /\ GateFree(at[p])
  BY <1>1 DEF PutReceive, IInv, StepsInOrder
<1>3. /\ Inbound[p] = {} /\ Inbound' = [Inbound EXCEPT ![p] = {at[p]}]
      /\ AtFiles' = AtFiles
  BY <1>1 DEF PutReceive, Go, Inbound, AtFiles
<1>4. Access!Streaming = Receiving
  <2>1. \A q \in Procs : pc[q] = "receiving" => q \in Putters
    BY DEF IInv, StepsInOrder, Procs
  <2> QED
    BY <2>1 DEF Access!Streaming, Receiving, Inbound, Procs
<1>5. Access!Cardinality(Access!Streaming) < PartSlots
  BY <1>4 DEF PutReceive, Access!Cardinality, Cardinality
<1> QED
  BY <1>2, <1>3, <1>5, FreeGateUnused DEF Access!Stream

\* The body ends: gate and slot go (PutStaged, PutRejected).
LEMMA ReceivedRefines ==
    ASSUME IInv, NEW p \in Putters, PutStaged(p) \/ PutRejected(p)
    PROVE  Access!Staged(p)
<1>1. p \in Procs /\ pc \in [Procs -> Steps] /\ pc[p] = "receiving"
      /\ at \in [Procs -> Uploads \cup {None}]
  BY DEF PutStaged, PutRejected, Procs, IInv, TypeOK, ProcessTypeOK
<1>2. pc'[p] \in {"staged", "idle"} /\ OnlyMoves(p)
  BY <1>1 DEF PutStaged, PutRejected, PutDone, Go, Finish, OnlyMoves
<1>3. Inbound' = [Inbound EXCEPT ![p] = {}] /\ AtFiles' = AtFiles
  BY <1>1, <1>2 DEF Inbound, AtFiles, OnlyMoves
<1> QED
  BY <1>3 DEF Access!Staged

\* Lease and gate: the files are worked on (PutWrite, CancelCommitted).
LEMMA WorkBegins ==
    ASSUME IInv, NEW p \in Procs, NEW u \in Uploads, LeaseFree, GateFree(u),
           OnlyMoves(p), pc[p] # "receiving", pc'[p] \in Working, at'[p] = u
    PROVE  Access!Work(p, u)
<1>1. AtFiles = Access!Nothing /\ ~Access!InUse(u)
  BY FreeGateUnused, FreeLeaseUnused
<1>2. Inbound' = Inbound
  BY DEF Inbound, OnlyMoves, Working
<1>3. AtFiles' = [AtFiles EXCEPT ![p] = {u}]
  BY DistinctAssumption DEF AtFiles, OnlyMoves, Working, DistinctAssumption
<1> QED
  BY <1>1, <1>2, <1>3 DEF Access!Work

\* The work is done (PutCommitted, PutWriteFails, FileUnlinked).
LEMMA WorkEnds ==
    ASSUME NEW p \in Procs, OnlyMoves(p), pc[p] \in Working, pc'[p] = "idle"
    PROVE  Access!Done(p)
<1>1. Inbound' = Inbound
  BY DEF Inbound, OnlyMoves, Working
<1>2. AtFiles' = [AtFiles EXCEPT ![p] = {}]
  BY DEF AtFiles, OnlyMoves
<1> QED
  BY <1>1, <1>2 DEF Access!Done

\* The steps of a PUT.
LEMMA PutAccess ==
    ASSUME IInv, NEW p \in Putters, PutStep(p)
    PROVE  [Access!Next]_Access!accessVars
<1>1. p \in Procs /\ pc \in [Procs -> Steps]
      /\ at \in [Procs -> Uploads \cup {None}]
  BY DEF Procs, IInv, TypeOK, ProcessTypeOK
<1>2. OnlyMoves(p)
  BY <1>1
     DEF PutStep, PutBegin, PutReceive, PutRefused, PutStaged, PutRejected,
         PutAbandoned, PutWrite, PutRepeated, PutConflict, PutCommitted,
         PutWriteFails, PutDone, Go, Finish, OnlyMoves
<1>3. CASE PutReceive(p)
  <2>1. at[p] \in Uploads
    BY <1>1, <1>3 DEF PutReceive, IInv, StepsInOrder
  <2> QED
    BY <1>1, <1>3, <2>1, ReceiveStreams DEF Access!Next
<1>4. CASE PutStaged(p) \/ PutRejected(p)
  BY <1>1, <1>4, ReceivedRefines DEF Access!Next
<1>5. CASE PutWrite(p)
  <2>1. /\ pc[p] = "staged" /\ pc'[p] = "writing"
        /\ LeaseFree /\ GateFree(at[p]) /\ at' = at
    BY <1>1, <1>5 DEF PutWrite, Go
  <2>2. at[p] \in Uploads
    BY <1>1, <2>1 DEF IInv, StepsInOrder
  <2> QED
    BY <1>1, <1>2, <2>1, <2>2, WorkBegins DEF Access!Next, Working
<1>6. CASE PutCommitted(p) \/ PutWriteFails(p)
  <2>1. pc[p] \in Working /\ pc'[p] = "idle"
    BY <1>1, <1>6
       DEF PutCommitted, PutWriteFails, PutDone, Finish, Working
  <2> QED
    BY <1>1, <1>2, <2>1, WorkEnds DEF Access!Next
<1>7. CASE \/ \E u \in Uploads, k \in Parts, b \in Blobs : PutBegin(p, u, k, b)
           \/ PutRefused(p) \/ PutAbandoned(p) \/ PutRepeated(p)
           \/ PutConflict(p)
  <2>1. Aside(p) /\ Aside(p)'
    BY <1>1, <1>7
       DEF PutBegin, PutRefused, PutAbandoned, PutRepeated, PutConflict,
           PutDone, Go, Finish, Aside, Working
  <2> QED
    BY <1>1, <1>2, <2>1, AsideUnseen
<1> QED
  BY <1>3, <1>4, <1>5, <1>6, <1>7 DEF PutStep

\* A completion holds the lease, and moves the file whole.
LEMMA CompletionUnseen ==
    ASSUME IInv, NEW c \in Completers, CompleteStep(c)
    PROVE  UNCHANGED Access!accessVars
<1>1. c \in Procs /\ pc \in [Procs -> Steps]
      /\ at \in [Procs -> Uploads \cup {None}]
  BY DEF Procs, IInv, TypeOK, ProcessTypeOK
<1>2. OnlyMoves(c) /\ Aside(c) /\ Aside(c)'
  BY <1>1
     DEF CompleteStep, CompleteBegin, CompleteVerified, CompleteUnverified,
         CompleteReset, CompleteDenied, CompletePrepared, CompleteMoved,
         CompleteMoveFails, CompleteRecorded, CompleteRecordFails,
         CompleteDone, Go, Finish, OnlyMoves, Aside, Working
<1> QED
  BY <1>1, <1>2, AsideUnseen

\* So does a recovery.
LEMMA RecoveryUnseen ==
    ASSUME IInv, NEW w \in Workers, RecoverStep(w)
    PROVE  UNCHANGED Access!accessVars
<1>1. w \in Procs /\ pc \in [Procs -> Steps]
      /\ at \in [Procs -> Uploads \cup {None}]
  BY DEF Procs, IInv, TypeOK, ProcessTypeOK
<1>2. OnlyMoves(w) /\ Aside(w) /\ Aside(w)'
  BY <1>1
     DEF RecoverStep, RecoverBegin, RecoverFault, RecoverVerifying,
         RecoverPublish, RecoverUndo, RecoverUndone, RecoverFails,
         Go, Finish, OnlyMoves, Aside, Working
<1> QED
  BY <1>1, <1>2, AsideUnseen

\* A removal works on its session's files; DELETE of a video on none.
LEMMA RemoveAccess ==
    ASSUME IInv, IdleEmptyHanded, NEW w \in Workers, RemoveStep(w)
    PROVE  [Access!Next]_Access!accessVars
<1>1. w \in Procs /\ pc \in [Procs -> Steps]
      /\ at \in [Procs -> Uploads \cup {None}]
  BY DEF Procs, IInv, TypeOK, ProcessTypeOK
<1>2. OnlyMoves(w)
  BY <1>1
     DEF RemoveStep, CancelCommitted, DeleteVideo, DirectoryRemoved,
         FileUnlinked, Go, Finish, OnlyMoves
<1>3. CASE \E u \in Uploads : CancelCommitted(w, u)
  <2>1. PICK u \in Uploads : CancelCommitted(w, u)
    BY <1>3
  <2>2. /\ pc[w] = "idle" /\ pc'[w] = "removing"
        /\ LeaseFree /\ GateFree(u) /\ at'[w] = u
    BY <1>1, <2>1 DEF CancelCommitted, Go
  <2> QED
    BY <1>1, <1>2, <2>2, WorkBegins DEF Access!Next, Working
<1>4. CASE DirectoryRemoved(w)
  BY <1>1, <1>2, <1>4, StillUnseen DEF DirectoryRemoved, Go, Working
<1>5. CASE FileUnlinked(w)
  <2>1. pc[w] \in Working /\ pc'[w] = "idle"
    BY <1>1, <1>5 DEF FileUnlinked, Finish, Working
  <2> QED
    BY <1>1, <1>2, <2>1, WorkEnds DEF Access!Next
<1>6. CASE \E c \in Codes : DeleteVideo(w, c)
  <2>1. pc[w] = "idle" /\ pc'[w] = "unlinking" /\ at' = at
    BY <1>1, <1>6 DEF DeleteVideo, Go
  <2>2. Aside(w) /\ Aside(w)'
    BY <1>1, <2>1 DEF IdleEmptyHanded, Aside, Working
  <2> QED
    BY <1>1, <1>2, <2>2, AsideUnseen
<1> QED
  BY <1>3, <1>4, <1>5, <1>6 DEF RemoveStep

\* A step of anybody else leaves every request where it is.
LEMMA RestUnseen ==
    ASSUME UNCHANGED <<pc, at>>
    PROVE  UNCHANGED Access!accessVars
  BY DEF Access!accessVars, Inbound, AtFiles

\* Every step maps to a step of UploadAccess or to none.
LEMMA AccessStep ==
    ASSUME IInv, IdleEmptyHanded, [Next]_vars
    PROVE  [Access!Next]_Access!accessVars
<1>1. CASE Crash
  <2>1. Inbound' = Access!Nothing /\ AtFiles' = Access!Nothing
    BY <1>1 DEF Crash, Inbound, AtFiles, Access!Nothing
  <2> QED
    BY <2>1 DEF Access!Next, Access!Crash
<1>2. ASSUME NEW w \in Workers, NEW u \in Uploads, NEW t \in Teams \cup {None},
             CreateUploadSession(w, u, t)
      PROVE  UNCHANGED <<pc, at>>
  BY <1>2 DEF CreateUploadSession
<1>3. ASSUME NEW u \in Uploads, CleanupDirectory(u) \/ Expire(u)
      PROVE  UNCHANGED <<pc, at>>
  BY <1>3 DEF CleanupDirectory, Expire
<1>4. AccountStep \/ StartupDone \/ UNCHANGED vars => UNCHANGED <<pc, at>>
  BY DEF AccountStep, DissolveTeam, RemoveMember, Demote, DeleteUser,
         StartupDone, vars
<1> QED
  BY <1>1, <1>2, <1>3, <1>4, PutAccess, CompletionUnseen, RecoveryUnseen,
     RemoveAccess, RestUnseen
     DEF Next

\* A request that ends puts its upload down.
LEMMA IdleStep ==
    ASSUME IInv, IdleEmptyHanded, [Next]_vars
    PROVE  IdleEmptyHanded'
<1>1. pc \in [Procs -> Steps] /\ at \in [Procs -> Uploads \cup {None}]
  BY DEF IInv, TypeOK, ProcessTypeOK
<1>2. ASSUME NEW p \in Putters, PutStep(p) PROVE IdleEmptyHanded'
  BY <1>1, <1>2
     DEF PutStep, PutBegin, PutReceive, PutRefused, PutStaged, PutRejected,
         PutAbandoned, PutWrite, PutRepeated, PutConflict, PutCommitted,
         PutWriteFails, PutDone, Go, Finish, IdleEmptyHanded, Procs
<1>3. ASSUME NEW c \in Completers, CompleteStep(c) PROVE IdleEmptyHanded'
  BY <1>1, <1>3
     DEF CompleteStep, CompleteBegin, CompleteVerified, CompleteUnverified,
         CompleteReset, CompleteDenied, CompletePrepared, CompleteMoved,
         CompleteMoveFails, CompleteRecorded, CompleteRecordFails,
         CompleteDone, Go, Finish, IdleEmptyHanded, Procs
<1>4. ASSUME NEW w \in Workers, RecoverStep(w) PROVE IdleEmptyHanded'
  BY <1>1, <1>4
     DEF RecoverStep, RecoverBegin, RecoverFault, RecoverVerifying,
         RecoverPublish, RecoverUndo, RecoverUndone, RecoverFails,
         Go, Finish, IdleEmptyHanded, Procs
<1>5. ASSUME NEW w \in Workers, RemoveStep(w) PROVE IdleEmptyHanded'
  BY <1>1, <1>5
     DEF RemoveStep, CancelCommitted, DeleteVideo, DirectoryRemoved,
         FileUnlinked, Go, Finish, IdleEmptyHanded, Procs
<1>6. CASE Crash
  BY <1>6 DEF Crash, IdleEmptyHanded
<1>7. CASE UNCHANGED <<pc, at>>
  BY <1>7 DEF IdleEmptyHanded
<1> QED
  BY <1>2, <1>3, <1>4, <1>5, <1>6, <1>7
     DEF Next, CreateUploadSession, CleanupDirectory, Expire, AccountStep,
         DissolveTeam, RemoveMember, Demote, DeleteUser, StartupDone, vars

\* Whatever the number of requests, slots, faults and crashes, VideoUpload uses
\* gates, slots and lease only the way UploadAccess promises them, which is what
\* LockOrder, with its queues and counted references, is proved to provide
\* (videos.py 613-621, 740-742, 1384-1387).
THEOREM UploadsImplementAccess == Spec => ImplementsAccess
<1>1. Init => Access!Init /\ IdleEmptyHanded
  BY DEF Init, Access!Init, Access!Nothing, Inbound, AtFiles, IdleEmptyHanded
<1>2. IInv /\ IdleEmptyHanded /\ [Next]_vars => IdleEmptyHanded'
  BY IdleStep
<1>3. IInv /\ IdleEmptyHanded /\ [Next]_vars => [Access!Next]_Access!accessVars
  BY AccessStep
<1> QED
  BY <1>1, <1>2, <1>3, InductiveInvariant, PTL
     DEF Spec, Access!Spec, ImplementsAccess

-----------------------------------------------------------------------------
(* The quota.  The run oversell shows that the code exceeds it; two things   *)
(* together exclude that.                                                    *)

\* A reservation that has expired stays expired.
NothingComesBack == \A u \in Uploads : (HasRow(u) /\ ~live[u]) => ~live'[u]

\* No upload or video passes to another account.
NothingInherited ==
    /\ \A u \in Uploads : HasRow(u) => owner'[u] \in {owner[u], None}
    /\ \A c \in Codes : (image[c] # None /\ image'[c] # None) =>
         image'[c].owner = image[c].owner

\* What UserUsage(x) counts.
Promised(x) == {u \in Reserved : owner[u] = x}
Kept(x) == {c \in Stored : image[c].owner = x}

Unfinished == {"active", "verifying", "finalizing", "failed"}

\* The steps that may promise or store more.
Creation == \E w \in Workers, u \in Uploads, t \in Teams \cup {None} :
              CreateUploadSession(w, u, t)
Recording == \/ \E c \in Completers : CompleteRecorded(c)
             \/ \E w \in Workers : RecoverPublish(w)

LEMMA UsageCounts ==
    ASSUME IsFiniteSet(Uploads), IsFiniteSet(Codes), NEW x
    PROVE  /\ IsFiniteSet(Promised(x)) /\ Cardinality(Promised(x)) \in Nat
           /\ IsFiniteSet(Kept(x)) /\ Cardinality(Kept(x)) \in Nat
           /\ UserUsage(x) = Cardinality(Kept(x)) + Cardinality(Promised(x))
<1>1. Promised(x) \subseteq Uploads /\ Kept(x) \subseteq Codes
  BY DEF Promised, Reserved, Kept, Stored
<1> QED
  BY <1>1, FS_Subset, FS_CardinalityType DEF UserUsage, Promised, Kept

\* Who keeps no more, and is promised no more, uses no more.
LEMMA UsageShrinks ==
    ASSUME IsFiniteSet(Uploads), IsFiniteSet(Codes), NEW x,
           Promised(x)' \subseteq Promised(x), Kept(x)' \subseteq Kept(x)
    PROVE  UserUsage(x)' <= UserUsage(x)
<1>1. /\ IsFiniteSet(Promised(x)) /\ Cardinality(Promised(x)) \in Nat
      /\ IsFiniteSet(Kept(x)) /\ Cardinality(Kept(x)) \in Nat
      /\ UserUsage(x) = Cardinality(Kept(x)) + Cardinality(Promised(x))
  BY UsageCounts
<1>2. /\ Cardinality(Promised(x)') <= Cardinality(Promised(x))
      /\ Cardinality(Kept(x)') <= Cardinality(Kept(x))
      /\ Cardinality(Promised(x)') \in Nat /\ Cardinality(Kept(x)') \in Nat
  BY <1>1, FS_Subset, FS_CardinalityType
<1>3. UserUsage(x)' = Cardinality(Kept(x)') + Cardinality(Promised(x)')
  BY DEF UserUsage, Promised, Kept
<1> QED
  BY <1>1, <1>2, <1>3

\* A session that is unfinished was so before, unless it was just created.
LEMMA UnfinishedBefore ==
    ASSUME IInv, Next, ~Creation, NEW u \in Uploads, status'[u] \in Unfinished
    PROVE  status[u] \in Unfinished
<1>1. /\ status \in [Uploads -> Statuses]
      /\ \A p \in Procs : pc[p] \notin {"idle", "unlinking"} => at[p] \in Uploads
  BY DEF IInv, TypeOK, SessionTypeOK, StepsInOrder
<1>2. ASSUME NEW p \in Putters, PutStep(p) PROVE status' = status
  BY <1>2
     DEF PutStep, PutBegin, PutReceive, PutRefused, PutStaged, PutRejected,
         PutAbandoned, PutWrite, PutRepeated, PutConflict, PutCommitted,
         PutWriteFails, rowVars
<1>3. ASSUME NEW c \in Completers, CompleteStep(c) PROVE status[u] \in Unfinished
  <2>1. c \in Procs
    BY DEF Procs
  <2>2. CASE CompleteMoveFails(c)
    <3>1. Finalizing(at[c])
      BY <2>1, <2>2 DEF CompleteMoveFails, IInv, MovesFounded
    <3> QED
      BY <1>1, <2>2, <3>1 DEF CompleteMoveFails, Finalizing, Unfinished
  <2>3. CASE CompleteRecorded(c)
    BY <1>1, <2>1, <2>3 DEF CompleteRecorded, Publish, Unfinished
  <2> QED
    BY <1>1, <1>3, <2>1, <2>2, <2>3
       DEF CompleteStep, CompleteBegin, CompleteVerified, CompleteUnverified,
           CompleteReset, CompleteDenied, CompletePrepared, CompleteMoved,
           CompleteRecordFails, ReturnToActive, MayPublish, HasNonce,
           Unfinished, rowVars
<1>4. ASSUME NEW w \in Workers, RecoverStep(w) PROVE status[u] \in Unfinished
  <2>1. w \in Procs
    BY DEF Procs
  <2>2. CASE RecoverUndone(w)
    <3>1. Finalizing(at[w])
      BY <2>1, <2>2 DEF RecoverUndone, IInv, MovesFounded
    <3> QED
      BY <1>1, <2>2, <3>1 DEF RecoverUndone, Finalizing, Unfinished
  <2>3. CASE RecoverPublish(w)
    BY <1>1, <2>1, <2>3 DEF RecoverPublish, Publish, Unfinished
  <2> QED
    BY <1>1, <1>4, <2>1, <2>2, <2>3
       DEF RecoverStep, RecoverBegin, RecoverFault, RecoverVerifying,
           RecoverUndo, RecoverFails, Unfinished, rowVars
<1>5. ASSUME NEW w \in Workers, RemoveStep(w) PROVE status[u] \in Unfinished
  BY <1>1, <1>5
     DEF RemoveStep, CancelCommitted, DropRows, DeleteVideo, DirectoryRemoved,
         FileUnlinked, Unfinished, rowVars
<1>6. ASSUME AccountStep PROVE status[u] \in Unfinished
  <2>1. ASSUME NEW w \in Workers, NEW x \in Users, DeleteUser(w, x)
        PROVE  status'[u] \in {"gone", status[u]}
    BY <2>1 DEF DeleteUser
  <2> QED
    BY <1>6, <2>1
       DEF AccountStep, DissolveTeam, RemoveMember, Demote, Unfinished, rowVars
<1> QED
  BY <1>2, <1>3, <1>4, <1>5, <1>6
     DEF Next, Creation, CleanupDirectory, Expire, Crash, StartupDone, rowVars

\* Nobody is promised anything but by a creation.
LEMMA PromisesShrink ==
    ASSUME IInv, Next, ~Creation, NothingComesBack, NothingInherited, NEW x \in Users
    PROVE  Promised(x)' \subseteq Promised(x)
<1> SUFFICES ASSUME NEW u \in Uploads,
                    live'[u], status'[u] \in Unfinished, owner'[u] = x
             PROVE  live[u] /\ status[u] \in Unfinished /\ owner[u] = x
  BY DEF Promised, Reserved, Unfinished
<1>1. status[u] \in Unfinished
  BY UnfinishedBefore
<1>2. HasRow(u)
  BY <1>1 DEF HasRow, Unfinished
<1>3. live[u]
  BY <1>2 DEF NothingComesBack
<1>4. owner[u] = x
  BY <1>2, DistinctAssumption DEF NothingInherited, DistinctAssumption
<1> QED
  BY <1>1, <1>3, <1>4

\* Nobody's videos grow in number but by a recording.
LEMMA VideosShrink ==
    ASSUME IInv, Next, ~Recording, NothingInherited, NEW x \in Users
    PROVE  Kept(x)' \subseteq Kept(x)
<1>1. image \in [Codes -> Images \cup {None}]
  BY DEF IInv, TypeOK, MediaTypeOK
<1>2. ASSUME NEW c \in Codes, image'[c] # None PROVE image[c] # None
  <2>1. ASSUME NEW p \in Putters, PutStep(p) PROVE image' = image
    BY <2>1
       DEF PutStep, PutBegin, PutReceive, PutRefused, PutStaged, PutRejected,
           PutAbandoned, PutWrite, PutRepeated, PutConflict, PutCommitted,
           PutWriteFails
  <2>2. ASSUME NEW d \in Completers, CompleteStep(d) PROVE image' = image
    BY <2>2
       DEF Recording, CompleteStep, CompleteBegin, CompleteVerified,
           CompleteUnverified, CompleteReset, CompleteDenied,
           CompletePrepared, CompleteMoved, CompleteMoveFails,
           CompleteRecordFails
  <2>3. ASSUME NEW w \in Workers, RecoverStep(w) PROVE image' = image
    BY <2>3
       DEF Recording, RecoverStep, RecoverBegin, RecoverFault,
           RecoverVerifying, RecoverUndo, RecoverUndone, RecoverFails
  <2>4. ASSUME NEW w \in Workers, RemoveStep(w) PROVE image[c] # None
    BY <1>1, <1>2, <2>4
       DEF RemoveStep, CancelCommitted, DeleteVideo, DirectoryRemoved,
           FileUnlinked
  <2>5. ASSUME AccountStep PROVE image[c] # None
    <3>1. ASSUME NEW t \in Teams, DissolveTeam(t) PROVE image[c] # None
      BY <1>2, <3>1 DEF DissolveTeam
    <3>2. ASSUME NEW w \in Workers, NEW y \in Users, DeleteUser(w, y)
          PROVE  image[c] # None
      <4>1. PICK heir \in Heirs(w, y) : HandOver(y, heir)
        BY <3>2 DEF DeleteUser
      <4> QED
        BY <1>2, <4>1 DEF HandOver, Bare
    <3> QED
      BY <1>2, <2>5, <3>1, <3>2 DEF AccountStep, RemoveMember, Demote
  <2> QED
    BY <1>2, <2>1, <2>2, <2>3, <2>4, <2>5
       DEF Next, CreateUploadSession, CleanupDirectory, Expire, Crash,
           StartupDone
<1> QED
  BY <1>2 DEF Kept, Stored, NothingInherited

\* enforce_storage_quota admits a creation, for the account it is made for.
LEMMA CreationFits ==
    ASSUME IInv, WithinQuota, IsFiniteSet(Uploads), IsFiniteSet(Codes),
           Creation, NEW x \in Users
    PROVE  UserUsage(x)' <= UserQuota
<1>1. PICK w \in Workers, u \in Uploads, t \in Teams \cup {None} :
             CreateUploadSession(w, u, t)
  BY DEF Creation
<1>2. /\ status[u] = "unborn" /\ image' = image
      /\ \A v \in Uploads \ {u} : /\ status'[v] = status[v] /\ live'[v] = live[v]
                                  /\ owner'[v] = owner[v]
      /\ owner'[u] = Actor[w]
      /\ UserUsage(Actor[w]) < UserQuota
  BY <1>1 DEF CreateUploadSession, Admits, IInv, TypeOK, SessionTypeOK
<1>3. Kept(x)' = Kept(x)
  BY <1>2 DEF Kept, Stored
<1>4. CASE x # Actor[w]
  <2>1. Promised(x)' \subseteq Promised(x)
    BY <1>2, <1>4 DEF Promised, Reserved
  <2>2. UserUsage(x)' <= UserUsage(x)
    BY <1>3, <2>1, UsageShrinks
  <2>3. UserUsage(x) \in Nat /\ UserUsage(x)' \in Nat /\ UserQuota \in Nat
    <3>1. UserUsage(x)' = Cardinality(Kept(x)') + Cardinality(Promised(x)')
      BY DEF UserUsage, Promised, Kept
    <3>2. Cardinality(Promised(x)') \in Nat
      BY <2>1, UsageCounts, FS_Subset, FS_CardinalityType
    <3> QED
      BY <1>3, <3>1, <3>2, UsageCounts, ConstantsAssumption
         DEF ConstantsAssumption
  <2> QED
    BY <2>2, <2>3 DEF WithinQuota
<1>5. CASE x = Actor[w]
  <2>1. Promised(x)' \subseteq Promised(x) \cup {u}
    BY <1>2 DEF Promised, Reserved
  <2>2. /\ IsFiniteSet(Promised(x)) /\ Cardinality(Promised(x)) \in Nat
        /\ Cardinality(Kept(x)) \in Nat
        /\ UserUsage(x) = Cardinality(Kept(x)) + Cardinality(Promised(x))
    BY UsageCounts
  <2>3. /\ IsFiniteSet(Promised(x) \cup {u})
        /\ Cardinality(Promised(x) \cup {u}) <= Cardinality(Promised(x)) + 1
        /\ Cardinality(Promised(x) \cup {u}) \in Nat
    <3>1. /\ IsFiniteSet(Promised(x) \cup {u})
          /\ Cardinality(Promised(x) \cup {u}) =
               IF u \in Promised(x) THEN Cardinality(Promised(x))
                                    ELSE Cardinality(Promised(x)) + 1
      BY <2>2, FS_AddElement
    <3> QED
      BY <2>2, <3>1
  <2>4. /\ Cardinality(Promised(x)') <= Cardinality(Promised(x) \cup {u})
        /\ Cardinality(Promised(x)') \in Nat
    BY <2>1, <2>3, FS_Subset, FS_CardinalityType
  <2>5. UserUsage(x)' = Cardinality(Kept(x)) + Cardinality(Promised(x)')
    BY <1>3 DEF UserUsage, Promised, Kept
  <2> QED
    BY <1>2, <1>5, <2>2, <2>3, <2>4, <2>5, ConstantsAssumption
       DEF ConstantsAssumption
<1> QED
  BY <1>4, <1>5

\* A publication turns a promise into a video of the same account.
LEMMA RecordingFits ==
    ASSUME IInv, WithinQuota, IsFiniteSet(Uploads), IsFiniteSet(Codes),
           NothingComesBack, Recording, NEW x \in Users
    PROVE  UserUsage(x)' <= UserUsage(x)
<1>1. PICK u \in Uploads : Finalizing(u) /\ Publish(u) /\ owner' = owner
  <2>1. ASSUME NEW c \in Completers, CompleteRecorded(c)
        PROVE  Finalizing(at[c]) /\ at[c] \in Uploads /\ Publish(at[c]) /\ owner' = owner
    BY <2>1 DEF CompleteRecorded, IInv, MovesFounded, StepsInOrder, Procs
  <2>2. ASSUME NEW w \in Workers, RecoverPublish(w)
        PROVE  Finalizing(at[w]) /\ at[w] \in Uploads /\ Publish(at[w]) /\ owner' = owner
    BY <2>2 DEF RecoverPublish, IInv, MovesFounded, StepsInOrder, Procs
  <2> QED
    BY <2>1, <2>2 DEF Recording
<1> DEFINE code == info[u].code
<1>2. /\ code \in Codes /\ image[code] = None /\ image'[code] = Published(u)
      /\ \A d \in Codes \ {code} : image'[d] = image[d]
      /\ status'[u] = "completed"
      /\ \A v \in Uploads \ {u} : status'[v] = status[v] /\ live'[v] = live[v]
      /\ live'[u]
  <2>1. /\ code \in Codes /\ image[code] = None
        /\ image \in [Codes -> Images \cup {None}]
        /\ live \in [Uploads -> BOOLEAN]
    BY <1>1 DEF IInv, FinalizingRecorded, TypeOK, MediaTypeOK, SessionTypeOK
  <2>2. /\ image' = [image EXCEPT ![code] = Published(u)]
        /\ live' = [live EXCEPT ![u] = TRUE]
    BY <1>1, <2>1 DEF Publish
  <2>3. /\ status'[u] = "completed"
        /\ \A v \in Uploads \ {u} : status'[v] = status[v]
    BY <1>1, PublishPointwise
  <2> QED
    BY <2>1, <2>2, <2>3
<1>3. status[u] = "finalizing" /\ live[u] /\ u \in Reserved
  BY <1>1, <1>2 DEF Finalizing, NothingComesBack, HasRow, Reserved
<1>4. Promised(x)' = Promised(x) \ {u}
  BY <1>1, <1>2, <1>3 DEF Promised, Reserved
<1>5. CASE owner[u] # x
  <2>1. Published(u).owner # x
    BY <1>5 DEF Published
  <2>2. Kept(x)' \subseteq Kept(x)
    BY <1>2, <2>1 DEF Kept, Stored
  <2> QED
    BY <1>4, <2>2, UsageShrinks
<1>6. CASE owner[u] = x
  <2>1. u \in Promised(x)
    BY <1>3, <1>6 DEF Promised
  <2>2. Published(u).owner = x /\ Published(u) # None
    BY <1>1, <1>6, PublishedIsImage, DistinctAssumption
       DEF Published, DistinctAssumption
  <2>3. Kept(x)' = Kept(x) \cup {code} /\ code \notin Kept(x)
    BY <1>2, <2>2 DEF Kept, Stored
  <2>4. /\ IsFiniteSet(Promised(x)) /\ Cardinality(Promised(x)) \in Nat
        /\ IsFiniteSet(Kept(x)) /\ Cardinality(Kept(x)) \in Nat
        /\ UserUsage(x) = Cardinality(Kept(x)) + Cardinality(Promised(x))
    BY UsageCounts
  <2>5. Cardinality(Kept(x)') = Cardinality(Kept(x)) + 1
    BY <2>3, <2>4, FS_AddElement
  <2>6. Cardinality(Promised(x)') = Cardinality(Promised(x)) - 1
    BY <1>4, <2>1, <2>4, FS_RemoveElement
  <2>7. UserUsage(x)' = Cardinality(Kept(x)') + Cardinality(Promised(x)')
    BY DEF UserUsage, Promised, Kept
  <2> QED
    BY <2>4, <2>5, <2>6, <2>7
<1> QED
  BY <1>5, <1>6

LEMMA QuotaKept ==
    ASSUME IInv, WithinQuota, IsFiniteSet(Uploads), IsFiniteSet(Codes),
           [Next]_vars, [NothingComesBack /\ NothingInherited]_vars
    PROVE  WithinQuota'
<1> SUFFICES ASSUME NEW x \in Users PROVE UserUsage(x)' <= UserQuota
  BY DEF WithinQuota
<1>1. CASE UNCHANGED vars
  BY <1>1 DEF vars, rowVars, UserUsage, Stored, Reserved, WithinQuota
<1>2. CASE Next /\ NothingComesBack /\ NothingInherited
  <2>1. CASE Creation
    BY <2>1, CreationFits
  <2>2. CASE ~Creation
    <3>1. UserUsage(x)' <= UserUsage(x)
      BY <1>2, <2>2, RecordingFits, PromisesShrink, VideosShrink, UsageShrinks
    <3>2. Promised(x)' \subseteq Promised(x)
      BY <1>2, <2>2, PromisesShrink
    <3>3. IsFiniteSet(Kept(x)')
      <4>1. Kept(x)' \subseteq Codes
        BY DEF Kept, Stored
      <4> QED
        BY <4>1, FS_Subset
    <3>4. UserUsage(x)' = Cardinality(Kept(x)') + Cardinality(Promised(x)')
      BY DEF UserUsage, Promised, Kept
    <3>5. UserUsage(x)' \in Nat /\ UserUsage(x) \in Nat /\ UserQuota \in Nat
      BY <3>2, <3>3, <3>4, UsageCounts, FS_Subset, FS_CardinalityType,
         ConstantsAssumption DEF ConstantsAssumption
    <3> QED
      BY <3>1, <3>5 DEF WithinQuota
  <2> QED
    BY <2>1, <2>2
<1> QED
  BY <1>1, <1>2

\* The run oversell shows that stored bytes and promises may exceed an owner's
\* quota.  There are two ways only: a reservation that had expired is used
\* again (_commit_upload_part and every other step that renews expires_at or
\* publishes without asking enforce_storage_quota), or somebody inherits
\* (delete_user).  Without them admission, faults, crashes, recoveries and
\* publications keep every account within its quota.
THEOREM OnlyRevivalOrInheritanceOversells ==
    ASSUME IsFiniteSet(Uploads), IsFiniteSet(Codes)
    PROVE  Spec /\ [][NothingComesBack /\ NothingInherited]_vars => []WithinQuota
<1>1. Init => WithinQuota
  <2> SUFFICES ASSUME Init, NEW x \in Users PROVE UserUsage(x) <= UserQuota
    BY DEF WithinQuota
  <2>1. Promised(x) = {} /\ Kept(x) = {}
    BY DEF Init, Promised, Reserved, Kept, Stored
  <2> QED
    BY <2>1, UsageCounts, FS_EmptySet, ConstantsAssumption DEF ConstantsAssumption
<1>2. IInv /\ WithinQuota /\ [Next]_vars
        /\ [NothingComesBack /\ NothingInherited]_vars => WithinQuota'
  BY QuotaKept
<1> QED
  BY <1>1, <1>2, InductiveInvariant, PTL DEF Spec
=============================================================================
