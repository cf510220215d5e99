-------------------------- MODULE VideoUploadSteps --------------------------
(***************************************************************************)
(* Every action of VideoUpload preserves the inductive invariant IInv: one *)
(* lemma per action, with a step for each part of IInv it could disturb    *)
(* and one for all those whose variables it leaves alone.  The lemmas on   *)
(* helpers come first.                                                     *)
(***************************************************************************)
EXTENDS VideoUploadInvariant, TLAPS

\* A file that verification accepts is a file.
LEMMA GoodFilesAreContents ==
    \A u \in Uploads : GoodFiles[u] \subseteq Contents
  BY DEF GoodFiles, Contents, Cells

\* The empty resume_info is well typed and names nothing.
LEMMA NoInfoIsInfo == NoInfo \in Infos /\ NoInfo.code = None /\ NoInfo.nonce = None
  BY DEF NoInfo, Infos

\* Every upload has a first part.
LEMMA ZeroIsPart == 0 \in Parts
  BY ConstantsAssumption DEF ConstantsAssumption, Parts

\* What the first write of a part changes: its own range, nothing that is
\* acknowledged (Placed).
LEMMA PlacedPointwise ==
    ASSUME IInv, NEW p \in Putters, pc[p] = "staged"
    PROVE  /\ at[p] \in Uploads /\ part[p] \in Parts /\ blob[p] \in Blobs
           /\ DOMAIN Placed(p) = Uploads
           /\ \A v \in Uploads \ {at[p]} : Placed(p)[v] = source[v]
           /\ Placed(p)[at[p]] \in Contents
           /\ \A k \in Parts \ {part[p]} :
                source[at[p]] # None => Placed(p)[at[p]][k] = source[at[p]][k]
<1>1. at[p] \in Uploads /\ part[p] \in Parts /\ blob[p] \in Blobs
  BY DEF IInv, TypeOK, ProcessTypeOK, StepsInOrder, Procs
<1> DEFINE old == IF source[at[p]] = None THEN Empty ELSE source[at[p]]
           cell == IF source[at[p]] = None /\ part[p] = 0 THEN blob[p] ELSE Torn
<1>2. old \in [Parts -> Cells] /\ cell \in Cells
  BY <1>1 DEF IInv, TypeOK, MediaTypeOK, Contents, Empty, Cells
<1>3. source \in [Uploads -> Contents \cup {None}]
  BY DEF IInv, TypeOK, MediaTypeOK
<1>4. Placed(p) = [source EXCEPT ![at[p]] = [old EXCEPT ![part[p]] = cell]]
  BY DEF Placed
<1> HIDE DEF old, cell
<1>5. [old EXCEPT ![part[p]] = cell] \in [Parts -> Cells]
  BY <1>1, <1>2
<1>6. \A k \in Parts \ {part[p]} : [old EXCEPT ![part[p]] = cell][k] = old[k]
  BY <1>1, <1>2
<1>7. source[at[p]] # None => old = source[at[p]]
  BY DEF old
<1> QED
  BY <1>1, <1>3, <1>4, <1>5, <1>6, <1>7 DEF Contents

\* What the synced write of a part leaves: the part's bytes, and every other
\* range as it was (Written).
LEMMA WrittenPointwise ==
    ASSUME IInv, NEW p \in Putters, pc[p] = "writing"
    PROVE  /\ at[p] \in Uploads /\ part[p] \in Parts /\ blob[p] \in Blobs
           /\ DOMAIN Written(p) = Uploads
           /\ \A v \in Uploads \ {at[p]} : Written(p)[v] = source[v]
           /\ Written(p)[at[p]] \in Contents
           /\ Written(p)[at[p]][part[p]] = blob[p]
           /\ \A k \in Parts \ {part[p]} : Written(p)[at[p]][k] = source[at[p]][k]
<1>1. at[p] \in Uploads /\ part[p] \in Parts /\ blob[p] \in Blobs
  BY DEF IInv, TypeOK, ProcessTypeOK, StepsInOrder, Procs
<1>2. source \in [Uploads -> Contents \cup {None}] /\ source[at[p]] \in [Parts -> Cells]
  BY <1>1 DEF IInv, TypeOK, MediaTypeOK, WritesFounded, Contents
<1> DEFINE new == [source[at[p]] EXCEPT ![part[p]] = blob[p]]
<1>3. new \in [Parts -> Cells] /\ new[part[p]] = blob[p]
  BY <1>1, <1>2 DEF Cells
<1>4. \A k \in Parts \ {part[p]} : new[k] = source[at[p]][k]
  BY <1>1, <1>2
<1>5. Written(p) = [source EXCEPT ![at[p]] = new]
  BY DEF Written
<1> HIDE DEF new
<1> QED
  BY <1>1, <1>2, <1>3, <1>4, <1>5 DEF Contents

\* A free library lease means that no handler is between two of its leased
\* steps.
LEMMA NobodyHolds == ASSUME IInv, LeaseFree PROVE \A p \in Procs : pc[p] \notin Holding
  BY DistinctAssumption DEF IInv, LeaseHeld, LeaseFree, DistinctAssumption

\* The image row of a finalizing session is well typed.
LEMMA PublishedIsImage ==
    ASSUME IInv, NEW u \in Uploads, Finalizing(u) PROVE Published(u) \in Images
<1>1. info[u].sha \in Contents
  BY GoodFilesAreContents DEF IInv, FinalizingRecorded
<1> QED
  BY <1>1 DEF IInv, TypeOK, SessionTypeOK, Published, Images

\* _create_final_image and the completion: one new image row, one completed
\* session, the rest untouched (Publish).
LEMMA PublishPointwise ==
    ASSUME IInv, NEW u \in Uploads, Finalizing(u), Publish(u)
    PROVE  LET code == info[u].code IN
           /\ code \in Codes
           /\ image' \in [Codes -> Images \cup {None}]
           /\ image'[code] # None
           /\ image'[code].upload = u /\ image'[code].sha = info[u].sha
           /\ \A d \in Codes \ {code} : image'[d] = image[d]
           /\ status' \in [Uploads -> Statuses] /\ status'[u] = "completed"
           /\ \A v \in Uploads \ {u} : status'[v] = status[v]
           /\ \A d \in Codes : image[d] # None =>
                image[d].upload \in Uploads \ {u}
<1>1. info[u].code \in Codes /\ image[info[u].code] = None
  BY DEF IInv, FinalizingRecorded
<1>2. image \in [Codes -> Images \cup {None}] /\ status \in [Uploads -> Statuses]
  BY DEF IInv, TypeOK, MediaTypeOK, SessionTypeOK
<1>3. image' = [image EXCEPT ![info[u].code] = Published(u)]
  BY <1>1, <1>2 DEF Publish
<1>4. status' = [status EXCEPT ![u] = "completed"]
  BY DEF Publish
<1>5. \A d \in Codes : image[d] # None => image[d].upload \in Uploads
  BY <1>2 DEF Images
<1>6. \A d \in Codes : image[d] # None => image[d].upload # u
  BY <1>5 DEF IInv, ImagesBacked, Finalizing
<1>7. Published(u) \in Images /\ Published(u) # None
  BY PublishedIsImage, DistinctAssumption DEF DistinctAssumption
<1>8. Published(u).upload = u /\ Published(u).sha = info[u].sha
  BY DEF Published
<1> QED
  BY <1>1, <1>2, <1>3, <1>4, <1>5, <1>6, <1>7, <1>8 DEF Statuses

\* The move into files/ touches one file and one source (MoveToFiles).
LEMMA MovePointwise ==
    ASSUME IInv, NEW u \in Uploads, Finalizing(u), source[u] # None, MoveToFiles(u)
    PROVE  LET code == info[u].code IN
           /\ source' \in [Uploads -> Contents \cup {None}]
           /\ files' \in [Codes -> Contents \cup {None}]
           /\ source'[u] = None /\ \A v \in Uploads \ {u} : source'[v] = source[v]
           /\ files'[code] = info[u].sha
           /\ \A d \in Codes \ {code} : files'[d] = files[d]
           /\ \A v \in Uploads \ {u} : Finalizing(v) => info[v].code # code
           /\ code \in Codes /\ image[code] = None
<1>1. /\ info[u].code \in Codes /\ image[info[u].code] = None
      /\ source[u] = info[u].sha
  BY DEF IInv, FinalizingRecorded
<1>2. /\ source \in [Uploads -> Contents \cup {None}]
      /\ files \in [Codes -> Contents \cup {None}]
  BY DEF IInv, TypeOK, MediaTypeOK
<1>3. /\ source' = [source EXCEPT ![u] = None]
      /\ files' = [files EXCEPT ![info[u].code] = source[u]]
  BY DEF MoveToFiles
<1>4. \A v \in Uploads \ {u} : Finalizing(v) => info[v].code # info[u].code
  BY DEF IInv, CodesDistinct
<1> QED
  BY <1>1, <1>2, <1>3, <1>4

\* An undone publication has its bytes back in the session directory and no
\* file under its code (RecoverUndo).
LEMMA UndoPointwise ==
    ASSUME IInv, NEW w \in Workers, RecoverUndo(w)
    PROVE  LET u == at[w]
               code == info[u].code IN
           /\ w \in Procs /\ u \in Uploads /\ Finalizing(u)
           /\ source' \in [Uploads -> Contents \cup {None}]
           /\ files' \in [Codes -> Contents \cup {None}]
           /\ source'[u] = info[u].sha /\ source'[u] # None
           /\ \A v \in Uploads \ {u} : source'[v] = source[v]
           /\ files'[code] = None /\ \A d \in Codes \ {code} : files'[d] = files[d]
           /\ \A v \in Uploads \ {u} : Finalizing(v) => info[v].code # code
           /\ code \in Codes /\ image[code] = None
           /\ pc' \in [Procs -> Steps] /\ pc'[w] = "undoing"
           /\ \A p \in Procs \ {w} : pc'[p] = pc[p] /\ pc[p] \notin Holding
<1>1. w \in Procs /\ pc[w] = "deciding" /\ at[w] \in Uploads
  BY DEF RecoverUndo, IInv, StepsInOrder, Procs
<1> DEFINE u == at[w]
           code == info[u].code
<1>2. /\ Finalizing(u) /\ source[u] = None
  BY <1>1 DEF IInv, MovesFounded
<1>3. /\ code \in Codes /\ image[code] = None /\ info[u].sha \in GoodFiles[u]
      /\ files[code] = info[u].sha
  BY <1>1, <1>2, GoodFilesAreContents, DistinctAssumption
     DEF IInv, FinalizingRecorded, DistinctAssumption
<1>4. info[u].sha \in Contents /\ info[u].sha # None
  BY <1>1, <1>3, GoodFilesAreContents, DistinctAssumption DEF DistinctAssumption
<1>5. /\ source \in [Uploads -> Contents \cup {None}]
      /\ files \in [Codes -> Contents \cup {None}]
      /\ pc \in [Procs -> Steps]
  BY DEF IInv, TypeOK, MediaTypeOK, ProcessTypeOK
<1>6. /\ source' = [source EXCEPT ![u] = info[u].sha]
      /\ files' = [files EXCEPT ![code] = None]
      /\ pc' = [pc EXCEPT ![w] = "undoing"]
  BY <1>2, <1>3, <1>5 DEF RecoverUndo, Go
<1>7. \A v \in Uploads \ {u} : Finalizing(v) => info[v].code # code
  BY <1>1, <1>2 DEF IInv, CodesDistinct
<1>8. \A p \in Procs \ {w} : pc[p] \notin Holding
  BY <1>1 DEF IInv, LeaseHeld, Holding
<1> HIDE DEF u, code
<1>9. /\ source' \in [Uploads -> Contents \cup {None}]
      /\ files' \in [Codes -> Contents \cup {None}]
      /\ source'[u] = info[u].sha /\ source'[u] # None
      /\ \A v \in Uploads \ {u} : source'[v] = source[v]
      /\ files'[code] = None /\ \A d \in Codes \ {code} : files'[d] = files[d]
  BY <1>1, <1>3, <1>4, <1>5, <1>6 DEF u
<1>10. /\ pc' \in [Procs -> Steps] /\ pc'[w] = "undoing"
       /\ \A p \in Procs \ {w} : pc'[p] = pc[p]
  BY <1>1, <1>5, <1>6 DEF Steps
<1> QED
  BY <1>1, <1>2, <1>3, <1>7, <1>8, <1>9, <1>10 DEF u, code

\* Recovery of a well-formed finalizing session finds its bytes: it takes the
\* lease with the file under its code (RecoverBegin).
LEMMA RecoverBeginPointwise ==
    ASSUME IInv, NEW w \in Workers, NEW u \in Uploads, RecoverBegin(w, u)
    PROVE  LET code == info[u].code IN
           /\ w \in Procs /\ Finalizing(u) /\ code \in Codes /\ image[code] = None
           /\ LeaseFree /\ pc[w] = "idle"
           /\ lease' = w /\ pc' = [pc EXCEPT ![w] = "deciding"]
           /\ at' = [at EXCEPT ![w] = u]
           /\ UNCHANGED <<rowVars, image, dir, accountVars, bootVars, putVars,
                          digest, target>>
           /\ source' \in [Uploads -> Contents \cup {None}]
           /\ files' \in [Codes -> Contents \cup {None}]
           /\ source'[u] = None /\ \A v \in Uploads \ {u} : source'[v] = source[v]
           /\ files'[code] = info[u].sha
           /\ \A d \in Codes \ {code} : files'[d] = files[d]
           /\ \A v \in Uploads \ {u} : Finalizing(v) => info[v].code # code
<1> DEFINE code == info[u].code
<1>1. w \in Procs /\ Finalizing(u) /\ LeaseFree /\ pc[w] = "idle"
  BY DEF RecoverBegin, Finalizing, Procs
<1>2. /\ code \in Codes /\ image[code] = None /\ info[u].sha \in Contents
      /\ \/ source[u] = info[u].sha /\ files[code] = None
         \/ source[u] = None /\ files[code] = info[u].sha
  BY <1>1, GoodFilesAreContents DEF IInv, FinalizingRecorded
<1>3. info[u].sha # None
  BY <1>2, DistinctAssumption DEF DistinctAssumption
<1>4. ~(files[code] = None /\ source[u] = None)
  BY <1>2, <1>3
<1>5. /\ lease' = w /\ pc' = [pc EXCEPT ![w] = "deciding"] /\ at' = [at EXCEPT ![w] = u]
      /\ UNCHANGED <<status, live, todo>>
      /\ IF files[code] = None THEN MoveToFiles(u) ELSE UNCHANGED <<source, files>>
  BY <1>4 DEF RecoverBegin, Go
<1>6. UNCHANGED <<rowVars, image, dir, accountVars, bootVars, putVars, digest, target>>
  BY <1>5 DEF RecoverBegin, rowVars, bootVars
<1>7. \A v \in Uploads \ {u} : Finalizing(v) => info[v].code # code
  BY <1>1 DEF IInv, CodesDistinct
<1>8. /\ source \in [Uploads -> Contents \cup {None}]
      /\ files \in [Codes -> Contents \cup {None}]
  BY DEF IInv, TypeOK, MediaTypeOK
<1>9. CASE files[code] = None
  <2>1. source[u] # None /\ MoveToFiles(u)
    BY <1>4, <1>5, <1>9
  <2> QED
    BY <2>1, <1>1, <1>5, <1>6, MovePointwise
<1>10. CASE files[code] # None
  BY <1>1, <1>2, <1>5, <1>6, <1>7, <1>8, <1>10
<1> QED
  BY <1>9, <1>10

\* Deleting an account retires its personal sessions and leaves the others'
\* rows (DeleteUser).
LEMMA DeleteUserSessions ==
    ASSUME IInv, NEW w \in Workers, NEW x \in Users, DeleteUser(w, x)
    PROVE  \A u \in Uploads :
             \/ /\ u \notin Personal(x)
                /\ status'[u] = status[u] /\ rows'[u] = rows[u]
                /\ info'[u] = info[u] /\ source'[u] = source[u]
             \/ u \in Personal(x) /\ status'[u] = "gone" /\ rows'[u] = NoRows
  BY DEF DeleteUser

\* Deleting an account removes only unreferenced files and its own media
\* (DeleteUser).
LEMMA DeleteUserMedia ==
    ASSUME IInv, NEW w \in Workers, NEW x \in Users, DeleteUser(w, x)
    PROVE  /\ image' \in [Codes -> Images \cup {None}]
           /\ \A c \in Codes : image'[c] # None =>
                /\ image[c] # None /\ image[c].upload \in Uploads
                /\ files'[c] = files[c]
                /\ image'[c].upload = image[c].upload /\ image'[c].sha = image[c].sha
           /\ \A u \in Uploads : (Finalizing(u) /\ u \notin Personal(x)) =>
                files'[info[u].code] = files[info[u].code]
<1>1. image \in [Codes -> Images \cup {None}] /\ users \subseteq Users
  BY DEF IInv, TypeOK, MediaTypeOK, AccountTypeOK
<1>2. PICK heir \in Heirs(w, x) : HandOver(x, heir)
  BY DEF DeleteUser
<1>3. \A t \in Shared(x) : heir[t] \in Users
  BY <1>1, <1>2 DEF Heirs, Shared, IInv, TypeOK, AccountTypeOK
<1> DEFINE passed(c) == [image[c] EXCEPT !.owner = heir[image[c].team]]
<1>4. \A c \in Codes :
        \/ image'[c] = None
        \/ c \notin Bare(x) /\ image'[c] = image[c]
        \/ /\ c \notin Bare(x) /\ image[c] # None /\ image[c].team \in Shared(x)
           /\ image'[c] = passed(c)
  BY <1>2 DEF HandOver
<1>5. \A c \in Codes : image[c] # None => image[c] \in Images /\ image[c].upload \in Uploads
  BY <1>1 DEF Images
<1>6. ASSUME NEW c \in Codes, image[c] # None, image[c].team \in Shared(x)
      PROVE  /\ passed(c) \in Images
             /\ passed(c).upload = image[c].upload /\ passed(c).sha = image[c].sha
  <2>1. heir[image[c].team] \in Users
    BY <1>3, <1>6
  <2> QED
    BY <2>1, <1>5, <1>6 DEF Images
<1> HIDE DEF passed
<1>7. DOMAIN image' = Codes /\ image' = [c \in Codes |-> image'[c]]
  BY <1>2 DEF HandOver
<1>8. \A c \in Codes : image'[c] \in Images \cup {None}
  BY <1>1, <1>4, <1>6
<1>9. \A c \in Codes : image'[c] # None =>
        /\ image[c] # None /\ image[c].upload \in Uploads /\ c \notin Bare(x)
        /\ image'[c].upload = image[c].upload /\ image'[c].sha = image[c].sha
  BY <1>4, <1>5, <1>6
<1>10. \A c \in Codes \ Freed(x) : files'[c] = files[c]
  BY DEF DeleteUser
<1>11. \A c \in Codes : image'[c] # None => c \notin Freed(x)
  <2> SUFFICES ASSUME NEW c \in Codes, image'[c] # None, NEW u \in Personal(x)
               PROVE  c # PendingCode(u)
    BY <1>9 DEF Freed
  <2> QED
    BY <1>9, DistinctAssumption
       DEF PendingCode, Personal, IInv, FinalizingRecorded, Finalizing, DistinctAssumption
<1>12. \A u \in Uploads : (Finalizing(u) /\ u \notin Personal(x)) =>
         info[u].code \in Codes \ Freed(x)
  <2> SUFFICES ASSUME NEW u \in Uploads, Finalizing(u), u \notin Personal(x)
               PROVE  info[u].code \in Codes \ Freed(x)
    OBVIOUS
  <2>1. info[u].code \in Codes /\ image[info[u].code] = None
    BY DEF IInv, FinalizingRecorded
  <2>2. \A v \in Personal(x) : info[u].code # PendingCode(v)
    BY <2>1, DistinctAssumption
       DEF PendingCode, Personal, IInv, CodesDistinct, Finalizing, DistinctAssumption
  <2> QED
    BY <2>1, <2>2 DEF Freed, Bare
<1> QED
  BY <1>7, <1>8, <1>9, <1>10, <1>11, <1>12

\* Deleting an account keeps owners and memberships well typed (DeleteUser).
LEMMA DeleteUserAccounts ==
    ASSUME IInv, NEW w \in Workers, NEW x \in Users, DeleteUser(w, x)
    PROVE  AccountTypeOK' /\ owner' \in [Uploads -> Users \cup {None}]
<1>1. users \subseteq Users /\ admins \subseteq Users
      /\ members \subseteq Teams \X Users /\ teams \subseteq Teams
  BY DEF IInv, TypeOK, AccountTypeOK
<1>2. PICK heir \in Heirs(w, x) : HandOver(x, heir)
  BY DEF DeleteUser
<1>3. \A t \in Shared(x) : t \in Teams /\ heir[t] \in Users
  BY <1>1, <1>2 DEF Heirs, Shared
<1>4. members' \subseteq Teams \X Users
  BY <1>1, <1>2, <1>3 DEF HandOver
<1>5. owner' \in [Uploads -> Users \cup {None}]
  BY <1>2, <1>3 DEF HandOver, IInv, TypeOK, SessionTypeOK
<1> QED
  BY <1>1, <1>4, <1>5 DEF DeleteUser, AccountTypeOK

\* A new session has no rows, no bytes and no steps under way.
LEMMA CreateUploadSessionKeeps ==
    ASSUME IInv, NEW w \in Workers, NEW u \in Uploads, NEW t \in Teams \cup {None},
           CreateUploadSession(w, u, t)
    PROVE  IInv'
<1>1. (SessionTypeOK /\ MediaTypeOK)'
  BY DEF IInv, TypeOK, CreateUploadSession, bootVars, putVars, accountVars,
         SessionTypeOK, MediaTypeOK, AccountTypeOK, ProcessTypeOK,
         StepsInOrder, Finalizing, Statuses, Infos, NoInfo, NoRows, Procs
<1>2. FinalizingRecorded'
  BY DEF IInv, TypeOK, CreateUploadSession, bootVars, putVars, accountVars,
         FinalizingRecorded, Finalizing, SessionTypeOK, MediaTypeOK,
         ProcessTypeOK, Procs
<1>3. CodesDistinct'
  BY DEF IInv, TypeOK, CreateUploadSession, bootVars, putVars, accountVars,
         CodesDistinct, Finalizing, SessionTypeOK, ProcessTypeOK, Procs
<1>4. RowsBacked'
  BY DEF IInv, TypeOK, CreateUploadSession, bootVars, putVars, accountVars,
         RowsBacked, ProcessTypeOK, StepsInOrder, Finalizing, NoRows, NoInfo,
         Procs
<1>5. WritesFounded'
  BY DEF IInv, TypeOK, CreateUploadSession, bootVars, putVars, accountVars,
         WritesFounded, SessionTypeOK, MediaTypeOK, ProcessTypeOK, Procs
<1>6. VerificationsFounded'
  BY DEF IInv, TypeOK, CreateUploadSession, bootVars, putVars, accountVars,
         VerificationsFounded, HasNonce, SessionTypeOK, MediaTypeOK,
         ProcessTypeOK, Procs
<1>7. MovesFounded'
  BY DEF IInv, TypeOK, CreateUploadSession, bootVars, putVars, accountVars,
         MovesFounded, Finalizing, SessionTypeOK, MediaTypeOK, ProcessTypeOK,
         Procs
<1>8. RemovalsFounded'
  BY DEF IInv, TypeOK, CreateUploadSession, bootVars, putVars, accountVars,
         RemovalsFounded, Finalizing, SessionTypeOK, MediaTypeOK,
         ProcessTypeOK, Procs
<1>9. ImagesBacked'
  BY DEF IInv, TypeOK, CreateUploadSession, bootVars, putVars, accountVars,
         ImagesBacked, SessionTypeOK, MediaTypeOK, ProcessTypeOK, Procs
<1>10. FailedOnlyWithoutOwner'
  BY DEF IInv, TypeOK, CreateUploadSession, bootVars, putVars, accountVars,
         FailedOnlyWithoutOwner, SessionTypeOK, MediaTypeOK, ProcessTypeOK,
         Procs
<1>11. (AccountTypeOK /\ ProcessTypeOK /\ StepsInOrder /\ LeaseHeld
        /\ PublishedOnce)'
  BY DEF IInv, TypeOK, CreateUploadSession, bootVars, putVars, accountVars,
         AccountTypeOK, ProcessTypeOK, StepsInOrder, LeaseHeld, Holding,
         PublishedOnce
<1> QED
  BY <1>1, <1>2, <1>3, <1>4, <1>5, <1>6, <1>7, <1>8, <1>9, <1>10, <1>11
     DEF IInv, TypeOK

\* A queued PUT owns nothing yet.
LEMMA PutBeginKeeps ==
    ASSUME IInv, NEW p \in Putters, NEW u \in Uploads, NEW k \in Parts, NEW b \in Blobs,
           PutBegin(p, u, k, b)
    PROVE  IInv'
<1>1. ProcessTypeOK'
  BY DEF IInv, TypeOK, PutBegin, Go, bootVars, accountVars, diskVars, rowVars,
         ProcessTypeOK, StepsInOrder, Steps, Procs
<1>2. (StepsInOrder /\ LeaseHeld)'
  BY DistinctAssumption
     DEF IInv, TypeOK, PutBegin, Go, bootVars, accountVars, diskVars, rowVars,
         StepsInOrder, LeaseHeld, Holding, ProcessTypeOK, Procs,
         DistinctAssumption
<1>3. WritesFounded'
  BY DEF IInv, TypeOK, PutBegin, Go, bootVars, accountVars, diskVars, rowVars,
         WritesFounded, SessionTypeOK, MediaTypeOK, ProcessTypeOK, Procs
<1>4. VerificationsFounded'
  BY DEF IInv, TypeOK, PutBegin, Go, bootVars, accountVars, diskVars, rowVars,
         VerificationsFounded, HasNonce, SessionTypeOK, MediaTypeOK,
         ProcessTypeOK, Procs
<1>5. MovesFounded'
  BY DEF IInv, TypeOK, PutBegin, Go, bootVars, accountVars, diskVars, rowVars,
         MovesFounded, Finalizing, SessionTypeOK, MediaTypeOK, ProcessTypeOK,
         Procs
<1>6. RemovalsFounded'
  BY DEF IInv, TypeOK, PutBegin, Go, bootVars, accountVars, diskVars, rowVars,
         RemovalsFounded, Finalizing, SessionTypeOK, MediaTypeOK,
         ProcessTypeOK, Procs
<1>7. (SessionTypeOK /\ MediaTypeOK /\ AccountTypeOK /\ FinalizingRecorded
       /\ CodesDistinct /\ RowsBacked /\ ImagesBacked /\ PublishedOnce
       /\ FailedOnlyWithoutOwner)'
  BY DEF IInv, TypeOK, PutBegin, Go, bootVars, accountVars, diskVars, rowVars,
         SessionTypeOK, MediaTypeOK, AccountTypeOK, FinalizingRecorded,
         Finalizing, CodesDistinct, RowsBacked, ImagesBacked, PublishedOnce,
         FailedOnlyWithoutOwner
<1> QED
  BY <1>1, <1>2, <1>3, <1>4, <1>5, <1>6, <1>7 DEF IInv, TypeOK

\* A receiving PUT has its gate and its temporary file, not the lease.
LEMMA PutReceiveKeeps ==
    ASSUME IInv, NEW p \in Putters, PutReceive(p) PROVE IInv'
<1>1. ProcessTypeOK'
  BY DEF IInv, TypeOK, PutReceive, Go, bootVars, accountVars, rowVars,
         ProcessTypeOK, StepsInOrder, Steps, Procs
<1>2. MediaTypeOK'
  BY DEF IInv, TypeOK, PutReceive, MediaTypeOK, ProcessTypeOK, StepsInOrder, Procs
<1>3. (StepsInOrder /\ LeaseHeld)'
  BY DEF IInv, TypeOK, PutReceive, Go, bootVars, accountVars, rowVars,
         StepsInOrder, LeaseHeld, Holding, ProcessTypeOK, Procs
<1>4. WritesFounded'
  BY DEF IInv, TypeOK, PutReceive, Go, bootVars, accountVars, rowVars,
         WritesFounded, SessionTypeOK, MediaTypeOK, ProcessTypeOK, Procs
<1>5. VerificationsFounded'
  BY DEF IInv, TypeOK, PutReceive, Go, bootVars, accountVars, rowVars,
         VerificationsFounded, HasNonce, SessionTypeOK, MediaTypeOK,
         ProcessTypeOK, Procs
<1>6. MovesFounded'
  BY DEF IInv, TypeOK, PutReceive, Go, bootVars, accountVars, rowVars,
         MovesFounded, Finalizing, SessionTypeOK, MediaTypeOK, ProcessTypeOK,
         Procs
<1>7. RemovalsFounded'
  BY DEF IInv, TypeOK, PutReceive, Go, bootVars, accountVars, rowVars,
         RemovalsFounded, Finalizing, SessionTypeOK, MediaTypeOK,
         ProcessTypeOK, Procs
<1>8. (SessionTypeOK /\ AccountTypeOK /\ FinalizingRecorded /\ CodesDistinct
       /\ RowsBacked /\ ImagesBacked /\ PublishedOnce
       /\ FailedOnlyWithoutOwner)'
  BY DEF IInv, TypeOK, PutReceive, Go, bootVars, accountVars, rowVars,
         SessionTypeOK, AccountTypeOK, FinalizingRecorded, Finalizing,
         CodesDistinct, RowsBacked, ImagesBacked, PublishedOnce,
         FailedOnlyWithoutOwner
<1> QED
  BY <1>1, <1>2, <1>3, <1>4, <1>5, <1>6, <1>7, <1>8 DEF IInv, TypeOK

\* A refused PUT leaves nothing.
LEMMA PutRefusedKeeps ==
    ASSUME IInv, NEW p \in Putters, PutRefused(p) PROVE IInv'
<1>1. ProcessTypeOK'
  BY ConstantsAssumption, GoodFilesAreContents
     DEF IInv, TypeOK, PutRefused, PutDone, Finish, bootVars, accountVars,
         diskVars, rowVars, ProcessTypeOK, StepsInOrder, Steps, Parts, Procs,
         Interrupted, ConstantsAssumption
<1>2. (StepsInOrder /\ LeaseHeld)'
  BY DEF IInv, TypeOK, PutRefused, PutDone, Finish, bootVars, accountVars,
         diskVars, rowVars, StepsInOrder, LeaseHeld, Holding, ProcessTypeOK,
         Procs
<1>3. WritesFounded'
  BY DEF IInv, TypeOK, PutRefused, PutDone, Finish, bootVars, accountVars,
         diskVars, rowVars, WritesFounded, SessionTypeOK, MediaTypeOK,
         ProcessTypeOK, Procs
<1>4. VerificationsFounded'
  BY DEF IInv, TypeOK, PutRefused, PutDone, Finish, bootVars, accountVars,
         diskVars, rowVars, VerificationsFounded, HasNonce, SessionTypeOK,
         MediaTypeOK, ProcessTypeOK, Procs
<1>5. MovesFounded'
  BY DEF IInv, TypeOK, PutRefused, PutDone, Finish, bootVars, accountVars,
         diskVars, rowVars, MovesFounded, Finalizing, SessionTypeOK,
         MediaTypeOK, ProcessTypeOK, Procs
<1>6. RemovalsFounded'
  BY DEF IInv, TypeOK, PutRefused, PutDone, Finish, bootVars, accountVars,
         diskVars, rowVars, RemovalsFounded, Finalizing, SessionTypeOK,
         MediaTypeOK, ProcessTypeOK, Procs
<1>7. (SessionTypeOK /\ MediaTypeOK /\ AccountTypeOK /\ FinalizingRecorded
       /\ CodesDistinct /\ RowsBacked /\ ImagesBacked /\ PublishedOnce
       /\ FailedOnlyWithoutOwner)'
  BY DEF IInv, TypeOK, PutRefused, PutDone, Finish, bootVars, accountVars,
         diskVars, rowVars, SessionTypeOK, MediaTypeOK, AccountTypeOK,
         FinalizingRecorded, Finalizing, CodesDistinct, RowsBacked,
         ImagesBacked, PublishedOnce, FailedOnlyWithoutOwner
<1> QED
  BY <1>1, <1>2, <1>3, <1>4, <1>5, <1>6, <1>7 DEF IInv, TypeOK

\* A staged PUT has released its gate and its slot.
LEMMA PutStagedKeeps ==
    ASSUME IInv, NEW p \in Putters, PutStaged(p) PROVE IInv'
<1>1. ProcessTypeOK'
  BY DEF IInv, TypeOK, PutStaged, Go, bootVars, putVars, accountVars,
         diskVars, rowVars, ProcessTypeOK, StepsInOrder, Steps, Procs
<1>2. (StepsInOrder /\ LeaseHeld)'
  BY DEF IInv, TypeOK, PutStaged, Go, bootVars, putVars, accountVars,
         diskVars, rowVars, StepsInOrder, LeaseHeld, Holding, ProcessTypeOK,
         Procs
<1>3. WritesFounded'
  BY DEF IInv, TypeOK, PutStaged, Go, bootVars, putVars, accountVars,
         diskVars, rowVars, WritesFounded, SessionTypeOK, MediaTypeOK,
         ProcessTypeOK, Procs
<1>4. VerificationsFounded'
  BY DEF IInv, TypeOK, PutStaged, Go, bootVars, putVars, accountVars,
         diskVars, rowVars, VerificationsFounded, HasNonce, SessionTypeOK,
         MediaTypeOK, ProcessTypeOK, Procs
<1>5. MovesFounded'
  BY DEF IInv, TypeOK, PutStaged, Go, bootVars, putVars, accountVars,
         diskVars, rowVars, MovesFounded, Finalizing, SessionTypeOK,
         MediaTypeOK, ProcessTypeOK, Procs
<1>6. RemovalsFounded'
  BY DEF IInv, TypeOK, PutStaged, Go, bootVars, putVars, accountVars,
         diskVars, rowVars, RemovalsFounded, Finalizing, SessionTypeOK,
         MediaTypeOK, ProcessTypeOK, Procs
<1>7. (SessionTypeOK /\ MediaTypeOK /\ AccountTypeOK /\ FinalizingRecorded
       /\ CodesDistinct /\ RowsBacked /\ ImagesBacked /\ PublishedOnce
       /\ FailedOnlyWithoutOwner)'
  BY DEF IInv, TypeOK, PutStaged, Go, bootVars, putVars, accountVars,
         diskVars, rowVars, SessionTypeOK, MediaTypeOK, AccountTypeOK,
         FinalizingRecorded, Finalizing, CodesDistinct, RowsBacked,
         ImagesBacked, PublishedOnce, FailedOnlyWithoutOwner
<1> QED
  BY <1>1, <1>2, <1>3, <1>4, <1>5, <1>6, <1>7 DEF IInv, TypeOK

\* A rejected body leaves nothing.
LEMMA PutRejectedKeeps ==
    ASSUME IInv, NEW p \in Putters, PutRejected(p) PROVE IInv'
<1>1. ProcessTypeOK'
  BY ConstantsAssumption, GoodFilesAreContents
     DEF IInv, TypeOK, PutRejected, PutDone, Finish, bootVars, accountVars,
         diskVars, rowVars, ProcessTypeOK, StepsInOrder, Steps, Parts, Procs,
         Interrupted, ConstantsAssumption
<1>2. (StepsInOrder /\ LeaseHeld)'
  BY DEF IInv, TypeOK, PutRejected, PutDone, Finish, bootVars, accountVars,
         diskVars, rowVars, StepsInOrder, LeaseHeld, Holding, ProcessTypeOK,
         Procs
<1>3. WritesFounded'
  BY DEF IInv, TypeOK, PutRejected, PutDone, Finish, bootVars, accountVars,
         diskVars, rowVars, WritesFounded, SessionTypeOK, MediaTypeOK,
         ProcessTypeOK, Procs
<1>4. VerificationsFounded'
  BY DEF IInv, TypeOK, PutRejected, PutDone, Finish, bootVars, accountVars,
         diskVars, rowVars, VerificationsFounded, HasNonce, SessionTypeOK,
         MediaTypeOK, ProcessTypeOK, Procs
<1>5. MovesFounded'
  BY DEF IInv, TypeOK, PutRejected, PutDone, Finish, bootVars, accountVars,
         diskVars, rowVars, MovesFounded, Finalizing, SessionTypeOK,
         MediaTypeOK, ProcessTypeOK, Procs
<1>6. RemovalsFounded'
  BY DEF IInv, TypeOK, PutRejected, PutDone, Finish, bootVars, accountVars,
         diskVars, rowVars, RemovalsFounded, Finalizing, SessionTypeOK,
         MediaTypeOK, ProcessTypeOK, Procs
<1>7. (SessionTypeOK /\ MediaTypeOK /\ AccountTypeOK /\ FinalizingRecorded
       /\ CodesDistinct /\ RowsBacked /\ ImagesBacked /\ PublishedOnce
       /\ FailedOnlyWithoutOwner)'
  BY DEF IInv, TypeOK, PutRejected, PutDone, Finish, bootVars, accountVars,
         diskVars, rowVars, SessionTypeOK, MediaTypeOK, AccountTypeOK,
         FinalizingRecorded, Finalizing, CodesDistinct, RowsBacked,
         ImagesBacked, PublishedOnce, FailedOnlyWithoutOwner
<1> QED
  BY <1>1, <1>2, <1>3, <1>4, <1>5, <1>6, <1>7 DEF IInv, TypeOK

\* Losing a temporary file concerns no row.
LEMMA PutAbandonedKeeps ==
    ASSUME IInv, NEW p \in Putters, PutAbandoned(p) PROVE IInv'
<1>1. ProcessTypeOK'
  BY DEF IInv, TypeOK, PutAbandoned, bootVars, accountVars, diskVars, rowVars,
         ProcessTypeOK, MediaTypeOK, SessionTypeOK, Procs
<1>2. (SessionTypeOK /\ MediaTypeOK /\ AccountTypeOK /\ StepsInOrder
       /\ LeaseHeld /\ FinalizingRecorded /\ CodesDistinct /\ RowsBacked
       /\ WritesFounded /\ VerificationsFounded /\ MovesFounded
       /\ RemovalsFounded /\ ImagesBacked /\ PublishedOnce
       /\ FailedOnlyWithoutOwner)'
  BY DEF IInv, TypeOK, PutAbandoned, bootVars, accountVars, diskVars, rowVars,
         SessionTypeOK, MediaTypeOK, AccountTypeOK, StepsInOrder, LeaseHeld,
         Holding, FinalizingRecorded, Finalizing, CodesDistinct, RowsBacked,
         WritesFounded, VerificationsFounded, HasNonce, MovesFounded,
         RemovalsFounded, ImagesBacked, PublishedOnce, FailedOnlyWithoutOwner
<1> QED
  BY <1>1, <1>2 DEF IInv, TypeOK

\* A write touches only a range whose part has no row, in an active session.
LEMMA PutWriteKeeps ==
    ASSUME IInv, NEW p \in Putters, PutWrite(p) PROVE IInv'
<1>1. ProcessTypeOK'
  BY DEF IInv, TypeOK, PutWrite, Placed, Go, bootVars, putVars, accountVars,
         rowVars, ProcessTypeOK, StepsInOrder, Steps, Procs
<1>2. MediaTypeOK'
  <2>1. source' = Placed(p) /\ pc[p] = "staged"
    BY DEF PutWrite
  <2>2. source' \in [Uploads -> Contents \cup {None}]
    BY <2>1, PlacedPointwise DEF Placed, IInv, TypeOK, MediaTypeOK
  <2> QED
    BY <2>2 DEF PutWrite, IInv, TypeOK, MediaTypeOK
<1>3. RowsBacked'
  <2>1. source' = Placed(p) /\ pc[p] = "staged" /\ rows[at[p]][part[p]] = None
        /\ UNCHANGED <<status, rows>> /\ status[at[p]] = "active"
    BY DEF PutWrite, MayCommitPart, rowVars
  <2> QED
    BY <2>1, PlacedPointwise, DistinctAssumption
       DEF IInv, RowsBacked, DistinctAssumption
<1>4. WritesFounded'
  <2>1. /\ source' = Placed(p) /\ pc[p] = "staged" /\ LeaseFree
        /\ UNCHANGED <<status, rows, at, part>> /\ pc' = [pc EXCEPT ![p] = "writing"]
        /\ status[at[p]] = "active" /\ rows[at[p]][part[p]] = None
    BY DEF PutWrite, MayCommitPart, Go, rowVars, putVars
  <2>2. \A q \in Putters \ {p} : pc'[q] # "writing"
    BY <2>1, NobodyHolds DEF Holding, Procs, IInv, TypeOK, ProcessTypeOK
  <2>3. source'[at[p]] # None
    BY <2>1, PlacedPointwise, DistinctAssumption DEF DistinctAssumption
  <2> QED
    BY <2>1, <2>2, <2>3 DEF WritesFounded
<1>5. (StepsInOrder /\ LeaseHeld)'
  BY DistinctAssumption
     DEF IInv, TypeOK, PutWrite, Placed, Go, bootVars, putVars, accountVars,
         rowVars, StepsInOrder, LeaseHeld, Holding, ProcessTypeOK, Procs,
         LeaseFree, DistinctAssumption
<1>6. FinalizingRecorded'
  BY DEF IInv, TypeOK, PutWrite, Placed, Go, bootVars, putVars, accountVars,
         rowVars, FinalizingRecorded, Finalizing, ProcessTypeOK, StepsInOrder,
         HasRow, FreshCodes, MayPublish, MayCommitPart, PendingCode, Procs
<1>7. VerificationsFounded'
  BY DEF IInv, TypeOK, PutWrite, Placed, Go, bootVars, putVars, accountVars,
         rowVars, VerificationsFounded, HasNonce, ProcessTypeOK, StepsInOrder,
         Finalizing, HasRow, MayCommitPart, Procs
<1>8. MovesFounded'
  BY DistinctAssumption
     DEF IInv, TypeOK, PutWrite, Placed, Go, bootVars, putVars, accountVars,
         rowVars, MovesFounded, Finalizing, ProcessTypeOK, StepsInOrder,
         LeaseHeld, Holding, LeaseFree, Procs, DistinctAssumption
<1>9. RemovalsFounded'
  BY DEF IInv, TypeOK, PutWrite, Placed, Go, bootVars, putVars, accountVars,
         rowVars, RemovalsFounded, Finalizing, SessionTypeOK, MediaTypeOK,
         ProcessTypeOK, Procs
<1>10. (SessionTypeOK /\ AccountTypeOK /\ CodesDistinct /\ ImagesBacked
        /\ PublishedOnce /\ FailedOnlyWithoutOwner)'
  BY DEF IInv, TypeOK, PutWrite, Placed, Go, bootVars, putVars, accountVars,
         rowVars, SessionTypeOK, AccountTypeOK, CodesDistinct, Finalizing,
         ImagesBacked, PublishedOnce, FailedOnlyWithoutOwner
<1> QED
  BY <1>1, <1>2, <1>3, <1>4, <1>5, <1>6, <1>7, <1>8, <1>9, <1>10
     DEF IInv, TypeOK

\* A repeated part renews its session and writes nothing.
LEMMA PutRepeatedKeeps ==
    ASSUME IInv, NEW p \in Putters, PutRepeated(p) PROVE IInv'
<1>1. (SessionTypeOK /\ ProcessTypeOK)'
  <2>1. SessionTypeOK'
    BY DEF PutRepeated, IInv, TypeOK, SessionTypeOK
  <2>2. ProcessTypeOK'
    BY ZeroIsPart
       DEF PutRepeated, PutDone, Finish, bootVars, IInv, TypeOK,
           ProcessTypeOK, Steps
  <2> QED
    BY <2>1, <2>2
<1>2. (StepsInOrder /\ LeaseHeld)'
  BY DEF IInv, TypeOK, PutRepeated, PutDone, Finish, bootVars, accountVars,
         diskVars, StepsInOrder, LeaseHeld, Holding, ProcessTypeOK, Procs
<1>3. WritesFounded'
  BY DEF IInv, TypeOK, PutRepeated, PutDone, Finish, bootVars, accountVars,
         diskVars, WritesFounded, SessionTypeOK, MediaTypeOK, ProcessTypeOK,
         Procs
<1>4. VerificationsFounded'
  BY DEF IInv, TypeOK, PutRepeated, PutDone, Finish, bootVars, accountVars,
         diskVars, VerificationsFounded, HasNonce, SessionTypeOK, MediaTypeOK,
         ProcessTypeOK, Procs
<1>5. MovesFounded'
  BY DEF IInv, TypeOK, PutRepeated, PutDone, Finish, bootVars, accountVars,
         diskVars, MovesFounded, Finalizing, SessionTypeOK, MediaTypeOK,
         ProcessTypeOK, Procs
<1>6. RemovalsFounded'
  BY DEF IInv, TypeOK, PutRepeated, PutDone, Finish, bootVars, accountVars,
         diskVars, RemovalsFounded, Finalizing, SessionTypeOK, MediaTypeOK,
         ProcessTypeOK, Procs
<1>7. (MediaTypeOK /\ AccountTypeOK /\ FinalizingRecorded /\ CodesDistinct
       /\ RowsBacked /\ ImagesBacked /\ PublishedOnce
       /\ FailedOnlyWithoutOwner)'
  BY DEF IInv, TypeOK, PutRepeated, PutDone, Finish, bootVars, accountVars,
         diskVars, MediaTypeOK, AccountTypeOK, FinalizingRecorded, Finalizing,
         CodesDistinct, RowsBacked, ImagesBacked, PublishedOnce,
         FailedOnlyWithoutOwner
<1> QED
  BY <1>1, <1>2, <1>3, <1>4, <1>5, <1>6, <1>7 DEF IInv, TypeOK

\* A conflicting part leaves nothing.
LEMMA PutConflictKeeps ==
    ASSUME IInv, NEW p \in Putters, PutConflict(p) PROVE IInv'
<1>1. ProcessTypeOK'
  BY ConstantsAssumption, GoodFilesAreContents
     DEF IInv, TypeOK, PutConflict, PutDone, Finish, bootVars, accountVars,
         diskVars, rowVars, ProcessTypeOK, StepsInOrder, Steps, Parts, Procs,
         Interrupted, ConstantsAssumption
<1>2. (StepsInOrder /\ LeaseHeld)'
  BY DEF IInv, TypeOK, PutConflict, PutDone, Finish, bootVars, accountVars,
         diskVars, rowVars, StepsInOrder, LeaseHeld, Holding, ProcessTypeOK,
         Procs
<1>3. WritesFounded'
  BY DEF IInv, TypeOK, PutConflict, PutDone, Finish, bootVars, accountVars,
         diskVars, rowVars, WritesFounded, SessionTypeOK, MediaTypeOK,
         ProcessTypeOK, Procs
<1>4. VerificationsFounded'
  BY DEF IInv, TypeOK, PutConflict, PutDone, Finish, bootVars, accountVars,
         diskVars, rowVars, VerificationsFounded, HasNonce, SessionTypeOK,
         MediaTypeOK, ProcessTypeOK, Procs
<1>5. MovesFounded'
  BY DEF IInv, TypeOK, PutConflict, PutDone, Finish, bootVars, accountVars,
         diskVars, rowVars, MovesFounded, Finalizing, SessionTypeOK,
         MediaTypeOK, ProcessTypeOK, Procs
<1>6. RemovalsFounded'
  BY DEF IInv, TypeOK, PutConflict, PutDone, Finish, bootVars, accountVars,
         diskVars, rowVars, RemovalsFounded, Finalizing, SessionTypeOK,
         MediaTypeOK, ProcessTypeOK, Procs
<1>7. (SessionTypeOK /\ MediaTypeOK /\ AccountTypeOK /\ FinalizingRecorded
       /\ CodesDistinct /\ RowsBacked /\ ImagesBacked /\ PublishedOnce
       /\ FailedOnlyWithoutOwner)'
  BY DEF IInv, TypeOK, PutConflict, PutDone, Finish, bootVars, accountVars,
         diskVars, rowVars, SessionTypeOK, MediaTypeOK, AccountTypeOK,
         FinalizingRecorded, Finalizing, CodesDistinct, RowsBacked,
         ImagesBacked, PublishedOnce, FailedOnlyWithoutOwner
<1> QED
  BY <1>1, <1>2, <1>3, <1>4, <1>5, <1>6, <1>7 DEF IInv, TypeOK

\* The row of a part is committed after its bytes.
LEMMA PutCommittedKeeps ==
    ASSUME IInv, NEW p \in Putters, PutCommitted(p) PROVE IInv'
<1>1. (SessionTypeOK /\ MediaTypeOK /\ ProcessTypeOK)'
  BY ConstantsAssumption, GoodFilesAreContents
     DEF IInv, TypeOK, PutCommitted, Written, PutDone, Finish, bootVars,
         accountVars, SessionTypeOK, MediaTypeOK, ProcessTypeOK, StepsInOrder,
         Finalizing, WritesFounded, Statuses, Infos, NoInfo, NoRows, Parts,
         Procs, Contents, Cells, Empty, Images, Steps, Interrupted,
         ConstantsAssumption
<1>2. RowsBacked'
  <2>1. /\ pc[p] = "writing" /\ UNCHANGED status
        /\ source' = Written(p) /\ rows' = [rows EXCEPT ![at[p]][part[p]] = blob[p]]
    BY DEF PutCommitted, rowVars
  <2>2. status[at[p]] = "active" /\ source[at[p]] # None /\ rows[at[p]][part[p]] = None
    BY <2>1 DEF IInv, WritesFounded
  <2>3. rows \in [Uploads -> [Parts -> Blobs \cup {None}]]
    BY DEF IInv, TypeOK, SessionTypeOK
  <2> QED
    BY <2>1, <2>2, <2>3, WrittenPointwise, DistinctAssumption
       DEF IInv, RowsBacked, DistinctAssumption
<1>3. (StepsInOrder /\ LeaseHeld)'
  BY DistinctAssumption
     DEF IInv, TypeOK, PutCommitted, Written, PutDone, Finish, bootVars,
         accountVars, StepsInOrder, LeaseHeld, Holding, ProcessTypeOK, Procs,
         DistinctAssumption
<1>4. FinalizingRecorded'
  BY DEF IInv, TypeOK, PutCommitted, Written, PutDone, Finish, bootVars,
         accountVars, FinalizingRecorded, Finalizing, ProcessTypeOK,
         StepsInOrder, WritesFounded, Procs
<1>5. WritesFounded'
  BY DEF IInv, TypeOK, PutCommitted, Written, PutDone, Finish, bootVars,
         accountVars, WritesFounded, ProcessTypeOK, StepsInOrder, LeaseHeld,
         Holding, LeaseFree, Procs
<1>6. VerificationsFounded'
  BY DEF IInv, TypeOK, PutCommitted, Written, PutDone, Finish, bootVars,
         accountVars, VerificationsFounded, HasNonce, ProcessTypeOK,
         StepsInOrder, WritesFounded, Finalizing, Procs
<1>7. MovesFounded'
  BY DEF IInv, TypeOK, PutCommitted, Written, PutDone, Finish, bootVars,
         accountVars, MovesFounded, Finalizing, ProcessTypeOK, StepsInOrder,
         LeaseHeld, Holding, LeaseFree, Procs
<1>8. RemovalsFounded'
  BY DEF IInv, TypeOK, PutCommitted, Written, PutDone, Finish, bootVars,
         accountVars, RemovalsFounded, Finalizing, SessionTypeOK, MediaTypeOK,
         ProcessTypeOK, Procs
<1>9. (AccountTypeOK /\ CodesDistinct /\ ImagesBacked /\ PublishedOnce
       /\ FailedOnlyWithoutOwner)'
  BY DEF IInv, TypeOK, PutCommitted, Written, PutDone, Finish, bootVars,
         accountVars, AccountTypeOK, CodesDistinct, Finalizing, ImagesBacked,
         PublishedOnce, FailedOnlyWithoutOwner
<1> QED
  BY <1>1, <1>2, <1>3, <1>4, <1>5, <1>6, <1>7, <1>8, <1>9 DEF IInv, TypeOK

\* A failed write may leave bytes, and no row claims them.
LEMMA PutWriteFailsKeeps ==
    ASSUME IInv, NEW p \in Putters, PutWriteFails(p) PROVE IInv'
<1>1. MediaTypeOK'
  <2>1. source' \in {source, Written(p)} /\ pc[p] = "writing"
    BY DEF PutWriteFails
  <2>2. source' \in [Uploads -> Contents \cup {None}]
    BY <2>1, WrittenPointwise DEF Written, IInv, TypeOK, MediaTypeOK
  <2> QED
    BY <2>2 DEF PutWriteFails, IInv, TypeOK, MediaTypeOK
<1>2. ProcessTypeOK'
  BY ZeroIsPart
     DEF PutWriteFails, PutDone, Finish, bootVars, IInv, TypeOK, ProcessTypeOK,
         Steps
<1>3. RowsBacked'
  <2>1. /\ pc[p] = "writing" /\ UNCHANGED status
        /\ source' \in {source, Written(p)} /\ UNCHANGED rows
    BY DEF PutWriteFails, rowVars
  <2>2. status[at[p]] = "active" /\ source[at[p]] # None /\ rows[at[p]][part[p]] = None
    BY <2>1 DEF IInv, WritesFounded
  <2>3. rows \in [Uploads -> [Parts -> Blobs \cup {None}]]
    BY DEF IInv, TypeOK, SessionTypeOK
  <2> QED
    BY <2>1, <2>2, <2>3, WrittenPointwise, DistinctAssumption
       DEF IInv, RowsBacked, DistinctAssumption
<1>4. (StepsInOrder /\ LeaseHeld)'
  BY DistinctAssumption
     DEF IInv, TypeOK, PutWriteFails, Written, PutDone, Finish, bootVars,
         accountVars, rowVars, StepsInOrder, LeaseHeld, Holding,
         ProcessTypeOK, Procs, DistinctAssumption
<1>5. FinalizingRecorded'
  BY DEF IInv, TypeOK, PutWriteFails, Written, PutDone, Finish, bootVars,
         accountVars, rowVars, FinalizingRecorded, Finalizing, MediaTypeOK,
         ProcessTypeOK, StepsInOrder, WritesFounded, Procs
<1>6. WritesFounded'
  BY DEF IInv, TypeOK, PutWriteFails, Written, PutDone, Finish, bootVars,
         accountVars, rowVars, WritesFounded, ProcessTypeOK, StepsInOrder,
         LeaseHeld, Holding, LeaseFree, Procs
<1>7. VerificationsFounded'
  BY DEF IInv, TypeOK, PutWriteFails, Written, PutDone, Finish, bootVars,
         accountVars, rowVars, VerificationsFounded, HasNonce, MediaTypeOK,
         ProcessTypeOK, StepsInOrder, WritesFounded, Finalizing, Procs
<1>8. MovesFounded'
  BY DEF IInv, TypeOK, PutWriteFails, Written, PutDone, Finish, bootVars,
         accountVars, rowVars, MovesFounded, Finalizing, ProcessTypeOK,
         StepsInOrder, LeaseHeld, Holding, LeaseFree, Procs
<1>9. RemovalsFounded'
  BY DEF IInv, TypeOK, PutWriteFails, Written, PutDone, Finish, bootVars,
         accountVars, rowVars, RemovalsFounded, Finalizing, SessionTypeOK,
         MediaTypeOK, ProcessTypeOK, Procs
<1>10. (SessionTypeOK /\ AccountTypeOK /\ CodesDistinct /\ ImagesBacked
        /\ PublishedOnce /\ FailedOnlyWithoutOwner)'
  BY DEF IInv, TypeOK, PutWriteFails, Written, PutDone, Finish, bootVars,
         accountVars, rowVars, SessionTypeOK, AccountTypeOK, CodesDistinct,
         Finalizing, ImagesBacked, PublishedOnce, FailedOnlyWithoutOwner
<1> QED
  BY <1>1, <1>2, <1>3, <1>4, <1>5, <1>6, <1>7, <1>8, <1>9, <1>10
     DEF IInv, TypeOK

\* Verification starts from rows and bytes that agree.
LEMMA CompleteBeginKeeps ==
    ASSUME IInv, NEW c \in Completers, NEW u \in Uploads, CompleteBegin(c, u)
    PROVE  IInv'
<1>1. (SessionTypeOK /\ ProcessTypeOK)'
  BY DEF IInv, TypeOK, CompleteBegin, Go, bootVars, putVars, accountVars,
         diskVars, SessionTypeOK, ProcessTypeOK, StepsInOrder, Finalizing,
         Statuses, Infos, NoInfo, NoRows, Procs, Steps
<1>2. (StepsInOrder /\ LeaseHeld)'
  BY DistinctAssumption
     DEF IInv, TypeOK, CompleteBegin, Go, bootVars, putVars, accountVars,
         diskVars, StepsInOrder, LeaseHeld, Holding, ProcessTypeOK, Procs,
         DistinctAssumption
<1>3. FinalizingRecorded'
  BY DEF IInv, TypeOK, CompleteBegin, Go, bootVars, putVars, accountVars,
         diskVars, FinalizingRecorded, Finalizing, SessionTypeOK, MediaTypeOK,
         ProcessTypeOK, Procs
<1>4. CodesDistinct'
  BY DEF IInv, TypeOK, CompleteBegin, Go, bootVars, putVars, accountVars,
         diskVars, CodesDistinct, Finalizing, SessionTypeOK, ProcessTypeOK,
         Procs
<1>5. RowsBacked'
  BY DEF IInv, TypeOK, CompleteBegin, Go, bootVars, putVars, accountVars,
         diskVars, RowsBacked, SessionTypeOK, MediaTypeOK, ProcessTypeOK,
         Procs
<1>6. WritesFounded'
  BY DEF IInv, TypeOK, CompleteBegin, Go, bootVars, putVars, accountVars,
         diskVars, WritesFounded, SessionTypeOK, MediaTypeOK, ProcessTypeOK,
         Procs
<1>7. VerificationsFounded'
  BY DEF IInv, TypeOK, CompleteBegin, Go, bootVars, putVars, accountVars,
         diskVars, VerificationsFounded, HasNonce, SessionTypeOK, MediaTypeOK,
         ProcessTypeOK, Procs
<1>8. MovesFounded'
  BY DEF IInv, TypeOK, CompleteBegin, Go, bootVars, putVars, accountVars,
         diskVars, MovesFounded, Finalizing, SessionTypeOK, MediaTypeOK,
         ProcessTypeOK, Procs
<1>9. RemovalsFounded'
  BY DEF IInv, TypeOK, CompleteBegin, Go, bootVars, putVars, accountVars,
         diskVars, RemovalsFounded, Finalizing, SessionTypeOK, MediaTypeOK,
         ProcessTypeOK, Procs
<1>10. ImagesBacked'
  BY DEF IInv, TypeOK, CompleteBegin, Go, bootVars, putVars, accountVars,
         diskVars, ImagesBacked, SessionTypeOK, MediaTypeOK, ProcessTypeOK,
         Procs
<1>11. FailedOnlyWithoutOwner'
  BY DEF IInv, TypeOK, CompleteBegin, Go, bootVars, putVars, accountVars,
         diskVars, FailedOnlyWithoutOwner, SessionTypeOK, MediaTypeOK,
         ProcessTypeOK, Procs
<1>12. (MediaTypeOK /\ AccountTypeOK /\ PublishedOnce)'
  BY DEF IInv, TypeOK, CompleteBegin, Go, bootVars, putVars, accountVars,
         diskVars, MediaTypeOK, AccountTypeOK, PublishedOnce
<1> QED
  BY <1>1, <1>2, <1>3, <1>4, <1>5, <1>6, <1>7, <1>8, <1>9, <1>10, <1>11, <1>12
     DEF IInv, TypeOK

\* The digest of an attempt that still owns its nonce is its file's, and good.
LEMMA CompleteVerifiedKeeps ==
    ASSUME IInv, NEW c \in Completers, CompleteVerified(c) PROVE IInv'
<1>1. ProcessTypeOK'
  BY DEF IInv, TypeOK, CompleteVerified, Go, bootVars, putVars, accountVars,
         diskVars, rowVars, ProcessTypeOK, MediaTypeOK, StepsInOrder, Steps,
         Procs
<1>2. VerificationsFounded'
  <2>1. /\ pc[c] = "verifying" /\ Verifies(at[c]) /\ UNCHANGED <<status, info, rows, source, at>>
        /\ digest' = [digest EXCEPT ![c] = source[at[c]]]
        /\ pc' = [pc EXCEPT ![c] = "verified"]
    BY DEF CompleteVerified, Go, rowVars, diskVars
  <2>2. c \in Procs /\ at[c] \in Uploads
    BY <2>1 DEF IInv, StepsInOrder, Procs
  <2>3. source[at[c]] \in Contents /\ rows[at[c]] \in [Parts -> Blobs \cup {None}]
    BY <2>1, <2>2 DEF IInv, TypeOK, MediaTypeOK, SessionTypeOK, Verifies
  <2>4. \A k \in Parts : source[at[c]][k] = rows[at[c]][k] /\ source[at[c]][k] \in Blobs
    BY <2>1, <2>2, <2>3, DistinctAssumption DEF Verifies, Contents, Cells, DistinctAssumption
  <2>5. source[at[c]] \in [Parts -> Blobs]
    BY <2>3, <2>4 DEF Contents
  <2>6. source[at[c]] \in GoodFiles[at[c]]
    BY <2>1, <2>2, <2>5 DEF GoodFiles, Verifies
  <2>7. \A d \in Completers \ {c} : pc'[d] = pc[d] /\ digest'[d] = digest[d]
    BY <2>1 DEF IInv, TypeOK, ProcessTypeOK, Procs
  <2>8. digest'[c] = source[at[c]]
    BY <2>1 DEF IInv, TypeOK, ProcessTypeOK
  <2> QED
    BY <2>1, <2>4, <2>6, <2>7, <2>8 DEF IInv, VerificationsFounded, HasNonce
<1>3. (StepsInOrder /\ LeaseHeld)'
  BY DEF IInv, TypeOK, CompleteVerified, Go, bootVars, putVars, accountVars,
         diskVars, rowVars, StepsInOrder, LeaseHeld, Holding, ProcessTypeOK,
         Procs
<1>4. WritesFounded'
  BY DEF IInv, TypeOK, CompleteVerified, Go, bootVars, putVars, accountVars,
         diskVars, rowVars, WritesFounded, SessionTypeOK, MediaTypeOK,
         ProcessTypeOK, Procs
<1>5. MovesFounded'
  BY DEF IInv, TypeOK, CompleteVerified, Go, bootVars, putVars, accountVars,
         diskVars, rowVars, MovesFounded, Finalizing, SessionTypeOK,
         MediaTypeOK, ProcessTypeOK, Procs
<1>6. RemovalsFounded'
  BY DEF IInv, TypeOK, CompleteVerified, Go, bootVars, putVars, accountVars,
         diskVars, rowVars, RemovalsFounded, Finalizing, SessionTypeOK,
         MediaTypeOK, ProcessTypeOK, Procs
<1>7. (SessionTypeOK /\ MediaTypeOK /\ AccountTypeOK /\ FinalizingRecorded
       /\ CodesDistinct /\ RowsBacked /\ ImagesBacked /\ PublishedOnce
       /\ FailedOnlyWithoutOwner)'
  BY DEF IInv, TypeOK, CompleteVerified, Go, bootVars, putVars, accountVars,
         diskVars, rowVars, SessionTypeOK, MediaTypeOK, AccountTypeOK,
         FinalizingRecorded, Finalizing, CodesDistinct, RowsBacked,
         ImagesBacked, PublishedOnce, FailedOnlyWithoutOwner
<1> QED
  BY <1>1, <1>2, <1>3, <1>4, <1>5, <1>6, <1>7 DEF IInv, TypeOK

\* A failed hash changes no row.
LEMMA CompleteUnverifiedKeeps ==
    ASSUME IInv, NEW c \in Completers, CompleteUnverified(c) PROVE IInv'
<1>1. ProcessTypeOK'
  BY DEF IInv, TypeOK, CompleteUnverified, Go, bootVars, putVars, accountVars,
         diskVars, rowVars, ProcessTypeOK, StepsInOrder, Steps, Procs
<1>2. (StepsInOrder /\ LeaseHeld)'
  BY DEF IInv, TypeOK, CompleteUnverified, Go, bootVars, putVars, accountVars,
         diskVars, rowVars, StepsInOrder, LeaseHeld, Holding, ProcessTypeOK,
         Procs
<1>3. WritesFounded'
  BY DEF IInv, TypeOK, CompleteUnverified, Go, bootVars, putVars, accountVars,
         diskVars, rowVars, WritesFounded, SessionTypeOK, MediaTypeOK,
         ProcessTypeOK, Procs
<1>4. VerificationsFounded'
  BY DEF IInv, TypeOK, CompleteUnverified, Go, bootVars, putVars, accountVars,
         diskVars, rowVars, VerificationsFounded, HasNonce, SessionTypeOK,
         MediaTypeOK, ProcessTypeOK, Procs
<1>5. MovesFounded'
  BY DEF IInv, TypeOK, CompleteUnverified, Go, bootVars, putVars, accountVars,
         diskVars, rowVars, MovesFounded, Finalizing, SessionTypeOK,
         MediaTypeOK, ProcessTypeOK, Procs
<1>6. RemovalsFounded'
  BY DEF IInv, TypeOK, CompleteUnverified, Go, bootVars, putVars, accountVars,
         diskVars, rowVars, RemovalsFounded, Finalizing, SessionTypeOK,
         MediaTypeOK, ProcessTypeOK, Procs
<1>7. (SessionTypeOK /\ MediaTypeOK /\ AccountTypeOK /\ FinalizingRecorded
       /\ CodesDistinct /\ RowsBacked /\ ImagesBacked /\ PublishedOnce
       /\ FailedOnlyWithoutOwner)'
  BY DEF IInv, TypeOK, CompleteUnverified, Go, bootVars, putVars, accountVars,
         diskVars, rowVars, SessionTypeOK, MediaTypeOK, AccountTypeOK,
         FinalizingRecorded, Finalizing, CodesDistinct, RowsBacked,
         ImagesBacked, PublishedOnce, FailedOnlyWithoutOwner
<1> QED
  BY <1>1, <1>2, <1>3, <1>4, <1>5, <1>6, <1>7 DEF IInv, TypeOK

\* Returning to active keeps rows and bytes, and fails only without bytes.
LEMMA CompleteResetKeeps ==
    ASSUME IInv, NEW c \in Completers, CompleteReset(c) PROVE IInv'
<1>1. ProcessTypeOK'
  BY DEF IInv, TypeOK, CompleteReset, CompleteDone, Finish, ReturnToActive,
         HasNonce, SettledStatus, bootVars, putVars, accountVars, diskVars,
         ProcessTypeOK, StepsInOrder, Steps, Procs
<1>2. SessionTypeOK'
  <2>1. at[c] \in Uploads
    BY DEF CompleteReset, IInv, StepsInOrder, Procs
  <2>2. SettledStatus(at[c]) \in Statuses
    BY DEF SettledStatus, Statuses
  <2>3. \/ UNCHANGED <<status, info, live>>
        \/ /\ status' = [status EXCEPT ![at[c]] = SettledStatus(at[c])]
           /\ info' = [info EXCEPT ![at[c]] = NoInfo]
           /\ live' = [live EXCEPT ![at[c]] = TRUE]
    BY DEF CompleteReset, ReturnToActive
  <2>4. UNCHANGED <<owner, team, final, rows>>
    BY DEF CompleteReset
  <2> QED
    BY <2>1, <2>2, <2>3, <2>4, NoInfoIsInfo DEF IInv, TypeOK, SessionTypeOK
<1>3. VerificationsFounded'
  <2>1. /\ at[c] \in Uploads
        /\ pc' = [pc EXCEPT ![c] = "idle"] /\ at' = [at EXCEPT ![c] = None]
        /\ digest' = [digest EXCEPT ![c] = None] /\ UNCHANGED <<rows, source>>
    BY DEF CompleteReset, CompleteDone, Finish, diskVars, IInv, StepsInOrder, Procs
  <2>2. \A d \in Completers \ {c} : pc'[d] = pc[d] /\ at'[d] = at[d] /\ digest'[d] = digest[d]
    BY <2>1 DEF IInv, TypeOK, ProcessTypeOK, Procs
  <2>3. pc'[c] = "idle"
    BY <2>1 DEF IInv, TypeOK, ProcessTypeOK, Procs
  <2>4. SettledStatus(at[c]) # "verifying"
    BY DEF SettledStatus
  <2>5. \/ UNCHANGED <<status, info>>
        \/ /\ status' = [status EXCEPT ![at[c]] = SettledStatus(at[c])]
           /\ info' = [info EXCEPT ![at[c]] = NoInfo]
    BY DEF CompleteReset, ReturnToActive
  <2>6. \A v \in Uploads, d \in Completers :
          status'[v] = "verifying" /\ info'[v].nonce = d => HasNonce(v, d)
    BY <2>1, <2>4, <2>5 DEF IInv, TypeOK, SessionTypeOK, HasNonce
  <2>7. \A d \in Completers : pc[d] = "verified" => at[d] \in Uploads
    BY DEF IInv, StepsInOrder, Procs
  <2> QED
    BY <2>1, <2>2, <2>3, <2>6, <2>7 DEF IInv, VerificationsFounded, HasNonce
<1>4. (StepsInOrder /\ LeaseHeld)'
  BY DEF IInv, TypeOK, CompleteReset, CompleteDone, Finish, ReturnToActive,
         HasNonce, SettledStatus, bootVars, putVars, accountVars, diskVars,
         StepsInOrder, LeaseHeld, Holding, ProcessTypeOK, Procs
<1>5. FinalizingRecorded'
  BY DEF IInv, TypeOK, CompleteReset, CompleteDone, Finish, ReturnToActive,
         HasNonce, SettledStatus, bootVars, putVars, accountVars, diskVars,
         FinalizingRecorded, Finalizing, SessionTypeOK, MediaTypeOK,
         ProcessTypeOK, Procs
<1>6. CodesDistinct'
  BY DEF IInv, TypeOK, CompleteReset, CompleteDone, Finish, ReturnToActive,
         HasNonce, SettledStatus, bootVars, putVars, accountVars, diskVars,
         CodesDistinct, Finalizing, SessionTypeOK, ProcessTypeOK, Procs
<1>7. RowsBacked'
  BY DEF IInv, TypeOK, CompleteReset, CompleteDone, Finish, ReturnToActive,
         HasNonce, SettledStatus, bootVars, putVars, accountVars, diskVars,
         RowsBacked, SessionTypeOK, MediaTypeOK, ProcessTypeOK, Procs
<1>8. WritesFounded'
  BY DistinctAssumption
     DEF IInv, TypeOK, CompleteReset, CompleteDone, Finish, ReturnToActive,
         HasNonce, SettledStatus, bootVars, putVars, accountVars, diskVars,
         WritesFounded, ProcessTypeOK, StepsInOrder, LeaseHeld, Holding,
         LeaseFree, Procs, DistinctAssumption
<1>9. MovesFounded'
  BY DistinctAssumption
     DEF IInv, TypeOK, CompleteReset, CompleteDone, Finish, ReturnToActive,
         HasNonce, SettledStatus, bootVars, putVars, accountVars, diskVars,
         MovesFounded, Finalizing, ProcessTypeOK, StepsInOrder, LeaseHeld,
         Holding, LeaseFree, Procs, DistinctAssumption
<1>10. RemovalsFounded'
  BY DEF IInv, TypeOK, CompleteReset, CompleteDone, Finish, ReturnToActive,
         HasNonce, SettledStatus, bootVars, putVars, accountVars, diskVars,
         RemovalsFounded, Finalizing, SessionTypeOK, ProcessTypeOK,
         StepsInOrder, FinalizingRecorded, Procs
<1>11. ImagesBacked'
  BY DEF IInv, TypeOK, CompleteReset, CompleteDone, Finish, ReturnToActive,
         HasNonce, SettledStatus, bootVars, putVars, accountVars, diskVars,
         ImagesBacked, SessionTypeOK, MediaTypeOK, ProcessTypeOK,
         StepsInOrder, Finalizing, HasRow, PendingCode, FreshCodes, Images,
         Procs
<1>12. FailedOnlyWithoutOwner'
  BY DEF IInv, TypeOK, CompleteReset, CompleteDone, Finish, ReturnToActive,
         HasNonce, SettledStatus, bootVars, putVars, accountVars, diskVars,
         FailedOnlyWithoutOwner, SessionTypeOK, ProcessTypeOK, StepsInOrder,
         Finalizing, RowsBacked, Procs
<1>13. (MediaTypeOK /\ AccountTypeOK /\ PublishedOnce)'
  BY DEF IInv, TypeOK, CompleteReset, CompleteDone, Finish, ReturnToActive,
         HasNonce, SettledStatus, bootVars, putVars, accountVars, diskVars,
         MediaTypeOK, AccountTypeOK, PublishedOnce
<1> QED
  BY <1>1, <1>2, <1>3, <1>4, <1>5, <1>6, <1>7, <1>8, <1>9, <1>10, <1>11,
     <1>12, <1>13
     DEF IInv, TypeOK

\* So does an attempt that phase two turns down.
LEMMA CompleteDeniedKeeps ==
    ASSUME IInv, NEW c \in Completers, CompleteDenied(c) PROVE IInv'
<1>1. ProcessTypeOK'
  BY DEF IInv, TypeOK, CompleteDenied, CompleteDone, Finish, ReturnToActive,
         HasNonce, SettledStatus, bootVars, putVars, accountVars, diskVars,
         ProcessTypeOK, StepsInOrder, Steps, Procs
<1>2. SessionTypeOK'
  <2>1. at[c] \in Uploads
    BY DEF CompleteDenied, IInv, StepsInOrder, Procs
  <2>2. SettledStatus(at[c]) \in Statuses
    BY DEF SettledStatus, Statuses
  <2>3. \/ UNCHANGED <<status, info, live>>
        \/ /\ status' = [status EXCEPT ![at[c]] = SettledStatus(at[c])]
           /\ info' = [info EXCEPT ![at[c]] = NoInfo]
           /\ live' = [live EXCEPT ![at[c]] = TRUE]
    BY DEF CompleteDenied, ReturnToActive
  <2>4. UNCHANGED <<owner, team, final, rows>>
    BY DEF CompleteDenied
  <2> QED
    BY <2>1, <2>2, <2>3, <2>4, NoInfoIsInfo DEF IInv, TypeOK, SessionTypeOK
<1>3. VerificationsFounded'
  <2>1. /\ at[c] \in Uploads
        /\ pc' = [pc EXCEPT ![c] = "idle"] /\ at' = [at EXCEPT ![c] = None]
        /\ digest' = [digest EXCEPT ![c] = None] /\ UNCHANGED <<rows, source>>
    BY DEF CompleteDenied, CompleteDone, Finish, diskVars, IInv, StepsInOrder, Procs
  <2>2. \A d \in Completers \ {c} : pc'[d] = pc[d] /\ at'[d] = at[d] /\ digest'[d] = digest[d]
    BY <2>1 DEF IInv, TypeOK, ProcessTypeOK, Procs
  <2>3. pc'[c] = "idle"
    BY <2>1 DEF IInv, TypeOK, ProcessTypeOK, Procs
  <2>4. SettledStatus(at[c]) # "verifying"
    BY DEF SettledStatus
  <2>5. \/ UNCHANGED <<status, info>>
        \/ /\ status' = [status EXCEPT ![at[c]] = SettledStatus(at[c])]
           /\ info' = [info EXCEPT ![at[c]] = NoInfo]
    BY DEF CompleteDenied, ReturnToActive
  <2>6. \A v \in Uploads, d \in Completers :
          status'[v] = "verifying" /\ info'[v].nonce = d => HasNonce(v, d)
    BY <2>1, <2>4, <2>5 DEF IInv, TypeOK, SessionTypeOK, HasNonce
  <2>7. \A d \in Completers : pc[d] = "verified" => at[d] \in Uploads
    BY DEF IInv, StepsInOrder, Procs
  <2> QED
    BY <2>1, <2>2, <2>3, <2>6, <2>7 DEF IInv, VerificationsFounded, HasNonce
<1>4. (StepsInOrder /\ LeaseHeld)'
  BY DEF IInv, TypeOK, CompleteDenied, CompleteDone, Finish, ReturnToActive,
         HasNonce, SettledStatus, bootVars, putVars, accountVars, diskVars,
         StepsInOrder, LeaseHeld, Holding, ProcessTypeOK, Procs
<1>5. FinalizingRecorded'
  BY DEF IInv, TypeOK, CompleteDenied, CompleteDone, Finish, ReturnToActive,
         HasNonce, SettledStatus, bootVars, putVars, accountVars, diskVars,
         FinalizingRecorded, Finalizing, SessionTypeOK, MediaTypeOK,
         ProcessTypeOK, Procs
<1>6. CodesDistinct'
  BY DEF IInv, TypeOK, CompleteDenied, CompleteDone, Finish, ReturnToActive,
         HasNonce, SettledStatus, bootVars, putVars, accountVars, diskVars,
         CodesDistinct, Finalizing, SessionTypeOK, ProcessTypeOK, Procs
<1>7. RowsBacked'
  BY DEF IInv, TypeOK, CompleteDenied, CompleteDone, Finish, ReturnToActive,
         HasNonce, SettledStatus, bootVars, putVars, accountVars, diskVars,
         RowsBacked, SessionTypeOK, MediaTypeOK, ProcessTypeOK, Procs
<1>8. WritesFounded'
  BY DistinctAssumption
     DEF IInv, TypeOK, CompleteDenied, CompleteDone, Finish, ReturnToActive,
         HasNonce, SettledStatus, bootVars, putVars, accountVars, diskVars,
         WritesFounded, ProcessTypeOK, StepsInOrder, LeaseHeld, Holding,
         LeaseFree, Procs, DistinctAssumption
<1>9. MovesFounded'
  BY DistinctAssumption
     DEF IInv, TypeOK, CompleteDenied, CompleteDone, Finish, ReturnToActive,
         HasNonce, SettledStatus, bootVars, putVars, accountVars, diskVars,
         MovesFounded, Finalizing, ProcessTypeOK, StepsInOrder, LeaseHeld,
         Holding, LeaseFree, Procs, DistinctAssumption
<1>10. RemovalsFounded'
  BY DEF IInv, TypeOK, CompleteDenied, CompleteDone, Finish, ReturnToActive,
         HasNonce, SettledStatus, bootVars, putVars, accountVars, diskVars,
         RemovalsFounded, Finalizing, SessionTypeOK, ProcessTypeOK,
         StepsInOrder, LeaseHeld, Holding, LeaseFree, FinalizingRecorded,
         CodesDistinct, ImagesBacked, Procs
<1>11. ImagesBacked'
  BY DEF IInv, TypeOK, CompleteDenied, CompleteDone, Finish, ReturnToActive,
         HasNonce, SettledStatus, bootVars, putVars, accountVars, diskVars,
         ImagesBacked, SessionTypeOK, MediaTypeOK, ProcessTypeOK,
         StepsInOrder, Finalizing, HasRow, PendingCode, FreshCodes, Images,
         Procs
<1>12. FailedOnlyWithoutOwner'
  BY DEF IInv, TypeOK, CompleteDenied, CompleteDone, Finish, ReturnToActive,
         HasNonce, SettledStatus, bootVars, putVars, accountVars, diskVars,
         FailedOnlyWithoutOwner, SessionTypeOK, ProcessTypeOK, StepsInOrder,
         Finalizing, RowsBacked, Procs
<1>13. (MediaTypeOK /\ AccountTypeOK /\ PublishedOnce)'
  BY DEF IInv, TypeOK, CompleteDenied, CompleteDone, Finish, ReturnToActive,
         HasNonce, SettledStatus, bootVars, putVars, accountVars, diskVars,
         MediaTypeOK, AccountTypeOK, PublishedOnce
<1> QED
  BY <1>1, <1>2, <1>3, <1>4, <1>5, <1>6, <1>7, <1>8, <1>9, <1>10, <1>11,
     <1>12, <1>13
     DEF IInv, TypeOK

\* The recorded code is nobody else's, the recorded digest the source's.
LEMMA CompletePreparedKeeps ==
    ASSUME IInv, NEW c \in Completers, CompletePrepared(c) PROVE IInv'
<1>1. ProcessTypeOK'
  BY DEF IInv, TypeOK, CompletePrepared, Go, bootVars, putVars, accountVars,
         diskVars, ProcessTypeOK, StepsInOrder, Steps, Procs
<1>2. SessionTypeOK'
  <2>1. at[c] \in Uploads
    BY DEF CompletePrepared, IInv, StepsInOrder, Procs
  <2>2. PICK code \in FreshCodes :
          info' = [info EXCEPT ![at[c]] = [nonce |-> None, code |-> code,
                                           sha |-> digest[c], admin |-> GlobalAdmin(c)]]
    BY DEF CompletePrepared
  <2>3. [nonce |-> None, code |-> code, sha |-> digest[c], admin |-> GlobalAdmin(c)] \in Infos
    BY <2>2 DEF FreshCodes, Infos, GlobalAdmin, IInv, TypeOK, ProcessTypeOK
  <2>4. /\ status' = [status EXCEPT ![at[c]] = "finalizing"]
        /\ live' = [live EXCEPT ![at[c]] = TRUE]
        /\ UNCHANGED <<owner, team, final, rows>>
    BY DEF CompletePrepared
  <2> QED
    BY <2>1, <2>2, <2>3, <2>4 DEF IInv, TypeOK, SessionTypeOK, Statuses
<1>3. ImagesBacked'
  <2>1. /\ at[c] \in Uploads /\ status[at[c]] = "verifying"
        /\ status' = [status EXCEPT ![at[c]] = "finalizing"]
        /\ UNCHANGED <<image, files>>
    BY DEF CompletePrepared, MayPublish, HasNonce, diskVars, IInv, StepsInOrder, Procs
  <2>2. \A d \in Codes : image[d] # None => image[d].upload \in Uploads
    BY DEF IInv, TypeOK, MediaTypeOK, Images
  <2> QED
    BY <2>1, <2>2 DEF IInv, TypeOK, SessionTypeOK, ImagesBacked
<1>4. (StepsInOrder /\ LeaseHeld)'
  BY DistinctAssumption
     DEF IInv, TypeOK, CompletePrepared, Go, bootVars, putVars, accountVars,
         diskVars, StepsInOrder, LeaseHeld, Holding, ProcessTypeOK, Procs,
         LeaseFree, DistinctAssumption
<1>5. FinalizingRecorded'
  BY DEF IInv, TypeOK, CompletePrepared, Go, bootVars, putVars, accountVars,
         diskVars, FinalizingRecorded, Finalizing, SessionTypeOK,
         ProcessTypeOK, StepsInOrder, VerificationsFounded, HasRow,
         FreshCodes, MayPublish, MayCommitPart, PendingCode, Procs
<1>6. CodesDistinct'
  BY DEF IInv, TypeOK, CompletePrepared, Go, bootVars, putVars, accountVars,
         diskVars, CodesDistinct, Finalizing, SessionTypeOK, ProcessTypeOK,
         StepsInOrder, FreshCodes, Procs
<1>7. RowsBacked'
  BY DEF IInv, TypeOK, CompletePrepared, Go, bootVars, putVars, accountVars,
         diskVars, RowsBacked, SessionTypeOK, MediaTypeOK, ProcessTypeOK,
         Procs
<1>8. WritesFounded'
  BY DistinctAssumption
     DEF IInv, TypeOK, CompletePrepared, Go, bootVars, putVars, accountVars,
         diskVars, WritesFounded, ProcessTypeOK, StepsInOrder, LeaseHeld,
         Holding, LeaseFree, Procs, DistinctAssumption
<1>9. VerificationsFounded'
  BY DEF IInv, TypeOK, CompletePrepared, Go, bootVars, putVars, accountVars,
         diskVars, VerificationsFounded, HasNonce, SessionTypeOK, MediaTypeOK,
         ProcessTypeOK, Procs
<1>10. MovesFounded'
  BY DEF IInv, TypeOK, CompletePrepared, Go, bootVars, putVars, accountVars,
         diskVars, MovesFounded, Finalizing, SessionTypeOK, ProcessTypeOK,
         StepsInOrder, HasRow, MayPublish, Procs
<1>11. RemovalsFounded'
  BY DistinctAssumption
     DEF IInv, TypeOK, CompletePrepared, Go, bootVars, putVars, accountVars,
         diskVars, RemovalsFounded, Finalizing, ProcessTypeOK, StepsInOrder,
         LeaseHeld, Holding, LeaseFree, Procs, DistinctAssumption
<1>12. FailedOnlyWithoutOwner'
  BY DEF IInv, TypeOK, CompletePrepared, Go, bootVars, putVars, accountVars,
         diskVars, FailedOnlyWithoutOwner, SessionTypeOK, MediaTypeOK,
         ProcessTypeOK, Procs
<1>13. (MediaTypeOK /\ AccountTypeOK /\ PublishedOnce)'
  BY DEF IInv, TypeOK, CompletePrepared, Go, bootVars, putVars, accountVars,
         diskVars, MediaTypeOK, AccountTypeOK, PublishedOnce
<1> QED
  BY <1>1, <1>2, <1>3, <1>4, <1>5, <1>6, <1>7, <1>8, <1>9, <1>10, <1>11,
     <1>12, <1>13
     DEF IInv, TypeOK

\* The moved file is the recorded one.
LEMMA CompleteMovedKeeps ==
    ASSUME IInv, NEW c \in Completers, CompleteMoved(c) PROVE IInv'
<1>1. ProcessTypeOK'
  BY DEF IInv, TypeOK, CompleteMoved, MoveToFiles, Go, bootVars, putVars,
         accountVars, rowVars, ProcessTypeOK, StepsInOrder, Steps, Procs
<1>2. MediaTypeOK'
  <2>1. at[c] \in Uploads /\ Finalizing(at[c]) /\ source[at[c]] # None /\ MoveToFiles(at[c])
    BY DEF CompleteMoved, IInv, StepsInOrder, MovesFounded, Procs
  <2> QED
    BY <2>1, MovePointwise DEF CompleteMoved, IInv, TypeOK, MediaTypeOK
<1>3. FinalizingRecorded'
  <2>1. at[c] \in Uploads /\ Finalizing(at[c]) /\ source[at[c]] # None /\ MoveToFiles(at[c])
    BY DEF CompleteMoved, IInv, StepsInOrder, MovesFounded, Procs
  <2>2. UNCHANGED <<status, info, image, rows>>
    BY DEF CompleteMoved, rowVars
  <2> QED
    BY <2>1, <2>2, MovePointwise DEF IInv, FinalizingRecorded, Finalizing
<1>4. ImagesBacked'
  <2>1. at[c] \in Uploads /\ Finalizing(at[c]) /\ source[at[c]] # None /\ MoveToFiles(at[c])
    BY DEF CompleteMoved, IInv, StepsInOrder, MovesFounded, Procs
  <2>2. UNCHANGED <<status, image>>
    BY DEF CompleteMoved, rowVars
  <2> QED
    BY <2>1, <2>2, MovePointwise DEF IInv, ImagesBacked
<1>5. (StepsInOrder /\ LeaseHeld)'
  BY DEF IInv, TypeOK, CompleteMoved, MoveToFiles, Go, bootVars, putVars,
         accountVars, rowVars, StepsInOrder, LeaseHeld, Holding,
         ProcessTypeOK, Procs
<1>6. RowsBacked'
  BY DEF IInv, TypeOK, CompleteMoved, MoveToFiles, Go, bootVars, putVars,
         accountVars, rowVars, RowsBacked, ProcessTypeOK, StepsInOrder,
         Finalizing, MovesFounded, Procs
<1>7. WritesFounded'
  BY DEF IInv, TypeOK, CompleteMoved, MoveToFiles, Go, bootVars, putVars,
         accountVars, rowVars, WritesFounded, ProcessTypeOK, StepsInOrder,
         LeaseHeld, Holding, LeaseFree, Procs
<1>8. VerificationsFounded'
  BY DEF IInv, TypeOK, CompleteMoved, MoveToFiles, Go, bootVars, putVars,
         accountVars, rowVars, VerificationsFounded, HasNonce, ProcessTypeOK,
         StepsInOrder, Finalizing, MovesFounded, Procs
<1>9. MovesFounded'
  BY DEF IInv, TypeOK, CompleteMoved, MoveToFiles, Go, bootVars, putVars,
         accountVars, rowVars, MovesFounded, Finalizing, MediaTypeOK,
         ProcessTypeOK, StepsInOrder, LeaseHeld, Holding, LeaseFree, Procs
<1>10. RemovalsFounded'
  BY DEF IInv, TypeOK, CompleteMoved, MoveToFiles, Go, bootVars, putVars,
         accountVars, rowVars, RemovalsFounded, Finalizing, SessionTypeOK,
         MediaTypeOK, ProcessTypeOK, Procs
<1>11. (SessionTypeOK /\ AccountTypeOK /\ CodesDistinct /\ PublishedOnce
        /\ FailedOnlyWithoutOwner)'
  BY DEF IInv, TypeOK, CompleteMoved, MoveToFiles, Go, bootVars, putVars,
         accountVars, rowVars, SessionTypeOK, AccountTypeOK, CodesDistinct,
         Finalizing, PublishedOnce, FailedOnlyWithoutOwner
<1> QED
  BY <1>1, <1>2, <1>3, <1>4, <1>5, <1>6, <1>7, <1>8, <1>9, <1>10, <1>11
     DEF IInv, TypeOK

\* After a failed move the bytes are still in the session directory.
LEMMA CompleteMoveFailsKeeps ==
    ASSUME IInv, NEW c \in Completers, CompleteMoveFails(c) PROVE IInv'
<1>1. ProcessTypeOK'
  BY DEF IInv, TypeOK, CompleteMoveFails, CompleteDone, Finish, bootVars,
         putVars, accountVars, diskVars, ProcessTypeOK, StepsInOrder, Steps,
         Procs
<1>2. SessionTypeOK'
  <2>1. at[c] \in Uploads
    BY DEF CompleteMoveFails, IInv, StepsInOrder, Procs
  <2>2. /\ status' \in {status, [status EXCEPT ![at[c]] = "active"]}
        /\ info' \in {info, [info EXCEPT ![at[c]] = NoInfo]}
        /\ UNCHANGED <<owner, team, live, final, rows>>
    BY DEF CompleteMoveFails
  <2> QED
    BY <2>1, <2>2, NoInfoIsInfo DEF IInv, TypeOK, SessionTypeOK, Statuses
<1>3. (StepsInOrder /\ LeaseHeld)'
  BY DistinctAssumption
     DEF IInv, TypeOK, CompleteMoveFails, CompleteDone, Finish, bootVars,
         putVars, accountVars, diskVars, StepsInOrder, LeaseHeld, Holding,
         ProcessTypeOK, Procs, DistinctAssumption
<1>4. FinalizingRecorded'
  BY DEF IInv, TypeOK, CompleteMoveFails, CompleteDone, Finish, bootVars,
         putVars, accountVars, diskVars, FinalizingRecorded, Finalizing,
         SessionTypeOK, MediaTypeOK, ProcessTypeOK, Procs
<1>5. CodesDistinct'
  BY DEF IInv, TypeOK, CompleteMoveFails, CompleteDone, Finish, bootVars,
         putVars, accountVars, diskVars, CodesDistinct, Finalizing,
         SessionTypeOK, ProcessTypeOK, Procs
<1>6. RowsBacked'
  BY DEF IInv, TypeOK, CompleteMoveFails, CompleteDone, Finish, bootVars,
         putVars, accountVars, diskVars, RowsBacked, SessionTypeOK,
         ProcessTypeOK, StepsInOrder, FinalizingRecorded, Finalizing,
         MovesFounded, Procs
<1>7. WritesFounded'
  BY DEF IInv, TypeOK, CompleteMoveFails, CompleteDone, Finish, bootVars,
         putVars, accountVars, diskVars, WritesFounded, SessionTypeOK,
         ProcessTypeOK, StepsInOrder, Procs
<1>8. VerificationsFounded'
  BY DistinctAssumption
     DEF IInv, TypeOK, CompleteMoveFails, CompleteDone, Finish, bootVars,
         putVars, accountVars, diskVars, VerificationsFounded, HasNonce,
         SessionTypeOK, ProcessTypeOK, StepsInOrder, LeaseHeld, Holding,
         LeaseFree, Finalizing, Procs, DistinctAssumption
<1>9. MovesFounded'
  BY DEF IInv, TypeOK, CompleteMoveFails, CompleteDone, Finish, bootVars,
         putVars, accountVars, diskVars, MovesFounded, Finalizing,
         ProcessTypeOK, StepsInOrder, LeaseHeld, Holding, LeaseFree, Procs
<1>10. RemovalsFounded'
  BY DEF IInv, TypeOK, CompleteMoveFails, CompleteDone, Finish, bootVars,
         putVars, accountVars, diskVars, RemovalsFounded, Finalizing,
         ProcessTypeOK, StepsInOrder, LeaseHeld, Holding, LeaseFree, Procs
<1>11. ImagesBacked'
  BY DEF IInv, TypeOK, CompleteMoveFails, CompleteDone, Finish, bootVars,
         putVars, accountVars, diskVars, ImagesBacked, SessionTypeOK,
         MediaTypeOK, ProcessTypeOK, StepsInOrder, Finalizing, MovesFounded,
         HasRow, PendingCode, FreshCodes, Images, Procs
<1>12. FailedOnlyWithoutOwner'
  BY DEF IInv, TypeOK, CompleteMoveFails, CompleteDone, Finish, bootVars,
         putVars, accountVars, diskVars, FailedOnlyWithoutOwner,
         SessionTypeOK, MediaTypeOK, ProcessTypeOK, Procs
<1>13. (MediaTypeOK /\ AccountTypeOK /\ PublishedOnce)'
  BY DEF IInv, TypeOK, CompleteMoveFails, CompleteDone, Finish, bootVars,
         putVars, accountVars, diskVars, MediaTypeOK, AccountTypeOK,
         PublishedOnce
<1> QED
  BY <1>1, <1>2, <1>3, <1>4, <1>5, <1>6, <1>7, <1>8, <1>9, <1>10, <1>11,
     <1>12, <1>13
     DEF IInv, TypeOK

\* The published row names the moved file.
LEMMA CompleteRecordedKeeps ==
    ASSUME IInv, NEW c \in Completers, CompleteRecorded(c) PROVE IInv'
<1>1. (SessionTypeOK /\ ProcessTypeOK)'
  BY DEF IInv, TypeOK, CompleteRecorded, Publish, Published, CompleteDone,
         Finish, bootVars, putVars, accountVars, SessionTypeOK, ProcessTypeOK,
         StepsInOrder, Finalizing, Statuses, Infos, NoInfo, NoRows, Procs,
         Steps
<1>2. MediaTypeOK'
  <2>1. at[c] \in Uploads /\ Finalizing(at[c]) /\ source[at[c]] = None /\ Publish(at[c])
    BY DEF CompleteRecorded, IInv, StepsInOrder, MovesFounded, Procs
  <2> QED
    BY <2>1, PublishPointwise DEF CompleteRecorded, diskVars, IInv, TypeOK, MediaTypeOK
<1>3. FinalizingRecorded'
  <2>1. at[c] \in Uploads /\ Finalizing(at[c]) /\ source[at[c]] = None /\ Publish(at[c])
    BY DEF CompleteRecorded, IInv, StepsInOrder, MovesFounded, Procs
  <2>2. UNCHANGED <<info, rows, source, files>>
    BY DEF CompleteRecorded, diskVars
  <2>3. \A v \in Uploads \ {at[c]} : Finalizing(v) => info[v].code # info[at[c]].code
    BY <2>1 DEF IInv, CodesDistinct
  <2> QED
    BY <2>1, <2>2, <2>3, PublishPointwise DEF IInv, FinalizingRecorded, Finalizing
<1>4. ImagesBacked'
  <2>1. at[c] \in Uploads /\ Finalizing(at[c]) /\ source[at[c]] = None /\ Publish(at[c])
    BY DEF CompleteRecorded, IInv, StepsInOrder, MovesFounded, Procs
  <2>2. UNCHANGED <<info, files>>
    BY DEF CompleteRecorded, diskVars
  <2>3. /\ files[info[at[c]].code] = info[at[c]].sha
        /\ info[at[c]].sha \in GoodFiles[at[c]]
    BY <2>1, GoodFilesAreContents, DistinctAssumption DEF IInv, FinalizingRecorded, DistinctAssumption
  <2> QED
    BY <2>1, <2>2, <2>3, PublishPointwise DEF IInv, ImagesBacked
<1>5. PublishedOnce'
  <2>1. at[c] \in Uploads /\ Finalizing(at[c]) /\ source[at[c]] = None /\ Publish(at[c])
    BY DEF CompleteRecorded, IInv, StepsInOrder, MovesFounded, Procs
  <2> QED
    BY <2>1, PublishPointwise DEF IInv, PublishedOnce
<1>6. (StepsInOrder /\ LeaseHeld)'
  BY DistinctAssumption
     DEF IInv, TypeOK, CompleteRecorded, Publish, Published, CompleteDone,
         Finish, bootVars, putVars, accountVars, StepsInOrder, LeaseHeld,
         Holding, ProcessTypeOK, Procs, DistinctAssumption
<1>7. CodesDistinct'
  BY DEF IInv, TypeOK, CompleteRecorded, Publish, Published, CompleteDone,
         Finish, bootVars, putVars, accountVars, CodesDistinct, Finalizing,
         SessionTypeOK, ProcessTypeOK, Procs
<1>8. RowsBacked'
  BY DEF IInv, TypeOK, CompleteRecorded, Publish, Published, CompleteDone,
         Finish, bootVars, putVars, accountVars, RowsBacked, SessionTypeOK,
         MediaTypeOK, ProcessTypeOK, Procs
<1>9. WritesFounded'
  BY DEF IInv, TypeOK, CompleteRecorded, Publish, Published, CompleteDone,
         Finish, bootVars, putVars, accountVars, WritesFounded, ProcessTypeOK,
         StepsInOrder, LeaseHeld, Holding, LeaseFree, Procs
<1>10. VerificationsFounded'
  BY DEF IInv, TypeOK, CompleteRecorded, Publish, Published, CompleteDone,
         Finish, bootVars, putVars, accountVars, VerificationsFounded,
         HasNonce, SessionTypeOK, MediaTypeOK, ProcessTypeOK, Procs
<1>11. MovesFounded'
  BY DEF IInv, TypeOK, CompleteRecorded, Publish, Published, CompleteDone,
         Finish, bootVars, putVars, accountVars, MovesFounded, Finalizing,
         ProcessTypeOK, StepsInOrder, LeaseHeld, Holding, LeaseFree, Procs
<1>12. RemovalsFounded'
  BY DEF IInv, TypeOK, CompleteRecorded, Publish, Published, CompleteDone,
         Finish, bootVars, putVars, accountVars, RemovalsFounded, Finalizing,
         ProcessTypeOK, StepsInOrder, LeaseHeld, Holding, LeaseFree, Procs
<1>13. FailedOnlyWithoutOwner'
  BY DEF IInv, TypeOK, CompleteRecorded, Publish, Published, CompleteDone,
         Finish, bootVars, putVars, accountVars, FailedOnlyWithoutOwner,
         SessionTypeOK, MediaTypeOK, ProcessTypeOK, Procs
<1>14. AccountTypeOK'
  BY DEF IInv, TypeOK, CompleteRecorded, Publish, Published, CompleteDone,
         Finish, bootVars, putVars, accountVars, AccountTypeOK
<1> QED
  BY <1>1, <1>2, <1>3, <1>4, <1>5, <1>6, <1>7, <1>8, <1>9, <1>10, <1>11,
     <1>12, <1>13, <1>14
     DEF IInv, TypeOK

\* A failed commit leaves a session that recovery can finish.
LEMMA CompleteRecordFailsKeeps ==
    ASSUME IInv, NEW c \in Completers, CompleteRecordFails(c) PROVE IInv'
<1>1. ProcessTypeOK'
  BY DEF IInv, TypeOK, CompleteRecordFails, CompleteDone, Finish, bootVars,
         putVars, accountVars, diskVars, rowVars, ProcessTypeOK, StepsInOrder,
         Steps, Procs
<1>2. (StepsInOrder /\ LeaseHeld)'
  BY DistinctAssumption
     DEF IInv, TypeOK, CompleteRecordFails, CompleteDone, Finish, bootVars,
         putVars, accountVars, diskVars, rowVars, StepsInOrder, LeaseHeld,
         Holding, ProcessTypeOK, Procs, DistinctAssumption
<1>3. WritesFounded'
  BY DEF IInv, TypeOK, CompleteRecordFails, CompleteDone, Finish, bootVars,
         putVars, accountVars, diskVars, rowVars, WritesFounded,
         SessionTypeOK, MediaTypeOK, ProcessTypeOK, Procs
<1>4. VerificationsFounded'
  BY DEF IInv, TypeOK, CompleteRecordFails, CompleteDone, Finish, bootVars,
         putVars, accountVars, diskVars, rowVars, VerificationsFounded,
         HasNonce, SessionTypeOK, MediaTypeOK, ProcessTypeOK, Procs
<1>5. MovesFounded'
  BY DEF IInv, TypeOK, CompleteRecordFails, CompleteDone, Finish, bootVars,
         putVars, accountVars, diskVars, rowVars, MovesFounded, Finalizing,
         SessionTypeOK, MediaTypeOK, ProcessTypeOK, Procs
<1>6. RemovalsFounded'
  BY DEF IInv, TypeOK, CompleteRecordFails, CompleteDone, Finish, bootVars,
         putVars, accountVars, diskVars, rowVars, RemovalsFounded, Finalizing,
         SessionTypeOK, MediaTypeOK, ProcessTypeOK, Procs
<1>7. (SessionTypeOK /\ MediaTypeOK /\ AccountTypeOK /\ FinalizingRecorded
       /\ CodesDistinct /\ RowsBacked /\ ImagesBacked /\ PublishedOnce
       /\ FailedOnlyWithoutOwner)'
  BY DEF IInv, TypeOK, CompleteRecordFails, CompleteDone, Finish, bootVars,
         putVars, accountVars, diskVars, rowVars, SessionTypeOK, MediaTypeOK,
         AccountTypeOK, FinalizingRecorded, Finalizing, CodesDistinct,
         RowsBacked, ImagesBacked, PublishedOnce, FailedOnlyWithoutOwner
<1> QED
  BY <1>1, <1>2, <1>3, <1>4, <1>5, <1>6, <1>7 DEF IInv, TypeOK

\* Recovery finds the bytes at one of the two ends of the move.
LEMMA RecoverBeginKeeps ==
    ASSUME IInv, NEW w \in Workers, NEW u \in Uploads, RecoverBegin(w, u)
    PROVE  IInv'
<1>1. SessionTypeOK'
  BY RecoverBeginPointwise DEF rowVars, IInv, TypeOK, SessionTypeOK
<1>2. MediaTypeOK'
  BY RecoverBeginPointwise DEF IInv, TypeOK, MediaTypeOK
<1>3. ProcessTypeOK'
  BY RecoverBeginPointwise DEF bootVars, putVars, IInv, TypeOK, ProcessTypeOK, Steps
<1>4. StepsInOrder'
  <2>1. \A p \in Procs \ {w} : pc'[p] = pc[p] /\ at'[p] = at[p]
    BY RecoverBeginPointwise DEF IInv, TypeOK, ProcessTypeOK
  <2>2. w \in Procs /\ pc'[w] = "deciding" /\ at'[w] = u /\ UNCHANGED blob
    BY RecoverBeginPointwise DEF IInv, TypeOK, ProcessTypeOK, putVars
  <2> QED
    BY <2>1, <2>2, DistinctAssumption DEF IInv, StepsInOrder, Procs, DistinctAssumption
<1>5. LeaseHeld'
  BY RecoverBeginPointwise, NobodyHolds DEF IInv, LeaseHeld, TypeOK, ProcessTypeOK, Holding
<1>6. FinalizingRecorded'
  BY RecoverBeginPointwise DEF rowVars, IInv, FinalizingRecorded, Finalizing
<1>7. CodesDistinct'
  BY RecoverBeginPointwise DEF rowVars, IInv, CodesDistinct, Finalizing
<1>8. RowsBacked'
  BY RecoverBeginPointwise DEF rowVars, IInv, RowsBacked, Finalizing
<1>9. WritesFounded'
  <2>1. \A p \in Putters : pc'[p] # "writing"
    BY RecoverBeginPointwise, NobodyHolds DEF Holding, Procs, IInv, TypeOK, ProcessTypeOK
  <2> QED
    BY <2>1 DEF WritesFounded
<1>10. VerificationsFounded'
  <2>1. \A c \in Completers : pc'[c] = pc[c] /\ at'[c] = at[c]
    BY RecoverBeginPointwise, DistinctAssumption
       DEF IInv, TypeOK, ProcessTypeOK, Procs, DistinctAssumption
  <2>2. UNCHANGED <<status, info, rows, digest>>
    BY RecoverBeginPointwise DEF rowVars
  <2>3. \A c \in Completers : pc[c] = "verified" => at[c] \in Uploads
    BY DEF IInv, StepsInOrder, Procs
  <2>4. \A v \in Uploads : status[v] = "verifying" => source'[v] = source[v]
    BY RecoverBeginPointwise DEF Finalizing
  <2> QED
    BY <2>1, <2>2, <2>3, <2>4 DEF IInv, VerificationsFounded, HasNonce
<1>11. MovesFounded'
  <2>1. \A p \in Procs \ {w} : pc'[p] = pc[p] /\ pc[p] \notin Holding
    BY RecoverBeginPointwise, NobodyHolds DEF IInv, TypeOK, ProcessTypeOK
  <2>2. pc'[w] = "deciding" /\ at'[w] = u /\ UNCHANGED status
    BY RecoverBeginPointwise DEF rowVars, IInv, TypeOK, ProcessTypeOK
  <2> QED
    BY <2>1, <2>2, RecoverBeginPointwise DEF MovesFounded, Finalizing, Holding
<1>12. RemovalsFounded'
  <2>1. \A v \in Workers : pc'[v] \notin {"removing", "unlinking"}
    BY RecoverBeginPointwise, NobodyHolds DEF Holding, Procs, IInv, TypeOK, ProcessTypeOK
  <2> QED
    BY <2>1 DEF RemovalsFounded
<1>13. ImagesBacked'
  BY RecoverBeginPointwise DEF rowVars, IInv, ImagesBacked
<1>14. FailedOnlyWithoutOwner'
  BY RecoverBeginPointwise DEF rowVars, accountVars, IInv, FailedOnlyWithoutOwner
<1>15. (AccountTypeOK /\ PublishedOnce)'
  BY DEF IInv, TypeOK, RecoverBegin, MoveToFiles, Go, putVars, accountVars,
         AccountTypeOK, PublishedOnce
<1> QED
  BY <1>1, <1>2, <1>3, <1>4, <1>5, <1>6, <1>7, <1>8, <1>9, <1>10, <1>11,
     <1>12, <1>13, <1>14, <1>15
     DEF IInv, TypeOK

\* A failed recovery changes no row and no file.
LEMMA RecoverFaultKeeps ==
    ASSUME IInv, NEW w \in Workers, NEW u \in Uploads, RecoverFault(w, u)
    PROVE  IInv'
<1>1. ProcessTypeOK'
  BY DEF IInv, TypeOK, RecoverFault, putVars, accountVars, diskVars, rowVars,
         ProcessTypeOK, MediaTypeOK, SessionTypeOK, Procs
<1>2. (SessionTypeOK /\ MediaTypeOK /\ AccountTypeOK /\ StepsInOrder
       /\ LeaseHeld /\ FinalizingRecorded /\ CodesDistinct /\ RowsBacked
       /\ WritesFounded /\ VerificationsFounded /\ MovesFounded
       /\ RemovalsFounded /\ ImagesBacked /\ PublishedOnce
       /\ FailedOnlyWithoutOwner)'
  BY DEF IInv, TypeOK, RecoverFault, putVars, accountVars, diskVars, rowVars,
         SessionTypeOK, MediaTypeOK, AccountTypeOK, StepsInOrder, LeaseHeld,
         Holding, FinalizingRecorded, Finalizing, CodesDistinct, RowsBacked,
         WritesFounded, VerificationsFounded, HasNonce, MovesFounded,
         RemovalsFounded, ImagesBacked, PublishedOnce, FailedOnlyWithoutOwner
<1> QED
  BY <1>1, <1>2 DEF IInv, TypeOK

\* An interrupted verification returns to active with its bytes.
LEMMA RecoverVerifyingKeeps ==
    ASSUME IInv, NEW w \in Workers, NEW u \in Uploads, RecoverVerifying(w, u)
    PROVE  IInv'
<1>1. (SessionTypeOK /\ ProcessTypeOK)'
  BY DEF IInv, TypeOK, RecoverVerifying, SettledStatus, putVars, accountVars,
         diskVars, SessionTypeOK, ProcessTypeOK, StepsInOrder, Finalizing,
         Statuses, Infos, NoInfo, NoRows, Procs, Steps
<1>2. FinalizingRecorded'
  BY DEF IInv, TypeOK, RecoverVerifying, SettledStatus, putVars, accountVars,
         diskVars, FinalizingRecorded, Finalizing, SessionTypeOK, MediaTypeOK,
         ProcessTypeOK, Procs
<1>3. CodesDistinct'
  BY DEF IInv, TypeOK, RecoverVerifying, SettledStatus, putVars, accountVars,
         diskVars, CodesDistinct, Finalizing, SessionTypeOK, ProcessTypeOK,
         Procs
<1>4. RowsBacked'
  BY DEF IInv, TypeOK, RecoverVerifying, SettledStatus, putVars, accountVars,
         diskVars, RowsBacked, SessionTypeOK, MediaTypeOK, ProcessTypeOK,
         Procs
<1>5. WritesFounded'
  BY DEF IInv, TypeOK, RecoverVerifying, SettledStatus, putVars, accountVars,
         diskVars, WritesFounded, SessionTypeOK, MediaTypeOK, ProcessTypeOK,
         Procs
<1>6. VerificationsFounded'
  BY DEF IInv, TypeOK, RecoverVerifying, SettledStatus, putVars, accountVars,
         diskVars, VerificationsFounded, HasNonce, SessionTypeOK, MediaTypeOK,
         ProcessTypeOK, Procs
<1>7. MovesFounded'
  BY DEF IInv, TypeOK, RecoverVerifying, SettledStatus, putVars, accountVars,
         diskVars, MovesFounded, Finalizing, SessionTypeOK, MediaTypeOK,
         ProcessTypeOK, Procs
<1>8. RemovalsFounded'
  BY DEF IInv, TypeOK, RecoverVerifying, SettledStatus, putVars, accountVars,
         diskVars, RemovalsFounded, Finalizing, SessionTypeOK, MediaTypeOK,
         ProcessTypeOK, Procs
<1>9. ImagesBacked'
  BY DEF IInv, TypeOK, RecoverVerifying, SettledStatus, putVars, accountVars,
         diskVars, ImagesBacked, SessionTypeOK, MediaTypeOK, ProcessTypeOK,
         Procs
<1>10. FailedOnlyWithoutOwner'
  BY DEF IInv, TypeOK, RecoverVerifying, SettledStatus, putVars, accountVars,
         diskVars, FailedOnlyWithoutOwner, ProcessTypeOK, StepsInOrder,
         Finalizing, RowsBacked, Procs
<1>11. (MediaTypeOK /\ AccountTypeOK /\ StepsInOrder /\ LeaseHeld
        /\ PublishedOnce)'
  BY DEF IInv, TypeOK, RecoverVerifying, SettledStatus, putVars, accountVars,
         diskVars, MediaTypeOK, AccountTypeOK, StepsInOrder, LeaseHeld,
         Holding, PublishedOnce
<1> QED
  BY <1>1, <1>2, <1>3, <1>4, <1>5, <1>6, <1>7, <1>8, <1>9, <1>10, <1>11
     DEF IInv, TypeOK

\* Recovery publishes the recorded digest under the recorded code.
LEMMA RecoverPublishKeeps ==
    ASSUME IInv, NEW w \in Workers, RecoverPublish(w) PROVE IInv'
<1>1. (SessionTypeOK /\ ProcessTypeOK)'
  BY DEF IInv, TypeOK, RecoverPublish, Publish, Published, Finish, putVars,
         accountVars, diskVars, SessionTypeOK, ProcessTypeOK, StepsInOrder,
         Finalizing, Statuses, Infos, NoInfo, NoRows, Procs, Steps
<1>2. MediaTypeOK'
  <2>1. at[w] \in Uploads /\ Finalizing(at[w]) /\ source[at[w]] = None /\ Publish(at[w])
    BY DEF RecoverPublish, IInv, StepsInOrder, MovesFounded, Procs
  <2> QED
    BY <2>1, PublishPointwise DEF RecoverPublish, diskVars, IInv, TypeOK, MediaTypeOK
<1>3. FinalizingRecorded'
  <2>1. at[w] \in Uploads /\ Finalizing(at[w]) /\ source[at[w]] = None /\ Publish(at[w])
    BY DEF RecoverPublish, IInv, StepsInOrder, MovesFounded, Procs
  <2>2. UNCHANGED <<info, rows, source, files>>
    BY DEF RecoverPublish, diskVars
  <2>3. \A v \in Uploads \ {at[w]} : Finalizing(v) => info[v].code # info[at[w]].code
    BY <2>1 DEF IInv, CodesDistinct
  <2> QED
    BY <2>1, <2>2, <2>3, PublishPointwise DEF IInv, FinalizingRecorded, Finalizing
<1>4. ImagesBacked'
  <2>1. at[w] \in Uploads /\ Finalizing(at[w]) /\ source[at[w]] = None /\ Publish(at[w])
    BY DEF RecoverPublish, IInv, StepsInOrder, MovesFounded, Procs
  <2>2. UNCHANGED <<info, files>>
    BY DEF RecoverPublish, diskVars
  <2>3. /\ files[info[at[w]].code] = info[at[w]].sha
        /\ info[at[w]].sha \in GoodFiles[at[w]]
    BY <2>1, GoodFilesAreContents, DistinctAssumption DEF IInv, FinalizingRecorded, DistinctAssumption
  <2> QED
    BY <2>1, <2>2, <2>3, PublishPointwise DEF IInv, ImagesBacked
<1>5. PublishedOnce'
  <2>1. at[w] \in Uploads /\ Finalizing(at[w]) /\ source[at[w]] = None /\ Publish(at[w])
    BY DEF RecoverPublish, IInv, StepsInOrder, MovesFounded, Procs
  <2> QED
    BY <2>1, PublishPointwise DEF IInv, PublishedOnce
<1>6. (StepsInOrder /\ LeaseHeld)'
  BY DistinctAssumption
     DEF IInv, TypeOK, RecoverPublish, Publish, Published, Finish, putVars,
         accountVars, diskVars, StepsInOrder, LeaseHeld, Holding,
         ProcessTypeOK, Procs, DistinctAssumption
<1>7. CodesDistinct'
  BY DEF IInv, TypeOK, RecoverPublish, Publish, Published, Finish, putVars,
         accountVars, diskVars, CodesDistinct, Finalizing, SessionTypeOK,
         ProcessTypeOK, Procs
<1>8. RowsBacked'
  BY DEF IInv, TypeOK, RecoverPublish, Publish, Published, Finish, putVars,
         accountVars, diskVars, RowsBacked, SessionTypeOK, MediaTypeOK,
         ProcessTypeOK, Procs
<1>9. WritesFounded'
  BY DEF IInv, TypeOK, RecoverPublish, Publish, Published, Finish, putVars,
         accountVars, diskVars, WritesFounded, ProcessTypeOK, StepsInOrder,
         LeaseHeld, Holding, LeaseFree, Procs
<1>10. VerificationsFounded'
  BY DEF IInv, TypeOK, RecoverPublish, Publish, Published, Finish, putVars,
         accountVars, diskVars, VerificationsFounded, HasNonce, SessionTypeOK,
         MediaTypeOK, ProcessTypeOK, Procs
<1>11. MovesFounded'
  BY DEF IInv, TypeOK, RecoverPublish, Publish, Published, Finish, putVars,
         accountVars, diskVars, MovesFounded, Finalizing, ProcessTypeOK,
         StepsInOrder, LeaseHeld, Holding, LeaseFree, Procs
<1>12. RemovalsFounded'
  BY DEF IInv, TypeOK, RecoverPublish, Publish, Published, Finish, putVars,
         accountVars, diskVars, RemovalsFounded, Finalizing, ProcessTypeOK,
         StepsInOrder, LeaseHeld, Holding, LeaseFree, Procs
<1>13. FailedOnlyWithoutOwner'
  BY DEF IInv, TypeOK, RecoverPublish, Publish, Published, Finish, putVars,
         accountVars, diskVars, FailedOnlyWithoutOwner, SessionTypeOK,
         MediaTypeOK, ProcessTypeOK, Procs
<1>14. AccountTypeOK'
  BY DEF IInv, TypeOK, RecoverPublish, Publish, Published, Finish, putVars,
         accountVars, diskVars, AccountTypeOK
<1> QED
  BY <1>1, <1>2, <1>3, <1>4, <1>5, <1>6, <1>7, <1>8, <1>9, <1>10, <1>11,
     <1>12, <1>13, <1>14
     DEF IInv, TypeOK

\* Undoing moves the bytes back before any row changes.
LEMMA RecoverUndoKeeps ==
    ASSUME IInv, NEW w \in Workers, RecoverUndo(w) PROVE IInv'
<1>1. ProcessTypeOK'
  BY DEF IInv, TypeOK, RecoverUndo, Go, bootVars, putVars, accountVars,
         rowVars, ProcessTypeOK, StepsInOrder, Steps, Procs
<1>2. MediaTypeOK'
  <2>1. dir' = dir \cup {at[w]} /\ UNCHANGED image
    BY DEF RecoverUndo
  <2> QED
    BY <2>1, UndoPointwise DEF IInv, TypeOK, MediaTypeOK
<1>3. FinalizingRecorded'
  <2>1. UNCHANGED <<status, info, image, rows>>
    BY DEF RecoverUndo, rowVars
  <2> QED
    BY <2>1, UndoPointwise DEF IInv, FinalizingRecorded, Finalizing
<1>4. MovesFounded'
  <2>1. UNCHANGED <<status, at>>
    BY DEF RecoverUndo, rowVars
  <2> QED
    BY <2>1, UndoPointwise DEF IInv, MovesFounded, Finalizing, Holding
<1>5. ImagesBacked'
  <2>1. UNCHANGED <<status, image>>
    BY DEF RecoverUndo, rowVars
  <2> QED
    BY <2>1, UndoPointwise DEF IInv, ImagesBacked
<1>6. (StepsInOrder /\ LeaseHeld)'
  BY DEF IInv, TypeOK, RecoverUndo, Go, bootVars, putVars, accountVars,
         rowVars, StepsInOrder, LeaseHeld, Holding, ProcessTypeOK, Procs
<1>7. RowsBacked'
  BY DEF IInv, TypeOK, RecoverUndo, Go, bootVars, putVars, accountVars,
         rowVars, RowsBacked, SessionTypeOK, MediaTypeOK, ProcessTypeOK, Procs
<1>8. WritesFounded'
  BY DEF IInv, TypeOK, RecoverUndo, Go, bootVars, putVars, accountVars,
         rowVars, WritesFounded, SessionTypeOK, MediaTypeOK, ProcessTypeOK,
         Procs
<1>9. VerificationsFounded'
  BY DEF IInv, TypeOK, RecoverUndo, Go, bootVars, putVars, accountVars,
         rowVars, VerificationsFounded, HasNonce, ProcessTypeOK, StepsInOrder,
         RowsBacked, Finalizing, Procs
<1>10. RemovalsFounded'
  BY DEF IInv, TypeOK, RecoverUndo, Go, bootVars, putVars, accountVars,
         rowVars, RemovalsFounded, Finalizing, SessionTypeOK, MediaTypeOK,
         ProcessTypeOK, Procs
<1>11. (SessionTypeOK /\ AccountTypeOK /\ CodesDistinct /\ PublishedOnce
        /\ FailedOnlyWithoutOwner)'
  BY DEF IInv, TypeOK, RecoverUndo, Go, bootVars, putVars, accountVars,
         rowVars, SessionTypeOK, AccountTypeOK, CodesDistinct, Finalizing,
         PublishedOnce, FailedOnlyWithoutOwner
<1> QED
  BY <1>1, <1>2, <1>3, <1>4, <1>5, <1>6, <1>7, <1>8, <1>9, <1>10, <1>11
     DEF IInv, TypeOK

\* Only then does the session leave finalizing.
LEMMA RecoverUndoneKeeps ==
    ASSUME IInv, NEW w \in Workers, RecoverUndone(w) PROVE IInv'
<1>1. (SessionTypeOK /\ ProcessTypeOK)'
  BY DEF IInv, TypeOK, RecoverUndone, Finish, putVars, accountVars, diskVars,
         SessionTypeOK, ProcessTypeOK, StepsInOrder, Finalizing, Statuses,
         Infos, NoInfo, NoRows, Procs, Steps
<1>2. (StepsInOrder /\ LeaseHeld)'
  BY DistinctAssumption
     DEF IInv, TypeOK, RecoverUndone, Finish, putVars, accountVars, diskVars,
         StepsInOrder, LeaseHeld, Holding, ProcessTypeOK, Procs,
         DistinctAssumption
<1>3. FinalizingRecorded'
  BY DEF IInv, TypeOK, RecoverUndone, Finish, putVars, accountVars, diskVars,
         FinalizingRecorded, Finalizing, SessionTypeOK, MediaTypeOK,
         ProcessTypeOK, Procs
<1>4. CodesDistinct'
  BY DEF IInv, TypeOK, RecoverUndone, Finish, putVars, accountVars, diskVars,
         CodesDistinct, Finalizing, SessionTypeOK, ProcessTypeOK, Procs
<1>5. RowsBacked'
  BY DEF IInv, TypeOK, RecoverUndone, Finish, putVars, accountVars, diskVars,
         RowsBacked, ProcessTypeOK, StepsInOrder, FinalizingRecorded,
         Finalizing, MovesFounded, Procs
<1>6. WritesFounded'
  BY DEF IInv, TypeOK, RecoverUndone, Finish, putVars, accountVars, diskVars,
         WritesFounded, ProcessTypeOK, StepsInOrder, LeaseHeld, Holding,
         LeaseFree, Procs
<1>7. VerificationsFounded'
  BY DEF IInv, TypeOK, RecoverUndone, Finish, putVars, accountVars, diskVars,
         VerificationsFounded, HasNonce, SessionTypeOK, MediaTypeOK,
         ProcessTypeOK, Procs
<1>8. MovesFounded'
  BY DEF IInv, TypeOK, RecoverUndone, Finish, putVars, accountVars, diskVars,
         MovesFounded, Finalizing, ProcessTypeOK, StepsInOrder, LeaseHeld,
         Holding, LeaseFree, Procs
<1>9. RemovalsFounded'
  BY DEF IInv, TypeOK, RecoverUndone, Finish, putVars, accountVars, diskVars,
         RemovalsFounded, Finalizing, ProcessTypeOK, StepsInOrder, LeaseHeld,
         Holding, LeaseFree, Procs
<1>10. ImagesBacked'
  BY DEF IInv, TypeOK, RecoverUndone, Finish, putVars, accountVars, diskVars,
         ImagesBacked, ProcessTypeOK, StepsInOrder, Finalizing, MovesFounded,
         Procs
<1>11. FailedOnlyWithoutOwner'
  BY DEF IInv, TypeOK, RecoverUndone, Finish, putVars, accountVars, diskVars,
         FailedOnlyWithoutOwner, SessionTypeOK, MediaTypeOK, ProcessTypeOK,
         Procs
<1>12. (MediaTypeOK /\ AccountTypeOK /\ PublishedOnce)'
  BY DEF IInv, TypeOK, RecoverUndone, Finish, putVars, accountVars, diskVars,
         MediaTypeOK, AccountTypeOK, PublishedOnce
<1> QED
  BY <1>1, <1>2, <1>3, <1>4, <1>5, <1>6, <1>7, <1>8, <1>9, <1>10, <1>11, <1>12
     DEF IInv, TypeOK

\* A recovery that fails half-way can be started again.
LEMMA RecoverFailsKeeps ==
    ASSUME IInv, NEW w \in Workers, RecoverFails(w) PROVE IInv'
<1>1. ProcessTypeOK'
  BY DEF IInv, TypeOK, RecoverFails, Finish, putVars, accountVars, diskVars,
         rowVars, ProcessTypeOK, StepsInOrder, Steps, Procs
<1>2. (StepsInOrder /\ LeaseHeld)'
  BY DistinctAssumption
     DEF IInv, TypeOK, RecoverFails, Finish, putVars, accountVars, diskVars,
         rowVars, StepsInOrder, LeaseHeld, Holding, ProcessTypeOK, Procs,
         DistinctAssumption
<1>3. WritesFounded'
  BY DEF IInv, TypeOK, RecoverFails, Finish, putVars, accountVars, diskVars,
         rowVars, WritesFounded, SessionTypeOK, MediaTypeOK, ProcessTypeOK,
         Procs
<1>4. VerificationsFounded'
  BY DEF IInv, TypeOK, RecoverFails, Finish, putVars, accountVars, diskVars,
         rowVars, VerificationsFounded, HasNonce, SessionTypeOK, MediaTypeOK,
         ProcessTypeOK, Procs
<1>5. MovesFounded'
  BY DEF IInv, TypeOK, RecoverFails, Finish, putVars, accountVars, diskVars,
         rowVars, MovesFounded, Finalizing, SessionTypeOK, MediaTypeOK,
         ProcessTypeOK, Procs
<1>6. RemovalsFounded'
  BY DEF IInv, TypeOK, RecoverFails, Finish, putVars, accountVars, diskVars,
         rowVars, RemovalsFounded, Finalizing, SessionTypeOK, MediaTypeOK,
         ProcessTypeOK, Procs
<1>7. (SessionTypeOK /\ MediaTypeOK /\ AccountTypeOK /\ FinalizingRecorded
       /\ CodesDistinct /\ RowsBacked /\ ImagesBacked /\ PublishedOnce
       /\ FailedOnlyWithoutOwner)'
  BY DEF IInv, TypeOK, RecoverFails, Finish, putVars, accountVars, diskVars,
         rowVars, SessionTypeOK, MediaTypeOK, AccountTypeOK,
         FinalizingRecorded, Finalizing, CodesDistinct, RowsBacked,
         ImagesBacked, PublishedOnce, FailedOnlyWithoutOwner
<1> QED
  BY <1>1, <1>2, <1>3, <1>4, <1>5, <1>6, <1>7 DEF IInv, TypeOK

\* Cancelling drops the rows before the files, and nothing names those any
\* more.
LEMMA CancelCommittedKeeps ==
    ASSUME IInv, NEW w \in Workers, NEW u \in Uploads, CancelCommitted(w, u)
    PROVE  IInv'
<1>1. MediaTypeOK'
  BY DEF IInv, TypeOK, CancelCommitted, DropRows, Go, bootVars, putVars,
         accountVars, diskVars, MediaTypeOK, ProcessTypeOK, StepsInOrder,
         Finalizing, Parts, Procs
<1>2. SessionTypeOK'
  BY NoInfoIsInfo
     DEF CancelCommitted, DropRows, IInv, TypeOK, SessionTypeOK, Statuses, NoRows
<1>3. ProcessTypeOK'
  <2>1. PendingCode(u) \in Codes \cup {None}
    BY DEF PendingCode, IInv, FinalizingRecorded, Finalizing
  <2> QED
    BY <2>1 DEF CancelCommitted, Go, bootVars, putVars, IInv, TypeOK, ProcessTypeOK,
       Steps, Procs
<1>4. (StepsInOrder /\ LeaseHeld)'
  BY DistinctAssumption
     DEF IInv, TypeOK, CancelCommitted, DropRows, Go, bootVars, putVars,
         accountVars, diskVars, StepsInOrder, LeaseHeld, Holding,
         ProcessTypeOK, Procs, LeaseFree, DistinctAssumption
<1>5. FinalizingRecorded'
  BY DEF IInv, TypeOK, CancelCommitted, DropRows, Go, bootVars, putVars,
         accountVars, diskVars, FinalizingRecorded, Finalizing, SessionTypeOK,
         MediaTypeOK, ProcessTypeOK, Procs
<1>6. CodesDistinct'
  BY DEF IInv, TypeOK, CancelCommitted, DropRows, Go, bootVars, putVars,
         accountVars, diskVars, CodesDistinct, Finalizing, SessionTypeOK,
         ProcessTypeOK, Procs
<1>7. RowsBacked'
  BY DEF IInv, TypeOK, CancelCommitted, DropRows, Go, bootVars, putVars,
         accountVars, diskVars, RowsBacked, SessionTypeOK, MediaTypeOK,
         ProcessTypeOK, Procs
<1>8. WritesFounded'
  BY DistinctAssumption
     DEF IInv, TypeOK, CancelCommitted, DropRows, Go, bootVars, putVars,
         accountVars, diskVars, WritesFounded, ProcessTypeOK, StepsInOrder,
         LeaseHeld, Holding, LeaseFree, Procs, DistinctAssumption
<1>9. VerificationsFounded'
  BY DEF IInv, TypeOK, CancelCommitted, DropRows, Go, bootVars, putVars,
         accountVars, diskVars, VerificationsFounded, HasNonce, MediaTypeOK,
         ProcessTypeOK, StepsInOrder, Finalizing, NoInfo, NoRows, Procs
<1>10. MovesFounded'
  BY DistinctAssumption
     DEF IInv, TypeOK, CancelCommitted, DropRows, Go, bootVars, putVars,
         accountVars, diskVars, MovesFounded, Finalizing, ProcessTypeOK,
         StepsInOrder, LeaseHeld, Holding, LeaseFree, Procs,
         DistinctAssumption
<1>11. RemovalsFounded'
  BY DEF IInv, TypeOK, CancelCommitted, DropRows, Go, bootVars, putVars,
         accountVars, diskVars, RemovalsFounded, Finalizing, ProcessTypeOK,
         StepsInOrder, FinalizingRecorded, CodesDistinct, HasRow, PendingCode,
         Procs
<1>12. ImagesBacked'
  BY DEF IInv, TypeOK, CancelCommitted, DropRows, Go, bootVars, putVars,
         accountVars, diskVars, ImagesBacked, MediaTypeOK, ProcessTypeOK,
         StepsInOrder, Finalizing, HasRow, PendingCode, FreshCodes, Images,
         Procs
<1>13. FailedOnlyWithoutOwner'
  BY DEF IInv, TypeOK, CancelCommitted, DropRows, Go, bootVars, putVars,
         accountVars, diskVars, FailedOnlyWithoutOwner, SessionTypeOK,
         MediaTypeOK, ProcessTypeOK, Procs
<1>14. (AccountTypeOK /\ PublishedOnce)'
  BY DEF IInv, TypeOK, CancelCommitted, DropRows, Go, bootVars, putVars,
         accountVars, diskVars, AccountTypeOK, PublishedOnce
<1> QED
  BY <1>1, <1>2, <1>3, <1>4, <1>5, <1>6, <1>7, <1>8, <1>9, <1>10, <1>11,
     <1>12, <1>13, <1>14
     DEF IInv, TypeOK

\* Only the directory of a session without rows is removed.
LEMMA DirectoryRemovedKeeps ==
    ASSUME IInv, NEW w \in Workers, DirectoryRemoved(w) PROVE IInv'
<1>1. MediaTypeOK'
  BY DEF IInv, TypeOK, DirectoryRemoved, RemoveDirectory, Go, bootVars,
         accountVars, rowVars, MediaTypeOK, SessionTypeOK, AccountTypeOK,
         ProcessTypeOK, Procs
<1>2. ProcessTypeOK'
  <2>1. tmp' \in [Putters -> BOOLEAN]
    BY DEF DirectoryRemoved, RemoveDirectory, IInv, TypeOK, ProcessTypeOK
  <2> QED
    BY <2>1 DEF DirectoryRemoved, Go, bootVars, IInv, TypeOK, ProcessTypeOK, Steps, Procs
<1>3. (StepsInOrder /\ LeaseHeld)'
  BY DEF IInv, TypeOK, DirectoryRemoved, RemoveDirectory, Go, bootVars,
         accountVars, rowVars, StepsInOrder, LeaseHeld, Holding,
         ProcessTypeOK, Procs
<1>4. FinalizingRecorded'
  BY DEF IInv, TypeOK, DirectoryRemoved, RemoveDirectory, Go, bootVars,
         accountVars, rowVars, FinalizingRecorded, Finalizing, MediaTypeOK,
         ProcessTypeOK, StepsInOrder, RemovalsFounded, Procs
<1>5. RowsBacked'
  BY DEF IInv, TypeOK, DirectoryRemoved, RemoveDirectory, Go, bootVars,
         accountVars, rowVars, RowsBacked, MediaTypeOK, ProcessTypeOK,
         StepsInOrder, Finalizing, WritesFounded, MovesFounded,
         RemovalsFounded, NoRows, NoInfo, Procs
<1>6. WritesFounded'
  BY DEF IInv, TypeOK, DirectoryRemoved, RemoveDirectory, Go, bootVars,
         accountVars, rowVars, WritesFounded, ProcessTypeOK, StepsInOrder,
         LeaseHeld, Holding, LeaseFree, Procs
<1>7. VerificationsFounded'
  BY DEF IInv, TypeOK, DirectoryRemoved, RemoveDirectory, Go, bootVars,
         accountVars, rowVars, VerificationsFounded, HasNonce, MediaTypeOK,
         ProcessTypeOK, StepsInOrder, Finalizing, RemovalsFounded, Procs
<1>8. MovesFounded'
  BY DEF IInv, TypeOK, DirectoryRemoved, RemoveDirectory, Go, bootVars,
         accountVars, rowVars, MovesFounded, Finalizing, ProcessTypeOK,
         StepsInOrder, LeaseHeld, Holding, LeaseFree, Procs
<1>9. RemovalsFounded'
  BY DEF IInv, TypeOK, DirectoryRemoved, RemoveDirectory, Go, bootVars,
         accountVars, rowVars, RemovalsFounded, Finalizing, SessionTypeOK,
         MediaTypeOK, ProcessTypeOK, Procs
<1>10. (SessionTypeOK /\ AccountTypeOK /\ CodesDistinct /\ ImagesBacked
        /\ PublishedOnce /\ FailedOnlyWithoutOwner)'
  BY DEF IInv, TypeOK, DirectoryRemoved, RemoveDirectory, Go, bootVars,
         accountVars, rowVars, SessionTypeOK, AccountTypeOK, CodesDistinct,
         Finalizing, ImagesBacked, PublishedOnce, FailedOnlyWithoutOwner
<1> QED
  BY <1>1, <1>2, <1>3, <1>4, <1>5, <1>6, <1>7, <1>8, <1>9, <1>10
     DEF IInv, TypeOK

\* Only a file that nothing names is unlinked.
LEMMA FileUnlinkedKeeps ==
    ASSUME IInv, NEW w \in Workers, FileUnlinked(w) PROVE IInv'
<1>1. (MediaTypeOK /\ ProcessTypeOK)'
  BY DEF IInv, TypeOK, FileUnlinked, Finish, bootVars, putVars, accountVars,
         rowVars, MediaTypeOK, ProcessTypeOK, StepsInOrder, Finalizing, Infos,
         Procs, Steps
<1>2. FinalizingRecorded'
  <2>1. \A u \in Uploads : Finalizing(u) =>
          info[u].code \in Codes /\ info[u].code # target[w]
    BY DistinctAssumption
       DEF FileUnlinked, IInv, FinalizingRecorded, RemovalsFounded, DistinctAssumption
  <2>3. \A c \in Codes \ {target[w]} : files'[c] = files[c]
    BY DEF FileUnlinked
  <2>2. UNCHANGED <<status, info, image, rows, source>>
    BY DEF FileUnlinked, rowVars
  <2> QED
    BY <2>1, <2>2, <2>3 DEF IInv, FinalizingRecorded, Finalizing
<1>3. (StepsInOrder /\ LeaseHeld)'
  BY DistinctAssumption
     DEF IInv, TypeOK, FileUnlinked, Finish, bootVars, putVars, accountVars,
         rowVars, StepsInOrder, LeaseHeld, Holding, ProcessTypeOK, Procs,
         DistinctAssumption
<1>4. WritesFounded'
  BY DEF IInv, TypeOK, FileUnlinked, Finish, bootVars, putVars, accountVars,
         rowVars, WritesFounded, SessionTypeOK, MediaTypeOK, ProcessTypeOK,
         Procs
<1>5. VerificationsFounded'
  BY DEF IInv, TypeOK, FileUnlinked, Finish, bootVars, putVars, accountVars,
         rowVars, VerificationsFounded, HasNonce, SessionTypeOK, MediaTypeOK,
         ProcessTypeOK, Procs
<1>6. MovesFounded'
  BY DEF IInv, TypeOK, FileUnlinked, Finish, bootVars, putVars, accountVars,
         rowVars, MovesFounded, Finalizing, SessionTypeOK, MediaTypeOK,
         ProcessTypeOK, Procs
<1>7. RemovalsFounded'
  BY DEF IInv, TypeOK, FileUnlinked, Finish, bootVars, putVars, accountVars,
         rowVars, RemovalsFounded, Finalizing, SessionTypeOK, MediaTypeOK,
         ProcessTypeOK, Procs
<1>8. ImagesBacked'
  BY DistinctAssumption
     DEF IInv, TypeOK, FileUnlinked, Finish, bootVars, putVars, accountVars,
         rowVars, ImagesBacked, ProcessTypeOK, StepsInOrder, Finalizing,
         RemovalsFounded, Procs, DistinctAssumption
<1>9. (SessionTypeOK /\ AccountTypeOK /\ CodesDistinct /\ RowsBacked
       /\ PublishedOnce /\ FailedOnlyWithoutOwner)'
  BY DEF IInv, TypeOK, FileUnlinked, Finish, bootVars, putVars, accountVars,
         rowVars, SessionTypeOK, AccountTypeOK, CodesDistinct, Finalizing,
         RowsBacked, PublishedOnce, FailedOnlyWithoutOwner
<1> QED
  BY <1>1, <1>2, <1>3, <1>4, <1>5, <1>6, <1>7, <1>8, <1>9 DEF IInv, TypeOK

\* Deleting a video drops its row before its file.
LEMMA DeleteVideoKeeps ==
    ASSUME IInv, NEW w \in Workers, NEW code \in Codes, DeleteVideo(w, code)
    PROVE  IInv'
<1>1. (MediaTypeOK /\ ProcessTypeOK)'
  BY DEF IInv, TypeOK, DeleteVideo, Go, bootVars, putVars, accountVars,
         diskVars, rowVars, MediaTypeOK, ProcessTypeOK, StepsInOrder,
         Finalizing, Infos, Procs, Steps
<1>2. (StepsInOrder /\ LeaseHeld)'
  BY DistinctAssumption
     DEF IInv, TypeOK, DeleteVideo, Go, bootVars, putVars, accountVars,
         diskVars, rowVars, StepsInOrder, LeaseHeld, Holding, ProcessTypeOK,
         Procs, LeaseFree, DistinctAssumption
<1>3. FinalizingRecorded'
  BY DEF IInv, TypeOK, DeleteVideo, Go, bootVars, putVars, accountVars,
         diskVars, rowVars, FinalizingRecorded, Finalizing, SessionTypeOK,
         MediaTypeOK, ProcessTypeOK, Procs
<1>4. WritesFounded'
  BY DEF IInv, TypeOK, DeleteVideo, Go, bootVars, putVars, accountVars,
         diskVars, rowVars, WritesFounded, SessionTypeOK, MediaTypeOK,
         ProcessTypeOK, Procs
<1>5. VerificationsFounded'
  BY DEF IInv, TypeOK, DeleteVideo, Go, bootVars, putVars, accountVars,
         diskVars, rowVars, VerificationsFounded, HasNonce, SessionTypeOK,
         MediaTypeOK, ProcessTypeOK, Procs
<1>6. MovesFounded'
  BY DEF IInv, TypeOK, DeleteVideo, Go, bootVars, putVars, accountVars,
         diskVars, rowVars, MovesFounded, Finalizing, SessionTypeOK,
         MediaTypeOK, ProcessTypeOK, Procs
<1>7. RemovalsFounded'
  BY DEF IInv, TypeOK, DeleteVideo, Go, bootVars, putVars, accountVars,
         diskVars, rowVars, RemovalsFounded, Finalizing, MediaTypeOK,
         ProcessTypeOK, StepsInOrder, FinalizingRecorded, Procs
<1>8. ImagesBacked'
  BY DEF IInv, TypeOK, DeleteVideo, Go, bootVars, putVars, accountVars,
         diskVars, rowVars, ImagesBacked, SessionTypeOK, MediaTypeOK,
         ProcessTypeOK, Procs
<1>9. PublishedOnce'
  BY DEF IInv, TypeOK, DeleteVideo, Go, bootVars, putVars, accountVars,
         diskVars, rowVars, PublishedOnce, SessionTypeOK, MediaTypeOK,
         ProcessTypeOK, Procs
<1>10. (SessionTypeOK /\ AccountTypeOK /\ CodesDistinct /\ RowsBacked
        /\ FailedOnlyWithoutOwner)'
  BY DEF IInv, TypeOK, DeleteVideo, Go, bootVars, putVars, accountVars,
         diskVars, rowVars, SessionTypeOK, AccountTypeOK, CodesDistinct,
         Finalizing, RowsBacked, FailedOnlyWithoutOwner
<1> QED
  BY <1>1, <1>2, <1>3, <1>4, <1>5, <1>6, <1>7, <1>8, <1>9, <1>10
     DEF IInv, TypeOK

\* Cleanup removes directories without a session only.
LEMMA CleanupDirectoryKeeps ==
    ASSUME IInv, NEW u \in Uploads, CleanupDirectory(u) PROVE IInv'
<1>1. (MediaTypeOK /\ ProcessTypeOK)'
  BY DEF IInv, TypeOK, CleanupDirectory, RemoveDirectory, bootVars,
         accountVars, rowVars, MediaTypeOK, ProcessTypeOK, SessionTypeOK,
         AccountTypeOK, Procs
<1>2. FinalizingRecorded'
  BY DEF IInv, TypeOK, CleanupDirectory, RemoveDirectory, bootVars,
         accountVars, rowVars, FinalizingRecorded, Finalizing, ProcessTypeOK,
         StepsInOrder, HasRow, Procs
<1>3. RowsBacked'
  BY DEF IInv, TypeOK, CleanupDirectory, RemoveDirectory, bootVars,
         accountVars, rowVars, RowsBacked, ProcessTypeOK, StepsInOrder,
         Finalizing, HasRow, Procs
<1>4. WritesFounded'
  BY DEF IInv, TypeOK, CleanupDirectory, RemoveDirectory, bootVars,
         accountVars, rowVars, WritesFounded, ProcessTypeOK, StepsInOrder,
         HasRow, Procs
<1>5. VerificationsFounded'
  BY DEF IInv, TypeOK, CleanupDirectory, RemoveDirectory, bootVars,
         accountVars, rowVars, VerificationsFounded, HasNonce, ProcessTypeOK,
         StepsInOrder, Finalizing, HasRow, Procs
<1>6. MovesFounded'
  BY DEF IInv, TypeOK, CleanupDirectory, RemoveDirectory, bootVars,
         accountVars, rowVars, MovesFounded, Finalizing, ProcessTypeOK,
         StepsInOrder, HasRow, Procs
<1>7. (SessionTypeOK /\ AccountTypeOK /\ StepsInOrder /\ LeaseHeld
       /\ CodesDistinct /\ RemovalsFounded /\ ImagesBacked /\ PublishedOnce
       /\ FailedOnlyWithoutOwner)'
  BY DEF IInv, TypeOK, CleanupDirectory, RemoveDirectory, bootVars,
         accountVars, rowVars, SessionTypeOK, AccountTypeOK, StepsInOrder,
         LeaseHeld, Holding, CodesDistinct, Finalizing, RemovalsFounded,
         ImagesBacked, PublishedOnce, FailedOnlyWithoutOwner
<1> QED
  BY <1>1, <1>2, <1>3, <1>4, <1>5, <1>6, <1>7 DEF IInv, TypeOK

\* Expiry by itself concerns no other row.
LEMMA ExpireKeeps ==
    ASSUME IInv, NEW u \in Uploads, Expire(u) PROVE IInv'
<1>1. SessionTypeOK'
  BY DEF IInv, TypeOK, Expire, bootVars, putVars, accountVars, diskVars,
         SessionTypeOK, MediaTypeOK, AccountTypeOK, ProcessTypeOK, Procs
<1>2. (MediaTypeOK /\ AccountTypeOK /\ ProcessTypeOK /\ StepsInOrder
       /\ LeaseHeld /\ FinalizingRecorded /\ CodesDistinct /\ RowsBacked
       /\ WritesFounded /\ VerificationsFounded /\ MovesFounded
       /\ RemovalsFounded /\ ImagesBacked /\ PublishedOnce
       /\ FailedOnlyWithoutOwner)'
  BY DEF IInv, TypeOK, Expire, bootVars, putVars, accountVars, diskVars,
         MediaTypeOK, AccountTypeOK, ProcessTypeOK, StepsInOrder, LeaseHeld,
         Holding, FinalizingRecorded, Finalizing, CodesDistinct, RowsBacked,
         WritesFounded, VerificationsFounded, HasNonce, MovesFounded,
         RemovalsFounded, ImagesBacked, PublishedOnce, FailedOnlyWithoutOwner
<1> QED
  BY <1>1, <1>2 DEF IInv, TypeOK

\* Removing a member concerns no upload.
LEMMA RemoveMemberKeeps ==
    ASSUME IInv, NEW t \in Teams, NEW x \in Users, RemoveMember(t, x)
    PROVE  IInv'
<1>1. AccountTypeOK'
  BY DEF IInv, TypeOK, RemoveMember, bootVars, putVars, diskVars, rowVars,
         AccountTypeOK, SessionTypeOK, ProcessTypeOK
<1>2. (SessionTypeOK /\ MediaTypeOK /\ ProcessTypeOK /\ StepsInOrder
       /\ LeaseHeld /\ FinalizingRecorded /\ CodesDistinct /\ RowsBacked
       /\ WritesFounded /\ VerificationsFounded /\ MovesFounded
       /\ RemovalsFounded /\ ImagesBacked /\ PublishedOnce
       /\ FailedOnlyWithoutOwner)'
  BY DEF IInv, TypeOK, RemoveMember, bootVars, putVars, diskVars, rowVars,
         SessionTypeOK, MediaTypeOK, ProcessTypeOK, StepsInOrder, LeaseHeld,
         Holding, FinalizingRecorded, Finalizing, CodesDistinct, RowsBacked,
         WritesFounded, VerificationsFounded, HasNonce, MovesFounded,
         RemovalsFounded, ImagesBacked, PublishedOnce, FailedOnlyWithoutOwner
<1> QED
  BY <1>1, <1>2 DEF IInv, TypeOK

\* Nor does demoting an administrator.
LEMMA DemoteKeeps ==
    ASSUME IInv, NEW x \in Users, Demote(x) PROVE IInv'
<1>1. AccountTypeOK'
  BY DEF IInv, TypeOK, Demote, bootVars, putVars, diskVars, rowVars,
         AccountTypeOK, SessionTypeOK, ProcessTypeOK
<1>2. (SessionTypeOK /\ MediaTypeOK /\ ProcessTypeOK /\ StepsInOrder
       /\ LeaseHeld /\ FinalizingRecorded /\ CodesDistinct /\ RowsBacked
       /\ WritesFounded /\ VerificationsFounded /\ MovesFounded
       /\ RemovalsFounded /\ ImagesBacked /\ PublishedOnce
       /\ FailedOnlyWithoutOwner)'
  BY DEF IInv, TypeOK, Demote, bootVars, putVars, diskVars, rowVars,
         SessionTypeOK, MediaTypeOK, ProcessTypeOK, StepsInOrder, LeaseHeld,
         Holding, FinalizingRecorded, Finalizing, CodesDistinct, RowsBacked,
         WritesFounded, VerificationsFounded, HasNonce, MovesFounded,
         RemovalsFounded, ImagesBacked, PublishedOnce, FailedOnlyWithoutOwner
<1> QED
  BY <1>1, <1>2 DEF IInv, TypeOK

\* Dissolving a team changes no owner and no file.
LEMMA DissolveTeamKeeps ==
    ASSUME IInv, NEW t \in Teams, DissolveTeam(t) PROVE IInv'
<1>1. AccountTypeOK'
  BY DEF IInv, TypeOK, DissolveTeam, bootVars, putVars, diskVars,
         AccountTypeOK, ProcessTypeOK
<1>2. SessionTypeOK'
  BY DEF DissolveTeam, IInv, TypeOK, SessionTypeOK
<1>3. MediaTypeOK'
  BY DEF DissolveTeam, diskVars, IInv, TypeOK, MediaTypeOK, AccountTypeOK, Images
<1>4. FinalizingRecorded'
  BY DEF IInv, TypeOK, DissolveTeam, bootVars, putVars, diskVars,
         FinalizingRecorded, Finalizing, SessionTypeOK, MediaTypeOK,
         ProcessTypeOK, Procs
<1>5. RemovalsFounded'
  BY DEF IInv, TypeOK, DissolveTeam, bootVars, putVars, diskVars,
         RemovalsFounded, Finalizing, SessionTypeOK, MediaTypeOK,
         ProcessTypeOK, Procs
<1>6. ImagesBacked'
  BY DEF IInv, TypeOK, DissolveTeam, bootVars, putVars, diskVars,
         ImagesBacked, SessionTypeOK, MediaTypeOK, ProcessTypeOK, Procs
<1>7. PublishedOnce'
  BY DEF IInv, TypeOK, DissolveTeam, bootVars, putVars, diskVars,
         PublishedOnce, SessionTypeOK, MediaTypeOK, ProcessTypeOK, Procs
<1>8. (ProcessTypeOK /\ StepsInOrder /\ LeaseHeld /\ CodesDistinct
       /\ RowsBacked /\ WritesFounded /\ VerificationsFounded /\ MovesFounded
       /\ FailedOnlyWithoutOwner)'
  BY DEF IInv, TypeOK, DissolveTeam, bootVars, putVars, diskVars,
         ProcessTypeOK, StepsInOrder, LeaseHeld, Holding, CodesDistinct,
         Finalizing, RowsBacked, WritesFounded, VerificationsFounded,
         HasNonce, MovesFounded, FailedOnlyWithoutOwner
<1> QED
  BY <1>1, <1>2, <1>3, <1>4, <1>5, <1>6, <1>7, <1>8 DEF IInv, TypeOK

\* Deleting an account leaves no row without its bytes.
LEMMA DeleteUserKeeps ==
    ASSUME IInv, NEW w \in Workers, NEW x \in Users, DeleteUser(w, x)
    PROVE  IInv'
<1>1. SessionTypeOK'
  <2>1. owner' \in [Uploads -> Users \cup {None}]
    BY DeleteUserAccounts
  <2> QED
    BY <2>1, NoInfoIsInfo DEF DeleteUser, IInv, TypeOK, SessionTypeOK, Statuses, NoRows
<1>2. MediaTypeOK'
  BY DeleteUserMedia DEF DeleteUser, IInv, TypeOK, MediaTypeOK
<1>3. AccountTypeOK'
  BY DeleteUserAccounts
<1>4. ProcessTypeOK'
  BY DEF DeleteUser, bootVars, IInv, TypeOK, ProcessTypeOK
<1>5. FinalizingRecorded'
  <2>1. \A u \in Uploads : status'[u] = "finalizing" => Finalizing(u) /\ u \notin Personal(x)
    BY DeleteUserSessions DEF Finalizing
  <2> QED
    BY <2>1, DeleteUserSessions, DeleteUserMedia DEF Finalizing, IInv, FinalizingRecorded
<1>6. CodesDistinct'
  BY DeleteUserSessions DEF IInv, CodesDistinct, Finalizing
<1>7. RowsBacked'
  BY DeleteUserSessions DEF IInv, RowsBacked
<1>8. WritesFounded'
  <2>1. LeaseFree /\ UNCHANGED pc
    BY DEF DeleteUser, AccountChange
  <2>2. \A p \in Procs : pc'[p] \notin Holding
    BY <2>1, NobodyHolds
  <2> QED
    BY <2>2 DEF WritesFounded, Holding, Procs
<1>9. VerificationsFounded'
  <2>1. UNCHANGED <<pc, at, digest>>
    BY DEF DeleteUser
  <2>2. \A c \in Completers : pc[c] = "verified" => at[c] \in Uploads
    BY DEF IInv, StepsInOrder, Procs
  <2> QED
    BY <2>1, <2>2, DeleteUserSessions DEF IInv, VerificationsFounded, HasNonce
<1>10. MovesFounded'
  <2>1. LeaseFree /\ UNCHANGED pc
    BY DEF DeleteUser, AccountChange
  <2>2. \A p \in Procs : pc'[p] \notin Holding
    BY <2>1, NobodyHolds
  <2> QED
    BY <2>2 DEF MovesFounded, Holding, Procs
<1>11. RemovalsFounded'
  <2>1. LeaseFree /\ UNCHANGED pc
    BY DEF DeleteUser, AccountChange
  <2>2. \A p \in Procs : pc'[p] \notin Holding
    BY <2>1, NobodyHolds
  <2> QED
    BY <2>2 DEF RemovalsFounded, Holding, Procs
<1>12. ImagesBacked'
  BY DeleteUserSessions, DeleteUserMedia DEF IInv, ImagesBacked
<1>13. PublishedOnce'
  BY DeleteUserMedia DEF IInv, PublishedOnce
<1>14. FailedOnlyWithoutOwner'
  <2>1. \A u \in Uploads : status'[u] = "failed" => owner[u] \notin users /\ status[u] = "failed"
    BY DeleteUserSessions DEF IInv, FailedOnlyWithoutOwner
  <2>2. x \in users /\ users' = users \ {x}
    BY DEF DeleteUser
  <2>3. \A u \in Uploads : owner[u] # x => owner'[u] = owner[u]
    BY DEF DeleteUser, HandOver, Personal
  <2> QED
    BY <2>1, <2>2, <2>3 DEF FailedOnlyWithoutOwner
<1>15. (StepsInOrder /\ LeaseHeld)'
  BY DEF IInv, DeleteUser, HandOver, Shared, Bare, Personal, Heirs, Mates,
         Freed, bootVars, StepsInOrder, LeaseHeld, Holding
<1> QED
  BY <1>1, <1>2, <1>3, <1>4, <1>5, <1>6, <1>7, <1>8, <1>9, <1>10, <1>11,
     <1>12, <1>13, <1>14, <1>15
     DEF IInv, TypeOK

\* A crash forgets the processes, and rows and files agree without them.
LEMMA CrashKeeps ==
    ASSUME IInv, Crash PROVE IInv'
<1>1. ProcessTypeOK'
  BY ConstantsAssumption, GoodFilesAreContents
     DEF IInv, TypeOK, Crash, accountVars, diskVars, rowVars, ProcessTypeOK,
         StepsInOrder, Steps, Parts, Procs, Interrupted, ConstantsAssumption
<1>2. (StepsInOrder /\ LeaseHeld)'
  BY DistinctAssumption
     DEF IInv, TypeOK, Crash, accountVars, diskVars, rowVars, StepsInOrder,
         LeaseHeld, Holding, ProcessTypeOK, Procs, DistinctAssumption
<1>3. WritesFounded'
  BY DEF IInv, TypeOK, Crash, accountVars, diskVars, rowVars, WritesFounded,
         SessionTypeOK, MediaTypeOK, ProcessTypeOK, Procs
<1>4. VerificationsFounded'
  BY DEF IInv, TypeOK, Crash, accountVars, diskVars, rowVars,
         VerificationsFounded, HasNonce, SessionTypeOK, MediaTypeOK,
         ProcessTypeOK, Procs
<1>5. MovesFounded'
  BY DEF IInv, TypeOK, Crash, accountVars, diskVars, rowVars, MovesFounded,
         Finalizing, SessionTypeOK, MediaTypeOK, ProcessTypeOK, Procs
<1>6. RemovalsFounded'
  BY DEF IInv, TypeOK, Crash, accountVars, diskVars, rowVars, RemovalsFounded,
         Finalizing, SessionTypeOK, MediaTypeOK, ProcessTypeOK, Procs
<1>7. (SessionTypeOK /\ MediaTypeOK /\ AccountTypeOK /\ FinalizingRecorded
       /\ CodesDistinct /\ RowsBacked /\ ImagesBacked /\ PublishedOnce
       /\ FailedOnlyWithoutOwner)'
  BY DEF IInv, TypeOK, Crash, accountVars, diskVars, rowVars, SessionTypeOK,
         MediaTypeOK, AccountTypeOK, FinalizingRecorded, Finalizing,
         CodesDistinct, RowsBacked, ImagesBacked, PublishedOnce,
         FailedOnlyWithoutOwner
<1> QED
  BY <1>1, <1>2, <1>3, <1>4, <1>5, <1>6, <1>7 DEF IInv, TypeOK

\* Startup ends with nothing under way.
LEMMA StartupDoneKeeps ==
    ASSUME IInv, StartupDone PROVE IInv'
<1>1. ProcessTypeOK'
  BY DEF IInv, TypeOK, StartupDone, putVars, accountVars, diskVars, rowVars,
         ProcessTypeOK, MediaTypeOK, SessionTypeOK, Procs
<1>2. (SessionTypeOK /\ MediaTypeOK /\ AccountTypeOK /\ StepsInOrder
       /\ LeaseHeld /\ FinalizingRecorded /\ CodesDistinct /\ RowsBacked
       /\ WritesFounded /\ VerificationsFounded /\ MovesFounded
       /\ RemovalsFounded /\ ImagesBacked /\ PublishedOnce
       /\ FailedOnlyWithoutOwner)'
  BY DEF IInv, TypeOK, StartupDone, putVars, accountVars, diskVars, rowVars,
         SessionTypeOK, MediaTypeOK, AccountTypeOK, StepsInOrder, LeaseHeld,
         Holding, FinalizingRecorded, Finalizing, CodesDistinct, RowsBacked,
         WritesFounded, VerificationsFounded, HasNonce, MovesFounded,
         RemovalsFounded, ImagesBacked, PublishedOnce, FailedOnlyWithoutOwner
<1> QED
  BY <1>1, <1>2 DEF IInv, TypeOK
=============================================================================
