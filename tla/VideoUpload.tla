---------------------------- MODULE VideoUpload ----------------------------
(***************************************************************************)
(* The life of resumable video uploads: app/services/videos.py, with the   *)
(* account and team handlers that share its lifecycle lease.               *)
(*                                                                         *)
(* Three stores must agree: the SQLite rows (sessions, parts, images), the *)
(* session directory holding the assembled source file, and files/ with    *)
(* the published bytes.  Every handler runs under the library lease except *)
(* a PUT receiving its body (it holds only its upload's inbound gate) and  *)
(* the hash of a verification (it holds nothing).  A handler that touches  *)
(* two stores is split at every commit and file operation, so the process  *)
(* may crash, or the operating system refuse, between any two of them.     *)
(***************************************************************************)
EXTENDS Integers, FiniteSets

CONSTANTS
    Uploads,      \* upload ids (uuid4): each names at most one session
    TotalParts,   \* parts of every upload
    Blobs,        \* what a part may contain
    Videos,       \* blobs whose head is a supported video container
    Sampled,      \* parts covered by the quick fingerprint
    Declared,     \* Declared[u]: the file whose fingerprint the client gave
    Codes,        \* short codes
    Users, Teams,
    Admins,       \* accounts whose role is admin at first
    Founders,     \* (team, user) memberships at first
    Managers,     \* (team, user) pairs whose membership role is owner/admin
    Putters,      \* PUT part requests
    Completers,   \* POST complete requests
    Workers,      \* the other requests, the cleanup thread and startup
    Actor,        \* Actor[p]: the account that request p authenticated as
    Jwt,          \* requests with a JWT; the others use a tenant API key
    PartSlots,    \* capacity of _inbound_part_slots
    UserQuota,    \* user_storage_quota, in videos: all have the same size
    TeamQuota,    \* team_storage_quota, likewise
    UploadLimit,  \* max_active_video_uploads
    OsFaults,     \* whether file operations and commits may fail
    MaxCrashes,   \* bound on process crashes
    Hole, Torn,   \* bytes never written; bytes of an unfinished write
    None

Procs == Putters \cup Completers \cup Workers
Parts == 0 .. (TotalParts - 1)
LastPart == TotalParts - 1
Cells == Blobs \cup {Hole, Torn}
\* A file as the blob in each part's range; a SHA-256 digest is the file itself.
Contents == [Parts -> Cells]
Images == [upload : Uploads, owner : Users \cup {None}, team : Teams \cup {None},
           sha : Contents]

ASSUME ConstantsAssumption ==
    /\ TotalParts \in Nat \ {0}
    /\ Videos \subseteq Blobs
    /\ Sampled \subseteq Parts
    /\ Declared \in [Uploads -> [Parts -> Blobs]]
    /\ Actor \in [Procs -> Users]
    /\ Jwt \subseteq Procs
    /\ Admins \subseteq Users
    /\ Founders \subseteq Teams \X Users
    /\ Managers \subseteq Teams \X Users
    /\ PartSlots \in Nat \ {0}
    /\ {UserQuota, TeamQuota, UploadLimit} \subseteq Nat
    /\ OsFaults \in BOOLEAN
    /\ MaxCrashes \in Nat

ASSUME DistinctAssumption ==
    /\ Putters \cap Completers = {}
    /\ Putters \cap Workers = {}
    /\ Completers \cap Workers = {}
    /\ Hole \notin Blobs /\ Torn \notin Blobs
    /\ None \notin Uploads \cup Codes \cup Teams \cup Users \cup Procs \cup Cells
    /\ None \notin Contents \cup Images

VARIABLES
    (* upload_sessions and upload_parts *)
    status,   \* status[u], "unborn" before and "gone" after the row exists
    owner,    \* owner[u]
    team,     \* team[u], None for a personal upload
    live,     \* live[u]: expires_at lies in the future
    info,     \* info[u]: resume_info
    final,    \* final[u]: final_code
    rows,     \* rows[u][k]: digest of part k's row, None without a row
    (* images *)
    image,    \* image[c]: the row of code c, or None
    (* the disk *)
    dir,      \* uploads whose session directory exists
    source,   \* source[u]: video.part, or None
    files,    \* files[c]: the file published under c, or None
    (* accounts *)
    users, admins, members, teams,
    (* the process *)
    mode,     \* "starting" or "serving"
    todo,     \* sessions startup has still to recover
    lease,    \* holder of the library lease between two of its steps
    pc, at,   \* each request's step and upload
    part, blob, tmp,  \* a PUT's part, body, and whether its temp file exists
    digest,   \* what a completer's hash read
    target,   \* the published file a worker still has to unlink
    crashes

rowVars  == <<status, owner, team, live, info, final, rows>>
diskVars == <<dir, source, files>>
accountVars == <<users, admins, members, teams>>
putVars  == <<part, blob, tmp>>
bootVars == <<mode, todo, crashes>>
vars == <<rowVars, image, diskVars, accountVars, bootVars, lease, pc, at,
          putVars, digest, target>>

Statuses == {"unborn", "active", "verifying", "finalizing", "completed",
             "failed", "gone"}
NoInfo == [nonce |-> None, code |-> None, sha |-> None, admin |-> FALSE]
Infos == [nonce : Completers \cup {None}, code : Codes \cup {None},
          sha : Contents \cup {None}, admin : BOOLEAN]
NoRows == [k \in Parts |-> None]
Empty  == [k \in Parts |-> Hole]
Steps  == {"idle",
           "waiting", "receiving", "staged", "writing",            \* PUT
           "verifying", "resetting", "verified", "moving", "recording",
           "deciding", "undoing", "removing", "unlinking"}         \* workers

-----------------------------------------------------------------------------
(* Authorization as each handler recomputes it from fresh rows. *)

HasRow(u) == status[u] \notin {"unborn", "gone"}

\* has_global_admin_scope: the role counts only behind a JWT.
GlobalAdmin(p) == Actor[p] \in users \cap admins /\ p \in Jwt

MayEnter(p, t) ==
    \/ t = None
    \/ t \in teams /\ (GlobalAdmin(p) \/ <<t, Actor[p]>> \in members)

\* fresh_library_user, then owner or global administrator.
Controls(p, u) == /\ Actor[p] \in users
                  /\ owner[u] = Actor[p] \/ GlobalAdmin(p)

MayUse(p, u) == HasRow(u) /\ Controls(p, u) /\ MayEnter(p, team[u])

\* Mutant: recovery forgets that a membership may have been revoked.
AnyOwnerMayPublish(u) ==
    owner[u] \in users /\ (team[u] = None \/ team[u] \in teams)

\* Recovery has no request: it judges the owner, with the scope on record.
OwnerMayPublish(u) ==
    /\ owner[u] \in users
    /\ \/ team[u] = None
       \/ /\ team[u] \in teams
          /\ \/ info[u].admin /\ owner[u] \in admins
             \/ <<team[u], owner[u]>> \in members

\* can_manage_image
MayManage(p, img) ==
    /\ Actor[p] \in users
    /\ \/ GlobalAdmin(p)
       \/ img.team = None /\ img.owner = Actor[p]
       \/ /\ img.team # None
          /\ <<img.team, Actor[p]>> \in members
          /\ img.owner = Actor[p] \/ <<img.team, Actor[p]>> \in Managers

-----------------------------------------------------------------------------
(* Locks.  A gate is held while its PUT receives, and by the lease holder  *)
(* that writes or removes the upload's files.                              *)

GateHolders(u) ==
    {p \in Procs : at[p] = u /\ pc[p] \in {"receiving", "writing", "removing",
                                         "unlinking"}}
GateFree(u) == GateHolders(u) = {}
LeaseFree == lease = None
Receiving == {p \in Putters : pc[p] = "receiving"}
Serving == mode = "serving"
\* Cleanup runs as the last act of startup, then beside the requests.
Cleaning == Serving \/ todo = {}

Go(p, step) == pc' = [pc EXCEPT ![p] = step]
Finish(p) == /\ pc' = [pc EXCEPT ![p] = "idle"]
             /\ at' = [at EXCEPT ![p] = None]

Init ==
    /\ status = [u \in Uploads |-> "unborn"]
    /\ owner = [u \in Uploads |-> None]
    /\ team = [u \in Uploads |-> None]
    /\ live = [u \in Uploads |-> FALSE]
    /\ info = [u \in Uploads |-> NoInfo]
    /\ final = [u \in Uploads |-> None]
    /\ rows = [u \in Uploads |-> NoRows]
    /\ image = [c \in Codes |-> None]
    /\ dir = {}
    /\ source = [u \in Uploads |-> None]
    /\ files = [c \in Codes |-> None]
    /\ users = Users
    /\ admins = Admins
    /\ members = Founders
    /\ teams = Teams
    /\ mode = "serving"
    /\ todo = {}
    /\ lease = None
    /\ pc = [p \in Procs |-> "idle"]
    /\ at = [p \in Procs |-> None]
    /\ part = [p \in Putters |-> 0]
    /\ blob = [p \in Putters |-> None]
    /\ tmp = [p \in Putters |-> FALSE]
    /\ digest = [c \in Completers |-> None]
    /\ target = [w \in Workers |-> None]
    /\ crashes = 0

-----------------------------------------------------------------------------
(* POST /api/video-uploads. The directory is made after the row commits, so *)
(* a failed mkdir leaves a session without one.  A request that repeats the *)
(* intent of a live active session gets that one and changes nothing.       *)

\* storage_quota.py: an unfinished session reserves its size until it expires.
Reserved == {u \in Uploads :
    live[u] /\ status[u] \in {"active", "verifying", "finalizing", "failed"}}
Stored == {c \in Codes : image[c] # None}

UserUsage(x) == Cardinality({c \in Stored : image[c].owner = x})
                + Cardinality({u \in Reserved : owner[u] = x})
TeamUsage(t) == Cardinality({c \in Stored : image[c].team = t})
                + Cardinality({u \in Reserved : team[u] = t})

\* enforce_storage_quota, then the limit on unfinished uploads
Admits(x, t) ==
    /\ UserUsage(x) < UserQuota
    /\ t # None => TeamUsage(t) < TeamQuota
    /\ Cardinality({u \in Reserved : owner[u] = x}) < UploadLimit

CreateUploadSession(w, u, t) ==
    /\ Serving /\ LeaseFree /\ pc[w] = "idle"
    /\ status[u] = "unborn"
    /\ Actor[w] \in users /\ MayEnter(w, t)
    /\ Admits(Actor[w], t)
    /\ status' = [status EXCEPT ![u] = "active"]
    /\ owner' = [owner EXCEPT ![u] = Actor[w]]
    /\ team' = [team EXCEPT ![u] = t]
    /\ live' = [live EXCEPT ![u] = TRUE]
    /\ dir' \in {dir \cup {u}} \cup (IF OsFaults THEN {dir} ELSE {})
    /\ UNCHANGED <<info, final, rows, image, source, files, accountVars,
                   bootVars, lease, pc, at, putVars, digest, target>>

-----------------------------------------------------------------------------
(* PUT /api/video-uploads/{u}/parts/{k} *)

AcceptsParts(u) == live[u] /\ status[u] \in {"active", "finalizing", "completed"}

\* The route admits the request, and it queues for the gate and a slot.
PutBegin(p, u, k, b) ==
    /\ Serving /\ pc[p] = "idle"
    /\ MayUse(p, u) /\ AcceptsParts(u)
    /\ Go(p, "waiting")
    /\ at' = [at EXCEPT ![p] = u]
    /\ part' = [part EXCEPT ![p] = k]
    /\ blob' = [blob EXCEPT ![p] = b]
    /\ UNCHANGED <<rowVars, image, diskVars, accountVars, bootVars, lease,
                   tmp, digest, target>>

PutDone(p) ==
    /\ Finish(p)
    /\ part' = [part EXCEPT ![p] = 0]
    /\ blob' = [blob EXCEPT ![p] = None]
    /\ tmp' = [tmp EXCEPT ![p] = FALSE]

\* Mutant: what the route checked before the wait is not checked again.
PutReceiveUnchecked(p) ==
    LET u == at[p] IN
    /\ pc[p] = "waiting"
    /\ GateFree(u) /\ Cardinality(Receiving) < PartSlots
    /\ Go(p, "receiving")
    /\ dir' = dir \cup {u}
    /\ tmp' = [tmp EXCEPT ![p] = TRUE]
    /\ UNCHANGED <<rowVars, image, source, files, accountVars, bootVars,
                   lease, at, part, blob, digest, target>>

\* It owns the gate and a slot: everything is judged again before the
\* directory and the temporary file are made.
PutReceive(p) ==
    LET u == at[p] IN
    /\ pc[p] = "waiting"
    /\ GateFree(u) /\ Cardinality(Receiving) < PartSlots
    /\ MayUse(p, u) /\ AcceptsParts(u)
    /\ Go(p, "receiving")
    /\ dir' = dir \cup {u}
    /\ tmp' = [tmp EXCEPT ![p] = TRUE]
    /\ UNCHANGED <<rowVars, image, source, files, accountVars, bootVars,
                   lease, at, part, blob, digest, target>>

PutRefused(p) ==
    LET u == at[p] IN
    /\ pc[p] = "waiting"
    /\ GateFree(u) /\ Cardinality(Receiving) < PartSlots
    /\ OsFaults \/ ~(MayUse(p, u) /\ AcceptsParts(u))  \* 507, or 4xx
    /\ PutDone(p)
    /\ UNCHANGED <<rowVars, image, diskVars, accountVars, bootVars, lease,
                   digest, target>>

\* The body has the declared length and digest: gate and slot are released.
PutStaged(p) ==
    /\ pc[p] = "receiving"
    /\ Go(p, "staged")
    /\ UNCHANGED <<rowVars, image, diskVars, accountVars, bootVars, lease,
                   at, putVars, digest, target>>

\* A short or corrupt body, a full disk, or a client that went away.
PutRejected(p) ==
    /\ pc[p] = "receiving"
    /\ PutDone(p)
    /\ UNCHANGED <<rowVars, image, diskVars, accountVars, bootVars, lease,
                   digest, target>>

\* The request task ends, or cleanup drops a stale temporary file, while
\* _commit_upload_part still queues for the lease in its worker thread.
PutAbandoned(p) ==
    /\ pc[p] = "staged" /\ tmp[p]
    /\ tmp' = [tmp EXCEPT ![p] = FALSE]
    /\ UNCHANGED <<rowVars, image, diskVars, accountVars, bootVars, lease,
                   pc, at, part, blob, digest, target>>

Written(p) == [source EXCEPT ![at[p]][part[p]] = blob[p]]

\* os.replace when the first part starts the file; otherwise a write at the
\* part's offset, of which nothing is certain before its fsync.
Placed(p) ==
    LET u == at[p]
        k == part[p]
        old == IF source[u] = None THEN Empty ELSE source[u]
        cell == IF source[u] = None /\ k = 0 THEN blob[p] ELSE Torn
    IN [source EXCEPT ![u] = [old EXCEPT ![k] = cell]]

\* Mutant: the last request to commit a part wins.
MayOverwritePart(p) ==
    /\ MayUse(p, at[p])
    /\ status[at[p]] = "active"
    /\ tmp[p]
    /\ part[p] = 0 => blob[p] \in Videos

\* Mutant: the commit trusts the status checked before the body was read.
MayCommitUnchecked(p) ==
    /\ MayUse(p, at[p])
    /\ tmp[p]
    /\ part[p] = 0 => blob[p] \in Videos

MayCommitPart(p) ==
    LET u == at[p] IN
    /\ MayUse(p, u)
    /\ rows[u][part[p]] = None
    /\ status[u] = "active"
    /\ tmp[p]
    /\ part[p] = 0 => blob[p] \in Videos

RepeatsPart(p) == MayUse(p, at[p]) /\ rows[at[p]][part[p]] = blob[p]

PutWrite(p) ==
    /\ pc[p] = "staged"
    /\ LeaseFree /\ GateFree(at[p])
    /\ MayCommitPart(p)
    /\ source' = Placed(p)
    /\ lease' = p
    /\ Go(p, "writing")
    /\ UNCHANGED <<rowVars, image, dir, files, accountVars, bootVars, at,
                   putVars, digest, target>>

\* A repeated part is acknowledged and renews an active session's expiry.
PutRepeated(p) ==
    LET u == at[p] IN
    /\ pc[p] = "staged"
    /\ LeaseFree /\ GateFree(u)
    /\ RepeatsPart(p)
    /\ live' = [live EXCEPT ![u] = @ \/ status[u] = "active"]
    /\ PutDone(p)
    /\ UNCHANGED <<status, owner, team, info, final, rows, image, diskVars,
                   accountVars, bootVars, lease, digest, target>>

PutConflict(p) ==
    /\ pc[p] = "staged"
    /\ LeaseFree /\ GateFree(at[p])
    /\ ~MayCommitPart(p) /\ ~RepeatsPart(p)
    /\ PutDone(p)
    /\ UNCHANGED <<rowVars, image, diskVars, accountVars, bootVars, lease,
                   digest, target>>

PutCommitted(p) ==
    LET u == at[p] IN
    /\ pc[p] = "writing"
    /\ source' = Written(p)
    /\ rows' = [rows EXCEPT ![u][part[p]] = blob[p]]
    /\ live' = [live EXCEPT ![u] = TRUE]
    /\ lease' = None
    /\ PutDone(p)
    /\ UNCHANGED <<status, owner, team, info, final, image, dir, files,
                   accountVars, bootVars, digest, target>>

\* The write, its fsync or the commit fails: bytes may be there, no row is.
PutWriteFails(p) ==
    /\ OsFaults /\ pc[p] = "writing"
    /\ source' \in {source, Written(p)}
    /\ lease' = None
    /\ PutDone(p)
    /\ UNCHANGED <<rowVars, image, dir, files, accountVars, bootVars,
                   digest, target>>

-----------------------------------------------------------------------------
(* POST /api/video-uploads/{u}/complete *)

\* Mutant: a status no other handler knows.
MisspeltStatus(u) == IF source[u] = None THEN "failed" ELSE "resumable"

SettledStatus(u) == IF source[u] = None THEN "failed" ELSE "active"

HasNonce(u, c) == status[u] = "verifying" /\ info[u].nonce = c

\* _return_verifying_to_active: only the attempt that owns the nonce, and
\* only if this commit succeeds.
ReturnToActive(u, c) ==
    \/ /\ HasNonce(u, c)
       /\ status' = [status EXCEPT ![u] = SettledStatus(u)]
       /\ info' = [info EXCEPT ![u] = NoInfo]
       /\ live' = [live EXCEPT ![u] = TRUE]
    \/ /\ OsFaults \/ ~HasNonce(u, c)
       /\ UNCHANGED <<status, info, live>>

CompleteDone(c) == /\ Finish(c)
                   /\ digest' = [digest EXCEPT ![c] = None]

\* Phase one: every part has a row and the file has its full size.  Only the
\* route looks at the expiry, before the wait for the lease.
CompleteBegin(c, u) ==
    /\ Serving /\ LeaseFree /\ pc[c] = "idle"
    /\ MayUse(c, u) /\ status[u] = "active"
    /\ \A k \in Parts : rows[u][k] # None
    /\ source[u] # None /\ source[u][LastPart] # Hole
    /\ status' = [status EXCEPT ![u] = "verifying"]
    /\ info' = [info EXCEPT ![u] = [NoInfo EXCEPT !.nonce = c]]
    /\ live' = [live EXCEPT ![u] = TRUE]
    /\ Go(c, "verifying")
    /\ at' = [at EXCEPT ![c] = u]
    /\ UNCHANGED <<owner, team, final, rows, image, diskVars, accountVars,
                   bootVars, lease, putVars, digest, target>>

\* Mutant: the client's fingerprint is not compared.
VerifiesPartsOnly(u) ==
    /\ source[u] # None
    /\ source[u][0] \in Videos
    /\ \A k \in Parts : source[u][k] = rows[u][k]

\* Container, quick fingerprint, and the digest of every part.
Verifies(u) ==
    /\ source[u] # None
    /\ source[u][0] \in Videos
    /\ \A k \in Sampled : source[u][k] = Declared[u][k]
    /\ \A k \in Parts : source[u][k] = rows[u][k]

\* The hash runs without any lock.
CompleteVerified(c) ==
    /\ pc[c] = "verifying" /\ Verifies(at[c])
    /\ digest' = [digest EXCEPT ![c] = source[at[c]]]
    /\ Go(c, "verified")
    /\ UNCHANGED <<rowVars, image, diskVars, accountVars, bootVars, lease,
                   at, putVars, target>>

CompleteUnverified(c) ==
    /\ pc[c] = "verifying" /\ (OsFaults \/ ~Verifies(at[c]))
    /\ Go(c, "resetting")
    /\ UNCHANGED <<rowVars, image, diskVars, accountVars, bootVars, lease,
                   at, putVars, digest, target>>

CompleteReset(c) ==
    /\ pc[c] = "resetting" /\ LeaseFree
    /\ ReturnToActive(at[c], c)
    /\ CompleteDone(c)
    /\ UNCHANGED <<owner, team, final, rows, image, diskVars, accountVars,
                   bootVars, lease, putVars, target>>

\* Phase two judges everything again, and in this order hands the session
\* back only to the attempt that still owns it.
MayPublish(c) ==
    LET u == at[c] IN
    MayUse(c, u) /\ HasNonce(u, c) /\ source[u] # None

CompleteDenied(c) ==
    /\ pc[c] = "verified" /\ LeaseFree
    /\ OsFaults \/ ~MayPublish(c)
    /\ ReturnToActive(at[c], c)
    /\ CompleteDone(c)
    /\ UNCHANGED <<owner, team, final, rows, image, diskVars, accountVars,
                   bootVars, lease, putVars, target>>

\* _unique_video_code draws seven random characters until none of the image
\* rows has them.  That a draw also misses the codes of unfinished sessions
\* and of files no row names rests on their randomness alone.
FreshCodes == {c \in Codes : /\ image[c] = None /\ files[c] = None
                             /\ \A u \in Uploads : info[u].code # c}

\* Recovery metadata is committed before the file moves.
CompletePrepared(c) ==
    LET u == at[c] IN
    /\ pc[c] = "verified" /\ LeaseFree
    /\ MayPublish(c)
    /\ \E code \in FreshCodes :
         info' = [info EXCEPT ![u] = [nonce |-> None, code |-> code,
                                      sha |-> digest[c],
                                      admin |-> GlobalAdmin(c)]]
    /\ status' = [status EXCEPT ![u] = "finalizing"]
    /\ live' = [live EXCEPT ![u] = TRUE]
    /\ lease' = c
    /\ Go(c, "moving")
    /\ UNCHANGED <<owner, team, final, rows, image, diskVars, accountVars,
                   bootVars, at, putVars, digest, target>>

MoveToFiles(u) ==
    /\ files' = [files EXCEPT ![info[u].code] = source[u]]
    /\ source' = [source EXCEPT ![u] = None]

CompleteMoved(c) ==
    /\ pc[c] = "moving"
    /\ MoveToFiles(at[c])
    /\ Go(c, "recording")
    /\ UNCHANGED <<rowVars, image, dir, accountVars, bootVars, lease, at,
                   putVars, digest, target>>

CompleteMoveFails(c) ==
    LET u == at[c] IN
    /\ OsFaults /\ pc[c] = "moving"
    /\ \/ /\ status' = [status EXCEPT ![u] = "active"]
          /\ info' = [info EXCEPT ![u] = NoInfo]
       \/ UNCHANGED <<status, info>>  \* this commit fails too
    /\ lease' = None
    /\ CompleteDone(c)
    /\ UNCHANGED <<owner, team, live, final, rows, image, diskVars,
                   accountVars, bootVars, putVars, target>>

Published(u) == [upload |-> u, owner |-> owner[u], team |-> team[u],
                 sha |-> info[u].sha]

\* Mutant: the image row and the session's completion are two commits.
PublishImageOnly(u) ==
    /\ image' = [image EXCEPT ![info[u].code] = IF @ # None THEN @ ELSE Published(u)]
    /\ live' = [live EXCEPT ![u] = TRUE]
    /\ UNCHANGED <<status, final>>

\* Mutant: so they are, and a retry inserts its row under a new code.
PublishAgain(u) ==
    /\ \E c \in Codes : image[c] = None /\ image' = [image EXCEPT ![c] = Published(u)]
    /\ live' = [live EXCEPT ![u] = TRUE]
    /\ UNCHANGED <<status, final>>

\* _create_final_image and the session's completion, in one commit.
Publish(u) ==
    LET code == info[u].code IN
    /\ image' = [image EXCEPT ![code] =
                   IF @ # None THEN @ ELSE Published(u)]
    /\ status' = [status EXCEPT ![u] = "completed"]
    /\ final' = [final EXCEPT ![u] = code]
    /\ live' = [live EXCEPT ![u] = TRUE]

\* The directory goes if no temporary file of a repeated PUT is left in it.
CompleteRecorded(c) ==
    LET u == at[c] IN
    /\ pc[c] = "recording"
    /\ Publish(u)
    /\ dir' = IF \E p \in Putters : at[p] = u /\ tmp[p] THEN dir ELSE dir \ {u}
    /\ lease' = None
    /\ CompleteDone(c)
    /\ UNCHANGED <<owner, team, info, rows, source, files, accountVars,
                   bootVars, putVars, target>>

\* The commit fails: the session stays finalizing for a later recovery.
CompleteRecordFails(c) ==
    /\ OsFaults /\ pc[c] = "recording"
    /\ lease' = None
    /\ CompleteDone(c)
    /\ UNCHANGED <<rowVars, image, diskVars, accountVars, bootVars, putVars,
                   target>>

-----------------------------------------------------------------------------
(* Recovery: of a finalizing session, by a request that meets it, by expiry *)
(* cleanup, or by startup; of a verifying one, by the last two.             *)

AtStartup(u) == mode = "starting" /\ u \in todo
\* Mutants: expiry cleanup recovers only one of the two interrupted states.
AtExpiryFinalizing(u) == Cleaning /\ ~live[u] /\ status[u] = "finalizing"
AtExpiryVerifying(u) == Cleaning /\ ~live[u] /\ status[u] = "verifying"

AtExpiry(u) == Cleaning /\ ~live[u]

RecoverBegin(w, u) ==
    LET code == info[u].code IN
    /\ LeaseFree /\ pc[w] = "idle"
    /\ status[u] = "finalizing"
    /\ AtStartup(u) \/ AtExpiry(u) \/ (Serving /\ Controls(w, u))
    /\ IF files[code] = None /\ source[u] = None
       THEN /\ status' = [status EXCEPT ![u] = "failed"]
            /\ live' = [live EXCEPT ![u] = TRUE]
            /\ todo' = todo \ {u}
            /\ UNCHANGED <<source, files, lease, pc, at>>
       ELSE /\ IF files[code] = None THEN MoveToFiles(u)
                                     ELSE UNCHANGED <<source, files>>
            /\ lease' = w
            /\ Go(w, "deciding")
            /\ at' = [at EXCEPT ![w] = u]
            /\ UNCHANGED <<status, live, todo>>
    /\ UNCHANGED <<owner, team, info, final, rows, image, dir, accountVars,
                   mode, crashes, putVars, digest, target>>

\* The move fails: startup goes on to the next session.
RecoverFault(w, u) ==
    /\ OsFaults /\ LeaseFree /\ pc[w] = "idle"
    /\ AtStartup(u) /\ status[u] = "finalizing"
    /\ files[info[u].code] = None
    /\ todo' = todo \ {u}
    /\ UNCHANGED <<rowVars, image, diskVars, accountVars, mode, crashes,
                   lease, pc, at, putVars, digest, target>>

RecoverPublish(w) ==
    LET u == at[w] IN
    /\ pc[w] = "deciding" /\ OwnerMayPublish(u)
    /\ Publish(u)
    /\ todo' = todo \ {u}
    /\ lease' = None
    /\ Finish(w)
    /\ UNCHANGED <<owner, team, info, rows, diskVars, accountVars, mode,
                   crashes, putVars, digest, target>>

\* The authority is gone: the bytes go back where uploading can resume.
RecoverUndo(w) ==
    LET u == at[w]
        code == info[u].code IN
    /\ pc[w] = "deciding" /\ ~OwnerMayPublish(u)
    /\ source' = [source EXCEPT ![u] = IF @ = None THEN files[code] ELSE @]
    /\ files' = [files EXCEPT ![code] = None]
    /\ dir' = dir \cup {u}
    /\ Go(w, "undoing")
    /\ UNCHANGED <<rowVars, image, accountVars, bootVars, lease, at, putVars,
                   digest, target>>

RecoverUndone(w) ==
    LET u == at[w] IN
    /\ pc[w] = "undoing"
    /\ status' = [status EXCEPT ![u] =
                    IF owner[u] \in users THEN "active" ELSE "failed"]
    /\ info' = [info EXCEPT ![u] = NoInfo]
    /\ live' = [live EXCEPT ![u] = TRUE]
    /\ todo' = todo \ {u}
    /\ lease' = None
    /\ Finish(w)
    /\ UNCHANGED <<owner, team, final, rows, image, diskVars, accountVars,
                   mode, crashes, putVars, digest, target>>

\* Its commit, or the move back, fails.  Startup catches the failed move and
\* goes on; there a failed commit is a crash.
RecoverFails(w) ==
    /\ OsFaults
    /\ \/ pc[w] \in {"deciding", "undoing"} /\ Serving
       \/ pc[w] = "deciding" /\ ~OwnerMayPublish(at[w])
    /\ todo' = todo \ {at[w]}
    /\ lease' = None
    /\ Finish(w)
    /\ UNCHANGED <<rowVars, image, diskVars, accountVars, mode, crashes,
                   putVars, digest, target>>

RecoverVerifying(w, u) ==
    /\ LeaseFree /\ pc[w] = "idle"
    /\ status[u] = "verifying"
    /\ AtStartup(u) \/ AtExpiry(u)
    /\ status' = [status EXCEPT ![u] = SettledStatus(u)]
    /\ info' = [info EXCEPT ![u] = NoInfo]
    /\ live' = [live EXCEPT ![u] = TRUE]
    /\ todo' = todo \ {u}
    /\ UNCHANGED <<owner, team, final, rows, image, diskVars, accountVars,
                   mode, crashes, lease, pc, at, putVars, digest, target>>

-----------------------------------------------------------------------------
(* DELETE /api/video-uploads/{u}, expiry, and removal of published media:   *)
(* the rows go first, in one commit, then the files.                        *)

\* _delete_upload_session_locked up to its commit, for a set of sessions.
DropRows(gone) ==
    /\ status' = [u \in Uploads |-> IF u \in gone THEN "gone" ELSE status[u]]
    /\ owner' = [u \in Uploads |-> IF u \in gone THEN None ELSE owner[u]]
    /\ team' = [u \in Uploads |-> IF u \in gone THEN None ELSE team[u]]
    /\ live' = [u \in Uploads |-> u \notin gone /\ live[u]]
    /\ info' = [u \in Uploads |-> IF u \in gone THEN NoInfo ELSE info[u]]
    /\ final' = [u \in Uploads |-> IF u \in gone THEN None ELSE final[u]]
    /\ rows' = [u \in Uploads |-> IF u \in gone THEN NoRows ELSE rows[u]]

\* Mutant: a completed session still takes its destination along.
AnyCode(u) == info[u].code

PendingCode(u) == IF status[u] = "finalizing" THEN info[u].code ELSE None

CancelCommitted(w, u) ==
    /\ LeaseFree /\ GateFree(u) /\ pc[w] = "idle"
    /\ \/ Serving /\ MayUse(w, u)
       \/ Cleaning /\ ~live[u] /\ status[u] \in {"active", "completed", "failed"}
    /\ DropRows({u})
    /\ target' = [target EXCEPT ![w] = PendingCode(u)]
    /\ lease' = w
    /\ Go(w, "removing")
    /\ at' = [at EXCEPT ![w] = u]
    /\ UNCHANGED <<image, diskVars, accountVars, bootVars, putVars, digest>>

\* rmtree takes the staged parts along; what it cannot remove it ignores.
RemoveDirectory(u) ==
    /\ dir' = dir \ {u}
    /\ source' = [source EXCEPT ![u] = None]
    /\ tmp' = [p \in Putters |-> tmp[p] /\ at[p] # u]

DirectoryRemoved(w) ==
    /\ pc[w] = "removing"
    /\ \/ RemoveDirectory(at[w])
       \/ OsFaults /\ UNCHANGED <<dir, source, tmp>>
    /\ Go(w, "unlinking")
    /\ UNCHANGED <<rowVars, image, files, accountVars, bootVars, lease, at,
                   part, blob, digest, target>>

FileUnlinked(w) ==
    /\ pc[w] = "unlinking"
    /\ \/ files' = [c \in Codes |-> IF c = target[w] THEN None ELSE files[c]]
       \/ OsFaults /\ UNCHANGED files
    /\ target' = [target EXCEPT ![w] = None]
    /\ lease' = None
    /\ Finish(w)
    /\ UNCHANGED <<rowVars, image, dir, source, accountVars, bootVars,
                   putVars, digest>>

\* Mutant: os.rmdir, which only removes an empty directory.
CleanupEmptyDirectory(u) ==
    /\ Cleaning /\ LeaseFree /\ GateFree(u)
    /\ u \in dir /\ ~HasRow(u) /\ source[u] = None
    /\ RemoveDirectory(u)
    /\ UNCHANGED <<rowVars, image, files, accountVars, bootVars, lease, pc,
                   at, part, blob, digest, target>>

\* An untracked directory is renamed away under the locks.
CleanupDirectory(u) ==
    /\ Cleaning /\ LeaseFree /\ GateFree(u)
    /\ u \in dir /\ ~HasRow(u)
    /\ RemoveDirectory(u)
    /\ UNCHANGED <<rowVars, image, files, accountVars, bootVars, lease, pc,
                   at, part, blob, digest, target>>

\* DELETE /api/videos/{c}
DeleteVideo(w, c) ==
    /\ Serving /\ LeaseFree /\ pc[w] = "idle"
    /\ image[c] # None /\ MayManage(w, image[c])
    /\ image' = [image EXCEPT ![c] = None]
    /\ target' = [target EXCEPT ![w] = c]
    /\ lease' = w
    /\ Go(w, "unlinking")
    /\ UNCHANGED <<rowVars, diskVars, accountVars, bootVars, at, putVars,
                   digest>>

-----------------------------------------------------------------------------
(* Accounts and teams: every change runs under the lease. *)

AccountChange == Serving /\ LeaseFree

RemoveMember(t, x) ==
    /\ AccountChange
    /\ t \in teams /\ <<t, x>> \in members
    /\ \E y \in Users \ {x} : <<t, y>> \in members  \* the team owner stays
    /\ members' = members \ {<<t, x>>}
    /\ UNCHANGED <<rowVars, image, diskVars, users, admins, teams, bootVars,
                   lease, pc, at, putVars, digest, target>>

\* set_user_role to "user"
Demote(x) ==
    /\ AccountChange
    /\ x \in admins /\ admins # {x}  \* one cannot demote oneself
    /\ admins' = admins \ {x}
    /\ UNCHANGED <<rowVars, image, diskVars, users, members, teams, bootVars,
                   lease, pc, at, putVars, digest, target>>

\* dissolve_team_media returns sessions and media to their uploaders.
DissolveTeam(t) ==
    /\ AccountChange
    /\ t \in teams
    /\ teams' = teams \ {t}
    /\ team' = [u \in Uploads |-> IF team[u] = t THEN None ELSE team[u]]
    /\ image' = [c \in Codes |->
                   IF image[c] # None /\ image[c].team = t
                   THEN [image[c] EXCEPT !.team = None] ELSE image[c]]
    /\ UNCHANGED <<status, owner, live, info, final, rows, diskVars, users,
                   admins, members, bootVars, lease, pc, at, putVars, digest,
                   target>>

Personal(x) == {u \in Uploads : HasRow(u) /\ owner[u] = x /\ team[u] = None}
Bare(x) == {c \in Codes : /\ image[c] # None
                          /\ image[c].owner = x /\ image[c].team = None}
Freed(x) == Bare(x) \cup {PendingCode(u) : u \in Personal(x)}

\* The teams whose assets pass on: x is still a member of them.
Shared(x) == {t \in teams : <<t, x>> \in members}
Mates(t, x) == {y \in users : <<t, y>> \in members} \ {x}

\* A team's owner, some other member, or at last the deleting administrator.
Heirs(w, x) ==
    {h \in [Teams -> users] :
        \A t \in Teams : h[t] \in IF Mates(t, x) = {} THEN {Actor[w]} ELSE Mates(t, x)}

HandOver(x, heir) ==
    /\ owner' = [u \in Uploads |->
                    IF u \in Personal(x) THEN None
                    ELSE IF owner[u] = x /\ HasRow(u) /\ team[u] \in Shared(x)
                         THEN heir[team[u]] ELSE owner[u]]
    /\ image' = [c \in Codes |->
                    IF c \in Bare(x) THEN None
                    ELSE IF /\ image[c] # None /\ image[c].owner = x
                            /\ image[c].team \in Shared(x)
                         THEN [image[c] EXCEPT !.owner = heir[image[c].team]]
                         ELSE image[c]]
    /\ members' = {m \in members : m[2] # x} \cup {<<t, heir[t]>> : t \in Shared(x)}

\* delete_user: what x put into teams it is a member of passes to an heir, its
\* personal sessions are cancelled behind their gates, its personal media goes.
DeleteUser(w, x) ==
    LET personal == Personal(x) IN
    /\ AccountChange /\ pc[w] = "idle"
    /\ GlobalAdmin(w) /\ x \in users \ {Actor[w]}
    /\ \A u \in personal : GateFree(u)
    /\ \E heir \in Heirs(w, x) : HandOver(x, heir)
    /\ status' = [u \in Uploads |-> IF u \in personal THEN "gone" ELSE status[u]]
    /\ live' = [u \in Uploads |-> u \notin personal /\ live[u]]
    /\ info' = [u \in Uploads |-> IF u \in personal THEN NoInfo ELSE info[u]]
    /\ final' = [u \in Uploads |-> IF u \in personal THEN None ELSE final[u]]
    /\ rows' = [u \in Uploads |-> IF u \in personal THEN NoRows ELSE rows[u]]
    /\ dir' = dir \ personal
    /\ source' = [u \in Uploads |-> IF u \in personal THEN None ELSE source[u]]
    /\ tmp' = [p \in Putters |-> tmp[p] /\ at[p] \notin personal]
    /\ files' = [c \in Codes |-> IF c \in Freed(x) THEN None ELSE files[c]]
    /\ users' = users \ {x}
    /\ admins' = admins \ {x}
    /\ UNCHANGED <<team, teams, bootVars, lease, pc, at, part, blob, digest,
                   target>>

-----------------------------------------------------------------------------
(* Time, crash and startup *)

Expire(u) ==
    /\ live[u]
    /\ live' = [live EXCEPT ![u] = FALSE]
    /\ UNCHANGED <<status, owner, team, info, final, rows, image, diskVars,
                   accountVars, bootVars, lease, pc, at, putVars, digest,
                   target>>

Interrupted == {u \in Uploads : status[u] \in {"verifying", "finalizing"}}

\* The process dies, the machine does not: what was committed or renamed stays.
\* A part-*.tmp left behind is forgotten, since only its directory's removal
\* meets it again.
Crash ==
    /\ crashes < MaxCrashes
    /\ crashes' = crashes + 1
    /\ mode' = "starting"
    /\ todo' = Interrupted
    /\ lease' = None
    /\ pc' = [p \in Procs |-> "idle"]
    /\ at' = [p \in Procs |-> None]
    /\ part' = [p \in Putters |-> 0]
    /\ blob' = [p \in Putters |-> None]
    /\ tmp' = [p \in Putters |-> FALSE]
    /\ digest' = [c \in Completers |-> None]
    /\ target' = [w \in Workers |-> None]
    /\ UNCHANGED <<rowVars, image, diskVars, accountVars>>

StartupDone ==
    /\ mode = "starting" /\ todo = {} /\ LeaseFree
    /\ mode' = "serving"
    /\ UNCHANGED <<rowVars, image, diskVars, accountVars, todo, crashes,
                   lease, pc, at, putVars, digest, target>>

PutStep(p) ==
    \/ \E u \in Uploads, k \in Parts, b \in Blobs : PutBegin(p, u, k, b)
    \/ PutReceive(p) \/ PutRefused(p) \/ PutStaged(p) \/ PutRejected(p)
    \/ PutAbandoned(p) \/ PutWrite(p) \/ PutRepeated(p) \/ PutConflict(p)
    \/ PutCommitted(p) \/ PutWriteFails(p)

CompleteStep(c) ==
    \/ \E u \in Uploads : CompleteBegin(c, u)
    \/ CompleteVerified(c) \/ CompleteUnverified(c) \/ CompleteReset(c)
    \/ CompleteDenied(c) \/ CompletePrepared(c)
    \/ CompleteMoved(c) \/ CompleteMoveFails(c)
    \/ CompleteRecorded(c) \/ CompleteRecordFails(c)

RecoverStep(w) ==
    \/ \E u \in Uploads : RecoverBegin(w, u) \/ RecoverFault(w, u)
                          \/ RecoverVerifying(w, u)
    \/ RecoverPublish(w) \/ RecoverUndo(w) \/ RecoverUndone(w)
    \/ RecoverFails(w)

RemoveStep(w) ==
    \/ \E u \in Uploads : CancelCommitted(w, u)
    \/ \E c \in Codes : DeleteVideo(w, c)
    \/ DirectoryRemoved(w) \/ FileUnlinked(w)

AccountStep ==
    \/ \E t \in Teams : DissolveTeam(t) \/ \E x \in Users : RemoveMember(t, x)
    \/ \E x \in Users : Demote(x) \/ \E w \in Workers : DeleteUser(w, x)

Next ==
    \/ \E w \in Workers, u \in Uploads, t \in Teams \cup {None} :
         CreateUploadSession(w, u, t)
    \/ \E p \in Putters : PutStep(p)
    \/ \E c \in Completers : CompleteStep(c)
    \/ \E w \in Workers : RecoverStep(w) \/ RemoveStep(w)
    \/ \E u \in Uploads : CleanupDirectory(u) \/ Expire(u)
    \/ AccountStep
    \/ Crash \/ StartupDone

Spec == Init /\ [][Next]_vars

\* A thread that holds the lease goes on; time passes; the hourly cleanup
\* thread and startup retry what they could not do, and the operating system
\* does not refuse the same retried operation for ever.
Fairness ==
    /\ \A p \in Putters : WF_vars(PutCommitted(p) \/ PutWriteFails(p))
    /\ \A c \in Completers :
         /\ WF_vars(CompleteMoved(c) \/ CompleteMoveFails(c))
         /\ WF_vars(CompleteRecorded(c) \/ CompleteRecordFails(c))
    /\ \A w \in Workers :
         /\ WF_vars(DirectoryRemoved(w) \/ FileUnlinked(w))
         /\ SF_vars(RecoverPublish(w) \/ RecoverUndo(w))
         /\ SF_vars(RecoverUndone(w))
    /\ \A u \in Uploads :
         /\ WF_vars(Expire(u))
         /\ SF_vars(\E w \in Workers : /\ AtStartup(u) \/ AtExpiry(u)
                                       /\ RecoverBegin(w, u) \/ RecoverVerifying(w, u))
         /\ SF_vars(CleanupDirectory(u))
    /\ SF_vars(StartupDone)

FairSpec == Spec /\ Fairness

-----------------------------------------------------------------------------
SessionTypeOK ==
    /\ status \in [Uploads -> Statuses]
    /\ owner \in [Uploads -> Users \cup {None}]
    /\ team \in [Uploads -> Teams \cup {None}]
    /\ live \in [Uploads -> BOOLEAN]
    /\ info \in [Uploads -> Infos]
    /\ final \in [Uploads -> Codes \cup {None}]
    /\ rows \in [Uploads -> [Parts -> Blobs \cup {None}]]

MediaTypeOK ==
    /\ image \in [Codes -> Images \cup {None}]
    /\ dir \in SUBSET Uploads
    /\ source \in [Uploads -> Contents \cup {None}]
    /\ files \in [Codes -> Contents \cup {None}]

AccountTypeOK ==
    /\ users \in SUBSET Users /\ admins \in SUBSET Users
    /\ members \in SUBSET (Teams \X Users) /\ teams \in SUBSET Teams

ProcessTypeOK ==
    /\ mode \in {"starting", "serving"}
    /\ todo \in SUBSET Uploads
    /\ lease \in Procs \cup {None}
    /\ pc \in [Procs -> Steps]
    /\ at \in [Procs -> Uploads \cup {None}]
    /\ part \in [Putters -> Parts]
    /\ blob \in [Putters -> Blobs \cup {None}]
    /\ tmp \in [Putters -> BOOLEAN]
    /\ digest \in [Completers -> Contents \cup {None}]
    /\ target \in [Workers -> Codes \cup {None}]
    /\ crashes \in 0 .. MaxCrashes

TypeOK == SessionTypeOK /\ MediaTypeOK /\ AccountTypeOK /\ ProcessTypeOK

\* Bytes of an unfinished session, wherever its move has left them.
Bytes(u) == IF source[u] = None /\ status[u] = "finalizing"
            THEN files[info[u].code] ELSE source[u]

\* A part the client was told is stored is stored: as long as a session has
\* not completed, the row of a part implies its bytes, across part writes,
\* failed moves, recovery, undone recovery and crashes (_commit_upload_part
\* syncs before it commits; recover_finalizing_session moves bytes both ways).
AcknowledgedPartsSurvive ==
    \A u \in Uploads, k \in Parts :
        (status[u] \in Statuses \ {"completed"} /\ rows[u][k] # None) =>
            Bytes(u) # None /\ Bytes(u)[k] = rows[u][k]

\* What /v/{code} serves is what was hashed: a published row always has its
\* file, with exactly the bytes of its digest.
PublishedIntact ==
    \A c \in Codes : image[c] # None => files[c] = image[c].sha

\* No published video has holes, a foreign container or another fingerprint.
PublishedVerified ==
    \A c \in Codes : image[c] # None =>
        /\ \A k \in Parts : image[c].sha[k] \in Blobs
        /\ image[c].sha[0] \in Videos
        /\ \A k \in Sampled : image[c].sha[k] = Declared[image[c].upload][k]

\* Retried and concurrent completions, and recoveries of them, publish an
\* upload once.
PublishedOnce ==
    \A c, d \in Codes :
        (image[c] # None /\ image[d] # None /\ image[c].upload = image[d].upload)
            => c = d

\* Only the loss of its owner makes a session fail: no sequence of faults,
\* crashes and recoveries leaves a session whose bytes cannot be found.
FailedOnlyWithoutOwner ==
    \A u \in Uploads : status[u] = "failed" => owner[u] \notin users

\* A PUT that was authorized before its session was cancelled never brings
\* the removed directory back (the comment in store_upload_part).
NoResurrectedDirectory ==
    [][\A u \in Uploads : (status[u] = "gone" /\ u \notin dir) => u \notin dir']_vars

\* At the moment of the commit: a request that publishes may still use the
\* session; a recovery publishes for an owner who may, with the scope on record.
CouldPublish(u) ==
    IF \E c \in Completers : pc[c] = "recording" /\ at[c] = u
    THEN \A c \in Completers :
           (pc[c] = "recording" /\ at[c] = u) =>
               /\ Actor[c] \in users
               /\ owner[u] = Actor[c] \/ GlobalAdmin(c)
               /\ MayEnter(c, team[u])
    ELSE /\ owner[u] \in users
         /\ \/ team[u] = None
            \/ team[u] \in teams /\ <<team[u], owner[u]>> \in members
            \/ team[u] \in teams /\ info[u].admin /\ owner[u] \in admins

\* No video appears on the strength of an authority that was revoked while
\* its hash ran or while the process was down.
PublishedWithAuthority ==
    [][\A u \in Uploads :
         (status[u] # "completed" /\ status'[u] = "completed") => CouldPublish(u)]_vars

\* A verification reads a file that nobody writes.
VerifiedFileFrozen ==
    [][\A u \in Uploads : (status[u] = "verifying" /\ status'[u] = "verifying")
         => source'[u] = source[u]]_vars

\* However its verification ends (a lost request, a crash, a failed commit),
\* a session does not stay locked against new parts (recover_verifying_session).
VerifyingSettles ==
    \A u \in Uploads : status[u] = "verifying" ~> status[u] # "verifying"

\* A publication interrupted around its move is finished or undone.
FinalizingSettles ==
    \A u \in Uploads : status[u] = "finalizing" ~> status[u] # "finalizing"

\* What a removal left of a session directory is removed by a later cleanup.
RetiredDirectoriesGo ==
    \A u \in Uploads : (status[u] = "gone" /\ u \in dir) ~> u \notin dir

\* README.md:124: completed media and unfinished reservations of a user stay
\* within the quota.
WithinQuota == \A x \in Users : UserUsage(x) <= UserQuota
=============================================================================
