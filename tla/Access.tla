------------------------------- MODULE Access -------------------------------
(***************************************************************************)
(* What a client may still present after it was revoked: the password and  *)
(* the JWTs of one account (app/api/routes/auth.py, admin.py,              *)
(* app/core/security.py), its API keys (app/api/routes/keys.py) and the    *)
(* signed links to one asset (app/services/signing.py, images.py,          *)
(* app/api/routes/library.py).                                             *)
(*                                                                         *)
(* Nothing that was issued is stored: a JWT or a link names the version of *)
(* the row it was issued from, and is good while that version is current.  *)
(* Some handlers run under the library lease and some do not; those that   *)
(* read a row and write it later are two actions.  The account is the one  *)
(* that startup configures.  OSS_JWT_SECRET is set, so that tokens outlive *)
(* a restart; tokens and links that merely expire are not modelled, and    *)
(* neither is who may administer the account or manage the asset.          *)
(***************************************************************************)
EXTENDS Integers, FiniteSets

CONSTANTS
    Passwords,    \* what may be typed as a password
    First,        \* the password of the account at first
    Configured,   \* OSS_ADMIN_PASSWORD
    Requests,     \* requests that take more than one step
    KeyLimit,     \* max_api_keys_per_user
    MaxVersion,   \* bound on auth_version
    MaxSigning,   \* bound on signing_version
    MaxKeyId,     \* bound on API key ids
    None

ASSUME AccessAssumption ==
    /\ First \in Passwords /\ Configured \in Passwords
    /\ None \notin Requests
    /\ KeyLimit \in Nat
    /\ MaxVersion \in Nat \ {0} /\ MaxSigning \in Nat \ {0} /\ MaxKeyId \in Nat

VARIABLES
    hash,       \* users.password_hash
    version,    \* users.auth_version
    admin,      \* users.role = "admin"
    lastSet,    \* history: the password last set on purpose
    tokens,     \* JWTs issued: version, password proved, revoked since
    keys,       \* ids of the live API keys
    counter,    \* runtime_counters["api_key_id"], 0 without a row
    recorded,   \* key ids that traffic_daily has rows of
    issued,     \* history: how many keys were given each id, 1 for those
                \* that the migration found used
    private,    \* images.visibility = "private"
    signing,    \* images.signing_version
    links,      \* signed links issued: version, revoked since
    lease,      \* holder of the library lease between two of its steps
    pc, held    \* each request's step, and the rows and arguments it holds

userVars == <<hash, version, admin, lastSet, tokens>>
keyVars == <<keys, counter, recorded, issued>>
mediaVars == <<private, signing, links>>
requestVars == <<lease, pc, held>>
vars == <<userVars, keyVars, mediaVars, requestVars>>

KeyIds == 1 .. MaxKeyId

\* A salted hash: two hashes of one password differ unless they were made for
\* the same row version, which happens once.
Hashes == [of : Passwords, legacy : BOOLEAN, salt : 1 .. MaxVersion]

\* Mutant: the password is stored as it was typed.
PlainHash(p, v) == p

Hash(p, v) == [of |-> p, legacy |-> FALSE, salt |-> v]
Tokens == [version : 1 .. MaxVersion, proved : Passwords, revoked : BOOLEAN]
Links == [version : 1 .. MaxSigning, revoked : BOOLEAN]

Revoked(S) == {[x EXCEPT !.revoked = TRUE] : x \in S}

\* _user_from_payload: the version inside the JWT is the one of the row.
Accepted(t) == t.version = version
SignedIn == \E t \in tokens : Accepted(t)

Nothing == [hash |-> None, version |-> 0, new |-> None, signing |-> 0]
Row == [hash |-> hash, version |-> version, new |-> None, signing |-> 0]

LeaseFree == lease = None
Go(r, step, what) == /\ pc' = [pc EXCEPT ![r] = step]
                     /\ held' = [held EXCEPT ![r] = what]
Finish(r) == Go(r, "idle", Nothing)

Init ==
    /\ hash = [of |-> First, legacy |-> TRUE, salt |-> 1]
    /\ version = 1
    /\ admin = TRUE
    /\ lastSet = First
    /\ tokens = {}
    /\ keys = {}
    \* The migration that makes the counter starts it at the highest id that a
    \* key or a traffic row has.
    /\ counter \in 0 .. MaxKeyId
    /\ recorded \in {{}} \cup {{k} : k \in 1 .. counter}   \* of keys long revoked
    /\ issued = [k \in KeyIds |-> IF k <= counter THEN 1 ELSE 0]
    /\ private \in BOOLEAN
    /\ signing = 1
    /\ links = {}
    /\ lease = None
    /\ pc = [r \in Requests |-> "idle"]
    /\ held = [r \in Requests |-> Nothing]

-----------------------------------------------------------------------------
(* POST /api/auth/login.  Of the passwords tried only the right one matters. *)

Token(p) == [version |-> version, proved |-> p, revoked |-> FALSE]

\* One read of the row gives both the hash that is verified and the version.
Login ==
    /\ ~hash.legacy
    /\ tokens' = tokens \cup {Token(hash.of)}
    /\ UNCHANGED <<hash, version, admin, lastSet, keyVars, mediaVars, requestVars>>

LoginVerifies(r) ==
    /\ pc[r] = "idle" /\ hash.legacy
    /\ Go(r, "upgrading", Row)
    /\ UNCHANGED <<userVars, keyVars, mediaVars, lease>>

RowUnchanged(r) == hash = held[r].hash /\ version = held[r].version

\* Mutant: the new hash is stored whatever has happened to the row.
UpgradeRegardless(r) ==
    /\ pc[r] = "upgrading"
    /\ hash' = Hash(held[r].hash.of, version)
    /\ Go(r, "upgraded", held[r])
    /\ UNCHANGED <<version, admin, lastSet, tokens, keyVars, mediaVars, lease>>

\* The compare-and-swap that replaces a hash of the old scheme.
LoginUpgrades(r) ==
    /\ pc[r] = "upgrading" /\ RowUnchanged(r)
    /\ hash' = Hash(held[r].hash.of, version)
    /\ Go(r, "upgraded", held[r])
    /\ UNCHANGED <<version, admin, lastSet, tokens, keyVars, mediaVars, lease>>

LoginRefused(r) ==
    /\ pc[r] = "upgrading" /\ ~RowUnchanged(r)
    /\ Finish(r)
    /\ UNCHANGED <<userVars, keyVars, mediaVars, lease>>

\* db.refresh(user), then the token.
LoginAnswers(r) ==
    /\ pc[r] = "upgraded"
    /\ tokens' = tokens \cup {Token(held[r].hash.of)}
    /\ Finish(r)
    /\ UNCHANGED <<hash, version, admin, lastSet, keyVars, mediaVars, lease>>

-----------------------------------------------------------------------------
(* POST /api/auth/change-password, without the lease *)

ChangeBegins(r, p) ==
    /\ pc[r] = "idle" /\ SignedIn
    /\ p # hash.of
    /\ Go(r, "changing", [Row EXCEPT !.new = p])
    /\ UNCHANGED <<userVars, keyVars, mediaVars, lease>>

\* One UPDATE writes the new hash and auth_version + 1.
SetPassword(p, v) ==
    /\ version < MaxVersion
    /\ hash' = Hash(p, v)
    /\ version' = v
    /\ lastSet' = p
    /\ tokens' = Revoked(tokens)

ChangeCommits(r) ==
    /\ pc[r] = "changing" /\ RowUnchanged(r)
    /\ SetPassword(held[r].new, version + 1)
    /\ Finish(r)
    /\ UNCHANGED <<admin, keyVars, mediaVars, lease>>

\* 409: the row is not the one that was verified.
ChangeRefused(r) ==
    /\ pc[r] = "changing" /\ ~RowUnchanged(r)
    /\ Finish(r)
    /\ UNCHANGED <<userVars, keyVars, mediaVars, lease>>

-----------------------------------------------------------------------------
(* PATCH /api/admin/users/{id}/password and /role, under the lease.  Both    *)
(* load the row and then increment its version in SQL.                       *)

AdminOpens(r, step, p) ==
    /\ pc[r] = "idle" /\ LeaseFree
    /\ lease' = r
    /\ Go(r, step, [Row EXCEPT !.new = p])
    /\ UNCHANGED <<userVars, keyVars, mediaVars>>

\* Mutant: the increment is computed from the row as it was loaded.
LoadedVersion(r) == held[r].version + 1

NextVersion(r) == version + 1

ResetCommits(r) ==
    /\ pc[r] = "resetting"
    /\ SetPassword(held[r].new, NextVersion(r))
    /\ lease' = None
    /\ Finish(r)
    /\ UNCHANGED <<admin, keyVars, mediaVars>>

RoleCommits(r) ==
    /\ pc[r] = "promoting"
    /\ version < MaxVersion
    /\ admin' = ~admin
    /\ version' = NextVersion(r)
    /\ tokens' = Revoked(tokens)
    /\ lease' = None
    /\ Finish(r)
    /\ UNCHANGED <<hash, lastSet, keyVars, mediaVars>>

\* The process ends, and ensure_admin runs before the next one serves: it sets
\* what differs from the configuration and revokes the JWTs if anything did.
Restart ==
    /\ LET same == hash.of = Configured
       IN IF same /\ admin
          THEN UNCHANGED userVars
          ELSE /\ version < MaxVersion
               /\ hash' = IF same THEN hash ELSE Hash(Configured, version + 1)
               /\ lastSet' = Configured
               /\ admin' = TRUE
               /\ version' = version + 1
               /\ tokens' = Revoked(tokens)
    /\ lease' = None
    /\ pc' = [r \in Requests |-> "idle"]
    /\ held' = [r \in Requests |-> Nothing]
    /\ UNCHANGED <<keyVars, mediaVars>>

-----------------------------------------------------------------------------
(* /api/keys: the JWT is judged first, then the request waits for the lease. *)

KeyRequested(r) ==
    /\ pc[r] = "idle" /\ SignedIn
    /\ Go(r, "keying", Nothing)
    /\ UNCHANGED <<userVars, keyVars, mediaVars, lease>>

Above(S) == {k \in KeyIds : \A i \in S : k > i}

\* Mutant: one above live keys and traffic rows, which are pruned.
NextUncountedKeyId == LET free == Above(keys \cup recorded)
                      IN {k \in free : \A i \in free : k <= i}

\* _next_api_key_id: one above live keys, traffic rows and the counter.
NextKeyId == LET free == Above(keys \cup recorded \cup {counter})
             IN {k \in free : \A i \in free : k <= i}

Created(k) == /\ counter' = k
              /\ issued' = [issued EXCEPT ![k] = @ + 1]

CreateKey(r, k) ==
    /\ pc[r] = "keying" /\ LeaseFree
    /\ Cardinality(keys) < KeyLimit
    /\ k \in NextKeyId
    /\ keys' = keys \cup {k}
    /\ Created(k)
    /\ Finish(r)
    /\ UNCHANGED <<userVars, recorded, mediaVars, lease>>

RotateKey(r, old, k) ==
    /\ pc[r] = "keying" /\ LeaseFree
    /\ old \in keys /\ k \in NextKeyId
    /\ keys' = (keys \ {old}) \cup {k}
    /\ Created(k)
    /\ Finish(r)
    /\ UNCHANGED <<userVars, recorded, mediaVars, lease>>

RevokeKey(r, k) ==
    /\ pc[r] = "keying" /\ LeaseFree
    /\ k \in keys
    /\ keys' = keys \ {k}
    /\ Finish(r)
    /\ UNCHANGED <<userVars, counter, recorded, issued, mediaVars, lease>>

\* 404 or 409
KeyRefused(r) ==
    /\ pc[r] = "keying" /\ LeaseFree
    /\ Finish(r)
    /\ UNCHANGED <<userVars, keyVars, mediaVars, lease>>

\* The traffic writer records a request made with the key, which may have been
\* revoked while the event waited.
KeyUsed(k) ==
    /\ issued[k] > 0
    /\ recorded' = recorded \cup {k}
    /\ UNCHANGED <<userVars, keys, counter, issued, mediaVars, requestVars>>

\* Rows older than the retention are pruned, and those of a deleted account
\* removed with it (admin.py delete_user).
TrafficRemoved ==
    /\ \E rest \in SUBSET recorded : recorded' = rest
    /\ UNCHANGED <<userVars, keys, counter, issued, mediaVars, requestVars>>

-----------------------------------------------------------------------------
(* Signed links *)

\* GET .../link of a private asset, and of any image in the gallery.
IssueLink ==
    /\ links' = links \cup {[version |-> signing, revoked |-> FALSE]}
    /\ UNCHANGED <<userVars, keyVars, private, signing, requestVars>>

\* Mutant: the lease is not taken around reading and writing the row.
MediaOpensUnleased(r, step) ==
    /\ pc[r] = "idle" /\ signing < MaxSigning
    /\ lease' = lease
    /\ Go(r, step, [Nothing EXCEPT !.signing = signing])
    /\ UNCHANGED <<userVars, keyVars, mediaVars>>

\* update_media_metadata and revoke_media_links load the row under the lease...
MediaOpens(r, step) ==
    /\ pc[r] = "idle" /\ LeaseFree /\ signing < MaxSigning
    /\ lease' = r
    /\ Go(r, step, [Nothing EXCEPT !.signing = signing])
    /\ UNCHANGED <<userVars, keyVars, mediaVars>>

\* ... and write the version they loaded, plus one.
RevokeLinks(r) ==
    /\ signing' = held[r].signing + 1
    /\ links' = Revoked(links)

MediaDone(r) == /\ lease' = IF lease = r THEN None ELSE lease
                /\ Finish(r)
                /\ UNCHANGED <<userVars, keyVars>>

LinksRevoked(r) ==
    /\ pc[r] = "revoking"
    /\ RevokeLinks(r)
    /\ MediaDone(r)
    /\ UNCHANGED private

MadePrivate(r) ==
    /\ pc[r] = "hiding"
    /\ private' = TRUE
    /\ IF private THEN UNCHANGED <<signing, links>> ELSE RevokeLinks(r)
    /\ MediaDone(r)

MadePublic(r) ==
    /\ pc[r] = "publishing"
    /\ private' = FALSE
    /\ MediaDone(r)
    /\ UNCHANGED <<signing, links>>

-----------------------------------------------------------------------------
LoginStep(r) == \/ LoginVerifies(r) \/ LoginUpgrades(r) \/ LoginRefused(r)
                \/ LoginAnswers(r)

PasswordStep(r) ==
    \/ \E p \in Passwords : ChangeBegins(r, p)
    \/ ChangeCommits(r) \/ ChangeRefused(r)
    \/ \E p \in Passwords : AdminOpens(r, "resetting", p)
    \/ ResetCommits(r)
    \/ AdminOpens(r, "promoting", None)
    \/ RoleCommits(r)

KeyStep(r) ==
    \/ KeyRequested(r) \/ KeyRefused(r)
    \/ \E k \in KeyIds : CreateKey(r, k) \/ RevokeKey(r, k)
    \/ \E k, old \in KeyIds : RotateKey(r, old, k)

MediaStep(r) ==
    \/ \E step \in {"revoking", "hiding", "publishing"} : MediaOpens(r, step)
    \/ LinksRevoked(r) \/ MadePrivate(r) \/ MadePublic(r)

Next ==
    \/ \E r \in Requests :
         LoginStep(r) \/ PasswordStep(r) \/ KeyStep(r) \/ MediaStep(r)
    \/ Login \/ Restart \/ IssueLink \/ TrafficRemoved
    \/ \E k \in KeyIds : KeyUsed(k)

Spec == Init /\ [][Next]_vars

-----------------------------------------------------------------------------
(* Properties *)

Steps == {"idle", "upgrading", "upgraded", "changing", "resetting",
          "promoting", "keying", "revoking", "hiding", "publishing"}

\* The types of the rows, of what was issued and of what requests hold.
TypeOK ==
    /\ hash \in Hashes /\ version \in 1 .. MaxVersion /\ admin \in BOOLEAN
    /\ lastSet \in Passwords /\ tokens \subseteq Tokens
    /\ keys \subseteq KeyIds /\ counter \in 0 .. MaxKeyId
    /\ recorded \subseteq KeyIds /\ issued \in [KeyIds -> Nat]
    /\ private \in BOOLEAN /\ signing \in 1 .. MaxSigning /\ links \subseteq Links
    /\ lease \in Requests \cup {None}
    /\ pc \in [Requests -> Steps]
    /\ held \in [Requests -> [hash : Hashes \cup {None}, version : 0 .. MaxVersion,
                              new : Passwords \cup {None}, signing : 0 .. MaxSigning]]

\* A password set by its owner, by an administrator or by startup stays until
\* one of them sets another: the hash upgrade of a login that verified the
\* replaced one never brings that back.
PasswordLastSet == hash.of = lastSet

\* A change of password or role revokes every JWT issued before it, also when
\* several changes run side by side.
RevokedTokensRefused == \A t \in tokens : t.revoked => ~Accepted(t)

\* Revoking the links of an asset, or making it private, ends every link
\* issued before, however such updates overlap.
RevokedLinksRefused == \A l \in links : l.revoked => l.version # signing

\* An API key id that ever named a key never names another, so that no key
\* inherits the traffic of a revoked one, not even what is recorded of it after
\* older rows were pruned.
KeyIdsFresh == \A k \in KeyIds : issued[k] <= 1

\* auth.py:120-123: a login with an old password never receives a token; so
\* every JWT the API accepts was given for the current password.
TokensProvePassword == \A t \in tokens : Accepted(t) => t.proved = hash.of
=============================================================================
