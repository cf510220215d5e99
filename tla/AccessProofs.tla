---------------------------- MODULE AccessProofs ----------------------------
(***************************************************************************)
(* What Access keeps, for any passwords, requests and limits.  The rows of *)
(* the account, of its keys and of the asset are written by different      *)
(* actions, so the invariant has a part for each, and one for what the     *)
(* requests hold between two steps.                                        *)
(***************************************************************************)
EXTENDS Access, TLAPS

\* A JWT never names a version that is still to come, and a revoked one never
\* the version that is current.
TokensBehind == \A t \in tokens : /\ t.version <= version
                                  /\ t.revoked => t.version < version

UserInv == /\ hash \in Hashes /\ version \in 1 .. MaxVersion /\ admin \in BOOLEAN
           /\ lastSet \in Passwords /\ tokens \subseteq Tokens
           /\ PasswordLastSet /\ TokensBehind

\* An id that was given to a key stays covered by the counter, whatever becomes
\* of its key and of its traffic.
IdsCovered == \A k \in KeyIds : issued[k] > 0 => k <= counter

KeyInv == /\ keys \subseteq KeyIds /\ counter \in 0 .. MaxKeyId
          /\ recorded \subseteq KeyIds /\ issued \in [KeyIds -> Nat]
          /\ IdsCovered /\ KeyIdsFresh

LinksBehind == \A l \in links : /\ l.version <= signing
                                /\ l.revoked => l.version < signing

MediaInv == /\ private \in BOOLEAN /\ signing \in 1 .. MaxSigning
            /\ links \subseteq Links
            /\ LinksBehind

\* Everything a request may hold.
Carried == [hash : Hashes \cup {None}, version : 0 .. MaxVersion,
            new : Passwords \cup {None}, signing : 0 .. MaxSigning]

OnUser  == {"resetting", "promoting"}
OnMedia == {"revoking", "hiding", "publishing"}

\* Whoever is about to write a row it has loaded holds the lease; the row of the
\* asset it loaded is therefore the current one.
WritesCurrent ==
    \A r \in Requests :
        /\ pc[r] \in OnUser => lease = r
        /\ pc[r] \in OnMedia =>
             lease = r /\ held[r].signing = signing /\ signing < MaxSigning

\* What requests carry from one step to the next.
HoldsArguments ==
    \A r \in Requests :
        /\ pc[r] \in {"upgrading", "upgraded"} => held[r].hash \in Hashes
        /\ pc[r] \in {"changing", "resetting"} => held[r].new \in Passwords

RequestInv == /\ lease \in Requests \cup {None}
              /\ pc \in [Requests -> Steps] /\ held \in [Requests -> Carried]
              /\ WritesCurrent /\ HoldsArguments

IInv == UserInv /\ KeyInv /\ MediaInv /\ RequestInv

-----------------------------------------------------------------------------
(* Records and sets of records *)

LEMMA RevokedTokens ==
    ASSUME NEW S, S \subseteq Tokens
    PROVE  /\ Revoked(S) \subseteq Tokens
           /\ \A y \in Revoked(S) : \E x \in S : y.version = x.version
  BY DEF Revoked, Tokens

LEMMA RevokedLinks ==
    ASSUME NEW S, S \subseteq Links
    PROVE  /\ Revoked(S) \subseteq Links
           /\ \A y \in Revoked(S) : \E x \in S : y.version = x.version
  BY DEF Revoked, Links

LEMMA HashType ==
    ASSUME NEW p \in Passwords, NEW v \in 1 .. MaxVersion
    PROVE  Hash(p, v) \in Hashes /\ Hash(p, v).of = p
  BY DEF Hash, Hashes

LEMMA TokenType ==
    ASSUME UserInv, NEW p \in Passwords
    PROVE  Token(p) \in Tokens /\ Token(p).version = version /\ ~Token(p).revoked
  BY DEF UserInv, Token, Tokens

LEMMA NothingType == Nothing \in Carried
  BY AccessAssumption DEF Nothing, Carried

LEMMA RowType ==
    ASSUME UserInv, NEW p \in Passwords \cup {None}
    PROVE  /\ Row \in Carried /\ Row.hash = hash
           /\ [Row EXCEPT !.new = p] \in Carried /\ [Row EXCEPT !.new = p].new = p
  BY AccessAssumption DEF Row, Carried, UserInv

LEMMA SigningType ==
    ASSUME MediaInv
    PROVE  /\ [Nothing EXCEPT !.signing = signing] \in Carried
           /\ [Nothing EXCEPT !.signing = signing].signing = signing
  BY AccessAssumption DEF Nothing, Carried, MediaInv

-----------------------------------------------------------------------------
(* Every action keeps the invariant. *)

LEMMA InitHolds == ASSUME Init PROVE IInv
<1>1. UserInv
  BY AccessAssumption DEF Init, UserInv, Hashes, PasswordLastSet, TokensBehind
<1>2. KeyInv
  BY AccessAssumption DEF Init, KeyInv, KeyIds, IdsCovered, KeyIdsFresh
<1>3. MediaInv
  BY AccessAssumption DEF Init, MediaInv, LinksBehind
<1>4. RequestInv
  BY NothingType DEF Init, RequestInv, WritesCurrent, HoldsArguments, Steps, OnUser, OnMedia
<1> QED BY <1>1, <1>2, <1>3, <1>4 DEF IInv

-----------------------------------------------------------------------------
(* The account *)

LEMMA UserKept == ASSUME UserInv, UNCHANGED userVars PROVE UserInv'
  BY DEF UserInv, PasswordLastSet, TokensBehind, userVars

\* A write of auth_version + 1 revokes the tokens issued so far.
LEMMA VersionWritten ==
    ASSUME UserInv, version < MaxVersion, version' = version + 1,
           tokens' = Revoked(tokens)
    PROVE  version' \in 1 .. MaxVersion /\ tokens' \subseteq Tokens /\ TokensBehind'
<1>1. tokens' \subseteq Tokens /\ \A t \in tokens' : \E x \in tokens : t.version = x.version
  BY RevokedTokens DEF UserInv
<1>2. \A t \in tokens' : t.version \in Int /\ t.version < version'
  BY <1>1 DEF UserInv, TokensBehind, Tokens
<1>3. version' \in 1 .. MaxVersion /\ version' \in Int
  BY AccessAssumption DEF UserInv
<1> QED BY <1>1, <1>2, <1>3 DEF TokensBehind

LEMMA PasswordSet ==
    ASSUME UserInv, NEW p \in Passwords, SetPassword(p, version + 1), admin' \in BOOLEAN
    PROVE  UserInv'
<1>1. /\ version < MaxVersion /\ version' = version + 1 /\ lastSet' = p
      /\ tokens' = Revoked(tokens) /\ hash' = Hash(p, version + 1)
  BY DEF SetPassword
<1>2. version' \in 1 .. MaxVersion /\ tokens' \subseteq Tokens /\ TokensBehind'
  BY <1>1, VersionWritten
<1>3. hash' \in Hashes /\ hash'.of = p
  BY <1>1, <1>2, HashType
<1> QED BY <1>1, <1>2, <1>3 DEF UserInv, PasswordLastSet

LEMMA TokenIssued ==
    ASSUME UserInv, NEW p \in Passwords, tokens' = tokens \cup {Token(p)},
           UNCHANGED <<hash, version, admin, lastSet>>
    PROVE  UserInv'
<1>1. tokens' \subseteq Tokens
  BY TokenType DEF UserInv
<1>2. TokensBehind'
  BY TokenType DEF UserInv, TokensBehind
<1> QED BY <1>1, <1>2 DEF UserInv, PasswordLastSet

LEMMA UserStep == ASSUME IInv, Next PROVE UserInv'
<1> USE DEF IInv
<1>1. CASE Login
  <2>1. hash.of \in Passwords
    BY DEF UserInv, Hashes
  <2> QED BY <1>1, <2>1, TokenIssued DEF Login
<1>2. ASSUME NEW r \in Requests, LoginUpgrades(r) PROVE UserInv'
  <2>1. /\ hash' = Hash(hash.of, version) /\ UNCHANGED <<version, admin, lastSet, tokens>>
    BY <1>2 DEF LoginUpgrades, RowUnchanged
  <2>2. hash' \in Hashes /\ hash'.of = hash.of
    BY <2>1, HashType DEF UserInv, Hashes
  <2> QED BY <2>1, <2>2 DEF UserInv, PasswordLastSet, TokensBehind
<1>3. ASSUME NEW r \in Requests, LoginAnswers(r) PROVE UserInv'
  <2>1. held[r].hash.of \in Passwords
    BY <1>3 DEF LoginAnswers, RequestInv, HoldsArguments, Hashes
  <2> QED BY <1>3, <2>1, TokenIssued DEF LoginAnswers
<1>4. ASSUME NEW r \in Requests, ChangeCommits(r) PROVE UserInv'
  <2>1. held[r].new \in Passwords /\ admin' \in BOOLEAN
    BY <1>4 DEF ChangeCommits, RequestInv, HoldsArguments, UserInv
  <2> QED BY <1>4, <2>1, PasswordSet DEF ChangeCommits
<1>5. ASSUME NEW r \in Requests, ResetCommits(r) PROVE UserInv'
  <2>1. held[r].new \in Passwords /\ admin' \in BOOLEAN
    BY <1>5 DEF ResetCommits, RequestInv, HoldsArguments, UserInv
  <2> QED BY <1>5, <2>1, PasswordSet DEF ResetCommits, NextVersion
<1>6. ASSUME NEW r \in Requests, RoleCommits(r) PROVE UserInv'
  <2>1. version' \in 1 .. MaxVersion /\ tokens' \subseteq Tokens /\ TokensBehind'
    BY <1>6, VersionWritten DEF RoleCommits, NextVersion
  <2> QED BY <1>6, <2>1 DEF RoleCommits, UserInv, PasswordLastSet
<1>7. CASE Restart
  <2>1. CASE hash.of = Configured /\ admin
    BY <1>7, <2>1, UserKept DEF Restart
  <2>2. CASE hash.of # Configured
    <3>1. SetPassword(Configured, version + 1) /\ admin' = TRUE
      BY <1>7, <2>2 DEF Restart, SetPassword
    <3> QED BY <3>1, PasswordSet, AccessAssumption
  <2>3. CASE hash.of = Configured /\ ~admin
    <3>1. /\ version < MaxVersion /\ version' = version + 1 /\ tokens' = Revoked(tokens)
          /\ hash' = hash /\ lastSet' = Configured /\ admin' = TRUE
      BY <1>7, <2>3 DEF Restart
    <3> QED BY <2>3, <3>1, VersionWritten, AccessAssumption DEF UserInv, PasswordLastSet
  <2> QED BY <2>1, <2>2, <2>3
<1>8. CASE UNCHANGED userVars
  BY <1>8, UserKept
<1>9. ASSUME NEW r \in Requests, LoginStep(r) PROVE UserInv'
  BY <1>9, <1>2, <1>3, <1>8 DEF LoginStep, LoginVerifies, LoginRefused
<1>10. ASSUME NEW r \in Requests, PasswordStep(r) PROVE UserInv'
  BY <1>10, <1>4, <1>5, <1>6, <1>8 DEF PasswordStep, ChangeBegins, ChangeRefused, AdminOpens
<1>11. ASSUME NEW r \in Requests, KeyStep(r) PROVE UserInv'
  BY <1>11, <1>8 DEF KeyStep, KeyRequested, KeyRefused, CreateKey, RevokeKey, RotateKey
<1>12. ASSUME NEW r \in Requests, MediaStep(r) PROVE UserInv'
  BY <1>12, <1>8 DEF MediaStep, MediaOpens, LinksRevoked, MadePrivate, MadePublic, MediaDone
<1> QED
  BY <1>1, <1>7, <1>8, <1>9, <1>10, <1>11, <1>12 DEF Next, IssueLink, KeyUsed, TrafficRemoved

-----------------------------------------------------------------------------
(* API keys *)

LEMMA KeyKept == ASSUME KeyInv, UNCHANGED keyVars PROVE KeyInv'
  BY DEF KeyInv, IdsCovered, KeyIdsFresh, keyVars

\* The id chosen is above the counter, and so above every id ever given.
LEMMA NextIdUnused ==
    ASSUME KeyInv, NEW k \in NextKeyId
    PROVE  k \in KeyIds /\ k > counter /\ issued[k] = 0
<1>1. k \in KeyIds /\ k > counter
  BY DEF NextKeyId, Above
<1> QED BY <1>1 DEF KeyInv, IdsCovered, KeyIds

LEMMA KeyGiven ==
    ASSUME KeyInv, NEW k \in NextKeyId, Created(k), keys' \subseteq KeyIds,
           UNCHANGED recorded
    PROVE  KeyInv'
<1>1. /\ k \in KeyIds /\ k > counter /\ issued[k] = 0
      /\ counter' = k /\ issued' = [issued EXCEPT ![k] = @ + 1]
  BY NextIdUnused DEF Created
<1>2. counter' \in 0 .. MaxKeyId /\ issued' \in [KeyIds -> Nat]
  BY <1>1 DEF KeyInv, KeyIds
<1>3. \A i \in KeyIds : issued'[i] = IF i = k THEN 1 ELSE issued[i]
  BY <1>1 DEF KeyInv
<1>4. IdsCovered' /\ KeyIdsFresh'
  BY <1>1, <1>3 DEF KeyInv, IdsCovered, KeyIdsFresh, KeyIds
<1> QED BY <1>2, <1>4 DEF KeyInv

LEMMA KeyStepKeeps == ASSUME IInv, Next PROVE KeyInv'
<1> USE DEF IInv
<1>1. ASSUME NEW r \in Requests, NEW k \in KeyIds, CreateKey(r, k) PROVE KeyInv'
  BY <1>1, KeyGiven DEF CreateKey, KeyInv
<1>2. ASSUME NEW r \in Requests, NEW k \in KeyIds, NEW old \in KeyIds, RotateKey(r, old, k)
      PROVE  KeyInv'
  BY <1>2, KeyGiven DEF RotateKey, KeyInv
<1>3. ASSUME NEW r \in Requests, NEW k \in KeyIds, RevokeKey(r, k) PROVE KeyInv'
  BY <1>3 DEF RevokeKey, KeyInv, IdsCovered, KeyIdsFresh
<1>4. ASSUME NEW k \in KeyIds, KeyUsed(k) PROVE KeyInv'
  BY <1>4 DEF KeyUsed, KeyInv, IdsCovered, KeyIdsFresh
<1>5. CASE UNCHANGED keyVars
  BY <1>5, KeyKept
<1>6. ASSUME NEW r \in Requests, LoginStep(r) PROVE KeyInv'
  BY <1>6, <1>5 DEF LoginStep, LoginVerifies, LoginUpgrades, LoginRefused, LoginAnswers
<1>7. ASSUME NEW r \in Requests, PasswordStep(r) PROVE KeyInv'
  BY <1>7, <1>5 DEF PasswordStep, ChangeBegins, ChangeCommits, ChangeRefused, AdminOpens,
     ResetCommits, RoleCommits
<1>8. ASSUME NEW r \in Requests, KeyStep(r) PROVE KeyInv'
  BY <1>8, <1>1, <1>2, <1>3, <1>5 DEF KeyStep, KeyRequested, KeyRefused
<1>9. ASSUME NEW r \in Requests, MediaStep(r) PROVE KeyInv'
  BY <1>9, <1>5 DEF MediaStep, MediaOpens, LinksRevoked, MadePrivate, MadePublic, MediaDone
<1>10. CASE TrafficRemoved
  BY <1>10 DEF TrafficRemoved, KeyInv, IdsCovered, KeyIdsFresh
<1> QED
  BY <1>4, <1>5, <1>6, <1>7, <1>8, <1>9, <1>10 DEF Next, Login, Restart, IssueLink

-----------------------------------------------------------------------------
(* Signed links *)

LEMMA MediaKept == ASSUME MediaInv, UNCHANGED mediaVars PROVE MediaInv'
  BY DEF MediaInv, LinksBehind, mediaVars

LEMMA VersionRevoked ==
    ASSUME IInv, NEW r \in Requests, pc[r] \in OnMedia, RevokeLinks(r), private' \in BOOLEAN
    PROVE  MediaInv'
<1>1. /\ signing' = signing + 1 /\ signing < MaxSigning /\ links' = Revoked(links)
  BY DEF RevokeLinks, IInv, RequestInv, WritesCurrent
<1>2. links' \subseteq Links /\ \A l \in links' : \E x \in links : l.version = x.version
  BY <1>1, RevokedLinks DEF IInv, MediaInv
<1>3. \A l \in links' : l.version \in Int /\ l.version < signing'
  BY <1>1, <1>2 DEF IInv, MediaInv, LinksBehind, Links
<1>4. signing' \in 1 .. MaxSigning /\ signing' \in Int
  BY <1>1, AccessAssumption DEF IInv, MediaInv
<1> QED BY <1>2, <1>3, <1>4 DEF MediaInv, LinksBehind

LEMMA MediaStepKeeps == ASSUME IInv, Next PROVE MediaInv'
<1> USE DEF IInv
<1>1. ASSUME NEW r \in Requests, LinksRevoked(r) PROVE MediaInv'
  BY <1>1, VersionRevoked DEF LinksRevoked, OnMedia, MediaInv
<1>2. ASSUME NEW r \in Requests, MadePrivate(r) PROVE MediaInv'
  <2>1. CASE private
    BY <1>2, <2>1, MediaKept DEF MadePrivate, MediaInv, LinksBehind
  <2>2. CASE ~private
    BY <1>2, <2>2, VersionRevoked DEF MadePrivate, OnMedia
  <2> QED BY <2>1, <2>2
<1>3. ASSUME NEW r \in Requests, MadePublic(r) PROVE MediaInv'
  BY <1>3 DEF MadePublic, MediaInv, LinksBehind
<1>4. CASE IssueLink
  <2>1. signing \in 1 .. MaxSigning /\ links' = links \cup {[version |-> signing, revoked |-> FALSE]}
    BY <1>4 DEF IssueLink, MediaInv
  <2>2. links' \subseteq Links
    <3>1. [version |-> signing, revoked |-> FALSE] \in Links
      BY <2>1 DEF Links
    <3> QED BY <2>1, <3>1 DEF MediaInv
  <2>3. LinksBehind'
    BY <1>4, <2>1 DEF IssueLink, MediaInv, LinksBehind
  <2> QED BY <1>4, <2>2, <2>3 DEF IssueLink, MediaInv
<1>5. CASE UNCHANGED mediaVars
  BY <1>5, MediaKept
<1>6. ASSUME NEW r \in Requests, LoginStep(r) PROVE MediaInv'
  BY <1>6, <1>5 DEF LoginStep, LoginVerifies, LoginUpgrades, LoginRefused, LoginAnswers
<1>7. ASSUME NEW r \in Requests, PasswordStep(r) PROVE MediaInv'
  BY <1>7, <1>5 DEF PasswordStep, ChangeBegins, ChangeCommits, ChangeRefused, AdminOpens,
     ResetCommits, RoleCommits
<1>8. ASSUME NEW r \in Requests, KeyStep(r) PROVE MediaInv'
  BY <1>8, <1>5 DEF KeyStep, KeyRequested, KeyRefused, CreateKey, RevokeKey, RotateKey
<1>9. ASSUME NEW r \in Requests, MediaStep(r) PROVE MediaInv'
  BY <1>9, <1>1, <1>2, <1>3, <1>5 DEF MediaStep, MediaOpens
<1> QED
  BY <1>4, <1>5, <1>6, <1>7, <1>8, <1>9 DEF Next, Login, Restart, KeyUsed,
     TrafficRemoved

-----------------------------------------------------------------------------
(* What requests hold *)

\* One request moves; the others keep the lease and the row they loaded.
LEMMA RequestMoves ==
    ASSUME RequestInv, NEW r \in Requests, NEW step \in Steps, NEW what \in Carried,
           Go(r, step, what),
           lease' \in Requests \cup {None},
           \A q \in Requests : q # r /\ pc[q] \in OnUser \cup OnMedia =>
               lease' = lease /\ signing' = signing,
           step \in OnUser \cup OnMedia => lease' = r,
           step \in OnMedia => what.signing = signing' /\ signing' < MaxSigning,
           step \in {"upgrading", "upgraded"} => what.hash \in Hashes,
           step \in {"changing", "resetting"} => what.new \in Passwords
    PROVE  RequestInv'
<1>1. /\ pc' \in [Requests -> Steps] /\ held' \in [Requests -> Carried]
      /\ pc'[r] = step /\ held'[r] = what
      /\ \A q \in Requests : q # r => pc'[q] = pc[q] /\ held'[q] = held[q]
  BY DEF Go, RequestInv
<1>2. WritesCurrent'
  <2> SUFFICES ASSUME NEW q \in Requests
               PROVE  /\ pc'[q] \in OnUser => lease' = q
                      /\ pc'[q] \in OnMedia => /\ lease' = q
                                               /\ held'[q].signing = signing'
                                               /\ signing' < MaxSigning
    BY DEF WritesCurrent
  <2>1. CASE q = r
    BY <1>1, <2>1
  <2>2. CASE q # r
    BY <1>1, <2>2 DEF RequestInv, WritesCurrent
  <2> QED BY <2>1, <2>2
<1>3. HoldsArguments'
  BY <1>1 DEF RequestInv, HoldsArguments
<1> QED BY <1>1, <1>2, <1>3 DEF RequestInv

LEMMA RequestEnds ==
    ASSUME RequestInv, NEW r \in Requests, Finish(r),
           lease' = lease \/ (lease = r /\ lease' = None),
           signing' = signing \/ lease = r
    PROVE  RequestInv'
<1>1. "idle" \in Steps /\ "idle" \notin OnUser \cup OnMedia
  BY DEF Steps, OnUser, OnMedia
<1>2. \A q \in Requests : q # r /\ pc[q] \in OnUser \cup OnMedia =>
          lease' = lease /\ signing' = signing
  BY DEF RequestInv, WritesCurrent
<1>3. lease' \in Requests \cup {None}
  BY DEF RequestInv
<1> QED BY <1>1, <1>2, <1>3, NothingType, RequestMoves DEF Finish

LEMMA RequestKept ==
    ASSUME RequestInv, UNCHANGED <<requestVars, signing>> PROVE RequestInv'
  BY DEF RequestInv, WritesCurrent, HoldsArguments, requestVars

LEMMA LoginRequests ==
    ASSUME IInv, NEW r \in Requests, LoginStep(r) PROVE RequestInv'
<1> USE DEF IInv, userVars, keyVars, mediaVars
<1>1. lease \in Requests \cup {None} /\ Row \in Carried /\ Row.hash \in Hashes
  BY RowType DEF RequestInv, UserInv
<1>2. CASE LoginVerifies(r)
  BY <1>1, <1>2, RequestMoves DEF LoginVerifies, Steps, OnUser, OnMedia
<1>3. CASE LoginUpgrades(r)
  <2>1. held[r] \in Carried /\ held[r].hash \in Hashes
    BY <1>3 DEF LoginUpgrades, RequestInv, HoldsArguments
  <2> QED BY <1>1, <1>3, <2>1, RequestMoves DEF LoginUpgrades, Steps, OnUser, OnMedia
<1>4. CASE LoginRefused(r)
  BY <1>4, RequestEnds DEF LoginRefused
<1>5. CASE LoginAnswers(r)
  BY <1>5, RequestEnds DEF LoginAnswers
<1> QED BY <1>2, <1>3, <1>4, <1>5 DEF LoginStep

LEMMA AdminRequests ==
    ASSUME IInv, NEW r \in Requests, NEW step \in OnUser,
           NEW p \in Passwords \cup {None}, step = "resetting" => p \in Passwords,
           AdminOpens(r, step, p)
    PROVE  RequestInv'
<1>1. [Row EXCEPT !.new = p] \in Carried /\ [Row EXCEPT !.new = p].new = p
  BY RowType DEF IInv
<1>2. /\ lease = None /\ lease' = r /\ signing' = signing
      /\ Go(r, step, [Row EXCEPT !.new = p])
  BY DEF AdminOpens, LeaseFree, mediaVars
<1>3. step \in Steps /\ step \notin OnMedia \cup {"upgrading", "upgraded", "changing"}
  BY DEF Steps, OnUser, OnMedia
<1>4. \A q \in Requests : pc[q] \notin OnUser \cup OnMedia
  BY <1>2, AccessAssumption DEF IInv, RequestInv, WritesCurrent
<1> QED BY <1>1, <1>2, <1>3, <1>4, RequestMoves DEF IInv

LEMMA PasswordRequests ==
    ASSUME IInv, NEW r \in Requests, PasswordStep(r) PROVE RequestInv'
<1> USE DEF IInv
<1>1. ASSUME NEW p \in Passwords, ChangeBegins(r, p) PROVE RequestInv'
  <2>1. [Row EXCEPT !.new = p] \in Carried /\ [Row EXCEPT !.new = p].new = p
    BY RowType
  <2>2. /\ Go(r, "changing", [Row EXCEPT !.new = p])
        /\ lease' = lease /\ signing' = signing /\ lease \in Requests \cup {None}
    BY <1>1 DEF ChangeBegins, RequestInv, mediaVars
  <2> QED BY <2>1, <2>2, RequestMoves DEF Steps, OnUser, OnMedia
<1>2. CASE ChangeCommits(r) \/ ChangeRefused(r)
  BY <1>2, RequestEnds DEF ChangeCommits, ChangeRefused, mediaVars
<1>3. CASE ResetCommits(r) \/ RoleCommits(r)
  <2>1. lease = r
    BY <1>3 DEF ResetCommits, RoleCommits, RequestInv, WritesCurrent, OnUser
  <2> QED BY <1>3, <2>1, RequestEnds DEF ResetCommits, RoleCommits, mediaVars
<1>4. ASSUME NEW p \in Passwords, AdminOpens(r, "resetting", p) PROVE RequestInv'
  BY <1>4, AdminRequests DEF OnUser
<1>5. CASE AdminOpens(r, "promoting", None)
  BY <1>5, AdminRequests DEF OnUser
<1> QED BY <1>1, <1>2, <1>3, <1>4, <1>5 DEF PasswordStep

LEMMA KeyRequests ==
    ASSUME IInv, NEW r \in Requests, KeyStep(r) PROVE RequestInv'
<1> USE DEF IInv
<1>1. CASE KeyRequested(r)
  <2>1. Go(r, "keying", Nothing) /\ lease' = lease /\ signing' = signing
        /\ lease \in Requests \cup {None}
    BY <1>1 DEF KeyRequested, RequestInv, mediaVars
  <2> QED BY <2>1, NothingType, RequestMoves DEF Steps, OnUser, OnMedia
<1>2. CASE KeyRefused(r)
  BY <1>2, RequestEnds DEF KeyRefused, mediaVars
<1>3. ASSUME NEW k \in KeyIds, CreateKey(r, k) \/ RevokeKey(r, k) PROVE RequestInv'
  BY <1>3, RequestEnds DEF CreateKey, RevokeKey, mediaVars
<1>4. ASSUME NEW k \in KeyIds, NEW old \in KeyIds, RotateKey(r, old, k) PROVE RequestInv'
  BY <1>4, RequestEnds DEF RotateKey, mediaVars
<1> QED BY <1>1, <1>2, <1>3, <1>4 DEF KeyStep

LEMMA MediaRequests ==
    ASSUME IInv, NEW r \in Requests, MediaStep(r) PROVE RequestInv'
<1> USE DEF IInv
<1>1. ASSUME NEW step \in OnMedia, MediaOpens(r, step) PROVE RequestInv'
  <2>1. /\ lease = None /\ lease' = r /\ signing' = signing /\ signing < MaxSigning
        /\ Go(r, step, [Nothing EXCEPT !.signing = signing])
    BY <1>1 DEF MediaOpens, LeaseFree, mediaVars
  <2>2. /\ step \in Steps
        /\ step \notin OnUser \cup {"upgrading", "upgraded", "changing", "resetting"}
    BY DEF Steps, OnUser, OnMedia
  <2>3. \A q \in Requests : pc[q] \notin OnUser \cup OnMedia
    BY <2>1, AccessAssumption DEF RequestInv, WritesCurrent
  <2> QED BY <2>1, <2>2, <2>3, SigningType, RequestMoves
<1>2. CASE LinksRevoked(r) \/ MadePrivate(r) \/ MadePublic(r)
  <2>1. pc[r] \in OnMedia /\ MediaDone(r)
    BY <1>2 DEF LinksRevoked, MadePrivate, MadePublic, OnMedia
  <2>2. lease = r /\ lease' = None /\ Finish(r)
    BY <2>1 DEF MediaDone, RequestInv, WritesCurrent
  <2> QED BY <2>2, RequestEnds
<1> QED BY <1>1, <1>2 DEF MediaStep, OnMedia

LEMMA RequestStep == ASSUME IInv, Next PROVE RequestInv'
<1> USE DEF IInv
<1>1. CASE Restart
  BY <1>1, NothingType DEF Restart, RequestInv, WritesCurrent, HoldsArguments, Steps,
     OnUser, OnMedia
<1>2. CASE Login
  BY <1>2, RequestKept DEF Login, mediaVars
<1>3. CASE IssueLink
  BY <1>3, RequestKept DEF IssueLink
<1>4. ASSUME TrafficRemoved \/ \E k \in KeyIds : KeyUsed(k) PROVE RequestInv'
  BY <1>4, RequestKept DEF KeyUsed, TrafficRemoved, mediaVars
<1> QED
  BY <1>1, <1>2, <1>3, <1>4, LoginRequests, PasswordRequests, KeyRequests,
     MediaRequests DEF Next

-----------------------------------------------------------------------------
(* The theorems *)

LEMMA InvariantKept == IInv /\ [Next]_vars => IInv'
<1> SUFFICES ASSUME IInv, [Next]_vars PROVE IInv'
  OBVIOUS
<1>1. CASE Next
  BY <1>1, UserStep, KeyStepKeeps, MediaStepKeeps, RequestStep DEF IInv
<1>2. CASE UNCHANGED vars
  <2>1. UNCHANGED userVars /\ UNCHANGED keyVars /\ UNCHANGED mediaVars
        /\ UNCHANGED <<requestVars, signing>>
    BY <1>2 DEF vars, mediaVars
  <2> QED BY <2>1, UserKept, KeyKept, MediaKept, RequestKept DEF IInv
<1> QED BY <1>1, <1>2

LEMMA InvariantHolds == Spec => []IInv
<1>1. Init => IInv
  BY InitHolds
<1> QED BY <1>1, InvariantKept, PTL DEF Spec

\* The rows, what was issued and what requests hold have their types.
THEOREM TypesHold == Spec => []TypeOK
<1>1. IInv => TypeOK
  BY DEF IInv, UserInv, KeyInv, MediaInv, RequestInv, Carried, TypeOK
<1> QED BY <1>1, InvariantHolds, PTL

\* No hash upgrade of a login (auth.py login) brings a replaced password back.
THEOREM LastPasswordStands == Spec => []PasswordLastSet
<1>1. IInv => PasswordLastSet
  BY DEF IInv, UserInv
<1> QED BY <1>1, InvariantHolds, PTL

\* A JWT issued before a change of password or role (revoke_user_jwts) is never
\* accepted again, for any number of requests at once.
THEOREM RevokedTokensStayOut == Spec => []RevokedTokensRefused
<1>1. IInv => RevokedTokensRefused
  BY DEF IInv, UserInv, TokensBehind, RevokedTokensRefused, Accepted, Tokens
<1> QED BY <1>1, InvariantHolds, PTL

\* A link signed before its asset's links were revoked, or before it was made
\* private (update_media_metadata, revoke_media_links), never opens it again.
THEOREM RevokedLinksStayOut == Spec => []RevokedLinksRefused
<1>1. IInv => RevokedLinksRefused
  BY DEF IInv, MediaInv, LinksBehind, RevokedLinksRefused, Links
<1> QED BY <1>1, InvariantHolds, PTL

\* _next_api_key_id never chooses an id that ever named a key.
THEOREM KeyIdsNeverReused == Spec => []KeyIdsFresh
<1>1. IInv => KeyIdsFresh
  BY DEF IInv, KeyInv
<1> QED BY <1>1, InvariantHolds, PTL

-----------------------------------------------------------------------------
(* The login that reloads its row.  That accepted tokens prove the current  *)
(* password fails in one way only.                                          *)

LoggingIn == {"upgrading", "upgraded"}

\* A login whose row has not changed since it was verified has verified the
\* current password.
LoginsVerified ==
    \A r \in Requests : pc[r] \in LoggingIn =>
        /\ held[r].version <= version
        /\ held[r].version = version => held[r].hash.of = hash.of

Proven == TokensProvePassword /\ LoginsVerified

\* The answer signs the version of the row that was verified, not of the row
\* that was reloaded.
AnswersAsVerified == \A r \in Requests : LoginAnswers(r) => held[r].version = version

\* A login holds the row as it was when it began.
LEMMA LoginsCarry ==
    ASSUME IInv, Next, NEW q \in Requests, pc'[q] \in LoggingIn
    PROVE  \/ pc[q] \in LoggingIn /\ held'[q] = held[q]
           \/ held'[q] = Row
<1>1. pc \in [Requests -> Steps] /\ held \in [Requests -> Carried]
  BY DEF IInv, RequestInv
<1>2. ASSUME NEW r \in Requests, LoginStep(r)
      PROVE  (pc[q] \in LoggingIn /\ held'[q] = held[q]) \/ held'[q] = Row
  BY <1>1, <1>2
     DEF LoginStep, LoginVerifies, LoginUpgrades, LoginRefused, LoginAnswers,
         Go, Finish, LoggingIn
<1>3. ASSUME NEW r \in Requests, PasswordStep(r)
      PROVE  pc[q] \in LoggingIn /\ held'[q] = held[q]
  BY <1>1, <1>3
     DEF PasswordStep, ChangeBegins, ChangeCommits, ChangeRefused, AdminOpens,
         ResetCommits, RoleCommits, Go, Finish, LoggingIn
<1>4. ASSUME NEW r \in Requests, KeyStep(r)
      PROVE  pc[q] \in LoggingIn /\ held'[q] = held[q]
  BY <1>1, <1>4
     DEF KeyStep, KeyRequested, KeyRefused, CreateKey, RotateKey, RevokeKey,
         Go, Finish, LoggingIn
<1>5. ASSUME NEW r \in Requests, MediaStep(r)
      PROVE  pc[q] \in LoggingIn /\ held'[q] = held[q]
  BY <1>1, <1>5
     DEF MediaStep, MediaOpens, LinksRevoked, MadePrivate, MadePublic,
         MediaDone, Go, Finish, LoggingIn
<1>6. Login \/ IssueLink \/ TrafficRemoved \/ (\E k \in KeyIds : KeyUsed(k)) =>
        pc' = pc /\ held' = held
  BY DEF Login, IssueLink, KeyUsed, TrafficRemoved, requestVars
<1>7. ~Restart
  BY DEF Restart, LoggingIn
<1> QED
  BY <1>2, <1>3, <1>4, <1>5, <1>6, <1>7 DEF Next

\* Either the password and the version stand, and at most a token for them is
\* issued, or the version grows and everything issued is revoked.
LEMMA AccountMoves ==
    ASSUME IInv, Proven, AnswersAsVerified, Next
    PROVE  \/ /\ hash'.of = hash.of /\ version' = version
              /\ tokens' \subseteq tokens \cup {Token(hash.of)}
           \/ version' = version + 1 /\ tokens' = Revoked(tokens)
<1> DEFINE Stands == /\ hash'.of = hash.of /\ version' = version
                     /\ tokens' \subseteq tokens \cup {Token(hash.of)}
           Grows == version' = version + 1 /\ tokens' = Revoked(tokens)
<1>1. version \in 1 .. MaxVersion /\ hash \in Hashes
  BY DEF IInv, UserInv
<1>2. ASSUME NEW r \in Requests, LoginStep(r) PROVE Stands
  <2>1. CASE LoginUpgrades(r)
    <3>1. held[r].hash = hash /\ hash'.of = held[r].hash.of
      BY <2>1 DEF LoginUpgrades, RowUnchanged, Hash
    <3> QED
      BY <2>1, <3>1 DEF LoginUpgrades
  <2>2. CASE LoginAnswers(r)
    <3>1. held[r].version = version /\ pc[r] \in LoggingIn
      BY <2>2 DEF AnswersAsVerified, LoginAnswers, LoggingIn
    <3>2. held[r].hash.of = hash.of
      BY <3>1 DEF Proven, LoginsVerified
    <3> QED
      BY <2>2, <3>2 DEF LoginAnswers
  <2> QED
    BY <1>2, <2>1, <2>2 DEF LoginStep, LoginVerifies, LoginRefused, userVars
<1>3. ASSUME NEW r \in Requests, PasswordStep(r) PROVE Stands \/ Grows
  BY <1>3
     DEF PasswordStep, ChangeBegins, ChangeCommits, ChangeRefused, AdminOpens,
         ResetCommits, RoleCommits, SetPassword, NextVersion, userVars
<1>4. ASSUME NEW r \in Requests, KeyStep(r) \/ MediaStep(r) PROVE Stands
  BY <1>4
     DEF KeyStep, KeyRequested, KeyRefused, CreateKey, RotateKey, RevokeKey,
         MediaStep, MediaOpens, LinksRevoked, MadePrivate, MadePublic,
         MediaDone, userVars
<1>5. Login => Stands
  BY DEF Login
<1>6. Restart => Stands \/ Grows
  BY DEF Restart, userVars
<1>7. IssueLink \/ TrafficRemoved \/ (\E k \in KeyIds : KeyUsed(k)) => Stands
  BY DEF IssueLink, KeyUsed, TrafficRemoved, userVars
<1> QED
  BY <1>2, <1>3, <1>4, <1>5, <1>6, <1>7 DEF Next

LEMMA ProvenKept ==
    ASSUME IInv, Proven, [Next]_vars, [AnswersAsVerified]_vars
    PROVE  Proven'
<1>1. CASE UNCHANGED vars
  BY <1>1 DEF vars, userVars, requestVars, Proven, TokensProvePassword,
              LoginsVerified, Accepted
<1>2. CASE Next /\ AnswersAsVerified
  <2>1. /\ version \in 1 .. MaxVersion /\ MaxVersion \in Nat
        /\ \A t \in tokens : t.version <= version /\ t.version \in 1 .. MaxVersion
    BY AccessAssumption DEF IInv, UserInv, TokensBehind, Tokens
  <2>2. \A r \in Requests : held[r].version \in 0 .. MaxVersion
    BY DEF IInv, RequestInv, Carried
  <2>3. Row.version = version /\ Row.hash = hash
    BY DEF Row
  <2>4. CASE /\ hash'.of = hash.of /\ version' = version
             /\ tokens' \subseteq tokens \cup {Token(hash.of)}
    <3>1. TokensProvePassword'
      BY <2>4 DEF Proven, TokensProvePassword, Accepted, Token
    <3>2. LoginsVerified'
      BY <1>2, <2>1, <2>2, <2>3, <2>4, LoginsCarry DEF Proven, LoginsVerified
    <3> QED
      BY <3>1, <3>2 DEF Proven
  <2>5. CASE version' = version + 1 /\ tokens' = Revoked(tokens)
    <3>1. \A t \in tokens' : t.version \in Int /\ t.version <= version
      BY <2>1, <2>5, RevokedTokens DEF IInv, UserInv
    <3>2. TokensProvePassword'
      BY <2>1, <2>5, <3>1 DEF TokensProvePassword, Accepted
    <3>3. \A r \in Requests : pc'[r] \in LoggingIn => held'[r].version <= version
      BY <1>2, <2>1, <2>3, LoginsCarry DEF Proven, LoginsVerified
    <3>4. \A r \in Requests : pc'[r] \in LoggingIn =>
            held'[r].version \in Int /\ held'[r].version < version'
      BY <1>2, <2>1, <2>2, <2>3, <2>5, <3>3, LoginsCarry
    <3>5. LoginsVerified'
      BY <2>1, <2>5, <3>4 DEF LoginsVerified
    <3> QED
      BY <3>2, <3>5 DEF Proven
  <2> QED
    BY <1>2, <2>4, <2>5, AccountMoves
<1> QED
  BY <1>1, <1>2

\* The run login shows that login (auth.py:139-141) may give a token to a
\* replaced password.  Its reload is all that is wrong: were the answer to sign
\* the version that was verified, every accepted token would prove the current
\* password, under every interleaving of logins, changes, resets and restarts.
THEOREM OnlyTheReloadMisleads ==
    Spec /\ [][AnswersAsVerified]_vars => []TokensProvePassword
<1>1. Init => Proven
  BY DEF Init, Proven, TokensProvePassword, LoginsVerified, LoggingIn
<1>2. IInv /\ Proven /\ [Next]_vars /\ [AnswersAsVerified]_vars => Proven'
  BY ProvenKept
<1>3. Proven => TokensProvePassword
  BY DEF Proven
<1> QED
  BY <1>1, <1>2, <1>3, InvariantHolds, PTL DEF Spec
=============================================================================
