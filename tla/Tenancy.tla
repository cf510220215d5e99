------------------------------ MODULE Tenancy ------------------------------
(***************************************************************************)
(* Accounts, teams, memberships, assets, media groups and their items, and *)
(* the handlers that keep them consistent without foreign keys:            *)
(* app/api/routes/admin.py, auth.py, teams/*.py, library.py and            *)
(* app/services/library.py.  Handlers run under the library lease, so each *)
(* is one step, except delete_user, which commits five times and may end   *)
(* with an error or with the process after each.                           *)
(***************************************************************************)
EXTENDS Naturals, FiniteSets

CONSTANTS
    Users, Teams, Media, Groups,  \* ids
    Root,       \* the bootstrap administrator
    None,
    MaxCrashes, \* how often the process ends
    MaxEdits    \* rows changed by hand while it is down

ASSUME TenancyAssumption ==
    /\ Root \in Users
    /\ None \notin Users \cup Teams
    /\ MaxCrashes \in Nat /\ MaxEdits \in Nat

VARIABLES
    users, admins, \* accounts, and those with role "admin"
    teamOwner,     \* teamOwner[t]: teams.owner_id, None without a team
    role,          \* role[t][u]: the row of team_members, None without one
    media,         \* media[m]: an image row or upload session, or NoMedia
    group,         \* group[g]: a media_groups row, or NoGroup
    item,          \* item[g][m]: added_by of the item, None without one
    used,          \* ids handed out so far (runtime_counters)
    del,           \* the account deletion between two commits, or NoDeletion
    up, crashes, edits

rowVars == <<users, admins, teamOwner, role, media, group, item, used>>
vars == <<rowVars, del, up, crashes, edits>>

NoMedia    == [owner |-> None, team |-> None, kind |-> "none"]
NoGroup    == [owner |-> None, team |-> None]
NoDeletion == [target |-> None, step |-> "none"]

Init ==
    /\ users = {Root} /\ admins = {Root}
    /\ teamOwner = [t \in Teams |-> None]
    /\ role = [t \in Teams |-> [u \in Users |-> None]]
    /\ media = [m \in Media |-> NoMedia]
    /\ group = [g \in Groups |-> NoGroup]
    /\ item = [g \in Groups |-> [m \in Media |-> None]]
    /\ used = {Root}
    /\ del = NoDeletion /\ up = TRUE /\ crashes = 0 /\ edits = 0

-----------------------------------------------------------------------------
(* Who may do what, recomputed from fresh rows under the lease. *)

\* The process runs and nobody is in the middle of an account deletion.
Leased == up /\ del = NoDeletion

LiveTeams  == {t \in Teams : teamOwner[t] # None}
LiveGroups == {g \in Groups : group[g] # NoGroup}
LiveMedia  == {m \in Media : media[m] # NoMedia}

\* fresh_library_user and has_global_admin_scope, for a JWT
GlobalAdmin(a) == a \in users \cap admins
IsMember(t, a) == role[t][a] # None
ManagesTeam(t, a) == role[t][a] \in {"owner", "admin"}

\* validate_team_scope, _check_team_access
MayEnter(a, t) ==
    /\ a \in users
    /\ t = None \/ (t \in LiveTeams /\ (GlobalAdmin(a) \/ IsMember(t, a)))

CanManageMedia(a, m) ==
    /\ a \in users
    /\ \/ GlobalAdmin(a)
       \/ media[m].team = None /\ media[m].owner = a
       \/ /\ media[m].team # None /\ IsMember(media[m].team, a)
          /\ media[m].owner = a \/ ManagesTeam(media[m].team, a)

\* cancel_upload_session
CanCancel(a, m) ==
    /\ media[m].owner = a \/ GlobalAdmin(a)
    /\ MayEnter(a, media[m].team)

CanViewGroup(a, g) ==
    /\ a \in users
    /\ \/ GlobalAdmin(a)
       \/ IF group[g].team = None THEN group[g].owner = a
                                  ELSE IsMember(group[g].team, a)

\* visible_group_or_404 with manage
CanManageGroup(a, g) ==
    /\ CanViewGroup(a, g)
    /\ group[g].team = None \/ group[g].team \in LiveTeams
    /\ \/ GlobalAdmin(a) \/ group[g].owner = a
       \/ group[g].team # None /\ ManagesTeam(group[g].team, a)

\* _valid_group_item_scope, _resolve_group_media
InScope(row, m) ==
    /\ media[m].kind = "image"
    /\ media[m].team = row.team
    /\ row.team = None => media[m].owner = row.owner

-----------------------------------------------------------------------------
(* Accounts *)

NewAccount(u) ==
    /\ u \notin used
    /\ users' = users \cup {u} /\ used' = used \cup {u}
    /\ UNCHANGED <<teamOwner, role, media, group, item, del, up, crashes, edits>>

Register(u) ==
    /\ Leased /\ NewAccount(u)
    /\ UNCHANGED admins

CreateUser(a, u) ==
    /\ Leased /\ GlobalAdmin(a)
    /\ NewAccount(u)
    /\ \E r \in {{}, {u}} : admins' = admins \cup r

\* Mutant: an administrator may change the own role.
SetAnyRole(a, u) ==
    /\ Leased /\ GlobalAdmin(a) /\ u \in users
    /\ admins' \in {admins \cup {u}, admins \ {u}}
    /\ UNCHANGED <<users, teamOwner, role, media, group, item, used,
                   del, up, crashes, edits>>

\* set_user_role
SetRole(a, u) ==
    /\ Leased /\ GlobalAdmin(a)
    /\ u \in users \ {a}
    /\ admins' \in {admins \cup {u}, admins \ {u}}
    /\ UNCHANGED <<users, teamOwner, role, media, group, item, used,
                   del, up, crashes, edits>>

-----------------------------------------------------------------------------
(* Teams *)

CreateTeam(a, t) ==
    /\ Leased /\ a \in users /\ t \notin used
    /\ used' = used \cup {t}
    /\ teamOwner' = [teamOwner EXCEPT ![t] = a]
    /\ role' = [role EXCEPT ![t][a] = "owner"]
    /\ UNCHANGED <<users, admins, media, group, item, del, up, crashes, edits>>

AddMember(a, t, u) ==
    /\ Leased /\ a \in users /\ t \in LiveTeams
    /\ ManagesTeam(t, a) \/ GlobalAdmin(a)
    /\ u \in users /\ u # teamOwner[t] /\ ~IsMember(t, u)
    /\ role' = [role EXCEPT ![t][u] = "member"]
    /\ UNCHANGED <<users, admins, teamOwner, media, group, item, used,
                   del, up, crashes, edits>>

\* transfer_member_groups
GroupsHandedOver(t, u) ==
    [g \in Groups |->
        IF group[g].team = t /\ group[g].owner = u
        THEN [group[g] EXCEPT !.owner = teamOwner[t]] ELSE group[g]]

\* Mutant: team administrators may remove the owner, too.
RemoveAnyMember(a, t, u) ==
    /\ Leased /\ a \in users /\ t \in LiveTeams
    /\ IsMember(t, u)
    /\ u = a \/ ManagesTeam(t, a) \/ GlobalAdmin(a)
    /\ group' = GroupsHandedOver(t, u)
    /\ role' = [role EXCEPT ![t][u] = None]
    /\ UNCHANGED <<users, admins, teamOwner, media, item, used,
                   del, up, crashes, edits>>

RemoveMember(a, t, u) ==
    /\ Leased /\ a \in users /\ t \in LiveTeams
    /\ IsMember(t, u) /\ u # teamOwner[t]
    /\ u = a \/ ManagesTeam(t, a) \/ GlobalAdmin(a)
    /\ group' = GroupsHandedOver(t, u)
    /\ role' = [role EXCEPT ![t][u] = None]
    /\ UNCHANGED <<users, admins, teamOwner, media, item, used,
                   del, up, crashes, edits>>

ChangeMemberRole(a, t, u) ==
    /\ Leased /\ a \in users /\ t \in LiveTeams
    /\ role[t][a] = "owner" \/ GlobalAdmin(a)
    /\ IsMember(t, u) /\ u # teamOwner[t]
    /\ \E r \in {"admin", "member"} : role' = [role EXCEPT ![t][u] = r]
    /\ UNCHANGED <<users, admins, teamOwner, media, group, item, used,
                   del, up, crashes, edits>>

\* delete_team, dissolve_team_media, delete_team_groups; members keep their
\* rows.
DissolveTeam(a, t) ==
    /\ Leased /\ a \in users /\ t \in LiveTeams
    /\ role[t][a] = "owner" \/ GlobalAdmin(a)
    /\ group' = [g \in Groups |->
                    IF group[g].team = t THEN NoGroup ELSE group[g]]
    /\ item' = [g \in Groups |-> IF group[g].team = t
                                 THEN [m \in Media |-> None] ELSE item[g]]
    /\ media' = [m \in Media |-> IF media[m].team = t
                                 THEN [media[m] EXCEPT !.team = None]
                                 ELSE media[m]]
    /\ teamOwner' = [teamOwner EXCEPT ![t] = None]
    /\ UNCHANGED <<users, admins, role, used, del, up, crashes, edits>>

-----------------------------------------------------------------------------
(* Assets.  VideoUpload takes an upload apart; here a session is opened and *)
(* becomes an image row with its owner and team.                            *)

\* create_upload_session; store_upload
Upload(a, m, t) ==
    /\ Leased /\ m \notin used /\ MayEnter(a, t)
    /\ used' = used \cup {m}
    /\ \E k \in {"session", "image"} :
          media' = [media EXCEPT ![m] = [owner |-> a, team |-> t, kind |-> k]]
    /\ UNCHANGED <<users, admins, teamOwner, role, group, item,
                   del, up, crashes, edits>>

\* complete_upload_session, recover_finalizing_session: for the owner
Publish(m) ==
    /\ Leased /\ media[m].kind = "session"
    /\ media[m].owner \in users /\ MayEnter(media[m].owner, media[m].team)
    /\ media' = [media EXCEPT ![m].kind = "image"]
    /\ UNCHANGED <<users, admins, teamOwner, role, group, item, used,
                   del, up, crashes, edits>>

\* A row goes with its items: delete_image, _delete_upload_session_locked.
Drop(m) ==
    /\ media' = [media EXCEPT ![m] = NoMedia]
    /\ item' = [g \in Groups |-> [item[g] EXCEPT ![m] = None]]

DeleteMedia(a, m) ==
    /\ Leased /\ m \in LiveMedia
    /\ IF media[m].kind = "image" THEN CanManageMedia(a, m) ELSE CanCancel(a, m)
    /\ Drop(m)
    /\ UNCHANGED <<users, admins, teamOwner, role, group, used,
                   del, up, crashes, edits>>

-----------------------------------------------------------------------------
(* Media groups *)

CreateGroup(a, g, t) ==
    /\ Leased /\ g \notin used /\ MayEnter(a, t)
    /\ used' = used \cup {g}
    /\ group' = [group EXCEPT ![g] = [owner |-> a, team |-> t]]
    /\ UNCHANGED <<users, admins, teamOwner, role, media, item,
                   del, up, crashes, edits>>

\* add_media_group_items, and the codes create_media_group is given
AddItem(a, g, m) ==
    /\ Leased /\ g \in LiveGroups /\ CanManageGroup(a, g)
    /\ InScope(group[g], m) /\ item[g][m] = None
    /\ item' = [item EXCEPT ![g][m] = a]
    /\ UNCHANGED <<users, admins, teamOwner, role, media, group, used,
                   del, up, crashes, edits>>

RemoveItem(a, g, m) ==
    /\ Leased /\ g \in LiveGroups /\ CanManageGroup(a, g)
    /\ InScope(group[g], m) /\ item[g][m] # None
    /\ item' = [item EXCEPT ![g][m] = None]
    /\ UNCHANGED <<users, admins, teamOwner, role, media, group, used,
                   del, up, crashes, edits>>

RemoveGroup(a, g) ==
    /\ Leased /\ g \in LiveGroups /\ CanManageGroup(a, g)
    /\ group' = [group EXCEPT ![g] = NoGroup]
    /\ item' = [item EXCEPT ![g] = [m \in Media |-> None]]
    /\ UNCHANGED <<users, admins, teamOwner, role, media, used,
                   del, up, crashes, edits>>

-----------------------------------------------------------------------------
(* delete_user, commit by commit.  The lease is held throughout. *)

\* The successor of u in team t: an administrator of the team if there is
\* one, else another member, else the deleting administrator a.
Heirs(a, u, t) ==
    LET others == {v \in Users \ {u} : IsMember(t, v)}
        chief  == {v \in others : role[t][v] = "admin"}
    IN  IF chief # {} THEN chief ELSE IF others # {} THEN others ELSE {a}

Owned(u) == {t \in LiveTeams : teamOwner[t] = u}

Handed(u, heir, t) == IF t \in Owned(u) THEN heir[t] ELSE teamOwner[t]

Transfer(a, u) ==
    /\ Leased /\ GlobalAdmin(a) /\ u \in users \ {a}
    /\ \E heir \in [Owned(u) -> users] :
         /\ \A t \in Owned(u) : heir[t] \in Heirs(a, u, t)
         /\ teamOwner' = [t \in Teams |-> Handed(u, heir, t)]
         /\ role' = [t \in Teams |->
                IF t \in Owned(u) THEN [role[t] EXCEPT ![heir[t]] = "owner"]
                                  ELSE role[t]]
         /\ media' = [m \in Media |->
                IF /\ media[m].owner = u /\ media[m].team \in LiveTeams
                   /\ IsMember(media[m].team, u)
                THEN [media[m] EXCEPT !.owner = Handed(u, heir, media[m].team)]
                ELSE media[m]]
    /\ del' = [target |-> u, step |-> "sessions"]
    /\ UNCHANGED <<users, admins, group, item, used, up, crashes, edits>>

Personal(u, k) ==
    {m \in Media : media[m].owner = u /\ media[m].team = None /\ media[m].kind = k}

\* Mutant: every session of the account is removed.
RemoveAnySession(m) ==
    /\ up /\ del.step = "sessions"
    /\ media[m].owner = del.target /\ media[m].kind = "session"
    /\ Drop(m)
    /\ UNCHANGED <<users, admins, teamOwner, role, group, used,
                   del, up, crashes, edits>>

\* delete_upload_sessions_for_owner: one commit per session
RemoveSession(m) ==
    /\ up /\ del.step = "sessions"
    /\ m \in Personal(del.target, "session")
    /\ Drop(m)
    /\ UNCHANGED <<users, admins, teamOwner, role, group, used,
                   del, up, crashes, edits>>

\* Mutant: items that the account added elsewhere keep its id.
PrepareGroupsOnly ==
    LET u == del.target IN
    /\ up /\ del.step = "sessions" /\ Personal(u, "session") = {}
    /\ group' = [g \in Groups |->
            IF group[g].owner # u THEN group[g]
            ELSE IF group[g].team \in LiveTeams
                 THEN [group[g] EXCEPT !.owner = teamOwner[group[g].team]]
                 ELSE NoGroup]
    /\ item' = [g \in Groups |-> [m \in Media |->
            IF group'[g] = NoGroup THEN None ELSE item[g][m]]]
    /\ del' = [del EXCEPT !.step = "media"]
    /\ UNCHANGED <<users, admins, teamOwner, role, media, used, up, crashes, edits>>

\* prepare_groups_for_user_deletion, then a commit
PrepareGroups ==
    LET u == del.target IN
    /\ up /\ del.step = "sessions" /\ Personal(u, "session") = {}
    /\ group' = [g \in Groups |->
            IF group[g].owner # u THEN group[g]
            ELSE IF group[g].team \in LiveTeams
                 THEN [group[g] EXCEPT !.owner = teamOwner[group[g].team]]
                 ELSE NoGroup]
    /\ item' = [g \in Groups |-> [m \in Media |->
            IF group'[g] = NoGroup THEN None
            ELSE IF item[g][m] = u THEN group'[g].owner
            ELSE item[g][m]]]
    /\ del' = [del EXCEPT !.step = "media"]
    /\ UNCHANGED <<users, admins, teamOwner, role, media, used, up, crashes, edits>>

\* delete_image: one commit per asset
RemoveAsset(m) ==
    /\ up /\ del.step = "media"
    /\ m \in Personal(del.target, "image")
    /\ Drop(m)
    /\ UNCHANGED <<users, admins, teamOwner, role, group, used,
                   del, up, crashes, edits>>

\* memberships, keys, statistics and the account
RemoveAccount ==
    /\ up /\ del.step = "media" /\ Personal(del.target, "image") = {}
    /\ users' = users \ {del.target} /\ admins' = admins \ {del.target}
    /\ role' = [t \in Teams |-> [role[t] EXCEPT ![del.target] = None]]
    /\ del' = NoDeletion
    /\ UNCHANGED <<teamOwner, media, group, item, used, up, crashes, edits>>

\* An error after some commit: what was committed stays.
DeletionFails ==
    /\ up /\ del # NoDeletion
    /\ del' = NoDeletion
    /\ UNCHANGED <<rowVars, up, crashes, edits>>

-----------------------------------------------------------------------------
(* The process ends, rows are changed by hand, and startup repairs groups. *)

Crash ==
    /\ up /\ crashes < MaxCrashes
    /\ up' = FALSE /\ crashes' = crashes + 1 /\ del' = NoDeletion
    /\ UNCHANGED <<rowVars, edits>>

\* Somebody deletes rows in SQLite: an ordinary account that owns no team, a
\* team, or an asset; or moves an asset.
Edit ==
    /\ ~up /\ edits < MaxEdits /\ edits' = edits + 1
    /\ \/ \E u \in users \ admins :
            /\ Owned(u) = {}
            /\ users' = users \ {u}
            /\ UNCHANGED <<teamOwner, media>>
       \/ \E t \in LiveTeams :
            /\ teamOwner' = [teamOwner EXCEPT ![t] = None]
            /\ UNCHANGED <<users, media>>
       \/ \E m \in LiveMedia, t \in LiveTeams \cup {None} :
            /\ media' \in {[media EXCEPT ![m] = NoMedia],
                           [media EXCEPT ![m].team = t]}
            /\ UNCHANGED <<users, teamOwner>>
    /\ UNCHANGED <<admins, role, group, item, used, del, up, crashes>>

\* Mutant: a team's owner is taken without looking for the team.
RepairedGroupTrusting(g) ==
    LET o == group[g].owner
        t == group[g].team
    IN  CASE t = None -> IF o \in users THEN group[g] ELSE NoGroup
          [] OTHER ->
               IF o \in users /\ (GlobalAdmin(o) \/ IsMember(t, o))
               THEN group[g] ELSE [group[g] EXCEPT !.owner = teamOwner[t]]

\* cleanup_orphan_media_library's first half: what becomes of group g
RepairedGroup(g) ==
    LET o == group[g].owner
        t == group[g].team
    IN  CASE t = None -> IF o \in users THEN group[g] ELSE NoGroup
          [] t # None /\ (t \notin LiveTeams \/ teamOwner[t] \notin users) -> NoGroup
          [] OTHER ->
               IF o \in users /\ (GlobalAdmin(o) \/ IsMember(t, o))
               THEN group[g] ELSE [group[g] EXCEPT !.owner = teamOwner[t]]

Startup ==
    /\ ~up /\ up' = TRUE
    /\ group' = [g \in Groups |-> RepairedGroup(g)]
    /\ item' = [g \in Groups |-> [m \in Media |->
            IF item[g][m] = None \/ group'[g] = NoGroup \/ ~InScope(group'[g], m)
            THEN None
            ELSE IF item[g][m] \notin users THEN group'[g].owner
            ELSE item[g][m]]]
    /\ UNCHANGED <<users, admins, teamOwner, role, media, used,
                   del, crashes, edits>>

-----------------------------------------------------------------------------
Next ==
    \/ \E u \in Users : Register(u)
    \/ \E a, u \in Users : CreateUser(a, u) \/ SetRole(a, u) \/ Transfer(a, u)
    \/ \E a \in Users, t \in Teams : CreateTeam(a, t) \/ DissolveTeam(a, t)
    \/ \E a, u \in Users, t \in Teams :
          AddMember(a, t, u) \/ RemoveMember(a, t, u) \/ ChangeMemberRole(a, t, u)
    \/ \E a \in Users, m \in Media : DeleteMedia(a, m)
    \/ \E a \in Users, m \in Media, t \in Teams \cup {None} : Upload(a, m, t)
    \/ \E m \in Media : Publish(m) \/ RemoveSession(m) \/ RemoveAsset(m)
    \/ \E a \in Users, g \in Groups, t \in Teams \cup {None} : CreateGroup(a, g, t)
    \/ \E a \in Users, g \in Groups, m \in Media : AddItem(a, g, m) \/ RemoveItem(a, g, m)
    \/ \E a \in Users, g \in Groups : RemoveGroup(a, g)
    \/ PrepareGroups \/ RemoveAccount \/ DeletionFails
    \/ Crash \/ Edit \/ Startup

Spec == Init /\ [][Next]_vars

-----------------------------------------------------------------------------
(* Properties *)

\* Every variable has its type; an absent row is empty.
TypeOK ==
    /\ users \subseteq Users /\ admins \subseteq Users
    /\ teamOwner \in [Teams -> Users \cup {None}]
    /\ role \in [Teams -> [Users -> {None, "member", "admin", "owner"}]]
    /\ media \in [Media -> [owner : Users, team : Teams \cup {None},
                            kind : {"session", "image"}] \cup {NoMedia}]
    /\ group \in [Groups -> [owner : Users, team : Teams \cup {None}] \cup {NoGroup}]
    /\ item \in [Groups -> [Media -> Users \cup {None}]]
    /\ used \subseteq Users \cup Teams \cup Media \cup Groups
    /\ del \in [target : Users, step : {"sessions", "media"}] \cup {NoDeletion}
    /\ up \in BOOLEAN /\ crashes \in 0 .. MaxCrashes /\ edits \in 0 .. MaxEdits

\* There is always an administrator to act: accounts cannot demote or delete
\* themselves (set_user_role, delete_user), also not each other in turn.
AdministratorRemains == admins \cap users # {}

\* Every team has an owner with an account and an owner's membership, after
\* every commit of an account deletion too (delete_user), and whoever leaves or
\* is removed or demoted (members.py).
TeamsOwned ==
    \A t \in LiveTeams :
        teamOwner[t] \in users /\ role[t][teamOwner[t]] = "owner"

\* While the process serves, groups and items name only accounts, teams and
\* assets that exist, and a group holds only assets of its own space
\* (prepare_groups_for_user_deletion, transfer_member_groups,
\* delete_team_groups, delete_image; cleanup_orphan_media_library after rows
\* were changed by hand).
GroupsRooted ==
    up => /\ \A g \in LiveGroups :
               /\ group[g].owner \in users
               /\ group[g].team \in LiveTeams \cup {None}
          /\ \A g \in Groups, m \in Media : item[g][m] # None =>
               /\ g \in LiveGroups /\ m \in LiveMedia /\ InScope(group[g], m)
               /\ item[g][m] \in users

\* "Account deletion never deletes team media/upload sessions", and no asset of
\* anybody else.
DeletionSparesTeams ==
    [][\A m \in Media :
         (del # NoDeletion /\ m \in LiveMedia /\ media'[m] = NoMedia) =>
            media[m].team = None /\ media[m].owner = del.target]_vars
=============================================================================
