---------------------------- MODULE TenancyProofs ----------------------------
(***************************************************************************)
(* What Tenancy keeps, for any accounts, teams, assets and groups and any  *)
(* number of crashes and edits.                                            *)
(***************************************************************************)
EXTENDS Tenancy, TLAPS

\* Whatever exists has an id that is never handed out again.
IdsUsed == /\ users \subseteq used /\ LiveTeams \subseteq used
           /\ LiveMedia \subseteq used /\ LiveGroups \subseteq used

\* An account that is being deleted is not the only administrator and owns no
\* team any more; once its groups are prepared, nothing in them names it.
DeletionPrepared ==
    del # NoDeletion =>
        /\ up /\ del.target \in users
        /\ \E a \in admins \cap users : a # del.target
        /\ \A t \in Teams : teamOwner[t] # del.target
        /\ del.step = "media" =>
             /\ \A g \in Groups : group[g].owner # del.target
             /\ \A g \in Groups, m \in Media : item[g][m] # del.target

IInv == /\ TypeOK /\ AdministratorRemains /\ TeamsOwned /\ GroupsRooted
        /\ IdsUsed /\ DeletionPrepared

-----------------------------------------------------------------------------
(* Every action keeps the invariant. *)

LEMMA RegisterKeeps ==
    ASSUME IInv, NEW u \in Users, Register(u)
    PROVE  IInv'
<1>1. TypeOK'
  BY DEF IInv, TypeOK, Register, NewAccount
<1>2. AdministratorRemains'
  BY DEF IInv, AdministratorRemains, Register, NewAccount
<1>3. TeamsOwned'
  BY DEF IInv, TeamsOwned, LiveTeams, Register, NewAccount
<1>4. GroupsRooted'
  BY DEF IInv, GroupsRooted, InScope, LiveTeams, LiveMedia, LiveGroups, Register,
    NewAccount
<1>5. IdsUsed'
  BY DEF IInv, IdsUsed, LiveTeams, LiveMedia, LiveGroups, Register, NewAccount
<1>6. DeletionPrepared'
  BY DEF IInv, DeletionPrepared, Register, NewAccount
<1> QED BY <1>1, <1>2, <1>3, <1>4, <1>5, <1>6 DEF IInv

LEMMA CreateUserKeeps ==
    ASSUME IInv, NEW a \in Users, NEW u \in Users, CreateUser(a, u)
    PROVE  IInv'
<1>1. TypeOK'
  BY DEF IInv, TypeOK, CreateUser, NewAccount
<1>2. AdministratorRemains'
  BY DEF IInv, AdministratorRemains, CreateUser, NewAccount
<1>3. TeamsOwned'
  BY DEF IInv, TeamsOwned, LiveTeams, CreateUser, NewAccount
<1>4. GroupsRooted'
  BY DEF IInv, GroupsRooted, InScope, LiveTeams, LiveMedia, LiveGroups, CreateUser,
    NewAccount
<1>5. IdsUsed'
  BY DEF IInv, IdsUsed, LiveTeams, LiveMedia, LiveGroups, CreateUser, NewAccount
<1>6. DeletionPrepared'
  BY DEF IInv, DeletionPrepared, CreateUser, NewAccount
<1> QED BY <1>1, <1>2, <1>3, <1>4, <1>5, <1>6 DEF IInv

LEMMA SetRoleKeeps ==
    ASSUME IInv, NEW a \in Users, NEW u \in Users, SetRole(a, u)
    PROVE  IInv'
<1>1. TypeOK'
  BY DEF IInv, TypeOK, SetRole
<1>2. AdministratorRemains'
  BY DEF AdministratorRemains, SetRole, GlobalAdmin
<1>3. TeamsOwned'
  BY DEF IInv, TeamsOwned, LiveTeams, SetRole
<1>4. GroupsRooted'
  BY DEF IInv, GroupsRooted, InScope, LiveTeams, LiveMedia, LiveGroups, SetRole
<1>5. IdsUsed'
  BY DEF IInv, IdsUsed, LiveTeams, LiveMedia, LiveGroups, SetRole
<1>6. DeletionPrepared'
  BY DEF DeletionPrepared, SetRole, Leased
<1> QED BY <1>1, <1>2, <1>3, <1>4, <1>5, <1>6 DEF IInv

LEMMA CreateTeamKeeps ==
    ASSUME IInv, NEW a \in Users, NEW t \in Teams, CreateTeam(a, t)
    PROVE  IInv'
<1>1. TypeOK'
  BY DEF IInv, TypeOK, CreateTeam
<1>2. AdministratorRemains'
  BY DEF IInv, AdministratorRemains, CreateTeam
<1>3. TeamsOwned'
  BY DEF IInv, TypeOK, TeamsOwned, LiveTeams, CreateTeam
<1>4. GroupsRooted'
  BY TenancyAssumption DEF IInv, GroupsRooted, InScope, LiveTeams, LiveMedia,
    LiveGroups, CreateTeam
<1>5. IdsUsed'
  BY DEF IInv, IdsUsed, LiveTeams, LiveMedia, LiveGroups, CreateTeam
<1>6. DeletionPrepared'
  BY DEF DeletionPrepared, CreateTeam, Leased
<1> QED BY <1>1, <1>2, <1>3, <1>4, <1>5, <1>6 DEF IInv

LEMMA AddMemberKeeps ==
    ASSUME IInv, NEW a \in Users, NEW t \in Teams, NEW u \in Users, AddMember(a, t, u)
    PROVE  IInv'
<1>1. TypeOK'
  BY DEF IInv, TypeOK, AddMember
<1>2. AdministratorRemains'
  BY DEF IInv, AdministratorRemains, AddMember
<1>3. TeamsOwned'
  BY DEF IInv, TeamsOwned, LiveTeams, AddMember
<1>4. GroupsRooted'
  BY DEF IInv, GroupsRooted, InScope, LiveTeams, LiveMedia, LiveGroups, AddMember
<1>5. IdsUsed'
  BY DEF IInv, IdsUsed, LiveTeams, LiveMedia, LiveGroups, AddMember
<1>6. DeletionPrepared'
  BY DEF IInv, DeletionPrepared, AddMember
<1> QED BY <1>1, <1>2, <1>3, <1>4, <1>5, <1>6 DEF IInv

LEMMA RemoveMemberKeeps ==
    ASSUME IInv, NEW a \in Users, NEW t \in Teams, NEW u \in Users,
           RemoveMember(a, t, u)
    PROVE  IInv'
<1>1. TypeOK'
  BY DEF IInv, TypeOK, NoGroup, NoDeletion, LiveTeams, RemoveMember, GroupsHandedOver,
    Leased
<1>2. AdministratorRemains'
  BY DEF IInv, AdministratorRemains, RemoveMember
<1>3. TeamsOwned'
  BY DEF IInv, TeamsOwned, LiveTeams, RemoveMember
<1>4. GroupsRooted'
  BY TenancyAssumption DEF IInv, GroupsRooted, TeamsOwned, NoGroup, InScope, LiveTeams,
    LiveMedia, LiveGroups, RemoveMember, GroupsHandedOver
<1>5. IdsUsed'
  BY TenancyAssumption DEF IInv, IdsUsed, NoGroup, LiveTeams, LiveMedia, LiveGroups,
    RemoveMember, GroupsHandedOver
<1>6. DeletionPrepared'
  BY DEF IInv, DeletionPrepared, RemoveMember, GroupsHandedOver
<1> QED BY <1>1, <1>2, <1>3, <1>4, <1>5, <1>6 DEF IInv

LEMMA ChangeMemberRoleKeeps ==
    ASSUME IInv, NEW a \in Users, NEW t \in Teams, NEW u \in Users,
           ChangeMemberRole(a, t, u)
    PROVE  IInv'
<1>1. TypeOK'
  BY DEF IInv, TypeOK, ChangeMemberRole
<1>2. AdministratorRemains'
  BY DEF IInv, AdministratorRemains, ChangeMemberRole
<1>3. TeamsOwned'
  BY DEF IInv, TeamsOwned, LiveTeams, ChangeMemberRole
<1>4. GroupsRooted'
  BY DEF IInv, GroupsRooted, InScope, LiveTeams, LiveMedia, LiveGroups, ChangeMemberRole
<1>5. IdsUsed'
  BY DEF IInv, IdsUsed, LiveTeams, LiveMedia, LiveGroups, ChangeMemberRole
<1>6. DeletionPrepared'
  BY DEF IInv, DeletionPrepared, ChangeMemberRole
<1> QED BY <1>1, <1>2, <1>3, <1>4, <1>5, <1>6 DEF IInv

LEMMA DissolveTeamKeeps ==
    ASSUME IInv, NEW a \in Users, NEW t \in Teams, DissolveTeam(a, t)
    PROVE  IInv'
<1>1. TypeOK'
  <2>1. /\ t \in LiveTeams /\ teamOwner' = [teamOwner EXCEPT ![t] = None]
        /\ group' = [g \in Groups |-> IF group[g].team = t THEN NoGroup ELSE group[g]]
        /\ item' = [g \in Groups |-> IF group[g].team = t
                                     THEN [m \in Media |-> None] ELSE item[g]]
        /\ media' = [m \in Media |-> IF media[m].team = t
                                     THEN [media[m] EXCEPT !.team = None] ELSE media[m]]
        /\ UNCHANGED <<users, admins, role, used, del, up, crashes, edits>>
    BY DEF DissolveTeam
  <2>2. group' \in [Groups -> [owner : Users, team : Teams \cup {None}] \cup {NoGroup}]
    BY <2>1 DEF IInv, TypeOK
  <2>3. item' \in [Groups -> [Media -> Users \cup {None}]]
    BY <2>1 DEF IInv, TypeOK
  <2>4. media' \in [Media -> [owner : Users, team : Teams \cup {None},
                             kind : {"session", "image"}] \cup {NoMedia}]
    <3>1. \A m \in Media : media[m].team = t => media[m] # NoMedia
      BY TenancyAssumption DEF NoMedia
    <3>2. \A m \in Media : media[m].team = t =>
            [media[m] EXCEPT !.team = None] \in
              [owner : Users, team : Teams \cup {None}, kind : {"session", "image"}]
      BY <3>1 DEF IInv, TypeOK
    <3> QED BY <2>1, <3>2 DEF IInv, TypeOK
  <2> QED BY <2>1, <2>2, <2>3, <2>4 DEF IInv, TypeOK
<1>2. AdministratorRemains'
  BY DEF IInv, AdministratorRemains, DissolveTeam
<1>3. TeamsOwned'
  BY DEF IInv, TeamsOwned, LiveTeams, DissolveTeam
<1>4. GroupsRooted'
  BY DEF IInv, GroupsRooted, InScope, LiveTeams, LiveMedia, LiveGroups, DissolveTeam
<1>5. IdsUsed'
  BY DEF IInv, IdsUsed, NoMedia, LiveTeams, LiveMedia, LiveGroups, DissolveTeam
<1>6. DeletionPrepared'
  BY TenancyAssumption DEF IInv, TypeOK, DeletionPrepared, NoGroup, DissolveTeam
<1> QED BY <1>1, <1>2, <1>3, <1>4, <1>5, <1>6 DEF IInv

LEMMA UploadKeeps ==
    ASSUME IInv, NEW a \in Users, NEW m \in Media, NEW t \in Teams \cup {None},
           Upload(a, m, t)
    PROVE  IInv'
<1>1. TypeOK'
  BY DEF IInv, TypeOK, Upload
<1>2. AdministratorRemains'
  BY DEF IInv, AdministratorRemains, Upload
<1>3. TeamsOwned'
  BY DEF IInv, TeamsOwned, LiveTeams, Upload
<1>4. GroupsRooted'
  BY DEF IInv, GroupsRooted, IdsUsed, InScope, LiveTeams, LiveMedia, LiveGroups, Upload
<1>5. IdsUsed'
  BY DEF IInv, IdsUsed, LiveTeams, LiveMedia, LiveGroups, Upload
<1>6. DeletionPrepared'
  BY DEF IInv, DeletionPrepared, Upload
<1> QED BY <1>1, <1>2, <1>3, <1>4, <1>5, <1>6 DEF IInv

LEMMA PublishKeeps ==
    ASSUME IInv, NEW m \in Media, Publish(m)
    PROVE  IInv'
<1>1. TypeOK'
  BY DEF IInv, TypeOK, NoMedia, Publish
<1>2. AdministratorRemains'
  BY DEF IInv, AdministratorRemains, Publish
<1>3. TeamsOwned'
  BY DEF IInv, TeamsOwned, LiveTeams, Publish
<1>4. GroupsRooted'
  BY DEF IInv, GroupsRooted, InScope, LiveTeams, LiveMedia, LiveGroups, Publish
<1>5. IdsUsed'
  BY DEF IInv, IdsUsed, NoMedia, LiveTeams, LiveMedia, LiveGroups, Publish
<1>6. DeletionPrepared'
  BY DEF IInv, DeletionPrepared, Publish
<1> QED BY <1>1, <1>2, <1>3, <1>4, <1>5, <1>6 DEF IInv

LEMMA DeleteMediaKeeps ==
    ASSUME IInv, NEW a \in Users, NEW m \in Media, DeleteMedia(a, m)
    PROVE  IInv'
<1>1. TypeOK'
  BY DEF IInv, TypeOK, DeleteMedia, Drop
<1>2. AdministratorRemains'
  BY DEF IInv, AdministratorRemains, DeleteMedia
<1>3. TeamsOwned'
  BY DEF IInv, TeamsOwned, LiveTeams, DeleteMedia
<1>4. GroupsRooted'
  BY DEF IInv, TypeOK, GroupsRooted, InScope, LiveTeams, LiveMedia, LiveGroups,
    DeleteMedia, Drop
<1>5. IdsUsed'
  BY DEF IInv, IdsUsed, LiveTeams, LiveMedia, LiveGroups, DeleteMedia, Drop
<1>6. DeletionPrepared'
  BY TenancyAssumption DEF IInv, TypeOK, DeletionPrepared, DeleteMedia, Drop
<1> QED BY <1>1, <1>2, <1>3, <1>4, <1>5, <1>6 DEF IInv

LEMMA CreateGroupKeeps ==
    ASSUME IInv, NEW a \in Users, NEW g \in Groups, NEW t \in Teams \cup {None},
           CreateGroup(a, g, t)
    PROVE  IInv'
<1>1. TypeOK'
  BY DEF IInv, TypeOK, CreateGroup
<1>2. AdministratorRemains'
  BY DEF IInv, AdministratorRemains, CreateGroup
<1>3. TeamsOwned'
  BY DEF IInv, TeamsOwned, LiveTeams, CreateGroup
<1>4. GroupsRooted'
  BY DEF IInv, GroupsRooted, IdsUsed, InScope, LiveTeams, LiveMedia, LiveGroups,
    CreateGroup, MayEnter
<1>5. IdsUsed'
  BY DEF IInv, IdsUsed, LiveTeams, LiveMedia, LiveGroups, CreateGroup
<1>6. DeletionPrepared'
  BY DEF DeletionPrepared, CreateGroup, Leased
<1> QED BY <1>1, <1>2, <1>3, <1>4, <1>5, <1>6 DEF IInv

LEMMA AddItemKeeps ==
    ASSUME IInv, NEW a \in Users, NEW g \in Groups, NEW m \in Media, AddItem(a, g, m)
    PROVE  IInv'
<1>1. TypeOK'
  BY DEF IInv, TypeOK, AddItem
<1>2. AdministratorRemains'
  BY DEF IInv, AdministratorRemains, AddItem
<1>3. TeamsOwned'
  BY DEF IInv, TeamsOwned, LiveTeams, AddItem
<1>4. GroupsRooted'
  BY DEF IInv, GroupsRooted, NoMedia, InScope, LiveTeams, LiveMedia, LiveGroups,
    AddItem, CanManageGroup, CanViewGroup
<1>5. IdsUsed'
  BY DEF IInv, IdsUsed, LiveTeams, LiveMedia, LiveGroups, AddItem
<1>6. DeletionPrepared'
  BY DEF DeletionPrepared, AddItem, Leased
<1> QED BY <1>1, <1>2, <1>3, <1>4, <1>5, <1>6 DEF IInv

LEMMA RemoveItemKeeps ==
    ASSUME IInv, NEW a \in Users, NEW g \in Groups, NEW m \in Media, RemoveItem(a, g, m)
    PROVE  IInv'
<1>1. TypeOK'
  BY DEF IInv, TypeOK, RemoveItem
<1>2. AdministratorRemains'
  BY DEF IInv, AdministratorRemains, RemoveItem
<1>3. TeamsOwned'
  BY DEF IInv, TeamsOwned, LiveTeams, RemoveItem
<1>4. GroupsRooted'
  BY DEF IInv, GroupsRooted, InScope, LiveTeams, LiveMedia, LiveGroups, RemoveItem
<1>5. IdsUsed'
  BY DEF IInv, IdsUsed, LiveTeams, LiveMedia, LiveGroups, RemoveItem
<1>6. DeletionPrepared'
  BY TenancyAssumption DEF IInv, TypeOK, DeletionPrepared, RemoveItem
<1> QED BY <1>1, <1>2, <1>3, <1>4, <1>5, <1>6 DEF IInv

LEMMA RemoveGroupKeeps ==
    ASSUME IInv, NEW a \in Users, NEW g \in Groups, RemoveGroup(a, g)
    PROVE  IInv'
<1>1. TypeOK'
  BY DEF IInv, TypeOK, RemoveGroup
<1>2. AdministratorRemains'
  BY DEF IInv, AdministratorRemains, RemoveGroup
<1>3. TeamsOwned'
  BY DEF IInv, TeamsOwned, LiveTeams, RemoveGroup
<1>4. GroupsRooted'
  BY DEF IInv, TypeOK, GroupsRooted, InScope, LiveTeams, LiveMedia, LiveGroups,
    RemoveGroup
<1>5. IdsUsed'
  BY DEF IInv, IdsUsed, LiveTeams, LiveMedia, LiveGroups, RemoveGroup
<1>6. DeletionPrepared'
  BY TenancyAssumption DEF IInv, TypeOK, DeletionPrepared, NoGroup, RemoveGroup
<1> QED BY <1>1, <1>2, <1>3, <1>4, <1>5, <1>6 DEF IInv

LEMMA TransferKeeps ==
    ASSUME IInv, NEW a \in Users, NEW u \in Users, Transfer(a, u)
    PROVE  IInv'
<1>1. TypeOK'
  BY TenancyAssumption DEF IInv, TypeOK, NoMedia, NoGroup, NoDeletion, LiveTeams,
    LiveMedia, LiveGroups, Transfer, Owned, Handed, GlobalAdmin, Leased, rowVars
<1>2. AdministratorRemains'
  BY DEF IInv, AdministratorRemains, Transfer
<1>3. TeamsOwned'
  BY DEF IInv, TypeOK, TeamsOwned, LiveTeams, Transfer, Handed
<1>4. GroupsRooted'
  BY TenancyAssumption DEF IInv, TypeOK, GroupsRooted, NoMedia, InScope, LiveTeams,
    LiveMedia, LiveGroups, Transfer, Handed
<1>5. IdsUsed'
  BY TenancyAssumption DEF IInv, IdsUsed, NoMedia, LiveTeams, LiveMedia, LiveGroups,
    Transfer, Owned, Handed
<1>6. DeletionPrepared'
  <2>1. /\ up /\ u \in users /\ a \in admins \cap users /\ a # u
        /\ del' = [target |-> u, step |-> "sessions"]
        /\ UNCHANGED <<users, admins, up>>
    BY DEF Transfer, Leased, GlobalAdmin
  <2>2. PICK heir \in [Owned(u) -> users] :
          /\ \A t \in Owned(u) : heir[t] \in Heirs(a, u, t)
          /\ teamOwner' = [t \in Teams |-> Handed(u, heir, t)]
    BY DEF Transfer
  <2>3. \A t \in Owned(u) : heir[t] # u
    BY <2>1, <2>2 DEF Heirs
  <2>4. \A t \in Teams : teamOwner'[t] # u
    BY <2>1, <2>2, <2>3, TenancyAssumption DEF Handed, Owned, LiveTeams
  <2> QED BY <2>1, <2>4 DEF DeletionPrepared
<1> QED BY <1>1, <1>2, <1>3, <1>4, <1>5, <1>6 DEF IInv

LEMMA RemoveSessionKeeps ==
    ASSUME IInv, NEW m \in Media, RemoveSession(m)
    PROVE  IInv'
<1>1. TypeOK'
  BY DEF IInv, TypeOK, RemoveSession, Drop
<1>2. AdministratorRemains'
  BY DEF IInv, AdministratorRemains, RemoveSession
<1>3. TeamsOwned'
  BY DEF IInv, TeamsOwned, LiveTeams, RemoveSession
<1>4. GroupsRooted'
  BY DEF IInv, TypeOK, GroupsRooted, InScope, LiveTeams, LiveMedia, LiveGroups,
    RemoveSession, Drop
<1>5. IdsUsed'
  BY DEF IInv, IdsUsed, LiveTeams, LiveMedia, LiveGroups, RemoveSession, Drop
<1>6. DeletionPrepared'
  BY DEF IInv, DeletionPrepared, RemoveSession
<1> QED BY <1>1, <1>2, <1>3, <1>4, <1>5, <1>6 DEF IInv

LEMMA PrepareGroupsKeeps ==
    ASSUME IInv, PrepareGroups
    PROVE  IInv'
<1>1. TypeOK'
  <2>1. group' \in [Groups -> [owner : Users, team : Teams \cup {None}] \cup {NoGroup}]
    <3>1. ASSUME NEW g \in Groups, group[g].team \in LiveTeams
          PROVE  [group[g] EXCEPT !.owner = teamOwner[group[g].team]]
                   \in [owner : Users, team : Teams \cup {None}]
      <4>1. group[g] # NoGroup /\ teamOwner[group[g].team] \in Users
        BY <3>1, TenancyAssumption DEF IInv, TypeOK, LiveTeams, NoGroup
      <4>2. group[g] \in [owner : Users, team : Teams \cup {None}]
        BY <4>1 DEF IInv, TypeOK
      <4> QED BY <4>1, <4>2
    <3> QED BY <3>1 DEF IInv, TypeOK, PrepareGroups
  <2>2. \A g \in Groups : group'[g] # NoGroup => group'[g].owner \in Users
    BY <2>1
  <2>3. item' \in [Groups -> [Media -> Users \cup {None}]]
    BY <2>2 DEF IInv, TypeOK, PrepareGroups
  <2>4. /\ del' \in [target : Users, step : {"sessions", "media"}] \cup {NoDeletion}
        /\ UNCHANGED <<users, admins, teamOwner, role, media, used, up, crashes, edits>>
    BY DEF IInv, TypeOK, PrepareGroups, NoDeletion
  <2> QED BY <2>1, <2>3, <2>4 DEF IInv, TypeOK
<1>2. AdministratorRemains'
  BY DEF IInv, AdministratorRemains, PrepareGroups
<1>3. TeamsOwned'
  BY DEF IInv, TeamsOwned, LiveTeams, PrepareGroups
<1>4. GroupsRooted'
  BY TenancyAssumption DEF IInv, TypeOK, GroupsRooted, TeamsOwned, NoDeletion, InScope,
    LiveTeams, LiveMedia, LiveGroups, PrepareGroups
<1>5. IdsUsed'
  BY TenancyAssumption DEF IInv, IdsUsed, NoGroup, LiveTeams, LiveMedia, LiveGroups,
    PrepareGroups
<1>6. DeletionPrepared'
  BY TenancyAssumption DEF IInv, TypeOK, DeletionPrepared, NoDeletion, NoGroup,
    LiveTeams, PrepareGroups
<1> QED BY <1>1, <1>2, <1>3, <1>4, <1>5, <1>6 DEF IInv

LEMMA RemoveAssetKeeps ==
    ASSUME IInv, NEW m \in Media, RemoveAsset(m)
    PROVE  IInv'
<1>1. TypeOK'
  BY DEF IInv, TypeOK, RemoveAsset, Drop
<1>2. AdministratorRemains'
  BY DEF IInv, AdministratorRemains, RemoveAsset
<1>3. TeamsOwned'
  BY DEF IInv, TeamsOwned, LiveTeams, RemoveAsset
<1>4. GroupsRooted'
  BY DEF IInv, TypeOK, GroupsRooted, InScope, LiveTeams, LiveMedia, LiveGroups,
    RemoveAsset, Drop
<1>5. IdsUsed'
  BY DEF IInv, IdsUsed, LiveTeams, LiveMedia, LiveGroups, RemoveAsset, Drop
<1>6. DeletionPrepared'
  BY TenancyAssumption DEF IInv, TypeOK, DeletionPrepared, RemoveAsset, Drop
<1> QED BY <1>1, <1>2, <1>3, <1>4, <1>5, <1>6 DEF IInv

LEMMA RemoveAccountKeeps ==
    ASSUME IInv, RemoveAccount
    PROVE  IInv'
<1>1. TypeOK'
  BY DEF IInv, TypeOK, RemoveAccount
<1>2. AdministratorRemains'
  BY DEF IInv, AdministratorRemains, DeletionPrepared, NoDeletion, RemoveAccount
<1>3. TeamsOwned'
  BY DEF IInv, TeamsOwned, DeletionPrepared, NoDeletion, LiveTeams, RemoveAccount
<1>4. GroupsRooted'
  BY DEF IInv, GroupsRooted, DeletionPrepared, NoDeletion, InScope, LiveTeams,
    LiveMedia, LiveGroups, RemoveAccount
<1>5. IdsUsed'
  BY DEF IInv, IdsUsed, LiveTeams, LiveMedia, LiveGroups, RemoveAccount
<1>6. DeletionPrepared'
  BY DEF DeletionPrepared, RemoveAccount
<1> QED BY <1>1, <1>2, <1>3, <1>4, <1>5, <1>6 DEF IInv

LEMMA DeletionFailsKeeps ==
    ASSUME IInv, DeletionFails
    PROVE  IInv'
<1>1. TypeOK'
  BY DEF IInv, TypeOK, DeletionFails, rowVars
<1>2. AdministratorRemains'
  BY DEF IInv, AdministratorRemains, DeletionFails, rowVars
<1>3. TeamsOwned'
  BY DEF IInv, TeamsOwned, LiveTeams, DeletionFails, rowVars
<1>4. GroupsRooted'
  BY DEF IInv, GroupsRooted, InScope, LiveTeams, LiveMedia, LiveGroups, DeletionFails,
    rowVars
<1>5. IdsUsed'
  BY DEF IInv, IdsUsed, LiveTeams, LiveMedia, LiveGroups, DeletionFails, rowVars
<1>6. DeletionPrepared'
  BY DEF DeletionPrepared, DeletionFails
<1> QED BY <1>1, <1>2, <1>3, <1>4, <1>5, <1>6 DEF IInv

LEMMA CrashKeeps ==
    ASSUME IInv, Crash
    PROVE  IInv'
<1>1. TypeOK'
  <2>1. crashes' \in 0 .. MaxCrashes
    BY TenancyAssumption DEF IInv, TypeOK, Crash
  <2> QED BY <2>1 DEF IInv, TypeOK, Crash, rowVars
<1>2. AdministratorRemains'
  BY DEF IInv, AdministratorRemains, Crash, rowVars
<1>3. TeamsOwned'
  BY DEF IInv, TeamsOwned, LiveTeams, Crash, rowVars
<1>4. GroupsRooted'
  BY DEF GroupsRooted, Crash
<1>5. IdsUsed'
  BY DEF IInv, IdsUsed, LiveTeams, LiveMedia, LiveGroups, Crash, rowVars
<1>6. DeletionPrepared'
  BY DEF DeletionPrepared, Crash
<1> QED BY <1>1, <1>2, <1>3, <1>4, <1>5, <1>6 DEF IInv

LEMMA EditKeeps ==
    ASSUME IInv, Edit
    PROVE  IInv'
<1>1. TypeOK'
  <2>1. edits' \in 0 .. MaxEdits
    BY TenancyAssumption DEF IInv, TypeOK, Edit
  <2>2. users' \subseteq Users /\ teamOwner' \in [Teams -> Users \cup {None}]
    BY DEF IInv, TypeOK, Edit, LiveTeams
  <2>3. media' \in [Media -> [owner : Users, team : Teams \cup {None},
                             kind : {"session", "image"}] \cup {NoMedia}]
    BY DEF IInv, TypeOK, Edit, LiveTeams, LiveMedia
  <2> QED BY <2>1, <2>2, <2>3 DEF IInv, TypeOK, Edit
<1>2. AdministratorRemains'
  BY DEF IInv, AdministratorRemains, Edit
<1>3. TeamsOwned'
  BY DEF IInv, TypeOK, TeamsOwned, LiveTeams, Edit, Owned
<1>4. GroupsRooted'
  BY DEF GroupsRooted, Edit
<1>5. IdsUsed'
  BY DEF IInv, TypeOK, IdsUsed, LiveTeams, LiveMedia, LiveGroups, Edit
<1>6. DeletionPrepared'
  BY DEF IInv, DeletionPrepared, Edit
<1> QED BY <1>1, <1>2, <1>3, <1>4, <1>5, <1>6 DEF IInv

LEMMA StartupKeeps ==
    ASSUME IInv, Startup
    PROVE  IInv'
<1>1. TypeOK'
  BY TenancyAssumption DEF IInv, TypeOK, NoGroup, NoDeletion, LiveTeams, LiveMedia,
    LiveGroups, Startup, RepairedGroup, Leased, rowVars
<1>2. AdministratorRemains'
  BY DEF IInv, AdministratorRemains, Startup
<1>3. TeamsOwned'
  BY DEF IInv, TeamsOwned, LiveTeams, Startup
<1>4. GroupsRooted'
  <2>1. /\ group' = [g \in Groups |-> RepairedGroup(g)]
        /\ item' = [g \in Groups |-> [m \in Media |->
              IF item[g][m] = None \/ group'[g] = NoGroup \/ ~InScope(group'[g], m)
              THEN None
              ELSE IF item[g][m] \notin users THEN group'[g].owner
              ELSE item[g][m]]]
        /\ UNCHANGED <<users, teamOwner, media>>
    BY DEF Startup
  <2>2. \A g \in Groups : group'[g] # NoGroup =>
          group'[g].owner \in users /\ group'[g].team \in LiveTeams \cup {None}
    BY <2>1 DEF IInv, TypeOK, RepairedGroup, NoGroup
  <2>3. ASSUME NEW g \in Groups, NEW m \in Media, item'[g][m] # None
        PROVE  /\ group'[g] # NoGroup /\ m \in LiveMedia /\ InScope(group'[g], m)
               /\ item'[g][m] \in users
    <3>1. group'[g] # NoGroup /\ InScope(group'[g], m)
      BY <2>1, <2>3
    <3>2. m \in LiveMedia
      BY <3>1 DEF InScope, LiveMedia, NoMedia
    <3>3. item'[g][m] \in users
      BY <2>1, <2>2, <2>3, <3>1
    <3> QED BY <3>1, <3>2, <3>3
  <2>4. LiveTeams' = LiveTeams /\ LiveMedia' = LiveMedia
    BY <2>1 DEF LiveTeams, LiveMedia
  <2>5. NoGroup' = NoGroup
    BY DEF NoGroup
  <2>6. \A g \in LiveGroups' : /\ group'[g].owner \in users'
                               /\ group'[g].team \in LiveTeams' \cup {None}
    BY <2>1, <2>2, <2>4, <2>5 DEF LiveGroups
  <2>7. \A g \in Groups, m \in Media : item'[g][m] # None =>
          /\ g \in LiveGroups' /\ m \in LiveMedia' /\ InScope(group[g], m)'
          /\ item'[g][m] \in users'
    BY <2>1, <2>3, <2>4, <2>5 DEF LiveGroups, InScope
  <2> QED BY <2>6, <2>7 DEF GroupsRooted
<1>5. IdsUsed'
  BY DEF IInv, IdsUsed, NoGroup, LiveTeams, LiveMedia, LiveGroups, Startup,
    RepairedGroup
<1>6. DeletionPrepared'
  BY DEF IInv, DeletionPrepared, Startup
<1> QED BY <1>1, <1>2, <1>3, <1>4, <1>5, <1>6 DEF IInv

-----------------------------------------------------------------------------
(* The theorems *)

LEMMA InitHolds == ASSUME Init PROVE IInv
<1> USE TenancyAssumption DEF Init
<1>1. TypeOK
  BY DEF TypeOK, NoMedia, NoGroup, NoDeletion
<1>2. AdministratorRemains
  BY DEF AdministratorRemains
<1>3. LiveTeams = {} /\ LiveMedia = {} /\ LiveGroups = {}
  BY DEF LiveTeams, LiveMedia, LiveGroups
<1>4. TeamsOwned /\ GroupsRooted /\ IdsUsed
  BY <1>3 DEF TeamsOwned, GroupsRooted, IdsUsed
<1>5. DeletionPrepared
  BY DEF DeletionPrepared
<1> QED BY <1>1, <1>2, <1>4, <1>5 DEF IInv

LEMMA StutterKeeps == ASSUME IInv, UNCHANGED vars PROVE IInv'
<1> USE DEF vars, rowVars
<1>1. TypeOK' /\ AdministratorRemains' /\ TeamsOwned'
  BY DEF IInv, TypeOK, AdministratorRemains, TeamsOwned, LiveTeams
<1>2. GroupsRooted' /\ IdsUsed'
  BY DEF IInv, GroupsRooted, IdsUsed, LiveTeams, LiveMedia, LiveGroups, InScope
<1>3. DeletionPrepared'
  BY DEF IInv, DeletionPrepared
<1> QED BY <1>1, <1>2, <1>3 DEF IInv

LEMMA InvariantKept == IInv /\ [Next]_vars => IInv'
<1> SUFFICES ASSUME IInv, Next PROVE IInv'
  BY StutterKeeps
<1>1. ASSUME NEW a \in Users, NEW u \in Users,
             Register(u) \/ CreateUser(a, u) \/ SetRole(a, u) \/ Transfer(a, u)
      PROVE  IInv'
  BY <1>1, RegisterKeeps, CreateUserKeeps, SetRoleKeeps, TransferKeeps
<1>2. ASSUME NEW a \in Users, NEW t \in Teams, CreateTeam(a, t) \/ DissolveTeam(a, t)
      PROVE  IInv'
  BY <1>2, CreateTeamKeeps, DissolveTeamKeeps
<1>3. ASSUME NEW a \in Users, NEW u \in Users, NEW t \in Teams,
             AddMember(a, t, u) \/ RemoveMember(a, t, u) \/ ChangeMemberRole(a, t, u)
      PROVE  IInv'
  BY <1>3, AddMemberKeeps, RemoveMemberKeeps, ChangeMemberRoleKeeps
<1>4. ASSUME NEW a \in Users, NEW m \in Media, NEW t \in Teams \cup {None},
             DeleteMedia(a, m) \/ Upload(a, m, t)
      PROVE  IInv'
  BY <1>4, DeleteMediaKeeps, UploadKeeps
<1>5. ASSUME NEW m \in Media, Publish(m) \/ RemoveSession(m) \/ RemoveAsset(m)
      PROVE  IInv'
  BY <1>5, PublishKeeps, RemoveSessionKeeps, RemoveAssetKeeps
<1>6. ASSUME NEW a \in Users, NEW g \in Groups, NEW t \in Teams \cup {None},
             CreateGroup(a, g, t) \/ RemoveGroup(a, g)
      PROVE  IInv'
  BY <1>6, CreateGroupKeeps, RemoveGroupKeeps
<1>7. ASSUME NEW a \in Users, NEW g \in Groups, NEW m \in Media,
             AddItem(a, g, m) \/ RemoveItem(a, g, m)
      PROVE  IInv'
  BY <1>7, AddItemKeeps, RemoveItemKeeps
<1>8. CASE PrepareGroups \/ RemoveAccount \/ DeletionFails
  BY <1>8, PrepareGroupsKeeps, RemoveAccountKeeps, DeletionFailsKeeps
<1>9. CASE Crash \/ Edit \/ Startup
  BY <1>9, CrashKeeps, EditKeeps, StartupKeeps
<1>10. Root \in Users /\ None \in Teams \cup {None}
  BY TenancyAssumption
<1> QED
  BY <1>1, <1>2, <1>3, <1>4, <1>5, <1>6, <1>7, <1>8, <1>9, <1>10 DEF Next

LEMMA InvariantHolds == Spec => []IInv
<1>1. Init => IInv
  BY InitHolds
<1> QED BY <1>1, InvariantKept, PTL DEF Spec

\* Every row has its type, whoever acts.
THEOREM TypesHold == Spec => []TypeOK
<1>1. IInv => TypeOK
  BY DEF IInv
<1> QED BY <1>1, InvariantHolds, PTL

\* Demotions and deletions (set_user_role, delete_user) never leave the system
\* without an administrator.
THEOREM AnAdministratorRemains == Spec => []AdministratorRemains
<1>1. IInv => AdministratorRemains
  BY DEF IInv
<1> QED BY <1>1, InvariantHolds, PTL

\* A team always has an owner with an account and a membership, between the
\* commits of delete_user too.
THEOREM TeamsStayOwned == Spec => []TeamsOwned
<1>1. IInv => TeamsOwned
  BY DEF IInv
<1> QED BY <1>1, InvariantHolds, PTL

\* While the process serves, no group or item names what is gone, for any number
\* of groups, assets and teams.
THEOREM GroupsStayRooted == Spec => []GroupsRooted
<1>1. IInv => GroupsRooted
  BY DEF IInv
<1> QED BY <1>1, InvariantHolds, PTL

\* delete_user removes personal assets and sessions of its account and nothing
\* else, however often it fails and is repeated.
THEOREM DeletionsSpareTeams == Spec => DeletionSparesTeams
<1> DEFINE Spared == \A m \in Media :
         (del # NoDeletion /\ m \in LiveMedia /\ media'[m] = NoMedia) =>
            media[m].team = None /\ media[m].owner = del.target
<1>1. ASSUME IInv, Next PROVE Spared
  <2> SUFFICES ASSUME NEW m \in Media, del # NoDeletion, m \in LiveMedia,
                      media'[m] = NoMedia
               PROVE  media[m].team = None /\ media[m].owner = del.target
    OBVIOUS
  <2>1. up
    BY <1>1 DEF IInv, DeletionPrepared
  <2>2. media' # media
    BY DEF LiveMedia
  <2>3. \E n \in Media : RemoveSession(n) \/ RemoveAsset(n)
    BY ZenonT(60), <1>1, <2>1, <2>2 DEF Next, Register, CreateUser, NewAccount, SetRole,
       CreateTeam, DissolveTeam, AddMember, RemoveMember, ChangeMemberRole, Upload,
       Publish, DeleteMedia, CreateGroup, AddItem, RemoveItem, RemoveGroup,
       Transfer, PrepareGroups, RemoveAccount, DeletionFails, Crash, Edit, Startup,
       Leased, rowVars
  <2>4. PICK n \in Media :
          /\ n \in Personal(del.target, "session") \cup Personal(del.target, "image")
          /\ media' = [media EXCEPT ![n] = NoMedia]
    BY <2>3 DEF RemoveSession, RemoveAsset, Drop
  <2>5. n = m
    BY <1>1, <2>4 DEF IInv, TypeOK, LiveMedia
  <2> QED BY <2>4, <2>5 DEF Personal
<1>2. ASSUME UNCHANGED vars PROVE Spared
  BY <1>2 DEF vars, rowVars, LiveMedia
<1>3. IInv /\ [Next]_vars => [Spared]_vars
  BY <1>1, <1>2
<1> QED BY <1>3, InvariantHolds, PTL DEF Spec, DeletionSparesTeams
=============================================================================
