---------------------------- MODULE IdentityProofs ----------------------------
(***************************************************************************)
(* Users, organizations, logins and requests, for every set of them, every *)
(* installation to start from and every number of commands.                *)
(*                                                                         *)
(* An organization keeps its owner because a membership is only ever       *)
(* overwritten by a command that counts the owners, and a user that is     *)
(* provisioned has no membership yet (MembersExist).  A request stays      *)
(* within its login because a callback never writes a session that was     *)
(* inserted before (SessionsFixed).  Material and secret are current       *)
(* because whatever they depend on moves the version of the issuer         *)
(* (VersionsAgree, JobsAgree).                                             *)
(***************************************************************************)
EXTENDS Identity, FiniteSetTheorems, TLAPS

-----------------------------------------------------------------------------
(* The inductive invariant                                                  *)

Statuses == {"none", "active", "disabled"}
Kinds == {"disabled", "join", "personal"}

Material == [id : Nat, source : Sources]
Issuer == [status : {"active", "disabled"}, version : Nat \ {0}, ceiling : SUBSET Caps,
           mode : Modes, onboards : BOOLEAN, source : Sources, material : Material,
           profile : Profiles \cup {None}]
Tables == [users : [Users -> Statuses], orgs : [Orgs -> {"none", "active", "suspended"}],
           members : [Orgs -> [Users -> Roles]], admins : SUBSET Users,
           bindings : [Subjects -> Users \cup {None}], removed : SUBSET Subjects, issuer : Issuer]

Ways == Callbacks \cup {None, "jwt", "seed"}
Authority == [user : Users \cup {None}, subject : Subjects \cup {None}, caps : SUBSET Caps,
              sys : BOOLEAN, orgs : [Orgs -> SUBSET Caps], active : SUBSET Orgs, via : Ways]
Session == [id : Authority, live : BOOLEAN]
Invitation == [state : {"none", "pending", "accepted", "revoked"}, org : Orgs \cup {None},
               role : Roles, byOwner : BOOLEAN]
LoginRow == [state : {"none", "pending", "consumed", "gone"}, version : Nat, sessions : Nat]
Stages == {"idle", "exchange", "provision", "session"}
Callback == [stage : Stages, login : Logins \cup {None}, gen : Tables \cup {None},
             subject : Subjects \cup {None}, claim : Claims \cup {Absent}, id : Authority]
Job == [version : Nat, about : Sources \cup Profiles \cup {None}, material : Nat, fence : Nat]
Lease == [fence : Nat, valid : BOOLEAN]

TypeOK ==
    /\ db \in Tables /\ published \in Tables
    /\ invitations \in [Invites -> Invitation] /\ requests \in [Requests -> Authority]
    /\ sessions \in [Callbacks -> Session]
    /\ logins \in [Logins -> LoginRow] /\ callbacks \in [Callbacks -> Callback]
    /\ onboarding \in Kinds /\ secret \in Sources \cup Profiles \cup {None}
    /\ refresh \in Job /\ sealing \in Job /\ lease \in Lease
    /\ commands \in Nat /\ starts \in Nat

\* Every active organization has an owner.
OwnersKept == \A o \in Orgs : db.orgs[o] = "active" => \E u \in Users : db.members[o][u] = "owner"

\* An invitation in use is for an organization, and one for an owner is by an owner.
InvitationFits(v) ==
    /\ v.state = "pending" => v.org \in Orgs
    /\ v.state \in {"pending", "accepted"} /\ v.role = "owner" => v.byOwner
InvitationsFit == \A i \in Invites : InvitationFits(invitations[i])

\* A user that does not exist has no membership.
MembersExist == \A u \in Users, o \in Orgs : db.users[u] = "none" => db.members[o][u] = "none"

\* A user somebody acts for, or some snapshot knows, exists.
Exists(id) == id.user # None => db.users[id.user] # "none"
Known(snap) == \A u \in Users : snap.users[u] # "none" => db.users[u] # "none"
PrincipalsExist ==
    /\ \A r \in Requests : Exists(requests[r])
    /\ \A c \in Callbacks : Exists(sessions[c].id) /\ Exists(callbacks[c].id)
    /\ Known(published)
    /\ \A c \in Callbacks : callbacks[c].stage \in {"exchange", "provision"} => Known(callbacks[c].gen)

\* The state a callback has got, by its stage.
StageAgrees(b) ==
    /\ b.stage = "idle" => b = Idle
    /\ b.stage # "idle" => b.login \in Logins
    /\ b.stage \in {"exchange", "provision"} => b.gen \in Tables
    /\ b.stage = "provision" => b.subject \in Subjects
    /\ b.stage = "session" => b.id.caps # {}
StagesAgree == \A c \in Callbacks : StageAgrees(callbacks[c])

\* A login was not used, or one callback works for it, or it may have a session.
LoginsOnce ==
    /\ \A l \in Logins : logins[l].sessions <= 1
    /\ \A l \in Logins : logins[l].state \in {"none", "pending"} =>
           logins[l].sessions = 0 /\ \A c \in Callbacks : callbacks[c].login # l
    /\ \A c \in Callbacks, l \in Logins : callbacks[c].login = l => logins[l].sessions = 0
    /\ \A c, d \in Callbacks : callbacks[c].login = callbacks[d].login /\ callbacks[c].login # None
           => c = d

\* The request has no more than the login of its session proved.
Within(id, captured) ==
    /\ id.sys => captured.sys
    /\ id.caps \subseteq captured.caps
    /\ \A o \in Orgs : id.orgs[o] \subseteq captured.orgs[o]

\* A session that requests may use is not one that a callback is about to write.
SessionsFixed ==
    /\ \A c \in Callbacks : callbacks[c].stage # "idle" => sessions[c].id.caps = {} /\ ~sessions[c].live
    /\ \A c \in Callbacks : sessions[c].live => sessions[c].id.caps # {}
    /\ \A r \in Requests : requests[r].via \in Callbacks =>
           /\ sessions[requests[r].via].id.caps # {}
           /\ Within(requests[r], sessions[requests[r].via].id)

\* A snapshot of the version in force has the source in force.
VersionsAgree ==
    /\ published.issuer.version <= db.issuer.version
    /\ published.issuer.version = db.issuer.version => published.issuer.source = db.issuer.source

\* A job of the version in force is about the source or the profile in force.
JobsAgree ==
    /\ refresh.version <= db.issuer.version /\ sealing.version <= db.issuer.version
    /\ refresh.version = db.issuer.version => refresh.about = db.issuer.source
    /\ sealing.version = db.issuer.version => sealing.about = db.issuer.profile

IInv == /\ TypeOK /\ OwnersKept /\ InvitationsFit /\ MembersExist /\ PrincipalsExist
        /\ StagesAgree /\ LoginsOnce /\ SessionsFixed
        /\ VersionsAgree /\ JobsAgree /\ IssuerMaterialIsCurrent

-----------------------------------------------------------------------------
(* What a step may do to each part of the state                             *)

\* The version of the issuer grows with its source and its profile.
IssuerMoves ==
    /\ db'.issuer.version >= db.issuer.version
    /\ db'.issuer.version = db.issuer.version =>
          db'.issuer.source = db.issuer.source /\ db'.issuer.profile = db.issuer.profile

UsersStay == \A u \in Users : db.users[u] # "none" => db'.users[u] # "none"

DbStep == db' \in Tables /\ OwnersKept' /\ MembersExist' /\ UsersStay /\ IssuerMoves

\* Sessions may end, requests may end.
SessionsKept ==
    /\ sessions' \in [Callbacks -> Session]
    /\ \A c \in Callbacks : /\ sessions'[c].id = sessions[c].id
                            /\ sessions'[c].live => sessions[c].live
RequestsKept ==
    /\ requests' \in [Requests -> Authority]
    /\ \A r \in Requests : requests'[r] \in {requests[r], NoAuthority}

OthersTyped ==
    /\ onboarding' \in Kinds /\ secret' \in Sources \cup Profiles \cup {None}
    /\ refresh' \in Job /\ sealing' \in Job /\ lease' \in Lease
    /\ commands' \in Nat /\ starts' \in Nat

LEMMA NoAuthorityTyped ==
    NoAuthority \in Authority /\ NoAuthority.user = None /\ NoAuthority.via = None /\ NoAuthority.caps = {}
BY DEF NoAuthority, Authority, Ways

LEMMA IdleTyped ==
    /\ Idle \in Callback /\ Idle.stage = "idle" /\ Idle.login = None /\ Idle.gen = None
    /\ Idle.id = NoAuthority
BY NoAuthorityTyped DEF Idle, Callback, Stages

LEMMA NoJobTyped == NoJob \in Job /\ NoJob.version = 0
BY DEF NoJob, Job

LEMMA SameDb == ASSUME IInv, UNCHANGED db PROVE DbStep
BY DEF IInv, TypeOK, DbStep, OwnersKept, MembersExist, UsersStay, IssuerMoves, Tables, Issuer

LEMMA SameSessions == ASSUME IInv, UNCHANGED sessions PROVE SessionsKept
BY DEF IInv, TypeOK, SessionsKept

LEMMA RevokeKeeps == ASSUME IInv, NEW S, Revoke(S) PROVE SessionsKept
BY DEF IInv, TypeOK, SessionsKept, Session, Revoke

LEMMA DoneKeeps == ASSUME IInv, NEW r \in Requests, Done(r) PROVE RequestsKept
BY NoAuthorityTyped DEF IInv, TypeOK, RequestsKept, Done

LEMMA SameRequests == ASSUME IInv, UNCHANGED requests PROVE RequestsKept
BY DEF IInv, TypeOK, RequestsKept

LEMMA PrincipalsStay ==
    ASSUME IInv, UsersStay, SessionsKept, RequestsKept, UNCHANGED <<published, callbacks>>
    PROVE  PrincipalsExist'
<1>1. ASSUME NEW id \in Authority, Exists(id) PROVE (id.user # None => db'.users[id.user] # "none")
    BY <1>1 DEF Exists, UsersStay, Authority
<1>2. ASSUME NEW r \in Requests PROVE Exists(requests[r])'
    <2>1. CASE requests'[r] = requests[r]
        <3>1. requests[r] \in Authority /\ Exists(requests[r])
            BY DEF IInv, TypeOK, PrincipalsExist
        <3>q. QED
            BY <1>1, <2>1, <3>1 DEF Exists
    <2>2. CASE requests'[r] = NoAuthority
        BY <2>2, NoAuthorityTyped DEF Exists
    <2>q. QED
        BY <2>1, <2>2 DEF RequestsKept
<1>3. ASSUME NEW c \in Callbacks PROVE Exists(sessions[c].id)' /\ Exists(callbacks[c].id)'
    <2>1. /\ sessions[c].id \in Authority /\ Exists(sessions[c].id)
          /\ callbacks[c].id \in Authority /\ Exists(callbacks[c].id)
        BY DEF IInv, TypeOK, PrincipalsExist, Session, Callback
    <2>2. sessions'[c].id = sessions[c].id
        BY DEF SessionsKept
    <2>q. QED
        BY <1>1, <2>1, <2>2 DEF Exists
<1>4. Known(published)'
    BY DEF IInv, PrincipalsExist, Known, UsersStay
<1>5. ASSUME NEW c \in Callbacks, callbacks[c].stage \in {"exchange", "provision"}
      PROVE  Known(callbacks[c].gen)'
    BY <1>5 DEF IInv, PrincipalsExist, Known, UsersStay
<1>q. QED
    BY <1>2, <1>3, <1>4, <1>5 DEF PrincipalsExist

\* Commands and jobs, which leave the snapshot and the logins alone.
LEMMA CommandPreserves ==
    ASSUME IInv, DbStep, SessionsKept, RequestsKept, OthersTyped,
           invitations' \in [Invites -> Invitation], InvitationsFit',
           JobsAgree', IssuerMaterialIsCurrent', UNCHANGED <<published, logins, callbacks>>
    PROVE  IInv'
<1>1. TypeOK'
    BY DEF IInv, TypeOK, DbStep, SessionsKept, RequestsKept, OthersTyped
<1>2. PrincipalsExist'
    BY PrincipalsStay DEF DbStep
<1>3. StagesAgree' /\ LoginsOnce'
    BY DEF IInv, StagesAgree, StageAgrees, LoginsOnce
<1>4. SessionsFixed'
    <2>1. \A c \in Callbacks : callbacks'[c].stage # "idle" => sessions'[c].id.caps = {} /\ ~sessions'[c].live
        BY DEF IInv, SessionsFixed, SessionsKept
    <2>2. \A c \in Callbacks : sessions'[c].live => sessions'[c].id.caps # {}
        BY DEF IInv, SessionsFixed, SessionsKept
    <2>3. ASSUME NEW r \in Requests, requests'[r].via \in Callbacks
          PROVE  /\ sessions'[requests'[r].via].id.caps # {}
                 /\ Within(requests'[r], sessions'[requests'[r].via].id)
        <3>1. requests'[r] = requests[r]
            BY <2>3, NoAuthorityTyped, IdentityAssumption DEF RequestsKept
        <3>2. sessions'[requests[r].via].id = sessions[requests[r].via].id
            BY <2>3, <3>1 DEF SessionsKept
        <3>q. QED
            BY <2>3, <3>1, <3>2 DEF IInv, SessionsFixed
    <2>q. QED
        BY <2>1, <2>2, <2>3 DEF SessionsFixed, Within
<1>5. VersionsAgree'
    <2>1. db.issuer.version \in Nat /\ db'.issuer.version \in Nat /\ published.issuer.version \in Nat
        BY DEF IInv, TypeOK, DbStep, Tables, Issuer
    <2>q. QED
        BY <2>1 DEF IInv, VersionsAgree, DbStep, IssuerMoves
<1>q. QED
    BY <1>1, <1>2, <1>3, <1>4, <1>5 DEF IInv, DbStep

\* A job that is under way stays behind, or is over.
LEMMA JobsStay ==
    ASSUME IInv, DbStep, refresh' \in {refresh, NoJob}, sealing' \in {sealing, NoJob}
    PROVE  JobsAgree' /\ refresh' \in Job /\ sealing' \in Job
<1>1. /\ db.issuer.version \in Nat \ {0} /\ db'.issuer.version \in Nat \ {0}
      /\ refresh.version \in Nat /\ sealing.version \in Nat
    BY DEF IInv, TypeOK, DbStep, Tables, Issuer, Job
<1>2. refresh' \in Job /\ sealing' \in Job
    BY NoJobTyped DEF IInv, TypeOK
<1>3. /\ refresh'.version <= db'.issuer.version
      /\ refresh'.version = db'.issuer.version => refresh'.about = db'.issuer.source
    BY <1>1, NoJobTyped DEF IInv, JobsAgree, DbStep, IssuerMoves
<1>4. /\ sealing'.version <= db'.issuer.version
      /\ sealing'.version = db'.issuer.version => sealing'.about = db'.issuer.profile
    BY <1>1, NoJobTyped DEF IInv, JobsAgree, DbStep, IssuerMoves
<1>q. QED
    BY <1>2, <1>3, <1>4 DEF JobsAgree

LEMMA CommitTyped == ASSUME IInv, Commit PROVE commands' \in Nat
BY DEF IInv, TypeOK, Commit

\* A command of the deployment.
LEMMA SystemPreserves ==
    ASSUME IInv, SystemCommand, UNCHANGED sealing, DbStep, SessionsKept, onboarding' \in Kinds,
           secret' \in Sources \cup Profiles \cup {None}, IssuerMaterialIsCurrent'
    PROVE  IInv'
<1>1. UNCHANGED <<logins, callbacks, invitations, requests, published, refresh, lease, starts>> /\ Commit
    BY DEF SystemCommand, logging, people
<1>2. RequestsKept
    BY <1>1, SameRequests
<1>3. JobsAgree' /\ refresh' \in Job /\ sealing' \in Job
    BY <1>1, JobsStay
<1>4. commands' \in Nat /\ starts' \in Nat /\ lease' \in Lease
    BY <1>1, CommitTyped DEF IInv, TypeOK
<1>5. invitations' \in [Invites -> Invitation] /\ InvitationsFit'
    BY <1>1 DEF IInv, TypeOK, InvitationsFit, InvitationFits
<1>q. QED
    BY <1>1, <1>2, <1>3, <1>4, <1>5, CommandPreserves DEF OthersTyped

\* A command of an organization, which leaves the issuer alone.
LEMMA OrgPreserves ==
    ASSUME IInv, NEW r \in Requests, OrgCommand(r), DbStep, db'.issuer = db.issuer, SessionsKept,
           invitations' \in [Invites -> Invitation], InvitationsFit'
    PROVE  IInv'
<1>1. /\ UNCHANGED <<logins, callbacks, refresh, sealing, lease, onboarding, secret, published, starts>>
      /\ Commit /\ Done(r)
    BY DEF OrgCommand, logging, jobs, policy
<1>2. RequestsKept
    BY <1>1, DoneKeeps
<1>3. JobsAgree' /\ refresh' \in Job /\ sealing' \in Job
    BY <1>1, JobsStay
<1>4. OthersTyped
    BY <1>1, <1>3, CommitTyped DEF IInv, TypeOK, OthersTyped
<1>5. IssuerMaterialIsCurrent'
    BY <1>1 DEF IInv, IssuerMaterialIsCurrent
<1>q. QED
    BY <1>1, <1>2, <1>3, <1>4, <1>5, CommandPreserves

-----------------------------------------------------------------------------
(* Changes of the tables                                                    *)

LEMMA UserStep ==
    ASSUME IInv, NEW u \in Users, NEW status \in {"active", "disabled"},
           db' = [db EXCEPT !.users[u] = status]
    PROVE  DbStep /\ db'.issuer = db.issuer
<1>1. db \in Tables
    BY DEF IInv, TypeOK
<1>2. db' \in Tables /\ db'.orgs = db.orgs /\ db'.members = db.members /\ db'.issuer = db.issuer
    BY <1>1 DEF Tables, Statuses
<1>3. \A x \in Users : db'.users[x] = IF x = u THEN status ELSE db.users[x]
    BY <1>1 DEF Tables
<1>4. OwnersKept' /\ MembersExist'
    BY <1>2, <1>3 DEF IInv, OwnersKept, MembersExist
<1>5. UsersStay
    BY <1>3 DEF UsersStay
<1>6. IssuerMoves
    BY <1>1, <1>2 DEF IssuerMoves, Tables, Issuer
<1>q. QED
    BY <1>2, <1>4, <1>5, <1>6 DEF DbStep

\* A change of one membership, of a user that exists.
LEMMA MemberStep ==
    ASSUME IInv, NEW o \in Orgs, NEW u \in Users, NEW role \in Roles,
           db' = [db EXCEPT !.members[o][u] = role], db.users[u] # "none", OwnersKept'
    PROVE  DbStep /\ db'.issuer = db.issuer
<1>1. db \in Tables
    BY DEF IInv, TypeOK
<1>2. db' \in Tables /\ db'.users = db.users /\ db'.issuer = db.issuer
    BY <1>1 DEF Tables
<1>3. \A p \in Orgs, x \in Users :
          db'.members[p][x] = IF p = o /\ x = u THEN role ELSE db.members[p][x]
    BY <1>1 DEF Tables
<1>4. MembersExist'
    BY <1>2, <1>3 DEF IInv, MembersExist
<1>5. UsersStay /\ IssuerMoves
    BY <1>1, <1>2 DEF UsersStay, IssuerMoves, Tables, Issuer
<1>q. QED
    BY <1>2, <1>4, <1>5 DEF DbStep

\* A new membership of a user that had none takes no owner away.
LEMMA JoinKeepsOwners ==
    ASSUME IInv, NEW o \in Orgs, NEW u \in Users, NEW role \in Roles,
           db' = [db EXCEPT !.members[o][u] = role], db.members[o][u] = "none"
    PROVE  OwnersKept'
<1>1. db \in Tables
    BY DEF IInv, TypeOK
<1>2. db'.orgs = db.orgs
    BY <1>1 DEF Tables
<1>3. \A p \in Orgs, x \in Users :
          db'.members[p][x] = IF p = o /\ x = u THEN role ELSE db.members[p][x]
    BY <1>1 DEF Tables
<1>4. SUFFICES ASSUME NEW p \in Orgs, db'.orgs[p] = "active"
               PROVE  \E x \in Users : db'.members[p][x] = "owner"
    BY DEF OwnersKept
<1>5. PICK x \in Users : db.members[p][x] = "owner"
    BY <1>2, <1>4 DEF IInv, OwnersKept
<1>q. QED
    BY <1>3, <1>5

\* The trigger of the tables counts the owners that OwnersKept asks for.
LEMMA TriggerKeepsOwners == ASSUME OwnerTrigger(db') PROVE OwnersKept'
BY DEF OwnerTrigger, OwnersOf, OwnersKept

LEMMA StatusStep ==
    ASSUME IInv, NEW o \in Orgs, NEW status \in {"active", "suspended"},
           db' = [db EXCEPT !.orgs[o] = status], OwnerTrigger(db')
    PROVE  DbStep /\ db'.issuer = db.issuer
<1>1. db \in Tables
    BY DEF IInv, TypeOK
<1>2. db' \in Tables /\ db'.users = db.users /\ db'.members = db.members /\ db'.issuer = db.issuer
    BY <1>1 DEF Tables
<1>3. OwnersKept' /\ MembersExist'
    BY <1>2, TriggerKeepsOwners DEF IInv, MembersExist
<1>4. UsersStay /\ IssuerMoves
    BY <1>1, <1>2 DEF UsersStay, IssuerMoves, Tables, Issuer
<1>q. QED
    BY <1>2, <1>3, <1>4 DEF DbStep

\* A new organization with its owner, who may be new as well.
LEMMA FoundStep ==
    ASSUME IInv, NEW o \in Orgs, NEW u \in Users, db' \in Tables, db'.issuer = db.issuer,
           \A x \in Users : db'.users[x] = IF x = u THEN "active" ELSE db.users[x],
           \A p \in Orgs : db'.orgs[p] = IF p = o THEN "active" ELSE db.orgs[p],
           \A p \in Orgs, x \in Users :
               db'.members[p][x] = IF p = o /\ x = u THEN "owner" ELSE db.members[p][x]
    PROVE  DbStep
<1>1. OwnersKept'
    <2> SUFFICES ASSUME NEW p \in Orgs, db'.orgs[p] = "active"
                 PROVE  \E x \in Users : db'.members[p][x] = "owner"
        BY DEF OwnersKept
    <2>1. CASE p = o
        BY <2>1
    <2>2. CASE p # o
        <3>1. PICK x \in Users : db.members[p][x] = "owner"
            BY <2>2 DEF IInv, OwnersKept
        <3>q. QED
            BY <2>2, <3>1
    <2>q. QED
        BY <2>1, <2>2
<1>2. MembersExist' /\ UsersStay
    BY DEF IInv, MembersExist, UsersStay
<1>3. db.issuer.version \in Nat
    BY DEF IInv, TypeOK, Tables, Issuer
<1>4. IssuerMoves
    BY <1>3 DEF IssuerMoves
<1>q. QED
    BY <1>1, <1>2, <1>4 DEF DbStep

\* Administrators, bindings and removed bindings.
LEMMA GrantStep ==
    ASSUME IInv, db' \in Tables, db'.users = db.users, db'.orgs = db.orgs,
           db'.members = db.members, db'.issuer = db.issuer
    PROVE  DbStep
<1>1. db.issuer.version \in Nat
    BY DEF IInv, TypeOK, Tables, Issuer
<1>2. IssuerMoves /\ UsersStay
    BY <1>1 DEF IssuerMoves, UsersStay
<1>3. OwnersKept' /\ MembersExist'
    BY DEF IInv, OwnersKept, MembersExist
<1>q. QED
    BY <1>2, <1>3 DEF DbStep

\* A change of the issuer that moves its version, or leaves source and profile.
LEMMA IssuerStep ==
    ASSUME IInv, NEW issuer \in Issuer, db' = [db EXCEPT !.issuer = issuer],
           \/ issuer.version = db.issuer.version + 1
           \/ /\ issuer.version = db.issuer.version /\ issuer.source = db.issuer.source
              /\ issuer.profile = db.issuer.profile
    PROVE  DbStep /\ db'.issuer = issuer
<1>1. db \in Tables
    BY DEF IInv, TypeOK
<1>2. /\ db' \in Tables /\ db'.users = db.users /\ db'.orgs = db.orgs /\ db'.members = db.members
      /\ db'.issuer = issuer
    BY <1>1 DEF Tables
<1>3. db.issuer.version \in Nat
    BY <1>1 DEF Tables, Issuer
<1>4. IssuerMoves /\ UsersStay
    BY <1>2, <1>3 DEF IssuerMoves, UsersStay
<1>5. OwnersKept' /\ MembersExist'
    BY <1>2 DEF IInv, OwnersKept, MembersExist
<1>q. QED
    BY <1>2, <1>4, <1>5 DEF DbStep

-----------------------------------------------------------------------------
(* Users, organizations, memberships and invitations                        *)

\* A command of the deployment that leaves the issuer alone.
LEMMA PeoplePreserves ==
    ASSUME IInv, SystemCommand, UNCHANGED <<onboarding, secret, sealing>>,
           DbStep, db'.issuer = db.issuer, SessionsKept
    PROVE  IInv'
<1>1. IssuerMaterialIsCurrent'
    BY DEF IInv, IssuerMaterialIsCurrent
<1>2. onboarding' \in Kinds /\ secret' \in Sources \cup Profiles \cup {None}
    BY DEF IInv, TypeOK
<1>q. QED
    BY <1>1, <1>2, SystemPreserves

LEMMA UserPreserves ==
    ASSUME IInv, NEW u \in Users,
           CreateUser(u) \/ \E status \in {"active", "disabled"} : UpdateUser(u, status)
    PROVE  IInv'
<1>1. CASE CreateUser(u)
    <2>1. db' = [db EXCEPT !.users[u] = "active"] /\ SystemCommand
          /\ UNCHANGED <<onboarding, secret, sealing, sessions>>
        BY <1>1 DEF CreateUser, policy
    <2>2. DbStep /\ db'.issuer = db.issuer
        BY <2>1, UserStep
    <2>q. QED
        BY <2>1, <2>2, SameSessions, PeoplePreserves
<1>2. ASSUME NEW status \in {"active", "disabled"}, UpdateUser(u, status) PROVE IInv'
    <2>1. db' = [db EXCEPT !.users[u] = status] /\ SystemCommand
          /\ UNCHANGED <<onboarding, secret, sealing>>
        BY <1>2 DEF UpdateUser, policy
    <2>2. DbStep /\ db'.issuer = db.issuer
        BY <2>1, UserStep
    <2>3. SessionsKept
        BY <1>2, SameSessions, RevokeKeeps DEF UpdateUser, RevokeUser
    <2>q. QED
        BY <2>1, <2>2, <2>3, PeoplePreserves
<1>q. QED
    BY <1>1, <1>2

LEMMA AdministratorPreserves ==
    ASSUME IInv, NEW u \in Users, GrantAdministrator(u) \/ RevokeAdministrator(u) PROVE IInv'
<1>1. SystemCommand /\ UNCHANGED <<onboarding, secret, sealing>>
    BY DEF GrantAdministrator, RevokeAdministrator, policy
<1>2. SessionsKept
    BY SameSessions, RevokeKeeps DEF GrantAdministrator, RevokeAdministrator, RevokeUser
<1>3. PICK A \in SUBSET Users : db' = [db EXCEPT !.admins = A]
    BY DEF GrantAdministrator, RevokeAdministrator, IInv, TypeOK, Tables
<1>4. /\ db' \in Tables /\ db'.users = db.users /\ db'.orgs = db.orgs /\ db'.members = db.members
      /\ db'.issuer = db.issuer
    BY <1>3 DEF IInv, TypeOK, Tables
<1>q. QED
    BY <1>1, <1>2, <1>4, GrantStep, PeoplePreserves

LEMMA OrganizationPreserves ==
    ASSUME IInv, NEW o \in Orgs,
           \/ \E u \in Users : CreateOrganization(o, u)
           \/ \E status \in {"active", "suspended"} : UpdateOrganization(o, status)
    PROVE  IInv'
<1>0. db \in Tables
    BY DEF IInv, TypeOK
<1>1. ASSUME NEW u \in Users, CreateOrganization(o, u) PROVE IInv'
    <2>1. SystemCommand /\ UNCHANGED <<onboarding, secret, sealing, sessions>> /\ db.users[u] = "active"
        BY <1>1 DEF CreateOrganization, policy
    <2>2. db' = [db EXCEPT !.orgs[o] = "active", !.members[o][u] = "owner"]
        BY <1>1 DEF CreateOrganization
    <2>3. db' \in Tables /\ db'.users = db.users /\ db'.issuer = db.issuer
        BY <1>0, <2>2 DEF Tables, Roles
    <2>4. \A p \in Orgs : db'.orgs[p] = IF p = o THEN "active" ELSE db.orgs[p]
        BY <1>0, <2>2 DEF Tables
    <2>5. \A p \in Orgs, x \in Users :
              db'.members[p][x] = IF p = o /\ x = u THEN "owner" ELSE db.members[p][x]
        BY <1>0, <2>2 DEF Tables
    <2>6. DbStep
        BY <2>1, <2>3, <2>4, <2>5, FoundStep
    <2>q. QED
        BY <2>1, <2>3, <2>6, SameSessions, PeoplePreserves
<1>2. ASSUME NEW status \in {"active", "suspended"}, UpdateOrganization(o, status) PROVE IInv'
    <2>1. SystemCommand /\ UNCHANGED <<onboarding, secret, sealing>>
        BY <1>2 DEF UpdateOrganization, policy
    <2>2. DbStep /\ db'.issuer = db.issuer
        BY <1>2, StatusStep DEF UpdateOrganization
    <2>3. SessionsKept
        BY <1>2, SameSessions, RevokeKeeps DEF UpdateOrganization
    <2>q. QED
        BY <2>1, <2>2, <2>3, PeoplePreserves
<1>q. QED
    BY <1>1, <1>2

LEMMA SameInvitations ==
    ASSUME IInv, UNCHANGED invitations
    PROVE  invitations' \in [Invites -> Invitation] /\ InvitationsFit'
BY DEF IInv, TypeOK, InvitationsFit, InvitationFits

LEMMA MembershipPreserves ==
    ASSUME IInv, NEW r \in Requests, NEW o \in Orgs, NEW u \in Users,
           \/ RemoveMembership(r, o, u)
           \/ \E role \in Roles \ {"none"} : \/ CreateMembership(r, o, u, role)
                                             \/ UpdateMembership(r, o, u, role)
    PROVE  IInv'
<1>1. OrgCommand(r) /\ UNCHANGED invitations
    BY DEF RemoveMembership, CreateMembership, UpdateMembership
<1>2. SessionsKept
    BY SameSessions, RevokeKeeps DEF RemoveMembership, CreateMembership, UpdateMembership, RevokeMember
<1>3. PICK role \in Roles :
          /\ db' = [db EXCEPT !.members[o][u] = role]
          /\ \/ db.users[u] = "active" /\ db.members[o][u] = "none"
             \/ OwnerTrigger(db') /\ db.members[o][u] # "none"
    BY DEF RemoveMembership, CreateMembership, UpdateMembership, Roles
<1>4. db.users[u] # "none"
    BY <1>3 DEF IInv, MembersExist
<1>5. OwnersKept'
    BY <1>3, JoinKeepsOwners, TriggerKeepsOwners
<1>6. DbStep /\ db'.issuer = db.issuer
    BY <1>3, <1>4, <1>5, MemberStep
<1>q. QED
    BY <1>1, <1>2, <1>6, SameInvitations, OrgPreserves

\* Whether an identity has a capability.
LEMMA AllowedTyped == ASSUME NEW r, NEW o, NEW cap PROVE Allowed(r, o, cap) \in BOOLEAN
BY DEF Allowed

LEMMA InvitationPreserves ==
    ASSUME IInv, NEW r \in Requests, NEW i \in Invites,
           \/ ResendInvitation(r, i) \/ RevokeInvitation(r, i)
           \/ \E o \in Orgs, role \in Roles \ {"none"} : CreateInvitation(r, i, o, role)
    PROVE  IInv'
<1>1. OrgCommand(r) /\ UNCHANGED <<db, sessions>>
    BY DEF ResendInvitation, RevokeInvitation, CreateInvitation
<1>2. invitations \in [Invites -> Invitation] /\ InvitationsFit
    BY DEF IInv, TypeOK
<1>3. CASE ResendInvitation(r, i)
    <2> DEFINE b == Allowed(r, invitations[i].org, "owners")
    <2>1. b \in BOOLEAN
        BY AllowedTyped
    <2>2. invitations' = [invitations EXCEPT ![i].byOwner = b] /\ invitations[i].state = "pending"
        BY <1>3 DEF ResendInvitation
    <2>3. invitations[i].role = "owner" => b
        BY <1>3 DEF ResendInvitation, ResendNeeds
    <2> HIDE DEF b
    <2>4. invitations' \in [Invites -> Invitation]
        BY <1>2, <2>1, <2>2 DEF Invitation
    <2>5. ASSUME NEW j \in Invites PROVE InvitationFits(invitations'[j])
        BY <1>2, <2>1, <2>2, <2>3 DEF Invitation, InvitationsFit, InvitationFits
    <2>6. InvitationsFit'
        BY <2>5 DEF InvitationsFit, InvitationFits
    <2>q. QED
        BY <1>1, <2>4, <2>6, SameDb, SameSessions, OrgPreserves
<1>4. CASE RevokeInvitation(r, i)
    <2>2. invitations' = [invitations EXCEPT ![i].state = "revoked"]
        BY <1>4 DEF RevokeInvitation
    <2>4. invitations' \in [Invites -> Invitation]
        BY <1>2, <2>2 DEF Invitation
    <2>5. ASSUME NEW j \in Invites PROVE InvitationFits(invitations'[j])
        BY <1>2, <2>2 DEF Invitation, InvitationsFit, InvitationFits
    <2>6. InvitationsFit'
        BY <2>5 DEF InvitationsFit, InvitationFits
    <2>q. QED
        BY <1>1, <2>4, <2>6, SameDb, SameSessions, OrgPreserves
<1>5. ASSUME NEW o \in Orgs, NEW role \in Roles \ {"none"}, CreateInvitation(r, i, o, role) PROVE IInv'
    <2> DEFINE b == Allowed(r, o, "owners")
               v == [state |-> "pending", org |-> o, role |-> role, byOwner |-> b]
    <2>1. b \in BOOLEAN
        BY AllowedTyped
    <2>2. role = "owner" => b
        BY <1>5 DEF CreateInvitation, CapFor
    <2>3. invitations' = [invitations EXCEPT ![i] = v]
        BY <1>5 DEF CreateInvitation
    <2> HIDE DEF b
    <2>4. v \in Invitation /\ InvitationFits(v)
        BY <2>1, <2>2 DEF Invitation, InvitationFits
    <2> HIDE DEF v
    <2>5. invitations' \in [Invites -> Invitation] /\ InvitationsFit'
        BY <1>2, <2>3, <2>4 DEF InvitationsFit, InvitationFits
    <2>q. QED
        BY <1>1, <2>5, SameDb, SameSessions, OrgPreserves
<1>q. QED
    BY <1>3, <1>4, <1>5

LEMMA AcceptPreserves ==
    ASSUME IInv, NEW r \in Requests, NEW i \in Invites, AcceptInvitation(r, i) PROVE IInv'
<1> DEFINE o == invitations[i].org
           u == requests[r].user
           role == invitations[i].role
<1>1. /\ u # None /\ invitations[i].state = "pending" /\ db.members[o][u] = "none"
      /\ db' = [db EXCEPT !.members[o][u] = role]
      /\ invitations' = [invitations EXCEPT ![i].state = "accepted"]
      /\ OrgCommand(r) /\ UNCHANGED sessions
    BY DEF AcceptInvitation
<1>2. o \in Orgs /\ role \in Roles /\ u \in Users /\ db.users[u] # "none"
    BY <1>1 DEF IInv, TypeOK, InvitationsFit, InvitationFits, Invitation, Authority, PrincipalsExist, Exists
<1>3. invitations' \in [Invites -> Invitation]
    BY <1>1 DEF IInv, TypeOK, Invitation
<1>4. ASSUME NEW j \in Invites PROVE InvitationFits(invitations'[j])
    BY <1>1 DEF IInv, TypeOK, Invitation, InvitationsFit, InvitationFits
<1>5. InvitationsFit'
    BY <1>4 DEF InvitationsFit, InvitationFits
<1> HIDE DEF o, u, role
<1>6. DbStep /\ db'.issuer = db.issuer
    BY <1>1, <1>2, JoinKeepsOwners, MemberStep
<1>q. QED
    BY <1>1, <1>3, <1>5, <1>6, SameSessions, OrgPreserves

-----------------------------------------------------------------------------
(* Bindings, the issuer and its jobs                                        *)

LEMMA BindingPreserves ==
    ASSUME IInv, NEW s \in Subjects,
           RemoveBinding(s) \/ \E u \in Users : CreateBinding(s, u) \/ RelinkBinding(s, u)
    PROVE  IInv'
<1>1. SystemCommand /\ UNCHANGED <<onboarding, secret, sealing>>
    BY DEF RemoveBinding, CreateBinding, RelinkBinding, policy
<1>2. SessionsKept
    BY SameSessions, RevokeKeeps DEF RemoveBinding, CreateBinding, RelinkBinding, RevokeSubject
<1>3. db \in Tables
    BY DEF IInv, TypeOK
<1>4. PICK u \in Users \cup {None}, R \in SUBSET Subjects :
          db' = [db EXCEPT !.bindings[s] = u, !.removed = R]
    <2>1. CASE RemoveBinding(s)
        BY <1>3, <2>1 DEF RemoveBinding, Tables
    <2>2. ASSUME NEW u \in Users, CreateBinding(s, u)
          PROVE  \E R \in SUBSET Subjects : db' = [db EXCEPT !.bindings[s] = u, !.removed = R]
        BY <1>3, <2>2 DEF CreateBinding, Tables
    <2>3. ASSUME NEW u \in Users, RelinkBinding(s, u)
          PROVE  \E R \in SUBSET Subjects : db' = [db EXCEPT !.bindings[s] = u, !.removed = R]
        BY <1>3, <2>3 DEF RelinkBinding, Tables
    <2>q. QED
        BY <2>1, <2>2, <2>3
<1>5. /\ db' \in Tables /\ db'.users = db.users /\ db'.orgs = db.orgs /\ db'.members = db.members
      /\ db'.issuer = db.issuer
    BY <1>3, <1>4 DEF Tables
<1>q. QED
    BY <1>1, <1>2, <1>5, GrantStep, PeoplePreserves

\* A change of one field of the policy: what it leaves of the issuer.
LEMMA IssuerAfterTyped ==
    ASSUME IInv, NEW input \in IssuerFields
    PROVE  /\ IssuerAfter(input) \in Issuer
           /\ IssuerAfter(input).version = db.issuer.version + 1
           /\ IssuerAfter(input).material.source = IssuerAfter(input).source
<1> DEFINE x == db.issuer
           a == IssuerAfter(input)
<1>1. x \in Issuer /\ x.material \in Material /\ x.material.source = x.source
    BY DEF IInv, TypeOK, Tables, Issuer, IssuerMaterialIsCurrent
<1>2. x.version + 1 \in Nat \ {0} /\ x.material.id + 1 \in Nat
    BY <1>1 DEF Issuer, Material
<1>3. DOMAIN x = {"status", "version", "ceiling", "mode", "onboards", "source", "material", "profile"}
    BY <1>1 DEF Issuer
<1>4. CASE input \in [{"status"} -> {"active", "disabled"}]
    <2>1. DOMAIN input = {"status"} /\ input["status"] \in {"active", "disabled"}
        BY <1>4
    <2>2. a = [x EXCEPT !.status = input["status"], !.version = x.version + 1]
        BY <1>1, <1>3, <2>1 DEF IssuerAfter, Issuer
    <2>q. QED
        BY <1>1, <1>2, <2>1, <2>2 DEF Issuer
<1>5. CASE input \in [{"ceiling"} -> Ceilings]
    <2>1. DOMAIN input = {"ceiling"} /\ input["ceiling"] \in SUBSET Caps
        BY <1>5, IdentityAssumption
    <2>2. a = [x EXCEPT !.ceiling = input["ceiling"], !.version = x.version + 1]
        BY <1>1, <1>3, <2>1 DEF IssuerAfter, Issuer
    <2>q. QED
        BY <1>1, <1>2, <2>1, <2>2 DEF Issuer
<1>6. CASE input \in [{"mode"} -> Modes]
    <2>1. DOMAIN input = {"mode"} /\ input["mode"] \in Modes
        BY <1>6
    <2>2. a = [x EXCEPT !.mode = input["mode"], !.version = x.version + 1]
        BY <1>1, <1>3, <2>1 DEF IssuerAfter, Issuer
    <2>q. QED
        BY <1>1, <1>2, <2>1, <2>2 DEF Issuer
<1>7. CASE input \in [{"profile"} -> Profiles \cup {None}]
    <2>1. DOMAIN input = {"profile"} /\ input["profile"] \in Profiles \cup {None}
        BY <1>7
    <2>2. a = [x EXCEPT !.profile = input["profile"], !.version = x.version + 1]
        BY <1>1, <1>3, <2>1 DEF IssuerAfter, Issuer
    <2>q. QED
        BY <1>1, <1>2, <2>1, <2>2 DEF Issuer
<1>8. CASE input \in [{"onboards"} -> BOOLEAN]
    <2>1. DOMAIN input = {"onboards"} /\ input["onboards"] \in BOOLEAN
        BY <1>8
    <2>2. a = [x EXCEPT !.onboards = input["onboards"], !.version = x.version + 1]
        BY <1>1, <1>3, <2>1 DEF IssuerAfter, Issuer
    <2>q. QED
        BY <1>1, <1>2, <2>1, <2>2 DEF Issuer
<1>9. CASE input \in [{"source"} -> Sources]
    <2> DEFINE y == input["source"]
               z == [id |-> x.material.id + 1, source |-> y]
    <2>1. DOMAIN input = {"source"} /\ y \in Sources
        BY <1>9
    <2>2. a = [x EXCEPT !.source = y, !.version = x.version + 1, !.material = z]
        BY <1>1, <1>3, <2>1 DEF IssuerAfter, Issuer
    <2>3. z \in Material /\ z.source = y
        BY <1>2, <2>1 DEF Material
    <2> HIDE DEF y, z
    <2>q. QED
        BY <1>1, <1>2, <2>1, <2>2, <2>3 DEF Issuer
<1>q. QED
    BY <1>4, <1>5, <1>6, <1>7, <1>8, <1>9 DEF IssuerFields

LEMMA UpdateIssuerPreserves == ASSUME IInv, NEW input \in IssuerFields, UpdateIssuer(input) PROVE IInv'
<1> DEFINE a == IssuerAfter(input)
<1>1. /\ db' = [db EXCEPT !.issuer = a] /\ SystemCommand /\ UNCHANGED <<onboarding, sealing>>
      /\ Revoke(Live) /\ secret' = IF db'.issuer.profile # db.issuer.profile THEN None ELSE secret
    BY DEF UpdateIssuer
<1>2. /\ a \in Issuer /\ a.version = db.issuer.version + 1 /\ a.material.source = a.source
    BY IssuerAfterTyped
<1> HIDE DEF a
<1>3. DbStep /\ db'.issuer = a
    BY <1>1, <1>2, IssuerStep
<1>4. onboarding' \in Kinds /\ secret' \in Sources \cup Profiles \cup {None}
    BY <1>1 DEF IInv, TypeOK
<1>5. IssuerMaterialIsCurrent'
    BY <1>1, <1>2, <1>3 DEF IInv, IssuerMaterialIsCurrent
<1>q. QED
    BY <1>1, <1>3, <1>4, <1>5, RevokeKeeps, SystemPreserves

\* The version alone moves.
LEMMA VersionStep ==
    ASSUME IInv, db' = [db EXCEPT !.issuer.version = @ + 1]
    PROVE  /\ DbStep /\ db'.issuer.source = db.issuer.source /\ db'.issuer.profile = db.issuer.profile
           /\ db'.issuer.material = db.issuer.material
           /\ db'.issuer.version = db.issuer.version + 1
<1> DEFINE a == [db.issuer EXCEPT !.version = db.issuer.version + 1]
<1>1. db \in Tables /\ db.issuer \in Issuer /\ db.issuer.version + 1 \in Nat \ {0}
    BY DEF IInv, TypeOK, Tables, Issuer
<1>2. /\ a \in Issuer /\ a.version = db.issuer.version + 1 /\ a.source = db.issuer.source
      /\ a.profile = db.issuer.profile /\ a.material = db.issuer.material
    BY <1>1 DEF Issuer
<1>3. db' = [db EXCEPT !.issuer = a]
    BY <1>1 DEF Tables, Issuer
<1> HIDE DEF a
<1>q. QED
    BY <1>2, <1>3, IssuerStep

LEMMA RenamePreserves == ASSUME IInv, RenameIssuer PROVE IInv'
<1>1. db' = [db EXCEPT !.issuer.version = @ + 1] /\ SystemCommand
      /\ UNCHANGED <<onboarding, secret, sealing, sessions>>
    BY DEF RenameIssuer, policy
<1>2. /\ DbStep /\ db'.issuer.source = db.issuer.source /\ db'.issuer.profile = db.issuer.profile
      /\ db'.issuer.material = db.issuer.material
    BY <1>1, VersionStep
<1>3. IssuerMaterialIsCurrent'
    BY <1>1, <1>2 DEF IInv, IssuerMaterialIsCurrent
<1>4. onboarding' \in Kinds /\ secret' \in Sources \cup Profiles \cup {None}
    BY <1>1 DEF IInv, TypeOK
<1>q. QED
    BY <1>1, <1>2, <1>3, <1>4, SameSessions, SystemPreserves

LEMMA OnboardingPreserves == ASSUME IInv, NEW kind \in Kinds, UpdateOnboarding(kind) PROVE IInv'
<1>1. SystemCommand /\ UNCHANGED <<db, sessions, secret, sealing>> /\ onboarding' \in Kinds
    BY DEF UpdateOnboarding
<1>2. IssuerMaterialIsCurrent' /\ secret' \in Sources \cup Profiles \cup {None}
    BY <1>1 DEF IInv, IssuerMaterialIsCurrent, TypeOK
<1>q. QED
    BY <1>1, <1>2, SameDb, SameSessions, SystemPreserves

LEMMA BeginSecretPreserves == ASSUME IInv, BeginSecret PROVE IInv'
<1>1. /\ UNCHANGED <<logins, callbacks, invitations, requests, onboarding, secret, db, published,
                     sessions, refresh, lease, commands>>
      /\ starts' = starts + 1
      /\ sealing' = [NoJob EXCEPT !.version = db.issuer.version, !.about = db.issuer.profile]
    BY DEF BeginSecret, Start, logging, people, policy, tables
<1>2. db.issuer.version \in Nat /\ db.issuer.profile \in Profiles \cup {None}
    BY DEF IInv, TypeOK, Tables, Issuer
<1>3. sealing' \in Job /\ sealing'.version = db.issuer.version /\ sealing'.about = db.issuer.profile
    BY <1>1, <1>2 DEF NoJob, Job
<1>4. JobsAgree' /\ IssuerMaterialIsCurrent'
    BY <1>1, <1>2, <1>3 DEF IInv, JobsAgree, IssuerMaterialIsCurrent
<1>5. starts' \in Nat
    BY <1>1 DEF IInv, TypeOK
<1>6. OthersTyped
    BY <1>1, <1>3, <1>5 DEF IInv, TypeOK, OthersTyped
<1>q. QED
    BY <1>1, <1>4, <1>6, SameDb, SameSessions, SameRequests, SameInvitations, CommandPreserves

LEMMA CommitSecretPreserves == ASSUME IInv, CommitSecret PROVE IInv'
<1>1. /\ UNCHANGED <<logins, callbacks, invitations, requests, published, sessions, onboarding,
                     refresh, lease, starts>>
      /\ sealing' = NoJob
    BY DEF CommitSecret, logging, people
<1>2. sealing.about \in Sources \cup Profiles \cup {None} /\ commands \in Nat
    BY DEF IInv, TypeOK, Job
<1>3. CASE SecretStillApplies
    <2>1. db' = [db EXCEPT !.issuer.version = @ + 1] /\ secret' = sealing.about /\ Commit
        BY <1>3 DEF CommitSecret
    <2>2. /\ DbStep /\ db'.issuer.source = db.issuer.source /\ db'.issuer.profile = db.issuer.profile
          /\ db'.issuer.material = db.issuer.material
        BY <2>1, VersionStep
    <2>3. IssuerMaterialIsCurrent'
        BY <1>3, <2>1, <2>2 DEF IInv, IssuerMaterialIsCurrent, JobsAgree, SecretStillApplies
    <2>4. JobsAgree' /\ refresh' \in Job /\ sealing' \in Job
        BY <1>1, <2>2, JobsStay
    <2>5. OthersTyped
        BY <1>1, <1>2, <2>1, <2>4, CommitTyped DEF IInv, TypeOK, OthersTyped
    <2>q. QED
        BY <1>1, <2>2, <2>3, <2>4, <2>5, SameSessions, SameRequests, SameInvitations, CommandPreserves
<1>4. CASE ~SecretStillApplies
    <2>1. UNCHANGED <<db, secret, commands>>
        BY <1>4 DEF CommitSecret
    <2>2. DbStep
        BY <2>1, SameDb
    <2>3. IssuerMaterialIsCurrent'
        BY <2>1 DEF IInv, IssuerMaterialIsCurrent
    <2>4. JobsAgree' /\ refresh' \in Job /\ sealing' \in Job
        BY <1>1, <2>2, JobsStay
    <2>5. OthersTyped
        BY <1>1, <2>1, <2>4 DEF IInv, TypeOK, OthersTyped
    <2>q. QED
        BY <1>1, <2>2, <2>3, <2>4, <2>5, SameSessions, SameRequests, SameInvitations, CommandPreserves
<1>q. QED
    BY <1>3, <1>4

LEMMA BeginRefreshPreserves == ASSUME IInv, NEW leased \in BOOLEAN, BeginRefresh(leased) PROVE IInv'
<1>1. /\ UNCHANGED <<logins, callbacks, invitations, requests, onboarding, secret, db, published,
                     sessions, sealing, commands>>
      /\ starts' = starts + 1
      /\ lease' = IF leased THEN [fence |-> lease.fence + 1, valid |-> TRUE] ELSE lease
      /\ refresh' = [version |-> published.issuer.version, about |-> published.issuer.source,
                     material |-> published.issuer.material.id,
                     fence |-> IF leased THEN lease'.fence ELSE 0]
    BY DEF BeginRefresh, Start, logging, people, policy, tables
<1>2. /\ db.issuer.version \in Nat /\ published.issuer.version \in Nat
      /\ published.issuer.source \in Sources /\ published.issuer.material.id \in Nat
    BY DEF IInv, TypeOK, Tables, Issuer, Material
<1>3. lease.fence \in Nat /\ lease.fence + 1 \in Nat /\ lease \in Lease
    BY DEF IInv, TypeOK, Lease
<1>4. lease' \in Lease
    BY <1>1, <1>3 DEF Lease
<1>5. lease'.fence \in Nat
    BY <1>4 DEF Lease
<1>6. /\ refresh' \in Job /\ refresh'.version = published.issuer.version
      /\ refresh'.about = published.issuer.source
    BY <1>1, <1>2, <1>5 DEF Job
<1>7. JobsAgree' /\ IssuerMaterialIsCurrent'
    BY <1>1, <1>2, <1>6 DEF IInv, JobsAgree, VersionsAgree, IssuerMaterialIsCurrent
<1>8. starts' \in Nat
    BY <1>1 DEF IInv, TypeOK
<1>9. OthersTyped
    BY <1>1, <1>4, <1>6, <1>8 DEF IInv, TypeOK, OthersTyped
<1>q. QED
    BY <1>1, <1>7, <1>9, SameDb, SameSessions, SameRequests, SameInvitations, CommandPreserves

LEMMA ExpireLeasePreserves == ASSUME IInv, ExpireLease PROVE IInv'
<1>1. /\ UNCHANGED <<logins, callbacks, invitations, requests, onboarding, secret, db, published,
                     commands, starts, sessions, refresh, sealing>>
      /\ lease' = [lease EXCEPT !.valid = FALSE]
    BY DEF ExpireLease, logging, people, policy, tables, bounds
<1>2. OthersTyped
    BY <1>1 DEF IInv, TypeOK, OthersTyped, Lease
<1>3. JobsAgree' /\ IssuerMaterialIsCurrent'
    BY <1>1 DEF IInv, JobsAgree, IssuerMaterialIsCurrent
<1>q. QED
    BY <1>1, <1>2, <1>3, SameDb, SameSessions, SameRequests, SameInvitations, CommandPreserves

LEMMA FinishRefreshPreserves ==
    ASSUME IInv, NEW keys \in {"new", "same"}, FinishRefresh(keys) PROVE IInv'
<1>1. /\ UNCHANGED <<logins, callbacks, invitations, requests, onboarding, secret, published,
                     sessions, sealing, lease, starts>>
      /\ refresh' = NoJob
    BY DEF FinishRefresh, logging, people, policy
<1>2. CASE keys = "new" /\ RefreshStillApplies
    <2> DEFINE z == [id |-> db.issuer.material.id + 1, source |-> refresh.about]
               a == [db.issuer EXCEPT !.material = z]
    <2>1. /\ db' = [db EXCEPT !.issuer.material = [id |-> @.id + 1, source |-> refresh.about]]
          /\ Commit /\ refresh.about = db.issuer.source
        BY <1>2 DEF FinishRefresh, RefreshStillApplies, IInv, JobsAgree
    <2>2. /\ db \in Tables /\ db.issuer \in Issuer /\ db.issuer.source \in Sources
          /\ db.issuer.material.id \in Nat /\ db.issuer.material.id + 1 \in Nat
        BY DEF IInv, TypeOK, Tables, Issuer, Material
    <2>3. z \in Material /\ z.source = db.issuer.source
        BY <2>1, <2>2 DEF Material
    <2>4. db' = [db EXCEPT !.issuer = a]
        BY <2>1, <2>2 DEF Tables, Issuer
    <2> HIDE DEF z
    <2>5. /\ a \in Issuer /\ a.version = db.issuer.version /\ a.source = db.issuer.source
          /\ a.profile = db.issuer.profile /\ a.material = z
        BY <2>2, <2>3 DEF Issuer
    <2> HIDE DEF a
    <2>6. DbStep /\ db'.issuer = a
        BY <2>4, <2>5, IssuerStep
    <2>7. IssuerMaterialIsCurrent'
        BY <1>1, <2>3, <2>5, <2>6 DEF IInv, IssuerMaterialIsCurrent
    <2>8. JobsAgree' /\ refresh' \in Job /\ sealing' \in Job
        BY <1>1, <2>6, JobsStay
    <2>9. OthersTyped
        BY <1>1, <2>1, <2>8, CommitTyped DEF IInv, TypeOK, OthersTyped
    <2>q. QED
        BY <1>1, <2>6, <2>7, <2>8, <2>9, SameSessions, SameRequests, SameInvitations, CommandPreserves
<1>3. CASE ~(keys = "new" /\ RefreshStillApplies)
    <2>1. UNCHANGED <<db, commands>>
        BY <1>3 DEF FinishRefresh
    <2>2. DbStep
        BY <2>1, SameDb
    <2>3. IssuerMaterialIsCurrent'
        BY <1>1, <2>1 DEF IInv, IssuerMaterialIsCurrent
    <2>4. JobsAgree' /\ refresh' \in Job /\ sealing' \in Job
        BY <1>1, <2>2, JobsStay
    <2>5. OthersTyped
        BY <1>1, <2>1, <2>4 DEF IInv, TypeOK, OthersTyped
    <2>q. QED
        BY <1>1, <2>2, <2>3, <2>4, <2>5, SameSessions, SameRequests, SameInvitations, CommandPreserves
<1>q. QED
    BY <1>2, <1>3

-----------------------------------------------------------------------------
(* Identities                                                               *)

LEMMA RoleCapsTyped == ASSUME NEW role \in Roles PROVE RoleCaps(role) \in SUBSET Caps
BY DEF RoleCaps, Roles, Caps

LEMMA CeilingTyped ==
    ASSUME NEW snap \in Tables, NEW claim \in Claims \cup {Absent}
    PROVE  DeriveCeiling(snap.issuer, claim) \in SUBSET Caps
<1>1. snap.issuer.ceiling \in SUBSET Caps
    BY DEF Tables, Issuer
<1>q. QED
    BY <1>1 DEF DeriveCeiling

LEMMA LocalTyped ==
    ASSUME NEW snap \in Tables, NEW u \in Users, NEW ceiling \in SUBSET Caps
    PROVE  /\ LocalAuthority(snap, u, ceiling).sys \in BOOLEAN
           /\ LocalAuthority(snap, u, ceiling).orgs \in [Orgs -> SUBSET Caps]
<1>1. \A o \in Orgs : RoleCaps(snap.members[o][u]) \in SUBSET Caps
    BY RoleCapsTyped DEF Tables
<1>2. LocalAuthority(snap, u, ceiling).sys \in BOOLEAN
    BY DEF LocalAuthority
<1>3. LocalAuthority(snap, u, ceiling).orgs \in [Orgs -> SUBSET Caps]
    BY <1>1 DEF LocalAuthority
<1>q. QED
    BY <1>2, <1>3

\* A verified token stands for a user that the snapshot knows.
LEMMA JwtTyped ==
    ASSUME NEW snap \in Tables, NEW s \in Subjects, NEW claim \in Claims \cup {Absent},
           VerifiesJwt(snap, s, claim)
    PROVE  /\ JwtIdentity(snap, s, claim) \in Authority
           /\ JwtIdentity(snap, s, claim).via = "jwt" /\ JwtIdentity(snap, s, claim).caps # {}
           /\ JwtIdentity(snap, s, claim).user = snap.bindings[s] /\ snap.bindings[s] \in Users
           /\ snap.users[snap.bindings[s]] = "active"
<1> DEFINE u == snap.bindings[s]
           ceiling == DeriveCeiling(snap.issuer, claim)
           local == LocalAuthority(snap, u, ceiling)
           act == {o \in Orgs : snap.orgs[o] = "active"}
<1>1. u \in Users /\ snap.users[u] = "active" /\ ceiling # {}
    BY DEF VerifiesJwt, Tables
<1>2. ceiling \in SUBSET Caps
    BY CeilingTyped
<1>3. local.sys \in BOOLEAN /\ local.orgs \in [Orgs -> SUBSET Caps]
    BY <1>1, <1>2, LocalTyped
<1>4. JwtIdentity(snap, s, claim) =
          [user |-> u, subject |-> s, caps |-> ceiling, sys |-> local.sys, orgs |-> local.orgs,
           active |-> act, via |-> "jwt"]
    BY DEF JwtIdentity
<1>5. act \in SUBSET Orgs
    OBVIOUS
<1> HIDE DEF u, ceiling, local, act
<1>6. /\ JwtIdentity(snap, s, claim) \in Authority /\ JwtIdentity(snap, s, claim).via = "jwt"
      /\ JwtIdentity(snap, s, claim).caps # {} /\ JwtIdentity(snap, s, claim).user = u
    BY <1>1, <1>2, <1>3, <1>4, <1>5 DEF Authority, Ways
<1>q. QED
    BY <1>1, <1>6 DEF u

\* What a session is worth stays within what was captured.
LEMMA SessionTyped ==
    ASSUME IInv, NEW c \in Callbacks, sessions[c].live, ValidSession(published, sessions[c].id)
    PROVE  LET id == SessionIdentity(published, c) IN
           /\ id \in Authority /\ id.via = c /\ id.user = sessions[c].id.user
           /\ Within(id, sessions[c].id)
<1> DEFINE base == sessions[c].id
           ceiling == base.caps \cap published.issuer.ceiling
           local == LocalAuthority(published, base.user, ceiling)
           met == MeetOrgs(base.orgs, local.orgs)
           sys == base.sys /\ local.sys
           act == {o \in Orgs : published.orgs[o] = "active"}
<1>1. published \in Tables /\ base \in Authority
    BY DEF IInv, TypeOK, Session
<1>2. ceiling \in SUBSET Caps /\ ceiling \subseteq base.caps
    BY <1>1 DEF Authority
<1>3. base.orgs \in [Orgs -> SUBSET Caps]
    BY <1>1 DEF Authority
<1>4. met \in [Orgs -> SUBSET Caps] /\ \A o \in Orgs : met[o] \subseteq base.orgs[o]
    BY <1>3 DEF MeetOrgs
<1>5. sys \in BOOLEAN /\ (sys => base.sys) /\ act \in SUBSET Orgs
    OBVIOUS
<1>6. SessionIdentity(published, c) =
          [base EXCEPT !.caps = ceiling, !.sys = sys, !.orgs = met, !.active = act, !.via = c]
    BY DEF SessionIdentity
<1> HIDE DEF base, ceiling, local, met, sys, act
<1>7. /\ SessionIdentity(published, c) \in Authority /\ SessionIdentity(published, c).via = c
      /\ SessionIdentity(published, c).user = base.user
      /\ SessionIdentity(published, c).sys = sys /\ SessionIdentity(published, c).caps = ceiling
      /\ SessionIdentity(published, c).orgs = met
    BY <1>1, <1>2, <1>4, <1>5, <1>6 DEF Authority, Ways
<1>q. QED
    BY <1>2, <1>4, <1>5, <1>7 DEF Within, base

-----------------------------------------------------------------------------
(* Browser login                                                            *)

\* The tables may move under a login; the rest of the state does not.
LEMMA RestStays ==
    ASSUME IInv, DbStep, db'.issuer = db.issuer,
           UNCHANGED <<published, invitations, onboarding, secret, refresh, sealing, lease>>
    PROVE  /\ InvitationsFit' /\ VersionsAgree' /\ JobsAgree' /\ IssuerMaterialIsCurrent'
           /\ OwnersKept' /\ MembersExist'
<1>1. InvitationsFit'
    BY DEF IInv, InvitationsFit, InvitationFits
<1>2. VersionsAgree' /\ JobsAgree' /\ IssuerMaterialIsCurrent'
    BY DEF IInv, VersionsAgree, JobsAgree, IssuerMaterialIsCurrent
<1>q. QED
    BY <1>1, <1>2 DEF DbStep

\* One callback moves on for its login, or gives up.
LEMMA CallbackPreserves ==
    ASSUME IInv, NEW c \in Callbacks, NEW b \in Callback, callbacks' = [callbacks EXCEPT ![c] = b],
           StageAgrees(b), b.login \in {callbacks[c].login, None},
           b.stage # "idle" => callbacks[c].stage # "idle",
           b.id.user # None => db'.users[b.id.user] # "none",
           b.stage \in {"exchange", "provision"} =>
               \A u \in Users : b.gen.users[u] # "none" => db'.users[u] # "none",
           DbStep, db'.issuer = db.issuer, commands' \in Nat,
           UNCHANGED <<published, invitations, sessions, logins, onboarding, secret, requests,
                       refresh, sealing, lease, starts>>
    PROVE  IInv'
<1>1. callbacks' \in [Callbacks -> Callback]
    BY DEF IInv, TypeOK
<1>2. \A d \in Callbacks : callbacks'[d] = IF d = c THEN b ELSE callbacks[d]
    BY DEF IInv, TypeOK
<1>3. TypeOK'
    BY <1>1 DEF IInv, TypeOK, DbStep
<1>4. PrincipalsExist'
    <2>1. ASSUME NEW id \in Authority, Exists(id) PROVE (id.user # None => db'.users[id.user] # "none")
        BY <2>1 DEF Exists, UsersStay, Authority, DbStep
    <2>2. \A r \in Requests : Exists(requests[r])'
        BY <2>1 DEF IInv, TypeOK, PrincipalsExist, Exists
    <2>3. \A d \in Callbacks : Exists(sessions[d].id)'
        BY <2>1 DEF IInv, TypeOK, PrincipalsExist, Exists, Session
    <2>4. ASSUME NEW d \in Callbacks PROVE Exists(callbacks[d].id)'
        <3>1. callbacks[d].id \in Authority /\ Exists(callbacks[d].id)
            BY DEF IInv, TypeOK, PrincipalsExist, Callback
        <3>q. QED
            BY <1>2, <2>1, <3>1 DEF Exists
    <2>5. Known(published)'
        BY DEF IInv, PrincipalsExist, Known, DbStep, UsersStay
    <2>6. ASSUME NEW d \in Callbacks, callbacks'[d].stage \in {"exchange", "provision"}
          PROVE  Known(callbacks[d].gen)'
        BY <1>2, <2>6 DEF IInv, PrincipalsExist, Known, DbStep, UsersStay
    <2>q. QED
        BY <2>2, <2>3, <2>4, <2>5, <2>6 DEF PrincipalsExist
<1>5. StagesAgree'
    <2>1. \A d \in Callbacks : StageAgrees(callbacks'[d])
        BY <1>2 DEF IInv, StagesAgree
    <2>q. QED
        BY <2>1 DEF StagesAgree, StageAgrees
<1>6. LoginsOnce'
    BY <1>2, IdentityAssumption DEF IInv, LoginsOnce
<1>7. SessionsFixed'
    BY <1>2 DEF IInv, SessionsFixed, Within
<1>q. QED
    BY <1>3, <1>4, <1>5, <1>6, <1>7, RestStays DEF IInv

LEMMA CallbackFailsPreserves == ASSUME IInv, NEW c \in Callbacks, CallbackFails(c) PROVE IInv'
<1>1. /\ callbacks' = [callbacks EXCEPT ![c] = Idle]
      /\ UNCHANGED <<db, published, invitations, sessions, logins, onboarding, secret, requests,
                     refresh, sealing, lease, commands, starts>>
    BY DEF CallbackFails, people, jobs, policy, tables, bounds
<1>2. StageAgrees(Idle)
    BY IdleTyped DEF StageAgrees
<1>3. commands' \in Nat
    BY <1>1 DEF IInv, TypeOK
<1>q. QED
    BY <1>1, <1>2, <1>3, IdleTyped, NoAuthorityTyped, SameDb, CallbackPreserves

LEMMA ExchangePreserves ==
    ASSUME IInv, NEW c \in Callbacks, NEW s \in Subjects, NEW claim \in Claims \cup {Absent},
           Exchange(c, s, claim)
    PROVE  IInv'
<1> DEFINE gen == callbacks[c].gen
<1>1. /\ callbacks[c].stage = "exchange"
      /\ UNCHANGED <<db, published, invitations, sessions, logins, onboarding, secret, requests,
                     refresh, sealing, lease, commands, starts>>
    BY DEF Exchange, people, jobs, policy, tables, bounds
<1>2. callbacks[c] \in Callback /\ StageAgrees(callbacks[c]) /\ commands' \in Nat
    BY <1>1 DEF IInv, TypeOK, StagesAgree
<1>3. gen \in Tables /\ Known(gen) /\ Exists(callbacks[c].id)
    BY <1>1, <1>2 DEF StageAgrees, IInv, PrincipalsExist
<1>4. CASE callbacks' = [callbacks EXCEPT ![c].stage = "provision", ![c].subject = s, ![c].claim = claim]
    <2> DEFINE b == [callbacks[c] EXCEPT !.stage = "provision", !.subject = s, !.claim = claim]
    <2>1. callbacks' = [callbacks EXCEPT ![c] = b]
        BY <1>4 DEF IInv, TypeOK, Callback
    <2>2. /\ b \in Callback /\ b.login = callbacks[c].login /\ b.id = callbacks[c].id /\ b.gen = gen
          /\ b.stage = "provision" /\ b.subject = s
        BY <1>2 DEF Callback, Stages
    <2> HIDE DEF b
    <2>3. StageAgrees(b)
        BY <1>1, <1>2, <1>3, <2>2 DEF StageAgrees
    <2>q. QED
        BY <1>1, <1>2, <1>3, <2>1, <2>2, <2>3, SameDb, CallbackPreserves DEF Known, Exists
<1>5. CASE VerifiesJwt(gen, s, claim)
           /\ callbacks' = [callbacks EXCEPT ![c].stage = "session", ![c].gen = None,
                                             ![c].id = JwtIdentity(gen, s, claim)]
    <2> DEFINE id == JwtIdentity(gen, s, claim)
               b == [callbacks[c] EXCEPT !.stage = "session", !.gen = None, !.id = id]
    <2>1. callbacks' = [callbacks EXCEPT ![c] = b]
        BY <1>5 DEF IInv, TypeOK, Callback
    <2>2. id \in Authority /\ id.caps # {} /\ id.user \in Users /\ gen.users[id.user] = "active"
        BY <1>3, <1>5, JwtTyped
    <2> HIDE DEF id
    <2>3. /\ b \in Callback /\ b.login = callbacks[c].login /\ b.id = id /\ b.gen = None
          /\ b.stage = "session"
        BY <1>2, <2>2 DEF Callback, Stages
    <2> HIDE DEF b
    <2>4. StageAgrees(b)
        BY <1>1, <1>2, <2>2, <2>3 DEF StageAgrees
    <2>q. QED
        BY <1>1, <1>2, <1>3, <2>1, <2>2, <2>3, <2>4, SameDb, CallbackPreserves DEF Known
<1>q. QED
    BY <1>4, <1>5 DEF Exchange

\* A snapshot patched for a subject has the user as the tables have it now.
PatchFits(snap, rows, s, u) ==
    /\ snap \in Tables /\ snap.bindings[s] = u /\ snap.users[u] = rows.users[u]
    /\ u \in snap.admins => u \in rows.admins
    /\ \A o \in Orgs : snap.members[o][u] = rows.members[o][u]
    /\ \A o \in Orgs : rows.members[o][u] # "none" => snap.orgs[o] = rows.orgs[o]

LEMMA PatchedTyped ==
    ASSUME NEW gen \in Tables, NEW rows \in Tables, NEW s \in Subjects, NEW u \in Users
    PROVE  PatchFits(Patched(gen, rows, s, u), rows, s, u)
<1> DEFINE mine == {o \in Orgs : rows.members[o][u] # "none"}
           admins == IF u \in rows.admins THEN gen.admins \cup {u} ELSE gen.admins \ {u}
           members == [o \in Orgs |-> [gen.members[o] EXCEPT ![u] = rows.members[o][u]]]
           orgs == [o \in Orgs |-> IF o \in mine THEN rows.orgs[o] ELSE gen.orgs[o]]
           users == [gen.users EXCEPT ![u] = rows.users[u]]
           bindings == [gen.bindings EXCEPT ![s] = u]
           snap == Patched(gen, rows, s, u)
<1>1. admins \in SUBSET Users /\ (u \in admins => u \in rows.admins)
    BY DEF Tables
<1>2. members \in [Orgs -> [Users -> Roles]] /\ \A o \in Orgs : members[o][u] = rows.members[o][u]
    BY DEF Tables
<1>3. /\ orgs \in [Orgs -> {"none", "active", "suspended"}]
      /\ \A o \in Orgs : rows.members[o][u] # "none" => orgs[o] = rows.orgs[o]
    BY DEF Tables
<1>4. users \in [Users -> Statuses] /\ users[u] = rows.users[u]
    BY DEF Tables
<1>5. bindings \in [Subjects -> Users \cup {None}] /\ bindings[s] = u
    BY DEF Tables
<1>6. snap = [gen EXCEPT !.users = users, !.bindings = bindings, !.admins = admins,
                         !.members = members, !.orgs = orgs]
    BY DEF Patched, Tables
<1> HIDE DEF mine, admins, members, orgs, users, bindings, snap
<1>7. /\ snap \in Tables /\ snap.users = users /\ snap.bindings = bindings /\ snap.admins = admins
      /\ snap.members = members /\ snap.orgs = orgs
    BY <1>1, <1>2, <1>3, <1>4, <1>5, <1>6 DEF Tables
<1>q. QED
    BY <1>1, <1>2, <1>3, <1>4, <1>5, <1>7 DEF snap, PatchFits

\* The callback after the subject was provisioned, on the tables rows.
ContinueWith(c, rows, u) ==
    LET s == callbacks[c].subject
        snap == Patched(callbacks[c].gen, rows, s, u) IN
    IF VerifiesJwt(snap, s, callbacks[c].claim)
    THEN [callbacks[c] EXCEPT !.stage = "session", !.gen = None,
                              !.id = JwtIdentity(snap, s, callbacks[c].claim)]
    ELSE Idle

\* What the session of a provisioned subject may do, the tables grant now.
GrantedBy(id, rows) ==
    /\ id.sys => id.user \in rows.admins
    /\ \A o \in Orgs : id.orgs[o] # {} =>
           rows.orgs[o] = "active" /\ id.orgs[o] \subseteq RoleCaps(rows.members[o][id.user])

LEMMA ContinueTyped ==
    ASSUME IInv, NEW c \in Callbacks, NEW rows \in Tables, NEW u \in Users,
           callbacks[c].stage = "provision"
    PROVE  LET b == ContinueWith(c, rows, u) IN
           /\ b \in Callback /\ StageAgrees(b) /\ b.login \in {callbacks[c].login, None}
           /\ b.stage \in {"idle", "session"}
           /\ b.id.user # None => rows.users[b.id.user] # "none" /\ b.id.user \in Users
           /\ b.stage = "session" => GrantedBy(b.id, rows)
<1> DEFINE gen == callbacks[c].gen
           s == callbacks[c].subject
           claim == callbacks[c].claim
           snap == Patched(gen, rows, s, u)
           b == ContinueWith(c, rows, u)
           id == JwtIdentity(snap, s, claim)
           ceiling == DeriveCeiling(snap.issuer, claim)
<1>1. /\ callbacks[c] \in Callback /\ gen \in Tables /\ s \in Subjects
      /\ claim \in Claims \cup {Absent} /\ callbacks[c].login \in Logins
    BY DEF IInv, TypeOK, StagesAgree, StageAgrees, Callback
<1>2. /\ snap \in Tables /\ snap.bindings[s] = u /\ snap.users[u] = rows.users[u]
      /\ u \in snap.admins => u \in rows.admins
      /\ \A o \in Orgs : snap.members[o][u] = rows.members[o][u]
      /\ \A o \in Orgs : rows.members[o][u] # "none" => snap.orgs[o] = rows.orgs[o]
    <2>1. PatchFits(snap, rows, s, u)
        BY <1>1, PatchedTyped
    <2> HIDE DEF snap
    <2>q. QED
        BY <2>1 DEF PatchFits
<1>3. CASE VerifiesJwt(snap, s, claim)
    <2>1. b = [callbacks[c] EXCEPT !.stage = "session", !.gen = None, !.id = id]
        BY <1>3 DEF ContinueWith
    <2>2. id \in Authority /\ id.caps # {} /\ id.user = u /\ snap.users[u] = "active"
        BY <1>1, <1>2, <1>3, JwtTyped
    <2>3. /\ id.sys = LocalAuthority(snap, u, ceiling).sys
          /\ id.orgs = LocalAuthority(snap, u, ceiling).orgs
        BY <1>2 DEF JwtIdentity
    <2>4. id.sys => u \in rows.admins
        BY <1>2, <2>3 DEF LocalAuthority
    <2>5. ASSUME NEW o \in Orgs, id.orgs[o] # {}
          PROVE  rows.orgs[o] = "active" /\ id.orgs[o] \subseteq RoleCaps(rows.members[o][u])
        <3>1. snap.orgs[o] = "active" /\ id.orgs[o] = ceiling \cap RoleCaps(snap.members[o][u])
            BY <2>3, <2>5 DEF LocalAuthority
        <3>2. rows.members[o][u] # "none"
            BY <1>2, <2>5, <3>1 DEF RoleCaps
        <3>q. QED
            BY <1>2, <3>1, <3>2
    <2>6. GrantedBy(id, rows)
        BY <2>2, <2>4, <2>5 DEF GrantedBy
    <2> HIDE DEF id, snap
    <2>7. /\ b \in Callback /\ b.id = id /\ b.stage = "session" /\ b.login = callbacks[c].login
        BY <1>1, <2>1, <2>2 DEF Callback, Stages
    <2> HIDE DEF b
    <2>8. StageAgrees(b)
        BY <1>1, <2>2, <2>7 DEF StageAgrees
    <2>q. QED
        BY <1>2, <2>2, <2>6, <2>7, <2>8 DEF b
<1>4. CASE ~VerifiesJwt(snap, s, claim)
    <2>1. b = Idle
        BY <1>4 DEF ContinueWith
    <2>q. QED
        BY <2>1, IdleTyped, NoAuthorityTyped DEF StageAgrees
<1>q. QED
    BY <1>3, <1>4

LEMMA ProvisionedStep ==
    ASSUME IInv, NEW s \in Subjects, NEW u \in Users, NEW o \in Orgs, db.users[u] = "none",
           db.orgs[o] = IF onboarding = "personal" THEN "none" ELSE "active",
           db' = Provisioned(s, u, o)
    PROVE  DbStep /\ db'.issuer = db.issuer
<1>0. db \in Tables
    BY DEF IInv, TypeOK
<1>1. CASE onboarding = "personal"
    <2>1. db' = [db EXCEPT !.users[u] = "active", !.bindings[s] = u, !.orgs[o] = "active",
                           !.members[o][u] = "owner"]
        BY <1>1 DEF Provisioned
    <2> DEFINE users == [db.users EXCEPT ![u] = "active"]
               bindings == [db.bindings EXCEPT ![s] = u]
               orgs == [db.orgs EXCEPT ![o] = "active"]
               members == [db.members EXCEPT ![o][u] = "owner"]
    <2>t. /\ users \in [Users -> Statuses] /\ bindings \in [Subjects -> Users \cup {None}]
          /\ orgs \in [Orgs -> {"none", "active", "suspended"}]
        BY <1>0 DEF Tables, Statuses
    <2>m. members \in [Orgs -> [Users -> Roles]]
        BY <1>0 DEF Tables, Roles
    <2>d. db' = [db EXCEPT !.users = users, !.bindings = bindings, !.orgs = orgs, !.members = members]
        BY <1>0, <2>1 DEF Tables
    <2> HIDE DEF users, bindings, orgs, members
    <2>2. db' \in Tables /\ db'.issuer = db.issuer
        BY <1>0, <2>t, <2>m, <2>d DEF Tables
    <2>3. \A x \in Users : db'.users[x] = IF x = u THEN "active" ELSE db.users[x]
        BY <1>0, <2>1 DEF Tables
    <2>4. \A p \in Orgs : db'.orgs[p] = IF p = o THEN "active" ELSE db.orgs[p]
        BY <1>0, <2>1 DEF Tables
    <2>5. \A p \in Orgs, x \in Users :
              db'.members[p][x] = IF p = o /\ x = u THEN "owner" ELSE db.members[p][x]
        BY <1>0, <2>1 DEF Tables
    <2>q. QED
        BY <2>2, <2>3, <2>4, <2>5, FoundStep
<1>2. CASE onboarding # "personal"
    <2>1. db' = [db EXCEPT !.users[u] = "active", !.bindings[s] = u, !.members[o][u] = "member"]
        BY <1>2 DEF Provisioned
    <2> DEFINE users == [db.users EXCEPT ![u] = "active"]
               bindings == [db.bindings EXCEPT ![s] = u]
               members == [db.members EXCEPT ![o][u] = "member"]
    <2>t. users \in [Users -> Statuses] /\ bindings \in [Subjects -> Users \cup {None}]
        BY <1>0 DEF Tables, Statuses
    <2>m. members \in [Orgs -> [Users -> Roles]]
        BY <1>0 DEF Tables, Roles
    <2>d. db' = [db EXCEPT !.users = users, !.bindings = bindings, !.members = members]
        BY <1>0, <2>1 DEF Tables
    <2> HIDE DEF users, bindings, members
    <2>2. db' \in Tables /\ db'.issuer = db.issuer /\ db'.orgs = db.orgs
        BY <1>0, <2>t, <2>m, <2>d DEF Tables
    <2>3. \A x \in Users : db'.users[x] = IF x = u THEN "active" ELSE db.users[x]
        BY <1>0, <2>1 DEF Tables
    <2>4. \A p \in Orgs, x \in Users :
              db'.members[p][x] = IF p = o /\ x = u THEN "member" ELSE db.members[p][x]
        BY <1>0, <2>1 DEF Tables
    <2>5. \A p \in Orgs : db.members[p][u] = "none"
        BY DEF IInv, MembersExist
    <2>6. OwnersKept'
        <3> SUFFICES ASSUME NEW p \in Orgs, db'.orgs[p] = "active"
                     PROVE  \E x \in Users : db'.members[p][x] = "owner"
            BY DEF OwnersKept
        <3>1. PICK x \in Users : db.members[p][x] = "owner"
            BY <2>2 DEF IInv, OwnersKept
        <3>q. QED
            BY <2>4, <2>5, <3>1
    <2>7. MembersExist' /\ UsersStay
        BY <2>3, <2>4 DEF IInv, MembersExist, UsersStay
    <2>8. db.issuer.version \in Nat
        BY <1>0 DEF Tables, Issuer
    <2>9. IssuerMoves
        BY <2>2, <2>8 DEF IssuerMoves
    <2>q. QED
        BY <2>2, <2>6, <2>7, <2>9 DEF DbStep
<1>q. QED
    BY <1>1, <1>2

\* Provisioning: the tables it leaves and the callback that goes on with them.
LEMMA ProvisionSteps ==
    ASSUME IInv, NEW c \in Callbacks, ProvisionSubject(c)
    PROVE  /\ callbacks[c].stage = "provision" /\ DbStep /\ db'.issuer = db.issuer /\ commands' \in Nat
           /\ UNCHANGED <<published, invitations, sessions, logins, onboarding, secret, requests,
                          refresh, sealing, lease, starts>>
           /\ \E u \in Users : callbacks' = [callbacks EXCEPT ![c] = ContinueWith(c, db', u)]
<1> DEFINE s == callbacks[c].subject
<1>1. /\ callbacks[c].stage = "provision"
      /\ UNCHANGED <<published, invitations, sessions, logins, onboarding, secret, requests,
                     refresh, sealing, lease, starts>>
    BY DEF ProvisionSubject, people, jobs, policy
<1>2. s \in Subjects /\ callbacks[c].subject \in Subjects
    BY <1>1 DEF IInv, StagesAgree, StageAgrees
<1>3. CASE /\ db.bindings[s] # None /\ UNCHANGED <<db, commands>>
           /\ callbacks' = [callbacks EXCEPT ![c] = ContinueWith(c, db, db.bindings[s])]
    <2>1. db.bindings[s] \in Users
        BY <1>2, <1>3 DEF IInv, TypeOK, Tables
    <2>2. db' = db /\ commands' \in Nat
        BY <1>3 DEF IInv, TypeOK
    <2>q. QED
        BY <1>1, <1>3, <2>1, <2>2, SameDb
<1>4. ASSUME NEW u \in Users, NEW o \in Orgs, db.users[u] = "none",
             db.orgs[o] = IF onboarding = "personal" THEN "none" ELSE "active",
             db' = Provisioned(s, u, o), Commit,
             callbacks' = [callbacks EXCEPT ![c] = ContinueWith(c, db', u)]
      PROVE  /\ DbStep /\ db'.issuer = db.issuer /\ commands' \in Nat
             /\ \E x \in Users : callbacks' = [callbacks EXCEPT ![c] = ContinueWith(c, db', x)]
    <2>1. DbStep /\ db'.issuer = db.issuer
        BY <1>2, <1>4, ProvisionedStep
    <2>q. QED
        BY <1>4, <2>1, CommitTyped
<1>q. QED
    BY <1>1, <1>3, <1>4 DEF ProvisionSubject, ContinueWith

LEMMA ProvisionPreserves == ASSUME IInv, NEW c \in Callbacks, ProvisionSubject(c) PROVE IInv'
<1>1. /\ callbacks[c].stage = "provision" /\ DbStep /\ db'.issuer = db.issuer /\ commands' \in Nat
      /\ UNCHANGED <<published, invitations, sessions, logins, onboarding, secret, requests,
                     refresh, sealing, lease, starts>>
    BY ProvisionSteps
<1>2. PICK u \in Users : callbacks' = [callbacks EXCEPT ![c] = ContinueWith(c, db', u)]
    BY ProvisionSteps
<1> DEFINE b == ContinueWith(c, db', u)
<1>3. /\ b \in Callback /\ StageAgrees(b) /\ b.login \in {callbacks[c].login, None}
      /\ b.stage \in {"idle", "session"}
      /\ b.id.user # None => db'.users[b.id.user] # "none"
    BY <1>1, ContinueTyped DEF DbStep
<1> HIDE DEF b
<1>q. QED
    BY <1>1, <1>2, <1>3, CallbackPreserves DEF b

\* Everything but the logins and the callbacks stays.
LEMMA LoginPreserves ==
    ASSUME IInv, logins' \in [Logins -> LoginRow], callbacks' \in [Callbacks -> Callback],
           StagesAgree', LoginsOnce', starts' \in Nat,
           \A c \in Callbacks :
               \/ callbacks'[c] = callbacks[c]
               \/ /\ callbacks'[c].id = NoAuthority /\ callbacks'[c].gen = published
                  /\ sessions[c].id = NoAuthority /\ ~sessions[c].live,
           UNCHANGED <<db, published, invitations, sessions, onboarding, secret, requests,
                       refresh, sealing, lease, commands>>
    PROVE  IInv'
<1>1. TypeOK'
    BY DEF IInv, TypeOK
<1>2. PrincipalsExist'
    <2>1. Known(published)' /\ (\A r \in Requests : Exists(requests[r])')
          /\ (\A c \in Callbacks : Exists(sessions[c].id)')
        BY DEF IInv, PrincipalsExist, Known, Exists
    <2>2. \A c \in Callbacks : Exists(callbacks[c].id)'
        BY NoAuthorityTyped DEF IInv, PrincipalsExist, Exists
    <2>3. \A c \in Callbacks : callbacks'[c].stage \in {"exchange", "provision"} => Known(callbacks[c].gen)'
        BY DEF IInv, PrincipalsExist, Known
    <2>q. QED
        BY <2>1, <2>2, <2>3 DEF PrincipalsExist
<1>3. SessionsFixed'
    <2>1. \A c \in Callbacks : callbacks'[c].stage # "idle" => sessions'[c].id.caps = {} /\ ~sessions'[c].live
        BY NoAuthorityTyped DEF IInv, SessionsFixed
    <2>q. QED
        BY <2>1 DEF IInv, SessionsFixed, Within
<1>4. DbStep
    BY SameDb
<1>q. QED
    BY <1>1, <1>2, <1>3, <1>4, RestStays DEF IInv

LEMMA BeginLoginPreserves ==
    ASSUME IInv, NEW l \in Logins, BeginLogin(l) \/ ExpireLogin(l) PROVE IInv'
<1>1. UNCHANGED <<db, published, invitations, sessions, onboarding, secret, requests,
                  refresh, sealing, lease, commands, starts, callbacks>>
    BY DEF BeginLogin, ExpireLogin, people, jobs, policy, tables, bounds
<1>2. callbacks' \in [Callbacks -> Callback] /\ starts' \in Nat /\ StagesAgree'
    BY <1>1 DEF IInv, TypeOK, StagesAgree, StageAgrees
<1>3. published.issuer.version \in Nat /\ logins \in [Logins -> LoginRow]
    BY DEF IInv, TypeOK, Tables, Issuer
<1>4. PICK x \in LoginRow : /\ logins' = [logins EXCEPT ![l] = x]
                            /\ logins[l].state \in {"none", "pending"} /\ x.sessions = 0
    <2>1. CASE BeginLogin(l)
        <3> DEFINE x == [state |-> "pending", version |-> published.issuer.version, sessions |-> 0]
        <3>1. logins' = [logins EXCEPT ![l] = x] /\ logins[l].state = "none"
            BY <2>1 DEF BeginLogin
        <3>2. x \in LoginRow /\ x.sessions = 0
            BY <1>3 DEF LoginRow
        <3> HIDE DEF x
        <3>q. QED
            BY <3>1, <3>2
    <2>2. CASE ExpireLogin(l)
        <3> DEFINE x == [logins[l] EXCEPT !.state = "gone"]
        <3>1. logins' = [logins EXCEPT ![l] = x] /\ logins[l].state = "pending"
            BY <1>3, <2>2 DEF ExpireLogin
        <3>2. x \in LoginRow /\ x.sessions = logins[l].sessions
            BY <1>3 DEF LoginRow
        <3>3. logins[l].sessions = 0
            BY <3>1 DEF IInv, LoginsOnce
        <3>q. QED
            BY <3>1, <3>2, <3>3
    <2>q. QED
        BY <2>1, <2>2
<1>5. \A m \in Logins : logins'[m] = IF m = l THEN x ELSE logins[m]
    BY <1>3, <1>4
<1>6. \A c \in Callbacks : callbacks[c].login # l
    BY <1>4 DEF IInv, LoginsOnce
<1>7. LoginsOnce'
    BY <1>1, <1>4, <1>5, <1>6 DEF IInv, LoginsOnce
<1>q. QED
    BY <1>1, <1>2, <1>3, <1>4, <1>7, LoginPreserves

LEMMA ConsumePreserves ==
    ASSUME IInv, NEW c \in Callbacks, NEW l \in Logins, ConsumeLogin(c, l) PROVE IInv'
<1> DEFINE x == [logins[l] EXCEPT !.state = "consumed"]
           b == [Idle EXCEPT !.stage = "exchange", !.login = l, !.gen = published]
<1>1. /\ starts' = starts + 1 /\ sessions[c].id = NoAuthority /\ ~sessions[c].live
      /\ callbacks[c] = Idle /\ logins[l].state = "pending"
      /\ UNCHANGED <<db, published, invitations, sessions, onboarding, secret, requests,
                     refresh, sealing, lease, commands>>
    BY DEF ConsumeLogin, Start, LoginUsable, people, jobs, policy, tables
<1>2. logins \in [Logins -> LoginRow] /\ callbacks \in [Callbacks -> Callback] /\ starts' \in Nat
    BY <1>1 DEF IInv, TypeOK
<1>3. logins' = [logins EXCEPT ![l] = x]
    BY <1>2 DEF ConsumeLogin
<1>4. x \in LoginRow /\ x.sessions = logins[l].sessions /\ x.state = "consumed"
    BY <1>2 DEF LoginRow
<1>5. logins[l].sessions = 0 /\ \A d \in Callbacks : callbacks[d].login # l
    BY <1>1 DEF IInv, LoginsOnce
<1>6. callbacks' = callbacks \/ callbacks' = [callbacks EXCEPT ![c] = b]
    BY DEF ConsumeLogin
<1>7. published \in Tables
    BY DEF IInv, TypeOK
<1>8. /\ b \in Callback /\ b.id = NoAuthority /\ b.gen = published /\ b.login = l /\ b.stage = "exchange"
    BY <1>7, IdleTyped, NoAuthorityTyped DEF Callback, Stages, Idle
<1> HIDE DEF x, b
<1>9. StageAgrees(b)
    BY <1>7, <1>8 DEF StageAgrees
<1>10. logins' \in [Logins -> LoginRow] /\ \A m \in Logins : logins'[m] = IF m = l THEN x ELSE logins[m]
    BY <1>2, <1>3, <1>4
<1>11. CASE callbacks' = callbacks
    <2>1. StagesAgree' /\ callbacks' \in [Callbacks -> Callback]
        BY <1>2, <1>11 DEF IInv, StagesAgree, StageAgrees
    <2>2. LoginsOnce'
        BY <1>4, <1>5, <1>10, <1>11 DEF IInv, LoginsOnce
    <2>q. QED
        BY <1>1, <1>2, <1>10, <1>11, <2>1, <2>2, LoginPreserves
<1>12. CASE callbacks' = [callbacks EXCEPT ![c] = b]
    <2>1. /\ callbacks' \in [Callbacks -> Callback]
          /\ \A d \in Callbacks : callbacks'[d] = IF d = c THEN b ELSE callbacks[d]
        BY <1>2, <1>8, <1>12
    <2>2. \A d \in Callbacks : StageAgrees(callbacks'[d])
        BY <1>9, <2>1 DEF IInv, StagesAgree
    <2>3. StagesAgree'
        BY <2>2 DEF StagesAgree, StageAgrees
    <2>4. LoginsOnce'
        BY <1>4, <1>5, <1>8, <1>10, <2>1 DEF IInv, LoginsOnce
    <2>q. QED
        BY <1>1, <1>2, <1>8, <1>10, <2>1, <2>3, <2>4, LoginPreserves
<1>q. QED
    BY <1>6, <1>11, <1>12

LEMMA InsertPreserves == ASSUME IInv, NEW c \in Callbacks, InsertSession(c) PROVE IInv'
<1> DEFINE l == callbacks[c].login
           x == [logins[l] EXCEPT !.sessions = logins[l].sessions + 1]
           v == [id |-> callbacks[c].id, live |-> TRUE]
<1>1. /\ callbacks[c].stage = "session" /\ callbacks' = [callbacks EXCEPT ![c] = Idle]
      /\ sessions' = [sessions EXCEPT ![c] = v]
      /\ UNCHANGED <<db, published, invitations, onboarding, secret, requests,
                     refresh, sealing, lease, commands, starts>>
    BY DEF InsertSession, people, jobs, policy, tables, bounds
<1>2. /\ logins \in [Logins -> LoginRow] /\ callbacks \in [Callbacks -> Callback]
      /\ sessions \in [Callbacks -> Session]
    BY DEF IInv, TypeOK
<1>3. l \in Logins /\ callbacks[c].id \in Authority /\ callbacks[c].id.caps # {} /\ Exists(callbacks[c].id)
    BY <1>1, <1>2 DEF IInv, StagesAgree, StageAgrees, Callback, PrincipalsExist
<1>4. logins[l].sessions = 0 /\ logins[l].state \notin {"none", "pending"}
    BY <1>3 DEF IInv, LoginsOnce
<1>5. v \in Session /\ v.id = callbacks[c].id
    BY <1>3 DEF Session
<1>6. logins' = [logins EXCEPT ![l] = x]
    BY <1>2, <1>3 DEF InsertSession
<1>7. logins[l] \in LoginRow /\ logins[l].sessions + 1 = 1 /\ logins[l].sessions + 1 \in Nat
    BY <1>2, <1>3, <1>4
<1>8. x \in LoginRow /\ x.sessions = 1 /\ x.state = logins[l].state
    BY <1>7 DEF LoginRow
<1> HIDE DEF x, v, l
<1>9. logins' \in [Logins -> LoginRow] /\ \A m \in Logins : logins'[m] = IF m = l THEN x ELSE logins[m]
    BY <1>2, <1>3, <1>6, <1>8
<1>10. /\ callbacks' \in [Callbacks -> Callback]
       /\ \A d \in Callbacks : callbacks'[d] = IF d = c THEN Idle ELSE callbacks[d]
    BY <1>1, <1>2, IdleTyped
<1>11. /\ sessions' \in [Callbacks -> Session]
       /\ \A d \in Callbacks : sessions'[d] = IF d = c THEN v ELSE sessions[d]
    BY <1>1, <1>2, <1>5
<1>12. TypeOK'
    BY <1>1, <1>9, <1>10, <1>11 DEF IInv, TypeOK
<1>13. PrincipalsExist'
    <2>1. Known(published)' /\ \A r \in Requests : Exists(requests[r])'
        BY <1>1 DEF IInv, PrincipalsExist, Known, Exists
    <2>2. \A d \in Callbacks : Exists(sessions[d].id)'
        BY <1>1, <1>3, <1>5, <1>11 DEF IInv, PrincipalsExist, Exists
    <2>3. \A d \in Callbacks : Exists(callbacks[d].id)'
        BY <1>1, <1>10, IdleTyped, NoAuthorityTyped DEF IInv, PrincipalsExist, Exists
    <2>4. \A d \in Callbacks : callbacks'[d].stage \in {"exchange", "provision"} => Known(callbacks[d].gen)'
        BY <1>1, <1>10, IdleTyped DEF IInv, PrincipalsExist, Known
    <2>q. QED
        BY <2>1, <2>2, <2>3, <2>4 DEF PrincipalsExist
<1>14. StagesAgree'
    <2>1. \A d \in Callbacks : StageAgrees(callbacks'[d])
        BY <1>10, IdleTyped DEF IInv, StagesAgree, StageAgrees
    <2>q. QED
        BY <2>1 DEF StagesAgree, StageAgrees
<1>15. LoginsOnce'
    <2>1. \A d \in Callbacks \ {c} : callbacks[d].login # l
        BY <1>3, IdentityAssumption DEF IInv, LoginsOnce, l
    <2>2. \A d \in Callbacks : callbacks'[d].login # l
        BY <1>3, <1>10, <2>1, IdleTyped, IdentityAssumption
    <2>3. \A d \in Callbacks : callbacks'[d].login = IF d = c THEN None ELSE callbacks[d].login
        BY <1>10, IdleTyped
    <2>q. QED
        BY <1>4, <1>8, <1>9, <2>2, <2>3, IdentityAssumption DEF IInv, LoginsOnce
<1>16. SessionsFixed'
    <2>1. \A d \in Callbacks : callbacks'[d].stage # "idle" => sessions'[d].id.caps = {} /\ ~sessions'[d].live
        BY <1>10, <1>11, IdleTyped DEF IInv, SessionsFixed
    <2>2. \A d \in Callbacks : sessions'[d].live => sessions'[d].id.caps # {}
        BY <1>3, <1>5, <1>11 DEF IInv, SessionsFixed
    <2>3. ASSUME NEW r \in Requests, requests'[r].via \in Callbacks
          PROVE  /\ sessions'[requests'[r].via].id.caps # {}
                 /\ Within(requests'[r], sessions'[requests'[r].via].id)
        <3>1. sessions[requests[r].via].id.caps # {} /\ Within(requests[r], sessions[requests[r].via].id)
            BY <1>1, <2>3 DEF IInv, SessionsFixed
        <3>2. requests[r].via # c
            BY <1>1, <3>1 DEF IInv, SessionsFixed
        <3>q. QED
            BY <1>1, <1>11, <2>3, <3>1, <3>2
    <2>q. QED
        BY <2>1, <2>2, <2>3 DEF SessionsFixed, Within
<1>q. QED
    BY <1>1, <1>12, <1>13, <1>14, <1>15, <1>16, SameDb, RestStays DEF IInv

-----------------------------------------------------------------------------
(* Requests, sessions that end, and publication                             *)

\* A request with an identity that exists and, for a session, within it.
LEMMA ArrivePreserves ==
    ASSUME IInv, NEW r \in Requests, NEW id \in Authority, Arrive(r, id), Exists(id),
           id.via \in Callbacks => /\ sessions[id.via].id.caps # {}
                                   /\ Within(id, sessions[id.via].id)
    PROVE  IInv'
<1>1. /\ requests' = [requests EXCEPT ![r] = id] /\ starts' = starts + 1
      /\ UNCHANGED <<logins, callbacks, refresh, sealing, lease, onboarding, secret, db, published,
                     invitations, sessions, commands>>
    BY DEF Arrive, Start, logging, jobs, policy, tables
<1>2. starts' \in Nat /\ requests' \in [Requests -> Authority]
    BY <1>1 DEF IInv, TypeOK
<1>3. \A q \in Requests : requests'[q] = IF q = r THEN id ELSE requests[q]
    BY <1>1 DEF IInv, TypeOK
<1>4. TypeOK'
    BY <1>1, <1>2 DEF IInv, TypeOK
<1>5. PrincipalsExist'
    BY <1>1, <1>3 DEF IInv, PrincipalsExist, Exists, Known
<1>6. StagesAgree' /\ LoginsOnce'
    BY <1>1 DEF IInv, StagesAgree, StageAgrees, LoginsOnce
<1>7. SessionsFixed'
    <2>1. ASSUME NEW q \in Requests, requests'[q].via \in Callbacks
          PROVE  /\ sessions'[requests'[q].via].id.caps # {}
                 /\ Within(requests'[q], sessions'[requests'[q].via].id)
        BY <1>1, <1>3, <2>1 DEF IInv, SessionsFixed
    <2>q. QED
        BY <1>1, <2>1 DEF IInv, SessionsFixed, Within
<1>q. QED
    BY <1>1, <1>4, <1>5, <1>6, <1>7, SameDb, RestStays DEF IInv

LEMMA AuthenticatePreserves ==
    ASSUME IInv, NEW r \in Requests,
           \/ AuthenticateSeed(r)
           \/ \E s \in Subjects, claim \in Claims \cup {Absent} : AuthenticateJwt(r, s, claim)
           \/ \E c \in Callbacks : AuthenticateSession(r, c)
    PROVE  IInv'
<1>1. CASE AuthenticateSeed(r)
    <2> DEFINE act == {o \in Orgs : published.orgs[o] = "active"}
    <2>1. SeedIdentity = [NoAuthority EXCEPT !.caps = Caps, !.sys = TRUE, !.active = act, !.via = "seed"]
        BY DEF SeedIdentity
    <2>2. act \in SUBSET Orgs
        OBVIOUS
    <2> HIDE DEF act
    <2>3. SeedIdentity \in Authority /\ SeedIdentity.user = None /\ SeedIdentity.via = "seed"
        BY <2>1, <2>2, NoAuthorityTyped DEF Authority, Ways
    <2>q. QED
        BY <1>1, <2>3, ArrivePreserves, IdentityAssumption DEF AuthenticateSeed, Exists
<1>2. ASSUME NEW s \in Subjects, NEW claim \in Claims \cup {Absent}, AuthenticateJwt(r, s, claim)
      PROVE  IInv'
    <2> DEFINE id == JwtIdentity(published, s, claim)
    <2>1. published \in Tables /\ VerifiesJwt(published, s, claim) /\ Arrive(r, id)
        BY <1>2 DEF AuthenticateJwt, IInv, TypeOK
    <2>2. /\ id \in Authority /\ id.via = "jwt" /\ id.user \in Users
          /\ published.users[id.user] = "active"
        BY <2>1, JwtTyped
    <2> HIDE DEF id
    <2>3. Exists(id)
        BY <2>2 DEF IInv, PrincipalsExist, Known, Exists
    <2>q. QED
        BY <2>1, <2>2, <2>3, ArrivePreserves, IdentityAssumption
<1>3. ASSUME NEW c \in Callbacks, AuthenticateSession(r, c) PROVE IInv'
    <2> DEFINE id == SessionIdentity(published, c)
    <2>1. sessions[c].live /\ ValidSession(published, sessions[c].id) /\ Arrive(r, id)
        BY <1>3 DEF AuthenticateSession
    <2>2. /\ id \in Authority /\ id.via = c /\ id.user = sessions[c].id.user
          /\ Within(id, sessions[c].id)
        BY <2>1, SessionTyped
    <2> HIDE DEF id
    <2>3. Exists(id)
        BY <2>2 DEF IInv, PrincipalsExist, Exists
    <2>4. sessions[c].id.caps # {}
        BY <2>1 DEF IInv, SessionsFixed
    <2>q. QED
        BY <2>1, <2>2, <2>3, <2>4, ArrivePreserves
<1>q. QED
    BY <1>1, <1>2, <1>3

LEMMA EndSessionPreserves == ASSUME IInv, NEW c \in Callbacks, EndSession(c) PROVE IInv'
<1>1. /\ sessions' = [sessions EXCEPT ![c].live = FALSE]
      /\ UNCHANGED <<logins, callbacks, invitations, requests, refresh, sealing, lease, onboarding,
                     secret, db, published, commands, starts>>
    BY DEF EndSession, logging, people, jobs, policy, tables, bounds
<1>2. SessionsKept
    BY <1>1 DEF IInv, TypeOK, SessionsKept, Session
<1>3. OthersTyped
    BY <1>1 DEF IInv, TypeOK, OthersTyped
<1>q. QED
    BY <1>1, <1>2, <1>3, SameDb, SameRequests, SameInvitations, RestStays, CommandPreserves

LEMMA PublishPreserves == ASSUME IInv, Publish PROVE IInv'
<1>1. /\ published' = db
      /\ UNCHANGED <<logins, callbacks, invitations, requests, refresh, sealing, lease, onboarding,
                     secret, db, sessions, commands, starts>>
    BY DEF Publish, logging, people, jobs, policy, bounds
<1>2. TypeOK'
    BY <1>1 DEF IInv, TypeOK
<1>3. PrincipalsExist'
    BY <1>1 DEF IInv, PrincipalsExist, Known, Exists
<1>4. StagesAgree' /\ LoginsOnce' /\ SessionsFixed'
    BY <1>1 DEF IInv, StagesAgree, StageAgrees, LoginsOnce, SessionsFixed, Within
<1>5. db.issuer.version \in Nat
    BY DEF IInv, TypeOK, Tables, Issuer
<1>6. VersionsAgree' /\ JobsAgree' /\ IssuerMaterialIsCurrent'
    BY <1>1, <1>5 DEF IInv, VersionsAgree, JobsAgree, IssuerMaterialIsCurrent
<1>7. OwnersKept' /\ MembersExist' /\ InvitationsFit'
    BY <1>1 DEF IInv, OwnersKept, MembersExist, InvitationsFit, InvitationFits
<1>q. QED
    BY <1>2, <1>3, <1>4, <1>6, <1>7 DEF IInv

-----------------------------------------------------------------------------
(* Every step, and the theorems                                             *)

LEMMA InitEstablishes == Init => IInv
<1> SUFFICES ASSUME Init PROVE IInv
    OBVIOUS
<1>0. PICK start \in Installations :
      /\ db = [users |-> [u \in Users |-> IF u \in NewUsers THEN "none" ELSE "active"],
               orgs |-> [o \in Orgs |-> IF o \in NewOrgs THEN "none" ELSE "active"],
               members |-> start.members, admins |-> {}, bindings |-> InitUser, removed |-> {},
               issuer |-> [status |-> "active", version |-> 1, ceiling |-> Caps,
                           mode |-> "optional", onboards |-> TRUE,
                           source |-> CHOOSE x \in Sources : TRUE,
                           material |-> [id |-> 1, source |-> CHOOSE x \in Sources : TRUE],
                           profile |-> CHOOSE p \in Profiles : TRUE]]
      /\ invitations = [i \in Invites |->
            IF \E o \in Orgs : <<i, o>> \in start.invited
            THEN [state |-> "pending", org |-> CHOOSE o \in Orgs : <<i, o>> \in start.invited,
                  role |-> "owner", byOwner |-> TRUE]
            ELSE NoInvite]
      /\ commands = Cardinality(start.invited)
    BY Zenon DEF Init
<1>1. /\ db.users = [u \in Users |-> IF u \in NewUsers THEN "none" ELSE "active"]
      /\ db.orgs = [o \in Orgs |-> IF o \in NewOrgs THEN "none" ELSE "active"]
      /\ db.members = start.members /\ db.admins = {} /\ db.bindings = InitUser /\ db.removed = {}
      /\ db.issuer = [status |-> "active", version |-> 1, ceiling |-> Caps,
                      mode |-> "optional", onboards |-> TRUE,
                      source |-> CHOOSE x \in Sources : TRUE,
                      material |-> [id |-> 1, source |-> CHOOSE x \in Sources : TRUE],
                      profile |-> CHOOSE p \in Profiles : TRUE]
      /\ db = [users |-> db.users, orgs |-> db.orgs, members |-> db.members, admins |-> db.admins,
               bindings |-> db.bindings, removed |-> db.removed, issuer |-> db.issuer]
    BY <1>0
<1>2. /\ published = db /\ onboarding = "join" /\ secret = None
      /\ sessions = [c \in Callbacks |-> [id |-> NoAuthority, live |-> FALSE]]
      /\ logins = [l \in Logins |-> [state |-> "none", version |-> 0, sessions |-> 0]]
      /\ callbacks = [c \in Callbacks |-> Idle]
      /\ requests = [r \in Requests |-> NoAuthority]
      /\ refresh = NoJob /\ sealing = NoJob /\ lease = [fence |-> 0, valid |-> FALSE] /\ starts = 0
    BY DEF Init
<1>3. (CHOOSE x \in Sources : TRUE) \in Sources /\ (CHOOSE p \in Profiles : TRUE) \in Profiles
    BY IdentityAssumption
<1>4. [id |-> 1, source |-> CHOOSE x \in Sources : TRUE] \in Material
    BY <1>3 DEF Material
<1>5. db.issuer \in Issuer /\ db.issuer.version = 1 /\ db.issuer.material.source = db.issuer.source
    BY <1>1, <1>3, <1>4 DEF Issuer, Modes
<1>6. start.members \in [Orgs -> [Users -> Roles]] /\ IsFiniteSet(start.invited)
    BY IdentityAssumption
<1>7. /\ db.users \in [Users -> Statuses] /\ db.orgs \in [Orgs -> {"none", "active", "suspended"}]
      /\ db.bindings \in [Subjects -> Users \cup {None}]
    BY <1>1, IdentityAssumption DEF Statuses
<1>8. db \in Tables
    BY <1>1, <1>5, <1>6, <1>7 DEF Tables
<1>9. ASSUME NEW i \in Invites PROVE invitations[i] \in Invitation /\ InvitationFits(invitations[i])
    <2>1. CASE \E o \in Orgs : <<i, o>> \in start.invited
        <3> DEFINE o == CHOOSE o \in Orgs : <<i, o>> \in start.invited
        <3>1. o \in Orgs
            BY <2>1
        <3>2. invitations[i] = [state |-> "pending", org |-> o, role |-> "owner", byOwner |-> TRUE]
            BY <1>0, <2>1
        <3> HIDE DEF o
        <3>q. QED
            BY <3>1, <3>2 DEF Invitation, InvitationFits, Roles
    <2>2. CASE ~\E o \in Orgs : <<i, o>> \in start.invited
        <3>1. invitations[i] = NoInvite
            BY <1>0, <2>2
        <3>q. QED
            BY <3>1 DEF NoInvite, Invitation, InvitationFits, Roles
    <2>q. QED
        BY <2>1, <2>2
<1>10. invitations \in [Invites -> Invitation] /\ InvitationsFit
    <2>1. DOMAIN invitations = Invites /\ invitations = [i \in Invites |-> invitations[i]]
        BY <1>0
    <2>q. QED
        BY <1>9, <2>1 DEF InvitationsFit
<1>11. commands \in Nat
    BY <1>0, <1>6, FS_CardinalityType
<1>12. TypeOK
    <2>1. sessions \in [Callbacks -> Session] /\ requests \in [Requests -> Authority]
        BY <1>2, NoAuthorityTyped DEF Session
    <2>2. logins \in [Logins -> LoginRow] /\ lease \in Lease /\ starts \in Nat
        BY <1>2 DEF LoginRow, Lease
    <2>3. callbacks \in [Callbacks -> Callback] /\ refresh \in Job /\ sealing \in Job
        BY <1>2, IdleTyped, NoJobTyped
    <2>4. published \in Tables /\ onboarding \in Kinds /\ secret \in Sources \cup Profiles \cup {None}
        BY <1>2, <1>8 DEF Kinds
    <2>q. QED
        BY <1>8, <1>10, <1>11, <2>1, <2>2, <2>3, <2>4 DEF TypeOK
<1>13. OwnersKept
    <2> SUFFICES ASSUME NEW o \in Orgs, db.orgs[o] = "active"
                 PROVE  \E u \in Users : db.members[o][u] = "owner"
        BY DEF OwnersKept
    <2>1. o \notin NewOrgs
        BY <1>1
    <2>q. QED
        BY <1>1, <2>1, IdentityAssumption
<1>14. MembersExist
    BY <1>1, IdentityAssumption DEF MembersExist
<1>15. PrincipalsExist
    BY <1>2, NoAuthorityTyped, IdleTyped DEF PrincipalsExist, Exists, Known
<1>16. StagesAgree /\ SessionsFixed
    BY <1>2, NoAuthorityTyped, IdleTyped, IdentityAssumption DEF StagesAgree, StageAgrees, SessionsFixed
<1>17. LoginsOnce
    BY <1>2, IdleTyped, IdentityAssumption DEF LoginsOnce
<1>18. VersionsAgree /\ JobsAgree /\ IssuerMaterialIsCurrent
    BY <1>2, <1>5, NoJobTyped DEF VersionsAgree, JobsAgree, IssuerMaterialIsCurrent
<1>q. QED
    BY <1>10, <1>12, <1>13, <1>14, <1>15, <1>16, <1>17, <1>18 DEF IInv

LEMMA TenancyPreserves == ASSUME IInv, Tenancy PROVE IInv'
BY UserPreserves, AdministratorPreserves, OrganizationPreserves, MembershipPreserves,
   InvitationPreserves, AcceptPreserves DEF Tenancy

LEMMA ExternalPreserves == ASSUME IInv, External PROVE IInv'
BY BindingPreserves, UpdateIssuerPreserves, RenamePreserves, BeginSecretPreserves,
   CommitSecretPreserves, OnboardingPreserves, BeginRefreshPreserves, ExpireLeasePreserves,
   FinishRefreshPreserves DEF External, Kinds

LEMMA LoginStepPreserves == ASSUME IInv, Login PROVE IInv'
BY BeginLoginPreserves, ConsumePreserves, ExchangePreserves, ProvisionPreserves, InsertPreserves,
   CallbackFailsPreserves, EndSessionPreserves, AuthenticatePreserves, PublishPreserves DEF Login

LEMMA StutterPreserves == ASSUME IInv, UNCHANGED vars PROVE IInv'
<1>1. /\ UNCHANGED <<logins, callbacks, invitations, requests, refresh, sealing, lease, onboarding,
                     secret, db, published, sessions, commands, starts>>
    BY DEF vars
<1>2. OthersTyped
    BY <1>1 DEF IInv, TypeOK, OthersTyped
<1>q. QED
    BY <1>1, <1>2, SameDb, SameSessions, SameRequests, SameInvitations, RestStays, CommandPreserves

LEMMA NextPreserves == IInv /\ [Next]_vars => IInv'
BY TenancyPreserves, ExternalPreserves, LoginStepPreserves, StutterPreserves DEF Next

\* The inductive invariant: tables that are only changed with care, logins that
\* are used once, and jobs that are never ahead of the issuer.
THEOREM IdentityInvariant == Spec => []IInv
<1>q. QED
    BY InitEstablishes, NextPreserves, PTL DEF Spec

\* The type invariant, for every set of users, organizations and logins.
THEOREM TypeCorrect == Spec => []TypeOK
<1>1. IInv => TypeOK
    BY DEF IInv
<1>q. QED
    BY <1>1, IdentityInvariant, PTL

\* An active organization has an owner after every command, accepted invitation
\* and onboarding (ensure_not_final_owner, enforce_active_organization_owner),
\* and an invitation for an owner was issued by somebody who could make owners.
THEOREM OwnersAlwaysRemain == Spec => []OwnersRemain
<1>1. IInv => OwnersRemain
    BY DEF IInv, OwnersKept, InvitationsFit, InvitationFits, OwnersRemain
<1>q. QED
    BY <1>1, IdentityInvariant, PTL

\* One session per browser login, and no request of a session with more than the
\* login proved (complete_oidc_login, validate_session_principal).
THEOREM SessionAlwaysWithinLogin == Spec => []SessionWithinLogin
<1>1. IInv => SessionWithinLogin
    BY DEF IInv, LoginsOnce, SessionsFixed, Within, SessionWithinLogin
<1>q. QED
    BY <1>1, IdentityInvariant, PTL

\* The verifier material is of the source in force and the client secret of the
\* profile in force, although both were fetched before the issuer was locked.
THEOREM MaterialIsAlwaysCurrent == Spec => []IssuerMaterialIsCurrent
<1>1. IInv => IssuerMaterialIsCurrent
    BY DEF IInv
<1>q. QED
    BY <1>1, IdentityInvariant, PTL

\* Only provisioning takes a callback from provisioning to its session.
LEMMA OnlyProvision ==
    ASSUME IInv, Next, NEW c \in Callbacks,
           callbacks[c].stage = "provision", callbacks'[c].stage = "session"
    PROVE  ProvisionSubject(c)
<1>0. callbacks \in [Callbacks -> Callback]
    BY DEF IInv, TypeOK
<1>1. ~UNCHANGED callbacks
    OBVIOUS
<1>2. ~Tenancy
    <2>1. ASSUME SystemCommand \/ \E r \in Requests : OrgCommand(r) PROVE FALSE
        BY <1>1, <2>1 DEF SystemCommand, OrgCommand, logging
    <2>2. ASSUME NEW u \in Users,
                 \/ CreateUser(u) \/ GrantAdministrator(u) \/ RevokeAdministrator(u)
                 \/ \E status \in {"active", "disabled"} : UpdateUser(u, status)
          PROVE  FALSE
        BY <2>1, <2>2 DEF CreateUser, GrantAdministrator, RevokeAdministrator, UpdateUser
    <2>3. ASSUME NEW o \in Orgs,
                 \/ \E u \in Users : CreateOrganization(o, u)
                 \/ \E status \in {"active", "suspended"} : UpdateOrganization(o, status)
          PROVE  FALSE
        BY <2>1, <2>3 DEF CreateOrganization, UpdateOrganization
    <2>4. ASSUME NEW r \in Requests, NEW o \in Orgs, NEW u \in Users,
                 \/ RemoveMembership(r, o, u)
                 \/ \E role \in Roles \ {"none"} : \/ CreateMembership(r, o, u, role)
                                                   \/ UpdateMembership(r, o, u, role)
          PROVE  FALSE
        BY <2>1, <2>4 DEF RemoveMembership, CreateMembership, UpdateMembership
    <2>5. ASSUME NEW r \in Requests, NEW i \in Invites,
                 \/ ResendInvitation(r, i) \/ RevokeInvitation(r, i) \/ AcceptInvitation(r, i)
                 \/ \E o \in Orgs, role \in Roles \ {"none"} : CreateInvitation(r, i, o, role)
          PROVE  FALSE
        BY <2>1, <2>5 DEF ResendInvitation, RevokeInvitation, CreateInvitation, AcceptInvitation
    <2>q. QED
        BY <2>2, <2>3, <2>4, <2>5 DEF Tenancy
<1>3. ~External
    BY <1>1 DEF External, RemoveBinding, CreateBinding, RelinkBinding, UpdateIssuer, RenameIssuer,
       BeginSecret, CommitSecret, UpdateOnboarding, BeginRefresh, ExpireLease, FinishRefresh,
       SystemCommand, logging
<1>4. ASSUME NEW d \in Callbacks, NEW b, callbacks' = [callbacks EXCEPT ![d] = b] PROVE d = c
    BY <1>0, <1>4
<1>5. ASSUME NEW d \in Callbacks, CallbackFails(d) \/ InsertSession(d) PROVE FALSE
    <2>1. callbacks' = [callbacks EXCEPT ![d] = Idle]
        BY <1>5 DEF CallbackFails, InsertSession
    <2>q. QED
        BY <1>0, <2>1, IdleTyped
<1>6. ASSUME NEW d \in Callbacks, NEW l \in Logins, ConsumeLogin(d, l) PROVE FALSE
    <2> DEFINE b == [Idle EXCEPT !.stage = "exchange", !.login = l, !.gen = published]
    <2>1. callbacks' = [callbacks EXCEPT ![d] = b]
        BY <1>1, <1>6 DEF ConsumeLogin
    <2>2. b.stage = "exchange"
        BY DEF Idle
    <2> HIDE DEF b
    <2>q. QED
        BY <1>0, <2>1, <2>2
<1>7. ASSUME NEW d \in Callbacks, NEW s \in Subjects, NEW claim \in Claims \cup {Absent},
             Exchange(d, s, claim)
      PROVE  FALSE
    <2>1. callbacks[d].stage = "exchange" /\ \E b : callbacks' = [callbacks EXCEPT ![d] = b]
        BY <1>7 DEF Exchange
    <2>q. QED
        BY <1>4, <2>1
<1>8. ASSUME NEW d \in Callbacks, ProvisionSubject(d) PROVE d = c
    BY <1>4, <1>8, ProvisionSteps
<1>9. Login
    BY <1>2, <1>3 DEF Next
<1>10. PICK d \in Callbacks : ProvisionSubject(d)
    BY <1>1, <1>5, <1>6, <1>7, <1>9 DEF Login, BeginLogin, ExpireLogin, EndSession, AuthenticateSeed,
       AuthenticateJwt, AuthenticateSession, Arrive, Publish, logging
<1>q. QED
    BY <1>8, <1>10

\* A subject that was provisioned, or found bound by then, goes on with what the
\* tables grant it in that transaction (patch_oidc_subject_generation).
THEOREM ProvisionedIsAlwaysCurrent == Spec => ProvisionedIdentityIsCurrent
<1>1. ASSUME IInv, [Next]_vars, NEW c \in Callbacks,
             callbacks[c].stage = "provision", callbacks'[c].stage = "session"
      PROVE  /\ callbacks'[c].id.sys => callbacks'[c].id.user \in db'.admins
             /\ \A o \in Orgs : callbacks'[c].id.orgs[o] # {} =>
                    /\ db'.orgs[o] = "active"
                    /\ callbacks'[c].id.orgs[o] \subseteq RoleCaps(db'.members[o][callbacks'[c].id.user])
    <2>1. Next
        BY <1>1 DEF vars
    <2>2. ProvisionSubject(c)
        BY <1>1, <2>1, OnlyProvision
    <2>3. PICK u \in Users : callbacks' = [callbacks EXCEPT ![c] = ContinueWith(c, db', u)]
        BY <1>1, <2>2, ProvisionSteps
    <2>4. callbacks'[c] = ContinueWith(c, db', u)
        BY <1>1, <2>3 DEF IInv, TypeOK
    <2>5. db' \in Tables
        BY <1>1, <2>2, ProvisionSteps DEF DbStep
    <2>6. GrantedBy(callbacks'[c].id, db')
        BY <1>1, <2>4, <2>5, ContinueTyped
    <2>q. QED
        BY <2>6 DEF GrantedBy
<1>2. IInv /\ [Next]_vars =>
        [\A c \in Callbacks :
         callbacks[c].stage = "provision" /\ callbacks'[c].stage = "session" =>
           LET id == callbacks'[c].id IN
           /\ id.sys => id.user \in db'.admins
           /\ \A o \in Orgs : id.orgs[o] # {} =>
                 db'.orgs[o] = "active" /\ id.orgs[o] \subseteq RoleCaps(db'.members[o][id.user])]_vars
    BY <1>1
<1>q. QED
    BY <1>2, IdentityInvariant, PTL DEF Spec, ProvisionedIdentityIsCurrent

=============================================================================
