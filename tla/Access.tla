------------------------------- MODULE Access -------------------------------
(***************************************************************************)
(* Who may use the system (api/auth.py, services/auth.py,                  *)
(* services/invite.py, services/entities.py, api/entities.py, api/deps.py, *)
(* the session clean-up of services/scheduler): the first owner registers, *)
(* users log in and out, owners and admins invite others, who become       *)
(* members of every entity of the tenant.                                  *)
(*                                                                         *)
(* A request is one transaction at READ COMMITTED.  It makes its checks    *)
(* when it begins and its writes appear when it commits; other requests    *)
(* may commit in between.  The database refuses a second user of one email *)
(* and the UPDATE of a row that is gone.  A refusal changes nothing: what  *)
(* a refused login records of itself is rolled back with it, so that the   *)
(* window of failed logins, which counts committed rows, stays empty and   *)
(* its check is left out.  Passwords, names and tokens are left out.       *)
(***************************************************************************)
EXTENDS Naturals, Sequences, FiniteSets

CONSTANTS Emails,       \* the emails people register or are invited with
          Clients,      \* where requests come from
          Tokens,       \* the session tokens; bound: as many sessions at a time
          None,
          Roles,        \* the roles of entity_members, "owner" and "admin" among them
          SessionTTL,   \* settings.session_ttl_hours
          InviteTTL,    \* _INVITE_TTL_HOURS
          MaxNow,       \* bound: the clock
          MaxTenants,   \* bound: workspaces
          MaxEntities,  \* bound: entities ever created
          MaxInvites    \* bound: invites ever created

ASSUME NoneAssumption == None \notin Emails \cup 1..MaxTenants
ASSUME TTLAssumption == SessionTTL \in Nat \ {0} /\ InviteTTL \in Nat \ {0}
ASSUME RolesAssumption == "owner" \in Roles
ASSUME BoundsAssumption == {MaxNow, MaxTenants, MaxEntities, MaxInvites} \subseteq Nat

VARIABLES serial,     \* whether requests come one at a time
          now,        \* utcnow()
          tenants,    \* how many workspaces there are, numbered from 1
          users,      \* users[e]: the tenant of the user with email e, or None
          entities,   \* entities[i]: the tenant of entity i
          members,    \* the rows of entity_members
          sessions,   \* sessions[s]: the session with token s, or None
          invites,    \* every invite ever created
          req         \* req[c]: the request of client c

db == <<tenants, users, entities, members, sessions, invites>>
vars == <<serial, now, db, req>>

Member == [entity : 1..MaxEntities, user : Emails, role : Roles]
Session == [user : Emails, expires : Nat]
Invite == [tenant : 1..MaxTenants, email : Emails, role : Roles, expires : Nat,
           accepted : BOOLEAN, revoked : BOOLEAN]

Idle == [op |-> "idle"]

TypeOK ==
  /\ serial \in BOOLEAN /\ now \in 0..MaxNow /\ tenants \in 0..MaxTenants
  /\ users \in [Emails -> 1..MaxTenants \cup {None}]
  /\ entities \in Seq(1..MaxTenants) /\ Len(entities) <= MaxEntities
  /\ members \subseteq Member
  /\ sessions \in [Tokens -> Session \cup {None}]
  /\ invites \in Seq(Invite) /\ Len(invites) <= MaxInvites
  /\ DOMAIN req = Clients

Init == /\ serial \in BOOLEAN /\ now = 0 /\ tenants = 0
        /\ users = [e \in Emails |-> None]
        /\ entities = <<>> /\ members = {}
        /\ sessions = [s \in Tokens |-> None] /\ invites = <<>>
        /\ req = [c \in Clients |-> Idle]

Tick == now < MaxNow /\ now' = now + 1 /\ UNCHANGED <<serial, db, req>>

-----------------------------------------------------------------------------
(* get_current_user: the session a request may be made with. *)
Valid(s) == sessions[s] # None /\ now < sessions[s].expires

UserOf(s) == sessions[s].user
TenantOf(s) == users[UserOf(s)]

(* Mutants of EntitiesOf: the first entity only; the entity after it, too. *)
FirstEntityOf(t) == {i \in DOMAIN entities : entities[i] = t /\ \A k \in 1..(i - 1) : entities[k] # t}
EntitiesAround(t) == {i \in 1..(Len(entities) + 1) : i > 1 => entities[i - 1] = t}

(* The entities of a tenant, which whoever accepts an invite joins. *)
EntitiesOf(t) == {i \in DOMAIN entities : entities[i] = t}

(* get_entity_for_user: the membership by which a user reaches an entity. *)
MembershipOf(u, i) == {m \in members : m.user = u /\ m.entity = i /\ entities[i] = users[u]}

(* require_role *)
HasRole(u, i, allowed) == \E m \in MembershipOf(u, i) : m.role \in allowed

(* require_tenant_admin_or_owner *)
Governs(s) == \E i \in DOMAIN entities : HasRole(UserOf(s), i, {"owner", "admin"})

Pending(t, e) == {i \in DOMAIN invites :
                    /\ invites[i].tenant = t /\ invites[i].email = e
                    /\ ~invites[i].accepted /\ ~invites[i].revoked
                    /\ now < invites[i].expires}

(* A request begins: its checks have passed and r is what it goes on with. *)
(* With serial, it begins when no other is under way.                      *)
AtOnce(c) == IF serial THEN \A d \in Clients : req[d] = Idle ELSE req[c] = Idle

Begin(c, r) == /\ AtOnce(c)
               /\ req' = [req EXCEPT ![c] = r]
               /\ UNCHANGED <<serial, now, db>>

(* Its transaction ends; only the listed tables change. *)
End(c) == req' = [req EXCEPT ![c] = Idle] /\ UNCHANGED <<serial, now>>

Rollback(c) == /\ req[c] # Idle /\ End(c) /\ UNCHANGED db

(* The rows a committing request leaves. *)
NewSession(s, u) == [sessions EXCEPT ![s] = [user |-> u, expires |-> now + SessionTTL]]
NewMember(i, u, role) == [entity |-> i, user |-> u, role |-> role]

(* A token nobody has; one that a request goes on with is not given out.   *)
Unused(s) == /\ sessions[s] = None
             /\ \A c \in Clients : "by" \in DOMAIN req[c] => req[c].by # s

(* The UPDATE of last_seen_at finds the row of the session a request was   *)
(* made with; otherwise the request fails.                                 *)
Seen(s) == sessions[s] # None

-----------------------------------------------------------------------------
(* Logging in and out reads rows that no other request changes, so that    *)
(* each is one step, at its commit.                                        *)
Login(c, e, s) ==
  /\ AtOnce(c) /\ users[e] # None /\ Unused(s)
  /\ sessions' = NewSession(s, e)
  /\ UNCHANGED <<serial, now, req, tenants, users, entities, members, invites>>

(* The DELETE of a row that is already gone is no error. *)
Removed(rows) == [r \in Tokens |->
                    IF r \in rows THEN None ELSE sessions[r]]

Logout(c, s) ==
  /\ AtOnce(c) /\ Valid(s)
  /\ sessions' = Removed({s})
  /\ UNCHANGED <<serial, now, req, tenants, users, entities, members, invites>>

RevokeAll(c, s) ==
  /\ AtOnce(c) /\ Valid(s)
  /\ sessions' = Removed({r \in Tokens : sessions[r] # None /\ UserOf(r) = UserOf(s)})
  /\ UNCHANGED <<serial, now, req, tenants, users, entities, members, invites>>

(* The scheduler's clean-up. *)
Cleanup(c) ==
  /\ AtOnce(c)
  /\ sessions' = Removed({r \in Tokens : sessions[r] # None /\ ~Valid(r)})
  /\ UNCHANGED <<serial, now, req, tenants, users, entities, members, invites>>

BeginRegisterOwner(c, e) ==
  /\ \A d \in Emails : users[d] = None
  /\ Begin(c, [op |-> "register", email |-> e])

(* A tenant, its owner, a personal and a business entity, a session. *)
RegisterOwner(c, s) ==
  LET e == req[c].email IN
  /\ req[c].op = "register" /\ users[e] = None
  /\ tenants < MaxTenants /\ Unused(s) /\ Len(entities) + 2 <= MaxEntities
  /\ tenants' = tenants + 1
  /\ users' = [users EXCEPT ![e] = tenants + 1]
  /\ entities' = entities \o <<tenants + 1, tenants + 1>>
  /\ members' = members \cup {NewMember(Len(entities) + k, e, "owner") : k \in 1..2}
  /\ sessions' = NewSession(s, e)
  /\ End(c) /\ UNCHANGED invites

-----------------------------------------------------------------------------
(* A second pending invite makes scalar_one_or_none raise. *)
BeginInvite(c, s, e, role) ==
  /\ Valid(s) /\ Governs(s)
  /\ users[e] # TenantOf(s)
  /\ Cardinality(Pending(TenantOf(s), e)) <= 1
  /\ Pending(TenantOf(s), e) # {} \/ Len(invites) < MaxInvites
  /\ Begin(c, [op |-> "invite", by |-> s, tenant |-> TenantOf(s), email |-> e, role |-> role,
               found |-> Pending(TenantOf(s), e)])

CreateInvite(c) ==
  LET r == req[c] IN
  /\ r.op = "invite" /\ Seen(r.by)
  /\ IF r.found # {}
     THEN /\ invites' = [i \in DOMAIN invites |->
                           IF i \in r.found
                           THEN [invites[i] EXCEPT !.role = r.role, !.expires = now + InviteTTL]
                           ELSE invites[i]]
     ELSE /\ Len(invites) < MaxInvites
          /\ invites' = Append(invites, [tenant |-> r.tenant, email |-> r.email,
                                         role |-> r.role, expires |-> now + InviteTTL,
                                         accepted |-> FALSE, revoked |-> FALSE])
  /\ End(c) /\ UNCHANGED <<tenants, users, entities, members, sessions>>

(* Mutant of MayRevoke: an accepted invite may be revoked, too. *)
MayRevokeAny(i, t) == invites[i].tenant = t

MayRevoke(i, t) == invites[i].tenant = t /\ ~invites[i].accepted

BeginRevoke(c, s, i) ==
  /\ Valid(s) /\ Governs(s) /\ MayRevoke(i, TenantOf(s))
  /\ Begin(c, [op |-> "revoke", by |-> s, invite |-> i])

RevokeInvite(c) ==
  LET r == req[c] IN
  /\ r.op = "revoke" /\ Seen(r.by)
  /\ invites' = [invites EXCEPT ![r.invite].revoked = TRUE]
  /\ End(c) /\ UNCHANGED <<tenants, users, entities, members, sessions>>

MayAccept(i) == /\ ~invites[i].revoked /\ ~invites[i].accepted
                /\ now < invites[i].expires
                /\ users[invites[i].email] = None

BeginAccept(c, i) ==
  /\ MayAccept(i)
  /\ Begin(c, [op |-> "accept", invite |-> i, role |-> invites[i].role,
               entities |-> EntitiesOf(invites[i].tenant)])

(* uq_users_email *)
EmailAny(e) == TRUE   \* mutant: no such constraint
EmailFree(e) == users[e] = None

AcceptInvite(c, s) ==
  LET r == req[c]
      e == invites[r.invite].email
  IN /\ r.op = "accept" /\ EmailFree(e) /\ Unused(s)
     /\ users' = [users EXCEPT ![e] = invites[r.invite].tenant]
     /\ members' = members \cup {NewMember(i, e, r.role) : i \in r.entities}
     /\ invites' = [invites EXCEPT ![r.invite].accepted = TRUE]
     /\ sessions' = NewSession(s, e)
     /\ End(c) /\ UNCHANGED <<tenants, entities>>

-----------------------------------------------------------------------------
BeginCreateEntity(c, s) ==
  /\ Valid(s) /\ Len(entities) < MaxEntities
  /\ Begin(c, [op |-> "entity", by |-> s, user |-> UserOf(s)])

CreateEntity(c) ==
  LET u == req[c].user
      i == Len(entities) + 1
  IN /\ req[c].op = "entity" /\ Seen(req[c].by) /\ i <= MaxEntities
     /\ entities' = Append(entities, users[u])
     /\ members' = members \cup {NewMember(i, u, "owner")}
     /\ End(c) /\ UNCHANGED <<tenants, users, sessions, invites>>

Next ==
  \/ Tick
  \/ \E c \in Clients :
       \/ \E e \in Emails : BeginRegisterOwner(c, e)
       \/ \E s \in Tokens :
            \/ \E e \in Emails : Login(c, e, s)
            \/ RegisterOwner(c, s) \/ AcceptInvite(c, s)
            \/ Logout(c, s) \/ RevokeAll(c, s) \/ BeginCreateEntity(c, s)
            \/ \E e \in Emails, role \in Roles : BeginInvite(c, s, e, role)
            \/ \E i \in DOMAIN invites : BeginRevoke(c, s, i)
       \/ \E i \in DOMAIN invites : BeginAccept(c, i)
       \/ Cleanup(c)
       \/ CreateInvite(c)
       \/ RevokeInvite(c) \/ CreateEntity(c) \/ Rollback(c)

Spec == Init /\ [][Next]_vars

-----------------------------------------------------------------------------
(* However requests overlap, an email is let in by one invite at most, and *)
(* then as a user of the workspace that invited it, once per entity and    *)
(* only to entities of that workspace: accept_invite reads the users       *)
(* before it inserts one.                                                  *)
AcceptedOnce ==
  /\ \A i, j \in DOMAIN invites :
       invites[i].accepted => /\ users[invites[i].email] = invites[i].tenant
                              /\ invites[j].accepted /\ invites[j].email = invites[i].email => i = j
  /\ \A m \in members : users[m.user] = entities[m.entity]
  /\ \A m, n \in members : m.user = n.user /\ m.entity = n.entity => m = n

(* One request at a time: a revoked invite lets nobody in, and there is    *)
(* one workspace, whoever registers (revoke_invite, accept_invite,         *)
(* register_owner each read what they depend on in an earlier statement).  *)
InvitesAndOwnersSettled ==
  serial => /\ \A i \in DOMAIN invites : ~(invites[i].accepted /\ invites[i].revoked)
            /\ tenants <= 1

(* One request at a time: whoever accepts an invite is from then on a      *)
(* member of every entity of the workspace, with the role last invited to, *)
(* even when the invite was refreshed (accept_invite, create_invite).      *)
JoinsEveryEntity ==
  [][serial => \A i \in DOMAIN invites :
       invites'[i].accepted /\ ~invites[i].accepted =>
         \A k \in {k \in DOMAIN entities' : entities'[k] = invites[i].tenant} :
           [entity |-> k, user |-> invites[i].email, role |-> invites[i].role] \in members']_vars
=============================================================================
