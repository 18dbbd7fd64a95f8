---------------------------- MODULE AccessProofs ----------------------------
(***************************************************************************)
(* However requests overlap, an email is let in by one invite; one request *)
(* at a time, what a request read when it began still holds when it        *)
(* commits, and with it what Access says of invites and memberships.       *)
(***************************************************************************)
EXTENDS Access, SequenceTheorems, TLAPS

(* What a request goes on with. *)
Request ==
  {Idle} \cup [op : {"register"}, email : Emails]
         \cup [op : {"invite"}, by : Tokens, tenant : 1..MaxTenants, email : Emails,
               role : Roles, found : SUBSET (1..MaxInvites)]
         \cup [op : {"revoke"}, by : Tokens, invite : 1..MaxInvites]
         \cup [op : {"accept"}, invite : 1..MaxInvites, role : Roles,
               entities : SUBSET (1..MaxEntities)]
         \cup [op : {"entity"}, by : Tokens, user : Emails]

RequestsOK == req \in [Clients -> Request]

(* Who is logged in, or was when the request began, is a user; rows are    *)
(* never deleted, so what a request names is there when it commits.        *)
UsersLast ==
  /\ \A s \in Tokens : sessions[s] # None => users[sessions[s].user] # None
  /\ \A c \in Clients : req[c].op = "entity" => users[req[c].user] # None

NamedRowsLast == \A c \in Clients :
  /\ req[c].op = "invite" => req[c].found \subseteq DOMAIN invites
  /\ req[c].op = "revoke" => req[c].invite \in DOMAIN invites
  /\ req[c].op = "accept" =>
       /\ req[c].invite \in DOMAIN invites
       /\ req[c].entities \subseteq EntitiesOf(invites[req[c].invite].tenant)

MembersOfEntities == \A m \in members : m.entity \in DOMAIN entities

(* register_owner creates a workspace and a user of it together. *)
NoTenantUnused == tenants # 0 => \E e \in Emails : users[e] # None

(* One request at a time, what a request read is so until it commits. *)
ReadsCurrent(c) ==
  /\ req[c].op = "register" => tenants = 0
  /\ req[c].op = "revoke" => ~invites[req[c].invite].accepted
  /\ req[c].op = "accept" =>
       /\ ~invites[req[c].invite].revoked
       /\ req[c].role = invites[req[c].invite].role
       /\ req[c].entities = EntitiesOf(invites[req[c].invite].tenant)

OneAtATime == serial =>
  /\ \A c, d \in Clients : req[c] # Idle /\ req[d] # Idle => c = d
  /\ \A c \in Clients : ReadsCurrent(c)

AccessInv == /\ TypeOK /\ RequestsOK /\ UsersLast /\ NamedRowsLast /\ MembersOfEntities
             /\ NoTenantUnused /\ OneAtATime /\ AcceptedOnce /\ InvitesAndOwnersSettled

-----------------------------------------------------------------------------
LEMMA InitAccess == Init => AccessInv
<1> SUFFICES ASSUME Init PROVE AccessInv
  OBVIOUS
<1> USE NoneAssumption, BoundsAssumption
<1>1. /\ serial \in BOOLEAN /\ now = 0 /\ tenants = 0 /\ entities = <<>> /\ members = {}
      /\ users = [e \in Emails |-> None] /\ sessions = [s \in Tokens |-> None]
      /\ invites = <<>> /\ req = [c \in Clients |-> Idle]
  BY DEF Init
<1>2. TypeOK
  BY <1>1 DEF TypeOK
<1>3. \A c \in Clients : req[c] = Idle /\ req[c].op = "idle"
  BY <1>1 DEF Idle
<1>4. RequestsOK /\ UsersLast /\ NamedRowsLast /\ OneAtATime
  BY <1>1, <1>3 DEF RequestsOK, Request, UsersLast, NamedRowsLast, OneAtATime, ReadsCurrent
<1>5. MembersOfEntities /\ NoTenantUnused /\ AcceptedOnce /\ InvitesAndOwnersSettled
  BY <1>1 DEF MembersOfEntities, NoTenantUnused, AcceptedOnce, InvitesAndOwnersSettled
<1>6. QED
  BY <1>2, <1>4, <1>5 DEF AccessInv

(* The rows a commit leaves alone: users stay, invites stay addressed to   *)
(* whom they were, entities stay with their workspace.                     *)
RowsLast ==
  /\ \A e \in Emails : users[e] # None => users'[e] = users[e]
  /\ \A i \in DOMAIN invites : /\ i \in DOMAIN invites'
                               /\ invites'[i].tenant = invites[i].tenant
                               /\ invites'[i].email = invites[i].email
  /\ \A i \in DOMAIN entities : i \in DOMAIN entities' /\ entities'[i] = entities[i]

(* What AccessInv says of requests survives the end of any of them. *)
LEMMA EndAccess ==
  ASSUME AccessInv, NEW c \in Clients, req[c] # Idle, End(c), RowsLast,
         \A s \in Tokens : sessions'[s] # None => users'[sessions'[s].user] # None
  PROVE  (RequestsOK /\ UsersLast /\ NamedRowsLast /\ OneAtATime)'
<1>1. /\ \A d \in Clients : req'[d] = IF d = c THEN Idle ELSE req[d]
      /\ req' \in [Clients -> Request] /\ serial' = serial
  BY DEF AccessInv, RequestsOK, End, Request
<1>2. Idle.op = "idle"
  BY DEF Idle
<1>3. UsersLast'
  <2>1. ASSUME NEW d \in Clients, req'[d].op = "entity"
        PROVE  users'[req'[d].user] # None
    <3>1. req'[d] = req[d] /\ req[d].op = "entity" /\ req[d] \in Request
      BY <1>1, <1>2, <2>1 DEF AccessInv, RequestsOK
    <3>2. req[d].user \in Emails
      BY <3>1, <1>2 DEF Request
    <3>3. QED
      BY <3>1, <3>2 DEF AccessInv, UsersLast, RowsLast
  <2>2. QED
    BY <2>1 DEF UsersLast
<1>4. NamedRowsLast'
  <2>1. ASSUME NEW d \in Clients, d # c
        PROVE  /\ req[d].op = "invite" => req[d].found \subseteq DOMAIN invites'
               /\ req[d].op = "revoke" => req[d].invite \in DOMAIN invites'
               /\ req[d].op = "accept" =>
                    /\ req[d].invite \in DOMAIN invites'
                    /\ \A i \in req[d].entities :
                         i \in DOMAIN entities' /\ entities'[i] = invites[req[d].invite].tenant
    BY DEF AccessInv, NamedRowsLast, RowsLast, EntitiesOf
  <2>2. \A d \in Clients : req[d].op = "accept" =>
          invites'[req[d].invite].tenant = invites[req[d].invite].tenant
    BY DEF AccessInv, NamedRowsLast, RowsLast
  <2>3. QED
    BY <1>1, <1>2, <2>1, <2>2 DEF NamedRowsLast, EntitiesOf
<1>5. OneAtATime'
  <2>1. ASSUME serial
        PROVE  \A d \in Clients : req'[d] = Idle
    BY <1>1, <2>1 DEF AccessInv, OneAtATime
  <2>2. QED
    BY <1>1, <1>2, <2>1 DEF OneAtATime, ReadsCurrent
<1>6. QED
  BY <1>1, <1>3, <1>4, <1>5 DEF RequestsOK

(* A request begins: what it read, which is r, is so. *)
LEMMA BeginAccess ==
  ASSUME AccessInv, NEW c \in Clients, NEW r \in Request, r # Idle, Begin(c, r),
         r.op = "entity" => users[r.user] # None,
         r.op = "invite" => r.found \subseteq DOMAIN invites,
         r.op = "revoke" => r.invite \in DOMAIN invites /\ ~invites[r.invite].accepted,
         r.op = "register" => \A e \in Emails : users[e] = None,
         r.op = "accept" =>
           /\ r.invite \in DOMAIN invites
           /\ ~invites[r.invite].revoked
           /\ r.role = invites[r.invite].role
           /\ r.entities = EntitiesOf(invites[r.invite].tenant)
  PROVE  AccessInv'
<1>1. /\ req' = [req EXCEPT ![c] = r] /\ req' \in [Clients -> Request]
      /\ \A d \in Clients : req'[d] = IF d = c THEN r ELSE req[d]
  BY DEF AccessInv, RequestsOK, Begin
<1>2. /\ serial' = serial /\ now' = now /\ tenants' = tenants /\ users' = users
      /\ entities' = entities /\ members' = members /\ sessions' = sessions /\ invites' = invites
  BY DEF Begin, db
<1>3. TypeOK' /\ MembersOfEntities' /\ NoTenantUnused' /\ AcceptedOnce' /\ InvitesAndOwnersSettled'
  <2>1. TypeOK'
    BY <1>1, <1>2 DEF AccessInv, TypeOK
  <2>2. MembersOfEntities' /\ NoTenantUnused' /\ InvitesAndOwnersSettled'
    BY <1>2 DEF AccessInv, MembersOfEntities, NoTenantUnused, InvitesAndOwnersSettled
  <2>3. AcceptedOnce'
    BY <1>2 DEF AccessInv, AcceptedOnce
  <2>4. QED
    BY <2>1, <2>2, <2>3
<1>4. UsersLast' /\ NamedRowsLast'
  BY <1>1, <1>2 DEF AccessInv, UsersLast, NamedRowsLast, EntitiesOf
<1>5. OneAtATime'
  <2>1. SUFFICES ASSUME serial
                 PROVE  /\ \A d, e \in Clients : req'[d] # Idle /\ req'[e] # Idle => d = e
                        /\ \A d \in Clients : ReadsCurrent(d)'
    BY <1>2 DEF OneAtATime
  <2>2. \A d \in Clients : req[d] = Idle
    BY <2>1 DEF Begin, AtOnce
  <2>3. \A d \in Clients : d # c => req'[d] = Idle /\ req'[d].op = "idle"
    BY <1>1, <2>2 DEF Idle
  <2>4. r.op = "register" => tenants = 0
    BY DEF AccessInv, NoTenantUnused
  <2>5. ReadsCurrent(c)'
    BY <1>1, <1>2, <2>4 DEF ReadsCurrent, EntitiesOf
  <2>6. QED
    BY <2>3, <2>5 DEF ReadsCurrent
<1>6. QED
  BY <1>1, <1>3, <1>4, <1>5 DEF AccessInv, RequestsOK

(* The clock, the sessions and the end of requests matter to nothing else. *)
LEMMA SessionsAccess ==
  ASSUME AccessInv, now' \in 0..MaxNow,
         UNCHANGED <<serial, tenants, users, entities, members, invites>>,
         sessions' \in [Tokens -> Session \cup {None}],
         \A s \in Tokens : sessions'[s] # None => users[sessions'[s].user] # None,
         req' = req \/ \E c \in Clients : req[c] # Idle /\ End(c)
  PROVE  AccessInv'
<1>1. /\ serial' = serial /\ tenants' = tenants /\ users' = users /\ entities' = entities
      /\ members' = members /\ invites' = invites
  OBVIOUS
<1>2. (RequestsOK /\ UsersLast /\ NamedRowsLast /\ OneAtATime)'
  <2>1. CASE req' = req
    <3>1. RequestsOK' /\ UsersLast'
      BY <1>1, <2>1 DEF AccessInv, RequestsOK, UsersLast
    <3>2. NamedRowsLast' /\ OneAtATime'
      BY <1>1, <2>1 DEF AccessInv, NamedRowsLast, OneAtATime, ReadsCurrent, EntitiesOf
    <3>3. QED
      BY <3>1, <3>2
  <2>2. CASE \E c \in Clients : req[c] # Idle /\ End(c)
    <3>1. RowsLast
      BY <1>1 DEF RowsLast
    <3>2. QED
      BY <1>1, <2>2, <3>1, EndAccess
  <2>3. QED
    BY <2>1, <2>2
<1>3. TypeOK'
  BY <1>1, <1>2 DEF AccessInv, TypeOK, RequestsOK
<1>4. MembersOfEntities' /\ NoTenantUnused' /\ InvitesAndOwnersSettled'
  BY <1>1 DEF AccessInv, MembersOfEntities, NoTenantUnused, InvitesAndOwnersSettled
<1>5. AcceptedOnce'
  BY <1>1 DEF AccessInv, AcceptedOnce
<1>6. QED
  BY <1>2, <1>3, <1>4, <1>5 DEF AccessInv

LEMMA NewSessionType ==
  ASSUME TypeOK, NEW s \in Tokens, NEW e \in Emails
  PROVE  /\ NewSession(s, e) \in [Tokens -> Session \cup {None}]
         /\ NewSession(s, e)[s].user = e
         /\ \A t \in Tokens : t # s => NewSession(s, e)[t] = sessions[t]
<1>1. now + SessionTTL \in Nat
  BY TTLAssumption, BoundsAssumption DEF TypeOK
<1>2. [user |-> e, expires |-> now + SessionTTL] \in Session
  BY <1>1 DEF Session
<1>3. QED
  BY <1>2 DEF TypeOK, NewSession

-----------------------------------------------------------------------------
(* A new workspace: nobody was in it, its two entities are new. *)
LEMMA RegisterAccess ==
  ASSUME AccessInv, NEW c \in Clients, NEW s \in Tokens, RegisterOwner(c, s)
  PROVE  AccessInv'
<1> USE NoneAssumption, BoundsAssumption
<1> DEFINE e == req[c].email
           t == tenants + 1
           n == Len(entities)
<1>1. /\ req[c].op = "register" /\ users[e] = None /\ tenants < MaxTenants /\ n + 2 <= MaxEntities
      /\ users' = [users EXCEPT ![e] = t] /\ tenants' = t
      /\ entities' = entities \o <<t, t>>
      /\ members' = members \cup {NewMember(n + k, e, "owner") : k \in 1..2}
      /\ sessions' = NewSession(s, e) /\ invites' = invites
      /\ End(c) /\ serial' = serial /\ now' = now
  BY DEF RegisterOwner, End
<1>2. e \in Emails /\ req[c] # Idle
  <2>1. req[c] \in Request
    BY DEF AccessInv, RequestsOK
  <2>2. QED
    BY <1>1, <2>1 DEF Request, Idle
<1>3. t \in 1..MaxTenants /\ n \in Nat /\ entities \in Seq(1..MaxTenants)
  BY <1>1 DEF AccessInv, TypeOK
<1>4. /\ entities' \in Seq(1..MaxTenants) /\ Len(entities') = n + 2
      /\ DOMAIN entities = 1..n /\ DOMAIN entities' = 1..(n + 2)
      /\ \A i \in 1..n : entities'[i] = entities[i]
      /\ entities'[n + 1] = t /\ entities'[n + 2] = t
  <2>1. <<t, t>> \in Seq(1..MaxTenants) /\ Len(<<t, t>>) = 2
    BY <1>3
  <2>2. QED
    BY <1>1, <1>3, <2>1
<1>5. /\ users' \in [Emails -> 1..MaxTenants \cup {None}] /\ users'[e] = t
      /\ \A d \in Emails : d # e => users'[d] = users[d]
  BY <1>1, <1>2, <1>3 DEF AccessInv, TypeOK
<1>6. /\ sessions' \in [Tokens -> Session \cup {None}]
      /\ \A r \in Tokens : sessions'[r] # None => users'[sessions'[r].user] # None
  <2>1. \A r \in Tokens : r # s => sessions'[r] = sessions[r]
    BY <1>1, <1>2, NewSessionType DEF AccessInv
  <2>2. sessions' \in [Tokens -> Session \cup {None}] /\ sessions'[s].user = e
    BY <1>1, <1>2, NewSessionType DEF AccessInv
  <2>3. \A r \in Tokens : sessions[r] # None => sessions[r].user \in Emails
    BY DEF AccessInv, TypeOK, Session
  <2>4. QED
    BY <1>3, <1>5, <2>1, <2>2, <2>3, ZenonT(60) DEF AccessInv, UsersLast
<1>7. (RequestsOK /\ UsersLast /\ NamedRowsLast /\ OneAtATime)'
  <2>1. RowsLast
    BY <1>1, <1>4, <1>5 DEF RowsLast
  <2>2. QED
    BY <1>1, <1>2, <1>6, <2>1, EndAccess
<1>8. \A m \in members' :
        \/ m \in members /\ m.user # e /\ m.entity \in 1..n
        \/ /\ m.user = e /\ m.entity \in {n + 1, n + 2} /\ m.role = "owner"
           /\ m \in Member
  <2>1. \A m \in members : m.user \in Emails /\ m.entity \in 1..n
    BY <1>4 DEF AccessInv, TypeOK, Member, MembersOfEntities
  <2>2. \A m \in members : users[m.user] \in 1..MaxTenants
    <3>1. \A i \in 1..n : entities[i] \in 1..MaxTenants
      <4>1. PICK T : T = 1..MaxTenants /\ entities \in Seq(T)
        BY <1>3
      <4>2. \A i \in DOMAIN entities : entities[i] \in T
        BY <4>1
      <4>3. QED
        BY <1>4, <4>1, <4>2
    <3>2. \A m \in members : users[m.user] = entities[m.entity]
      BY DEF AccessInv, AcceptedOnce
    <3>3. QED
      BY <2>1, <3>1, <3>2
  <2>3. \A k \in 1..2 : LET m == NewMember(n + k, e, "owner") IN
          m.user = e /\ m.entity \in {n + 1, n + 2} /\ m.role = "owner" /\ m \in Member
    BY <1>1, <1>2, <1>3, RolesAssumption DEF NewMember, Member
  <2>4. QED
    BY <1>1, <2>1, <2>2, <2>3
<1>9. TypeOK'
  <2>1. members' \subseteq Member
    BY <1>8 DEF AccessInv, TypeOK
  <2>2. QED
    BY <1>1, <1>3, <1>4, <1>5, <1>6, <1>7, <2>1 DEF AccessInv, TypeOK, RequestsOK
<1>10. MembersOfEntities' /\ NoTenantUnused'
  <2>1. users'[e] # None
    BY <1>3, <1>5
  <2>2. \A m \in members' : m.entity \in 1..(n + 2)
    BY <1>3, <1>8
  <2>3. QED
    BY <1>2, <1>4, <2>1, <2>2 DEF MembersOfEntities, NoTenantUnused
<1>11. AcceptedOnce'
  <2>1. \A i \in DOMAIN invites : invites[i] \in Invite
    BY DEF AccessInv, TypeOK
  <2>2. \A i \in DOMAIN invites : invites[i].accepted =>
          invites[i].email # e /\ users'[invites[i].email] = invites[i].tenant
    BY <1>1, <1>5, <2>1 DEF AccessInv, AcceptedOnce, Invite
  <2>3. \A i, j \in DOMAIN invites :
          invites[i].accepted /\ invites[j].accepted /\ invites[j].email = invites[i].email => i = j
    BY DEF AccessInv, AcceptedOnce
  <2>4. \A m \in members' : users'[m.user] = entities'[m.entity]
    <3>1. \A m \in members : m.user \in Emails /\ users[m.user] = entities[m.entity]
      BY DEF AccessInv, TypeOK, Member, AcceptedOnce
    <3>2. QED
      BY <1>4, <1>5, <1>8, <3>1
  <2>5. \A x, y \in members' : x.user = y.user /\ x.entity = y.entity => x = y
    <3>1. \A x, y \in members : x.user = y.user /\ x.entity = y.entity => x = y
      BY DEF AccessInv, AcceptedOnce
    <3>2. \A x, y \in Member : x.user = y.user /\ x.entity = y.entity /\ x.role = y.role => x = y
      BY DEF Member
    <3>3. QED
      BY <1>8, <3>1, <3>2
  <2>6. QED
    BY <1>1, <2>2, <2>3, <2>4, <2>5 DEF AcceptedOnce
<1>12. InvitesAndOwnersSettled'
  <2>1. serial => tenants = 0
    BY <1>1 DEF AccessInv, OneAtATime, ReadsCurrent
  <2>2. QED
    BY <1>1, <2>1 DEF AccessInv, InvitesAndOwnersSettled
<1>13. QED
  BY <1>7, <1>9, <1>10, <1>11, <1>12 DEF AccessInv

(* create_invite and revoke_invite change columns of invites, or add one   *)
(* nobody has accepted.                                                    *)
LEMMA InvitesAccess ==
  ASSUME AccessInv, NEW c \in Clients, req[c] # Idle, End(c),
         UNCHANGED <<tenants, users, entities, members, sessions>>,
         invites' \in Seq(Invite), Len(invites') <= MaxInvites, Len(invites) <= Len(invites'),
         \A i \in DOMAIN invites :
           /\ invites'[i].tenant = invites[i].tenant
           /\ invites'[i].email = invites[i].email
           /\ invites'[i].accepted = invites[i].accepted
           /\ serial /\ invites[i].accepted => invites'[i].revoked = invites[i].revoked,
         \A i \in DOMAIN invites' : i \in DOMAIN invites \/ ~invites'[i].accepted
  PROVE  AccessInv'
<1>1. /\ serial' = serial /\ now' = now /\ tenants' = tenants /\ users' = users
      /\ entities' = entities /\ members' = members /\ sessions' = sessions
  BY DEF End
<1>2. DOMAIN invites = 1..Len(invites) /\ DOMAIN invites' = 1..Len(invites') /\ invites \in Seq(Invite)
  BY DEF AccessInv, TypeOK
<1>3. DOMAIN invites \subseteq DOMAIN invites'
  BY <1>2
<1>4. (RequestsOK /\ UsersLast /\ NamedRowsLast /\ OneAtATime)'
  <2>1. RowsLast
    BY <1>1, <1>3 DEF RowsLast
  <2>2. QED
    BY <1>1, <2>1, EndAccess DEF AccessInv, UsersLast
<1>5. TypeOK'
  BY <1>1, <1>4 DEF AccessInv, TypeOK, RequestsOK
<1>6. MembersOfEntities' /\ NoTenantUnused'
  BY <1>1 DEF AccessInv, MembersOfEntities, NoTenantUnused
<1>7. AcceptedOnce'
  <2>1. \A i \in DOMAIN invites' : invites'[i].accepted =>
          /\ i \in DOMAIN invites /\ invites[i].accepted
          /\ invites'[i].tenant = invites[i].tenant /\ invites'[i].email = invites[i].email
    OBVIOUS
  <2>2. \A i, j \in DOMAIN invites' : invites'[i].accepted =>
          /\ users'[invites'[i].email] = invites'[i].tenant
          /\ invites'[j].accepted /\ invites'[j].email = invites'[i].email => i = j
    BY <1>1, <2>1 DEF AccessInv, AcceptedOnce
  <2>3. QED
    BY <1>1, <2>2 DEF AccessInv, AcceptedOnce
<1>8. InvitesAndOwnersSettled'
  BY <1>1 DEF AccessInv, InvitesAndOwnersSettled
<1>9. QED
  BY <1>4, <1>5, <1>6, <1>7, <1>8 DEF AccessInv

LEMMA CreateInviteAccess ==
  ASSUME AccessInv, NEW c \in Clients, CreateInvite(c)
  PROVE  AccessInv'
<1> USE BoundsAssumption
<1> DEFINE r == req[c]
           n == Len(invites)
<1>1. /\ r.op = "invite" /\ End(c) /\ UNCHANGED <<tenants, users, entities, members, sessions>>
  BY DEF CreateInvite
<1>2. r # Idle /\ r.tenant \in 1..MaxTenants /\ r.email \in Emails /\ r.role \in Roles
  <2>1. r \in Request
    BY DEF AccessInv, RequestsOK
  <2>2. QED
    BY <1>1, <2>1 DEF Request, Idle
<1>3. invites \in Seq(Invite) /\ n \in Nat /\ n <= MaxInvites /\ DOMAIN invites = 1..n
  BY DEF AccessInv, TypeOK
<1>4. now + InviteTTL \in Nat
  BY TTLAssumption DEF AccessInv, TypeOK
<1>5. CASE r.found # {}
  <2>1. invites' = [i \in DOMAIN invites |->
                      IF i \in r.found
                      THEN [invites[i] EXCEPT !.role = r.role, !.expires = now + InviteTTL]
                      ELSE invites[i]]
    BY <1>5 DEF CreateInvite
  <2>2. \A i \in 1..n : /\ invites'[i] \in Invite
                        /\ invites'[i].tenant = invites[i].tenant
                        /\ invites'[i].email = invites[i].email
                        /\ invites'[i].accepted = invites[i].accepted
                        /\ invites'[i].revoked = invites[i].revoked
    <3>1. ASSUME NEW i \in 1..n PROVE invites[i] \in Invite
      BY <1>3
    <3>2. QED
      BY <1>2, <1>3, <1>4, <2>1, <3>1 DEF Invite
  <2>3. invites' \in Seq(Invite) /\ Len(invites') = n
    <3>1. invites' \in [1..n -> Invite]
      BY <1>3, <2>1, <2>2
    <3>2. QED
      BY <1>3, <3>1
  <2>4. QED
    BY <1>1, <1>2, <1>3, <2>2, <2>3, InvitesAccess
<1>6. CASE r.found = {}
  <2> DEFINE row == [tenant |-> r.tenant, email |-> r.email, role |-> r.role,
                     expires |-> now + InviteTTL, accepted |-> FALSE, revoked |-> FALSE]
  <2>1. n < MaxInvites /\ invites' = Append(invites, row)
    BY <1>6 DEF CreateInvite
  <2>2. row \in Invite /\ ~row.accepted
    BY <1>2, <1>4 DEF Invite
  <2> HIDE DEF row
  <2>3. /\ invites' \in Seq(Invite) /\ Len(invites') = n + 1
        /\ \A i \in 1..n : invites'[i] = invites[i]
        /\ invites'[n + 1] = row
    BY <1>3, <2>1, <2>2
  <2>4. \A i \in DOMAIN invites' : i \in DOMAIN invites \/ ~invites'[i].accepted
    BY <1>3, <2>2, <2>3
  <2>5. QED
    BY <1>1, <1>2, <1>3, <2>1, <2>3, <2>4, InvitesAccess
<1>7. QED
  BY <1>5, <1>6

(* One request at a time, an invite that was not accepted when the request *)
(* began is not when it is revoked.                                        *)
LEMMA RevokeAccess ==
  ASSUME AccessInv, NEW c \in Clients, RevokeInvite(c)
  PROVE  AccessInv'
<1> DEFINE k == req[c].invite
<1>1. /\ req[c].op = "revoke" /\ End(c) /\ UNCHANGED <<tenants, users, entities, members, sessions>>
      /\ invites' = [invites EXCEPT ![k].revoked = TRUE]
  BY DEF RevokeInvite
<1>2. req[c] # Idle /\ k \in DOMAIN invites
  BY <1>1 DEF AccessInv, NamedRowsLast, Idle
<1>3. invites \in Seq(Invite) /\ Len(invites) <= MaxInvites /\ DOMAIN invites = 1..Len(invites)
  BY DEF AccessInv, TypeOK
<1>4. serial => ~invites[k].accepted
  BY <1>1 DEF AccessInv, OneAtATime, ReadsCurrent
<1>5. \A i \in 1..Len(invites) :
        /\ invites'[i] \in Invite
        /\ invites'[i].tenant = invites[i].tenant
        /\ invites'[i].email = invites[i].email
        /\ invites'[i].accepted = invites[i].accepted
        /\ i # k => invites'[i].revoked = invites[i].revoked
  <2>1. \A i \in 1..Len(invites) : invites[i] \in Invite
    BY <1>3
  <2>2. QED
    BY <1>1, <1>2, <1>3, <2>1 DEF Invite
<1>6. invites' \in Seq(Invite) /\ Len(invites') = Len(invites) /\ DOMAIN invites' = DOMAIN invites
  <2>1. invites' \in [1..Len(invites) -> Invite]
    BY <1>1, <1>3, <1>5
  <2>2. QED
    BY <1>3, <2>1
<1>7. \A i \in DOMAIN invites :
        serial /\ invites[i].accepted => invites'[i].revoked = invites[i].revoked
  BY <1>3, <1>4, <1>5
<1>8. Len(invites') <= MaxInvites /\ Len(invites) <= Len(invites')
  BY <1>3, <1>6, BoundsAssumption
<1>9. QED
  BY <1>1, <1>2, <1>3, <1>5, <1>6, <1>7, <1>8, InvitesAccess

(* Whoever accepts was no user when the request commits, so no member and  *)
(* let in by no other invite.                                              *)
LEMMA AcceptAccess ==
  ASSUME AccessInv, NEW c \in Clients, NEW s \in Tokens, AcceptInvite(c, s)
  PROVE  AccessInv'
<1> USE NoneAssumption, BoundsAssumption
<1> DEFINE k == req[c].invite
           e == invites[k].email
           t == invites[k].tenant
           new == {NewMember(i, e, req[c].role) : i \in req[c].entities}
<1>1. /\ req[c].op = "accept" /\ users[e] = None
      /\ users' = [users EXCEPT ![e] = t] /\ tenants' = tenants
      /\ entities' = entities /\ members' = members \cup new
      /\ invites' = [invites EXCEPT ![k].accepted = TRUE]
      /\ sessions' = NewSession(s, e)
      /\ End(c) /\ serial' = serial /\ now' = now
  BY DEF AcceptInvite, EmailFree, End
<1>2. req[c] # Idle /\ k \in DOMAIN invites /\ req[c].role \in Roles
      /\ \A i \in req[c].entities : i \in DOMAIN entities /\ entities[i] = t
  <2>1. req[c] # Idle /\ k \in DOMAIN invites
        /\ \A i \in req[c].entities : i \in DOMAIN entities /\ entities[i] = t
    BY <1>1 DEF AccessInv, NamedRowsLast, Idle, EntitiesOf
  <2>2. req[c] \in Request
    BY DEF AccessInv, RequestsOK
  <2>3. QED
    BY <1>1, <2>1, <2>2 DEF Request, Idle
<1>3. /\ invites \in Seq(Invite) /\ DOMAIN invites = 1..Len(invites) /\ Len(invites) <= MaxInvites
      /\ entities \in Seq(1..MaxTenants) /\ DOMAIN entities = 1..Len(entities)
      /\ Len(entities) \in Nat /\ Len(entities) <= MaxEntities
  BY DEF AccessInv, TypeOK
<1>4. e \in Emails /\ t \in 1..MaxTenants
  <2>1. invites[k] \in Invite
    BY <1>2, <1>3
  <2>2. QED
    BY <2>1 DEF Invite
<1>5. /\ users' \in [Emails -> 1..MaxTenants \cup {None}] /\ users'[e] = t
      /\ \A d \in Emails : d # e => users'[d] = users[d]
  BY <1>1, <1>4 DEF AccessInv, TypeOK
<1>6. /\ DOMAIN invites' = DOMAIN invites /\ invites'[k].accepted
      /\ \A i \in DOMAIN invites :
           /\ invites'[i] \in Invite
           /\ invites'[i].tenant = invites[i].tenant
           /\ invites'[i].email = invites[i].email
           /\ invites'[i].revoked = invites[i].revoked
           /\ i # k => invites'[i].accepted = invites[i].accepted
  <2>1. \A i \in DOMAIN invites : invites[i] \in Invite
    BY <1>3
  <2>2. QED
    BY <1>1, <1>2, <1>3, <2>1 DEF Invite
<1>7. invites' \in Seq(Invite) /\ Len(invites') <= MaxInvites
  <2>1. invites' \in [1..Len(invites) -> Invite]
    BY <1>1, <1>3, <1>6
  <2>2. QED
    BY <1>3, <2>1
<1>8. /\ sessions' \in [Tokens -> Session \cup {None}]
      /\ \A r \in Tokens : sessions'[r] # None => users'[sessions'[r].user] # None
  <2>1. \A r \in Tokens : r # s => sessions'[r] = sessions[r]
    BY <1>1, <1>4, NewSessionType DEF AccessInv
  <2>2. sessions' \in [Tokens -> Session \cup {None}] /\ sessions'[s].user = e
    BY <1>1, <1>4, NewSessionType DEF AccessInv
  <2>3. \A r \in Tokens : sessions[r] # None => sessions[r].user \in Emails
    BY DEF AccessInv, TypeOK, Session
  <2>4. users'[e] # None
    BY <1>4, <1>5
  <2>5. QED
    BY <1>5, <2>1, <2>2, <2>3, <2>4 DEF AccessInv, UsersLast
<1>9. (RequestsOK /\ UsersLast /\ NamedRowsLast /\ OneAtATime)'
  <2>1. RowsLast
    BY <1>1, <1>5, <1>6 DEF RowsLast
  <2>2. QED
    BY <1>1, <1>2, <1>8, <2>1, EndAccess
<1>10. \A m \in members' :
         \/ m \in members /\ m.user # e
         \/ /\ m.user = e /\ m.role = req[c].role /\ m \in Member
            /\ m.entity \in DOMAIN entities /\ entities[m.entity] = t
  <2>1. \A m \in members : m.user # e
    <3>1. \A m \in members : m.entity \in DOMAIN entities /\ users[m.user] = entities[m.entity]
      BY DEF AccessInv, MembersOfEntities, AcceptedOnce
    <3>2. \A i \in DOMAIN entities : entities[i] \in 1..MaxTenants
      BY <1>3
    <3>3. QED
      BY <1>1, <3>1, <3>2
  <2>2. \A i \in req[c].entities : LET m == NewMember(i, e, req[c].role) IN
          m.user = e /\ m.role = req[c].role /\ m.entity = i /\ m \in Member
    BY <1>2, <1>3, <1>4 DEF NewMember, Member
  <2>3. QED
    BY <1>1, <1>2, <2>1, <2>2
<1>11. TypeOK'
  <2>1. members' \subseteq Member
    BY <1>10 DEF AccessInv, TypeOK
  <2>2. QED
    BY <1>1, <1>5, <1>7, <1>8, <1>9, <2>1 DEF AccessInv, TypeOK, RequestsOK
<1>12. MembersOfEntities' /\ NoTenantUnused'
  <2>1. users'[e] # None
    BY <1>4, <1>5
  <2>2. QED
    BY <1>1, <1>4, <1>10, <2>1 DEF AccessInv, MembersOfEntities, NoTenantUnused
<1>13. AcceptedOnce'
  <2>1. \A i \in DOMAIN invites : invites[i].email \in Emails /\ invites[i].tenant \in 1..MaxTenants
    <3>1. \A i \in DOMAIN invites : invites[i] \in Invite
      BY <1>3
    <3>2. QED
      BY <3>1 DEF Invite
  <2>2. \A i \in DOMAIN invites : invites[i].accepted =>
          /\ users[invites[i].email] = invites[i].tenant
          /\ invites[i].email # e
          /\ \A j \in DOMAIN invites :
               invites[j].accepted /\ invites[j].email = invites[i].email => i = j
    <3>1. \A i, j \in DOMAIN invites : invites[i].accepted =>
            /\ users[invites[i].email] = invites[i].tenant
            /\ invites[j].accepted /\ invites[j].email = invites[i].email => i = j
      BY DEF AccessInv, AcceptedOnce
    <3>2. QED
      BY <1>1, <2>1, <3>1
  <2>3. \A i \in DOMAIN invites' : invites'[i].accepted => i = k \/ invites[i].accepted
    BY <1>6
  <2>4. \A i, j \in DOMAIN invites' : invites'[i].accepted =>
          /\ users'[invites'[i].email] = invites'[i].tenant
          /\ invites'[j].accepted /\ invites'[j].email = invites'[i].email => i = j
    BY <1>2, <1>5, <1>6, <2>1, <2>2, <2>3
  <2>5. \A m \in members' : users'[m.user] = entities'[m.entity]
    <3>1. \A m \in members : m.user \in Emails /\ users[m.user] = entities[m.entity]
      BY DEF AccessInv, TypeOK, Member, AcceptedOnce
    <3>2. QED
      BY <1>1, <1>5, <1>10, <3>1
  <2>6. \A x, y \in members' : x.user = y.user /\ x.entity = y.entity => x = y
    <3>1. \A x, y \in members : x.user = y.user /\ x.entity = y.entity => x = y
      BY DEF AccessInv, AcceptedOnce
    <3>2. \A x, y \in Member : x.user = y.user /\ x.entity = y.entity /\ x.role = y.role => x = y
      BY DEF Member
    <3>3. QED
      BY <1>10, <3>1, <3>2
  <2>7. QED
    BY <2>4, <2>5, <2>6 DEF AcceptedOnce
<1>14. InvitesAndOwnersSettled'
  <2>1. serial => ~invites[k].revoked
    BY <1>1 DEF AccessInv, OneAtATime, ReadsCurrent
  <2>2. serial => tenants <= 1 /\ \A i \in DOMAIN invites : ~(invites[i].accepted /\ invites[i].revoked)
    BY DEF AccessInv, InvitesAndOwnersSettled
  <2>3. serial' => \A i \in DOMAIN invites' : ~(invites'[i].accepted /\ invites'[i].revoked)
    BY <1>1, <1>2, <1>6, <2>1, <2>2
  <2>4. QED
    BY <1>1, <2>2, <2>3 DEF InvitesAndOwnersSettled
<1>15. QED
  BY <1>9, <1>11, <1>12, <1>13, <1>14 DEF AccessInv

LEMMA CreateEntityAccess ==
  ASSUME AccessInv, NEW c \in Clients, CreateEntity(c)
  PROVE  AccessInv'
<1> USE NoneAssumption, BoundsAssumption
<1> DEFINE u == req[c].user
           n == Len(entities)
<1>1. /\ req[c].op = "entity" /\ n + 1 <= MaxEntities
      /\ entities' = Append(entities, users[u])
      /\ members' = members \cup {NewMember(n + 1, u, "owner")}
      /\ End(c) /\ serial' = serial /\ now' = now
      /\ tenants' = tenants /\ users' = users /\ sessions' = sessions /\ invites' = invites
  BY DEF CreateEntity, End
<1>2. req[c] # Idle /\ u \in Emails /\ users[u] \in 1..MaxTenants
  <2>1. req[c] \in Request
    BY DEF AccessInv, RequestsOK
  <2>2. req[c] # Idle /\ u \in Emails
    BY <1>1, <2>1 DEF Request, Idle
  <2>3. users[u] # None
    BY <1>1 DEF AccessInv, UsersLast
  <2>4. QED
    BY <2>2, <2>3 DEF AccessInv, TypeOK
<1>3. n \in Nat /\ entities \in Seq(1..MaxTenants) /\ DOMAIN entities = 1..n
  BY DEF AccessInv, TypeOK
<1>4. /\ entities' \in Seq(1..MaxTenants) /\ Len(entities') = n + 1 /\ DOMAIN entities' = 1..(n + 1)
      /\ \A i \in 1..n : entities'[i] = entities[i]
      /\ entities'[n + 1] = users[u]
  BY <1>1, <1>2, <1>3
<1>5. (RequestsOK /\ UsersLast /\ NamedRowsLast /\ OneAtATime)'
  <2>1. RowsLast
    BY <1>1, <1>3, <1>4 DEF RowsLast
  <2>2. \A s \in Tokens : sessions'[s] # None => users'[sessions'[s].user] # None
    BY <1>1 DEF AccessInv, UsersLast
  <2>3. QED
    BY <1>1, <1>2, <2>1, <2>2, EndAccess
<1>6. \A m \in members' :
        \/ m \in members /\ m.entity \in 1..n
        \/ m = NewMember(n + 1, u, "owner")
  BY <1>1, <1>3 DEF AccessInv, MembersOfEntities
<1>7. LET m == NewMember(n + 1, u, "owner") IN m \in Member /\ m.entity = n + 1 /\ m.user = u
  BY <1>1, <1>2, <1>3, RolesAssumption DEF NewMember, Member
<1>8. TypeOK'
  <2>1. members' \subseteq Member
    BY <1>6, <1>7 DEF AccessInv, TypeOK
  <2>2. QED
    BY <1>1, <1>4, <1>5, <2>1 DEF AccessInv, TypeOK, RequestsOK
<1>9. MembersOfEntities' /\ NoTenantUnused' /\ InvitesAndOwnersSettled'
  <2>1. MembersOfEntities'
    BY <1>3, <1>4, <1>6, <1>7 DEF MembersOfEntities
  <2>2. QED
    BY <1>1, <2>1 DEF AccessInv, NoTenantUnused, InvitesAndOwnersSettled
<1>10. AcceptedOnce'
  <2>1. /\ \A m \in members : users[m.user] = entities[m.entity]
        /\ \A x, y \in members : x.user = y.user /\ x.entity = y.entity => x = y
    BY DEF AccessInv, AcceptedOnce
  <2>2. \A m \in members' : users'[m.user] = entities'[m.entity]
    BY <1>1, <1>4, <1>6, <1>7, <2>1
  <2>3. \A x, y \in members' : x.user = y.user /\ x.entity = y.entity => x = y
    BY <1>3, <1>6, <1>7, <2>1
  <2>4. QED
    BY <1>1, <2>2, <2>3 DEF AccessInv, AcceptedOnce
<1>11. QED
  BY <1>5, <1>8, <1>9, <1>10 DEF AccessInv

-----------------------------------------------------------------------------
LEMMA BeginRequestAccess ==
  ASSUME AccessInv, NEW c \in Clients,
         \/ \E e \in Emails : BeginRegisterOwner(c, e)
         \/ \E s \in Tokens : \/ BeginCreateEntity(c, s)
                              \/ \E e \in Emails, role \in Roles : BeginInvite(c, s, e, role)
                              \/ \E i \in DOMAIN invites : BeginRevoke(c, s, i)
         \/ \E i \in DOMAIN invites : BeginAccept(c, i)
  PROVE  AccessInv'
<1> USE BoundsAssumption
<1>1. DOMAIN invites \subseteq 1..MaxInvites /\ DOMAIN entities \subseteq 1..MaxEntities
      /\ invites \in Seq(Invite)
  BY DEF AccessInv, TypeOK
<1>2. \A s \in Tokens : Valid(s) => UserOf(s) \in Emails /\ TenantOf(s) \in 1..MaxTenants
  BY DEF AccessInv, TypeOK, UsersLast, Valid, UserOf, TenantOf, Session
<1>3. ASSUME NEW e \in Emails, BeginRegisterOwner(c, e)
      PROVE  AccessInv'
  <2> DEFINE r == [op |-> "register", email |-> e]
  <2>1. r \in Request /\ r # Idle /\ r.op = "register"
    BY DEF Request, Idle
  <2>2. Begin(c, r) /\ \A d \in Emails : users[d] = None
    BY <1>3 DEF BeginRegisterOwner
  <2> HIDE DEF r
  <2>3. QED
    BY <2>1, <2>2, BeginAccess
<1>4. ASSUME NEW s \in Tokens, BeginCreateEntity(c, s)
      PROVE  AccessInv'
  <2> DEFINE r == [op |-> "entity", by |-> s, user |-> UserOf(s)]
  <2>1. Valid(s) /\ Begin(c, r)
    BY <1>4 DEF BeginCreateEntity
  <2>2. r \in Request /\ r # Idle /\ r.op = "entity" /\ r.user = UserOf(s)
    BY <1>2, <2>1 DEF Request, Idle
  <2>3. users[UserOf(s)] # None
    BY <2>1 DEF AccessInv, UsersLast, Valid, UserOf
  <2> HIDE DEF r
  <2>4. QED
    BY <2>1, <2>2, <2>3, BeginAccess
<1>5. ASSUME NEW s \in Tokens, NEW e \in Emails, NEW role \in Roles, BeginInvite(c, s, e, role)
      PROVE  AccessInv'
  <2> DEFINE found == Pending(TenantOf(s), e)
             r == [op |-> "invite", by |-> s, tenant |-> TenantOf(s), email |-> e, role |-> role,
                   found |-> found]
  <2>1. Valid(s) /\ Begin(c, r)
    BY <1>5 DEF BeginInvite
  <2>2. found \subseteq DOMAIN invites
    BY DEF Pending
  <2> HIDE DEF found
  <2>3. r \in Request /\ r # Idle /\ r.op = "invite" /\ r.found = found
    BY <1>1, <1>2, <2>1, <2>2 DEF Request, Idle
  <2> HIDE DEF r
  <2>4. QED
    BY <2>1, <2>2, <2>3, BeginAccess
<1>6. ASSUME NEW s \in Tokens, NEW i \in DOMAIN invites, BeginRevoke(c, s, i)
      PROVE  AccessInv'
  <2> DEFINE r == [op |-> "revoke", by |-> s, invite |-> i]
  <2>1. Begin(c, r) /\ ~invites[i].accepted
    BY <1>6 DEF BeginRevoke, MayRevoke
  <2>2. r \in Request /\ r # Idle /\ r.op = "revoke" /\ r.invite = i
    BY <1>1 DEF Request, Idle
  <2> HIDE DEF r
  <2>3. QED
    BY <2>1, <2>2, BeginAccess
<1>7. ASSUME NEW i \in DOMAIN invites, BeginAccept(c, i)
      PROVE  AccessInv'
  <2> DEFINE reach == EntitiesOf(invites[i].tenant)
             r == [op |-> "accept", invite |-> i, role |-> invites[i].role, entities |-> reach]
  <2>1. Begin(c, r) /\ ~invites[i].revoked
    BY <1>7 DEF BeginAccept, MayAccept
  <2>2. reach \in SUBSET (1..MaxEntities)
    BY <1>1 DEF EntitiesOf
  <2>3. invites[i].role \in Roles
    <3>1. invites[i] \in Invite
      BY <1>1
    <3>2. QED
      BY <3>1 DEF Invite
  <2>4. reach = EntitiesOf(invites[i].tenant)
    OBVIOUS
  <2> HIDE DEF reach
  <2>5. r \in Request /\ r # Idle /\ r.op = "accept" /\ r.invite = i
        /\ r.role = invites[i].role /\ r.entities = reach
    BY <1>1, <2>2, <2>3 DEF Request, Idle
  <2> HIDE DEF r
  <2>6. QED
    BY <2>1, <2>4, <2>5, BeginAccess
<1>8. QED
  BY <1>3, <1>4, <1>5, <1>6, <1>7

LEMMA SessionRequestAccess ==
  ASSUME AccessInv, NEW c \in Clients,
         \/ \E s \in Tokens : \/ \E e \in Emails : Login(c, e, s)
                              \/ Logout(c, s)
                              \/ RevokeAll(c, s)
         \/ Cleanup(c)
  PROVE  AccessInv'
<1>1. UNCHANGED <<serial, now, req, tenants, users, entities, members, invites>>
  BY DEF Login, Logout, RevokeAll, Cleanup
<1>2. now' \in 0..MaxNow
  BY <1>1 DEF AccessInv, TypeOK
<1>3. /\ sessions' \in [Tokens -> Session \cup {None}]
      /\ \A r \in Tokens : sessions'[r] # None => users[sessions'[r].user] # None
  <2>1. ASSUME NEW s \in Tokens, NEW e \in Emails, Login(c, e, s)
        PROVE  /\ sessions' \in [Tokens -> Session \cup {None}]
               /\ \A r \in Tokens : sessions'[r] # None => users[sessions'[r].user] # None
    <3>1. sessions' = NewSession(s, e) /\ users[e] # None
      BY <2>1 DEF Login
    <3>2. QED
      BY <3>1, NewSessionType DEF AccessInv, UsersLast
  <2>2. ASSUME NEW rows, sessions' = Removed(rows)
        PROVE  /\ sessions' \in [Tokens -> Session \cup {None}]
               /\ \A r \in Tokens : sessions'[r] # None => users[sessions'[r].user] # None
    BY <2>2 DEF AccessInv, TypeOK, UsersLast, Removed
  <2>3. (\E s \in Tokens : Logout(c, s) \/ RevokeAll(c, s)) \/ Cleanup(c) =>
          \E rows : sessions' = Removed(rows)
    BY DEF Logout, RevokeAll, Cleanup
  <2>4. QED
    BY <2>1, <2>2, <2>3
<1>4. QED
  BY <1>1, <1>2, <1>3, SessionsAccess

LEMMA NextAccess == AccessInv /\ [Next]_vars => AccessInv'
<1> SUFFICES ASSUME AccessInv, [Next]_vars
             PROVE  AccessInv'
  OBVIOUS
<1>1. /\ now \in 0..MaxNow /\ MaxNow \in Nat /\ sessions \in [Tokens -> Session \cup {None}]
      /\ \A s \in Tokens : sessions[s] # None => users[sessions[s].user] # None
  BY BoundsAssumption DEF AccessInv, TypeOK, UsersLast
<1>2. CASE Tick \/ UNCHANGED vars
  <2>1. UNCHANGED <<serial, tenants, users, entities, members, invites, sessions, req>>
    BY <1>2 DEF Tick, vars, db
  <2>2. now' \in 0..MaxNow
    BY <1>1, <1>2 DEF Tick, vars
  <2>3. QED
    BY <1>1, <2>1, <2>2, SessionsAccess
<1>3. ASSUME NEW c \in Clients, Rollback(c)
      PROVE  AccessInv'
  <2>1. /\ req[c] # Idle /\ End(c)
        /\ UNCHANGED <<serial, now, tenants, users, entities, members, invites, sessions>>
    BY <1>3 DEF Rollback, End, db
  <2>2. QED
    BY <1>1, <2>1, SessionsAccess
<1>4. QED
  BY <1>2, <1>3, BeginRequestAccess, SessionRequestAccess, RegisterAccess, AcceptAccess,
     CreateInviteAccess, RevokeAccess, CreateEntityAccess DEF Next

(* Of any requests, however they overlap: an email is let in by one invite *)
(* at most, as a user of the workspace that invited it; and, one request   *)
(* at a time, no revoked invite lets anybody in and there is one           *)
(* workspace.                                                              *)
THEOREM AccessSafe == Spec => [](TypeOK /\ AcceptedOnce /\ InvitesAndOwnersSettled)
<1>1. AccessInv => TypeOK /\ AcceptedOnce /\ InvitesAndOwnersSettled
  BY DEF AccessInv
<1>2. QED
  BY <1>1, InitAccess, NextAccess, PTL DEF Spec

-----------------------------------------------------------------------------
(* Only accept_invite accepts, and only the invite it was begun for. *)
LEMMA OnlyAcceptAccepts ==
  ASSUME AccessInv, [Next]_vars, NEW i \in DOMAIN invites,
         invites'[i].accepted, ~invites[i].accepted
  PROVE  \E c \in Clients, s \in Tokens : AcceptInvite(c, s) /\ req[c].invite = i
<1>1. invites' # invites
  OBVIOUS
<1>2. invites \in Seq(Invite) /\ DOMAIN invites = 1..Len(invites) /\ Len(invites) \in Nat
  BY DEF AccessInv, TypeOK
<1>3. invites[i] \in Invite
  BY <1>2
<1>4. ASSUME NEW c \in Clients, CreateInvite(c)
      PROVE  invites'[i].accepted = invites[i].accepted
  <2>1. CASE req[c].found # {}
    <3>1. invites'[i] = IF i \in req[c].found
                        THEN [invites[i] EXCEPT !.role = req[c].role, !.expires = now + InviteTTL]
                        ELSE invites[i]
      BY <1>4, <2>1 DEF CreateInvite
    <3>2. QED
      BY <1>3, <3>1 DEF Invite
  <2>2. CASE req[c].found = {}
    <3>1. \E row : invites' = Append(invites, row)
      BY <1>4, <2>2 DEF CreateInvite
    <3>2. QED
      BY <1>2, <3>1
  <2>3. QED
    BY <2>1, <2>2
<1>5. ASSUME NEW c \in Clients, RevokeInvite(c)
      PROVE  invites'[i].accepted = invites[i].accepted
  BY <1>2, <1>3, <1>5 DEF RevokeInvite, Invite
<1>6. \E c \in Clients, s \in Tokens : AcceptInvite(c, s)
  <2>1. ~(UNCHANGED vars) /\ ~Tick
    BY <1>1 DEF vars, Tick, db
  <2>2. \A c \in Clients : ~Rollback(c) /\ ~Cleanup(c) /\ ~CreateEntity(c)
    BY <1>1 DEF Rollback, Cleanup, CreateEntity, db
  <2>3. \A c \in Clients, s \in Tokens : ~RegisterOwner(c, s) /\ ~Logout(c, s) /\ ~RevokeAll(c, s)
                                         /\ \A e \in Emails : ~Login(c, e, s)
    BY <1>1 DEF RegisterOwner, Logout, RevokeAll, Login
  <2>4. \A c \in Clients : \A r : ~Begin(c, r)
    BY <1>1 DEF Begin, db
  <2>5. \A c \in Clients : /\ \A e \in Emails : ~BeginRegisterOwner(c, e)
                           /\ \A k \in DOMAIN invites : ~BeginAccept(c, k)
                           /\ \A s \in Tokens : /\ ~BeginCreateEntity(c, s)
                                                /\ \A e \in Emails, role \in Roles : ~BeginInvite(c, s, e, role)
                                                /\ \A k \in DOMAIN invites : ~BeginRevoke(c, s, k)
    BY <2>4 DEF BeginRegisterOwner, BeginAccept, BeginCreateEntity, BeginInvite, BeginRevoke
  <2>6. \A c \in Clients : ~CreateInvite(c) /\ ~RevokeInvite(c)
    BY <1>4, <1>5
  <2>7. QED
    BY <2>1, <2>2, <2>3, <2>5, <2>6 DEF Next
<1>7. PICK c \in Clients, s \in Tokens : AcceptInvite(c, s)
  BY <1>6
<1>8. req[c].invite = i
  <2>1. invites' = [invites EXCEPT ![req[c].invite].accepted = TRUE]
    BY <1>7 DEF AcceptInvite
  <2>2. QED
    BY <1>2, <2>1
<1>9. QED
  BY <1>7, <1>8

LEMMA AcceptJoins ==
  ASSUME AccessInv, NEW c \in Clients, NEW s \in Tokens, AcceptInvite(c, s), serial
  PROVE  LET i == req[c].invite IN
         \A k \in {k \in DOMAIN entities' : entities'[k] = invites[i].tenant} :
           [entity |-> k, user |-> invites[i].email, role |-> invites[i].role] \in members'
<1> DEFINE i == req[c].invite
           e == invites[i].email
<1>1. /\ req[c].op = "accept" /\ entities' = entities
      /\ members' = members \cup {NewMember(k, e, req[c].role) : k \in req[c].entities}
  BY DEF AcceptInvite
<1>2. req[c].role = invites[i].role /\ req[c].entities = EntitiesOf(invites[i].tenant)
  BY <1>1 DEF AccessInv, OneAtATime, ReadsCurrent
<1>3. QED
  BY <1>1, <1>2 DEF EntitiesOf, NewMember

(* One request at a time, whoever accepts an invite joins every entity of  *)
(* the workspace in the role last invited to.                              *)
THEOREM AcceptingJoinsEveryEntity == Spec => JoinsEveryEntity
<1>1. AccessInv /\ [Next]_vars =>
        (serial => \A i \in DOMAIN invites :
           invites'[i].accepted /\ ~invites[i].accepted =>
             \A k \in {k \in DOMAIN entities' : entities'[k] = invites[i].tenant} :
               [entity |-> k, user |-> invites[i].email, role |-> invites[i].role] \in members')
  BY OnlyAcceptAccepts, AcceptJoins
<1>2. QED
  BY <1>1, InitAccess, NextAccess, PTL DEF Spec, JoinsEveryEntity
=============================================================================
