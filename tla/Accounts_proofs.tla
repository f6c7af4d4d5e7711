--------------------------- MODULE Accounts_proofs ---------------------------
(***************************************************************************)
(* Proofs about Accounts, for any number of people, roles, requests,       *)
(* tenants and failures, and any limit on members.  AccountsInv adds what  *)
(* a request knows from what it has read: rows of users are never deleted  *)
(* and never change their tenant, and only a tenant with members has       *)
(* invitations.  SeatsInv adds what a count is worth while no other        *)
(* request has changed the seats it counted.                               *)
(***************************************************************************)
EXTENDS Accounts, SequenceTheorems, FiniteSetTheorems, TLAPS

Counting == {"count", "createInvite"}
RoleCalls == {"findTarget", "setRole"}
AdminCalls == Counting \cup RoleCalls \cup {"revoke"}

(* What a request knows while it waits at an await.                         *)
Knows(request) ==
    /\ request.pc \in Sync \cup RoleCalls => request.who \in People
    /\ request.pc \in Counting \cup RoleCalls => request.target \in People
    /\ request.pc = "join" => /\ request.invite \in DOMAIN invites
                              /\ invites[request.invite].email = request.who
    /\ request.pc \in AdminCalls => Members(request.tenant) # {}
    /\ request.pc \in RoleCalls => /\ request.who \in Members(request.tenant)
                                   /\ request.target = request.who => request.role = "ADMIN"
    /\ request.pc = "setRole" => request.target \in Members(request.tenant)

(* A tenant that its creator has not joined yet is empty, and no one else's.*)
NewTenants ==
    /\ \A c \in Requests : call[c].pc = "createUser" =>
         call[c].tenant \in 1..tenants /\ Members(call[c].tenant) = {}
    /\ \A c, d \in Requests :
         (call[c].pc = "createUser" /\ call[d].pc = "createUser" /\ call[c].tenant = call[d].tenant)
            => c = d

SyncedHaveRows == \A p \in People : sessions[p] = "synced" => users[p] # None

InvitesHaveInviters == \A i \in DOMAIN invites : Members(invites[i].tenant) # {}

AccountsInv ==
    /\ TypeOK
    /\ \A c \in Requests : Knows(call[c])
    /\ NewTenants /\ SyncedHaveRows /\ InvitesHaveInviters
    /\ AcceptedMeansMember /\ AdminRemains

LEMMA IdleKnows == Idle \in Calls /\ Knows(Idle)
  <1>1. Idle \in Calls
    BY AccountsAssumption DEF Idle, Calls, Awaits, Sync
  <1>2. Knows(Idle)
    BY DEF Idle, Knows, Sync, Counting, RoleCalls, AdminCalls
  <1> QED BY <1>1, <1>2

(* Who has a row keeps it and its tenant.                                   *)
MembersStay ==
    \A p \in People : users[p] # None => users'[p] # None /\ users'[p].tenant = users[p].tenant

LEMMA MembersGrow ==
    ASSUME MembersStay
    PROVE  \A t : Members(t) \subseteq Members(t)'
  BY DEF MembersStay, Members

(* An invitation keeps its person and its tenant.                           *)
InvitesStay ==
    /\ DOMAIN invites \subseteq DOMAIN invites'
    /\ \A i \in DOMAIN invites : /\ invites'[i].email = invites[i].email
                                 /\ invites'[i].tenant = invites[i].tenant

LEMMA KnowledgeStays ==
    ASSUME MembersStay, InvitesStay, NEW request, Knows(request)
    PROVE  Knows(request)'
  BY MembersGrow DEF Knows, InvitesStay

-----------------------------------------------------------------------------
(* A step of one request that leaves the rows of users and invitations.     *)
LEMMA ReadStep ==
    ASSUME AccountsInv, NEW c \in Requests, NEW request \in Calls, Knows(request),
           call' = [call EXCEPT ![c] = request],
           UNCHANGED <<users, invites, loose>>, tenants' \in tenants..MaxTenants,
           request.pc = "createUser" =>
             /\ request.tenant \in 1..tenants' /\ Members(request.tenant) = {}
             /\ \A d \in Requests : (d # c /\ call[d].pc = "createUser") =>
                                      call[d].tenant # request.tenant,
           sessions' \in [People -> {None, "synced", "bare"}],
           \A p \in People : sessions'[p] = "synced" => users[p] # None,
           faults' \in 0..MaxFaults, begun' \in 0..MaxRequests
    PROVE  AccountsInv'
  <1>0. /\ TypeOK /\ call \in [Requests -> Calls] /\ tenants \in Nat /\ tenants' \in Nat
        /\ tenants <= tenants' /\ tenants' <= MaxTenants
        /\ \A t : Members(t)' = Members(t)
    BY AccountsAssumption DEF AccountsInv, TypeOK, Members
  <1>1. TypeOK'
    <2>1. \A p \in People : users[p] # None => users[p].tenant <= tenants'
      <3> SUFFICES ASSUME NEW p \in People, users[p] # None PROVE users[p].tenant <= tenants'
        OBVIOUS
      <3>1. users[p].tenant \in Nat /\ users[p].tenant <= tenants
        BY <1>0, AccountsAssumption DEF TypeOK, Profiles, Tenants
      <3> QED BY <1>0, <3>1
    <2> QED BY <1>0, <2>1 DEF TypeOK
  <1>2. ASSUME NEW d \in Requests PROVE Knows(call[d])'
    <2>1. MembersStay /\ InvitesStay
      BY DEF MembersStay, InvitesStay
    <2>2. \A r : Knows(r) => Knows(r)'
      BY <2>1, KnowledgeStays
    <2>3. Knows(call'[d])
      BY <1>0 DEF AccountsInv
    <2> QED BY <1>0, <2>3 DEF Knows
  <1>3. NewTenants'
    <2>1. \A d \in Requests : call[d].pc = "createUser" => call[d].tenant \in 1..tenants'
      BY <1>0 DEF AccountsInv, NewTenants
    <2> QED BY <1>0, <2>1 DEF AccountsInv, NewTenants
  <1>4. SyncedHaveRows' /\ InvitesHaveInviters' /\ AcceptedMeansMember' /\ AdminRemains'
    BY <1>0 DEF AccountsInv, SyncedHaveRows, InvitesHaveInviters, AcceptedMeansMember, AdminRemains
  <1> QED BY <1>1, <1>2, <1>3, <1>4 DEF AccountsInv

LEMMA BeginStep ==
    ASSUME AccountsInv, NEW c \in Requests, NEW p \in People, Begin(c, p)
    PROVE  AccountsInv'
  <1>0. /\ TypeOK /\ SyncedHaveRows /\ tenants \in tenants..MaxTenants
        /\ \A q \in People : users[q] # None => /\ q \in Members(users[q].tenant)
                                                /\ users[q].tenant \in Tenants
        /\ \A t \in Tenants : t \in {0} \cup Tenants
    BY AccountsAssumption DEF AccountsInv, TypeOK, Members, Profiles
  <1>1. ASSUME NEW request \in Calls, Knows(request), request.pc # "createUser",
               Starts(c, request)
        PROVE  AccountsInv'
    <2>1. begun' \in 0..MaxRequests
      BY <1>0, <1>1, AccountsAssumption DEF Starts, TypeOK
    <2> QED BY <1>0, <1>1, <2>1, ReadStep DEF Starts, tables, TypeOK, SyncedHaveRows
  <1> USE DEF Knows, Sync, Counting, RoleCalls, AdminCalls
  <1>2. CASE Callback(c, p)
    <2> DEFINE request == [Idle EXCEPT !.pc = "findUser", !.who = p]
    <2>1. request \in Calls
      BY IdleKnows DEF Calls, Awaits
    <2>2. Knows(request) /\ request.pc # "createUser"
      BY DEF Idle
    <2> QED BY <1>1, <1>2, <2>1, <2>2 DEF Callback
  <1>3. ASSUME NEW email \in People, NEW role \in Roles, Invite(c, p, email, role)
        PROVE  AccountsInv'
    <2> DEFINE request == [Idle EXCEPT !.pc = "count", !.tenant = users[p].tenant,
                             !.target = email, !.role = role, !.left = {"users", "invites"}]
    <2>1. users[p] # None
      BY <1>3 DEF Invite, Authorised
    <2>2. request \in Calls
      BY <1>0, <2>1, IdleKnows DEF Calls, Awaits
    <2>3. Knows(request) /\ request.pc # "createUser"
      BY <1>0, <2>1 DEF Idle
    <2> QED BY <1>1, <1>3, <2>2, <2>3 DEF Invite
  <1>4. ASSUME NEW target \in People, NEW role \in Roles, SetUserRole(c, p, target, role)
        PROVE  AccountsInv'
    <2> DEFINE request == [Idle EXCEPT !.pc = "findTarget", !.who = p,
                             !.tenant = users[p].tenant, !.target = target, !.role = role]
    <2>1. users[p] # None /\ (target = p => role = "ADMIN")
      BY <1>4 DEF SetUserRole, Authorised
    <2>2. request \in Calls
      BY <1>0, <2>1, IdleKnows DEF Calls, Awaits
    <2>3. Knows(request) /\ request.pc # "createUser"
      BY <1>0, <2>1 DEF Idle
    <2> QED BY <1>1, <1>4, <2>2, <2>3 DEF SetUserRole
  <1>5. ASSUME NEW i \in DOMAIN invites, Revoke(c, p, i) PROVE AccountsInv'
    <2> DEFINE request == [Idle EXCEPT !.pc = "revoke", !.tenant = users[p].tenant, !.invite = i]
    <2>1. users[p] # None
      BY <1>5 DEF Revoke, Authorised
    <2>2. i \in 0..MaxInvites
      BY <1>0, AccountsAssumption DEF TypeOK
    <2>3. request \in Calls
      BY <1>0, <2>1, <2>2, IdleKnows DEF Calls, Awaits
    <2>4. Knows(request) /\ request.pc # "createUser"
      BY <1>0, <2>1 DEF Idle
    <2> QED BY <1>1, <1>5, <2>3, <2>4 DEF Revoke
  <1> QED BY <1>2, <1>3, <1>4, <1>5 DEF Begin, InviteForm, UserRoleForm, PendingInvites

LEMMA MovedCall ==
    ASSUME NEW request \in Calls
    PROVE  /\ \A pc \in Awaits : /\ [request EXCEPT !.pc = pc] \in Calls
                                 /\ [request EXCEPT !.pc = pc].pc = pc
                                 /\ [request EXCEPT !.pc = pc].who = request.who
                                 /\ [request EXCEPT !.pc = pc].tenant = request.tenant
                                 /\ [request EXCEPT !.pc = pc].target = request.target
                                 /\ [request EXCEPT !.pc = pc].role = request.role
                                 /\ [request EXCEPT !.pc = pc].invite = request.invite
  BY DEF Calls

(* The awaits that write no row of users or invitations.                    *)
LEMMA LookStep ==
    ASSUME AccountsInv, NEW c \in Requests,
           \/ FindUser(c) \/ FindInvite(c) \/ CreateTenant(c) \/ CheckMember(c) \/ FindTarget(c)
           \/ RequestFails(c) \/ \E what \in {"users", "invites"} : Count(c, what)
    PROVE  AccountsInv'
  <1>0. /\ TypeOK /\ call \in [Requests -> Calls] /\ call[c] \in Calls /\ Knows(call[c])
        /\ sessions \in [People -> {None, "synced", "bare"}]
        /\ \A p \in People : sessions[p] = "synced" => users[p] # None
        /\ tenants \in tenants..MaxTenants /\ faults \in 0..MaxFaults /\ begun \in 0..MaxRequests
    BY AccountsAssumption DEF AccountsInv, TypeOK, SyncedHaveRows
  <1>1. ASSUME Ends(c), UNCHANGED <<tables, loose, begun>>, faults' \in 0..MaxFaults,
               sessions' \in [People -> {None, "synced", "bare"}],
               \A p \in People : sessions'[p] = "synced" => users[p] # None
        PROVE  AccountsInv'
    <2>1. Idle \in Calls /\ Knows(Idle) /\ Idle.pc # "createUser"
      BY IdleKnows DEF Idle
    <2> QED BY <1>0, <1>1, <2>1, ReadStep DEF Ends, tables
  <1>2. ASSUME NEW pc \in Awaits, pc # "createUser", MoveTo(c, pc),
               \A request \in Calls :
                 (/\ request.pc = pc /\ request.who = call[c].who
                  /\ request.tenant = call[c].tenant /\ request.target = call[c].target
                  /\ request.role = call[c].role /\ request.invite = call[c].invite)
                   => Knows(request),
               UNCHANGED <<tables, sessions, loose, faults, begun>>
        PROVE  AccountsInv'
    <2> DEFINE request == [call[c] EXCEPT !.pc = pc]
    <2>1. request \in Calls /\ request.pc # "createUser" /\ Knows(request)
      BY <1>0, <1>2, MovedCall
    <2>2. call' = [call EXCEPT ![c] = request]
      BY <1>0, <1>2 DEF MoveTo
    <2> HIDE DEF request
    <2> QED BY <1>0, <1>2, <2>1, <2>2, ReadStep DEF tables
  <1>3. CASE FindUser(c)
    <2>1. call[c].who \in People
      BY <1>0, <1>3 DEF FindUser, Knows, Sync
    <2>2. CASE users[call[c].who] # None
      BY <1>0, <1>1, <1>3, <2>1, <2>2 DEF FindUser, Answered, tables
    <2>3. CASE users[call[c].who] = None
      BY <1>0, <1>2, <1>3, <2>1, <2>3
         DEF FindUser, Knows, Awaits, Sync, Counting, RoleCalls, AdminCalls
    <2> QED BY <2>2, <2>3
  <1>4. CASE FindInvite(c)
    <2>1. call[c].who \in People
      BY <1>0, <1>4 DEF FindInvite, Knows, Sync
    <2>2. CASE MoveTo(c, "createTenant")
      BY <1>0, <1>2, <1>4, <2>1, <2>2
         DEF FindInvite, Knows, Awaits, Sync, Counting, RoleCalls, AdminCalls
    <2>3. ASSUME NEW i \in Active(call[c].who),
                 call' = [call EXCEPT ![c].pc = "join", ![c].invite = i]
          PROVE  AccountsInv'
      <3> DEFINE request == [call[c] EXCEPT !.pc = "join", !.invite = i]
      <3>1. i \in DOMAIN invites /\ invites[i].email = call[c].who /\ i \in 0..MaxInvites
        BY <1>0, AccountsAssumption DEF Active, TypeOK
      <3>2. request \in Calls /\ request.pc = "join" /\ request.who = call[c].who /\ request.invite = i
        BY <1>0, <3>1 DEF Calls, Awaits, Sync
      <3>3. call' = [call EXCEPT ![c] = request]
        BY <1>0, <2>3
      <3> HIDE DEF request
      <3>4. Knows(request) /\ request.pc # "createUser"
        BY <2>1, <3>1, <3>2 DEF Knows, Counting, RoleCalls, AdminCalls
      <3> QED BY <1>0, <1>4, <3>2, <3>3, <3>4, ReadStep DEF FindInvite, tables
    <2> QED BY <1>4, <2>2, <2>3 DEF FindInvite
  <1>5. CASE CreateTenant(c)
    <2> DEFINE request == [call[c] EXCEPT !.pc = "createUser", !.tenant = tenants + 1]
    <2>1. /\ call[c].who \in People /\ tenants + 1 \in Tenants /\ tenants \in Nat
          /\ tenants' = tenants + 1 /\ tenants' \in tenants..MaxTenants
      BY <1>0, <1>5, AccountsAssumption DEF CreateTenant, Knows, Sync, TypeOK, Tenants
    <2>2. /\ request \in Calls /\ request.pc = "createUser" /\ request.who = call[c].who
          /\ request.tenant = tenants + 1
      BY <1>0, <2>1 DEF Calls, Awaits, Sync
    <2>3. call' = [call EXCEPT ![c] = request]
      BY <1>0, <1>5 DEF CreateTenant
    <2> HIDE DEF request
    <2>4. Knows(request)
      BY <2>1, <2>2 DEF Knows, Counting, RoleCalls, AdminCalls
    <2>5. Members(tenants + 1) = {}
      <3>1. \A p \in People : users[p] # None => users[p].tenant \in Nat /\ users[p].tenant <= tenants
        BY <1>0, AccountsAssumption DEF TypeOK, Profiles, Tenants
      <3> QED BY <2>1, <3>1 DEF Members
    <2>6. \A d \in Requests : call[d].pc = "createUser" => call[d].tenant # tenants + 1
      BY <2>1 DEF AccountsInv, NewTenants
    <2>7. /\ request.tenant \in 1..tenants' /\ Members(request.tenant) = {}
          /\ \A d \in Requests : (d # c /\ call[d].pc = "createUser") =>
                                   call[d].tenant # request.tenant
      BY <2>1, <2>2, <2>5, <2>6
    <2>8. UNCHANGED <<users, invites, sessions, loose, faults, begun>>
      BY <1>5 DEF CreateTenant
    <2> QED BY <1>0, <2>1, <2>2, <2>3, <2>4, <2>7, <2>8, ReadStep
  <1>6. CASE CheckMember(c)
    <2>1. call[c].target \in People /\ Members(call[c].tenant) # {}
      BY <1>0, <1>6 DEF CheckMember, Knows, Counting, AdminCalls
    <2>2. CASE MoveTo(c, "createInvite")
      BY <1>2, <1>6, <2>1, <2>2 DEF CheckMember, Knows, Awaits, Sync, Counting, RoleCalls, AdminCalls
    <2>3. CASE Ends(c)
      BY <1>0, <1>1, <1>6, <2>3 DEF CheckMember
    <2> QED BY <1>6, <2>2, <2>3 DEF CheckMember
  <1>7. CASE FindTarget(c)
    <2>1. /\ call[c].target \in People /\ Members(call[c].tenant) # {} /\ call[c].who \in People
          /\ call[c].who \in Members(call[c].tenant)
          /\ call[c].target = call[c].who => call[c].role = "ADMIN"
      BY <1>0, <1>7 DEF FindTarget, Knows, RoleCalls, AdminCalls
    <2>2. CASE call[c].target \in Members(call[c].tenant)
      BY <1>2, <1>7, <2>1, <2>2 DEF FindTarget, Knows, Awaits, Sync, Counting, RoleCalls, AdminCalls
    <2>3. CASE call[c].target \notin Members(call[c].tenant)
      BY <1>0, <1>1, <1>7, <2>3 DEF FindTarget
    <2> QED BY <2>2, <2>3
  <1>8. CASE RequestFails(c)
    <2>1. faults' \in 0..MaxFaults
      BY <1>0, <1>8, AccountsAssumption DEF RequestFails
    <2>2. call[c].pc \in Sync => call[c].who \in People
      BY <1>0 DEF Knows
    <2> QED BY <1>0, <1>1, <1>8, <2>1, <2>2 DEF RequestFails, Answered
  <1>9. ASSUME NEW what \in {"users", "invites"}, Count(c, what) PROVE AccountsInv'
    <2> DEFINE t == call[c].tenant
               n == IF what = "users" THEN Cardinality(Members(t)) ELSE Cardinality(Pending(t))
               request == [call[c] EXCEPT !.left = @ \ {what}, !.used = @ + n]
    <2>1. n \in Nat
      <3>1. IsFiniteSet(Members(t))
        BY AccountsAssumption, FS_Subset DEF Members
      <3>2. IsFiniteSet(Pending(t))
        <4>1. DOMAIN invites = 1..Len(invites) /\ Len(invites) \in Nat
          BY <1>0 DEF TypeOK
        <4>2. IsFiniteSet(DOMAIN invites)
          BY <4>1, FS_Interval
        <4> QED BY <4>2, FS_Subset DEF Pending
      <3> QED BY <3>1, <3>2, FS_CardinalityType
    <2>2. call' = [call EXCEPT ![c] = request]
      BY <1>0, <1>9 DEF Count
    <2> HIDE DEF n, t
    <2>3. /\ request \in Calls /\ request.pc = call[c].pc /\ request.who = call[c].who
          /\ request.tenant = call[c].tenant /\ request.target = call[c].target
          /\ request.role = call[c].role /\ request.invite = call[c].invite
      <3>1. call[c].used + n \in Nat /\ call[c].left \ {what} \in SUBSET {"users", "invites"}
        BY <1>0, <2>1 DEF Calls
      <3> QED BY <1>0, <3>1 DEF Calls
    <2> HIDE DEF request
    <2>4. Knows(request) /\ request.pc # "createUser"
      BY <1>0, <1>9, <2>3 DEF Count, Knows
    <2> QED BY <1>0, <1>9, <2>2, <2>3, <2>4, ReadStep DEF Count, tables
  <1> QED BY <1>3, <1>4, <1>5, <1>6, <1>7, <1>8, <1>9

LEMMA SessionStep ==
    ASSUME AccountsInv, NEW p \in People, SignIn(p) \/ SignUp(p) \/ SignOut(p)
    PROVE  AccountsInv'
  <1>1. /\ begun' \in 0..MaxRequests /\ sessions' \in [People -> {None, "synced", "bare"}]
        /\ \A q \in People : sessions'[q] = "synced" => users[q] # None
        /\ UNCHANGED <<tables, call, loose, faults>>
    <2>1. /\ sessions \in [People -> {None, "synced", "bare"}] /\ begun \in 0..MaxRequests
          /\ \A q \in People : sessions[q] = "synced" => users[q] # None
      BY DEF AccountsInv, TypeOK, SyncedHaveRows
    <2>2. PICK to \in {None, "bare"} : sessions' = [sessions EXCEPT ![p] = to]
      BY DEF SignIn, SignUp, SignOut
    <2>3. /\ begun < MaxRequests /\ begun' = begun + 1 /\ UNCHANGED <<tables, call, loose, faults>>
      BY DEF SignIn, SignUp, SignOut
    <2>4. sessions'[p] # "synced"
      BY <2>1, <2>2, AccountsAssumption
    <2> QED BY <2>1, <2>2, <2>3, <2>4, AccountsAssumption
  <1>2. TypeOK'
    BY <1>1 DEF AccountsInv, TypeOK, tables
  <1>3. (\A c \in Requests : Knows(call[c]))' /\ NewTenants' /\ SyncedHaveRows'
    BY <1>1 DEF AccountsInv, Knows, Members, NewTenants, SyncedHaveRows, tables
  <1>4. InvitesHaveInviters' /\ AcceptedMeansMember' /\ AdminRemains'
    BY <1>1 DEF AccountsInv, Members, InvitesHaveInviters, AcceptedMeansMember, AdminRemains, tables
  <1> QED BY <1>2, <1>3, <1>4 DEF AccountsInv

-----------------------------------------------------------------------------
(* The writes: every request but the writer's stays what it was, except     *)
(* that its count may be overtaken.                                         *)
Same(r, s) ==
    /\ s.pc = r.pc /\ s.who = r.who /\ s.tenant = r.tenant /\ s.target = r.target
    /\ s.role = r.role /\ s.invite = r.invite /\ s.used = r.used /\ s.left = r.left

LEMMA Disturbed ==
    ASSUME NEW calls \in [Requests -> Calls], NEW t
    PROVE  /\ Disturb(calls, t) \in [Requests -> Calls]
           /\ \A d \in Requests :
                /\ Same(calls[d], Disturb(calls, t)[d])
                /\ IF calls[d].pc \in Counting /\ calls[d].tenant = t
                   THEN Disturb(calls, t)[d].disturbed
                   ELSE Disturb(calls, t)[d] = calls[d]
  <1>1. ASSUME NEW r \in Calls
        PROVE  LET s == [r EXCEPT !.disturbed = TRUE] IN s \in Calls /\ Same(r, s) /\ s.disturbed
    BY DEF Calls, Same
  <1>2. \A d \in Requests : calls[d] \in Calls /\ Same(calls[d], calls[d])
    BY DEF Same
  <1> QED BY <1>1, <1>2 DEF Disturb, Counting

RequestsStay == \A d \in Requests : call'[d] = Idle \/ Same(call[d], call'[d])

LEMMA RequestsDisturbed ==
    ASSUME AccountsInv, NEW c \in Requests, NEW t, call' = Disturb([call EXCEPT ![c] = Idle], t)
    PROVE  /\ call' \in [Requests -> Calls] /\ RequestsStay /\ call'[c] = Idle
           /\ \A d \in Requests : d # c =>
                /\ Same(call[d], call'[d])
                /\ IF call[d].pc \in Counting /\ call[d].tenant = t
                   THEN call'[d].disturbed ELSE call'[d] = call[d]
  <1> DEFINE calls == [call EXCEPT ![c] = Idle]
  <1>1. calls \in [Requests -> Calls] /\ calls[c] = Idle /\ \A d \in Requests : d # c => calls[d] = call[d]
    BY IdleKnows DEF AccountsInv, TypeOK
  <1> HIDE DEF calls
  <1>2. Idle.pc \notin Counting
    BY DEF Idle, Counting
  <1>3. call' = Disturb(calls, t)
    BY DEF calls
  <1>4. call'[c] = Idle
    BY <1>1, <1>2, <1>3, Disturbed
  <1>5. \A d \in Requests : d # c =>
                /\ Same(call[d], call'[d])
                /\ IF call[d].pc \in Counting /\ call[d].tenant = t
                   THEN call'[d].disturbed ELSE call'[d] = call[d]
    BY <1>1, <1>3, Disturbed
  <1>6. call' \in [Requests -> Calls]
    <2>1. \A f \in [Requests -> Calls] : Disturb(f, t) \in [Requests -> Calls]
      BY Disturbed
    <2> QED BY <1>1, <1>3, <2>1, Zenon
  <1> QED BY <1>4, <1>5, <1>6 DEF RequestsStay

LEMMA RequestEnded ==
    ASSUME AccountsInv, NEW c \in Requests, Ends(c)
    PROVE  /\ call' \in [Requests -> Calls] /\ RequestsStay /\ call'[c] = Idle
           /\ \A d \in Requests : d # c => call'[d] = call[d]
  <1>1. /\ call' \in [Requests -> Calls] /\ call'[c] = Idle
        /\ \A d \in Requests : d # c => call'[d] = call[d]
    BY IdleKnows DEF AccountsInv, TypeOK, Ends
  <1>2. \A d \in Requests : Same(call[d], call[d])
    BY DEF Same
  <1> QED BY <1>1, <1>2 DEF RequestsStay

LEMMA WriteStep ==
    ASSUME AccountsInv, TypeOK', MembersStay, InvitesStay, RequestsStay, UNCHANGED tenants,
           \A d \in Requests : call'[d].pc = "createUser" => Members(call[d].tenant)' = {},
           SyncedHaveRows', InvitesHaveInviters', AcceptedMeansMember', AdminRemains'
    PROVE  AccountsInv'
  <1>1. ASSUME NEW d \in Requests PROVE Knows(call[d])'
    <2>1. \A r : Knows(r) => Knows(r)'
      BY KnowledgeStays
    <2>2. CASE call'[d] = Idle
      BY <2>2 DEF Idle, Knows, Sync, Counting, RoleCalls, AdminCalls
    <2>3. CASE Same(call[d], call'[d])
      <3>1. Knows(call[d])
        BY DEF AccountsInv
      <3> QED BY <2>3, <3>1, MembersGrow DEF Knows, Same, InvitesStay
    <2> QED BY <2>2, <2>3 DEF RequestsStay
  <1>2. NewTenants'
    <2>1. \A d \in Requests : call'[d].pc = "createUser" =>
            call[d].pc = "createUser" /\ call'[d].tenant = call[d].tenant
      BY DEF RequestsStay, Same, Idle
    <2> QED BY <2>1 DEF AccountsInv, NewTenants
  <1> QED BY <1>1, <1>2 DEF AccountsInv

(* No invitation is accepted by the step.                                   *)
LEMMA AcceptedStay ==
    ASSUME AccountsInv, MembersStay, InvitesStay,
           \A i \in DOMAIN invites' : invites'[i].status = "ACCEPTED" =>
             i \in DOMAIN invites /\ invites[i].status = "ACCEPTED"
    PROVE  AcceptedMeansMember'
  BY MembersGrow DEF AccountsInv, AcceptedMeansMember, InvitesStay

(* No admin loses the role, and a tenant's first member is one.             *)
LEMMA AdminsStay ==
    ASSUME AccountsInv, MembersStay, loose \subseteq loose',
           \A p \in People : (users[p] # None /\ users[p].role = "ADMIN") => users'[p].role = "ADMIN",
           \A t \in Tenants : Members(t)' # {} =>
             Members(t) # {} \/ \E p \in Members(t)' : users'[p].role = "ADMIN"
    PROVE  AdminRemains'
  <1> SUFFICES ASSUME NEW t \in Tenants, Members(t)' # {}, <<t, "roles">> \notin loose'
               PROVE  \E p \in Members(t)' : users'[p].role = "ADMIN"
    BY DEF AdminRemains
  <1>1. CASE Members(t) # {}
    <2>1. PICK p \in Members(t) : users[p].role = "ADMIN"
      BY <1>1 DEF AccountsInv, AdminRemains
    <2>2. p \in Members(t)' /\ users'[p].role = "ADMIN"
      BY <2>1, MembersGrow DEF Members
    <2> QED BY <2>2
  <1> QED BY <1>1

LEMMA JoinStep ==
    ASSUME AccountsInv, NEW c \in Requests, Join(c)
    PROVE  AccountsInv'
  <1>a. PICK i, p, t, row : /\ i = call[c].invite /\ p = call[c].who /\ t = invites[i].tenant
                            /\ row = [tenant |-> t, role |-> invites[i].role]
    OBVIOUS
  <1>0. /\ TypeOK /\ NewTenants /\ SyncedHaveRows /\ InvitesHaveInviters /\ AcceptedMeansMember
        /\ i \in DOMAIN invites /\ invites[i].email = p /\ p \in People
        /\ DOMAIN invites = 1..Len(invites) /\ invites \in Seq(Invitations)
        /\ invites[i] \in Invitations /\ t \in Tenants /\ row \in Profiles
        /\ Members(t) # {} /\ t <= tenants /\ call \in [Requests -> Calls]
    <2>1. /\ i \in DOMAIN invites /\ invites[i].email = p /\ p \in People
      BY <1>a DEF AccountsInv, Knows, Join, Sync
    <2>2. /\ DOMAIN invites = 1..Len(invites) /\ invites \in Seq(Invitations)
          /\ invites[i] \in Invitations /\ Members(t) # {}
      BY <1>a, <2>1 DEF AccountsInv, TypeOK, InvitesHaveInviters
    <2>3. t \in Tenants /\ row \in Profiles
      BY <1>a, <2>2 DEF Invitations, Profiles
    <2>4. t <= tenants
      BY <2>2 DEF AccountsInv, TypeOK, Members
    <2> QED BY <2>1, <2>2, <2>3, <2>4 DEF AccountsInv, TypeOK
  <1>1. /\ sessions' = [sessions EXCEPT ![p] = "synced"]
        /\ UNCHANGED <<tenants, faults, begun>>
    BY <1>a DEF Join
  <1>2. CASE users[p] # None
    <2>1. Ends(c) /\ UNCHANGED <<users, invites, loose>>
      BY <1>a, <1>2 DEF Join
    <2>2. /\ sessions' \in [People -> {None, "synced", "bare"}]
          /\ \A q \in People : sessions'[q] = "synced" => users[q] # None
      BY <1>0, <1>1, <1>2 DEF TypeOK, SyncedHaveRows
    <2>3. Idle \in Calls /\ Knows(Idle) /\ Idle.pc # "createUser"
      BY IdleKnows DEF Idle
    <2>4. tenants' \in tenants..MaxTenants /\ faults' \in 0..MaxFaults /\ begun' \in 0..MaxRequests
      BY <1>0, <1>1, AccountsAssumption DEF TypeOK
    <2> QED BY <2>1, <2>2, <2>3, <2>4, ReadStep DEF Ends
  <1>3. CASE users[p] = None
    <2>1. /\ users' = [users EXCEPT ![p] = row]
          /\ invites' = [invites EXCEPT ![i].status = "ACCEPTED"]
          /\ call' = Disturb([call EXCEPT ![c] = Idle], t)
          /\ loose' = IF invites[i].status = "PENDING" THEN loose ELSE loose \cup {<<t, "seats">>}
      BY <1>a, <1>3 DEF Join
    <2>a. PICK accepted : accepted = [invites[i] EXCEPT !.status = "ACCEPTED"]
      OBVIOUS
    <2>2. /\ accepted \in Invitations /\ accepted.status = "ACCEPTED"
          /\ accepted.email = p /\ accepted.tenant = t
      BY <1>a, <1>0, <2>a DEF Invitations, Statuses
    <2>3. invites' = [invites EXCEPT ![i] = accepted]
      BY <2>1, <2>a
    <2>4. row.tenant = t /\ row # None
      BY <1>a, <1>0, AccountsAssumption DEF Profiles, Tenants
    <2>5. /\ invites' \in Seq(Invitations) /\ Len(invites') = Len(invites)
          /\ DOMAIN invites' = DOMAIN invites
          /\ \A k \in DOMAIN invites : invites'[k] = IF k = i THEN accepted ELSE invites[k]
      BY <1>0, <2>2, <2>3, ExceptSeq
    <2>6. /\ users \in [People -> Profiles \cup {None}] /\ users'[p] = row
          /\ \A q \in People : q # p => users'[q] = users[q]
      BY <1>0, <2>1 DEF TypeOK
    <2>7. MembersStay
      BY <1>3, <2>6 DEF MembersStay
    <2>8. InvitesStay
      <3>1. invites[i].email = p /\ invites[i].tenant = t
        BY <1>a, <1>0
      <3> QED BY <2>2, <2>5, <3>1 DEF InvitesStay
    <2>9. call' \in [Requests -> Calls] /\ RequestsStay /\ call'[c] = Idle
      BY <2>1, RequestsDisturbed
    <2>10. TypeOK'
      <3>1. users' \in [People -> Profiles \cup {None}]
        BY <1>0, <2>1, <2>6
      <3>2. \A q \in People : users'[q] # None => users'[q].tenant <= tenants'
        BY <1>0, <1>1, <2>4, <2>6 DEF TypeOK
      <3>3. sessions' \in [People -> {None, "synced", "bare"}]
        BY <1>0, <1>1 DEF TypeOK
      <3>4. loose' \subseteq Tenants \X {"seats", "roles"}
        BY <1>0, <2>1 DEF TypeOK
      <3> QED BY <1>0, <1>1, <2>5, <2>9, <3>1, <3>2, <3>3, <3>4 DEF TypeOK
    <2>11. SyncedHaveRows'
      BY <1>0, <1>1, <2>4, <2>6 DEF SyncedHaveRows, TypeOK
    <2>12. InvitesHaveInviters'
      BY <1>0, <2>5, <2>7, <2>8, MembersGrow DEF InvitesStay, InvitesHaveInviters
    <2>13. p \in Members(t)'
      BY <1>0, <2>4, <2>6 DEF Members
    <2>14. AcceptedMeansMember'
      <3>1. \A k \in DOMAIN invites : invites[k].status = "ACCEPTED" => invites[k].email # p
        BY <1>0, <1>3 DEF AcceptedMeansMember, Members
      <3>2. ASSUME NEW k \in DOMAIN invites', invites'[k].status = "ACCEPTED"
            PROVE  /\ (invites[k].email \in Members(invites[k].tenant))'
                   /\ \A j \in DOMAIN invites' :
                        (j # k /\ invites'[j].status = "ACCEPTED") => invites'[j].email # invites'[k].email
        <4>1. CASE k = i
          BY <1>0, <2>2, <2>5, <2>13, <3>1, <4>1 DEF Members
        <4>2. CASE k # i
          <5>1. k \in DOMAIN invites /\ invites'[k] = invites[k] /\ invites[k].status = "ACCEPTED"
            BY <2>5, <3>2, <4>2
          <5>2. (invites[k].email \in Members(invites[k].tenant))'
            BY <1>0, <2>7, <5>1 DEF AcceptedMeansMember, Members, MembersStay
          <5> QED BY <1>0, <2>2, <2>5, <3>1, <5>1, <5>2 DEF AcceptedMeansMember
        <4> QED BY <4>1, <4>2
      <3> QED BY <3>2 DEF AcceptedMeansMember
    <2>15. \A s \in Tenants : Members(s)' # {} => Members(s) # {}
      <3>1. \A s \in Tenants : s # t => Members(s)' = Members(s)
        BY <1>3, <2>4, <2>6 DEF Members
      <3> QED BY <1>0, <3>1
    <2>16. AdminRemains'
      BY <1>3, <2>1, <2>6, <2>7, <2>15, AdminsStay
    <2>17. ASSUME NEW d \in Requests, call'[d].pc = "createUser" PROVE Members(call[d].tenant)' = {}
      <3>1. call[d].pc = "createUser" /\ call'[d].tenant = call[d].tenant
        BY <2>9, <2>17 DEF RequestsStay, Same, Idle
      <3>2. Members(call[d].tenant) = {} /\ call[d].tenant # t
        BY <1>0, <3>1 DEF NewTenants
      <3> QED BY <1>3, <2>4, <2>6, <3>1, <3>2 DEF Members
    <2> QED BY <1>1, <2>7, <2>8, <2>9, <2>10, <2>11, <2>12, <2>14, <2>16, <2>17, WriteStep
  <1> QED BY <1>2, <1>3

LEMMA CreateUserStep ==
    ASSUME AccountsInv, NEW c \in Requests, CreateUser(c)
    PROVE  AccountsInv'
  <1>a. PICK p, t, row : /\ p = call[c].who /\ t = call[c].tenant
                         /\ row = [tenant |-> t, role |-> "ADMIN"]
    OBVIOUS
  <1>0. /\ TypeOK /\ NewTenants /\ SyncedHaveRows /\ InvitesHaveInviters
        /\ call \in [Requests -> Calls] /\ users \in [People -> Profiles \cup {None}]
        /\ sessions \in [People -> {None, "synced", "bare"}]
        /\ p \in People /\ t \in 1..tenants /\ Members(t) = {} /\ call[c].pc = "createUser"
        /\ \A d \in Requests : (call[d].pc = "createUser" /\ call[d].tenant = t) => d = c
    BY <1>a DEF AccountsInv, TypeOK, Knows, CreateUser, Sync, NewTenants
  <1>1. /\ Ends(c) /\ sessions' = [sessions EXCEPT ![p] = "synced"]
        /\ UNCHANGED <<tenants, invites, loose, faults, begun>>
    BY <1>a DEF CreateUser, Answered
  <1>2. CASE users[p] # None
    <2>1. users' = users
      BY <1>a, <1>2 DEF CreateUser
    <2>2. /\ sessions' \in [People -> {None, "synced", "bare"}]
          /\ \A q \in People : sessions'[q] = "synced" => users[q] # None
      BY <1>0, <1>1, <1>2 DEF SyncedHaveRows
    <2>3. Idle \in Calls /\ Knows(Idle) /\ Idle.pc # "createUser"
      BY IdleKnows DEF Idle
    <2>4. tenants' \in tenants..MaxTenants /\ faults' \in 0..MaxFaults /\ begun' \in 0..MaxRequests
      BY <1>0, <1>1, AccountsAssumption DEF TypeOK
    <2> QED BY <1>1, <2>1, <2>2, <2>3, <2>4, ReadStep DEF Ends
  <1>3. CASE users[p] = None
    <2>1. users' = [users EXCEPT ![p] = row]
      BY <1>a, <1>3 DEF CreateUser
    <2>2. row \in Profiles /\ row # None /\ row.tenant = t /\ row.role = "ADMIN" /\ t <= tenants
      <3>1. t \in Tenants /\ t <= tenants
        BY <1>0, AccountsAssumption DEF TypeOK, Tenants
      <3>2. row \in Profiles /\ row.tenant = t /\ row.role = "ADMIN"
        BY <1>a, <3>1, AccountsAssumption DEF Profiles
      <3> QED BY <3>1, <3>2, AccountsAssumption DEF Profiles, Tenants
    <2>3. users'[p] = row /\ \A q \in People : q # p => users'[q] = users[q]
      BY <1>0, <2>1
    <2>4. MembersStay /\ InvitesStay
      BY <1>1, <1>3, <2>3 DEF MembersStay, InvitesStay
    <2>5. /\ call' \in [Requests -> Calls] /\ RequestsStay /\ call'[c] = Idle
          /\ \A d \in Requests : d # c => call'[d] = call[d]
      BY <1>1, RequestEnded
    <2>6. TypeOK'
      <3>1. users' \in [People -> Profiles \cup {None}] /\ sessions' \in [People -> {None, "synced", "bare"}]
        BY <1>0, <1>1, <2>1, <2>2
      <3>2. \A q \in People : users'[q] # None => users'[q].tenant <= tenants'
        BY <1>0, <1>1, <2>2, <2>3 DEF TypeOK
      <3> QED BY <1>0, <1>1, <2>5, <3>1, <3>2 DEF TypeOK
    <2>7. SyncedHaveRows'
      BY <1>0, <1>1, <2>2, <2>3 DEF SyncedHaveRows
    <2>8. InvitesHaveInviters'
      BY <1>0, <1>1, <2>4, MembersGrow DEF InvitesHaveInviters
    <2>9. AcceptedMeansMember'
      BY <1>1, <2>4, AcceptedStay
    <2>10. \A s \in Tenants : s # t => Members(s)' = Members(s)
      BY <1>3, <2>2, <2>3 DEF Members
    <2>11. p \in Members(t)' /\ users'[p].role = "ADMIN"
      BY <1>0, <2>2, <2>3 DEF Members
    <2>12. AdminRemains'
      BY <1>1, <1>3, <2>3, <2>4, <2>10, <2>11, AdminsStay
    <2>13. ASSUME NEW d \in Requests, call'[d].pc = "createUser" PROVE Members(call[d].tenant)' = {}
      <3>1. d # c /\ call'[d] = call[d] /\ call[d].tenant # t
        BY <1>0, <2>5, <2>13 DEF Idle
      <3>2. Members(call[d].tenant) = {}
        BY <1>0, <2>13, <3>1 DEF NewTenants
      <3> QED BY <1>3, <2>2, <2>3, <3>1, <3>2 DEF Members
    <2> QED BY <1>1, <2>4, <2>5, <2>6, <2>7, <2>8, <2>9, <2>12, <2>13, WriteStep
  <1> QED BY <1>2, <1>3

(* The steps that write an invitation without accepting it.                 *)
LEMMA InviteStep ==
    ASSUME AccountsInv, \/ \E c \in Requests : CreateInvite(c) \/ RevokeInvite(c)
                        \/ \E i \in DOMAIN invites : InviteExpires(i)
    PROVE  AccountsInv'
  <1>0. /\ TypeOK /\ call \in [Requests -> Calls] /\ invites \in Seq(Invitations)
        /\ Len(invites) \in Nat /\ DOMAIN invites = 1..Len(invites) /\ Len(invites) <= MaxInvites
        /\ \A i \in DOMAIN invites : invites[i] \in Invitations
    BY DEF AccountsInv, TypeOK
  <1>1. ASSUME call' \in [Requests -> Calls], RequestsStay,
               invites' \in Seq(Invitations), Len(invites') <= MaxInvites, InvitesStay,
               \A i \in DOMAIN invites' : invites'[i].status = "ACCEPTED" =>
                 i \in DOMAIN invites /\ invites[i].status = "ACCEPTED",
               \A i \in DOMAIN invites' : Members(invites'[i].tenant) # {},
               loose' \in {loose} \cup {loose \cup {<<t, "seats">>} : t \in Tenants},
               UNCHANGED <<tenants, users, sessions, faults, begun>>
        PROVE  AccountsInv'
    <2>1. MembersStay /\ \A t : Members(t)' = Members(t)
      BY <1>1 DEF MembersStay, Members
    <2>2. TypeOK'
      <3>1. loose' \subseteq Tenants \X {"seats", "roles"}
        BY <1>0, <1>1 DEF TypeOK
      <3> QED BY <1>0, <1>1, <3>1 DEF TypeOK
    <2>3. SyncedHaveRows'
      BY <1>1 DEF AccountsInv, SyncedHaveRows
    <2>4. InvitesHaveInviters'
      BY <1>1 DEF InvitesHaveInviters, Members
    <2>5. AcceptedMeansMember'
      BY <1>1, <2>1, AcceptedStay
    <2>6. AdminRemains'
      BY <1>1, <2>1, AdminsStay
    <2>7. ASSUME NEW d \in Requests, call'[d].pc = "createUser" PROVE Members(call[d].tenant)' = {}
      <3>1. call[d].pc = "createUser" /\ call'[d].tenant = call[d].tenant
        BY <1>1, <2>7 DEF RequestsStay, Same, Idle
      <3>2. Members(call[d].tenant) = {}
        BY <3>1 DEF AccountsInv, NewTenants
      <3> QED BY <1>1, <3>1, <3>2 DEF Members
    <2> QED BY <1>1, <2>1, <2>2, <2>3, <2>4, <2>5, <2>6, <2>7, WriteStep
  (* One invitation is updated, and its person and tenant stay.             *)
  <1>2. ASSUME NEW i \in DOMAIN invites, NEW invite \in Invitations,
               invites' = [invites EXCEPT ![i] = invite],
               invite.email = invites[i].email, invite.tenant = invites[i].tenant,
               invite.status # "ACCEPTED"
        PROVE  /\ invites' \in Seq(Invitations) /\ Len(invites') <= MaxInvites /\ InvitesStay
               /\ \A k \in DOMAIN invites' : invites'[k].status = "ACCEPTED" =>
                    k \in DOMAIN invites /\ invites[k].status = "ACCEPTED"
               /\ \A k \in DOMAIN invites' : Members(invites'[k].tenant) # {}
    <2>1. /\ invites' \in Seq(Invitations) /\ Len(invites') = Len(invites)
          /\ DOMAIN invites' = DOMAIN invites
          /\ \A k \in DOMAIN invites : invites'[k] = IF k = i THEN invite ELSE invites[k]
      BY <1>0, <1>2, ExceptSeq
    <2>2. \A k \in DOMAIN invites : Members(invites[k].tenant) # {}
      BY DEF AccountsInv, InvitesHaveInviters
    <2> QED BY <1>0, <1>2, <2>1, <2>2 DEF InvitesStay
  <1>3. ASSUME NEW c \in Requests, CreateInvite(c) PROVE AccountsInv'
    <2>a. PICK t, invite : /\ t = call[c].tenant
                           /\ invite = [tenant |-> t, email |-> call[c].target, role |-> call[c].role,
                                        status |-> "PENDING", expired |-> FALSE]
      OBVIOUS
    <2>1. Members(t) # {} /\ call[c].target \in People /\ call[c].role \in Roles /\ t \in Tenants
      <3>1. Members(t) # {} /\ call[c].target \in People
        BY <1>3, <2>a DEF AccountsInv, Knows, CreateInvite, Counting, AdminCalls
      <3>2. t \in Tenants
        BY <3>1, <1>0 DEF Members, TypeOK, Profiles
      <3> QED BY <1>0, <3>1, <3>2 DEF Calls
    <2>2. invite \in Invitations /\ invite.status = "PENDING" /\ invite.tenant = t
      BY <2>a, <2>1 DEF Invitations, Statuses
    <2>3. /\ invites' = Append(invites, invite) /\ Len(invites) < MaxInvites
          /\ call' = Disturb([call EXCEPT ![c] = Idle], t)
          /\ loose' \in {loose, loose \cup {<<t, "seats">>}}
          /\ UNCHANGED <<tenants, users, sessions, faults, begun>>
      BY <1>3, <2>a DEF CreateInvite
    <2>4. /\ invites' \in Seq(Invitations) /\ Len(invites') = Len(invites) + 1
          /\ DOMAIN invites' = 1..Len(invites) + 1
          /\ \A i \in DOMAIN invites : invites'[i] = invites[i]
          /\ invites'[Len(invites) + 1] = invite
      BY <1>0, <2>2, <2>3, AppendProperties
    <2>5. Len(invites') <= MaxInvites
      BY <1>0, <2>3, <2>4, AccountsAssumption
    <2>6. InvitesStay
      BY <1>0, <2>4 DEF InvitesStay
    <2>7. \A i \in DOMAIN invites' : i \in DOMAIN invites \/ invites'[i] = invite
      BY <1>0, <2>4
    <2>8. \A i \in DOMAIN invites' : invites'[i].status = "ACCEPTED" =>
            i \in DOMAIN invites /\ invites[i].status = "ACCEPTED"
      BY <2>2, <2>4, <2>7
    <2>9. \A i \in DOMAIN invites' : Members(invites'[i].tenant) # {}
      BY <2>1, <2>2, <2>4, <2>7 DEF AccountsInv, InvitesHaveInviters
    <2>10. call' \in [Requests -> Calls] /\ RequestsStay
      BY <2>3, RequestsDisturbed
    <2> QED BY <1>1, <2>1, <2>3, <2>4, <2>5, <2>6, <2>8, <2>9, <2>10
  <1>4. ASSUME NEW c \in Requests, RevokeInvite(c) PROVE AccountsInv'
    <2>a. PICK t, i : t = call[c].tenant /\ i = call[c].invite
      OBVIOUS
    <2>1. UNCHANGED <<tenants, users, sessions, loose, faults, begun>>
      BY <1>4 DEF RevokeInvite
    <2>2. CASE i \in Pending(t)
      <3>a. PICK invite : invite = [invites[i] EXCEPT !.status = "REVOKED"]
        OBVIOUS
      <3>1. i \in DOMAIN invites
        BY <2>2 DEF Pending
      <3>2. /\ invite \in Invitations /\ invite.email = invites[i].email
            /\ invite.tenant = invites[i].tenant /\ invite.status # "ACCEPTED"
        BY <1>0, <3>a, <3>1 DEF Invitations, Statuses
      <3>3. /\ invites' = [invites EXCEPT ![i] = invite]
            /\ call' = Disturb([call EXCEPT ![c] = Idle], t)
        BY <1>4, <2>a, <2>2, <3>a DEF RevokeInvite
      <3>4. call' \in [Requests -> Calls] /\ RequestsStay
        BY <3>3, RequestsDisturbed
      <3> QED BY <1>1, <1>2, <2>1, <3>1, <3>2, <3>3, <3>4
    <2>3. CASE i \notin Pending(t)
      <3>1. Ends(c) /\ UNCHANGED invites
        BY <1>4, <2>a, <2>3 DEF RevokeInvite
      <3>2. call' \in [Requests -> Calls] /\ RequestsStay
        BY <3>1, RequestEnded
      <3> QED BY <1>0, <1>1, <2>1, <3>1, <3>2 DEF InvitesStay, AccountsInv, InvitesHaveInviters
    <2> QED BY <2>2, <2>3
  <1>5. ASSUME NEW i \in DOMAIN invites, InviteExpires(i) PROVE AccountsInv'
    <2>a. PICK invite : invite = [invites[i] EXCEPT !.expired = TRUE]
      OBVIOUS
    <2>1. /\ invite \in Invitations /\ invite.email = invites[i].email
          /\ invite.tenant = invites[i].tenant /\ invite.status # "ACCEPTED"
      BY <1>0, <1>5, <2>a DEF Invitations, InviteExpires
    <2>2. /\ invites' = [invites EXCEPT ![i] = invite]
          /\ UNCHANGED <<tenants, users, sessions, call, loose, faults, begun>>
      BY <1>5, <2>a DEF InviteExpires
    <2>3. call' \in [Requests -> Calls] /\ RequestsStay
      BY <1>0, <2>2 DEF RequestsStay, Same
    <2> QED BY <1>1, <1>2, <2>1, <2>2, <2>3
  <1> QED BY <1>3, <1>4, <1>5

(* Who sets a role is a member, and so is whose role is set: if the former  *)
(* still is an admin, one remains.                                          *)
LEMMA SetRoleStep ==
    ASSUME AccountsInv, NEW c \in Requests, SetRole(c)
    PROVE  AccountsInv'
  <1>a. PICK p, q, t, row : /\ p = call[c].who /\ q = call[c].target /\ t = call[c].tenant
                            /\ row = [users[q] EXCEPT !.role = call[c].role]
    OBVIOUS
  <1>0. /\ TypeOK /\ call \in [Requests -> Calls] /\ users \in [People -> Profiles \cup {None}]
        /\ p \in Members(t) /\ q \in Members(t) /\ call[c].role \in Roles
        /\ q = p => call[c].role = "ADMIN"
        /\ t \in Tenants
    <2>1. /\ p \in Members(t) /\ q \in Members(t) /\ (q = p => call[c].role = "ADMIN")
      BY <1>a DEF AccountsInv, Knows, SetRole, RoleCalls
    <2>2. TypeOK /\ call[c].role \in Roles /\ users \in [People -> Profiles \cup {None}]
      BY DEF AccountsInv, TypeOK, Calls
    <2>3. t \in Tenants
      BY <2>1, <2>2 DEF Members, Profiles
    <2> QED BY <2>1, <2>2, <2>3 DEF TypeOK
  <1>1. /\ users' = [users EXCEPT ![q] = row] /\ Ends(c)
        /\ loose' = IF users[p].role = "ADMIN" THEN loose ELSE loose \cup {<<t, "roles">>}
        /\ UNCHANGED <<tenants, invites, sessions, faults, begun>>
    BY <1>a DEF SetRole
  <1>2. /\ q \in People /\ users[q] # None /\ users[q] \in Profiles /\ users[q].tenant = t
        /\ row \in Profiles /\ row # None /\ row.tenant = t /\ row.role = call[c].role
    <2>1. q \in People /\ users[q] # None /\ users[q] \in Profiles /\ users[q].tenant = t
      BY <1>0 DEF Members
    <2>2. row \in Profiles /\ row.tenant = t /\ row.role = call[c].role
      BY <1>a, <1>0, <2>1 DEF Profiles
    <2> QED BY <2>1, <2>2, AccountsAssumption DEF Profiles, Tenants
  <1>3. users'[q] = row /\ \A r \in People : r # q => users'[r] = users[r]
    BY <1>0, <1>1, <1>2
  <1>4. MembersStay /\ InvitesStay /\ \A s : Members(s)' = Members(s)
    BY <1>1, <1>2, <1>3 DEF MembersStay, InvitesStay, Members
  <1>5. call' \in [Requests -> Calls] /\ RequestsStay
    BY <1>1, RequestEnded
  <1>6. TypeOK'
    <2>1. \A r \in People : users'[r] # None => users'[r].tenant <= tenants'
      BY <1>0, <1>1, <1>2, <1>3 DEF TypeOK
    <2>2. users' \in [People -> Profiles \cup {None}]
      BY <1>0, <1>1, <1>2
    <2>3. loose' \subseteq Tenants \X {"seats", "roles"}
      BY <1>0, <1>1 DEF TypeOK
    <2> QED BY <1>0, <1>1, <1>5, <2>1, <2>2, <2>3 DEF TypeOK
  <1>7. SyncedHaveRows'
    BY <1>1, <1>2, <1>3 DEF AccountsInv, SyncedHaveRows
  <1>8. InvitesHaveInviters' /\ AcceptedMeansMember'
    BY <1>1, <1>4, MembersGrow, AcceptedStay DEF AccountsInv, InvitesHaveInviters
  <1>9. AdminRemains'
    <2>1. ASSUME NEW s \in Tenants, Members(s)' # {}, <<s, "roles">> \notin loose'
          PROVE  \E r \in Members(s)' : users'[r].role = "ADMIN"
      <3>1. Members(s) # {} /\ <<s, "roles">> \notin loose
        BY <1>1, <1>4, <2>1
      <3>2. PICK r \in Members(s) : users[r].role = "ADMIN"
        BY <3>1 DEF AccountsInv, AdminRemains
      <3>3. CASE r # q
        <4>1. users'[r].role = "ADMIN" /\ r \in Members(s)'
          BY <1>3, <1>4, <3>2, <3>3 DEF Members
        <4> QED BY <4>1
      <3>4. CASE r = q
        <4>1. s = t /\ users[p].role = "ADMIN"
          BY <1>1, <1>2, <2>1, <3>2, <3>4 DEF Members
        <4>2. users'[p].role = "ADMIN" /\ p \in Members(s)'
          BY <1>0, <1>2, <1>3, <1>4, <4>1 DEF Members
        <4> QED BY <4>2
      <3> QED BY <3>3, <3>4
    <2> QED BY <2>1 DEF AdminRemains
  <1>10. ASSUME NEW d \in Requests, call'[d].pc = "createUser" PROVE Members(call[d].tenant)' = {}
    <2>1. call[d].pc = "createUser" /\ call'[d].tenant = call[d].tenant
      BY <1>5, <1>10 DEF RequestsStay, Same, Idle
    <2>2. Members(call[d].tenant) = {}
      BY <2>1 DEF AccountsInv, NewTenants
    <2> QED BY <1>2, <1>3, <2>1, <2>2 DEF Members
  <1> QED BY <1>1, <1>4, <1>5, <1>6, <1>7, <1>8, <1>9, <1>10, WriteStep

LEMMA AccountsStep == AccountsInv /\ [Next]_vars => AccountsInv'
  <1> SUFFICES ASSUME AccountsInv, [Next]_vars PROVE AccountsInv'
    OBVIOUS
  <1>1. ASSUME NEW c \in Requests, Step(c) \/ RequestFails(c) PROVE AccountsInv'
    BY <1>1, LookStep, JoinStep, CreateUserStep, InviteStep, SetRoleStep DEF Step
  <1>2. CASE UNCHANGED vars
    <2>1. UNCHANGED <<tenants, users, invites, sessions, call, loose, faults, begun>>
      BY <1>2 DEF vars, tables
    <2>2. TypeOK' /\ (\A c \in Requests : Knows(call[c]))'
      BY <2>1 DEF AccountsInv, TypeOK, Knows, Members
    <2>3. NewTenants' /\ SyncedHaveRows' /\ InvitesHaveInviters'
      BY <2>1 DEF AccountsInv, NewTenants, SyncedHaveRows, InvitesHaveInviters, Members
    <2>4. AcceptedMeansMember' /\ AdminRemains'
      BY <2>1 DEF AccountsInv, AcceptedMeansMember, AdminRemains, Members
    <2> QED BY <2>2, <2>3, <2>4 DEF AccountsInv
  <1> QED BY <1>1, <1>2, BeginStep, SessionStep, InviteStep DEF Next

LEMMA AccountsInit == Init => AccountsInv
  <1> SUFFICES ASSUME Init PROVE AccountsInv
    OBVIOUS
  <1>1. TypeOK
    BY AccountsAssumption, IdleKnows DEF Init, TypeOK
  <1>2. \A t : Members(t) = {}
    BY DEF Init, Members
  <1>3. (\A c \in Requests : Knows(call[c])) /\ NewTenants
    BY IdleKnows DEF Init, NewTenants, Idle
  <1>4. SyncedHaveRows /\ InvitesHaveInviters
    BY AccountsAssumption DEF Init, SyncedHaveRows, InvitesHaveInviters
  <1>5. AcceptedMeansMember /\ AdminRemains
    BY <1>2 DEF Init, AcceptedMeansMember, AdminRemains
  <1> QED BY <1>1, <1>3, <1>4, <1>5 DEF AccountsInv

LEMMA AccountsInvariant == Spec => []AccountsInv
  BY AccountsInit, AccountsStep, PTL DEF Spec

(* Rows, requests and sessions keep their types: no user belongs to a       *)
(* tenant that is not there, whichever callbacks race or fail               *)
(* (lib/auth/sync.ts:20-70).                                                *)
THEOREM AccountsTypeCorrect == Spec => []TypeOK
  BY AccountsInvariant, PTL DEF AccountsInv

(* An accepted invitation has brought its person into its tenant, and       *)
(* nobody accepts two (lib/auth/sync.ts:35-49).                             *)
THEOREM AcceptedJoined == Spec => []AcceptedMeansMember
  BY AccountsInvariant, PTL DEF AccountsInv

(* A tenant with members has an admin, unless a role was set on the         *)
(* strength of an ADMIN role lost since (lib/users/actions.ts:14-29).       *)
THEOREM TenantsKeepAdmins == Spec => []AdminRemains
  BY AccountsInvariant, PTL DEF AccountsInv

-----------------------------------------------------------------------------
(* Navigation: without a session every page leads to the sign-in; with one  *)
(* and a row, whatever its role, the dashboard is the furthest.             *)
LEMMA SignedOutSettles == \A role : Site!Settles(FALSE, role)
  BY DEF Site!Settles, Site!Hop, Site!Page, Site!Middleware, Site!RootPage, Site!RequireUser,
         Site!RequireRole, Site!Urls, Site!AuthScreens, Site!Protected

LEMMA MemberSettles == ASSUME NEW role, role # None PROVE Site!Settles(TRUE, role)
  BY DEF Site!Settles, Site!Hop, Site!Page, Site!Middleware, Site!RootPage, Site!RequireUser,
         Site!RequireRole, Site!Urls, Site!AuthScreens, Site!Protected

(* Whoever came in through a callback that went through is on a page after  *)
(* at most one redirect, for any roles and even where callbacks race for    *)
(* the row (middleware.ts:40, session.ts:42-64).                            *)
THEOREM VisitorsArrive == Spec => []NavigationSettles
  <1>1. AccountsInv => NavigationSettles
    <2> SUFFICES ASSUME AccountsInv, NEW p \in People, sessions[p] # "bare" \/ users[p] # None
                 PROVE  Site!Settles(sessions[p] # None, IF users[p] = None THEN None ELSE users[p].role)
      BY DEF NavigationSettles
    <2>1. CASE sessions[p] = None
      BY <2>1, SignedOutSettles
    <2>2. CASE sessions[p] # None
      <3>1. users[p] # None
        BY <2>2 DEF AccountsInv, TypeOK, SyncedHaveRows
      <3>2. users[p].role # None
        BY <3>1, AccountsAssumption DEF AccountsInv, TypeOK, Profiles
      <3> QED BY <2>2, <3>1, <3>2, MemberSettles
    <2> QED BY <2>1, <2>2
  <1> QED BY <1>1, AccountsInvariant, PTL

-----------------------------------------------------------------------------
(* Seats: what a request has counted so far is still so, unless another     *)
(* request has changed the tenant's seats since.                            *)
Counted(request) ==
    (IF "users" \in request.left THEN 0 ELSE Cardinality(Members(request.tenant)))
    + (IF "invites" \in request.left THEN 0 ELSE Cardinality(Pending(request.tenant)))

CountHolds(request) ==
    (request.pc \in Counting /\ ~request.disturbed) =>
        /\ request.used = Counted(request)
        /\ request.pc = "createInvite" => request.left = {} /\ request.used < MaxUsers

SeatsInv == SeatsWithinPlan /\ \A c \in Requests : CountHolds(call[c])

LEMMA SeatsFinite ==
    ASSUME TypeOK
    PROVE  \A t : /\ IsFiniteSet(Members(t)) /\ Cardinality(Members(t)) \in Nat
                  /\ IsFiniteSet(Pending(t)) /\ Cardinality(Pending(t)) \in Nat
  <1> SUFFICES ASSUME NEW t PROVE IsFiniteSet(Members(t)) /\ IsFiniteSet(Pending(t))
    BY FS_CardinalityType
  <1>1. IsFiniteSet(Members(t))
    BY AccountsAssumption, FS_Subset DEF Members
  <1>2. DOMAIN invites = 1..Len(invites) /\ Len(invites) \in Nat
    BY DEF TypeOK
  <1>3. IsFiniteSet(DOMAIN invites)
    BY <1>2, FS_Interval
  <1>4. IsFiniteSet(Pending(t))
    BY <1>3, FS_Subset DEF Pending
  <1> QED BY <1>1, <1>4

(* No seat is taken or freed.                                               *)
LEMMA SeatsStay ==
    ASSUME SeatsInv, \A t : Members(t)' = Members(t) /\ Pending(t)' = Pending(t),
           loose \subseteq loose', \A d \in Requests : CountHolds(call'[d])
    PROVE  SeatsInv'
  <1>1. SeatsWithinPlan'
    BY DEF SeatsInv, SeatsWithinPlan
  <1>2. (\A d \in Requests : CountHolds(call[d]))'
    BY DEF CountHolds, Counted
  <1> QED BY <1>1, <1>2 DEF SeatsInv

(* The seats of t change, and all who have begun to count them know.        *)
LEMMA SeatsMove ==
    ASSUME SeatsInv, NEW t,
           \A s : s # t => Members(s)' = Members(s) /\ Pending(s)' = Pending(s),
           loose \subseteq loose',
           <<t, "seats">> \notin loose' =>
             Cardinality(Members(t)') + Cardinality(Pending(t)') <= MaxUsers,
           \A d \in Requests :
             \/ call'[d] = Idle \/ call'[d].disturbed
             \/ call'[d] = call[d] /\ (call[d].pc \in Counting => call[d].tenant # t)
    PROVE  SeatsInv'
  <1>1. SeatsWithinPlan'
    BY DEF SeatsInv, SeatsWithinPlan
  <1>2. ASSUME NEW d \in Requests PROVE CountHolds(call[d])'
    <2>1. CASE call'[d] = Idle \/ call'[d].disturbed
      BY <2>1 DEF CountHolds, Idle, Counting
    <2>2. CASE call'[d] = call[d] /\ (call[d].pc \in Counting => call[d].tenant # t)
      BY <2>2 DEF SeatsInv, CountHolds, Counted
    <2> QED BY <2>1, <2>2
  <1> QED BY <1>1, <1>2 DEF SeatsInv

(* The steps that leave the seats as they are.                              *)
LEMMA SeatsQuiet ==
    ASSUME AccountsInv, SeatsInv, NEW c \in Requests, NEW request,
           UNCHANGED tables, loose \subseteq loose',
           call' = [call EXCEPT ![c] = request], CountHolds(request)
    PROVE  SeatsInv'
  <1>1. \A t : Members(t)' = Members(t) /\ Pending(t)' = Pending(t)
    BY DEF tables, Members, Pending
  <1>2. \A d \in Requests : CountHolds(call'[d])
    BY DEF AccountsInv, TypeOK, SeatsInv
  <1> QED BY <1>1, <1>2, SeatsStay

LEMMA SeatsBegin ==
    ASSUME AccountsInv, SeatsInv, NEW c \in Requests, NEW p \in People, Begin(c, p)
    PROVE  SeatsInv'
  <1>1. ASSUME NEW request, CountHolds(request), Starts(c, request) PROVE SeatsInv'
    BY <1>1, SeatsQuiet DEF Starts
  <1>2. ASSUME NEW email \in People, NEW role \in Roles, Invite(c, p, email, role)
        PROVE  SeatsInv'
    <2> DEFINE request == [Idle EXCEPT !.pc = "count", !.tenant = users[p].tenant,
                             !.target = email, !.role = role, !.left = {"users", "invites"}]
    <2>1. request.pc = "count" /\ request.used = 0 /\ request.left = {"users", "invites"}
      BY DEF Idle
    <2>2. Starts(c, request)
      BY <1>2 DEF Invite
    <2> HIDE DEF request
    <2>3. CountHolds(request)
      BY <2>1 DEF CountHolds, Counted
    <2> QED BY <1>1, <2>2, <2>3
  <1>3. ASSUME NEW request, request.pc \notin Counting, Starts(c, request) PROVE SeatsInv'
    BY <1>1, <1>3 DEF CountHolds
  <1>4. CASE Callback(c, p)
    BY <1>3, <1>4 DEF Callback, Idle, Counting
  <1>5. ASSUME NEW target \in People, NEW role \in Roles, SetUserRole(c, p, target, role)
        PROVE  SeatsInv'
    BY <1>3, <1>5 DEF SetUserRole, Idle, Counting
  <1>6. ASSUME NEW i \in DOMAIN invites, Revoke(c, p, i) PROVE SeatsInv'
    BY <1>3, <1>6 DEF Revoke, Idle, Counting
  <1> QED BY <1>2, <1>4, <1>5, <1>6 DEF Begin, InviteForm, UserRoleForm, PendingInvites

LEMMA SeatsLook ==
    ASSUME AccountsInv, SeatsInv, NEW c \in Requests,
           \/ FindUser(c) \/ FindInvite(c) \/ CreateTenant(c) \/ FindTarget(c)
           \/ SetRole(c) \/ RequestFails(c)
    PROVE  SeatsInv'
  <1>0. TypeOK /\ call \in [Requests -> Calls]
    BY DEF AccountsInv, TypeOK
  <1>1. \A t : Members(t)' = Members(t)
    <2>1. CASE SetRole(c)
      <3>1. call[c].target \in Members(call[c].tenant)
        BY <2>1 DEF AccountsInv, Knows, SetRole
      <3>2. /\ call[c].target \in People /\ users[call[c].target] \in Profiles
            /\ users[call[c].target] # None /\ users \in [People -> Profiles \cup {None}]
        BY <1>0, <3>1 DEF Members, TypeOK
      <3>3. /\ [users[call[c].target] EXCEPT !.role = call[c].role].tenant = users[call[c].target].tenant
            /\ [users[call[c].target] EXCEPT !.role = call[c].role] \in Profiles
        BY <1>0, <3>2 DEF Profiles, Calls
      <3>4. [users[call[c].target] EXCEPT !.role = call[c].role] # None
        BY <3>3, AccountsAssumption DEF Profiles, Tenants
      <3>5. users' = [users EXCEPT ![call[c].target] = [users[call[c].target] EXCEPT !.role = call[c].role]]
        BY <2>1 DEF SetRole
      <3> QED BY <3>2, <3>3, <3>4, <3>5 DEF Members
    <2>2. CASE ~SetRole(c)
      BY <2>2 DEF FindUser, FindInvite, CreateTenant, FindTarget, RequestFails, tables, Members
    <2> QED BY <2>1, <2>2
  <1>2. (\A t : Pending(t)' = Pending(t)) /\ loose \subseteq loose'
    BY DEF FindUser, FindInvite, CreateTenant, FindTarget, SetRole, RequestFails, tables, Pending
  <1>3. (\A d \in Requests : d # c => call'[d] = call[d]) /\ call'[c].pc \notin Counting
    <2>1. call[c] \in Calls /\ Idle.pc \notin Counting
      BY <1>0 DEF Idle, Counting
    <2>2. CASE Ends(c)
      BY <1>0, <2>1, <2>2 DEF Ends
    <2>3. ASSUME NEW pc \in Awaits \ Counting, MoveTo(c, pc)
          PROVE  (\A d \in Requests : d # c => call'[d] = call[d]) /\ call'[c].pc \notin Counting
      <3>1. [call[c] EXCEPT !.pc = pc].pc = pc
        BY <2>1, MovedCall
      <3> QED BY <1>0, <2>3, <3>1 DEF MoveTo
    <2>4. CASE FindInvite(c) /\ ~MoveTo(c, "createTenant")
      <3>1. PICK i : call' = [call EXCEPT ![c].pc = "join", ![c].invite = i]
        BY <2>4 DEF FindInvite
      <3>2. call'[c].pc = "join"
        BY <1>0, <2>1, <3>1 DEF Calls
      <3> QED BY <1>0, <3>1, <3>2 DEF Counting
    <2>5. CASE CreateTenant(c)
      <3>1. call'[c].pc = "createUser"
        BY <1>0, <2>1, <2>5 DEF CreateTenant, Calls
      <3> QED BY <1>0, <2>5, <3>1 DEF CreateTenant, Counting
    <2>6. "findInvite" \in Awaits \ Counting /\ "createTenant" \in Awaits \ Counting
          /\ "setRole" \in Awaits \ Counting
      BY DEF Awaits, Sync, Counting
    <2> QED BY <2>2, <2>3, <2>4, <2>5, <2>6
            DEF FindUser, FindInvite, FindTarget, SetRole, RequestFails, Answered
  <1>4. \A d \in Requests : CountHolds(call'[d])
    BY <1>0, <1>3 DEF SeatsInv, CountHolds
  <1> QED BY <1>1, <1>2, <1>4, SeatsStay

(* canAddMember.                                                            *)
LEMMA SeatsCount ==
    ASSUME AccountsInv, SeatsInv, NEW c \in Requests,
           CheckMember(c) \/ \E what \in {"users", "invites"} : Count(c, what)
    PROVE  SeatsInv'
  <1>0. /\ TypeOK /\ call \in [Requests -> Calls] /\ call[c] \in Calls /\ CountHolds(call[c])
        /\ call[c].left \subseteq {"users", "invites"} /\ call[c].used \in Nat
    BY DEF AccountsInv, TypeOK, SeatsInv, Calls
  <1>1. CASE CheckMember(c)
    <2>1. /\ call[c].pc = "count" /\ call[c].left = {} /\ UNCHANGED <<tables, loose>>
      BY <1>1 DEF CheckMember
    <2>2. CASE Ends(c)
      BY <2>1, <2>2, SeatsQuiet DEF Ends, CountHolds, Idle, Counting
    <2>3. CASE MoveTo(c, "createInvite") /\ Allowed(call[c].used, MaxUsers)
      <3>a. PICK request : request = [call[c] EXCEPT !.pc = "createInvite"]
        OBVIOUS
      <3>1. /\ request.pc = "createInvite" /\ request.tenant = call[c].tenant
            /\ request.left = call[c].left /\ request.used = call[c].used
            /\ request.disturbed = call[c].disturbed
        BY <1>0, <3>a DEF Calls
      <3>2. CountHolds(request)
        BY <1>0, <2>1, <2>3, <3>1 DEF CountHolds, Counted, Counting, Allowed
      <3>3. call' = [call EXCEPT ![c] = request]
        BY <1>0, <2>3, <3>a DEF MoveTo
      <3> QED BY <2>1, <3>2, <3>3, SeatsQuiet
    <2> QED BY <1>1, <2>2, <2>3 DEF CheckMember
  <1>2. ASSUME NEW what \in {"users", "invites"}, Count(c, what) PROVE SeatsInv'
    <2>a. PICK t, n, request :
            /\ t = call[c].tenant
            /\ n = IF what = "users" THEN Cardinality(Members(t)) ELSE Cardinality(Pending(t))
            /\ request = [call[c] EXCEPT !.left = @ \ {what}, !.used = @ + n]
      OBVIOUS
    <2>1. /\ call[c].pc = "count" /\ what \in call[c].left /\ UNCHANGED <<tables, loose>>
          /\ call' = [call EXCEPT ![c] = request]
      BY <1>0, <1>2, <2>a DEF Count
    <2>2. n \in Nat /\ Cardinality(Members(t)) \in Nat /\ Cardinality(Pending(t)) \in Nat
      BY <1>0, <2>a, SeatsFinite
    <2>3. /\ request.pc = "count" /\ request.tenant = t /\ request.left = call[c].left \ {what}
          /\ request.used = call[c].used + n /\ request.disturbed = call[c].disturbed
      BY <1>0, <2>a, <2>1 DEF Calls
    <2>4. ASSUME ~request.disturbed PROVE request.used = Counted(request)
      <3>1. call[c].used = (IF "users" \in call[c].left THEN 0 ELSE Cardinality(Members(t)))
                             + (IF "invites" \in call[c].left THEN 0 ELSE Cardinality(Pending(t)))
        BY <1>0, <2>a, <2>1, <2>3, <2>4 DEF CountHolds, Counting, Counted
      <3>2. CASE what = "users"
        BY <2>a, <2>1, <2>2, <2>3, <3>1, <3>2 DEF Counted
      <3>3. CASE what = "invites"
        BY <2>a, <2>1, <2>2, <2>3, <3>1, <3>3 DEF Counted
      <3> QED BY <3>2, <3>3
    <2>5. CountHolds(request)
      BY <2>3, <2>4 DEF CountHolds
    <2> QED BY <2>1, <2>5, SeatsQuiet
  <1> QED BY <1>1, <1>2

LEMMA SeatsJoin ==
    ASSUME AccountsInv, SeatsInv, NEW c \in Requests, Join(c)
    PROVE  SeatsInv'
  <1>a. PICK i, p, t : i = call[c].invite /\ p = call[c].who /\ t = invites[i].tenant
    OBVIOUS
  <1>0. /\ TypeOK /\ i \in DOMAIN invites /\ p \in People /\ invites[i] \in Invitations
        /\ t \in Tenants /\ users \in [People -> Profiles \cup {None}]
        /\ invites \in Seq(Invitations) /\ call \in [Requests -> Calls]
    <2>1. i \in DOMAIN invites /\ p \in People
      BY <1>a DEF AccountsInv, Knows, Join, Sync
    <2>2. /\ TypeOK /\ users \in [People -> Profiles \cup {None}]
          /\ invites \in Seq(Invitations) /\ call \in [Requests -> Calls]
      BY DEF AccountsInv, TypeOK
    <2>3. invites[i] \in Invitations
      BY <2>1, <2>2
    <2> QED BY <1>a, <2>1, <2>2, <2>3 DEF Invitations
  <1>1. CASE users[p] # None
    <2>1. CountHolds(Idle)
      BY DEF CountHolds, Idle, Counting
    <2> QED BY <1>a, <1>1, <2>1, SeatsQuiet DEF Join, Ends, tables
  <1>2. CASE users[p] = None
    <2>a. PICK row : row = [tenant |-> t, role |-> invites[i].role]
      OBVIOUS
    <2>1. /\ users' = [users EXCEPT ![p] = row]
          /\ invites' = [invites EXCEPT ![i].status = "ACCEPTED"]
          /\ call' = Disturb([call EXCEPT ![c] = Idle], t)
          /\ loose' = IF invites[i].status = "PENDING" THEN loose ELSE loose \cup {<<t, "seats">>}
      BY <1>a, <1>2, <2>a DEF Join
    <2>2. row.tenant = t /\ row # None
      <3>1. row \in Profiles
        BY <1>0, <2>a DEF Profiles, Invitations
      <3> QED BY <2>a, <3>1, AccountsAssumption DEF Profiles, Tenants
    <2>3. /\ users'[p] = row /\ \A q \in People : q # p => users'[q] = users[q]
      BY <1>0, <2>1
    <2>4. /\ DOMAIN invites' = DOMAIN invites /\ invites'[i].tenant = t
          /\ invites'[i].status = "ACCEPTED"
          /\ \A k \in DOMAIN invites : k # i => invites'[k] = invites[k]
      BY <1>a, <1>0, <2>1 DEF Invitations
    <2>5. \A s : s # t => Members(s)' = Members(s) /\ Pending(s)' = Pending(s)
      BY <1>a, <1>2, <2>2, <2>3, <2>4 DEF Members, Pending
    <2>6. ASSUME <<t, "seats">> \notin loose'
          PROVE  Cardinality(Members(t)') + Cardinality(Pending(t)') <= MaxUsers
      <3>1. invites[i].status = "PENDING" /\ <<t, "seats">> \notin loose
        BY <2>1, <2>6
      <3>2. Members(t)' = Members(t) \cup {p} /\ p \notin Members(t)
        BY <1>0, <1>2, <2>2, <2>3 DEF Members
      <3>3. Pending(t)' = Pending(t) \ {i} /\ i \in Pending(t)
        BY <1>a, <1>0, <2>4, <3>1 DEF Pending
      <3>4. Cardinality(Members(t)') = Cardinality(Members(t)) + 1
        BY <1>0, <3>2, SeatsFinite, FS_AddElement
      <3>5. Cardinality(Pending(t)') = Cardinality(Pending(t)) - 1
        BY <1>0, <3>3, SeatsFinite, FS_RemoveElement
      <3>6. Cardinality(Members(t)) + Cardinality(Pending(t)) <= MaxUsers
        BY <1>0, <3>1 DEF SeatsInv, SeatsWithinPlan
      <3>7. Cardinality(Members(t)) \in Nat /\ Cardinality(Pending(t)) \in Nat /\ MaxUsers \in Nat
        BY <1>0, SeatsFinite, AccountsAssumption
      <3> QED BY <3>4, <3>5, <3>6, <3>7
    <2>7. \A d \in Requests :
             \/ call'[d] = Idle \/ call'[d].disturbed
             \/ call'[d] = call[d] /\ (call[d].pc \in Counting => call[d].tenant # t)
      BY <2>1, RequestsDisturbed
    <2>8. loose \subseteq loose'
      BY <2>1
    <2> QED BY <2>5, <2>6, <2>7, <2>8, SeatsMove
  <1> QED BY <1>1, <1>2

(* A tenant that its creator joins had no member and no invitation.         *)
LEMMA SeatsCreateUser ==
    ASSUME AccountsInv, SeatsInv, NEW c \in Requests, CreateUser(c)
    PROVE  SeatsInv'
  <1>a. PICK p, t, row : /\ p = call[c].who /\ t = call[c].tenant
                         /\ row = [tenant |-> t, role |-> "ADMIN"]
    OBVIOUS
  <1>0. /\ users \in [People -> Profiles \cup {None}] /\ p \in People /\ t \in 1..tenants
        /\ Members(t) = {} /\ call \in [Requests -> Calls] /\ tenants \in 0..MaxTenants
    BY <1>a DEF AccountsInv, TypeOK, Knows, CreateUser, Sync, NewTenants
  <1>1. /\ call' = [call EXCEPT ![c] = Idle] /\ UNCHANGED <<invites, loose>>
        /\ users' = IF users[p] # None THEN users ELSE [users EXCEPT ![p] = row]
    BY <1>a DEF CreateUser, Answered, Ends
  <1>2. row.tenant = t /\ row # None
    <2>1. row \in Profiles
      BY <1>a, <1>0, AccountsAssumption DEF Profiles, Tenants
    <2> QED BY <1>a, <2>1, AccountsAssumption DEF Profiles, Tenants
  <1>3. \A q \in People : users'[q] = IF q = p /\ users[p] = None THEN row ELSE users[q]
    BY <1>0, <1>1
  <1>4. \A s : s # t => Members(s)' = Members(s) /\ Pending(s)' = Pending(s)
    BY <1>1, <1>2, <1>3 DEF Members, Pending
  <1>5. Cardinality(Members(t)') + Cardinality(Pending(t)') <= MaxUsers
    <2>1. Pending(t)' = {}
      BY <1>0, <1>1 DEF Pending, AccountsInv, InvitesHaveInviters
    <2>2. Members(t)' = {} \/ Members(t)' = {p}
      BY <1>0, <1>2, <1>3 DEF Members
    <2>3. Cardinality({}) = 0 /\ Cardinality({p}) = 1
      BY FS_EmptySet, FS_Singleton
    <2> QED BY <2>1, <2>2, <2>3, AccountsAssumption
  <1>6. ASSUME NEW d \in Requests
        PROVE  \/ call'[d] = Idle
               \/ call'[d] = call[d] /\ (call[d].pc \in Counting => call[d].tenant # t)
    BY <1>0, <1>1 DEF AccountsInv, Knows, AdminCalls
  <1> QED BY <1>1, <1>4, <1>5, <1>6, SeatsMove

LEMMA SeatsInvite ==
    ASSUME AccountsInv, SeatsInv, NEW c \in Requests, CreateInvite(c) \/ RevokeInvite(c)
    PROVE  SeatsInv'
  <1>a. PICK t, i : t = call[c].tenant /\ i = call[c].invite
    OBVIOUS
  <1>0. /\ TypeOK /\ invites \in Seq(Invitations) /\ Len(invites) \in Nat
        /\ DOMAIN invites = 1..Len(invites) /\ UNCHANGED users
        /\ \A k \in DOMAIN invites : invites[k] \in Invitations
        /\ Cardinality(Members(t)) \in Nat /\ Cardinality(Pending(t)) \in Nat /\ MaxUsers \in Nat
        /\ \A s : Members(s)' = Members(s)
    <2>1. TypeOK /\ invites \in Seq(Invitations)
      BY DEF AccountsInv, TypeOK
    <2>2. Len(invites) \in Nat /\ DOMAIN invites = 1..Len(invites)
      BY <2>1
    <2>3. Cardinality(Members(t)) \in Nat /\ Cardinality(Pending(t)) \in Nat /\ MaxUsers \in Nat
      BY <2>1, SeatsFinite, AccountsAssumption
    <2>4. UNCHANGED users
      BY DEF CreateInvite, RevokeInvite
    <2>5. \A s : Members(s)' = Members(s)
      BY <2>4 DEF Members
    <2> QED BY <2>1, <2>2, <2>3, <2>4, <2>5
  <1>1. t \in Tenants
    <2>1. CASE CreateInvite(c) \/ call[c].pc = "revoke"
      <3>1. Members(t) # {}
        BY <1>a, <2>1 DEF AccountsInv, Knows, CreateInvite, AdminCalls, Counting
      <3> QED BY <1>0, <3>1 DEF Members, TypeOK, Profiles
    <2> QED BY <2>1 DEF RevokeInvite
  <1>2. CASE CreateInvite(c)
    <2>a. PICK invite : invite = [tenant |-> t, email |-> call[c].target, role |-> call[c].role,
                                  status |-> "PENDING", expired |-> FALSE]
      OBVIOUS
    <2>1. /\ call[c].pc = "createInvite" /\ invites' = Append(invites, invite)
          /\ call' = Disturb([call EXCEPT ![c] = Idle], t)
          /\ loose' = IF call[c].disturbed THEN loose \cup {<<t, "seats">>} ELSE loose
      BY <1>a, <1>2, <2>a DEF CreateInvite
    <2>2. invite \in Invitations /\ invite.tenant = t /\ invite.status = "PENDING"
      <3>1. call[c].target \in People /\ call[c].role \in Roles
        BY <1>0, <2>1 DEF AccountsInv, Knows, Counting, TypeOK, Calls
      <3> QED BY <1>1, <2>a, <3>1 DEF Invitations, Statuses
    <2>3. /\ DOMAIN invites' = 1..Len(invites) + 1 /\ invites'[Len(invites) + 1] = invite
          /\ \A k \in 1..Len(invites) : invites'[k] = invites[k]
      <3>1. invites' \in Seq(Invitations) /\ Len(invites') = Len(invites) + 1
        BY <1>0, <2>1, <2>2, AppendProperties
      <3> QED BY <1>0, <2>1, <2>2, <3>1, AppendProperties
    <2>4. Pending(t)' = Pending(t) \cup {Len(invites) + 1} /\ Len(invites) + 1 \notin Pending(t)
      BY <1>0, <2>2, <2>3 DEF Pending
    <2>5. \A s : s # t => Pending(s)' = Pending(s)
      BY <1>0, <2>2, <2>3 DEF Pending
    <2>6. ASSUME <<t, "seats">> \notin loose'
          PROVE  Cardinality(Members(t)') + Cardinality(Pending(t)') <= MaxUsers
      <3>1. ~call[c].disturbed
        BY <2>1, <2>6
      <3>2. Cardinality(Members(t)) + Cardinality(Pending(t)) < MaxUsers
        BY <1>a, <2>1, <3>1 DEF SeatsInv, CountHolds, Counted, Counting
      <3>3. Cardinality(Pending(t)') = Cardinality(Pending(t)) + 1
        BY <1>0, <2>4, SeatsFinite, FS_AddElement
      <3> QED BY <1>0, <3>2, <3>3
    <2>7. \A d \in Requests :
             \/ call'[d] = Idle \/ call'[d].disturbed
             \/ call'[d] = call[d] /\ (call[d].pc \in Counting => call[d].tenant # t)
      BY <2>1, RequestsDisturbed
    <2>8. loose \subseteq loose'
      BY <2>1
    <2> QED BY <1>0, <2>5, <2>6, <2>7, <2>8, SeatsMove
  <1>3. CASE RevokeInvite(c)
    <2>1. CASE i \in Pending(t)
      <3>1. /\ invites' = [invites EXCEPT ![i].status = "REVOKED"]
            /\ call' = Disturb([call EXCEPT ![c] = Idle], t) /\ UNCHANGED loose
        BY <1>a, <1>3, <2>1 DEF RevokeInvite
      <3>2. i \in DOMAIN invites /\ invites[i].tenant = t /\ invites[i] \in Invitations
        BY <1>0, <2>1 DEF Pending
      <3>3. /\ DOMAIN invites' = DOMAIN invites /\ invites'[i].tenant = t
            /\ invites'[i].status = "REVOKED"
            /\ \A k \in DOMAIN invites : k # i => invites'[k] = invites[k]
        BY <1>0, <3>1, <3>2 DEF Invitations
      <3>4. Pending(t)' = Pending(t) \ {i} /\ \A s : s # t => Pending(s)' = Pending(s)
        BY <3>2, <3>3 DEF Pending
      <3>5. Cardinality(Pending(t)') = Cardinality(Pending(t)) - 1
        BY <1>0, <2>1, <3>4, SeatsFinite, FS_RemoveElement
      <3>6. <<t, "seats">> \notin loose' =>
              Cardinality(Members(t)') + Cardinality(Pending(t)') <= MaxUsers
        <4>1. <<t, "seats">> \notin loose => Cardinality(Members(t)) + Cardinality(Pending(t)) <= MaxUsers
          BY <1>1 DEF SeatsInv, SeatsWithinPlan
        <4> QED BY <1>0, <3>1, <3>5, <4>1
      <3>7. \A d \in Requests :
               \/ call'[d] = Idle \/ call'[d].disturbed
               \/ call'[d] = call[d] /\ (call[d].pc \in Counting => call[d].tenant # t)
        BY <3>1, RequestsDisturbed
      <3> QED BY <1>0, <3>1, <3>4, <3>6, <3>7, SeatsMove
    <2>2. CASE i \notin Pending(t)
      <3>1. CountHolds(Idle)
        BY DEF CountHolds, Idle, Counting
      <3> QED BY <1>a, <1>3, <2>2, <3>1, SeatsQuiet DEF RevokeInvite, Ends, tables
    <2> QED BY <2>1, <2>2
  <1> QED BY <1>2, <1>3

LEMMA SeatsStep == AccountsInv /\ SeatsInv /\ [Next]_vars => SeatsInv'
  <1> SUFFICES ASSUME AccountsInv, SeatsInv, [Next]_vars PROVE SeatsInv'
    OBVIOUS
  <1>1. ASSUME NEW c \in Requests, Step(c) \/ RequestFails(c) PROVE SeatsInv'
    BY <1>1, SeatsLook, SeatsCount, SeatsJoin, SeatsCreateUser, SeatsInvite DEF Step
  <1>2. ASSUME UNCHANGED <<users, call, loose>>, \A t : Pending(t)' = Pending(t)
        PROVE  SeatsInv'
    <2>1. \A t : Members(t)' = Members(t)
      BY <1>2 DEF Members
    <2> QED BY <1>2, <2>1, SeatsStay DEF SeatsInv
  <1>3. ASSUME NEW i \in DOMAIN invites, InviteExpires(i) PROVE SeatsInv'
    <2>1. \A t : Pending(t)' = Pending(t)
      <3>1. invites \in Seq(Invitations) /\ invites[i] \in Invitations
        BY DEF AccountsInv, TypeOK
      <3>2. /\ DOMAIN invites' = DOMAIN invites /\ invites'[i].tenant = invites[i].tenant
            /\ invites'[i].status = invites[i].status
            /\ \A k \in DOMAIN invites : k # i => invites'[k] = invites[k]
        BY <1>3, <3>1 DEF InviteExpires, Invitations
      <3> QED BY <3>2 DEF Pending
    <2> QED BY <1>2, <1>3, <2>1 DEF InviteExpires
  <1>4. ASSUME NEW p \in People, SignIn(p) \/ SignUp(p) \/ SignOut(p) PROVE SeatsInv'
    BY <1>2, <1>4 DEF SignIn, SignUp, SignOut, tables, Pending
  <1>5. CASE UNCHANGED vars
    BY <1>2, <1>5 DEF vars, tables, Pending
  <1> QED BY <1>1, <1>3, <1>4, <1>5, SeatsBegin DEF Next

(* Members and pending invitations stay within the plan, in every tenant    *)
(* where nothing was created on an overtaken count or accepted after it was *)
(* revoked, for any plan and any requests (lib/plan.ts:41-47).              *)
THEOREM SeatsBounded == Spec => []SeatsWithinPlan
  <1>1. Init => SeatsInv
    <2> SUFFICES ASSUME Init PROVE SeatsInv
      OBVIOUS
    <2>1. \A t : Members(t) = {} /\ Pending(t) = {}
      BY DEF Init, Members, Pending
    <2>2. SeatsWithinPlan
      BY <2>1, FS_EmptySet, AccountsAssumption DEF SeatsWithinPlan
    <2>3. \A c \in Requests : CountHolds(call[c])
      BY DEF Init, CountHolds, Idle, Counting
    <2> QED BY <2>2, <2>3 DEF SeatsInv
  <1>2. SeatsInv => SeatsWithinPlan
    BY DEF SeatsInv
  <1> QED BY <1>1, <1>2, SeatsStep, AccountsInvariant, PTL DEF Spec

=============================================================================
