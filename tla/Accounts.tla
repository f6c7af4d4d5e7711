------------------------------ MODULE Accounts ------------------------------
(***************************************************************************)
(* The accounts of apps/web: first sign-in (lib/auth/sync.ts), invitations,*)
(* roles, and the limit of a tenant's plan on members (lib/plan.ts).       *)
(* Requests run side by side and each is cut at its awaits, every await    *)
(* one statement; only joining by invitation is a transaction.  The other  *)
(* limits are in Settings.                                                 *)
(* A person stands for a Supabase auth id and its email, and for the       *)
(* browser it uses.  The links of confirmation and recovery mails may be   *)
(* opened at any time; a session begins when the request that sets it is   *)
(* answered (Supabase keeps it, and its cookies).                          *)
(***************************************************************************)
EXTENDS Naturals, FiniteSets, Sequences

CONSTANTS
    People,
    Roles,        \* enum Role, at least "ADMIN"
    None,         \* null
    Requests,     \* requests the web app serves at a time
    MaxUsers,     \* PLAN_LIMITS[plan].maxUsers
    MaxTenants,   \* bound: tenants created
    MaxInvites,   \* bound: invitations created
    MaxFaults,    \* bound: statements that fail
    MaxRequests   \* bound: requests begun

ASSUME AccountsAssumption ==
    /\ "ADMIN" \in Roles /\ None \notin People \cup Roles \cup {"synced", "bare"}
    /\ IsFiniteSet(People) /\ IsFiniteSet(Requests)
    /\ MaxUsers \in Nat \ {0}
    /\ MaxTenants \in Nat /\ MaxInvites \in Nat /\ MaxFaults \in Nat
    /\ MaxRequests \in Nat
    /\ None \notin [tenant: 1..MaxTenants, role: Roles]

VARIABLES
    tenants,  \* rows of tenants, numbered as they are created
    users,    \* the users table: a tenant and a role, or None
    invites,  \* the invitations table, in order of createdAt
    sessions, \* Supabase's session of each person, or None: "synced" when the
              \* callback that began it went through, "bare" when it began otherwise
    call,     \* the state of each request
    loose,    \* history variable: tenants whose seats or roles were changed on
              \* the strength of something no longer true
    faults,
    begun     \* requests begun so far

Site == INSTANCE Navigation WITH NoRole <- None

tables == <<tenants, users, invites>>
vars == <<tables, sessions, call, loose, faults, begun>>

Tenants == 1..MaxTenants
Profiles == [tenant: Tenants, role: Roles]
Statuses == {"PENDING", "ACCEPTED", "REVOKED"}
Invitations == [tenant: Tenants, email: People, role: Roles, status: Statuses,
                expired: BOOLEAN]

Sync == {"findUser", "findInvite", "join", "createTenant", "createUser"}
Awaits == Sync \cup {"count", "createInvite", "revoke", "findTarget", "setRole"}
Calls == [pc: {"idle"} \cup Awaits, who: People \cup {None},
          tenant: {0} \cup Tenants, target: People \cup {None},
          role: Roles, invite: 0..MaxInvites, used: Nat,
          left: SUBSET {"users", "invites"}, disturbed: BOOLEAN]
Idle == [pc |-> "idle", who |-> None, tenant |-> 0, target |-> None, role |-> "ADMIN",
         invite |-> 0, used |-> 0, left |-> {}, disturbed |-> FALSE]

TypeOK ==
    /\ tenants \in 0..MaxTenants
    /\ users \in [People -> Profiles \cup {None}]
    /\ \A p \in People : users[p] # None => users[p].tenant <= tenants
    /\ invites \in Seq(Invitations) /\ Len(invites) <= MaxInvites
    /\ sessions \in [People -> {None, "synced", "bare"}]
    /\ call \in [Requests -> Calls]
    /\ loose \subseteq Tenants \X {"seats", "roles"}
    /\ faults \in 0..MaxFaults
    /\ begun \in 0..MaxRequests

Init ==
    /\ tenants = 0
    /\ users = [p \in People |-> None]
    /\ invites = <<>>
    /\ sessions = [p \in People |-> None]
    /\ call = [c \in Requests |-> Idle]
    /\ loose = {}
    /\ faults = 0
    /\ begun = 0

Starts(c, request) ==
    /\ call[c] = Idle
    /\ call' = [call EXCEPT ![c] = request]
    /\ begun < MaxRequests /\ begun' = begun + 1
    /\ UNCHANGED <<tables, sessions, loose, faults>>
MoveTo(c, pc) == call' = [call EXCEPT ![c].pc = pc]
Ends(c) == call' = [call EXCEPT ![c] = Idle]
(* The callback is answered.                                                *)
Answered(c, session) == Ends(c) /\ sessions' = [sessions EXCEPT ![call[c].who] = session]

Members(t) == {p \in People : users[p] # None /\ users[p].tenant = t}
Pending(t) == {i \in DOMAIN invites : invites[i].tenant = t /\ invites[i].status = "PENDING"}

(* Another request changes t's seats after this one has begun to count.     *)
Disturb(calls, t) ==
    [c \in Requests |-> IF calls[c].pc \in {"count", "createInvite"} /\ calls[c].tenant = t
                        THEN [calls[c] EXCEPT !.disturbed = TRUE] ELSE calls[c]]

(* requireRole: the request runs on with the role and tenant it read here.  *)
Authorised(p, allowed) ==
    sessions[p] # None /\ users[p] # None /\ users[p].role \in allowed

-----------------------------------------------------------------------------
(* Definitions named ...Variant are what the one after them would be with   *)
(* a plausible bug: each shows that a property can fail.                    *)

(* /auth/callback with the code of a confirmation or recovery link.         *)
Callback(c, p) ==
    Starts(c, [Idle EXCEPT !.pc = "findUser", !.who = p])

FindUser(c) ==
    /\ call[c].pc = "findUser"
    /\ IF users[call[c].who] # None THEN Answered(c, "synced")
       ELSE MoveTo(c, "findInvite") /\ UNCHANGED sessions
    /\ UNCHANGED <<tables, loose, faults, begun>>

Active(p) == {i \in DOMAIN invites : /\ invites[i].email = p
                                     /\ invites[i].status = "PENDING"
                                     /\ ~invites[i].expired}

(* No tenant of one's own: without an invitation the callback just ends.    *)
FindInviteVariant(c) ==
    /\ call[c].pc = "findInvite"
    /\ \/ Active(call[c].who) = {} /\ Answered(c, "synced")
       \/ \E i \in Active(call[c].who) :
            /\ \A k \in Active(call[c].who) : k <= i
            /\ call' = [call EXCEPT ![c].pc = "join", ![c].invite = i]
            /\ UNCHANGED sessions
    /\ UNCHANGED <<tables, loose, faults, begun>>

(* The latest invitation that is pending and has not expired.               *)
FindInvite(c) ==
    /\ call[c].pc = "findInvite"
    /\ \/ Active(call[c].who) = {} /\ MoveTo(c, "createTenant")
       \/ \E i \in Active(call[c].who) :
            /\ \A k \in Active(call[c].who) : k <= i
            /\ call' = [call EXCEPT ![c].pc = "join", ![c].invite = i]
    /\ UNCHANGED <<tables, sessions, loose, faults, begun>>

(* Two statements, and the invitation's is the one that cannot fail.        *)
JoinVariant(c) ==
    LET i == call[c].invite
        p == call[c].who
        t == invites[i].tenant
    IN  /\ call[c].pc = "join"
        /\ users' = IF users[p] # None THEN users
                    ELSE [users EXCEPT ![p] = [tenant |-> t, role |-> invites[i].role]]
        /\ invites' = [invites EXCEPT ![i].status = "ACCEPTED"]
        /\ call' = Disturb([call EXCEPT ![c] = Idle], t)
        /\ sessions' = [sessions EXCEPT ![p] = "synced"]
        /\ UNCHANGED <<tenants, loose, faults, begun>>

(* The transaction: it throws if the person has a row by now, which is as   *)
(* good, and does not look at the invitation's status again.                *)
Join(c) ==
    LET i == call[c].invite
        p == call[c].who
        t == invites[i].tenant
    IN  /\ call[c].pc = "join"
        /\ IF users[p] # None
           THEN Ends(c) /\ UNCHANGED <<users, invites, loose>>
           ELSE /\ users' = [users EXCEPT ![p] = [tenant |-> t, role |-> invites[i].role]]
                /\ invites' = [invites EXCEPT ![i].status = "ACCEPTED"]
                /\ call' = Disturb([call EXCEPT ![c] = Idle], t)
                /\ loose' = IF invites[i].status = "PENDING" THEN loose
                            ELSE loose \cup {<<t, "seats">>}
        /\ sessions' = [sessions EXCEPT ![p] = "synced"]
        /\ UNCHANGED <<tenants, faults, begun>>

(* The tenant is left to be created with its first user.                    *)
CreateTenantVariant(c) ==
    /\ call[c].pc = "createTenant" /\ tenants < MaxTenants
    /\ call' = [call EXCEPT ![c].pc = "createUser", ![c].tenant = tenants + 1]
    /\ UNCHANGED <<tables, sessions, loose, faults, begun>>

CreateTenant(c) ==
    /\ call[c].pc = "createTenant" /\ tenants < MaxTenants
    /\ tenants' = tenants + 1
    /\ call' = [call EXCEPT ![c].pc = "createUser", ![c].tenant = tenants + 1]
    /\ UNCHANGED <<users, invites, sessions, loose, faults, begun>>

(* It throws if the person has a row by now, and the tenant stays empty.    *)
CreateUser(c) ==
    LET p == call[c].who
    IN  /\ call[c].pc = "createUser"
        /\ users' = IF users[p] # None THEN users
                    ELSE [users EXCEPT ![p] = [tenant |-> call[c].tenant, role |-> "ADMIN"]]
        /\ Answered(c, "synced")
        /\ UNCHANGED <<tenants, invites, loose, faults, begun>>

(* signInAction, which asks nothing of the local row; whether or not the    *)
(* callback of the person's sign-up ever ran.                               *)
SignIn(p) ==
    /\ sessions[p] = None
    /\ sessions' = [sessions EXCEPT ![p] = "bare"]
    /\ begun < MaxRequests /\ begun' = begun + 1
    /\ UNCHANGED <<tables, call, loose, faults>>

(* signUpAction where Supabase asks for no confirmation: there is no link   *)
(* to open.  Where it asks for one, nothing changes here.                   *)
SignUp(p) == users[p] = None /\ SignIn(p)

(* signOutAction, POST /auth/sign-out.                                      *)
SignOut(p) ==
    /\ sessions[p] # None
    /\ sessions' = [sessions EXCEPT ![p] = None]
    /\ begun < MaxRequests /\ begun' = begun + 1
    /\ UNCHANGED <<tables, call, loose, faults>>

-----------------------------------------------------------------------------
(* createInvitationAction.                                                  *)
Invite(c, p, email, role) ==
    /\ Authorised(p, {"ADMIN"})
    /\ Starts(c, [Idle EXCEPT !.pc = "count", !.tenant = users[p].tenant,
                    !.target = email, !.role = role, !.left = {"users", "invites"}])

(* canAddMember: two counts at once, in either order.                       *)
Count(c, what) ==
    LET t == call[c].tenant
        n == IF what = "users" THEN Cardinality(Members(t)) ELSE Cardinality(Pending(t))
    IN  /\ call[c].pc = "count" /\ what \in call[c].left
        /\ call' = [call EXCEPT ![c].left = @ \ {what}, ![c].used = @ + n]
        /\ UNCHANGED <<tables, sessions, loose, faults, begun>>

(* An off-by-one.                                                           *)
AllowedVariant(current, max) == current <= max

(* checkLimit.                                                              *)
Allowed(current, max) == current < max

(* The limit, and findByEmail.                                              *)
CheckMember(c) ==
    /\ call[c].pc = "count" /\ call[c].left = {}
    /\ IF Allowed(call[c].used, MaxUsers) /\ users[call[c].target] = None
       THEN MoveTo(c, "createInvite") ELSE Ends(c)
    /\ UNCHANGED <<tables, sessions, loose, faults, begun>>

CreateInvite(c) ==
    LET t == call[c].tenant
    IN  /\ call[c].pc = "createInvite" /\ Len(invites) < MaxInvites
        /\ invites' = Append(invites, [tenant |-> t, email |-> call[c].target,
                        role |-> call[c].role, status |-> "PENDING", expired |-> FALSE])
        /\ call' = Disturb([call EXCEPT ![c] = Idle], t)
        /\ loose' = IF call[c].disturbed THEN loose \cup {<<t, "seats">>} ELSE loose
        /\ UNCHANGED <<tenants, users, sessions, faults, begun>>

(* revokeInvitationAction.                                                  *)
Revoke(c, p, i) ==
    /\ Authorised(p, {"ADMIN"})
    /\ Starts(c, [Idle EXCEPT !.pc = "revoke", !.tenant = users[p].tenant,
                    !.invite = i])

(* updateMany with the tenant and the status in its WHERE.                  *)
RevokeInvite(c) ==
    LET i == call[c].invite
        t == call[c].tenant
    IN  /\ call[c].pc = "revoke"
        /\ IF i \in Pending(t)
           THEN /\ invites' = [invites EXCEPT ![i].status = "REVOKED"]
                /\ call' = Disturb([call EXCEPT ![c] = Idle], t)
           ELSE Ends(c) /\ UNCHANGED invites
        /\ UNCHANGED <<tenants, users, sessions, loose, faults, begun>>

(* expiresAt passes.                                                        *)
InviteExpires(i) ==
    /\ invites[i].status = "PENDING" /\ ~invites[i].expired
    /\ invites' = [invites EXCEPT ![i].expired = TRUE]
    /\ UNCHANGED <<tenants, users, sessions, call, loose, faults, begun>>

-----------------------------------------------------------------------------
(* An admin may demote any member.                                          *)
SetUserRoleVariant(c, p, target, role) ==
    /\ Authorised(p, {"ADMIN"})
    /\ Starts(c, [Idle EXCEPT !.pc = "findTarget", !.who = p, !.tenant = users[p].tenant,
                    !.target = target, !.role = role])

(* setUserRoleAction, which refuses a self-demotion.                        *)
SetUserRole(c, p, target, role) ==
    /\ Authorised(p, {"ADMIN"})
    /\ target = p => role = "ADMIN"
    /\ Starts(c, [Idle EXCEPT !.pc = "findTarget", !.who = p, !.tenant = users[p].tenant,
                    !.target = target, !.role = role])

FindTarget(c) ==
    /\ call[c].pc = "findTarget"
    /\ IF call[c].target \in Members(call[c].tenant) THEN MoveTo(c, "setRole") ELSE Ends(c)
    /\ UNCHANGED <<tables, sessions, loose, faults, begun>>

SetRole(c) ==
    /\ call[c].pc = "setRole"
    /\ users' = [users EXCEPT ![call[c].target].role = call[c].role]
    /\ loose' = IF users[call[c].who].role = "ADMIN" THEN loose
                ELSE loose \cup {<<call[c].tenant, "roles">>}
    /\ Ends(c)
    /\ UNCHANGED <<tenants, invites, sessions, faults, begun>>

-----------------------------------------------------------------------------
(* A statement fails: the request is answered with the error, the callback  *)
(* with the session as well.                                                *)
RequestFails(c) ==
    /\ call[c].pc # "idle"
    /\ faults < MaxFaults /\ faults' = faults + 1
    /\ IF call[c].pc \in Sync THEN Answered(c, "bare") ELSE Ends(c) /\ UNCHANGED sessions
    /\ UNCHANGED <<tables, loose, begun>>

-----------------------------------------------------------------------------
(* The forms of /admin/users.  An action takes what is posted to it: its    *)
(* page does not offer the admin's own row, and may be out of date.         *)
InviteForm(c, p) == \E email \in People, role \in Roles : Invite(c, p, email, role)
UserRoleForm(c, p) == \E target \in People, role \in Roles : SetUserRole(c, p, target, role)
PendingInvites(c, p) == \E i \in DOMAIN invites : Revoke(c, p, i)

Begin(c, p) ==
    Callback(c, p) \/ InviteForm(c, p) \/ UserRoleForm(c, p) \/ PendingInvites(c, p)

Step(c) ==
    \/ FindUser(c) \/ FindInvite(c) \/ Join(c) \/ CreateTenant(c) \/ CreateUser(c)
    \/ \E what \in {"users", "invites"} : Count(c, what)
    \/ CheckMember(c) \/ CreateInvite(c) \/ RevokeInvite(c)
    \/ FindTarget(c) \/ SetRole(c)

Next ==
    \/ \E c \in Requests : (\E p \in People : Begin(c, p)) \/ Step(c) \/ RequestFails(c)
    \/ \E p \in People : SignIn(p) \/ SignUp(p) \/ SignOut(p)
    \/ \E i \in DOMAIN invites : InviteExpires(i)

Spec == Init /\ [][Next]_vars

-----------------------------------------------------------------------------
(* Properties.                                                              *)

(* Members and pending invitations stay within the plan in every tenant     *)
(* where no invitation was created on a count that another request had      *)
(* overtaken, and none accepted after it was revoked (lib/plan.ts:41-47,    *)
(* lib/auth/sync.ts:30-49).                                                 *)
SeatsWithinPlan ==
    \A t \in Tenants : <<t, "seats">> \notin loose =>
        Cardinality(Members(t)) + Cardinality(Pending(t)) <= MaxUsers

(* A tenant with members has an admin, unless someone set a role after      *)
(* losing the ADMIN role that requireRole had read: two admins who demote   *)
(* each other at once lock the tenant out (lib/users/actions.ts:14-29).     *)
AdminRemains ==
    \A t \in Tenants : (Members(t) # {} /\ <<t, "roles">> \notin loose) =>
        \E p \in Members(t) : users[p].role = "ADMIN"

(* Whichever callbacks and invitations race, an accepted invitation has     *)
(* brought its person into its tenant, and nobody accepts two               *)
(* (lib/auth/sync.ts:18-19, 35-49).                                         *)
AcceptedMeansMember ==
    \A i \in DOMAIN invites : invites[i].status = "ACCEPTED" =>
        /\ invites[i].email \in Members(invites[i].tenant)
        /\ \A k \in DOMAIN invites :
             (k # i /\ invites[k].status = "ACCEPTED") => invites[k].email # invites[i].email

(* Whoever came in through a callback that went through, even one that lost *)
(* the race for the row, is on a page after at most one redirect, whatever  *)
(* page it asks for.  A session that began otherwise and has no row is sent *)
(* from /login to /dashboard and back for ever: no callback runs again, as  *)
(* lib/auth/session.ts:49-52 has it (middleware.ts:40, session.ts:42-64).   *)
NavigationSettles ==
    \A p \in People : (sessions[p] # "bare" \/ users[p] # None) =>
        Site!Settles(sessions[p] # None, IF users[p] = None THEN None ELSE users[p].role)
=============================================================================
