---------------------------- MODULE SessionPool ----------------------------
(***************************************************************************)
(* BnmpSessionManager (packages/bnmp/src/session/index.ts) under the       *)
(* concurrent calls of BnmpClient (packages/bnmp/src/client/index.ts):     *)
(* acquire, one request, and after a 401 or 403 one refresh and one more   *)
(* request.  JavaScript runs each stretch between two awaits atomically,   *)
(* so acquire and refresh are cut at `await this.initSession()`.  Sessions *)
(* are numbered in the order the portal issues them.                       *)
(***************************************************************************)
EXTENDS Integers, Sequences, FiniteSets

CONSTANTS
    Callers,     \* requests inside the rate limiter at a time (maxConcurrent)
    PoolSize,    \* BNMP_SESSION_POOL_SIZE
    MaxSessions  \* bound: sessions the portal issues

ASSUME PoolAssumption ==
    /\ IsFiniteSet(Callers)
    /\ PoolSize \in Nat \ {0}
    /\ MaxSessions \in Nat

VARIABLES
    pool,     \* this.pool: the sessions, by slot
    cursor,   \* this.cursor (counts from 0)
    issued,   \* sessions issued so far
    expired,  \* sessions whose JWT is within refreshSafetySeconds of its exp
    caller,   \* the state of each request
    strays    \* history variable: sessions that refresh pushed (idx < 0)

vars == <<pool, cursor, issued, expired, caller, strays>>

Sessions == 1..MaxSessions
Steps == {"idle", "grow", "refresh", "request"}

(* slot is refresh's idx + 1, so 0 stands for indexOf's -1; retried says    *)
(* that the one retry has begun.                                            *)
Idle == [pc |-> "idle", session |-> 0, slot |-> 0, retried |-> FALSE]

TypeOK ==
    /\ pool \in Seq(Sessions)
    /\ cursor \in Nat
    /\ issued \in 0..MaxSessions
    /\ expired \subseteq Sessions
    /\ caller \in [Callers -> [pc: Steps, session: 0..MaxSessions, slot: Nat,
                               retried: BOOLEAN]]
    /\ strays \in Nat

Init ==
    /\ pool = <<>>
    /\ cursor = 0
    /\ issued = 0
    /\ expired = {}
    /\ caller = [c \in Callers |-> Idle]
    /\ strays = 0

-----------------------------------------------------------------------------
SlotsOf(session) == {i \in DOMAIN pool : pool[i] = session}

(* Definitions named ...Variant are what the one after them would be with   *)
(* a plausible bug: each shows that a property can fail.                    *)

(* this.pool.indexOf(session), counted from 1, and 0 if it is not there.    *)
IndexOf(session) ==
    IF SlotsOf(session) = {} THEN 0
    ELSE CHOOSE i \in SlotsOf(session) : \A j \in SlotsOf(session) : i <= j

(* refresh up to its await: the slot is looked up before the new session is *)
(* asked for.                                                               *)
BeginRefresh(c, session, retried) ==
    caller' = [caller EXCEPT ![c] = [pc |-> "refresh", session |-> session,
                                     slot |-> IndexOf(session), retried |-> retried]]

UseSession(c, session) ==
    caller' = [caller EXCEPT ![c] = [pc |-> "request", session |-> session,
                                     slot |-> 0, retried |-> @.retried]]

(* acquire with fewer than poolSize sessions: a new one is asked for.       *)
AcquireGrows(c) ==
    /\ caller[c].pc = "idle"
    /\ Len(pool) < PoolSize
    /\ caller' = [caller EXCEPT ![c].pc = "grow"]
    /\ UNCHANGED <<pool, cursor, issued, expired, strays>>

(* acquire round-robin: a session that is about to expire is refreshed.     *)
AcquirePicks(c) ==
    LET picked == pool[(cursor % Len(pool)) + 1]
    IN  /\ caller[c].pc = "idle"
        /\ Len(pool) >= PoolSize
        /\ cursor' = (cursor + 1) % Len(pool)
        /\ IF picked \in expired
           THEN BeginRefresh(c, picked, FALSE)
           ELSE UseSession(c, picked)
        /\ UNCHANGED <<pool, issued, expired, strays>>

(* A second look at the length: the session is used, but not pooled.        *)
GrowArrivesVariant(c) ==
    /\ caller[c].pc = "grow"
    /\ issued < MaxSessions
    /\ issued' = issued + 1
    /\ pool' = IF Len(pool) < PoolSize THEN Append(pool, issued') ELSE pool
    /\ UseSession(c, issued')
    /\ UNCHANGED <<cursor, expired, strays>>

(* The growing call's session arrives and is pushed, whatever the pool has  *)
(* become; no second look at its length.                                    *)
GrowArrives(c) ==
    /\ caller[c].pc = "grow"
    /\ issued < MaxSessions
    /\ issued' = issued + 1
    /\ pool' = Append(pool, issued')
    /\ UseSession(c, issued')
    /\ UNCHANGED <<cursor, expired, strays>>

(* The `else` of refresh is missing: the session is placed and pushed.      *)
RefreshArrivesVariant(c) ==
    LET i == caller[c].slot
    IN  /\ caller[c].pc = "refresh"
        /\ issued < MaxSessions
        /\ issued' = issued + 1
        /\ IF i > 0
           THEN pool' = Append([pool EXCEPT ![i] = issued'], issued') /\ UNCHANGED strays
           ELSE pool' = Append(pool, issued') /\ strays' = strays + 1
        /\ UseSession(c, issued')
        /\ UNCHANGED <<cursor, expired>>

(* The refreshing call's session arrives and goes into the slot that was    *)
(* looked up, or is pushed if there was none.                               *)
RefreshArrives(c) ==
    LET i == caller[c].slot
    IN  /\ caller[c].pc = "refresh"
        /\ issued < MaxSessions
        /\ issued' = issued + 1
        /\ IF i > 0
           THEN pool' = [pool EXCEPT ![i] = issued'] /\ UNCHANGED strays
           ELSE pool' = Append(pool, issued') /\ strays' = strays + 1
        /\ UseSession(c, issued')
        /\ UNCHANGED <<cursor, expired>>

(* The error of a refresh is swallowed, and the request starts over.        *)
BootstrapFailsVariant(c) ==
    /\ caller[c].pc \in {"grow", "refresh"}
    /\ IF caller[c].pc = "refresh"
       THEN caller' = [caller EXCEPT ![c].pc = "request", ![c].slot = 0, ![c].retried = FALSE]
       ELSE caller' = [caller EXCEPT ![c] = Idle]
    /\ UNCHANGED <<pool, cursor, issued, expired, strays>>

(* The bootstrap call fails or returns no cookie: the request fails.        *)
BootstrapFails(c) ==
    /\ caller[c].pc \in {"grow", "refresh"}
    /\ caller' = [caller EXCEPT ![c] = Idle]
    /\ UNCHANGED <<pool, cursor, issued, expired, strays>>

(* The request ends, with its result or with an error other than 401, 403.  *)
RequestEnds(c) ==
    /\ caller[c].pc = "request"
    /\ caller' = [caller EXCEPT ![c] = Idle]
    /\ UNCHANGED <<pool, cursor, issued, expired, strays>>

(* The rejected session is invalidated (spliced out) before the refresh.    *)
RequestRejectedVariant(c) ==
    /\ caller[c].pc = "request"
    /\ pool' = SelectSeq(pool, LAMBDA session : session # caller[c].session)
    /\ caller' = [caller EXCEPT ![c].pc = IF caller[c].retried THEN "idle" ELSE "refresh",
                                ![c].slot = 0, ![c].retried = TRUE]
    /\ UNCHANGED <<cursor, issued, expired, strays>>

(* The portal answers 401 or 403: refresh and retry once, then give up.     *)
RequestRejected(c) ==
    /\ caller[c].pc = "request"
    /\ IF caller[c].retried
       THEN caller' = [caller EXCEPT ![c] = Idle]
       ELSE BeginRefresh(c, caller[c].session, TRUE)
    /\ UNCHANGED <<pool, cursor, issued, expired, strays>>

(* Time passes: the JWT of an issued session nears its exp.                 *)
Expires(session) ==
    /\ session \in (1..issued) \ expired
    /\ expired' = expired \cup {session}
    /\ UNCHANGED <<pool, cursor, issued, caller, strays>>

Proceeds(c) ==
    GrowArrives(c) \/ RefreshArrives(c) \/ BootstrapFails(c)
    \/ RequestEnds(c) \/ RequestRejected(c)

Next ==
    \/ \E c \in Callers : AcquireGrows(c) \/ AcquirePicks(c) \/ Proceeds(c)
    \/ \E session \in Sessions : Expires(session)

Spec == Init /\ [][Next]_vars

(* Every HTTP call ends, with an answer or by its timeout.                  *)
FairSpec == Spec /\ \A c \in Callers : WF_vars(Proceeds(c))

-----------------------------------------------------------------------------
(* Properties.                                                              *)

Growing == {c \in Callers : caller[c].pc = "grow"}

(* How far past poolSize the pool can grow: acquire checks its length       *)
(* before an await and pushes after it, so by the other callers that were   *)
(* let in meanwhile, and by one for every refresh of a session that another *)
(* caller had replaced.                                                     *)
PoolBounded == Len(pool) <= PoolSize - 1 + Cardinality(Callers) + strays

(* No session sits in two slots, although several refreshes of one slot and *)
(* several growing calls run at a time.                                     *)
PoolIsDistinct ==
    \A i, j \in DOMAIN pool : i # j => pool[i] # pool[j]

(* The slot a refresh looked up before its await is still a slot after it,  *)
(* so pool[idx] = fresh never leaves a hole ("session pool corruption").    *)
SlotsStayValid ==
    \A c \in Callers : caller[c].slot \in {0} \cup DOMAIN pool

(* Every session in use was issued by the portal and is in the pool, or was *)
(* replaced there by a newer one: no session is used that was never pooled. *)
UsedSessionsArePooled ==
    \A c \in Callers : caller[c].pc = "request" =>
        \/ caller[c].session \in {pool[i] : i \in DOMAIN pool}
        \/ \E i \in DOMAIN pool : pool[i] > caller[c].session

(* What lies between the two halves of an acquire or a refresh may change   *)
(* the pool, but never so that a slot, a session in it or one in use is     *)
(* lost or doubled (session/index.ts:47-91).                                *)
PoolIsSound == PoolIsDistinct /\ SlotsStayValid /\ UsedSessionsArePooled

(* A request ends: one refresh and one retry, then it gives up.             *)
RequestsEnd == \A c \in Callers : caller[c].pc # "idle" ~> caller[c].pc = "idle"
=============================================================================
