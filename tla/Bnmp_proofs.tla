---------------------------- MODULE Bnmp_proofs ----------------------------
(***************************************************************************)
(* Proofs about the two modules of packages/bnmp and its callers: the      *)
(* session pool, for every number of callers and every pool size, and the  *)
(* scanning handlers, for every page size, window and listing.             *)
(***************************************************************************)
EXTENDS SessionPool, ScanCity, FiniteSetTheorems, TLAPS

(* The caller's fields mean what its step says: only a refresh in flight    *)
(* holds a slot, and it and a request hold a session that was issued.       *)
CallerFields ==
    \A c \in Callers :
        /\ caller[c].slot > 0 => caller[c].pc = "refresh"
        /\ caller[c].pc \in {"refresh", "request"} => caller[c].session \in 1..issued

PoolWasIssued == \A i \in DOMAIN pool : pool[i] <= issued

(* PoolBounded, with the growing calls still to push counted in.            *)
GrowthBounded ==
    Len(pool) + Cardinality(Growing) <= PoolSize - 1 + Cardinality(Callers) + strays

ShapeInv ==
    /\ TypeOK
    /\ CallerFields
    /\ PoolWasIssued
    /\ SlotsStayValid
    /\ PoolIsDistinct
    /\ UsedSessionsArePooled

-----------------------------------------------------------------------------
(* refresh's lookup yields a slot of the pool, or none.                     *)
LEMMA IndexOfIsSlot ==
    ASSUME TypeOK, PoolIsDistinct, NEW session
    PROVE  IndexOf(session) \in {0} \cup DOMAIN pool
<1>1. CASE SlotsOf(session) = {}
  BY <1>1 DEF IndexOf
<1>2. CASE SlotsOf(session) # {}
  <2>1. PICK i \in DOMAIN pool : pool[i] = session
    BY <1>2 DEF SlotsOf
  <2>2. i \in Nat
    BY <2>1 DEF TypeOK
  <2>3. SlotsOf(session) = {i}
    BY <2>1 DEF SlotsOf, PoolIsDistinct
  <2>4. \E k \in SlotsOf(session) : \A j \in SlotsOf(session) : k <= j
    BY <2>2, <2>3
  <2>5. IndexOf(session) \in SlotsOf(session)
    BY <1>2, <2>4 DEF IndexOf
  <2>. QED  BY <2>1, <2>3, <2>5
<1>. QED  BY <1>1, <1>2

(* The pool starts empty and every caller idle.                             *)
LEMMA ShapeInit == Init => ShapeInv
<1>. SUFFICES ASSUME Init PROVE ShapeInv
  OBVIOUS
<1>. USE PoolAssumption DEF Init, Idle
<1>1. TypeOK
  BY DEF TypeOK, Steps
<1>2. CallerFields /\ SlotsStayValid /\ UsedSessionsArePooled
  BY DEF CallerFields, SlotsStayValid, UsedSessionsArePooled
<1>3. PoolWasIssued /\ PoolIsDistinct
  BY DEF PoolWasIssued, PoolIsDistinct
<1>. QED  BY <1>1, <1>2, <1>3 DEF ShapeInv

(* A call that begins a refresh, from acquire or after a rejection.         *)
LEMMA BeginRefreshShape ==
    ASSUME ShapeInv, NEW c \in Callers, NEW session \in 1..issued,
           NEW retried \in BOOLEAN, BeginRefresh(c, session, retried),
           cursor' \in Nat, UNCHANGED <<pool, issued, expired, strays>>
    PROVE  ShapeInv'
<1>. USE DEF ShapeInv, BeginRefresh
<1>1. IndexOf(session) \in {0} \cup DOMAIN pool
  BY IndexOfIsSlot
<1>2. IndexOf(session) \in Nat
  BY <1>1 DEF TypeOK
<1>3. TypeOK'
  BY <1>2, PoolAssumption DEF TypeOK, Steps
<1>4. CallerFields'
  BY DEF CallerFields, TypeOK
<1>5. PoolWasIssued' /\ PoolIsDistinct'
  BY DEF PoolWasIssued, PoolIsDistinct
<1>6. SlotsStayValid'
  BY <1>1 DEF SlotsStayValid, TypeOK
<1>7. UsedSessionsArePooled'
  BY DEF UsedSessionsArePooled, TypeOK
<1>. QED  BY <1>3, <1>4, <1>5, <1>6, <1>7

(* A call that goes idle.                                                   *)
LEMMA EndShape ==
    ASSUME ShapeInv, NEW c \in Callers, caller' = [caller EXCEPT ![c] = Idle],
           UNCHANGED <<pool, cursor, issued, expired, strays>>
    PROVE  ShapeInv'
<1>. USE DEF ShapeInv, Idle
<1>1. TypeOK'
  BY PoolAssumption DEF TypeOK, Steps
<1>2. CallerFields' /\ SlotsStayValid' /\ UsedSessionsArePooled'
  BY DEF CallerFields, SlotsStayValid, UsedSessionsArePooled, TypeOK
<1>3. PoolWasIssued' /\ PoolIsDistinct'
  BY DEF PoolWasIssued, PoolIsDistinct
<1>. QED  BY <1>1, <1>2, <1>3

(* A new session is pushed, and the call that asked for it uses it.         *)
LEMMA PushShape ==
    ASSUME ShapeInv, NEW c \in Callers, issued < MaxSessions,
           issued' = issued + 1, pool' = Append(pool, issued'),
           UseSession(c, issued'), strays' \in Nat, UNCHANGED <<cursor, expired>>
    PROVE  ShapeInv'
<1>. USE PoolAssumption DEF ShapeInv, UseSession
<1>1. issued' \in Sessions /\ issued \in Nat
  BY DEF TypeOK, Sessions
<1>2. /\ DOMAIN pool' = 1..(Len(pool) + 1)
      /\ \A i \in 1..Len(pool) : pool'[i] = pool[i]
      /\ pool'[Len(pool) + 1] = issued'
      /\ DOMAIN pool = 1..Len(pool) /\ Len(pool) \in Nat
  BY <1>1 DEF TypeOK
<1>3. TypeOK'
  <2>1. pool' \in Seq(Sessions)
    BY <1>1 DEF TypeOK
  <2>2. issued' \in 0..MaxSessions
    BY <1>1 DEF Sessions
  <2>3. caller' \in [Callers -> [pc: Steps, session: 0..MaxSessions, slot: Nat,
                                 retried: BOOLEAN]]
    <3>1. [pc |-> "request", session |-> issued', slot |-> 0, retried |-> caller[c].retried]
          \in [pc: Steps, session: 0..MaxSessions, slot: Nat, retried: BOOLEAN]
      BY <2>2 DEF TypeOK, Steps
    <3>. QED  BY <3>1 DEF TypeOK
  <2>. QED  BY <2>1, <2>2, <2>3 DEF TypeOK
<1>4. CallerFields'
  BY <1>1 DEF CallerFields, TypeOK
<1>5. PoolWasIssued'
  BY <1>1, <1>2 DEF PoolWasIssued, TypeOK, Sessions
<1>6. PoolIsDistinct'
  <2>1. \A i \in DOMAIN pool : pool[i] # issued'
    BY <1>1 DEF PoolWasIssued, TypeOK, Sessions
  <2>. QED  BY <1>2, <2>1 DEF PoolIsDistinct
<1>7. SlotsStayValid'
  <2>1. DOMAIN pool \subseteq DOMAIN pool'
    BY <1>2
  <2>2. \A d \in Callers : (caller[d].slot)' \in {0, caller[d].slot}
    BY DEF TypeOK
  <2>. QED  BY <2>1, <2>2 DEF SlotsStayValid
<1>8. UsedSessionsArePooled'
  <2>. SUFFICES ASSUME NEW d \in Callers, (caller[d].pc = "request")'
                PROVE  \/ (caller[d].session)' \in {pool'[i] : i \in DOMAIN pool'}
                       \/ \E i \in DOMAIN pool' : pool'[i] > (caller[d].session)'
    BY DEF UsedSessionsArePooled
  <2>1. CASE d = c
    <3>1. (caller[d].session)' = issued'
      BY <2>1 DEF TypeOK
    <3>2. Len(pool) + 1 \in DOMAIN pool' /\ pool'[Len(pool) + 1] = issued'
      BY <1>2
    <3>. QED  BY <3>1, <3>2
  <2>2. CASE d # c
    <3>1. caller'[d] = caller[d]
      BY <2>2 DEF TypeOK
    <3>2. \/ caller[d].session \in {pool[i] : i \in DOMAIN pool}
          \/ \E i \in DOMAIN pool : pool[i] > caller[d].session
      BY <3>1 DEF UsedSessionsArePooled
    <3>3. \A i \in DOMAIN pool : i \in DOMAIN pool' /\ pool'[i] = pool[i]
      BY <1>2
    <3>. QED  BY <3>1, <3>2, <3>3
  <2>. QED  BY <2>1, <2>2
<1>. QED  BY <1>3, <1>4, <1>5, <1>6, <1>7, <1>8

(* A new session replaces the one in the slot that refresh had looked up.   *)
LEMMA ReplaceShape ==
    ASSUME ShapeInv, NEW c \in Callers, NEW i \in DOMAIN pool,
           issued < MaxSessions, issued' = issued + 1,
           pool' = [pool EXCEPT ![i] = issued'],
           UseSession(c, issued'), UNCHANGED <<cursor, expired, strays>>
    PROVE  ShapeInv'
<1>. USE PoolAssumption DEF ShapeInv, UseSession
<1>1. issued' \in Sessions /\ issued \in Nat
  BY DEF TypeOK, Sessions
<1>2. /\ DOMAIN pool' = DOMAIN pool
      /\ \A j \in DOMAIN pool : pool'[j] = IF j = i THEN issued' ELSE pool[j]
  BY DEF TypeOK
<1>3. TypeOK'
  <2>1. pool' \in Seq(Sessions)
    BY <1>1 DEF TypeOK
  <2>2. issued' \in 0..MaxSessions
    BY <1>1 DEF Sessions
  <2>3. caller' \in [Callers -> [pc: Steps, session: 0..MaxSessions, slot: Nat,
                                 retried: BOOLEAN]]
    <3>1. [pc |-> "request", session |-> issued', slot |-> 0, retried |-> caller[c].retried]
          \in [pc: Steps, session: 0..MaxSessions, slot: Nat, retried: BOOLEAN]
      BY <2>2 DEF TypeOK, Steps
    <3>. QED  BY <3>1 DEF TypeOK
  <2>. QED  BY <2>1, <2>2, <2>3 DEF TypeOK
<1>4. CallerFields'
  BY <1>1 DEF CallerFields, TypeOK
<1>5. \A j \in DOMAIN pool : pool[j] \in Nat /\ pool[j] < issued'
  BY <1>1 DEF PoolWasIssued, TypeOK, Sessions
<1>6. PoolWasIssued'
  BY <1>1, <1>2, <1>5 DEF PoolWasIssued
<1>7. PoolIsDistinct'
  BY <1>1, <1>2, <1>5 DEF PoolIsDistinct
<1>8. SlotsStayValid'
  BY <1>2 DEF SlotsStayValid, TypeOK
<1>9. UsedSessionsArePooled'
  <2>. SUFFICES ASSUME NEW d \in Callers, (caller[d].pc = "request")'
                PROVE  \/ (caller[d].session)' \in {pool'[j] : j \in DOMAIN pool'}
                       \/ \E j \in DOMAIN pool' : pool'[j] > (caller[d].session)'
    BY DEF UsedSessionsArePooled
  <2>1. CASE d = c
    <3>1. (caller[d].session)' = issued' /\ pool'[i] = issued' /\ i \in DOMAIN pool'
      BY <1>2, <2>1 DEF TypeOK
    <3>. QED  BY <3>1
  <2>2. CASE d # c
    <3>1. caller'[d] = caller[d]
      BY <2>2 DEF TypeOK
    <3>2. PICK j \in DOMAIN pool : pool[j] >= caller[d].session
      <4>1. CASE caller[d].session \in {pool[j] : j \in DOMAIN pool}
        <5>1. PICK j \in DOMAIN pool : pool[j] = caller[d].session
          BY <4>1
        <5>. QED  BY <1>5, <5>1
      <4>2. CASE \E j \in DOMAIN pool : pool[j] > caller[d].session
        <5>1. PICK j \in DOMAIN pool : pool[j] > caller[d].session
          BY <4>2
        <5>2. pool[j] \in Int /\ caller[d].session \in Int
          BY <1>5 DEF TypeOK
        <5>. QED  BY <5>1, <5>2
      <4>. QED  BY <3>1, <4>1, <4>2 DEF UsedSessionsArePooled
    <3>3. caller[d].session \in Int
      BY DEF TypeOK
    <3>4. pool'[j] = pool[j] \/ pool'[j] > pool[j]
      BY <1>1, <1>2, <1>5
    <3>5. j \in DOMAIN pool' /\ pool[j] \in Int /\ pool'[j] \in Int
      BY <1>1, <1>2, <1>5
    <3>6. pool'[j] = caller[d].session \/ pool'[j] > caller[d].session
      BY <3>2, <3>3, <3>4, <3>5
    <3>. QED  BY <3>1, <3>5, <3>6
  <2>. QED  BY <2>1, <2>2
<1>. QED  BY <1>3, <1>4, <1>6, <1>7, <1>8, <1>9

(* ShapeInv is inductive.                                                   *)
LEMMA ShapeStep == ShapeInv /\ [Next]_vars => ShapeInv'
<1>. SUFFICES ASSUME ShapeInv, [Next]_vars PROVE ShapeInv'
  OBVIOUS
<1>. USE PoolAssumption
<1>1. ASSUME NEW c \in Callers, AcquireGrows(c) PROVE ShapeInv'
  <2>. USE <1>1 DEF AcquireGrows, ShapeInv
  <2>1. TypeOK'
    BY DEF TypeOK, Steps
  <2>2. CallerFields' /\ SlotsStayValid' /\ UsedSessionsArePooled'
    BY DEF CallerFields, SlotsStayValid, UsedSessionsArePooled, TypeOK
  <2>3. PoolWasIssued' /\ PoolIsDistinct'
    BY DEF PoolWasIssued, PoolIsDistinct
  <2>. QED  BY <2>1, <2>2, <2>3
<1>2. ASSUME NEW c \in Callers, AcquirePicks(c) PROVE ShapeInv'
  <2>. DEFINE k == (cursor % Len(pool)) + 1
  <2>1. k \in DOMAIN pool /\ cursor' \in Nat
    <3>1. Len(pool) \in Nat /\ Len(pool) > 0 /\ cursor \in Nat /\ DOMAIN pool = 1..Len(pool)
      BY <1>2 DEF AcquirePicks, ShapeInv, TypeOK
    <3>2. cursor' = (cursor + 1) % Len(pool)
      BY <1>2 DEF AcquirePicks
    <3>. QED  BY <3>1, <3>2
  <2>2. pool[k] \in 1..issued
    BY <2>1 DEF ShapeInv, PoolWasIssued, TypeOK, Sessions
  <2>3. CASE pool[k] \in expired
    <3>1. BeginRefresh(c, pool[k], FALSE) /\ UNCHANGED <<pool, issued, expired, strays>>
      BY <1>2, <2>3 DEF AcquirePicks
    <3>. QED  BY <2>1, <2>2, <3>1, BeginRefreshShape
  <2>4. CASE pool[k] \notin expired
    <3>. HIDE DEF k
    <3>1. UseSession(c, pool[k]) /\ UNCHANGED <<pool, issued, expired, strays>>
      BY <1>2, <2>4 DEF AcquirePicks, k
    <3>2. pool[k] \in 0..MaxSessions
      BY <2>1 DEF ShapeInv, TypeOK, Sessions
    <3>3. TypeOK'
      BY <2>1, <3>1, <3>2 DEF ShapeInv, TypeOK, Steps, UseSession
    <3>4. /\ caller'[c].pc = "request" /\ caller'[c].session = pool[k] /\ caller'[c].slot = 0
          /\ \A d \in Callers : d # c => caller'[d] = caller[d]
          /\ UNCHANGED <<pool, issued>>
      BY <3>1 DEF ShapeInv, TypeOK, UseSession
    <3>5. CallerFields' /\ SlotsStayValid'
      BY <2>2, <3>4 DEF ShapeInv, CallerFields, SlotsStayValid
    <3>6. UsedSessionsArePooled'
      BY <2>1, <3>4 DEF ShapeInv, UsedSessionsArePooled
    <3>7. PoolWasIssued' /\ PoolIsDistinct'
      BY <3>1 DEF ShapeInv, PoolWasIssued, PoolIsDistinct
    <3>. QED  BY <3>3, <3>5, <3>6, <3>7 DEF ShapeInv
  <2>. QED  BY <2>3, <2>4
<1>3. ASSUME NEW c \in Callers, GrowArrives(c) PROVE ShapeInv'
  <2>1. strays' \in Nat
    BY <1>3 DEF GrowArrives, ShapeInv, TypeOK
  <2>. QED  BY <1>3, <2>1, PushShape DEF GrowArrives
<1>4. ASSUME NEW c \in Callers, RefreshArrives(c) PROVE ShapeInv'
  <2>. DEFINE i == caller[c].slot
  <2>1. i \in {0} \cup DOMAIN pool /\ i \in Nat
    BY DEF ShapeInv, SlotsStayValid, TypeOK
  <2>2. CASE i > 0
    <3>1. i \in DOMAIN pool
      BY <2>1, <2>2
    <3>. QED  BY <1>4, <2>2, <3>1, ReplaceShape DEF RefreshArrives
  <2>3. CASE ~(i > 0)
    <3>1. strays' \in Nat
      BY <1>4, <2>3 DEF RefreshArrives, ShapeInv, TypeOK
    <3>. QED  BY <1>4, <2>3, <3>1, PushShape DEF RefreshArrives
  <2>. QED  BY <2>2, <2>3
<1>5. ASSUME NEW c \in Callers, BootstrapFails(c) PROVE ShapeInv'
  BY <1>5, EndShape DEF BootstrapFails
<1>6. ASSUME NEW c \in Callers, RequestEnds(c) PROVE ShapeInv'
  BY <1>6, EndShape DEF RequestEnds
<1>7. ASSUME NEW c \in Callers, RequestRejected(c) PROVE ShapeInv'
  <2>1. CASE caller[c].retried
    BY <1>7, <2>1, EndShape DEF RequestRejected
  <2>2. CASE ~caller[c].retried
    <3>1. caller[c].session \in 1..issued /\ cursor' \in Nat
      BY <1>7 DEF RequestRejected, ShapeInv, CallerFields, TypeOK
    <3>2. BeginRefresh(c, caller[c].session, TRUE)
          /\ UNCHANGED <<pool, issued, expired, strays>>
      BY <1>7, <2>2 DEF RequestRejected
    <3>. QED  BY <3>1, <3>2, BeginRefreshShape
  <2>. QED  BY <2>1, <2>2
<1>8. ASSUME NEW session \in Sessions, Expires(session) PROVE ShapeInv'
  BY <1>8 DEF Expires, ShapeInv, TypeOK, CallerFields, PoolWasIssued, SlotsStayValid,
     PoolIsDistinct, UsedSessionsArePooled, Sessions
<1>9. CASE UNCHANGED vars
  BY <1>9 DEF vars, ShapeInv, TypeOK, CallerFields, PoolWasIssued, SlotsStayValid,
     PoolIsDistinct, UsedSessionsArePooled
<1>. QED
  BY <1>1, <1>2, <1>3, <1>4, <1>5, <1>6, <1>7, <1>8, <1>9 DEF Next, Proceeds

-----------------------------------------------------------------------------
(* Callers are finitely many, so those that grow the pool can be counted.   *)
LEMMA GrowingIsFinite ==
    ASSUME NEW S, S \subseteq Callers
    PROVE  /\ IsFiniteSet(S)
           /\ Cardinality(S) \in Nat
           /\ Cardinality(S) <= Cardinality(Callers)
           /\ Cardinality(Callers) \in Nat
BY FS_Subset, FS_CardinalityType, PoolAssumption DEF PoolAssumption

(* Nobody grows the pool at the start.                                      *)
LEMMA GrowthInit == Init => GrowthBounded
<1>. SUFFICES ASSUME Init PROVE GrowthBounded
  OBVIOUS
<1>1. Growing = {} /\ Len(pool) = 0 /\ strays = 0
  BY DEF Init, Growing, Idle
<1>2. Cardinality({}) = 0
  BY FS_EmptySet
<1>3. Cardinality(Callers) \in Nat
  BY GrowingIsFinite
<1>. QED  BY <1>1, <1>2, <1>3, PoolAssumption DEF GrowthBounded

(* A push moves a caller from the count to the pool.                        *)
LEMMA GrowthStep == ShapeInv /\ GrowthBounded /\ [Next]_vars => GrowthBounded'
<1>. SUFFICES ASSUME ShapeInv, GrowthBounded, [Next]_vars PROVE GrowthBounded'
  OBVIOUS
<1>1. /\ Len(pool) \in Nat /\ strays \in Nat /\ PoolSize \in Nat
      /\ caller \in [Callers -> [pc: Steps, session: 0..MaxSessions, slot: Nat,
                                 retried: BOOLEAN]]
  BY PoolAssumption DEF ShapeInv, TypeOK
<1>2. /\ Growing \subseteq Callers /\ IsFiniteSet(Growing)
      /\ Cardinality(Growing) \in Nat /\ Cardinality(Callers) \in Nat
  BY GrowingIsFinite DEF Growing
<1>3. ASSUME Growing' = Growing, UNCHANGED <<pool, strays>> PROVE GrowthBounded'
  BY <1>3 DEF GrowthBounded
<1>4. ASSUME NEW c \in Callers, AcquireGrows(c) PROVE GrowthBounded'
  <2>1. Growing' \subseteq Callers
    BY <1>4 DEF AcquireGrows, Growing
  <2>2. Cardinality(Growing') \in Nat /\ Cardinality(Growing') <= Cardinality(Callers)
    BY <2>1, GrowingIsFinite
  <2>3. pool' = pool /\ strays' = strays /\ Len(pool) < PoolSize
    BY <1>4 DEF AcquireGrows
  <2>4. Len(pool) + Cardinality(Growing') <= PoolSize - 1 + Cardinality(Callers) + strays
    BY <1>1, <1>2, <2>2, <2>3
  <2>. QED  BY <2>3, <2>4 DEF GrowthBounded, Growing
<1>5. ASSUME NEW c \in Callers, AcquirePicks(c) PROVE GrowthBounded'
  <2>1. caller[c].pc = "idle" /\ caller'[c].pc \in {"request", "refresh"}
        /\ \A d \in Callers \ {c} : caller'[d] = caller[d]
    BY <1>1, <1>5 DEF AcquirePicks, BeginRefresh, UseSession
  <2>2. Growing' = Growing
    BY <2>1 DEF Growing
  <2>. QED  BY <1>3, <1>5, <2>2 DEF AcquirePicks
<1>6. ASSUME NEW c \in Callers, GrowArrives(c) PROVE GrowthBounded'
  <2>1. c \in Growing /\ Growing' = Growing \ {c}
    BY <1>1, <1>6 DEF GrowArrives, Growing, UseSession
  <2>2. Cardinality(Growing \ {c}) = Cardinality(Growing) - 1
    BY <1>2, <2>1, FS_RemoveElement
  <2>3. Len(pool') = Len(pool) + 1 /\ strays' = strays
    BY <1>6 DEF GrowArrives, ShapeInv, TypeOK
  <2>. QED  BY <1>1, <1>2, <2>1, <2>2, <2>3 DEF GrowthBounded
<1>7. ASSUME NEW c \in Callers, RefreshArrives(c) PROVE GrowthBounded'
  <2>1. Growing' = Growing
    BY <1>1, <1>7 DEF RefreshArrives, Growing, UseSession
  <2>2. \/ Len(pool') = Len(pool) /\ strays' = strays
        \/ Len(pool') = Len(pool) + 1 /\ strays' = strays + 1
    <3>1. CASE caller[c].slot > 0
      BY <1>7, <3>1 DEF RefreshArrives, ShapeInv, TypeOK
    <3>2. CASE ~(caller[c].slot > 0)
      BY <1>7, <3>2 DEF RefreshArrives, ShapeInv, TypeOK
    <3>. QED  BY <3>1, <3>2
  <2>. QED  BY <1>1, <1>2, <2>1, <2>2 DEF GrowthBounded
<1>8. ASSUME NEW c \in Callers, BootstrapFails(c) \/ RequestEnds(c) PROVE GrowthBounded'
  <2>1. Growing' \subseteq Growing
    BY <1>1, <1>8 DEF BootstrapFails, RequestEnds, Growing, Idle
  <2>2. Cardinality(Growing') \in Nat /\ Cardinality(Growing') <= Cardinality(Growing)
    BY <1>2, <2>1, FS_Subset, FS_CardinalityType
  <2>3. UNCHANGED <<pool, strays>>
    BY <1>8 DEF BootstrapFails, RequestEnds
  <2>. QED  BY <1>1, <1>2, <2>2, <2>3 DEF GrowthBounded
<1>9. ASSUME NEW c \in Callers, RequestRejected(c) PROVE GrowthBounded'
  <2>1. Growing' = Growing
    BY <1>1, <1>9 DEF RequestRejected, BeginRefresh, Growing, Idle
  <2>. QED  BY <1>3, <1>9, <2>1 DEF RequestRejected
<1>10. ASSUME NEW session \in Sessions, Expires(session) PROVE GrowthBounded'
  BY <1>3, <1>10 DEF Expires, Growing
<1>11. CASE UNCHANGED vars
  BY <1>3, <1>11 DEF vars, Growing
<1>. QED
  BY <1>4, <1>5, <1>6, <1>7, <1>8, <1>9, <1>10, <1>11 DEF Next, Proceeds

-----------------------------------------------------------------------------
(* Every reachable state of the pool is well typed.                         *)
THEOREM PoolTypeCorrect == Spec => []TypeOK
<1>1. ShapeInv => TypeOK
  BY DEF ShapeInv
<1>. QED  BY ShapeInit, ShapeStep, <1>1, PTL DEF Spec

(* Refreshes and growing calls that overlap in any number never put a       *)
(* session into two slots, never write past the pool, and never leave a     *)
(* request with a session that was not pooled.                              *)
THEOREM PoolShape == Spec => []PoolIsSound
<1>1. ShapeInv => PoolIsSound
  BY DEF ShapeInv, PoolIsSound
<1>. QED  BY ShapeInit, ShapeStep, <1>1, PTL DEF Spec

(* The pool outgrows poolSize by at most one session per other caller, plus *)
(* one per refresh of a session that had left the pool.                     *)
THEOREM PoolGrowth == Spec => []PoolBounded
<1>1. ShapeInv /\ GrowthBounded => PoolBounded
  <2>. SUFFICES ASSUME ShapeInv, GrowthBounded PROVE PoolBounded
    OBVIOUS
  <2>1. Cardinality(Growing) \in Nat /\ Cardinality(Callers) \in Nat
    BY GrowingIsFinite DEF Growing
  <2>. QED  BY <2>1, PoolAssumption DEF ShapeInv, TypeOK, GrowthBounded, PoolBounded
<1>. QED  BY ShapeInit, ShapeStep, GrowthInit, GrowthStep, <1>1, PTL DEF Spec

-----------------------------------------------------------------------------
(* ScanCity: lemmas about the listing and the rows of a page.               *)

(* A slice of a sequence, empty when it begins behind its end.              *)
LEMMA Slice ==
    ASSUME NEW S, NEW s \in Seq(S), NEW a \in Nat, NEW b \in 0..Len(s)
    PROVE  /\ SubSeq(s, a + 1, b) \in Seq(S)
           /\ Len(SubSeq(s, a + 1, b)) = IF a < b THEN b - a ELSE 0
           /\ \A i \in DOMAIN SubSeq(s, a + 1, b) :
                 a + i \in DOMAIN s /\ SubSeq(s, a + 1, b)[i] = s[a + i]
<1>1. CASE a < b
  <2>1. /\ SubSeq(s, a + 1, b) \in Seq(S)
        /\ Len(SubSeq(s, a + 1, b)) = b - a
        /\ \A i \in 1..(b - a) : SubSeq(s, a + 1, b)[i] = s[a + i]
    BY <1>1
  <2>. QED  BY <1>1, <2>1
<1>2. CASE ~(a < b)
  <2>1. SubSeq(s, a + 1, b) = <<>>
    BY <1>2
  <2>. QED  BY <1>2, <2>1
<1>. QED  BY <1>1, <1>2

(* A row put between two parts of a listing.                                *)
LEMMA Between ==
    ASSUME NEW S, NEW a \in Seq(S), NEW r \in S, NEW b \in Seq(S)
    PROVE  /\ a \o <<r>> \o b \in Seq(S)
           /\ Len(a \o <<r>> \o b) = Len(a) + 1 + Len(b)
           /\ \A k \in 1..Len(a) : (a \o <<r>> \o b)[k] = a[k]
           /\ (a \o <<r>> \o b)[Len(a) + 1] = r
           /\ \A k \in 1..Len(b) : (a \o <<r>> \o b)[Len(a) + 1 + k] = b[k]
<1>1. a \o <<r>> \o b \in Seq(S) /\ Len(a \o <<r>> \o b) = Len(a) + 1 + Len(b)
  OBVIOUS
<1>2. \A k \in 1..Len(a) : (a \o <<r>> \o b)[k] = a[k]
  OBVIOUS
<1>3. (a \o <<r>> \o b)[Len(a) + 1] = r
  OBVIOUS
<1>4. \A k \in 1..Len(b) : (a \o <<r>> \o b)[Len(a) + 1 + k] = b[k]
  OBVIOUS
<1>. QED  BY <1>1, <1>2, <1>3, <1>4

(* A row that the listing does not hold, put between two of its rows,       *)
(* leaves every row where it is once.                                       *)
LEMMA InsertKeepsDistinct ==
    ASSUME NEW S, NEW s \in Seq(S), NEW r \in S, NEW i \in 0..Len(s),
           \A k, l \in DOMAIN s : s[k] = s[l] => k = l,
           \A k \in DOMAIN s : s[k] # r
    PROVE  LET t == SubSeq(s, 1, i) \o <<r>> \o SubSeq(s, i + 1, Len(s))
           IN  t \in Seq(S) /\ \A k, l \in DOMAIN t : t[k] = t[l] => k = l
<1>1. PICK a : a = SubSeq(s, 1, i)
  OBVIOUS
<1>2. PICK b : b = SubSeq(s, i + 1, Len(s))
  OBVIOUS
<1>3. a \in Seq(S) /\ Len(a) = i /\ \A k \in 1..i : a[k] = s[k]
  <2>1. /\ SubSeq(s, 0 + 1, i) \in Seq(S)
        /\ Len(SubSeq(s, 0 + 1, i)) = IF 0 < i THEN i - 0 ELSE 0
        /\ \A k \in DOMAIN SubSeq(s, 0 + 1, i) :
              0 + k \in DOMAIN s /\ SubSeq(s, 0 + 1, i)[k] = s[0 + k]
    BY Slice
  <2>2. 0 + 1 = 1
    OBVIOUS
  <2>. QED  BY <1>1, <2>1, <2>2
<1>4. b \in Seq(S) /\ Len(b) = Len(s) - i /\ \A k \in 1..Len(s) - i : b[k] = s[i + k]
  <2>1. /\ SubSeq(s, i + 1, Len(s)) \in Seq(S)
        /\ Len(SubSeq(s, i + 1, Len(s))) = IF i < Len(s) THEN Len(s) - i ELSE 0
        /\ \A k \in DOMAIN SubSeq(s, i + 1, Len(s)) :
              i + k \in DOMAIN s /\ SubSeq(s, i + 1, Len(s))[k] = s[i + k]
    <3>1. Len(s) \in 0..Len(s)
      OBVIOUS
    <3>. QED  BY <3>1, Slice
  <2>. QED  BY <1>2, <2>1
<1>5. PICK t : t = a \o <<r>> \o b
  OBVIOUS
<1>6. /\ t \in Seq(S) /\ Len(t) = Len(a) + 1 + Len(b)
      /\ \A k \in 1..Len(a) : t[k] = a[k]
      /\ t[Len(a) + 1] = r
      /\ \A k \in 1..Len(b) : t[Len(a) + 1 + k] = b[k]
  <2>1. a \in Seq(S) /\ b \in Seq(S)
    BY <1>3, <1>4
  <2>2. /\ a \o <<r>> \o b \in Seq(S)
        /\ Len(a \o <<r>> \o b) = Len(a) + 1 + Len(b)
        /\ \A k \in 1..Len(a) : (a \o <<r>> \o b)[k] = a[k]
        /\ (a \o <<r>> \o b)[Len(a) + 1] = r
        /\ \A k \in 1..Len(b) : (a \o <<r>> \o b)[Len(a) + 1 + k] = b[k]
    BY <2>1, Between
  <2>. QED  BY <1>5, <2>2, Zenon
<1>7. /\ Len(t) = Len(s) + 1
      /\ \A k \in 1..i : t[k] = s[k]
      /\ t[i + 1] = r
      /\ \A k \in 1..Len(s) - i : t[i + 1 + k] = s[i + k]
  <2>1. Len(a) = i /\ Len(b) = Len(s) - i /\ Len(s) \in Nat /\ i \in Nat
    BY <1>3, <1>4
  <2>2. Len(t) = Len(s) + 1
    BY <1>6, <2>1
  <2>3. t[i + 1] = r
    BY <1>6, <2>1
  <2>4. \A k \in 1..i : t[k] = s[k]
    BY <1>3, <1>6, <2>1
  <2>5. \A k \in 1..Len(s) - i : t[i + 1 + k] = s[i + k]
    BY <1>4, <1>6, <2>1
  <2>. QED  BY <2>2, <2>3, <2>4, <2>5
<1>8. ASSUME NEW n \in DOMAIN t
      PROVE  \/ n <= i /\ n \in DOMAIN s /\ t[n] = s[n]
             \/ n = i + 1 /\ t[n] = r
             \/ n > i + 1 /\ n - 1 \in DOMAIN s /\ t[n] = s[n - 1]
  <2>1. n \in 1..Len(s) + 1 /\ i \in 0..Len(s) /\ Len(s) \in Nat /\ DOMAIN s = 1..Len(s)
    BY <1>6, <1>7
  <2>2. CASE n <= i
    BY <1>7, <2>1, <2>2
  <2>3. CASE n = i + 1
    BY <1>7, <2>3
  <2>4. CASE n > i + 1
    <3>1. n - i - 1 \in 1..Len(s) - i
      BY <2>1, <2>4
    <3>2. t[i + 1 + (n - i - 1)] = s[i + (n - i - 1)]
      BY <1>7, <3>1
    <3>3. i + 1 + (n - i - 1) = n /\ i + (n - i - 1) = n - 1 /\ n - 1 \in 1..Len(s)
      BY <2>1, <2>4
    <3>. QED  BY <2>1, <2>4, <3>2, <3>3
  <2>. QED  BY <2>1, <2>2, <2>3, <2>4
<1>9. \A n \in DOMAIN t : n \in Nat
  BY <1>6
<1>10. ASSUME NEW k \in DOMAIN t, NEW l \in DOMAIN t, t[k] = t[l]
      PROVE  k = l
  <2>1. k \in Nat /\ l \in Nat /\ i \in Nat
    BY <1>9
  <2>2. CASE k = i + 1
    BY <1>8, <1>10, <2>1, <2>2
  <2>3. CASE l = i + 1
    BY <1>8, <1>10, <2>1, <2>3
  <2>4. CASE k # i + 1 /\ l # i + 1
    <3>1. (k <= i /\ k \in DOMAIN s /\ t[k] = s[k]) \/ (k > i + 1 /\ k - 1 \in DOMAIN s /\ t[k] = s[k - 1])
      BY <1>8, <2>4
    <3>2. (l <= i /\ l \in DOMAIN s /\ t[l] = s[l]) \/ (l > i + 1 /\ l - 1 \in DOMAIN s /\ t[l] = s[l - 1])
      BY <1>8, <2>4
    <3>. QED  BY <1>10, <2>1, <3>1, <3>2
  <2>. QED  BY <2>2, <2>3, <2>4
<1>. QED  BY <1>1, <1>2, <1>5, <1>6, <1>10, Zenon

(* What FetchPage leaves to do are the rows of one page of the listing.     *)
LEMMA PageOfListing ==
    ASSUME NEW S, NEW s \in Seq(S), NEW from \in Nat, NEW size \in Nat, NEW end,
           end = (IF from + size < Len(s) THEN from + size ELSE Len(s))
    PROVE  /\ SubSeq(s, from + 1, end) \in Seq(S)
           /\ Len(SubSeq(s, from + 1, end)) = IF from < end THEN end - from ELSE 0
           /\ \A i \in DOMAIN SubSeq(s, from + 1, end) :
                 from + i \in DOMAIN s /\ SubSeq(s, from + 1, end)[i] = s[from + i]
<1>1. end \in 0..Len(s)
  OBVIOUS
<1>. QED  BY <1>1, Slice

(* The fields of a job.                                                     *)
LEMMA HandlerFields ==
    ASSUME NEW j \in Handlers
    PROVE  /\ j.kind \in Kinds /\ j.pc \in {"fetch", "rows", "done"}
           /\ j.target \in Rows \cup {None} /\ j.page \in Nat
           /\ j.todo \in Seq(Found) /\ j.last \in BOOLEAN
           /\ j.budget \in 0..MaxPages * PageSize /\ j.streak \in 0..2 * PageSize
           /\ j.attempt \in 1..MaxAttempts /\ j.fresh \in BOOLEAN
BY DEF Handlers

(* The fields of a trace.                                                   *)
LEMMA TraceFields ==
    ASSUME NEW h \in Traces
    PROVE  /\ h.requests \in Nat /\ h.visited \in SUBSET Rows
           /\ h.shifted \in BOOLEAN /\ h.caughtUp \in BOOLEAN /\ h.threw \in BOOLEAN
BY DEF Traces

(* A row still to do is a row of the listing.                               *)
LEMMA TodoFields ==
    ASSUME NEW j \in Handlers, NEW i \in DOMAIN j.todo
    PROVE  j.todo[i].row \in Rows /\ j.todo[i].payload \in Payloads
<1>1. j.todo \in Seq(Found)
  BY HandlerFields
<1>2. j.todo[i] \in Found
  BY <1>1
<1>. QED  BY <1>2 DEF Found

(* The numbers that pages and windows are made of.                          *)
LEMMA Sizes ==
    /\ PageSize \in Nat \ {0} /\ MaxPages \in Nat \ {0} /\ MaxAttempts \in Nat \ {0}
    /\ MaxPages * PageSize \in Nat
    /\ RetroStart \in Nat /\ RetroEnd \in Nat /\ RetroStart < RetroEnd
BY ScanAssumption

(* What the steps make of a job is a job: one that is done,                 *)
LEMMA DoneIsHandler ==
    ASSUME NEW j \in Handlers
    PROVE  [j EXCEPT !.pc = "done", !.todo = <<>>] \in Handlers
<1>1. <<>> \in Seq(Found)
  OBVIOUS
<1>. QED  BY <1>1 DEF Handlers

(* one that starts,                                                         *)
LEMMA StartedIsHandler ==
    ASSUME NEW k \in Kinds, NEW t \in Rows \cup {None}
    PROVE  Started(k, t) \in Handlers
<1>1. <<>> \in Seq(Found)
  OBVIOUS
<1>2. /\ MaxPages * PageSize \in 0..MaxPages * PageSize /\ 0 \in 0..2 * PageSize
      /\ 1 \in 1..MaxAttempts /\ (IF k = "retro" THEN RetroStart ELSE 0) \in Nat
  BY Sizes
<1>. QED  BY <1>1, <1>2 DEF Started, Handlers

(* and one with a row less to do.                                           *)
LEMMA TakeIsHandler ==
    ASSUME NEW j \in Handlers, NEW streak \in 0..2 * PageSize,
           NEW budget \in 0..MaxPages * PageSize, j.todo # <<>>
    PROVE  [j EXCEPT !.todo = Tail(@), !.streak = streak, !.budget = budget] \in Handlers
<1>1. Tail(j.todo) \in Seq(Found)
  BY HandlerFields
<1>. QED  BY <1>1 DEF Handlers

-----------------------------------------------------------------------------
(* ScanCity: type correctness.                                              *)

(* The first scan begins well typed.                                        *)
LEMMA ScanTypeInit == ScanInit => ScanTypeOK
<1>. SUFFICES ASSUME ScanInit PROVE ScanTypeOK
  OBVIOUS
<1>1. listing \in Seq(Rows) /\ \A i, k \in DOMAIN listing : listing[i] = listing[k] => i = k
  BY ScanAssumption DEF ScanInit
<1>2. payload \in [Rows -> Payloads] /\ db \in [Rows -> Payloads \cup {None}]
  BY ScanAssumption DEF ScanInit
<1>3. changes \in 0..MaxChanges /\ faults \in 0..MaxFaults
  BY ScanAssumption DEF ScanInit
<1>4. job \in Handlers
  BY StartedIsHandler DEF ScanInit, Kinds
<1>5. trace \in Traces
  BY DEF ScanInit, NoTrace, Traces
<1>. QED  BY <1>1, <1>2, <1>3, <1>4, <1>5 DEF ScanTypeOK

(* The parts of the type that only the job's own steps change.              *)
JobTypeOK ==
    job \in Handlers /\ trace \in Traces /\ faults \in 0..MaxFaults
    /\ db \in [Rows -> Payloads \cup {None}]

(* The failures stay within their bound.                                    *)
LEMMA FailsType == ScanTypeOK /\ Fails => faults' \in 0..MaxFaults
BY ScanAssumption DEF ScanTypeOK, Fails

(* A job that throws ends.                                                  *)
LEMMA ThrowsType == ScanTypeOK /\ Throws => job' \in Handlers /\ trace' \in Traces
<1>. SUFFICES ASSUME ScanTypeOK, Throws PROVE job' \in Handlers /\ trace' \in Traces
  OBVIOUS
<1>1. job' \in Handlers
  BY DoneIsHandler DEF ScanTypeOK, Throws, Done
<1>2. trace' \in Traces
  BY DEF ScanTypeOK, Throws, Traces
<1>. QED  BY <1>1, <1>2

(* A page is fetched: its rows are rows of the listing.                     *)
LEMMA FetchType == ScanTypeOK /\ FetchPage => JobTypeOK'
<1>. SUFFICES ASSUME ScanTypeOK, FetchPage PROVE JobTypeOK'
  OBVIOUS
<1>1. PICK from : from = job.page * PageSize
  OBVIOUS
<1>2. PICK end : end = IF from + PageSize < Len(listing) THEN from + PageSize ELSE Len(listing)
  OBVIOUS
<1>3. PICK rows : rows = SubSeq(listing, from + 1, end)
  OBVIOUS
<1>4. rows \in Seq(Rows)
  <2>1. listing \in Seq(Rows) /\ from \in Nat /\ PageSize \in Nat
    BY Sizes, HandlerFields, <1>1 DEF ScanTypeOK
  <2>. QED  BY <2>1, <1>2, <1>3, PageOfListing
<1>5. PICK todo : todo = [i \in DOMAIN rows |-> [row |-> rows[i], payload |-> payload[rows[i]]]]
  OBVIOUS
<1>6. todo \in Seq(Found)
  <2>1. \A i \in DOMAIN rows : [row |-> rows[i], payload |-> payload[rows[i]]] \in Found
    BY <1>4 DEF ScanTypeOK, Found
  <2>. QED  BY <1>4, <1>5, <2>1
<1>7. PICK last : last = (job.page * PageSize + PageSize >= Len(listing))
  OBVIOUS
<1>8. job' = [job EXCEPT !.pc = "rows", !.last = last, !.todo = todo, !.attempt = 1, !.fresh = FALSE]
  BY <1>1, <1>2, <1>3, <1>5, <1>7, Zenon DEF FetchPage
<1>9. job' \in Handlers
  <2>1. 1 \in 1..MaxAttempts
    BY Sizes
  <2>2. last \in BOOLEAN
    BY <1>7
  <2>. QED  BY <1>6, <1>8, <2>1, <2>2 DEF ScanTypeOK, Handlers
<1>10. trace' \in Traces
  BY DEF ScanTypeOK, FetchPage, Traces
<1>. QED  BY <1>9, <1>10 DEF JobTypeOK, ScanTypeOK, FetchPage

(* A request fails: it is repeated within its attempts, or the job ends.    *)
LEMMA RequestType ==
    ScanTypeOK /\ (RequestFails \/ SessionExpires \/ PageRejected) => JobTypeOK'
<1>. SUFFICES ASSUME ScanTypeOK, RequestFails \/ SessionExpires \/ PageRejected PROVE JobTypeOK'
  OBVIOUS
<1>1. faults' \in 0..MaxFaults
  BY FailsType DEF RequestFails, SessionExpires, PageRejected
<1>2. ASSUME NEW attempt \in 1..MaxAttempts, NEW fresh \in BOOLEAN, Retries(attempt, fresh)
      PROVE  job' \in Handlers /\ trace' \in Traces
  <2>1. job' \in Handlers
    BY <1>2 DEF ScanTypeOK, Retries, Handlers
  <2>2. trace' \in Traces
    BY <1>2 DEF ScanTypeOK, Retries, Traces
  <2>. QED  BY <2>1, <2>2
<1>3. job' \in Handlers /\ trace' \in Traces
  <2>1. CASE Throws
    BY <2>1, ThrowsType
  <2>2. CASE RequestFails /\ job.attempt < MaxAttempts
    <3>1. job.attempt + 1 \in 1..MaxAttempts /\ job.fresh \in BOOLEAN
      BY <2>2, Sizes, HandlerFields DEF ScanTypeOK
    <3>. QED  BY <1>2, <2>2, <3>1 DEF RequestFails
  <2>3. CASE SessionExpires /\ ~job.fresh
    <3>1. 1 \in 1..MaxAttempts
      BY Sizes
    <3>. QED  BY <1>2, <2>3, <3>1 DEF SessionExpires
  <2>. QED  BY <2>1, <2>2, <2>3 DEF RequestFails, SessionExpires, PageRejected
<1>. QED  BY <1>1, <1>3 DEF JobTypeOK, ScanTypeOK, RequestFails, SessionExpires, PageRejected

(* A row of the page is visited.                                            *)
LEMMA VisitedType ==
    ASSUME ScanTypeOK, job.todo # <<>>, NEW caughtUp \in BOOLEAN, Visited(caughtUp)
    PROVE  trace' \in Traces
<1>1. Head(job.todo).row \in Rows
  <2>1. 1 \in DOMAIN job.todo /\ Head(job.todo) = job.todo[1]
    BY HandlerFields DEF ScanTypeOK
  <2>. QED  BY <2>1, TodoFields DEF ScanTypeOK
<1>2. PICK visited \in SUBSET Rows :
        visited = IF trace.shifted THEN {} ELSE trace.visited \cup {Head(job.todo).row}
  BY <1>1, TraceFields DEF ScanTypeOK
<1>3. trace' = [trace EXCEPT !.caughtUp = caughtUp, !.visited = visited]
  BY <1>2, Zenon DEF Visited
<1>. QED  BY <1>3 DEF ScanTypeOK, Traces

(* A row is taken from the page.                                            *)
LEMMA TakeType ==
    ASSUME ScanTypeOK, HasRow, NEW streak \in 0..2 * PageSize, Take(streak)
    PROVE  job' \in Handlers
<1>1. PICK budget : budget = IF job.kind = "scan" THEN job.budget - 1 ELSE job.budget
  OBVIOUS
<1>2. budget \in 0..MaxPages * PageSize
  BY <1>1, Sizes, HandlerFields DEF ScanTypeOK, HasRow
<1>3. job' = [job EXCEPT !.todo = Tail(@), !.streak = streak, !.budget = budget]
  BY <1>1, Zenon DEF Take
<1>. QED  BY <1>2, <1>3, TakeIsHandler DEF ScanTypeOK, HasRow

(* The row that is next.                                                    *)
LEMMA HeadFields ==
    ASSUME ScanTypeOK, HasRow
    PROVE  Head(job.todo).row \in Rows /\ Head(job.todo).payload \in Payloads
<1>1. 1 \in DOMAIN job.todo /\ Head(job.todo) = job.todo[1]
  BY HandlerFields DEF ScanTypeOK, HasRow
<1>. QED  BY <1>1, TodoFields DEF ScanTypeOK

(* A row is synced: the budget is looked at before it is taken from.        *)
LEMMA RowType ==
    ScanTypeOK /\ (RowUnchanged \/ RowChanged \/ RowFails) => JobTypeOK'
<1>. SUFFICES ASSUME ScanTypeOK, RowUnchanged \/ RowChanged \/ RowFails PROVE JobTypeOK'
  OBVIOUS
<1>1. HasRow /\ job.todo # <<>>
  BY DEF RowUnchanged, RowChanged, RowFails, HasRow
<1>2. job.streak \in 0..2 * PageSize
  BY HandlerFields DEF ScanTypeOK
<1>3. db' \in [Rows -> Payloads \cup {None}]
  BY <1>1, HeadFields DEF ScanTypeOK, RowUnchanged, RowChanged, RowFails
<1>4. faults' \in 0..MaxFaults
  BY FailsType DEF ScanTypeOK, RowUnchanged, RowChanged, RowFails
<1>5. trace' \in Traces
  <2>1. PICK c \in BOOLEAN : Visited(c)
    BY DEF RowUnchanged, RowChanged, RowFails
  <2>. QED  BY <1>1, <2>1, VisitedType
<1>6. job' \in Handlers
  <2>1. CASE RowUnchanged
    <3>1. CASE job.kind = "scan" /\ job.streak + 1 >= 2 * PageSize
      BY <2>1, <3>1, DoneIsHandler DEF ScanTypeOK, RowUnchanged, Done
    <3>2. CASE ~(job.kind = "scan" /\ job.streak + 1 >= 2 * PageSize)
      <4>1. PICK s : s = IF job.kind = "scan" THEN job.streak + 1 ELSE 0
        OBVIOUS
      <4>2. s \in 0..2 * PageSize
        BY <1>2, <3>2, <4>1, Sizes
      <4>3. Take(s)
        BY <2>1, <3>2, <4>1, Zenon DEF RowUnchanged
      <4>. QED  BY <1>1, <4>2, <4>3, TakeType
    <3>. QED  BY <3>1, <3>2
  <2>2. CASE RowChanged
    <3>1. 0 \in 0..2 * PageSize
      BY Sizes
    <3>. QED  BY <1>1, <2>2, <3>1, TakeType DEF RowChanged
  <2>3. CASE RowFails
    BY <1>1, <1>2, <2>3, TakeType DEF RowFails
  <2>. QED  BY <2>1, <2>2, <2>3
<1>. QED  BY <1>3, <1>4, <1>5, <1>6 DEF JobTypeOK

(* A recheck syncs its warrant.                                             *)
LEMMA MatchType ==
    ASSUME ScanTypeOK, NEW i \in DOMAIN job.todo, Match(i)
    PROVE  JobTypeOK'
<1>1. job.target \in Rows /\ job.todo[i].payload \in Payloads
  BY TodoFields DEF ScanTypeOK, Match
<1>2. db' \in [Rows -> Payloads \cup {None}]
  BY <1>1 DEF ScanTypeOK, Match
<1>3. faults' \in 0..MaxFaults
  BY FailsType DEF ScanTypeOK, Match
<1>4. job' \in Handlers
  BY DoneIsHandler DEF ScanTypeOK, Match, Done
<1>5. trace' \in Traces
  BY <1>1 DEF ScanTypeOK, Match, Traces
<1>. QED  BY <1>2, <1>3, <1>4, <1>5 DEF JobTypeOK

(* A page is done, or the budget.                                           *)
LEMMA PageEndType == ScanTypeOK /\ (BudgetSpent \/ NextPage) => JobTypeOK'
<1>. SUFFICES ASSUME ScanTypeOK, BudgetSpent \/ NextPage PROVE JobTypeOK'
  OBVIOUS
<1>1. job' \in Handlers
  <2>1. CASE Done
    BY <2>1, DoneIsHandler DEF ScanTypeOK, Done
  <2>2. CASE job' = [job EXCEPT !.pc = "fetch", !.page = @ + 1, !.todo = <<>>]
    <3>1. job.page + 1 \in Nat /\ <<>> \in Seq(Found)
      BY HandlerFields DEF ScanTypeOK
    <3>. QED  BY <2>2, <3>1 DEF ScanTypeOK, Handlers
  <2>. QED  BY <2>1, <2>2 DEF BudgetSpent, NextPage
<1>2. trace' \in Traces
  BY DEF ScanTypeOK, BudgetSpent, NextPage, Traces
<1>. QED  BY <1>1, <1>2 DEF JobTypeOK, ScanTypeOK, BudgetSpent, NextPage

(* The portal lists one more row.                                           *)
LEMMA PortalType ==
    ASSUME ScanTypeOK, NEW r \in Rows, NEW i \in 0..Len(listing), PortalInserts(r, i)
    PROVE  ScanTypeOK'
<1>1. listing' \in Seq(Rows) /\ \A k, l \in DOMAIN listing' : listing'[k] = listing'[l] => k = l
  <2>1. PICK s \in Seq(Rows) : s = listing
    BY DEF ScanTypeOK
  <2>2. i \in 0..Len(s) /\ (\A k, l \in DOMAIN s : s[k] = s[l] => k = l) /\ \A k \in DOMAIN s : s[k] # r
    BY <2>1, Zenon DEF ScanTypeOK, PortalInserts
  <2>3. PICK t : t = SubSeq(s, 1, i) \o <<r>> \o SubSeq(s, i + 1, Len(s))
    OBVIOUS
  <2>4. t \in Seq(Rows) /\ \A k, l \in DOMAIN t : t[k] = t[l] => k = l
    <3>1. LET u == SubSeq(s, 1, i) \o <<r>> \o SubSeq(s, i + 1, Len(s))
          IN  u \in Seq(Rows) /\ \A k, l \in DOMAIN u : u[k] = u[l] => k = l
      BY <2>2, InsertKeepsDistinct
    <3>. QED  BY <2>3, <3>1
  <2>5. listing' = t
    BY <2>1, <2>3, Zenon DEF PortalInserts
  <2>. QED  BY <2>4, <2>5
<1>2. trace' \in Traces
  BY DEF ScanTypeOK, PortalInserts, Traces
<1>. QED  BY <1>1, <1>2 DEF ScanTypeOK, PortalInserts

(* Every step keeps the types.                                              *)
LEMMA ScanTypeStep == ScanTypeOK /\ [ScanNext]_scanVars => ScanTypeOK'
<1>. SUFFICES ASSUME ScanTypeOK, [ScanNext]_scanVars PROVE ScanTypeOK'
  OBVIOUS
<1>1. ASSUME JobTypeOK', UNCHANGED portalVars
      PROVE  ScanTypeOK'
  BY <1>1 DEF JobTypeOK, ScanTypeOK, portalVars
<1>2. ASSUME NEW k \in Kinds, NEW t \in Rows \cup {None}, Start(k, t)
      PROVE  ScanTypeOK'
  <2>1. job' \in Handlers /\ trace' \in Traces
    BY <1>2, StartedIsHandler DEF Start, NoTrace, Traces
  <2>. QED  BY <1>1, <1>2, <2>1 DEF ScanTypeOK, JobTypeOK, Start
<1>3. CASE FetchPage
  BY <1>1, <1>3, FetchType DEF FetchPage
<1>4. CASE RequestFails \/ SessionExpires \/ PageRejected
  BY <1>1, <1>4, RequestType DEF RequestFails, SessionExpires, PageRejected
<1>5. CASE RowUnchanged \/ RowChanged \/ RowFails
  BY <1>1, <1>5, RowType DEF RowUnchanged, RowChanged, RowFails
<1>6. ASSUME NEW i \in DOMAIN job.todo, Match(i)
      PROVE  ScanTypeOK'
  BY <1>1, <1>6, MatchType DEF Match
<1>7. CASE BudgetSpent \/ NextPage
  BY <1>1, <1>7, PageEndType DEF BudgetSpent, NextPage
<1>8. ASSUME NEW r \in Rows, NEW i \in 0..Len(listing), PortalInserts(r, i)
      PROVE  ScanTypeOK'
  BY <1>8, PortalType
<1>9. ASSUME NEW r \in Rows, NEW p \in Payloads, PortalChanges(r, p)
      PROVE  ScanTypeOK'
  BY <1>9, ScanAssumption DEF ScanTypeOK, PortalChanges
<1>10. CASE UNCHANGED scanVars
  BY <1>10 DEF ScanTypeOK, scanVars, portalVars
<1>. QED  BY <1>2, <1>3, <1>4, <1>5, <1>6, <1>7, <1>8, <1>9, <1>10 DEF ScanNext, Step, Fault

(* Type correctness of the scanning handlers, for any city, page size and   *)
(* window: in particular a scan's budget never falls below zero, and no row *)
(* is listed twice (scan-city.ts:49-53, client/http.ts:63).                 *)
THEOREM ScanTypeCorrect == ScanSpec => []ScanTypeOK
BY ScanTypeInit, ScanTypeStep, PTL DEF ScanSpec

-----------------------------------------------------------------------------
(* ScanCity: the requests and the pages of a job.                           *)

(* While a page is asked for, its requests are the attempts of the present  *)
(* session before this one and, after a refresh, at most those of another.  *)
AttemptsCount ==
    /\ job.pc = "fetch" =>
        trace.requests <= (job.attempt - 1) + (IF job.fresh THEN MaxAttempts ELSE 0)
    /\ job.pc = "rows" => job.attempt = 1 /\ ~job.fresh
    /\ trace.requests <= 2 * MaxAttempts

(* What a scan has left of its budget makes up, with the pages it has read, *)
(* its MaxPages pages: only the last page may be short.                     *)
BudgetLeft ==
    job.kind = "scan" =>
        /\ job.page <= MaxPages
        /\ job.pc = "fetch" => job.budget + job.page * PageSize = MaxPages * PageSize
        /\ job.pc = "rows" /\ ~job.last =>
              job.budget + (job.page + 1) * PageSize - Len(job.todo) = MaxPages * PageSize

WindowKept == job.kind # "scan" => job.page < RetroEnd

WorkInv == ScanTypeOK /\ AttemptsCount /\ BudgetLeft /\ WindowKept

(* A page counts for PageSize rows.                                         *)
LEMMA Cancels ==
    ASSUME NEW p \in Nat, NEW m \in Nat, NEW s \in Nat \ {0}, p * s <= m * s
    PROVE  p <= m
<1>1. CASE p >= m + 1
  <2>1. p * s >= (m + 1) * s
    BY <1>1
  <2>2. (m + 1) * s = m * s + s /\ p * s \in Nat /\ m * s \in Nat
    OBVIOUS
  <2>. QED  BY <2>1, <2>2
<1>. QED  BY <1>1

(* How the steps of a job change what the work is counted by.               *)
LEMMA ScanFrame ==
    ASSUME ScanTypeOK, [ScanNext]_scanVars
    PROVE  \/ \E k \in Kinds, t \in Rows \cup {None} : Start(k, t)
           \/ FetchPage
           \/ RequestFails \/ SessionExpires \/ PageRejected
           \/ RowUnchanged \/ RowChanged \/ RowFails
           \/ Done /\ UNCHANGED trace.requests
           \/ NextPage
           \/ UNCHANGED <<job, trace.requests>>
<1>1. ASSUME NEW r \in Rows, NEW i \in 0..Len(listing), PortalInserts(r, i)
      PROVE  UNCHANGED <<job, trace.requests>>
  BY <1>1 DEF PortalInserts, ScanTypeOK, Traces
<1>2. ASSUME NEW i \in DOMAIN job.todo, Match(i)
      PROVE  Done /\ UNCHANGED trace.requests
  BY <1>2 DEF Match, ScanTypeOK, Traces
<1>3. ASSUME NEW r \in Rows, NEW p \in Payloads, PortalChanges(r, p)
      PROVE  UNCHANGED <<job, trace.requests>>
  BY <1>3 DEF PortalChanges
<1>4. ASSUME BudgetSpent
      PROVE  Done /\ UNCHANGED trace.requests
  BY <1>4 DEF BudgetSpent
<1>. QED  BY <1>1, <1>2, <1>3, <1>4 DEF ScanNext, Step, Fault, scanVars

(* A row is taken: the attempts and the page stay.                          *)
LEMMA RowKeeps ==
    ASSUME ScanTypeOK, RowUnchanged \/ RowChanged \/ RowFails
    PROVE  /\ HasRow /\ job.pc = "rows"
           /\ Done \/ (\E s \in Nat : Take(s))
           /\ trace'.requests = trace.requests /\ trace'.shifted = trace.shifted
<1>1. HasRow /\ job.pc = "rows"
  BY DEF RowUnchanged, RowChanged, RowFails, HasRow
<1>2. job.streak \in Nat
  BY HandlerFields, Sizes DEF ScanTypeOK
<1>3. Done \/ (\E s \in Nat : Take(s))
  <2>1. (IF job.kind = "scan" THEN job.streak + 1 ELSE 0) \in Nat
    BY <1>2
  <2>. QED  BY <1>2, <2>1 DEF RowUnchanged, RowChanged, RowFails
<1>4. trace'.requests = trace.requests /\ trace'.shifted = trace.shifted
  <2>1. PICK c : Visited(c)
    BY DEF RowUnchanged, RowChanged, RowFails
  <2>. QED  BY <2>1 DEF Visited, ScanTypeOK, Traces
<1>. QED  BY <1>1, <1>3, <1>4

(* What a step leaves of the job: when it takes a row,                      *)
LEMMA TakeFields ==
    ASSUME ScanTypeOK, NEW s \in Nat, Take(s), job.todo # <<>>
    PROVE  /\ job'.pc = job.pc /\ job'.attempt = job.attempt /\ job'.fresh = job.fresh
           /\ job'.kind = job.kind /\ job'.page = job.page /\ job'.last = job.last
           /\ job'.target = job.target
           /\ job'.todo = Tail(job.todo) /\ Len(job'.todo) = Len(job.todo) - 1
           /\ job'.budget = IF job.kind = "scan" THEN job.budget - 1 ELSE job.budget
<1>1. /\ job'.pc = job.pc /\ job'.attempt = job.attempt /\ job'.fresh = job.fresh
      /\ job'.kind = job.kind /\ job'.page = job.page /\ job'.last = job.last
      /\ job'.target = job.target
      /\ job'.todo = Tail(job.todo)
      /\ job'.budget = IF job.kind = "scan" THEN job.budget - 1 ELSE job.budget
  BY DEF Take, ScanTypeOK, Handlers
<1>2. Len(Tail(job.todo)) = Len(job.todo) - 1
  BY HandlerFields DEF ScanTypeOK
<1>. QED  BY <1>1, <1>2

(* when the job ends,                                                       *)
LEMMA DoneFields ==
    ASSUME ScanTypeOK, Done
    PROVE  /\ job'.pc = "done" /\ job'.kind = job.kind /\ job'.page = job.page
           /\ job'.target = job.target
BY DEF Done, ScanTypeOK, Handlers

(* when it goes on to the next page,                                        *)
LEMMA NextPageFields ==
    ASSUME ScanTypeOK, NextPage
    PROVE  /\ job.pc = "rows" /\ trace'.requests = 0
           /\ job'.kind = job.kind /\ job'.attempt = job.attempt /\ job'.fresh = job.fresh
           /\ job'.target = job.target
           /\ trace'.shifted = trace.shifted /\ trace'.visited = trace.visited
           /\ \/ job'.pc = "done" /\ job'.page = job.page
              \/ /\ ~job.last /\ (job.kind = "scan" \/ job.page + 1 < RetroEnd)
                 /\ job'.pc = "fetch" /\ job'.page = job.page + 1
                 /\ job'.budget = job.budget
<1>1. trace'.requests = 0 /\ trace'.shifted = trace.shifted /\ trace'.visited = trace.visited
  BY DEF NextPage, ScanTypeOK, Traces
<1>2. job.pc = "rows"
  BY DEF NextPage, PageDone
<1>3. job.page \in Nat /\ RetroEnd \in Nat
  BY HandlerFields, Sizes DEF ScanTypeOK
<1>4. CASE Done
  BY <1>1, <1>2, <1>4 DEF Done, ScanTypeOK, Handlers
<1>5. CASE ~(job.last \/ (job.kind # "scan" /\ job.page + 1 >= RetroEnd))
  <2>1. job' = [job EXCEPT !.pc = "fetch", !.page = @ + 1, !.todo = <<>>]
    BY <1>5, Zenon DEF NextPage
  <2>2. ~job.last /\ (job.kind = "scan" \/ job.page + 1 < RetroEnd)
    BY <1>3, <1>5
  <2>. QED  BY <1>1, <1>2, <2>1, <2>2 DEF ScanTypeOK, Handlers
<1>. QED  BY <1>4, <1>5, Zenon DEF NextPage

(* and when it has fetched one: a full page, unless it is the last.         *)
LEMMA FetchFields ==
    ASSUME ScanTypeOK, FetchPage
    PROVE  /\ job.pc = "fetch" /\ job'.pc = "rows" /\ job'.attempt = 1 /\ job'.fresh = FALSE
           /\ job'.kind = job.kind /\ job'.page = job.page /\ job'.budget = job.budget
           /\ job'.target = job.target
           /\ trace'.requests = trace.requests + 1
           /\ trace'.shifted = trace.shifted /\ trace'.visited = trace.visited
           /\ job'.last <=> job.page * PageSize + PageSize >= Len(listing)
           /\ Len(job'.todo) = IF job.page * PageSize + PageSize < Len(listing) THEN PageSize
                               ELSE IF job.page * PageSize < Len(listing)
                                    THEN Len(listing) - job.page * PageSize ELSE 0
           /\ \A i \in DOMAIN job'.todo : /\ job.page * PageSize + i \in DOMAIN listing
                                          /\ job'.todo[i].row = listing[job.page * PageSize + i]
<1>1. PICK from : from = job.page * PageSize
  OBVIOUS
<1>2. PICK end : end = IF from + PageSize < Len(listing) THEN from + PageSize ELSE Len(listing)
  OBVIOUS
<1>3. PICK rows : rows = SubSeq(listing, from + 1, end)
  OBVIOUS
<1>4. /\ listing \in Seq(Rows) /\ Len(listing) \in Nat
      /\ from \in Nat /\ PageSize \in Nat \ {0}
  BY Sizes, HandlerFields, <1>1 DEF ScanTypeOK
<1>5. /\ rows \in Seq(Rows)
      /\ Len(rows) = IF from < end THEN end - from ELSE 0
      /\ \A i \in DOMAIN rows : from + i \in DOMAIN listing /\ rows[i] = listing[from + i]
  BY <1>2, <1>3, <1>4, PageOfListing
<1>6. PICK todo : todo = [i \in DOMAIN rows |-> [row |-> rows[i], payload |-> payload[rows[i]]]]
  OBVIOUS
<1>7. todo \in Seq(Found) /\ DOMAIN todo = DOMAIN rows
  <2>1. \A i \in DOMAIN rows : [row |-> rows[i], payload |-> payload[rows[i]]] \in Found
    BY <1>5 DEF ScanTypeOK, Found
  <2>. QED  BY <1>5, <1>6, <2>1
<1>8. Len(todo) = Len(rows)
  BY <1>5, <1>7
<1>9. \A i \in DOMAIN todo : from + i \in DOMAIN listing /\ todo[i].row = listing[from + i]
  BY <1>5, <1>6, <1>7
<1>10. Len(todo) = IF from + PageSize < Len(listing) THEN PageSize
                   ELSE IF from < Len(listing) THEN Len(listing) - from ELSE 0
  BY <1>2, <1>4, <1>5, <1>8
<1>11. PICK last : last = (from + PageSize >= Len(listing))
  OBVIOUS
<1>12. job' = [job EXCEPT !.pc = "rows", !.last = last, !.todo = todo, !.attempt = 1, !.fresh = FALSE]
  BY <1>1, <1>2, <1>3, <1>6, <1>11, Zenon DEF FetchPage
<1>13. /\ job'.pc = "rows" /\ job'.attempt = 1 /\ job'.fresh = FALSE
       /\ job'.kind = job.kind /\ job'.page = job.page /\ job'.budget = job.budget
       /\ job'.target = job.target /\ job'.last = last /\ job'.todo = todo
  BY <1>12 DEF ScanTypeOK, Handlers
<1>14. /\ trace'.requests = trace.requests + 1
       /\ trace'.shifted = trace.shifted /\ trace'.visited = trace.visited
  BY DEF FetchPage, ScanTypeOK, Traces
<1>15. job.pc = "fetch"
  BY DEF FetchPage
<1>16. job'.last <=> from + PageSize >= Len(listing)
  BY <1>11, <1>13
<1>. QED  BY <1>1, <1>9, <1>10, <1>13, <1>14, <1>15, <1>16, Zenon

(* A page costs at most the attempts of two sessions.                       *)
LEMMA AttemptsStep ==
    ASSUME ScanTypeOK, AttemptsCount, [ScanNext]_scanVars
    PROVE  AttemptsCount'
<1>. USE Sizes
<1>1. /\ trace.requests \in Nat /\ job.attempt \in 1..MaxAttempts /\ job.fresh \in BOOLEAN
      /\ MaxAttempts \in Nat
  BY HandlerFields, TraceFields DEF ScanTypeOK
<1>2. ASSUME NEW k \in Kinds, NEW t \in Rows \cup {None}, Start(k, t)
      PROVE  AttemptsCount'
  BY <1>1, <1>2 DEF AttemptsCount, Start, Started, NoTrace
<1>3. CASE FetchPage
  <2>1. /\ job.pc = "fetch" /\ job'.pc = "rows" /\ job'.attempt = 1 /\ job'.fresh = FALSE
        /\ trace'.requests = trace.requests + 1
    BY <1>3, FetchFields
  <2>2. trace.requests + 1 <= 2 * MaxAttempts
    BY <1>1, <2>1 DEF AttemptsCount
  <2>. QED  BY <2>1, <2>2 DEF AttemptsCount
<1>4. CASE RequestFails \/ SessionExpires \/ PageRejected
  <2>1. CASE Throws
    <3>1. job'.pc = "done" /\ trace'.requests = trace.requests
      BY <2>1 DEF Throws, Done, ScanTypeOK, Handlers, Traces
    <3>. QED  BY <3>1 DEF AttemptsCount
  <2>2. ASSUME NEW a \in 1..MaxAttempts, NEW f \in BOOLEAN, Retries(a, f), job.pc = "fetch"
        PROVE  /\ job'.pc = "fetch" /\ job'.attempt = a /\ job'.fresh = f
               /\ trace'.requests = trace.requests + 1
    BY <2>2 DEF Retries, ScanTypeOK, Handlers, Traces
  <2>3. CASE RequestFails /\ job.attempt < MaxAttempts
    <3>1. job.attempt + 1 \in 1..MaxAttempts
      BY <1>1, <2>3
    <3>2. /\ job'.pc = "fetch" /\ job'.attempt = job.attempt + 1 /\ job'.fresh = job.fresh
          /\ trace'.requests = trace.requests + 1
      BY <1>1, <2>2, <2>3, <3>1 DEF RequestFails
    <3>. QED  BY <1>1, <2>3, <3>2 DEF AttemptsCount, RequestFails
  <2>4. CASE SessionExpires /\ ~job.fresh
    <3>1. 1 \in 1..MaxAttempts
      OBVIOUS
    <3>2. /\ job'.pc = "fetch" /\ job'.attempt = 1 /\ job'.fresh = TRUE
          /\ trace'.requests = trace.requests + 1
      BY <2>2, <2>4, <3>1 DEF SessionExpires
    <3>. QED  BY <1>1, <2>4, <3>2 DEF AttemptsCount, SessionExpires
  <2>. QED  BY <1>4, <2>1, <2>3, <2>4 DEF RequestFails, SessionExpires, PageRejected
<1>5. CASE RowUnchanged \/ RowChanged \/ RowFails
  <2>1. CASE Done
    BY <1>5, <2>1, RowKeeps, DoneFields DEF AttemptsCount
  <2>2. ASSUME NEW s \in Nat, Take(s)
        PROVE  AttemptsCount'
    BY <1>5, <2>2, RowKeeps, TakeFields DEF AttemptsCount, HasRow
  <2>. QED  BY <1>5, <2>1, <2>2, RowKeeps
<1>6. CASE Done /\ UNCHANGED trace.requests
  BY <1>6, DoneFields DEF AttemptsCount
<1>7. CASE NextPage
  BY <1>1, <1>7, NextPageFields DEF AttemptsCount
<1>8. CASE UNCHANGED <<job, trace.requests>>
  BY <1>8 DEF AttemptsCount
<1>. QED  BY <1>2, <1>3, <1>4, <1>5, <1>6, <1>7, <1>8, ScanFrame

(* A page that is not the last costs PageSize of the budget.                *)
LEMMA BudgetStep ==
    ASSUME ScanTypeOK, BudgetLeft, [ScanNext]_scanVars
    PROVE  BudgetLeft'
<1>1. PICK m \in Nat : m = MaxPages * PageSize
  BY Sizes
<1>2. PICK p \in Nat : p = job.page * PageSize
  BY Sizes, HandlerFields DEF ScanTypeOK
<1>3. /\ (job.page + 1) * PageSize = p + PageSize
      /\ job.page \in Nat /\ PageSize \in Nat \ {0} /\ MaxPages \in Nat /\ job.budget \in 0..m
      /\ Len(job.todo) \in Nat
  BY <1>1, <1>2, Sizes, HandlerFields DEF ScanTypeOK
<1>4. job.kind = "scan" =>
        /\ job.page <= MaxPages
        /\ job.pc = "fetch" => job.budget + p = m
        /\ job.pc = "rows" /\ ~job.last => job.budget + (p + PageSize) - Len(job.todo) = m
  BY <1>1, <1>2, <1>3, Zenon DEF BudgetLeft
(* The page of the job is the same after the step.                          *)
<1>5. ASSUME job'.page = job.page, job'.kind = job.kind,
             job.kind = "scan" /\ job'.pc = "fetch" => job'.budget + p = m,
             job.kind = "scan" /\ job'.pc = "rows" /\ ~job'.last =>
                 job'.budget + (p + PageSize) - Len(job'.todo) = m
      PROVE  BudgetLeft'
  BY <1>1, <1>2, <1>3, <1>4, <1>5, Zenon DEF BudgetLeft
<1>6. ASSUME NEW k \in Kinds, NEW t \in Rows \cup {None}, Start(k, t)
      PROVE  BudgetLeft'
  <2>1. /\ job'.kind = k /\ job'.pc = "fetch" /\ job'.budget = MaxPages * PageSize
        /\ k = "scan" => job'.page = 0
    BY <1>6 DEF Start, Started
  <2>2. 0 * PageSize = 0
    BY Sizes
  <2>3. m + 0 = m
    OBVIOUS
  <2>4. 0 <= MaxPages
    BY Sizes
  <2>. QED  BY <1>1, <2>1, <2>2, <2>3, <2>4 DEF BudgetLeft
<1>7. CASE FetchPage
  <2>1. Len(listing) \in Nat
    BY DEF ScanTypeOK
  <2>2. ~job'.last => Len(job'.todo) = PageSize
    BY <1>2, <1>3, <1>7, <2>1, FetchFields
  <2>3. /\ job.pc = "fetch" /\ job'.pc = "rows" /\ job'.kind = job.kind
        /\ job'.page = job.page /\ job'.budget = job.budget
    BY <1>7, FetchFields
  <2>4. job.kind = "scan" /\ ~job'.last => job'.budget + (p + PageSize) - Len(job'.todo) = m
    <3>1. job.kind = "scan" => job.budget + p = m
      BY <1>4, <2>3
    <3>. QED  BY <1>2, <1>3, <2>2, <2>3, <3>1
  <2>. QED  BY <1>5, <2>3, <2>4
<1>8. CASE RequestFails \/ SessionExpires \/ PageRejected
  <2>1. CASE Throws
    BY <1>5, <2>1, DoneFields DEF Throws
  <2>2. ASSUME NEW a, NEW f, Retries(a, f), job.pc = "fetch"
        PROVE  BudgetLeft'
    <3>1. /\ job'.pc = "fetch" /\ job'.page = job.page /\ job'.kind = job.kind
          /\ job'.budget = job.budget
      BY <2>2 DEF Retries, ScanTypeOK, Handlers
    <3>. QED  BY <1>4, <1>5, <2>2, <3>1
  <2>. QED  BY <1>8, <2>1, <2>2 DEF RequestFails, SessionExpires, PageRejected
<1>9. CASE RowUnchanged \/ RowChanged \/ RowFails
  <2>1. CASE Done
    BY <1>5, <2>1, DoneFields
  <2>2. ASSUME NEW s \in Nat, Take(s)
        PROVE  BudgetLeft'
    <3>1. job.todo # <<>> /\ job.pc = "rows"
      BY <1>9, RowKeeps DEF HasRow
    <3>2. /\ job'.pc = "rows" /\ job'.kind = job.kind /\ job'.page = job.page
          /\ job'.last = job.last /\ Len(job'.todo) = Len(job.todo) - 1
          /\ job.kind = "scan" => job'.budget = job.budget - 1
      BY <2>2, <3>1, TakeFields
    <3>3. job.kind = "scan" /\ ~job'.last => job'.budget + (p + PageSize) - Len(job'.todo) = m
      <4>. SUFFICES ASSUME job.kind = "scan", ~job.last
                    PROVE  job'.budget + (p + PageSize) - Len(job'.todo) = m
        BY <3>2
      <4>1. job.budget + (p + PageSize) - Len(job.todo) = m
        BY <1>4, <3>1
      <4>2. job'.budget = job.budget - 1 /\ Len(job'.todo) = Len(job.todo) - 1
        BY <3>2
      <4>3. job.budget \in Int /\ Len(job.todo) \in Int /\ p + PageSize \in Int
        BY <1>2, <1>3
      <4>4. (job.budget - 1) + (p + PageSize) - (Len(job.todo) - 1)
              = job.budget + (p + PageSize) - Len(job.todo)
        BY <4>3
      <4>. QED  BY <4>1, <4>2, <4>4, Zenon
    <3>. QED  BY <1>5, <3>2, <3>3
  <2>. QED  BY <1>9, <2>1, <2>2, RowKeeps
<1>10. CASE Done /\ UNCHANGED trace.requests
  BY <1>5, <1>10, DoneFields
<1>11. CASE NextPage
  <2>1. CASE job'.pc = "done" /\ job'.page = job.page
    BY <1>5, <1>11, <2>1, NextPageFields
  <2>2. CASE ~job.last /\ job'.pc = "fetch" /\ job'.page = job.page + 1 /\ job'.budget = job.budget
    <3>1. CASE job.kind = "scan"
      <4>1. Len(job.todo) = 0
        BY <1>11, <3>1 DEF NextPage, PageDone
      <4>2. job.budget + (p + PageSize) = m
        BY <1>3, <1>4, <1>11, <2>2, <3>1, <4>1, NextPageFields
      <4>3. job'.budget + job'.page * PageSize = MaxPages * PageSize
        BY <1>1, <1>3, <2>2, <4>2
      <4>4. (job.page + 1) * PageSize <= MaxPages * PageSize
        BY <1>1, <1>3, <4>2
      <4>5. job.page + 1 <= MaxPages
        <5>1. PICK q \in Nat : q = job.page + 1
          BY <1>3
        <5>2. q * PageSize <= MaxPages * PageSize
          BY <4>4, <5>1
        <5>3. q <= MaxPages
          BY <1>3, <5>2, Cancels, Zenon
        <5>. QED  BY <5>1, <5>3
      <4>. QED  BY <2>2, <4>3, <4>5 DEF BudgetLeft
    <3>2. CASE job.kind # "scan"
      BY <1>11, <3>2, NextPageFields DEF BudgetLeft
    <3>. QED  BY <3>1, <3>2
  <2>. QED  BY <1>11, <2>1, <2>2, NextPageFields
<1>12. CASE UNCHANGED <<job, trace.requests>>
  BY <1>12 DEF BudgetLeft
<1>. QED  BY <1>6, <1>7, <1>8, <1>9, <1>10, <1>11, <1>12, ScanFrame

(* The other jobs stop at the end of the window.                            *)
LEMMA WindowStep ==
    ASSUME ScanTypeOK, WindowKept, [ScanNext]_scanVars
    PROVE  WindowKept'
<1>1. ASSUME job'.page = job.page, job'.kind = job.kind
      PROVE  WindowKept'
  BY <1>1 DEF WindowKept
<1>2. ASSUME NEW k \in Kinds, NEW t \in Rows \cup {None}, Start(k, t)
      PROVE  WindowKept'
  BY <1>2, Sizes DEF WindowKept, Start, Started
<1>3. CASE FetchPage
  BY <1>1, <1>3, FetchFields
<1>4. CASE RequestFails \/ SessionExpires \/ PageRejected
  <2>1. CASE Throws
    BY <1>1, <2>1, DoneFields DEF Throws
  <2>2. ASSUME NEW a, NEW f, Retries(a, f)
        PROVE  WindowKept'
    BY <1>1, <2>2 DEF Retries, ScanTypeOK, Handlers
  <2>. QED  BY <1>4, <2>1, <2>2 DEF RequestFails, SessionExpires, PageRejected
<1>5. CASE RowUnchanged \/ RowChanged \/ RowFails
  <2>1. CASE Done
    BY <1>1, <2>1, DoneFields
  <2>2. ASSUME NEW s \in Nat, Take(s)
        PROVE  WindowKept'
    BY <1>1, <1>5, <2>2, RowKeeps, TakeFields DEF HasRow
  <2>. QED  BY <1>5, <2>1, <2>2, RowKeeps
<1>6. CASE Done /\ UNCHANGED trace.requests
  BY <1>1, <1>6, DoneFields
<1>7. CASE NextPage
  BY <1>1, <1>7, NextPageFields DEF WindowKept
<1>8. CASE UNCHANGED <<job, trace.requests>>
  BY <1>8 DEF WindowKept
<1>. QED  BY <1>2, <1>3, <1>4, <1>5, <1>6, <1>7, <1>8, ScanFrame

(* The first scan has its whole budget.                                     *)
LEMMA WorkInit == ScanInit => WorkInv
<1>. SUFFICES ASSUME ScanInit PROVE WorkInv
  OBVIOUS
<1>1. /\ job.kind = "scan" /\ job.pc = "fetch" /\ job.page = 0 /\ job.attempt = 1
      /\ job.fresh = FALSE /\ job.budget = MaxPages * PageSize /\ trace.requests = 0
  BY DEF ScanInit, Started, NoTrace
<1>2. AttemptsCount
  BY <1>1, Sizes DEF AttemptsCount
<1>3. BudgetLeft
  <2>1. 0 * PageSize = 0 /\ MaxPages * PageSize + 0 = MaxPages * PageSize /\ 0 <= MaxPages
    BY Sizes
  <2>. QED  BY <1>1, <2>1 DEF BudgetLeft
<1>4. WindowKept
  BY <1>1 DEF WindowKept
<1>. QED  BY <1>2, <1>3, <1>4, ScanTypeInit DEF WorkInv

(* Every step keeps the count of the work.                                  *)
LEMMA WorkStep == WorkInv /\ [ScanNext]_scanVars => WorkInv'
BY ScanTypeStep, AttemptsStep, BudgetStep, WindowStep DEF WorkInv

(* A budget that never falls below zero bounds the pages.                   *)
LEMMA WorkImplies == WorkInv => WorkBounded
<1>. SUFFICES ASSUME WorkInv PROVE WorkBounded
  OBVIOUS
<1>1. trace.requests <= 2 * MaxAttempts
  BY DEF WorkInv, AttemptsCount
<1>2. job.page \in Nat /\ MaxPages \in Nat
  BY HandlerFields, Sizes DEF WorkInv, ScanTypeOK
<1>3. CASE job.kind = "scan"
  <2>1. job.page < MaxPages + 1
    BY <1>2, <1>3 DEF WorkInv, BudgetLeft
  <2>. QED  BY <1>1, <1>3, <2>1 DEF WorkBounded
<1>4. CASE job.kind # "scan"
  <2>1. job.page < RetroEnd
    BY <1>4 DEF WorkInv, WindowKept
  <2>. QED  BY <1>1, <1>4, <2>1 DEF WorkBounded
<1>. QED  BY <1>3, <1>4

(* The bound on a job's work holds for every listing, page size, window and *)
(* number of attempts, however the listing shifts under the job and however *)
(* often rows and requests fail (scan-city.ts:49-52, client/http.ts:63,     *)
(* client/index.ts:86).                                                     *)
THEOREM ScanWorkIsBounded == ScanSpec => []WorkBounded
BY WorkInit, WorkStep, WorkImplies, PTL DEF ScanSpec

(* How many rows of the listing, in its order, lie behind the job.          *)
Passed ==
    CASE job.pc = "fetch" -> job.page * PageSize
      [] OTHER -> (IF job.last THEN Len(listing) ELSE (job.page + 1) * PageSize)
                  - Len(job.todo)

FirstPosition == IF job.kind = "retro" THEN RetroStart * PageSize + 1 ELSE 1

(* A row that lies behind the job was visited or, in a recheck, is not the  *)
(* one it looks for.                                                        *)
PassedAreMet ==
    \A i \in DOMAIN listing : i \in FirstPosition..Passed =>
        IF job.kind = "recheck" THEN listing[i] # job.target
                                ELSE listing[i] \in trace.visited

(* The rows still to do are the next ones of the listing, and the page they *)
(* are from is the last one when it reaches the end of the listing.         *)
TodoIsNext ==
    /\ Passed \in Nat
    /\ \A k \in DOMAIN job.todo :
        Passed + k \in DOMAIN listing /\ job.todo[k].row = listing[Passed + k]
    /\ job.last <=> (job.page + 1) * PageSize >= Len(listing)

(* Before the last page's end, a scan's budget is what its window has left. *)
BudgetIsAhead ==
    job.kind = "scan" /\ job.todo # <<>> => Passed + job.budget = MaxPages * PageSize

(* CleanRunCovers, with what holds of a job that is still running.          *)
CoverInv ==
    /\ WorkInv
    /\ job.pc # "done" /\ ~trace.shifted => PassedAreMet
    /\ job.pc = "rows" /\ ~trace.shifted => TodoIsNext /\ BudgetIsAhead
    /\ CleanRunCovers

-----------------------------------------------------------------------------
(* ScanCity: a clean run covers its window.                                 *)

(* Where the rows that the job has fetched end in the listing.              *)
PageEnd == IF job.last THEN Len(listing) ELSE (job.page + 1) * PageSize

(* The numbers of a job, as the arithmetic below needs them.                *)
LEMMA ScanNumbers ==
    ASSUME ScanTypeOK
    PROVE  /\ job.page \in Nat /\ job.page * PageSize \in Nat
           /\ (job.page + 1) * PageSize = job.page * PageSize + PageSize
           /\ (job.page + 1) * PageSize \in Nat
           /\ PageSize \in Nat \ {0} /\ MaxPages * PageSize \in Nat
           /\ RetroStart * PageSize \in Nat /\ RetroEnd * PageSize \in Nat
           /\ FirstPosition \in Nat \ {0}
           /\ Len(listing) \in Nat /\ DOMAIN listing = 1..Len(listing)
           /\ Len(job.todo) \in Nat /\ DOMAIN job.todo = 1..Len(job.todo)
           /\ job.budget \in Nat
           /\ job.last \in BOOLEAN
<1>1. job.page \in Nat /\ PageSize \in Nat \ {0} /\ RetroStart \in Nat /\ RetroEnd \in Nat
  BY Sizes, HandlerFields DEF ScanTypeOK
<1>2. job.page * PageSize \in Nat /\ RetroStart * PageSize \in Nat /\ RetroEnd * PageSize \in Nat
  BY <1>1
<1>3. (job.page + 1) * PageSize = job.page * PageSize + PageSize
  BY <1>1
<1>4. (job.page + 1) * PageSize \in Nat
  BY <1>1
<1>5. FirstPosition \in Nat \ {0}
  BY <1>2 DEF FirstPosition
<1>6. /\ Len(listing) \in Nat /\ DOMAIN listing = 1..Len(listing)
      /\ Len(job.todo) \in Nat /\ DOMAIN job.todo = 1..Len(job.todo)
  BY HandlerFields DEF ScanTypeOK
<1>7. MaxPages * PageSize \in Nat /\ job.budget \in Nat /\ job.last \in BOOLEAN
  BY Sizes, HandlerFields DEF ScanTypeOK
<1>. QED  BY <1>1, <1>2, <1>3, <1>4, <1>5, <1>6, <1>7

(* More pages are more rows.                                                *)
LEMMA ProductGrows ==
    ASSUME NEW a \in Nat, NEW b \in Nat, NEW s \in Nat, a >= b
    PROVE  b * s <= a * s
<1>1. PICK d \in Nat : a = b + d
  <2>1. a - b \in Nat /\ a = b + (a - b)
    OBVIOUS
  <2>. QED  BY <2>1
<1>2. a * s = b * s + d * s /\ b * s \in Nat /\ d * s \in Nat
  BY <1>1
<1>. QED  BY <1>2

(* At the end of a page every row of it has been met, too.                  *)
LEMMA PageEndIsMet ==
    ASSUME ScanTypeOK, PassedAreMet, TodoIsNext, PageDone,
           NEW i \in DOMAIN listing, i >= FirstPosition, i <= PageEnd
    PROVE  IF job.kind = "recheck" THEN listing[i] # job.target
                                   ELSE listing[i] \in trace.visited
<1>1. i \in Nat /\ FirstPosition \in Nat /\ Len(job.todo) \in Nat /\ DOMAIN job.todo = 1..Len(job.todo)
  BY ScanNumbers
<1>2. Passed \in Nat
  BY DEF TodoIsNext
<1>3. Passed = PageEnd - Len(job.todo)
  BY DEF Passed, PageEnd, PageDone
<1>4. PageEnd \in Nat
  BY ScanNumbers DEF PageEnd
<1>5. CASE i <= Passed
  <2>1. i \in FirstPosition..Passed
    BY <1>1, <1>2, <1>5
  <2>. QED  BY <2>1 DEF PassedAreMet
<1>6. CASE i > Passed
  <2>1. PICK k \in 1..Len(job.todo) : i = Passed + k
    <3>1. i - Passed \in 1..Len(job.todo) /\ i = Passed + (i - Passed)
      BY <1>1, <1>2, <1>3, <1>4, <1>6
    <3>. QED  BY <3>1
  <2>2. job.todo[k].row = listing[i]
    BY <1>1, <2>1 DEF TodoIsNext
  <2>3. CASE job.kind = "recheck"
    BY <1>1, <2>1, <2>2, <2>3 DEF PageDone
  <2>4. CASE job.kind # "recheck"
    <3>1. job.todo = <<>>
      BY <2>4 DEF PageDone
    <3>2. Len(job.todo) = 0
      BY <3>1
    <3>. QED  BY <2>1, <3>2
  <2>. QED  BY <2>3, <2>4
<1>. QED  BY <1>1, <1>2, <1>5, <1>6

(* What a step that leaves the listing and the job alone keeps.             *)
LEMMA CoverFrame ==
    ASSUME CoverInv, WorkInv', UNCHANGED <<listing, job>>,
           trace'.visited = trace.visited, trace'.shifted = trace.shifted,
           trace'.caughtUp = trace.caughtUp, trace'.threw = trace.threw
    PROVE  CoverInv'
<1>1. Passed' = Passed /\ FirstPosition' = FirstPosition /\ Window' = Window
  BY DEF Passed, FirstPosition, Window
<1>2. PassedAreMet' <=> PassedAreMet
  BY <1>1 DEF PassedAreMet
<1>3. (TodoIsNext' <=> TodoIsNext) /\ (BudgetIsAhead' <=> BudgetIsAhead)
  BY <1>1 DEF TodoIsNext, BudgetIsAhead
<1>4. CleanRunCovers' <=> CleanRunCovers
  BY <1>1 DEF CleanRunCovers
<1>. QED  BY <1>2, <1>3, <1>4 DEF CoverInv

(* A job that begins has nothing behind it.                                 *)
LEMMA CoverStart ==
    ASSUME ScanTypeOK, WorkInv', NEW k \in Kinds, NEW t, job' = Started(k, t)
    PROVE  CoverInv'
<1>1. /\ job'.pc = "fetch" /\ job'.kind = k
      /\ job'.page = IF k = "retro" THEN RetroStart ELSE 0
  BY DEF Started
<1>2. 0 * PageSize = 0 /\ RetroStart * PageSize \in Nat
  BY Sizes
<1>3. Passed' < FirstPosition' /\ Passed' \in Nat /\ FirstPosition' \in Nat
  BY <1>1, <1>2 DEF Passed, FirstPosition
<1>4. PassedAreMet'
  BY <1>3 DEF PassedAreMet
<1>. QED  BY <1>1, <1>4 DEF CoverInv, CleanRunCovers

(* A page is fetched: its rows follow those behind the job.                 *)
LEMMA CoverFetch ==
    ASSUME CoverInv, WorkInv', FetchPage
    PROVE  CoverInv'
<1>1. ScanTypeOK
  BY DEF CoverInv, WorkInv
<1>. SUFFICES ASSUME ~trace.shifted
              PROVE  PassedAreMet' /\ TodoIsNext' /\ BudgetIsAhead'
  BY <1>1, FetchFields DEF CoverInv, CleanRunCovers
<1>2. UNCHANGED listing
  BY DEF FetchPage, portalVars
<1>3. PICK p \in Nat : p = job.page * PageSize
  BY <1>1, ScanNumbers
<1>4. PICK n \in Nat : n = Len(listing)
  BY <1>1, ScanNumbers
<1>5. /\ job.pc = "fetch" /\ job'.pc = "rows" /\ job'.kind = job.kind /\ job'.page = job.page
      /\ job'.budget = job.budget /\ job'.target = job.target
      /\ trace'.visited = trace.visited
  BY <1>1, FetchFields
<1>6. /\ job'.last <=> p + PageSize >= n
      /\ Len(job'.todo) = IF p + PageSize < n THEN PageSize ELSE IF p < n THEN n - p ELSE 0
      /\ \A i \in DOMAIN job'.todo : p + i \in DOMAIN listing /\ job'.todo[i].row = listing[p + i]
  BY <1>1, <1>3, <1>4, FetchFields
<1>7. (job'.page + 1) * PageSize = p + PageSize /\ PageSize \in Nat \ {0}
  BY <1>1, <1>3, <1>5, ScanNumbers
<1>8. Passed' = (IF job'.last THEN n ELSE p + PageSize) - Len(job'.todo)
  BY <1>2, <1>4, <1>5, <1>7 DEF Passed
<1>9. Passed' = IF p < n THEN p ELSE n
  BY <1>6, <1>7, <1>8
<1>10. Passed = p /\ FirstPosition' = FirstPosition
  BY <1>3, <1>5 DEF Passed, FirstPosition
<1>11. FirstPosition \in Nat /\ DOMAIN listing = 1..Len(listing)
  BY <1>1, ScanNumbers
<1>12. PassedAreMet'
  <2>1. PassedAreMet
    BY <1>5 DEF CoverInv
  <2>2. \A i \in DOMAIN listing : i \in FirstPosition..Passed' => i \in FirstPosition..Passed
    BY <1>9, <1>10, <1>11
  <2>. QED  BY <1>2, <1>5, <1>10, <2>1, <2>2 DEF PassedAreMet
<1>13. TodoIsNext'
  <2>1. CASE p < n
    BY <1>2, <1>4, <1>6, <1>7, <1>9, <2>1 DEF TodoIsNext
  <2>2. CASE ~(p < n)
    <3>1. Len(job'.todo) = 0 /\ job'.todo \in Seq(Found)
      BY <1>6, <1>7, <2>2, HandlerFields DEF WorkInv, ScanTypeOK
    <3>2. DOMAIN job'.todo = {}
      BY <3>1
    <3>. QED  BY <1>2, <1>4, <1>6, <1>7, <1>9, <2>2, <3>2 DEF TodoIsNext
  <2>. QED  BY <2>1, <2>2
<1>14. BudgetIsAhead'
  <2>. SUFFICES ASSUME job'.kind = "scan", job'.todo # <<>>
                PROVE  Passed' + job'.budget = MaxPages * PageSize
    BY DEF BudgetIsAhead
  <2>1. job'.todo \in Seq(Found)
    BY HandlerFields DEF WorkInv, ScanTypeOK
  <2>2. Len(job'.todo) # 0
    BY <2>1
  <2>3. p < n
    BY <1>6, <1>7, <2>2
  <2>4. job.budget + p = MaxPages * PageSize
    BY <1>3, <1>5 DEF CoverInv, WorkInv, BudgetLeft
  <2>5. job.budget \in Nat
    BY <1>1, ScanNumbers
  <2>. QED  BY <1>5, <1>9, <2>3, <2>4, <2>5
<1>. QED  BY <1>12, <1>13, <1>14

(* A row is taken: it is the next one behind the job.                       *)
LEMMA CoverTake ==
    ASSUME CoverInv, WorkInv', HasRow, NEW s \in Nat, Take(s), NEW c, Visited(c),
           UNCHANGED listing
    PROVE  CoverInv'
<1>1. ScanTypeOK /\ job.pc = "rows" /\ job.todo # <<>> /\ job.kind # "recheck"
  BY DEF CoverInv, WorkInv, HasRow
<1>2. /\ job'.pc = "rows" /\ job'.kind = job.kind /\ job'.page = job.page
      /\ job'.last = job.last /\ job'.target = job.target
      /\ job'.todo = Tail(job.todo) /\ Len(job'.todo) = Len(job.todo) - 1
      /\ job'.budget = IF job.kind = "scan" THEN job.budget - 1 ELSE job.budget
  BY <1>1, TakeFields
<1>3. trace'.shifted = trace.shifted
  BY <1>1 DEF Visited, ScanTypeOK, Traces
<1>. SUFFICES ASSUME ~trace.shifted
              PROVE  PassedAreMet' /\ TodoIsNext' /\ BudgetIsAhead'
  BY <1>2, <1>3 DEF CoverInv, CleanRunCovers
<1>4. PassedAreMet /\ TodoIsNext /\ BudgetIsAhead
  BY <1>1 DEF CoverInv
<1>5. trace'.visited = trace.visited \cup {Head(job.todo).row}
  BY <1>1 DEF Visited, ScanTypeOK, Traces
<1>6. Passed \in Nat /\ Len(job.todo) \in Nat /\ PageEnd \in Nat
  BY <1>1, <1>4, ScanNumbers DEF TodoIsNext, PageEnd
<1>7. Passed = PageEnd - Len(job.todo) /\ Passed' = PageEnd - Len(job'.todo)
  BY <1>1, <1>2 DEF Passed, PageEnd
<1>8. Passed' = Passed + 1
  BY <1>2, <1>6, <1>7
<1>9. FirstPosition' = FirstPosition /\ FirstPosition \in Nat /\ DOMAIN listing = 1..Len(listing)
  BY <1>1, <1>2, ScanNumbers DEF FirstPosition
<1>10. job.todo \in Seq(Found)
  BY <1>1, HandlerFields DEF ScanTypeOK
<1>11. 1 \in DOMAIN job.todo /\ Head(job.todo) = job.todo[1]
  BY <1>1, <1>10
<1>12. listing[Passed + 1] \in trace'.visited
  BY <1>4, <1>5, <1>11 DEF TodoIsNext
<1>13. PassedAreMet'
  <2>. SUFFICES ASSUME NEW i \in DOMAIN listing, i \in FirstPosition..Passed + 1
                PROVE  listing[i] \in trace'.visited
    BY <1>1, <1>2, <1>8, <1>9 DEF PassedAreMet
  <2>1. i \in FirstPosition..Passed \/ i = Passed + 1
    BY <1>6, <1>9
  <2>. QED  BY <1>1, <1>4, <1>5, <1>12, <2>1 DEF PassedAreMet
<1>14. TodoIsNext'
  <2>1. Passed' \in Nat
    BY <1>6, <1>8
  <2>2. ASSUME NEW k \in DOMAIN job'.todo
        PROVE  Passed' + k \in DOMAIN listing' /\ job'.todo[k].row = listing'[Passed' + k]
    <3>1. k \in Nat /\ k + 1 \in DOMAIN job.todo /\ job'.todo[k] = job.todo[k + 1]
      BY <1>1, <1>2, <1>10
    <3>2. Passed + (k + 1) \in DOMAIN listing /\ job.todo[k + 1].row = listing[Passed + (k + 1)]
      BY <1>4, <3>1 DEF TodoIsNext
    <3>3. Passed + (k + 1) = Passed' + k
      BY <1>6, <1>8, <3>1
    <3>. QED  BY <3>1, <3>2, <3>3
  <2>3. (job.last <=> (job.page + 1) * PageSize >= Len(listing))'
    BY <1>2, <1>4 DEF TodoIsNext
  <2>. QED  BY <2>1, <2>2, <2>3 DEF TodoIsNext
<1>15. BudgetIsAhead'
  <2>. SUFFICES ASSUME job.kind = "scan"
                PROVE  Passed' + job'.budget = MaxPages * PageSize
    BY <1>2 DEF BudgetIsAhead
  <2>1. Passed + job.budget = MaxPages * PageSize
    BY <1>1, <1>4 DEF BudgetIsAhead
  <2>2. job.budget \in Nat /\ job'.budget = job.budget - 1
    BY <1>1, <1>2, ScanNumbers
  <2>. QED  BY <1>6, <1>8, <2>1, <2>2
<1>. QED  BY <1>13, <1>14, <1>15

(* A row is synced, or the scan stops as caught up.                         *)
LEMMA CoverRow ==
    ASSUME CoverInv, WorkInv', RowUnchanged \/ RowChanged \/ RowFails
    PROVE  CoverInv'
<1>1. ScanTypeOK
  BY DEF CoverInv, WorkInv
<1>2. HasRow /\ UNCHANGED listing
  BY DEF RowUnchanged, RowChanged, RowFails, portalVars
<1>3. job.streak \in Nat /\ 0 \in Nat /\ job.streak + 1 \in Nat
  BY <1>1, HandlerFields, Sizes DEF ScanTypeOK
<1>4. CASE RowUnchanged
  <2>1. CASE job.kind = "scan" /\ job.streak + 1 >= 2 * PageSize
    <3>1. Done /\ Visited(TRUE)
      BY <1>4, <2>1 DEF RowUnchanged
    <3>2. job'.pc = "done" /\ trace'.caughtUp
      BY <1>1, <3>1, DoneFields DEF Visited, ScanTypeOK, Traces
    <3>. QED  BY <3>2 DEF CoverInv, CleanRunCovers
  <2>2. CASE ~(job.kind = "scan" /\ job.streak + 1 >= 2 * PageSize)
    <3>1. PICK s : s = IF job.kind = "scan" THEN job.streak + 1 ELSE 0
      OBVIOUS
    <3>2. s \in Nat
      BY <1>3, <3>1
    <3>3. Take(s) /\ \E c : Visited(c)
      BY <1>4, <2>2, <3>1, Zenon DEF RowUnchanged
    <3>. QED  BY <1>2, <3>2, <3>3, CoverTake
  <2>. QED  BY <2>1, <2>2
<1>5. CASE RowChanged
  BY <1>2, <1>3, <1>5, CoverTake DEF RowChanged
<1>6. CASE RowFails
  BY <1>2, <1>3, <1>6, CoverTake DEF RowFails
<1>. QED  BY <1>4, <1>5, <1>6

(* The budget is spent when the window lies behind the job.                 *)
LEMMA CoverBudget ==
    ASSUME CoverInv, WorkInv', BudgetSpent
    PROVE  CoverInv'
<1>1. ScanTypeOK /\ job.pc = "rows" /\ job.kind = "scan" /\ job.todo # <<>> /\ job.budget = 0
  BY DEF CoverInv, WorkInv, BudgetSpent
<1>2. job'.pc = "done" /\ job'.kind = "scan" /\ UNCHANGED <<listing, trace>>
  BY <1>1, DoneFields DEF BudgetSpent, portalVars
<1>. SUFFICES ASSUME ~trace.shifted
              PROVE  Window' \subseteq trace.visited
  BY <1>2 DEF CoverInv, CleanRunCovers
<1>3. PassedAreMet /\ TodoIsNext /\ BudgetIsAhead
  BY <1>1 DEF CoverInv
<1>4. Passed = MaxPages * PageSize /\ FirstPosition = 1
  BY <1>1, <1>3 DEF TodoIsNext, BudgetIsAhead, FirstPosition
<1>5. \A i \in DOMAIN listing : i \in 1..MaxPages * PageSize => listing[i] \in trace.visited
  BY <1>1, <1>3, <1>4 DEF PassedAreMet
<1>. QED  BY <1>2, <1>5 DEF Window, Positions

(* A recheck ends with the warrant it looked for, or with an error.         *)
LEMMA CoverMatch ==
    ASSUME CoverInv, WorkInv', NEW i \in DOMAIN job.todo, Match(i)
    PROVE  CoverInv'
<1>1. ScanTypeOK
  BY DEF CoverInv, WorkInv
<1>2. job'.pc = "done" /\ job'.kind = "recheck" /\ job'.target = job.target
  BY <1>1, DoneFields DEF Match
<1>3. trace'.visited = {job.target}
  BY <1>1 DEF Match, ScanTypeOK, Traces
<1>. QED  BY <1>2, <1>3 DEF CoverInv, CleanRunCovers

(* A page is done: the next one follows, or the window is behind the job.   *)
LEMMA CoverNextPage ==
    ASSUME CoverInv, WorkInv', NextPage
    PROVE  CoverInv'
<1>1. ScanTypeOK
  BY DEF CoverInv, WorkInv
<1>2. /\ job.pc = "rows" /\ job'.kind = job.kind /\ job'.target = job.target
      /\ trace'.shifted = trace.shifted /\ trace'.visited = trace.visited
      /\ UNCHANGED listing
  BY <1>1, NextPageFields DEF NextPage, portalVars
<1>. SUFFICES ASSUME ~trace.shifted
              PROVE  /\ job'.pc # "done" => PassedAreMet'
                     /\ job'.pc = "rows" => TodoIsNext' /\ BudgetIsAhead'
                     /\ job'.pc = "done" =>
                          IF job'.kind = "recheck"
                          THEN job'.target \in Window' => job'.target \in trace'.visited
                          ELSE Window' \subseteq trace'.visited
  BY <1>2 DEF CoverInv, CleanRunCovers
<1>3. PageDone /\ PassedAreMet /\ TodoIsNext
  BY <1>2 DEF CoverInv, NextPage
<1>4. \A i \in DOMAIN listing : i >= FirstPosition /\ i <= PageEnd =>
          IF job.kind = "recheck" THEN listing[i] # job.target
                                  ELSE listing[i] \in trace.visited
  BY <1>1, <1>3, PageEndIsMet
<1>5. /\ FirstPosition' = FirstPosition /\ FirstPosition \in Nat
      /\ DOMAIN listing = 1..Len(listing) /\ Len(listing) \in Nat
  BY <1>1, <1>2, ScanNumbers DEF FirstPosition
<1>6. CASE job.last \/ (job.kind # "scan" /\ job.page + 1 >= RetroEnd)
  <2>1. Done
    BY <1>6 DEF NextPage
  <2>2. job'.pc = "done"
    BY <1>1, <2>1, DoneFields
  <2>3. ASSUME NEW i \in Positions(job.kind) \cap DOMAIN listing
        PROVE  i >= FirstPosition /\ i <= PageEnd
    <3>1. i >= FirstPosition
      <4>1. MaxPages * PageSize \in Nat /\ RetroStart * PageSize \in Nat /\ RetroEnd * PageSize \in Nat
        BY <1>1, ScanNumbers
      <4>2. job.kind = "retro" => i \in (RetroStart * PageSize + 1)..(RetroEnd * PageSize)
        BY DEF Positions
      <4>3. i \in 1..Len(listing)
        BY <1>5
      <4>. QED  BY <4>1, <4>2, <4>3 DEF FirstPosition
    <3>2. CASE job.last
      <4>1. PageEnd = Len(listing)
        BY <3>2 DEF PageEnd
      <4>2. i \in 1..Len(listing)
        BY <1>5
      <4>. QED  BY <1>5, <3>1, <4>1, <4>2
    <3>3. CASE ~job.last
      <4>1. job.kind # "scan" /\ job.page + 1 >= RetroEnd
        BY <1>6, <3>3
      <4>2. i \in Nat /\ i <= RetroEnd * PageSize
        <5>1. RetroEnd * PageSize \in Nat /\ RetroStart * PageSize \in Nat
          BY <1>1, ScanNumbers
        <5>2. i \in 1..RetroEnd * PageSize
                \/ i \in (RetroStart * PageSize + 1)..(RetroEnd * PageSize)
          BY <4>1 DEF Positions
        <5>. QED  BY <5>1, <5>2
      <4>3. RetroEnd * PageSize <= (job.page + 1) * PageSize
        <5>1. job.page + 1 \in Nat /\ RetroEnd \in Nat /\ PageSize \in Nat
          BY <1>1, ScanNumbers, Sizes
        <5>. QED  BY <4>1, <5>1, ProductGrows
      <4>4. (job.page + 1) * PageSize \in Nat /\ RetroEnd * PageSize \in Nat
        BY <1>1, ScanNumbers
      <4>. QED  BY <3>1, <3>3, <4>2, <4>3, <4>4 DEF PageEnd
    <3>. QED  BY <3>1, <3>2, <3>3
  <2>4. Window' = {listing[i] : i \in Positions(job.kind) \cap DOMAIN listing}
    BY <1>2, Zenon DEF Window
  <2>. QED  BY <1>2, <1>4, <2>2, <2>3, <2>4
<1>7. CASE ~(job.last \/ (job.kind # "scan" /\ job.page + 1 >= RetroEnd))
  <2>1. job' = [job EXCEPT !.pc = "fetch", !.page = @ + 1, !.todo = <<>>]
    BY <1>7, Zenon DEF NextPage
  <2>2. job'.pc = "fetch" /\ job'.page = job.page + 1
    BY <1>1, <2>1 DEF ScanTypeOK, Handlers
  <2>3. Passed' = PageEnd
    BY <1>7, <2>2 DEF Passed, PageEnd
  <2>4. PageEnd \in Nat
    BY <1>1, ScanNumbers DEF PageEnd
  <2>5. \A i \in DOMAIN listing : i \in FirstPosition'..Passed' =>
            IF job'.kind = "recheck" THEN listing[i] # job'.target
                                     ELSE listing[i] \in trace'.visited
    BY <1>2, <1>4, <1>5, <2>3, <2>4
  <2>6. PassedAreMet'
    BY <1>2, <2>5 DEF PassedAreMet
  <2>. QED  BY <2>2, <2>6
<1>. QED  BY <1>6, <1>7

(* Nothing lies behind the first scan.                                      *)
LEMMA CoverInit == ScanInit => CoverInv
<1>. SUFFICES ASSUME ScanInit PROVE CoverInv
  OBVIOUS
<1>1. WorkInv
  BY WorkInit
<1>2. job.pc = "fetch" /\ job.kind = "scan" /\ job.page = 0
  BY DEF ScanInit, Started
<1>3. Passed = 0 /\ FirstPosition = 1
  BY <1>2, Sizes DEF Passed, FirstPosition
<1>4. PassedAreMet
  BY <1>3 DEF PassedAreMet
<1>. QED  BY <1>1, <1>2, <1>4 DEF CoverInv, CleanRunCovers

(* Every step keeps what is covered.                                        *)
LEMMA CoverStep == CoverInv /\ [ScanNext]_scanVars => CoverInv'
<1>. SUFFICES ASSUME CoverInv, [ScanNext]_scanVars PROVE CoverInv'
  OBVIOUS
<1>1. WorkInv' /\ ScanTypeOK
  BY WorkStep DEF CoverInv, WorkInv
<1>2. ASSUME NEW k \in Kinds, NEW t \in Rows \cup {None}, Start(k, t)
      PROVE  CoverInv'
  BY <1>1, <1>2, CoverStart DEF Start
<1>3. CASE FetchPage
  BY <1>1, <1>3, CoverFetch
<1>4. CASE RequestFails \/ SessionExpires \/ PageRejected
  <2>1. CASE Throws
    <3>1. job'.pc = "done" /\ trace'.threw
      BY <1>1, <2>1, DoneFields DEF Throws, ScanTypeOK, Traces
    <3>. QED  BY <1>1, <3>1 DEF CoverInv, CleanRunCovers
  <2>2. ASSUME NEW a, NEW f, Retries(a, f), job.pc = "fetch", UNCHANGED portalVars
        PROVE  CoverInv'
    <3>1. /\ job'.pc = "fetch" /\ job'.page = job.page /\ job'.kind = job.kind
          /\ job'.target = job.target
          /\ trace'.shifted = trace.shifted /\ trace'.visited = trace.visited
      BY <1>1, <2>2 DEF Retries, ScanTypeOK, Handlers, Traces
    <3>2. Passed' = Passed /\ FirstPosition' = FirstPosition /\ UNCHANGED listing
      BY <2>2, <3>1 DEF Passed, FirstPosition, portalVars
    <3>3. PassedAreMet => PassedAreMet'
      BY <3>1, <3>2 DEF PassedAreMet
    <3>. QED  BY <1>1, <2>2, <3>1, <3>3 DEF CoverInv, CleanRunCovers
  <2>. QED  BY <1>4, <2>1, <2>2 DEF RequestFails, SessionExpires, PageRejected
<1>5. CASE RowUnchanged \/ RowChanged \/ RowFails
  BY <1>1, <1>5, CoverRow
<1>6. CASE BudgetSpent
  BY <1>1, <1>6, CoverBudget
<1>7. ASSUME NEW i \in DOMAIN job.todo, Match(i)
      PROVE  CoverInv'
  BY <1>1, <1>7, CoverMatch
<1>8. CASE NextPage
  BY <1>1, <1>8, CoverNextPage
<1>9. ASSUME NEW r \in Rows, NEW i \in 0..Len(listing), PortalInserts(r, i)
      PROVE  CoverInv'
  <2>1. trace'.shifted
    BY <1>1, <1>9 DEF PortalInserts, ScanTypeOK, Traces
  <2>. QED  BY <1>1, <2>1 DEF CoverInv, CleanRunCovers
<1>10. ASSUME NEW r \in Rows, NEW p \in Payloads, PortalChanges(r, p)
       PROVE  CoverInv'
  BY <1>1, <1>10, CoverFrame DEF PortalChanges
<1>11. CASE UNCHANGED scanVars
  BY <1>1, <1>11, CoverFrame DEF scanVars, portalVars
<1>. QED  BY <1>2, <1>3, <1>4, <1>5, <1>6, <1>7, <1>8, <1>9, <1>10, <1>11
          DEF ScanNext, Step, Fault

(* A job that ends without an error, over a listing that did not shift, has *)
(* met every row of its window unless it stopped as caught up, and a        *)
(* recheck its warrant, for every listing, page size and window             *)
(* (scan-city.ts:48-90, retroactive-scan.ts:34-79, warrant-recheck.ts:37).  *)
THEOREM CleanRunIsComplete == ScanSpec => []CleanRunCovers
<1>1. CoverInv => CleanRunCovers
  BY DEF CoverInv
<1>. QED  BY <1>1, CoverInit, CoverStep, PTL DEF ScanSpec

=============================================================================
