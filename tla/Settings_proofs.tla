--------------------------- MODULE Settings_proofs ---------------------------
(***************************************************************************)
(* Proofs about Settings, for any number of members, requests, cities,     *)
(* labels and runs of the seed, and any limits of the plan.  SettingsInv   *)
(* adds to the types what a request has read and still holds: its row      *)
(* exists, its configuration is there.  The bounds count the requests that *)
(* have passed the check and not yet written.                              *)
(***************************************************************************)
EXTENDS Settings, SequenceTheorems, FiniteSetTheorems, TLAPS

CityCalls == {"countCities", "upsertCity", "updateCity"}
RowCalls == {"updateCity", "setActive"}
ConfigCalls == {"listByUser", "countConfigs", "upsertConfig", "findConfig", "setEnabled"}
ToggleCalls == {"findConfig", "setEnabled"}

(* What a request holds while it waits at an await.                         *)
Holds(request) ==
    /\ request.pc \in CityCalls => request.place \in Places
    /\ request.pc \in RowCalls => request.id \in DOMAIN cities
    /\ request.pc \in ConfigCalls => request.key \in Keys
    /\ request.pc \in ToggleCalls => configs[request.key] # None

SettingsInv ==
    /\ TypeOK
    /\ \A c \in Requests : Holds(call[c])
    /\ PlaceholdersStayInactive

LEMMA IdleHolds == Idle \in Calls /\ Holds(Idle)
  BY DEF Idle, Calls, Holds, CityCalls, RowCalls, ConfigCalls, ToggleCalls

LEMMA RunningCall ==
    ASSUME NEW request \in Calls, request.pc \in Awaits
    PROVE  /\ request.who \in Members /\ request.on \in BOOLEAN /\ request.id \in Nat
           /\ \A pc \in Awaits : [request EXCEPT !.pc = pc] \in Calls
  <1>1. "idle" \notin Awaits
    BY DEF Awaits
  <1> QED BY <1>1 DEF Calls, Idle

-----------------------------------------------------------------------------
(* MonitoredCityRepository.upsert keeps one row per place, and changes no   *)
(* other row.                                                               *)
LEMMA UpsertCityRows ==
    ASSUME TypeOK, NEW place \in Places, NEW ativo \in BOOLEAN, UpsertCity(place, ativo)
    PROVE  /\ cities' \in Seq(Rows)
           /\ \A i, k \in DOMAIN cities' : cities'[i].place = cities'[k].place => i = k
           /\ DOMAIN cities \subseteq DOMAIN cities'
           /\ Len(cities') = IF IdsAt(place) = {} THEN Len(cities) + 1 ELSE Len(cities)
           /\ \A i \in DOMAIN cities' :
                \/ i \in DOMAIN cities /\ i \notin IdsAt(place) /\ cities'[i] = cities[i]
                \/ (i \in DOMAIN cities => i \in IdsAt(place))
                     /\ cities'[i].place = place /\ cities'[i].ativo = ativo
  <1>1. /\ cities \in Seq(Rows) /\ DOMAIN cities = 1..Len(cities) /\ Len(cities) \in Nat
        /\ \A i \in DOMAIN cities : cities[i] \in Rows
        /\ \A i, k \in DOMAIN cities : cities[i].place = cities[k].place => i = k
    BY DEF TypeOK
  <1>2. CASE IdsAt(place) = {}
    <2> DEFINE row == [place |-> place, ativo |-> ativo]
    <2>1. row \in Rows /\ row.place = place /\ row.ativo = ativo
      BY DEF Rows
    <2>2. cities' = Append(cities, row)
      BY <1>2 DEF UpsertCity
    <2> HIDE DEF row
    <2>3. /\ cities' \in Seq(Rows) /\ Len(cities') = Len(cities) + 1
          /\ DOMAIN cities' = 1..Len(cities) + 1
          /\ \A i \in 1..Len(cities) : cities'[i] = cities[i]
          /\ cities'[Len(cities) + 1] = row
      BY <1>1, <2>1, <2>2, AppendProperties
    <2>4. \A i \in DOMAIN cities : cities[i].place # place
      BY <1>2 DEF IdsAt
    <2> QED BY <1>1, <1>2, <2>1, <2>3, <2>4
  <1>3. CASE IdsAt(place) # {}
    <2>1. cities' = [i \in 1..Len(cities) |->
                       IF i \in IdsAt(place) THEN [cities[i] EXCEPT !.ativo = ativo] ELSE cities[i]]
      BY <1>1, <1>3 DEF UpsertCity
    <2>2. \A i \in DOMAIN cities : [cities[i] EXCEPT !.ativo = ativo] \in Rows
      BY <1>1 DEF Rows
    <2>3. \A i \in 1..Len(cities) : cities'[i] \in Rows
      BY <1>1, <2>1, <2>2
    <2>4. cities' \in Seq(Rows) /\ Len(cities') = Len(cities) /\ DOMAIN cities' = DOMAIN cities
      <3>1. cities' \in [1..Len(cities) -> Rows]
        BY <2>1, <2>3
      <3>2. DOMAIN cities' = 1..Len(cities)
        BY <2>1
      <3>3. cities' \in Seq(Rows)
        <4>1. cities' \in UNION {[1..n -> Rows] : n \in Nat}
          BY <1>1, <3>1, Zenon
        <4> QED BY <4>1, SeqDef, Zenon
      <3>4. DOMAIN cities' = 1..Len(cities') /\ Len(cities') \in Nat
        BY <3>3, LenProperties
      <3>5. Len(cities') = Len(cities)
        BY <1>1, <3>2, <3>4
      <3> QED BY <1>1, <3>2, <3>3, <3>5
    <2>5. \A i \in DOMAIN cities : /\ cities'[i].place = cities[i].place
                                   /\ i \in IdsAt(place) => cities'[i].ativo = ativo
                                   /\ i \notin IdsAt(place) => cities'[i] = cities[i]
      BY <1>1, <2>1 DEF Rows
    <2>6. \A i \in IdsAt(place) : i \in DOMAIN cities /\ cities[i].place = place
      BY DEF IdsAt
    <2>7. \A i, k \in DOMAIN cities' : cities'[i].place = cities'[k].place => i = k
      BY <1>1, <2>4, <2>5
    <2>8. \A i \in DOMAIN cities' :
            \/ i \in DOMAIN cities /\ i \notin IdsAt(place) /\ cities'[i] = cities[i]
            \/ (i \in DOMAIN cities => i \in IdsAt(place))
                 /\ cities'[i].place = place /\ cities'[i].ativo = ativo
      BY <2>4, <2>5, <2>6
    <2>9. Len(cities') = IF IdsAt(place) = {} THEN Len(cities) + 1 ELSE Len(cities)
      BY <1>3, <2>4
    <2>10. cities' \in Seq(Rows) /\ DOMAIN cities \subseteq DOMAIN cities'
      BY <2>4
    <2> QED BY <2>7, <2>8, <2>9, <2>10, Zenon
  <1> QED BY <1>2, <1>3

-----------------------------------------------------------------------------
(* A step of one request that reads only.                                   *)
LEMMA ReadStep ==
    ASSUME SettingsInv, NEW c \in Requests, NEW request \in Calls, Holds(request),
           call' = [call EXCEPT ![c] = request],
           UNCHANGED <<tables, seed, forced, seeded, seeds>>, begun' \in 0..MaxRequests
    PROVE  SettingsInv'
  <1>1. TypeOK'
    BY DEF SettingsInv, TypeOK, tables
  <1>2. \A d \in Requests : Holds(call[d])'
    BY DEF SettingsInv, TypeOK, tables, Holds
  <1>3. PlaceholdersStayInactive'
    BY DEF SettingsInv, tables, PlaceholdersStayInactive, Known
  <1> QED BY <1>1, <1>2, <1>3 DEF SettingsInv

(* A write, after which the request has ended: no row disappears.           *)
LEMMA WriteStep ==
    ASSUME SettingsInv,
           call' \in [Requests -> Calls],
           \A c \in Requests : call'[c] = call[c] \/ call'[c] = Idle,
           cities' \in Seq(Rows),
           \A i, k \in DOMAIN cities' : cities'[i].place = cities'[k].place => i = k,
           DOMAIN cities \subseteq DOMAIN cities',
           configs' \in [Keys -> Configs \cup {None}],
           \A k \in Keys : configs[k] # None => configs'[k] # None,
           forced' \subseteq DOMAIN cities', seeded' \in 0..Len(cities'),
           seed' \in 0..Len(Seeds), UNCHANGED <<begun, seeds>>,
           PlaceholdersStayInactive'
    PROVE  SettingsInv'
  <1>1. TypeOK'
    BY DEF SettingsInv, TypeOK
  <1>2. ASSUME NEW c \in Requests PROVE Holds(call[c])'
    <2>1. CASE call'[c] = Idle
      BY <2>1 DEF Holds, Idle, CityCalls, RowCalls, ConfigCalls, ToggleCalls
    <2>2. CASE call'[c] = call[c]
      <3>1. Holds(call[c])
        BY DEF SettingsInv
      <3>2. ToggleCalls \subseteq ConfigCalls
        BY DEF ToggleCalls, ConfigCalls
      <3> QED BY <2>2, <3>1, <3>2 DEF Holds
    <2> QED BY <2>1, <2>2
  <1> QED BY <1>1, <1>2 DEF SettingsInv

LEMMA BeginStep ==
    ASSUME SettingsInv, NEW c \in Requests, NEW p \in Members, Begin(c, p)
    PROVE  SettingsInv'
  <1> USE DEF Holds, CityCalls, RowCalls, ConfigCalls, ToggleCalls
  <1>1. ASSUME NEW request \in Calls, Holds(request), Starts(c, request) PROVE SettingsInv'
    <2>1. begun' \in 0..MaxRequests
      BY <1>1, SettingsAssumption DEF Starts, SettingsInv, TypeOK
    <2> QED BY <1>1, <2>1, ReadStep DEF Starts
  <1>2. ASSUME NEW place \in Places, CreateCity(c, p, place) PROVE SettingsInv'
    <2> DEFINE request == [Idle EXCEPT !.pc = "countCities", !.who = p, !.place = place]
    <2>1. request \in Calls /\ Holds(request)
      BY DEF Idle, Calls, Awaits
    <2> QED BY <1>1, <1>2, <2>1 DEF CreateCity
  <1>3. ASSUME NEW i \in DOMAIN cities, NEW m \in Municipios, UpdateCity(c, p, i, m)
        PROVE  SettingsInv'
    <2> DEFINE place == <<cities[i].place[1], m>>
    <2> DEFINE request == [Idle EXCEPT !.pc = "updateCity", !.who = p, !.id = i, !.place = place]
    <2>1. cities \in Seq(Rows) /\ cities[i] \in Rows /\ i \in Nat
      BY DEF SettingsInv, TypeOK
    <2>2. place \in Places
      BY <2>1 DEF Rows, Places
    <2>3. request \in Calls /\ Holds(request)
      BY <2>1, <2>2 DEF Idle, Calls, Awaits
    <2> QED BY <1>1, <1>3, <2>3 DEF UpdateCity
  <1>4. ASSUME NEW i \in DOMAIN cities, NEW on \in BOOLEAN, ToggleCity(c, p, i, on)
        PROVE  SettingsInv'
    <2> DEFINE request == [Idle EXCEPT !.pc = "setActive", !.who = p, !.id = i, !.on = on]
    <2>1. i \in Nat
      BY DEF SettingsInv, TypeOK
    <2>2. request \in Calls /\ Holds(request)
      BY <2>1 DEF Idle, Calls, Awaits
    <2> QED BY <1>1, <1>4, <2>2 DEF ToggleCity
  <1>5. ASSUME NEW l \in Labels, NEW on \in BOOLEAN, UpsertTelegramConfig(c, p, l, on)
        PROVE  SettingsInv'
    <2> DEFINE request == [Idle EXCEPT !.pc = "listByUser", !.who = p, !.key = <<p, l>>, !.on = on]
    <2>1. request \in Calls /\ Holds(request)
      BY DEF Idle, Calls, Awaits, Keys
    <2> QED BY <1>1, <1>5, <2>1 DEF UpsertTelegramConfig
  <1>6. ASSUME NEW k \in Keys, NEW on \in BOOLEAN, ToggleTelegramConfig(c, p, k, on)
        PROVE  SettingsInv'
    <2> DEFINE request == [Idle EXCEPT !.pc = "findConfig", !.who = p, !.key = k, !.on = on]
    <2>1. request \in Calls /\ Holds(request)
      BY <1>6 DEF Idle, Calls, Awaits, ToggleTelegramConfig
    <2> QED BY <1>1, <1>6, <2>1 DEF ToggleTelegramConfig
  <1> QED BY <1>2, <1>3, <1>4, <1>5, <1>6
          DEF Begin, CreateCityForm, CityRow, TelegramConfigForm, TelegramPage

(* The awaits of a request that only move it, and those that end it.        *)
LEMMA MoveStep ==
    ASSUME SettingsInv, NEW c \in Requests,
           CanAddCity(c) \/ ListByUser(c) \/ CanAddTelegramConfig(c) \/ FindConfig(c)
    PROVE  SettingsInv'
  <1>1. /\ call[c] \in Calls /\ Holds(call[c]) /\ begun \in 0..MaxRequests
        /\ call \in [Requests -> Calls]
    BY DEF SettingsInv, TypeOK
  <1>2. ASSUME Ends(c), UNCHANGED <<tables, seed, forced, seeded, begun, seeds>>
        PROVE  SettingsInv'
    BY <1>1, <1>2, IdleHolds, ReadStep DEF Ends
  <1>3. ASSUME NEW pc \in Awaits, MoveTo(c, pc), call[c].pc \in Awaits,
               Holds([call[c] EXCEPT !.pc = pc]),
               UNCHANGED <<tables, seed, forced, seeded, begun, seeds>>
        PROVE  SettingsInv'
    <2> DEFINE request == [call[c] EXCEPT !.pc = pc]
    <2>1. request \in Calls
      BY <1>1, <1>3, RunningCall
    <2>2. call' = [call EXCEPT ![c] = request]
      BY <1>1, <1>3 DEF MoveTo
    <2> QED BY <1>1, <1>3, <2>1, <2>2, ReadStep
  <1>4. \A pc \in Awaits : call[c].pc \in Awaits =>
          LET request == [call[c] EXCEPT !.pc = pc]
          IN  /\ request.pc = pc /\ request.place = call[c].place
              /\ request.id = call[c].id /\ request.key = call[c].key
    <2>1. "idle" \notin Awaits
      BY DEF Awaits
    <2> QED BY <1>1, <2>1 DEF Calls, Idle
  <1> USE DEF Awaits, Holds, CityCalls, RowCalls, ConfigCalls, ToggleCalls
  <1>5. CASE CanAddCity(c)
    BY <1>1, <1>2, <1>3, <1>4, <1>5 DEF CanAddCity
  <1>6. CASE ListByUser(c)
    BY <1>1, <1>2, <1>3, <1>4, <1>6 DEF ListByUser
  <1>7. CASE CanAddTelegramConfig(c)
    BY <1>1, <1>2, <1>3, <1>4, <1>7 DEF CanAddTelegramConfig
  <1>8. CASE FindConfig(c)
    BY <1>1, <1>2, <1>3, <1>4, <1>8 DEF FindConfig
  <1> QED BY <1>5, <1>6, <1>7, <1>8

(* An upsert of a city, by a member or by the seed.                         *)
LEMMA UpsertCityKeeps ==
    ASSUME SettingsInv, NEW place \in Places, UpsertCity(place, Known(place)),
           forced' = forced \ IdsAt(place)
    PROVE  /\ forced' \subseteq DOMAIN cities' /\ PlaceholdersStayInactive'
  <1>1. Known(place) \in BOOLEAN
    BY SettingsAssumption DEF Known, Places
  <1>2. /\ DOMAIN cities \subseteq DOMAIN cities'
        /\ \A i \in DOMAIN cities' :
             \/ i \in DOMAIN cities /\ i \notin IdsAt(place) /\ cities'[i] = cities[i]
             \/ cities'[i].place = place /\ cities'[i].ativo = Known(place)
    BY <1>1, UpsertCityRows DEF SettingsInv
  <1>3. forced' \subseteq DOMAIN cities'
    BY <1>2 DEF SettingsInv, TypeOK
  <1>4. ASSUME NEW i \in DOMAIN cities', cities'[i].ativo, ~(cities'[i].place[2] > 0)
        PROVE  i \in forced'
    <2>1. ~(cities'[i].place = place /\ cities'[i].ativo = Known(place))
      BY <1>4 DEF Known
    <2>2. i \in DOMAIN cities /\ i \notin IdsAt(place) /\ cities'[i] = cities[i]
      BY <1>2, <2>1
    <2>3. i \in forced
      BY <1>4, <2>2 DEF SettingsInv, PlaceholdersStayInactive, Known
    <2> QED BY <2>2, <2>3
  <1> QED BY <1>3, <1>4 DEF PlaceholdersStayInactive, Known

LEMMA CityWrites ==
    ASSUME SettingsInv, NEW c \in Requests, SaveCity(c) \/ Update(c) \/ SetActive(c)
    PROVE  SettingsInv'
  <1>1. /\ TypeOK /\ call \in [Requests -> Calls] /\ Holds(call[c]) /\ call[c] \in Calls
        /\ cities \in Seq(Rows) /\ DOMAIN cities = 1..Len(cities) /\ Len(cities) \in Nat
        /\ \A i \in DOMAIN cities : cities[i] \in Rows
        /\ \A i, k \in DOMAIN cities : cities[i].place = cities[k].place => i = k
        /\ forced \subseteq DOMAIN cities /\ seeded \in 0..Len(cities)
        /\ configs \in [Keys -> Configs \cup {None}] /\ seed \in 0..Len(Seeds)
    BY DEF SettingsInv, TypeOK
  <1>2. ASSUME Ends(c) PROVE /\ call' \in [Requests -> Calls]
                             /\ \A d \in Requests : call'[d] = call[d] \/ call'[d] = Idle
    BY <1>1, <1>2, IdleHolds DEF Ends
  <1>3. CASE SaveCity(c)
    <2> DEFINE place == call[c].place
    <2>1. place \in Places
      BY <1>1, <1>3 DEF SaveCity, Holds, CityCalls
    <2>2. /\ UpsertCity(place, Known(place)) /\ forced' = forced \ IdsAt(place) /\ Ends(c)
          /\ UNCHANGED <<configs, seed, seeded, begun, seeds>>
      BY <1>3 DEF SaveCity
    <2>3. Known(place) \in BOOLEAN
      BY <2>1, SettingsAssumption DEF Known, Places
    <2> HIDE DEF place
    <2>4. /\ cities' \in Seq(Rows) /\ DOMAIN cities \subseteq DOMAIN cities'
          /\ \A i, k \in DOMAIN cities' : cities'[i].place = cities'[k].place => i = k
          /\ Len(cities') = IF IdsAt(place) = {} THEN Len(cities) + 1 ELSE Len(cities)
      BY <1>1, <2>1, <2>2, <2>3, UpsertCityRows
    <2>5. seeded' \in 0..Len(cities')
      BY <1>1, <2>2, <2>4
    <2>6. forced' \subseteq DOMAIN cities' /\ PlaceholdersStayInactive'
      BY <2>1, <2>2, UpsertCityKeeps
    <2>7. /\ configs' \in [Keys -> Configs \cup {None}] /\ seed' \in 0..Len(Seeds)
          /\ \A k \in Keys : configs[k] # None => configs'[k] # None
      BY <1>1, <2>2
    <2> QED BY <1>2, <2>2, <2>4, <2>5, <2>6, <2>7, WriteStep
  <1>4. ASSUME NEW id \in DOMAIN cities, NEW row \in Rows,
               cities' = [cities EXCEPT ![id] = row],
               \A k \in DOMAIN cities : row.place = cities[k].place => k = id,
               forced' = forced \/ forced' = forced \cup {id} \/ forced' = forced \ {id},
               (row.ativo /\ ~Known(row.place)) => id \in forced',
               Ends(c), UNCHANGED <<configs, seed, seeded, begun, seeds>>
        PROVE  SettingsInv'
    <2>1. /\ cities' \in Seq(Rows) /\ Len(cities') = Len(cities) /\ DOMAIN cities' = DOMAIN cities
          /\ \A i \in DOMAIN cities : cities'[i] = IF i = id THEN row ELSE cities[i]
      BY <1>1, <1>4, ExceptSeq
    <2>2. \A i, k \in DOMAIN cities' : cities'[i].place = cities'[k].place => i = k
      BY <1>1, <1>4, <2>1
    <2>3. forced' \subseteq DOMAIN cities' /\ seeded' \in 0..Len(cities')
      BY <1>1, <1>4, <2>1
    <2>4. PlaceholdersStayInactive'
      <3>1. ASSUME NEW i \in DOMAIN cities', cities'[i].ativo, ~(cities'[i].place[2] > 0)
            PROVE  i \in forced'
        <4>1. CASE i = id
          BY <1>4, <2>1, <3>1, <4>1 DEF Known
        <4>2. CASE i # id
          <5>1. i \in forced
            BY <2>1, <3>1, <4>2 DEF SettingsInv, PlaceholdersStayInactive, Known
          <5> QED BY <1>4, <4>2, <5>1
        <4> QED BY <4>1, <4>2
      <3> QED BY <3>1 DEF PlaceholdersStayInactive, Known
    <2>5. /\ configs' \in [Keys -> Configs \cup {None}] /\ seed' \in 0..Len(Seeds)
          /\ \A k \in Keys : configs[k] # None => configs'[k] # None
      BY <1>1, <1>4
    <2> QED BY <1>2, <1>4, <2>1, <2>2, <2>3, <2>4, <2>5, WriteStep
  <1>5. CASE Update(c)
    <2> DEFINE id == call[c].id
               place == call[c].place
               row == [cities[id] EXCEPT !.place = place]
    <2>1. /\ id \in DOMAIN cities /\ place \in Places
      BY <1>1, <1>5 DEF Update, Holds, CityCalls, RowCalls
    <2>2. Ends(c) /\ UNCHANGED <<configs, seed, seeded, begun, seeds>>
      BY <1>5 DEF Update
    <2>3. CASE IdsAt(place) \subseteq {id}
      <3>1. /\ cities' = [cities EXCEPT ![id] = row]
            /\ forced' = IF Known(place) THEN forced \ {id}
                         ELSE IF cities[id].ativo THEN forced \cup {id} ELSE forced
        BY <1>5, <2>3 DEF Update
      <3>2. row \in Rows /\ row.place = place /\ row.ativo = cities[id].ativo
        BY <1>1, <2>1 DEF Rows
      <3>3. \A k \in DOMAIN cities : place = cities[k].place => k = id
        BY <2>3 DEF IdsAt
      <3> HIDE DEF id, place, row
      <3>4. forced' = forced \/ forced' = forced \cup {id} \/ forced' = forced \ {id}
        BY <3>1
      <3>5. (row.ativo /\ ~Known(row.place)) => id \in forced'
        BY <3>1, <3>2
      <3> QED BY <1>4, <2>1, <2>2, <3>1, <3>2, <3>3, <3>4, <3>5
    <2>4. CASE ~(IdsAt(place) \subseteq {id})
      <3>1. UNCHANGED <<cities, forced>>
        BY <1>5, <2>4 DEF Update
      <3>2. PlaceholdersStayInactive'
        BY <3>1 DEF SettingsInv, PlaceholdersStayInactive, Known
      <3> QED BY <1>1, <1>2, <2>2, <3>1, <3>2, WriteStep
    <2> QED BY <2>3, <2>4
  <1>6. CASE SetActive(c)
    <2> DEFINE id == call[c].id
               on == call[c].on
               row == [cities[id] EXCEPT !.ativo = on]
    <2>1. /\ id \in DOMAIN cities /\ on \in BOOLEAN
      BY <1>1, <1>6, RunningCall DEF SetActive, Holds, RowCalls, Awaits
    <2>2. /\ Ends(c) /\ UNCHANGED <<configs, seed, seeded, begun, seeds>>
          /\ cities' = [cities EXCEPT ![id] = row]
          /\ forced' = IF on /\ ~Known(cities[id].place) THEN forced \cup {id}
                       ELSE forced \ {id}
      BY <1>6 DEF SetActive
    <2>3. row \in Rows /\ row.place = cities[id].place /\ row.ativo = on
      BY <1>1, <2>1 DEF Rows
    <2> HIDE DEF id, on, row
    <2>4. \A k \in DOMAIN cities : row.place = cities[k].place => k = id
      BY <1>1, <2>1, <2>3
    <2>5. (row.ativo /\ ~Known(row.place)) => id \in forced'
      BY <2>2, <2>3
    <2>6. forced' = forced \/ forced' = forced \cup {id} \/ forced' = forced \ {id}
      BY <2>2
    <2> QED BY <1>4, <2>1, <2>2, <2>3, <2>4, <2>5, <2>6
  <1> QED BY <1>3, <1>5, <1>6

LEMMA ConfigWrites ==
    ASSUME SettingsInv, NEW c \in Requests, UpsertConfig(c) \/ SetEnabled(c)
    PROVE  SettingsInv'
  <1>1. /\ call \in [Requests -> Calls] /\ Holds(call[c]) /\ call[c] \in Calls
        /\ configs \in [Keys -> Configs \cup {None}]
    BY DEF SettingsInv, TypeOK
  <1>2. call[c].key \in Keys /\ call[c].on \in BOOLEAN
    BY <1>1, RunningCall DEF Holds, ConfigCalls, Awaits, UpsertConfig, SetEnabled
  <1>3. PICK config \in Configs : configs' = [configs EXCEPT ![call[c].key] = config]
    <2>1. CASE UpsertConfig(c)
      <3>1. [enabled |-> call[c].on] \in Configs
        BY <1>2 DEF Configs
      <3> QED BY <2>1, <3>1 DEF UpsertConfig
    <2>2. CASE SetEnabled(c)
      <3>1. configs[call[c].key] \in Configs
        BY <1>1, <1>2, <2>2 DEF SetEnabled, Holds, ToggleCalls
      <3>2. [configs[call[c].key] EXCEPT !.enabled = call[c].on] \in Configs
        BY <1>2, <3>1 DEF Configs
      <3> QED BY <2>2, <3>2 DEF SetEnabled
    <2> QED BY <2>1, <2>2
  <1>4. config # None
    BY SettingsAssumption DEF Configs
  <1>5. /\ configs' \in [Keys -> Configs \cup {None}]
        /\ \A k \in Keys : configs[k] # None => configs'[k] # None
    BY <1>1, <1>2, <1>3, <1>4
  <1>6. Ends(c) /\ UNCHANGED <<cities, seed, forced, seeded, begun, seeds>>
    BY DEF UpsertConfig, SetEnabled
  <1>7. /\ call' \in [Requests -> Calls]
        /\ \A d \in Requests : call'[d] = call[d] \/ call'[d] = Idle
    BY <1>1, <1>6, IdleHolds DEF Ends
  <1>8. PlaceholdersStayInactive'
    BY <1>6 DEF SettingsInv, PlaceholdersStayInactive, Known
  <1>9. /\ cities' \in Seq(Rows) /\ DOMAIN cities \subseteq DOMAIN cities'
        /\ \A i, k \in DOMAIN cities' : cities'[i].place = cities'[k].place => i = k
        /\ forced' \subseteq DOMAIN cities' /\ seeded' \in 0..Len(cities')
        /\ seed' \in 0..Len(Seeds)
    BY <1>6 DEF SettingsInv, TypeOK
  <1> QED BY <1>5, <1>6, <1>7, <1>8, <1>9, WriteStep

LEMMA SeedSteps ==
    ASSUME SettingsInv, SeedStarts \/ SeedCity \/ SeedFails
    PROVE  SettingsInv'
  <1>0. /\ TypeOK /\ seed \in 0..Len(Seeds) /\ seeds \in 0..MaxSeeds /\ seeded \in 0..Len(cities)
        /\ Seeds \in Seq(Places) /\ Len(Seeds) \in Nat /\ MaxSeeds \in Nat
        /\ cities \in Seq(Rows)
    BY SettingsAssumption DEF SettingsInv, TypeOK
  <1>1. ASSUME SeedStarts \/ SeedFails PROVE SettingsInv'
    <2>1. /\ seed' \in 0..Len(Seeds) /\ seeds' \in 0..MaxSeeds
          /\ UNCHANGED <<tables, call, forced, seeded, begun>>
      BY <1>0, <1>1 DEF SeedStarts, SeedFails
    <2>2. TypeOK'
      BY <1>0, <2>1 DEF TypeOK, tables
    <2>3. \A c \in Requests : Holds(call[c])'
      BY <2>1 DEF SettingsInv, Holds, tables
    <2>4. PlaceholdersStayInactive'
      BY <2>1 DEF SettingsInv, PlaceholdersStayInactive, Known, tables
    <2> QED BY <2>2, <2>3, <2>4 DEF SettingsInv
  <1>2. CASE SeedCity
    <2> DEFINE place == Seeds[seed]
    <2>1. place \in Places
      BY <1>0, <1>2 DEF SeedCity
    <2>2. /\ UpsertCity(place, Known(place)) /\ forced' = forced \ IdsAt(place)
          /\ seeded' = IF IdsAt(place) = {} THEN seeded + 1 ELSE seeded
          /\ seed' = IF seed = Len(Seeds) THEN 0 ELSE seed + 1
          /\ UNCHANGED <<configs, call, begun, seeds>>
      BY <1>2 DEF SeedCity
    <2>3. Known(place) \in BOOLEAN
      BY <2>1, SettingsAssumption DEF Known, Places
    <2> HIDE DEF place
    <2>4. /\ cities' \in Seq(Rows) /\ DOMAIN cities \subseteq DOMAIN cities'
          /\ \A i, k \in DOMAIN cities' : cities'[i].place = cities'[k].place => i = k
          /\ Len(cities') = IF IdsAt(place) = {} THEN Len(cities) + 1 ELSE Len(cities)
      BY <1>0, <2>1, <2>2, <2>3, UpsertCityRows
    <2>5. seeded' \in 0..Len(cities') /\ seed' \in 0..Len(Seeds)
      BY <1>0, <2>2, <2>4
    <2>6. forced' \subseteq DOMAIN cities' /\ PlaceholdersStayInactive'
      BY <2>1, <2>2, UpsertCityKeeps
    <2>7. /\ configs' \in [Keys -> Configs \cup {None}] /\ call' \in [Requests -> Calls]
          /\ \A k \in Keys : configs[k] # None => configs'[k] # None
          /\ \A c \in Requests : call'[c] = call[c]
      BY <1>0, <2>2 DEF TypeOK
    <2> QED BY <2>2, <2>4, <2>5, <2>6, <2>7, WriteStep
  <1> QED BY <1>1, <1>2

LEMMA SettingsStep == SettingsInv /\ [Next]_vars => SettingsInv'
  <1> SUFFICES ASSUME SettingsInv, [Next]_vars PROVE SettingsInv'
    OBVIOUS
  <1>1. ASSUME NEW c \in Requests, Step(c) PROVE SettingsInv'
    BY <1>1, MoveStep, CityWrites, ConfigWrites DEF Step
  <1>2. CASE UNCHANGED vars
    BY <1>2 DEF vars, tables, SettingsInv, TypeOK, Holds, PlaceholdersStayInactive, Known
  <1> QED BY <1>1, <1>2, BeginStep, SeedSteps DEF Next

LEMMA SettingsInit == Init => SettingsInv
  <1> SUFFICES ASSUME Init PROVE SettingsInv
    OBVIOUS
  <1>1. TypeOK
    BY SettingsAssumption, IdleHolds DEF Init, TypeOK
  <1>2. \A c \in Requests : Holds(call[c])
    BY IdleHolds DEF Init
  <1>3. PlaceholdersStayInactive
    BY DEF Init, PlaceholdersStayInactive
  <1> QED BY <1>1, <1>2, <1>3 DEF SettingsInv

LEMMA SettingsInvariant == Spec => []SettingsInv
  BY SettingsInit, SettingsStep, PTL DEF Spec

(* The rows, the requests and the seed keep their types: one row per place  *)
(* and one configuration per owner and label, whatever runs side by side    *)
(* (the unique keys of monitored_cities and telegram_configs).              *)
THEOREM SettingsTypeCorrect == Spec => []TypeOK
  BY SettingsInvariant, PTL DEF SettingsInv

(* No city without its idMunicipio is active, but those a member activated  *)
(* or moved back to 0 (cities/page.tsx:24).                                 *)
THEOREM PlaceholdersInactive == Spec => []PlaceholdersStayInactive
  BY SettingsInvariant, PTL DEF SettingsInv

-----------------------------------------------------------------------------
(* Limits: the requests between the check and the write count too.          *)
Held == {k \in Keys : configs[k] # None}
Inserting == {c \in Requests : call[c].pc = "upsertCity"}
Adding == {c \in Requests : call[c].pc = "upsertConfig" /\ configs[call[c].key] = None}

CityBound ==
    Len(cities) + Cardinality(Inserting) < MaxCities + Cardinality(Requests) + seeded
ConfigBound ==
    /\ IsFiniteSet(Held)
    /\ Cardinality(Held) + Cardinality(Adding) < MaxConfigs + Cardinality(Requests)

LEMMA RequestSets ==
    /\ Cardinality(Requests) \in Nat \ {0}
    /\ \A T : \A S \in SUBSET T : T \subseteq Requests =>
         /\ IsFiniteSet(S) /\ Cardinality(S) \in Nat
         /\ Cardinality(S) <= Cardinality(T) /\ Cardinality(T) \in Nat
         /\ \A c \in T : c \notin S => Cardinality(S) + 1 <= Cardinality(T)
  <1>1. IsFiniteSet(Requests) /\ Requests # {}
    BY SettingsAssumption
  <1>2. Cardinality(Requests) \in Nat \ {0}
    BY <1>1, FS_CardinalityType, FS_EmptySet
  <1>3. ASSUME NEW T, NEW S \in SUBSET T, T \subseteq Requests
        PROVE  /\ IsFiniteSet(S) /\ Cardinality(S) \in Nat
               /\ Cardinality(S) <= Cardinality(T) /\ Cardinality(T) \in Nat
               /\ \A c \in T : c \notin S => Cardinality(S) + 1 <= Cardinality(T)
    <2>1. IsFiniteSet(T) /\ IsFiniteSet(S)
      BY <1>1, <1>3, FS_Subset
    <2>2. /\ Cardinality(S) \in Nat /\ Cardinality(T) \in Nat
          /\ Cardinality(S) <= Cardinality(T)
      BY <1>3, <2>1, FS_CardinalityType, FS_Subset
    <2>3. ASSUME NEW c \in T, c \notin S PROVE Cardinality(S) + 1 <= Cardinality(T)
      <3>1. Cardinality(S \cup {c}) = Cardinality(S) + 1
        BY <2>1, <2>3, FS_AddElement
      <3>2. S \cup {c} \subseteq T
        BY <1>3, <2>3
      <3> QED BY <2>1, <3>1, <3>2, FS_Subset
    <2> QED BY <2>1, <2>2, <2>3
  <1> QED BY <1>2, <1>3

(* No further request comes to the upsert of a city.                        *)
LEMMA QuietCities ==
    ASSUME SettingsInv, CityBound,
           \A d \in Requests : call'[d] = call[d] \/ call'[d].pc # "upsertCity",
           \/ Len(cities') = Len(cities) /\ seeded' = seeded
           \/ Len(cities') = Len(cities) + 1 /\ seeded' = seeded + 1
    PROVE  CityBound'
  <1>1. Inserting' \subseteq Inserting /\ Inserting \subseteq Requests
    BY DEF Inserting
  <1>2. /\ Cardinality(Inserting') <= Cardinality(Inserting)
        /\ Cardinality(Inserting') \in Nat /\ Cardinality(Inserting) \in Nat
    BY <1>1, RequestSets
  <1>3. Len(cities) \in Nat /\ seeded \in Nat
    BY DEF SettingsInv, TypeOK
  <1> QED BY <1>2, <1>3, RequestSets, SettingsAssumption DEF CityBound

(* No further request comes to the insertion of a configuration.            *)
LEMMA QuietConfigs ==
    ASSUME SettingsInv, ConfigBound,
           \A d \in Requests : \/ call'[d] = call[d] \/ call'[d].pc # "upsertConfig"
                               \/ configs'[call'[d].key] # None,
           \A k \in Keys : configs'[k] = None <=> configs[k] = None
    PROVE  ConfigBound'
  <1>1. Held' = Held
    BY DEF Held
  <1>2. Adding' \subseteq Adding /\ Adding \subseteq Requests
    BY DEF Adding, SettingsInv, TypeOK, Holds, ConfigCalls
  <1>3. /\ Cardinality(Adding') <= Cardinality(Adding)
        /\ Cardinality(Adding') \in Nat /\ Cardinality(Adding) \in Nat
    BY <1>2, RequestSets
  <1>4. Cardinality(Held) \in Nat
    BY FS_CardinalityType DEF ConfigBound
  <1> QED BY <1>1, <1>3, <1>4, RequestSets, SettingsAssumption DEF ConfigBound

LEMMA SaveCityBound ==
    ASSUME SettingsInv, CityBound, NEW c \in Requests, SaveCity(c)
    PROVE  CityBound'
  <1> DEFINE place == call[c].place
  <1>1. /\ c \in Inserting /\ place \in Places /\ call[c].pc = "upsertCity"
        /\ UpsertCity(place, Known(place)) /\ call' = [call EXCEPT ![c] = Idle]
        /\ seeded' = seeded
    BY DEF SaveCity, Inserting, SettingsInv, Holds, CityCalls, Ends
  <1> HIDE DEF place
  <1>2. Known(place) \in BOOLEAN
    BY <1>1, SettingsAssumption DEF Known, Places
  <1>3. Len(cities') \in {Len(cities), Len(cities) + 1} /\ Len(cities) \in Nat /\ seeded \in Nat
    BY <1>1, <1>2, UpsertCityRows DEF SettingsInv, TypeOK
  <1>4. Inserting' \subseteq Inserting /\ c \notin Inserting' /\ Inserting \subseteq Requests
    BY <1>1 DEF Inserting, SettingsInv, TypeOK, Idle
  <1>5. /\ Cardinality(Inserting') + 1 <= Cardinality(Inserting)
        /\ Cardinality(Inserting') \in Nat /\ Cardinality(Inserting) \in Nat
    BY <1>1, <1>4, RequestSets
  <1> QED BY <1>1, <1>3, <1>5, RequestSets, SettingsAssumption DEF CityBound

LEMMA UpsertConfigBound ==
    ASSUME SettingsInv, ConfigBound, NEW c \in Requests, UpsertConfig(c)
    PROVE  ConfigBound'
  <1> DEFINE key == call[c].key
  <1>1. /\ key \in Keys /\ call[c].pc = "upsertConfig"
        /\ \A d \in Requests : call[d].pc = "upsertConfig" => call[d].key \in Keys
        /\ configs' = [configs EXCEPT ![key] = [enabled |-> call[c].on]]
        /\ configs \in [Keys -> Configs \cup {None}] /\ call \in [Requests -> Calls]
        /\ call' = [call EXCEPT ![c] = Idle]
    BY DEF UpsertConfig, SettingsInv, TypeOK, Holds, ConfigCalls, Ends
  <1>2. configs'[key] # None
    <2>1. call[c].on \in BOOLEAN
      BY <1>1, RunningCall DEF SettingsInv, TypeOK, Awaits
    <2> QED BY <1>1, <2>1, SettingsAssumption
  <1>3. CASE configs[key] # None
    BY <1>1, <1>2, <1>3, QuietConfigs DEF Idle
  <1>4. CASE configs[key] = None
    <2>1. Held' = Held \cup {key} /\ key \notin Held
      BY <1>1, <1>2, <1>4 DEF Held
    <2>2. /\ IsFiniteSet(Held') /\ Cardinality(Held') = Cardinality(Held) + 1
          /\ Cardinality(Held) \in Nat
      BY <2>1, FS_AddElement, FS_CardinalityType DEF ConfigBound
    <2>3. Adding' \subseteq Adding /\ c \notin Adding' /\ c \in Adding /\ Adding \subseteq Requests
      BY <1>1, <1>2, <1>4 DEF Adding, Idle
    <2>4. /\ Cardinality(Adding') + 1 <= Cardinality(Adding)
          /\ Cardinality(Adding') \in Nat /\ Cardinality(Adding) \in Nat
      BY <2>3, RequestSets
    <2> QED BY <2>2, <2>4, RequestSets, SettingsAssumption DEF ConfigBound
  <1> QED BY <1>3, <1>4

LEMMA CheckBounds ==
    ASSUME SettingsInv, CityBound, ConfigBound, NEW c \in Requests,
           CanAddCity(c) \/ ListByUser(c) \/ CanAddTelegramConfig(c) \/ FindConfig(c)
    PROVE  CityBound' /\ ConfigBound'
  <1>1. /\ call \in [Requests -> Calls] /\ Len(cities) \in Nat /\ seeded \in Nat
        /\ Cardinality(Requests) \in Nat \ {0} /\ MaxCities \in Nat /\ MaxConfigs \in Nat
        /\ UNCHANGED <<cities, configs, seeded>>
    BY RequestSets, SettingsAssumption
       DEF SettingsInv, TypeOK, CanAddCity, ListByUser, CanAddTelegramConfig, FindConfig, tables
  <1>2. /\ \A d \in Requests : d # c => call'[d] = call[d]
        /\ \A pc : MoveTo(c, pc) => call'[c].pc = pc /\ call'[c].key = call[c].key
        /\ Ends(c) => call'[c].pc = "idle"
    <2>1. \A d \in Requests : d # c => call'[d] = call[d]
      BY <1>1 DEF CanAddCity, ListByUser, CanAddTelegramConfig, FindConfig, MoveTo, Ends
    <2>2. ASSUME NEW pc, MoveTo(c, pc) PROVE call'[c].pc = pc /\ call'[c].key = call[c].key
      <3>1. call'[c] = [call[c] EXCEPT !.pc = pc]
        BY <1>1, <2>2 DEF MoveTo
      <3>2. call[c] \in Calls
        BY <1>1
      <3> QED BY <3>1, <3>2 DEF Calls, Idle
    <2>3. Ends(c) => call'[c].pc = "idle"
      BY <1>1 DEF Ends, Idle
    <2> QED BY <2>1, <2>2, <2>3
  <1>3. CityBound'
    <2>1. CASE CanAddCity(c) /\ Len(cities) < MaxCities
      <3>1. Inserting' \in SUBSET Requests
        BY DEF Inserting
      <3>2. Cardinality(Inserting') <= Cardinality(Requests) /\ Cardinality(Inserting') \in Nat
        BY <3>1, RequestSets
      <3> QED BY <1>1, <2>1, <3>2 DEF CityBound
    <2>2. CASE ~(CanAddCity(c) /\ Len(cities) < MaxCities)
      <3>1. call'[c].pc # "upsertCity"
        BY <1>2, <2>2 DEF CanAddCity, ListByUser, CanAddTelegramConfig, FindConfig, Allowed
      <3> QED BY <1>1, <1>2, <3>1, QuietCities
    <2> QED BY <2>1, <2>2
  <1>4. ConfigBound'
    <2>1. CASE CanAddTelegramConfig(c) /\ Used < MaxConfigs
      <3>1. Adding' \in SUBSET Requests /\ Held' = Held /\ Used = Cardinality(Held)
        BY <1>1 DEF Adding, Held, Used
      <3>2. Cardinality(Adding') <= Cardinality(Requests) /\ Cardinality(Adding') \in Nat
        BY <3>1, RequestSets
      <3>3. Cardinality(Held) \in Nat
        BY FS_CardinalityType DEF ConfigBound
      <3> QED BY <1>1, <2>1, <3>1, <3>2, <3>3 DEF ConfigBound
    <2>2. CASE ~(CanAddTelegramConfig(c) /\ Used < MaxConfigs)
      <3>1. call'[c].pc # "upsertConfig" \/ configs'[call'[c].key] # None
        BY <1>1, <1>2, <2>2 DEF CanAddCity, ListByUser, CanAddTelegramConfig, FindConfig, Allowed
      <3> QED BY <1>1, <1>2, <3>1, QuietConfigs
    <2> QED BY <2>1, <2>2
  <1> QED BY <1>3, <1>4

(* The other steps: none brings a request to an insertion, none inserts but *)
(* the seed.                                                                *)
LEMMA OtherBounds ==
    ASSUME SettingsInv, CityBound, ConfigBound,
           \/ \E c \in Requests, p \in Members : Begin(c, p)
           \/ \E c \in Requests : Update(c) \/ SetActive(c) \/ SetEnabled(c)
           \/ SeedStarts \/ SeedCity \/ SeedFails \/ UNCHANGED vars
    PROVE  CityBound' /\ ConfigBound'
  <1>0. /\ call \in [Requests -> Calls] /\ cities \in Seq(Rows)
        /\ configs \in [Keys -> Configs \cup {None}] /\ seeded \in Nat
    BY DEF SettingsInv, TypeOK
  <1>1. ASSUME \A d \in Requests : call'[d] = call[d] \/ call'[d].pc \notin {"upsertCity", "upsertConfig"},
               \/ Len(cities') = Len(cities) /\ seeded' = seeded
               \/ Len(cities') = Len(cities) + 1 /\ seeded' = seeded + 1,
               UNCHANGED configs
        PROVE  CityBound' /\ ConfigBound'
    BY <1>1, QuietCities, QuietConfigs
  <1>2. ASSUME NEW c \in Requests, NEW p \in Members, Begin(c, p) PROVE CityBound' /\ ConfigBound'
    <2>1. ASSUME NEW request, Starts(c, request), request.pc \notin {"upsertCity", "upsertConfig"}
          PROVE  CityBound' /\ ConfigBound'
      BY <1>0, <1>1, <2>1 DEF Starts, tables
    <2> QED BY <1>2, <2>1 DEF Begin, CreateCityForm, CityRow, TelegramConfigForm, TelegramPage,
              CreateCity, UpdateCity, ToggleCity, UpsertTelegramConfig, ToggleTelegramConfig, Idle
  <1>3. ASSUME NEW c \in Requests, Update(c) \/ SetActive(c) PROVE CityBound' /\ ConfigBound'
    <2>1. Len(cities') = Len(cities)
      <3> DEFINE id == call[c].id
      <3>1. /\ id \in DOMAIN cities /\ DOMAIN cities = 1..Len(cities) /\ cities[id] \in Rows
            /\ Update(c) => call[c].place \in Places
        BY <1>0, <1>3
           DEF SettingsInv, Holds, Update, SetActive, RowCalls, CityCalls
      <3>2. CASE UNCHANGED cities
        BY <3>2
      <3>3. CASE Update(c) /\ cities' = [cities EXCEPT ![id].place = call[c].place]
        <4>1. [cities[id] EXCEPT !.place = call[c].place] \in Rows
          BY <3>1, <3>3 DEF Rows
        <4> QED BY <1>0, <3>1, <3>3, <4>1, ExceptSeq
      <3>4. CASE SetActive(c) /\ cities' = [cities EXCEPT ![id].ativo = call[c].on]
        <4>1. call[c].on \in BOOLEAN
          BY <1>0, <3>4, RunningCall DEF SetActive, Awaits
        <4>2. [cities[id] EXCEPT !.ativo = call[c].on] \in Rows
          BY <3>1, <4>1 DEF Rows
        <4> QED BY <1>0, <3>1, <3>4, <4>2, ExceptSeq
      <3> QED BY <1>3, <3>2, <3>3, <3>4 DEF Update, SetActive
    <2>2. Ends(c) /\ UNCHANGED <<configs, seeded>>
      BY <1>3 DEF Update, SetActive
    <2> QED BY <1>0, <1>1, <2>1, <2>2 DEF Ends, Idle
  <1>4. ASSUME NEW c \in Requests, SetEnabled(c) PROVE CityBound' /\ ConfigBound'
    <2>1. /\ call[c].key \in Keys /\ configs[call[c].key] \in Configs
      BY <1>0, <1>4 DEF SetEnabled, SettingsInv, Holds, ConfigCalls, ToggleCalls
    <2>2. [configs[call[c].key] EXCEPT !.enabled = call[c].on] # None
      <3>1. call[c].on \in BOOLEAN
        BY <1>0, <1>4, RunningCall DEF SetEnabled, Awaits
      <3> QED BY <2>1, <3>1, SettingsAssumption DEF Configs
    <2>3. \A k \in Keys : configs'[k] = None <=> configs[k] = None
      <3>1. configs[call[c].key] # None
        BY <2>1, SettingsAssumption DEF Configs
      <3> QED BY <1>0, <1>4, <2>1, <2>2, <3>1 DEF SetEnabled
    <2>4. \A d \in Requests : call'[d] = call[d] \/ call'[d].pc = "idle"
      BY <1>0, <1>4 DEF SetEnabled, Ends, Idle
    <2>5. UNCHANGED <<cities, seeded>>
      BY <1>4 DEF SetEnabled
    <2> QED BY <2>3, <2>4, <2>5, QuietCities, QuietConfigs
  <1>5. CASE SeedCity
    <2> DEFINE place == Seeds[seed]
    <2>1. place \in Places
      BY <1>5, SettingsAssumption DEF SeedCity, SettingsInv, TypeOK
    <2>2. /\ UpsertCity(place, Known(place)) /\ UNCHANGED <<configs, call>>
          /\ seeded' = IF IdsAt(place) = {} THEN seeded + 1 ELSE seeded
      BY <1>5 DEF SeedCity
    <2> HIDE DEF place
    <2>3. Known(place) \in BOOLEAN
      BY <2>1, SettingsAssumption DEF Known, Places
    <2>4. Len(cities') = IF IdsAt(place) = {} THEN Len(cities) + 1 ELSE Len(cities)
      BY <2>1, <2>2, <2>3, UpsertCityRows DEF SettingsInv
    <2> QED BY <1>1, <2>2, <2>4
  <1>6. CASE SeedStarts \/ SeedFails \/ UNCHANGED vars
    BY <1>1, <1>6 DEF SeedStarts, SeedFails, vars, tables
  <1> QED BY <1>2, <1>3, <1>4, <1>5, <1>6

BoundInv == SettingsInv /\ CityBound /\ ConfigBound

LEMMA BoundStep == BoundInv /\ [Next]_vars => BoundInv'
  <1> SUFFICES ASSUME BoundInv, [Next]_vars PROVE BoundInv'
    OBVIOUS
  <1>1. SettingsInv'
    BY SettingsStep DEF BoundInv
  <1>2. ASSUME NEW c \in Requests, SaveCity(c) PROVE CityBound' /\ ConfigBound'
    <2>1. CityBound'
      BY <1>2, SaveCityBound DEF BoundInv
    <2>2. call \in [Requests -> Calls]
      BY DEF BoundInv, SettingsInv, TypeOK
    <2>3. /\ \A d \in Requests : call'[d] = call[d] \/ call'[d].pc = "idle"
          /\ UNCHANGED configs
      BY <1>2, <2>2 DEF SaveCity, Ends, Idle
    <2> QED BY <2>1, <2>3, QuietConfigs DEF BoundInv
  <1>3. ASSUME NEW c \in Requests, UpsertConfig(c) PROVE CityBound' /\ ConfigBound'
    <2>1. ConfigBound'
      BY <1>3, UpsertConfigBound DEF BoundInv
    <2>2. call \in [Requests -> Calls]
      BY DEF BoundInv, SettingsInv, TypeOK
    <2>3. /\ \A d \in Requests : call'[d] = call[d] \/ call'[d].pc = "idle"
          /\ UNCHANGED <<cities, seeded>>
      BY <1>3, <2>2 DEF UpsertConfig, Ends, Idle
    <2> QED BY <2>1, <2>3, QuietCities DEF BoundInv
  <1> QED BY <1>1, <1>2, <1>3, CheckBounds, OtherBounds DEF BoundInv, Next, Step

(* The tenant is over its plan by at most the requests that ran beside the  *)
(* one that took the last free row, and the cities the seed inserted        *)
(* (lib/plan.ts:36-39, 49-52), whatever the plan's limits.                  *)
THEOREM LimitsHold == Spec => []RowsBounded
  <1>1. Init => BoundInv
    <2> SUFFICES ASSUME Init PROVE BoundInv
      OBVIOUS
    <2>1. Inserting = {} /\ Adding = {} /\ Held = {}
      BY DEF Init, Inserting, Adding, Held, Idle
    <2>2. Len(cities) = 0 /\ seeded = 0
      BY DEF Init
    <2>3. IsFiniteSet({}) /\ Cardinality({}) = 0
      BY FS_EmptySet
    <2>4. CityBound /\ ConfigBound
      BY <2>1, <2>2, <2>3, RequestSets, SettingsAssumption DEF CityBound, ConfigBound
    <2> QED BY <2>4, SettingsInit DEF BoundInv
  <1>2. BoundInv => RowsBounded
    <2> SUFFICES ASSUME BoundInv PROVE RowsBounded
      OBVIOUS
    <2>1. Inserting \in SUBSET Requests /\ Adding \in SUBSET Requests
      BY DEF Inserting, Adding
    <2>2. Cardinality(Inserting) \in Nat /\ Cardinality(Adding) \in Nat
      BY <2>1, RequestSets
    <2>3. Len(cities) \in Nat /\ seeded \in Nat
      BY DEF BoundInv, SettingsInv, TypeOK
    <2>4. Used = Cardinality(Held) /\ Cardinality(Held) \in Nat
      BY FS_CardinalityType DEF Used, Held, BoundInv, ConfigBound
    <2> QED BY <2>2, <2>3, <2>4, RequestSets, SettingsAssumption
            DEF RowsBounded, BoundInv, CityBound, ConfigBound
  <1> QED BY <1>1, <1>2, BoundStep, PTL DEF Spec

=============================================================================
