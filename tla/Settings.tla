------------------------------ MODULE Settings ------------------------------
(***************************************************************************)
(* What the members of one tenant set in apps/web: the monitored cities    *)
(* (lib/cities/actions.ts) and their own Telegram configurations           *)
(* (lib/telegram/config-actions.ts), within the limits of the tenant's     *)
(* plan (lib/plan.ts), while prisma/seed.ts may run for the same tenant.   *)
(* Requests run side by side and each is cut at its awaits, every await    *)
(* one statement.  Rows are never deleted.  What a configuration holds     *)
(* besides alertEnabled, and the other requests, are not modelled here.    *)
(***************************************************************************)
EXTENDS Naturals, FiniteSets, Sequences

CONSTANTS
    Members,      \* users of the tenant
    Moderators,   \* those whose role is ADMIN or MODERATOR
    Labels,
    Estados,
    Municipios,   \* idMunicipio; 0 is the placeholder of one still unknown
    Seeds,        \* SEED_CITIES
    None,         \* null
    MaxCities,    \* PLAN_LIMITS[plan].maxCities
    MaxConfigs,   \* PLAN_LIMITS[plan].maxTelegramConfigs
    Requests,     \* requests the web app serves at a time
    MaxRequests,  \* bound: requests begun
    MaxSeeds      \* bound: runs of the seed

Places == Estados \X Municipios

ASSUME SettingsAssumption ==
    /\ IsFiniteSet(Requests) /\ Requests # {} /\ Moderators \subseteq Members
    /\ Municipios \subseteq Nat /\ Seeds \in Seq(Places)
    /\ MaxCities \in Nat /\ MaxConfigs \in Nat
    /\ MaxRequests \in Nat /\ MaxSeeds \in Nat
    /\ None \notin [enabled: BOOLEAN]

VARIABLES
    cities,   \* monitored_cities; a row's id is its index
    configs,  \* telegram_configs by owner and label, None where there is none
    call,     \* the state of each request
    seed,     \* the seed's next city, or 0
    forced,   \* history variable: rows whose placeholder a member activated,
              \* or that a member made a placeholder
    seeded,   \* history variable: rows the seed has inserted
    begun, seeds

tables == <<cities, configs>>
vars == <<tables, call, seed, forced, seeded, begun, seeds>>

Rows == [place: Places, ativo: BOOLEAN]
Configs == [enabled: BOOLEAN]
Keys == Members \X Labels
Awaits == {"countCities", "upsertCity", "updateCity", "setActive",
           "listByUser", "countConfigs", "upsertConfig", "findConfig", "setEnabled"}
Idle == [pc |-> "idle", who |-> None, place |-> None, id |-> 0, key |-> None, on |-> FALSE]
Calls == [pc: Awaits, who: Members, place: Places \cup {None}, id: Nat,
          key: Keys \cup {None}, on: BOOLEAN] \cup {Idle}

TypeOK ==
    /\ cities \in Seq(Rows)
    /\ \A i, k \in DOMAIN cities : cities[i].place = cities[k].place => i = k
    /\ configs \in [Keys -> Configs \cup {None}]
    /\ call \in [Requests -> Calls]
    /\ seed \in 0..Len(Seeds)
    /\ forced \subseteq DOMAIN cities
    /\ seeded \in 0..Len(cities)
    /\ begun \in 0..MaxRequests /\ seeds \in 0..MaxSeeds

Init ==
    /\ cities = <<>>
    /\ configs = [k \in Keys |-> None]
    /\ call = [c \in Requests |-> Idle]
    /\ seed = 0 /\ forced = {} /\ seeded = 0 /\ begun = 0 /\ seeds = 0

Starts(c, request) ==
    /\ call[c] = Idle
    /\ call' = [call EXCEPT ![c] = request]
    /\ begun < MaxRequests /\ begun' = begun + 1
    /\ UNCHANGED <<tables, seed, forced, seeded, seeds>>
MoveTo(c, pc) == call' = [call EXCEPT ![c].pc = pc]
Ends(c) == call' = [call EXCEPT ![c] = Idle]

Known(place) == place[2] > 0
IdsAt(place) == {i \in DOMAIN cities : cities[i].place = place}

-----------------------------------------------------------------------------
(* Definitions named ...Variant are what the one after them would be with   *)
(* a plausible bug: each shows that a property can fail.                    *)

(* checkLimit.                                                              *)
Allowed(current, max) == current < max

(* createCityAction, after requireRole.                                     *)
CreateCity(c, p, place) ==
    /\ p \in Moderators
    /\ Starts(c, [Idle EXCEPT !.pc = "countCities", !.who = p, !.place = place])

(* One more city than the plan has.                                         *)
CanAddCityVariant(c) ==
    /\ call[c].pc = "countCities"
    /\ IF Len(cities) <= MaxCities THEN MoveTo(c, "upsertCity") ELSE Ends(c)
    /\ UNCHANGED <<tables, seed, forced, seeded, begun, seeds>>

(* Also a city that the tenant has already is refused at the limit.         *)
CanAddCity(c) ==
    /\ call[c].pc = "countCities"
    /\ IF Allowed(Len(cities), MaxCities) THEN MoveTo(c, "upsertCity") ELSE Ends(c)
    /\ UNCHANGED <<tables, seed, forced, seeded, begun, seeds>>

(* The repository's default for a new row.                                  *)
UpsertCityVariant(place, ativo) ==
    cities' = IF IdsAt(place) = {} THEN Append(cities, [place |-> place, ativo |-> TRUE])
              ELSE [i \in DOMAIN cities |->
                      IF i \in IdsAt(place) THEN [cities[i] EXCEPT !.ativo = ativo] ELSE cities[i]]

(* MonitoredCityRepository.upsert.                                          *)
UpsertCity(place, ativo) ==
    cities' = IF IdsAt(place) = {} THEN Append(cities, [place |-> place, ativo |-> ativo])
              ELSE [i \in DOMAIN cities |->
                      IF i \in IdsAt(place) THEN [cities[i] EXCEPT !.ativo = ativo] ELSE cities[i]]

SaveCity(c) ==
    LET place == call[c].place
    IN  /\ call[c].pc = "upsertCity"
        /\ UpsertCity(place, Known(place))
        /\ forced' = forced \ IdsAt(place)
        /\ Ends(c)
        /\ UNCHANGED <<configs, seed, seeded, begun, seeds>>

(* updateCityAction: the form of a row changes its idMunicipio.             *)
UpdateCity(c, p, id, municipio) ==
    /\ p \in Moderators
    /\ Starts(c, [Idle EXCEPT !.pc = "updateCity", !.who = p, !.id = id,
                    !.place = <<cities[id].place[1], municipio>>])

(* Two rows may come to have one place.                                     *)
UpdateVariant(c) ==
    LET id == call[c].id
        place == call[c].place
    IN  /\ call[c].pc = "updateCity"
        /\ cities' = [cities EXCEPT ![id].place = place]
        /\ forced' = IF Known(place) THEN forced \ {id}
                     ELSE IF cities[id].ativo THEN forced \cup {id} ELSE forced
        /\ Ends(c)
        /\ UNCHANGED <<configs, seed, seeded, begun, seeds>>

(* MonitoredCityRepository.update, which leaves ativo alone; the unique key *)
(* refuses a place that another row has.                                    *)
Update(c) ==
    LET id == call[c].id
        place == call[c].place
    IN  /\ call[c].pc = "updateCity"
        /\ IF IdsAt(place) \subseteq {id}
           THEN /\ cities' = [cities EXCEPT ![id].place = place]
                /\ forced' = IF Known(place) THEN forced \ {id}
                             ELSE IF cities[id].ativo THEN forced \cup {id} ELSE forced
           ELSE UNCHANGED <<cities, forced>>
        /\ Ends(c)
        /\ UNCHANGED <<configs, seed, seeded, begun, seeds>>

(* toggleCityAction: the form posts the opposite of what its page showed,   *)
(* which by now may be what the row says.                                   *)
ToggleCity(c, p, id, ativo) ==
    /\ p \in Moderators
    /\ Starts(c, [Idle EXCEPT !.pc = "setActive", !.who = p, !.id = id, !.on = ativo])

SetActive(c) ==
    LET id == call[c].id
    IN  /\ call[c].pc = "setActive"
        /\ cities' = [cities EXCEPT ![id].ativo = call[c].on]
        /\ forced' = IF call[c].on /\ ~Known(cities[id].place) THEN forced \cup {id}
                     ELSE forced \ {id}
        /\ Ends(c)
        /\ UNCHANGED <<configs, seed, seeded, begun, seeds>>

-----------------------------------------------------------------------------
(* upsertTelegramConfigAction, after requireUser.                           *)
UpsertTelegramConfig(c, p, label, enabled) ==
    Starts(c, [Idle EXCEPT !.pc = "listByUser", !.who = p, !.key = <<p, label>>, !.on = enabled])

Used == Cardinality({k \in Keys : configs[k] # None})

(* The limit is for new labels only.                                        *)
ListByUser(c) ==
    /\ call[c].pc = "listByUser"
    /\ MoveTo(c, IF configs[call[c].key] # None THEN "upsertConfig" ELSE "countConfigs")
    /\ UNCHANGED <<tables, seed, forced, seeded, begun, seeds>>

(* The configurations whose alerts are off do not count.                    *)
CanAddTelegramConfigVariant(c) ==
    LET on == {k \in Keys : configs[k] # None /\ configs[k].enabled}
    IN  /\ call[c].pc = "countConfigs"
        /\ IF Allowed(Cardinality(on), MaxConfigs) THEN MoveTo(c, "upsertConfig") ELSE Ends(c)
        /\ UNCHANGED <<tables, seed, forced, seeded, begun, seeds>>

CanAddTelegramConfig(c) ==
    /\ call[c].pc = "countConfigs"
    /\ IF Allowed(Used, MaxConfigs) THEN MoveTo(c, "upsertConfig") ELSE Ends(c)
    /\ UNCHANGED <<tables, seed, forced, seeded, begun, seeds>>

(* TelegramConfigRepository.upsert.                                         *)
UpsertConfig(c) ==
    /\ call[c].pc = "upsertConfig"
    /\ configs' = [configs EXCEPT ![call[c].key] = [enabled |-> call[c].on]]
    /\ Ends(c)
    /\ UNCHANGED <<cities, seed, forced, seeded, begun, seeds>>

(* toggleTelegramConfigAction, with the id of any configuration.            *)
ToggleTelegramConfig(c, p, key, enabled) ==
    /\ configs[key] # None
    /\ Starts(c, [Idle EXCEPT !.pc = "findConfig", !.who = p, !.key = key, !.on = enabled])

(* Only its owner may.                                                      *)
FindConfig(c) ==
    /\ call[c].pc = "findConfig"
    /\ IF call[c].key[1] = call[c].who THEN MoveTo(c, "setEnabled") ELSE Ends(c)
    /\ UNCHANGED <<tables, seed, forced, seeded, begun, seeds>>

SetEnabled(c) ==
    /\ call[c].pc = "setEnabled"
    /\ configs' = [configs EXCEPT ![call[c].key].enabled = call[c].on]
    /\ Ends(c)
    /\ UNCHANGED <<cities, seed, forced, seeded, begun, seeds>>

-----------------------------------------------------------------------------
(* prisma/seed.ts: one upsert after another, whatever the plan allows.      *)
SeedStarts ==
    /\ seed = 0 /\ Len(Seeds) > 0 /\ seeds < MaxSeeds
    /\ seed' = 1 /\ seeds' = seeds + 1
    /\ UNCHANGED <<tables, call, forced, seeded, begun>>

(* A city that a member has since moved to its real idMunicipio is inserted *)
(* again, and one that a member has deactivated is active again.            *)
SeedCity ==
    LET place == Seeds[seed]
    IN  /\ seed # 0
        /\ UpsertCity(place, Known(place))
        /\ forced' = forced \ IdsAt(place)
        /\ seeded' = IF IdsAt(place) = {} THEN seeded + 1 ELSE seeded
        /\ seed' = IF seed = Len(Seeds) THEN 0 ELSE seed + 1
        /\ UNCHANGED <<configs, call, begun, seeds>>

SeedFails ==
    /\ seed # 0 /\ seed' = 0
    /\ UNCHANGED <<tables, call, forced, seeded, begun, seeds>>

-----------------------------------------------------------------------------
(* What the pages post.  They may be out of date, and no row is refused     *)
(* because its page would not have offered it.                              *)
CreateCityForm(c, p) == \E place \in Places : CreateCity(c, p, place)

CityRow(c, p) ==
    \E i \in DOMAIN cities :
        \/ \E m \in Municipios : UpdateCity(c, p, i, m)
        \/ \E on \in BOOLEAN : ToggleCity(c, p, i, on)

TelegramConfigForm(c, p) ==
    \E l \in Labels, on \in BOOLEAN : UpsertTelegramConfig(c, p, l, on)

TelegramPage(c, p) ==
    \E k \in Keys, on \in BOOLEAN : ToggleTelegramConfig(c, p, k, on)

Begin(c, p) ==
    CreateCityForm(c, p) \/ CityRow(c, p) \/ TelegramConfigForm(c, p) \/ TelegramPage(c, p)

Step(c) ==
    \/ CanAddCity(c) \/ SaveCity(c) \/ Update(c) \/ SetActive(c)
    \/ ListByUser(c) \/ CanAddTelegramConfig(c) \/ UpsertConfig(c)
    \/ FindConfig(c) \/ SetEnabled(c)

Next ==
    \/ \E c \in Requests : (\E p \in Members : Begin(c, p)) \/ Step(c)
    \/ SeedStarts \/ SeedCity \/ SeedFails

Spec == Init /\ [][Next]_vars

-----------------------------------------------------------------------------
(* Properties.                                                              *)

(* The tenant is over its plan's cities or configurations by at most one    *)
(* per request that runs beside the one that took the last free row, and by *)
(* the cities that the seed inserted (lib/plan.ts:36-39, 49-52).            *)
RowsBounded ==
    /\ Len(cities) < MaxCities + Cardinality(Requests) + seeded
    /\ Used < MaxConfigs + Cardinality(Requests)

(* "Cidades com idMunicipio 0 ficam inativas" (dashboard/cities/page.tsx:   *)
(* 24): so they do however creations, updates and seeds interleave, but for *)
(* a city that a member has activated without its idMunicipio or has moved  *)
(* back to 0 while it was active (cities/actions.ts:55, 70-73, 84).         *)
PlaceholdersStayInactive ==
    \A i \in DOMAIN cities : (cities[i].ativo /\ ~Known(cities[i].place)) => i \in forced
=============================================================================
