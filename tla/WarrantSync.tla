---------------------------- MODULE WarrantSync ----------------------------
(***************************************************************************)
(* syncWarrant of apps/worker/src/services/warrant-sync.ts: the calls that *)
(* scan-city, retroactive-scan and warrant-recheck jobs make, concurrently *)
(* and each cut at its awaits, to bring one warrant of the BNMP portal     *)
(* into the warrants table, log the change and enqueue an alert per active *)
(* Telegram configuration.  One tenant.  A snapshot stands for a whole     *)
(* payload: snapshotHash is a SHA-256 of the canonical payload, so two     *)
(* payloads have the same hash exactly when they are the same snapshot.    *)
(***************************************************************************)
EXTENDS Naturals, Sequences, FiniteSets

CONSTANTS
    Warrants,    \* bnmpIds
    Snapshots,   \* payloads the portal may list for a warrant
    Status,      \* Status[p]: canonicalizeStatus of p's descricaoStatus
    Revoked,     \* the canonical status REVOGADO
    Configs,     \* the tenant's TelegramConfig rows
    Syncers,     \* job handlers that may be inside syncWarrant at a time
    None,        \* null
    MaxChanges,  \* bound: changes the portal makes
    MaxFaults    \* bound: rejected awaits and process deaths inside syncWarrant

ASSUME NoneAssumption == None \notin Snapshots \cup Warrants \cup Configs
ASSUME BoundsAssumption == MaxChanges \in Nat /\ MaxFaults \in Nat

VARIABLES
    portal,   \* what BNMP lists for each warrant now (external)
    changes,  \* how many times it changed
    warrant,  \* the warrants table: the snapshot each row holds, or None
    history,  \* the warrant_history table, per warrant, by detectedAt
    enabled,  \* TelegramConfig.alertEnabled
    alerts,   \* the alerts table, unique on (warrantId, telegramConfigId)
    sync,     \* the state of each call of syncWarrant
    faults,   \* rejected awaits and deaths so far
    lost,     \* history variable: rows written whose append never ran
    dropped,  \* history variable: alerts whose enqueue never ran
    everOff   \* history variable: configurations that were disabled once

portalVars == <<portal, changes>>
configVars == <<enabled, everOff>>
tableVars == <<warrant, history, alerts>>
lossVars == <<faults, lost, dropped>>
syncVars == <<portalVars, configVars, tableVars, sync, lossVars>>

Alerts == Warrants \X Configs
Final == {"SENT", "FAILED", "SKIPPED"}
AlertStatus == {"NONE", "PENDING"} \cup Final
Kinds == {"CREATED", "UPDATED", "STATUS_CHANGED", "REVOKED"}
Entries == [kind: Kinds, from: Snapshots \cup {None}, to: Snapshots]
Steps == {"idle", "find", "upsert", "append", "pdf", "configs", "enqueue", "publish"}
Calls == [pc: Steps, w: Warrants \cup {None}, raw: Snapshots \cup {None},
          prev: Snapshots \cup {None}, todo: SUBSET Configs, cfg: Configs \cup {None}]

Idle == [pc |-> "idle", w |-> None, raw |-> None, prev |-> None,
         todo |-> {}, cfg |-> None]

TypeOK ==
    /\ portal \in [Warrants -> Snapshots]
    /\ changes \in 0..MaxChanges
    /\ warrant \in [Warrants -> Snapshots \cup {None}]
    /\ history \in [Warrants -> Seq(Entries)]
    /\ enabled \in [Configs -> BOOLEAN]
    /\ everOff \subseteq Configs
    /\ alerts \in [Alerts -> AlertStatus]
    /\ sync \in [Syncers -> Calls]
    /\ faults \in 0..MaxFaults
    /\ lost \subseteq Warrants \X Snapshots
    /\ dropped \subseteq Alerts

SyncInit ==
    /\ portal \in [Warrants -> Snapshots]
    /\ changes = 0
    /\ warrant = [w \in Warrants |-> None]
    /\ history = [w \in Warrants |-> <<>>]
    /\ enabled = [c \in Configs |-> TRUE]
    /\ everOff = {}
    /\ alerts = [a \in Alerts |-> "NONE"]
    /\ sync = [s \in Syncers |-> Idle]
    /\ faults = 0
    /\ lost = {}
    /\ dropped = {}

-----------------------------------------------------------------------------
(* Definitions named ...Variant are what the one after them would be with   *)
(* a plausible bug: each shows that a property can fail.                    *)

(* detectChangeKind with its arguments swapped.                             *)
ChangeKindVariant(prev, raw) ==
    CASE prev = None                                    -> "CREATED"
      [] prev # None /\ Status[prev] = Status[raw]      -> "UPDATED"
      [] prev # None /\ Status[prev] # Status[raw] /\ Status[prev] = Revoked
                                                        -> "REVOKED"
      [] OTHER                                          -> "STATUS_CHANGED"

(* The label of a change: CREATED for a warrant with no row before, else    *)
(* detectChangeKind of the row and the payload.                             *)
ChangeKind(prev, raw) ==
    CASE prev = None                                         -> "CREATED"
      [] prev # None /\ Status[prev] = Status[raw]           -> "UPDATED"
      [] prev # None /\ Status[prev] # Status[raw] /\ Status[raw] = Revoked
                                                             -> "REVOKED"
      [] OTHER                                               -> "STATUS_CHANGED"

MoveTo(s, pc) == sync' = [sync EXCEPT ![s].pc = pc]

Return(s) == sync' = [sync EXCEPT ![s] = Idle]

(* The for loop over configs: the next one, or the end of the call.         *)
NextConfig(s, rest) ==
    IF rest = {}
    THEN Return(s)
    ELSE sync' = [sync EXCEPT ![s].pc = "enqueue", ![s].todo = rest, ![s].cfg = None]

-----------------------------------------------------------------------------
(* A scanning job reads the portal's listing and calls syncWarrant on w.    *)
Fetch(s, w) ==
    /\ sync[s].pc = "idle"
    /\ sync' = [sync EXCEPT ![s] = [Idle EXCEPT !.pc = "find", !.w = w, !.raw = portal[w]]]
    /\ UNCHANGED <<portalVars, configVars, tableVars, lossVars>>

(* Any row counts as unchanged.                                             *)
FindUnchangedVariant(s) ==
    /\ sync[s].pc = "find"
    /\ warrant[sync[s].w] # None
    /\ Return(s)
    /\ UNCHANGED <<portalVars, configVars, tableVars, lossVars>>

(* findByBnmpId returns a row with the payload's hash: markSeen, and return *)
(* (lastSeenAt is not modelled).                                            *)
FindUnchanged(s) ==
    /\ sync[s].pc = "find"
    /\ warrant[sync[s].w] = sync[s].raw
    /\ Return(s)
    /\ UNCHANGED <<portalVars, configVars, tableVars, lossVars>>

(* findByBnmpId returns no row, or a row with another hash.                 *)
FindChanged(s) ==
    /\ sync[s].pc = "find"
    /\ warrant[sync[s].w] # sync[s].raw
    /\ sync' = [sync EXCEPT ![s].pc = "upsert", ![s].prev = warrant[sync[s].w]]
    /\ UNCHANGED <<portalVars, configVars, tableVars, lossVars>>

(* The follow-ups are enqueued without logging the change.                  *)
UpsertVariant(s) ==
    /\ sync[s].pc = "upsert"
    /\ warrant' = [warrant EXCEPT ![sync[s].w] = sync[s].raw]
    /\ MoveTo(s, "pdf")
    /\ UNCHANGED <<portalVars, configVars, history, alerts, lossVars>>

(* warrantRepo.upsert: writes the payload whatever the row holds by now.    *)
Upsert(s) ==
    /\ sync[s].pc = "upsert"
    /\ warrant' = [warrant EXCEPT ![sync[s].w] = sync[s].raw]
    /\ MoveTo(s, "append")
    /\ UNCHANGED <<portalVars, configVars, history, alerts, lossVars>>

(* A warrant seen for the first time is not notified.                       *)
AppendQuietlyVariant(s) ==
    /\ sync[s].pc = "append"
    /\ history' = [history EXCEPT ![sync[s].w] =
                     Append(@, [kind |-> ChangeKind(sync[s].prev, sync[s].raw),
                                from |-> sync[s].prev, to |-> sync[s].raw])]
    /\ IF sync[s].prev = None THEN Return(s) ELSE MoveTo(s, "pdf")
    /\ UNCHANGED <<portalVars, configVars, warrant, alerts, lossVars>>

(* warrantHistoryRepo.append, labelled from the row read by find.           *)
AppendHistory(s) ==
    /\ sync[s].pc = "append"
    /\ history' = [history EXCEPT ![sync[s].w] =
                     Append(@, [kind |-> ChangeKind(sync[s].prev, sync[s].raw),
                                from |-> sync[s].prev, to |-> sync[s].raw])]
    /\ MoveTo(s, "pdf")
    /\ UNCHANGED <<portalVars, configVars, warrant, alerts, lossVars>>

(* enqueueFollowups publishes the pdf-download job (the job: see PdfStore). *)
PublishPdf(s) ==
    /\ sync[s].pc = "pdf"
    /\ MoveTo(s, "configs")
    /\ UNCHANGED <<portalVars, configVars, tableVars, lossVars>>

(* listActiveByTenant.                                                      *)
ListConfigs(s) ==
    /\ sync[s].pc = "configs"
    /\ NextConfig(s, {c \in Configs : enabled[c]})
    /\ UNCHANGED <<portalVars, configVars, tableVars, lossVars>>

(* A created alert is taken for one that another call has published.        *)
EnqueueQuietlyVariant(s, c) ==
    LET a == <<sync[s].w, c>>
        rest == sync[s].todo \ {c}
    IN  /\ sync[s].pc = "enqueue"
        /\ c \in sync[s].todo
        /\ alerts' = [alerts EXCEPT ![a] = IF @ = "NONE" THEN "PENDING" ELSE @]
        /\ NextConfig(s, rest)
        /\ UNCHANGED <<portalVars, configVars, warrant, history, lossVars>>

(* The upsert's update sets FAILED and SKIPPED alerts back to PENDING.      *)
EnqueueAgainVariant(s, c) ==
    LET a == <<sync[s].w, c>>
        rest == sync[s].todo \ {c}
    IN  /\ sync[s].pc = "enqueue"
        /\ c \in sync[s].todo
        /\ IF alerts[a] # "SENT"
           THEN /\ alerts' = [alerts EXCEPT ![a] = "PENDING"]
                /\ sync' = [sync EXCEPT ![s].pc = "publish", ![s].todo = rest, ![s].cfg = c]
           ELSE /\ NextConfig(s, rest)
                /\ UNCHANGED alerts
        /\ UNCHANGED <<portalVars, configVars, warrant, history, lossVars>>

(* alertRepo.enqueue creates a PENDING alert or leaves the row that exists; *)
(* an alert that is not PENDING is passed over.                             *)
EnqueueAlert(s, c) ==
    LET a == <<sync[s].w, c>>
        rest == sync[s].todo \ {c}
    IN  /\ sync[s].pc = "enqueue"
        /\ c \in sync[s].todo
        /\ IF alerts[a] \in {"NONE", "PENDING"}
           THEN /\ alerts' = [alerts EXCEPT ![a] = "PENDING"]
                /\ sync' = [sync EXCEPT ![s].pc = "publish", ![s].todo = rest, ![s].cfg = c]
           ELSE /\ NextConfig(s, rest)
                /\ UNCHANGED alerts
        /\ UNCHANGED <<portalVars, configVars, warrant, history, lossVars>>

(* publishJob(TELEGRAM_SEND_ALERT); AlertPipeline adds the job to the queue. *)
PublishAlert(s) ==
    /\ sync[s].pc = "publish"
    /\ NextConfig(s, sync[s].todo)
    /\ UNCHANGED <<portalVars, configVars, tableVars, lossVars>>

(* Any await rejects, or the process dies: the rest of the call never runs. *)
(* The caller logs the error or its job is retried, which fetches again.    *)
SyncFails(s) ==
    /\ sync[s].pc # "idle"
    /\ faults < MaxFaults
    /\ faults' = faults + 1
    /\ lost' = IF sync[s].pc = "append" THEN lost \cup {<<sync[s].w, sync[s].raw>>} ELSE lost
    /\ dropped' = dropped \cup ({sync[s].w} \X
                    CASE sync[s].pc \in {"append", "pdf", "configs"} -> Configs
                      [] sync[s].pc \in {"enqueue", "publish"}       -> sync[s].todo
                      [] OTHER                                       -> {})
    /\ Return(s)
    /\ UNCHANGED <<portalVars, configVars, tableVars>>

SyncStep(s) ==
    \/ FindUnchanged(s)
    \/ FindChanged(s)
    \/ Upsert(s)
    \/ AppendHistory(s)
    \/ PublishPdf(s)
    \/ ListConfigs(s)
    \/ \E c \in Configs : EnqueueAlert(s, c)
    \/ PublishAlert(s)

-----------------------------------------------------------------------------
(* BNMP lists another payload for w (external).                             *)
PortalChanges(w, p) ==
    /\ changes < MaxChanges
    /\ p # portal[w]
    /\ portal' = [portal EXCEPT ![w] = p]
    /\ changes' = changes + 1
    /\ UNCHANGED <<configVars, tableVars, sync, lossVars>>

(* An administrator turns a configuration on or off in the web application. *)
ToggleConfig(c) ==
    /\ enabled' = [enabled EXCEPT ![c] = ~@]
    /\ everOff' = IF enabled[c] THEN everOff \cup {c} ELSE everOff
    /\ UNCHANGED <<portalVars, tableVars, sync, lossVars>>

(* A telegram-send-alert job, seen from here: it settles an alert.          *)
AlertSettles(a, st) ==
    /\ alerts[a] # "NONE"
    /\ alerts' = [alerts EXCEPT ![a] = st]
    /\ UNCHANGED <<portalVars, configVars, warrant, history, sync, lossVars>>

SyncNext ==
    \/ \E s \in Syncers, w \in Warrants : Fetch(s, w)
    \/ \E s \in Syncers : SyncStep(s) \/ SyncFails(s)
    \/ \E w \in Warrants, p \in Snapshots : PortalChanges(w, p)
    \/ \E c \in Configs : ToggleConfig(c)
    \/ \E a \in Alerts, st \in Final : AlertSettles(a, st)

SyncSpec == SyncInit /\ [][SyncNext]_syncVars

(* A handler inside syncWarrant goes on (the event loop), and the scheduler *)
(* keeps scanning: every scan lists every warrant again.                    *)
SyncFairness ==
    /\ \A s \in Syncers : WF_syncVars(SyncStep(s))
    /\ \A w \in Warrants : SF_syncVars(\E s \in Syncers : Fetch(s, w))

FairSyncSpec == SyncSpec /\ SyncFairness

-----------------------------------------------------------------------------
(* Properties.                                                              *)

Logged(w) == {history[w][i].to : i \in DOMAIN history[w]}

(* What a row holds has been logged in warrant_history, is about to be by   *)
(* the call that wrote it, or was lost with that call: whatever the other   *)
(* calls overwrite in between (upsert, then append).                        *)
RowIsLogged ==
    \A w \in Warrants : warrant[w] # None =>
        \/ warrant[w] \in Logged(w)
        \/ \E s \in Syncers : sync[s].pc = "append" /\ sync[s].w = w
                              /\ sync[s].raw = warrant[w]
        \/ <<w, warrant[w]>> \in lost

(* A warrant with history has an alert for every configuration that was     *)
(* enabled throughout, unless a call that has yet to reach it is running or *)
(* died before it did (enqueueFollowups after append).                      *)
AlertCoverage ==
    \A w \in Warrants, c \in Configs \ everOff :
        (history[w] # <<>> /\ alerts[<<w, c>>] = "NONE") =>
            \/ <<w, c>> \in dropped
            \/ \E s \in Syncers :
                 /\ sync[s].w = w
                 /\ \/ sync[s].pc \in {"pdf", "configs"}
                    \/ sync[s].pc \in {"enqueue", "publish"} /\ c \in sync[s].todo

(* An alert is never created before its warrant has a row and a history     *)
(* entry, so the 'CREATED' default of the alert handler is never taken.     *)
AlertHasHistory ==
    \A a \in Alerts : alerts[a] # "NONE" => history[a[1]] # <<>> /\ warrant[a[1]] # None

(* A warrant has alerts just when it has history, whoever else is syncing   *)
(* it, but for those still on their way or lost (warrant-sync.ts:135-203).  *)
AlertsFollowHistory == AlertCoverage /\ AlertHasHistory

(* With one call at a time the history is a chain: each entry starts at the *)
(* snapshot the one before ended at and is labelled by that change, the     *)
(* first one is CREATED, and the row is what the last one ended at; a gap   *)
(* or a stale row only follows a call lost between upsert and append.       *)
HistoryIsChain ==
    \A w \in Warrants :
      LET h == history[w]
          Before(i) == IF i = 1 THEN None ELSE h[i - 1].to
          InFlight == \E s \in Syncers : sync[s].w = w /\ sync[s].pc = "append"
      IN  lost \cap ({w} \X Snapshots) = {} =>
            /\ \A i \in DOMAIN h :
                 /\ h[i].from = Before(i)
                 /\ h[i].kind = "CREATED" <=> i = 1
                 /\ h[i].kind = "UPDATED" => Status[h[i].to] = Status[Before(i)]
                 /\ h[i].kind = "REVOKED" <=> i > 1 /\ Status[Before(i)] # Revoked
                                              /\ Status[h[i].to] = Revoked
            /\ ~InFlight => warrant[w] = Before(Len(h) + 1)

(* Once the portal settles, so does the row, on what the portal lists:      *)
(* a call that overwrites a newer payload with an older one is repaired by  *)
(* a later scan.                                                            *)
RowsConverge == \A w \in Warrants : <>[](warrant[w] = portal[w])

(* What the comment above syncWarrant says ("Safe to call repeatedly with   *)
(* the same payload"): a call that finds the payload unchanged finds it     *)
(* logged as well, or someone is about to log it.                           *)
UnchangedMeansDone ==
    [][\A s \in Syncers : FindUnchanged(s) =>
          \/ sync[s].raw \in Logged(sync[s].w)
          \/ \E t \in Syncers : sync[t].pc = "append" /\ sync[t].w = sync[s].w]_syncVars

=============================================================================
