------------------------ MODULE AlertPipeline_proofs ------------------------
(***************************************************************************)
(* Proofs about WarrantSync and about AlertPipeline, which extends it, for *)
(* any number of concurrent calls, handlers, warrants, payloads and        *)
(* configurations, and any number of failures.                             *)
(***************************************************************************)
EXTENDS AlertPipeline, TLAPS

(* A running call works on a warrant and holds its payload, and a call that *)
(* is about to publish holds the configuration it publishes for.            *)
CallFields ==
    \A s \in Syncers :
        /\ sync[s].pc # "idle" => sync[s].w \in Warrants /\ sync[s].raw \in Snapshots
        /\ sync[s].pc = "publish" => sync[s].cfg \in Configs

(* A call past its upsert has written a row, and past its append a history  *)
(* entry: neither is ever taken back.                                       *)
CallsLeaveTraces ==
    \A s \in Syncers :
        /\ sync[s].pc \in {"append", "pdf", "configs", "enqueue", "publish"}
             => warrant[sync[s].w] # None
        /\ sync[s].pc \in {"pdf", "configs", "enqueue", "publish"}
             => history[sync[s].w] # <<>>

EverOffIsTrue == \A c \in Configs \ everOff : enabled[c]

TypeInv == TypeOK /\ CallFields

-----------------------------------------------------------------------------
(* What a step of call s does to the others: nothing.                       *)
LEMMA OthersStay ==
    ASSUME TypeOK, NEW s \in Syncers, NEW r, sync' = [sync EXCEPT ![s] = r]
    PROVE  /\ sync'[s] = r
           /\ \A t \in Syncers : t # s => sync'[t] = sync[t]
BY DEF TypeOK

(* What Append leaves in place and what it adds.                            *)
LEMMA AppendFacts ==
    ASSUME NEW S, NEW h \in Seq(S), NEW e \in S
    PROVE  /\ DOMAIN Append(h, e) = 1..(Len(h) + 1)
           /\ \A i \in DOMAIN h : i \in DOMAIN Append(h, e) /\ Append(h, e)[i] = h[i]
           /\ Len(h) + 1 \in DOMAIN Append(h, e) /\ Append(h, e)[Len(h) + 1] = e
           /\ Append(h, e) # <<>>
<1>1. Len(h) \in Nat /\ DOMAIN h = 1..Len(h)
  OBVIOUS
<1>2. Len(Append(h, e)) = Len(h) + 1 /\ Append(h, e) \in Seq(S)
  OBVIOUS
<1>3. DOMAIN Append(h, e) = 1..(Len(h) + 1)
  BY <1>2
<1>4. \A i \in 1..Len(h) : Append(h, e)[i] = h[i]
  OBVIOUS
<1>5. Append(h, e)[Len(h) + 1] = e
  OBVIOUS
<1>6. Append(h, e) # <<>>
  <2>1. Len(Append(h, e)) # Len(<<>>)
    BY <1>1, <1>2
  <2>. QED  BY <2>1
<1>. QED  BY <1>1, <1>3, <1>4, <1>5, <1>6

(* The kind of a change is a change type or none.                           *)
LEMMA ChangeKindType ==
    ASSUME NEW prev \in Snapshots \cup {None}, NEW raw \in Snapshots
    PROVE  ChangeKind(prev, raw) \in Kinds
<1>1. CASE prev = None
  BY <1>1 DEF ChangeKind, Kinds
<1>2. CASE prev # None /\ Status[prev] = Status[raw]
  BY <1>2 DEF ChangeKind, Kinds
<1>3. CASE prev # None /\ Status[prev] # Status[raw] /\ Status[raw] = Revoked
  BY <1>3 DEF ChangeKind, Kinds
<1>4. CASE prev # None /\ Status[prev] # Status[raw] /\ Status[raw] # Revoked
  BY <1>4 DEF ChangeKind, Kinds
<1>. QED  BY <1>1, <1>2, <1>3, <1>4

(* Empty tables and idle calls are well typed.                              *)
LEMMA TypeInit == SyncInit => TypeInv
BY BoundsAssumption DEF SyncInit, TypeInv, TypeOK, CallFields, Alerts, AlertStatus, Calls,
   Idle, Steps

(* TypeInv is inductive.                                                    *)
LEMMA TypeStep == TypeInv /\ [SyncNext]_syncVars => TypeInv'
<1>. SUFFICES ASSUME TypeInv, [SyncNext]_syncVars PROVE TypeInv'
  OBVIOUS
<1>. USE BoundsAssumption DEF TypeInv
<1>1. ASSUME NEW s \in Syncers, NEW r \in Calls, sync' = [sync EXCEPT ![s] = r],
             r.pc # "idle" => r.w \in Warrants /\ r.raw \in Snapshots,
             r.pc = "publish" => r.cfg \in Configs
      PROVE  sync' \in [Syncers -> Calls] /\ CallFields'
  BY <1>1, OthersStay DEF TypeOK, CallFields
<1>2. ASSUME NEW s \in Syncers, Return(s)
      PROVE  sync' \in [Syncers -> Calls] /\ CallFields'
  <2>1. Idle \in Calls /\ Idle.pc = "idle"
    BY DEF Idle, Calls, Steps
  <2>. QED  BY <1>1, <1>2, <2>1 DEF Return
<1>3. ASSUME NEW s \in Syncers, sync[s].pc # "idle", NEW pc \in Steps \ {"publish"}, MoveTo(s, pc)
      PROVE  sync' \in [Syncers -> Calls] /\ CallFields'
  <2>. DEFINE r == [sync[s] EXCEPT !.pc = pc]
  <2>1. r \in Calls /\ r.pc # "publish" /\ r.w \in Warrants /\ r.raw \in Snapshots
    BY <1>3 DEF TypeOK, Calls, CallFields
  <2>2. sync' = [sync EXCEPT ![s] = r]
    BY <1>3 DEF MoveTo, TypeOK
  <2>. QED  BY <1>1, <2>1, <2>2
<1>4. ASSUME NEW s \in Syncers, sync[s].pc # "idle", NEW rest \in SUBSET Configs,
             NextConfig(s, rest)
      PROVE  sync' \in [Syncers -> Calls] /\ CallFields'
  <2>1. CASE rest = {}
    BY <1>2, <1>4, <2>1 DEF NextConfig
  <2>2. CASE rest # {}
    <3>. DEFINE r == [sync[s] EXCEPT !.pc = "enqueue", !.todo = rest, !.cfg = None]
    <3>1. r \in Calls /\ r.pc = "enqueue" /\ r.w \in Warrants /\ r.raw \in Snapshots
      BY <1>4 DEF TypeOK, Calls, CallFields, Steps
    <3>2. sync' = [sync EXCEPT ![s] = r]
      BY <1>4, <2>2 DEF NextConfig, TypeOK
    <3>. QED  BY <1>1, <3>1, <3>2
  <2>. QED  BY <2>1, <2>2
<1>5. ASSUME NEW s \in Syncers, NEW w \in Warrants, Fetch(s, w) PROVE TypeInv'
  <2>. DEFINE r == [Idle EXCEPT !.pc = "find", !.w = w, !.raw = portal[w]]
  <2>1. r \in Calls /\ r.pc = "find" /\ r.w \in Warrants /\ r.raw \in Snapshots
    BY DEF TypeOK, Calls, Idle, Steps
  <2>2. sync' \in [Syncers -> Calls] /\ CallFields'
    BY <1>1, <1>5, <2>1 DEF Fetch
  <2>. QED  BY <1>5, <2>2 DEF Fetch, TypeOK, portalVars, configVars, tableVars, lossVars
<1>6. ASSUME NEW s \in Syncers, FindUnchanged(s) PROVE TypeInv'
  BY <1>2, <1>6 DEF FindUnchanged, TypeOK, portalVars, configVars, tableVars, lossVars
<1>7. ASSUME NEW s \in Syncers, FindChanged(s) PROVE TypeInv'
  <2>. DEFINE r == [sync[s] EXCEPT !.pc = "upsert", !.prev = warrant[sync[s].w]]
  <2>1. r \in Calls /\ r.pc = "upsert" /\ r.w \in Warrants /\ r.raw \in Snapshots
    BY <1>7 DEF FindChanged, TypeOK, Calls, CallFields, Steps
  <2>2. sync' = [sync EXCEPT ![s] = r]
    BY <1>7 DEF FindChanged, TypeOK
  <2>3. sync' \in [Syncers -> Calls] /\ CallFields'
    BY <1>1, <2>1, <2>2
  <2>. QED  BY <1>7, <2>3 DEF FindChanged, TypeOK, portalVars, configVars, tableVars, lossVars
<1>8. ASSUME NEW s \in Syncers, Upsert(s) PROVE TypeInv'
  <2>1. sync' \in [Syncers -> Calls] /\ CallFields'
    BY <1>3, <1>8 DEF Upsert, Steps
  <2>2. warrant' \in [Warrants -> Snapshots \cup {None}]
    BY <1>8 DEF Upsert, TypeOK, CallFields
  <2>. QED  BY <1>8, <2>1, <2>2 DEF Upsert, TypeOK, portalVars, configVars, lossVars
<1>9. ASSUME NEW s \in Syncers, AppendHistory(s) PROVE TypeInv'
  <2>1. sync' \in [Syncers -> Calls] /\ CallFields'
    BY <1>3, <1>9 DEF AppendHistory, Steps
  <2>. DEFINE e == [kind |-> ChangeKind(sync[s].prev, sync[s].raw),
                    from |-> sync[s].prev, to |-> sync[s].raw]
  <2>2. sync[s].prev \in Snapshots \cup {None} /\ sync[s].raw \in Snapshots
    BY <1>9 DEF AppendHistory, TypeOK, Calls, CallFields
  <2>3. e \in Entries
    BY <2>2, ChangeKindType DEF Entries
  <2>. HIDE DEF e
  <2>4. history' = [history EXCEPT ![sync[s].w] = Append(@, e)]
    BY <1>9 DEF AppendHistory, e
  <2>5. \A w \in Warrants : Append(history[w], e) \in Seq(Entries)
    BY <2>3 DEF TypeOK
  <2>6. history' \in [Warrants -> Seq(Entries)]
    BY <2>4, <2>5 DEF TypeOK
  <2>. QED  BY <1>9, <2>1, <2>6 DEF AppendHistory, TypeOK, portalVars, configVars, lossVars
<1>10. ASSUME NEW s \in Syncers, PublishPdf(s) PROVE TypeInv'
  <2>1. sync' \in [Syncers -> Calls] /\ CallFields'
    BY <1>3, <1>10 DEF PublishPdf, Steps
  <2>. QED  BY <1>10, <2>1 DEF PublishPdf, TypeOK, portalVars, configVars, tableVars, lossVars
<1>11. ASSUME NEW s \in Syncers, ListConfigs(s) PROVE TypeInv'
  <2>1. sync' \in [Syncers -> Calls] /\ CallFields'
    BY <1>4, <1>11 DEF ListConfigs
  <2>. QED  BY <1>11, <2>1 DEF ListConfigs, TypeOK, portalVars, configVars, tableVars, lossVars
<1>12. ASSUME NEW s \in Syncers, NEW c \in Configs, EnqueueAlert(s, c) PROVE TypeInv'
  <2>. DEFINE rest == sync[s].todo \ {c}
              a == <<sync[s].w, c>>
  <2>1. rest \in SUBSET Configs /\ sync[s].pc # "idle"
    BY <1>12 DEF EnqueueAlert, TypeOK, Calls
  <2>2. alerts' \in [Alerts -> AlertStatus]
    BY <1>12 DEF EnqueueAlert, TypeOK, AlertStatus
  <2>3. sync' \in [Syncers -> Calls] /\ CallFields'
    <3>1. CASE alerts[a] \in {"NONE", "PENDING"}
      <4>. DEFINE r == [sync[s] EXCEPT !.pc = "publish", !.todo = rest, !.cfg = c]
      <4>1. r \in Calls /\ r.cfg \in Configs /\ r.w \in Warrants /\ r.raw \in Snapshots
        BY <1>12 DEF EnqueueAlert, TypeOK, Calls, CallFields, Steps
      <4>2. sync' = [sync EXCEPT ![s] = r]
        BY <1>12, <3>1 DEF EnqueueAlert, TypeOK
      <4>. QED  BY <1>1, <4>1, <4>2
    <3>2. CASE alerts[a] \notin {"NONE", "PENDING"}
      BY <1>4, <1>12, <2>1, <3>2 DEF EnqueueAlert
    <3>. QED  BY <3>1, <3>2
  <2>. QED  BY <1>12, <2>2, <2>3 DEF EnqueueAlert, TypeOK, portalVars, configVars, lossVars
<1>13. ASSUME NEW s \in Syncers, PublishAlert(s) PROVE TypeInv'
  <2>1. sync[s].todo \in SUBSET Configs
    BY DEF TypeOK, Calls
  <2>2. sync' \in [Syncers -> Calls] /\ CallFields'
    BY <1>4, <1>13, <2>1 DEF PublishAlert
  <2>. QED  BY <1>13, <2>2 DEF PublishAlert, TypeOK, portalVars, configVars, tableVars, lossVars
<1>14. ASSUME NEW s \in Syncers, SyncFails(s) PROVE TypeInv'
  <2>1. sync' \in [Syncers -> Calls] /\ CallFields'
    BY <1>2, <1>14 DEF SyncFails
  <2>2. sync[s].w \in Warrants /\ sync[s].raw \in Snapshots /\ sync[s].todo \in SUBSET Configs
    BY <1>14 DEF SyncFails, TypeOK, Calls, CallFields
  <2>3. lost' \subseteq Warrants \X Snapshots
    BY <1>14, <2>2 DEF SyncFails, TypeOK
  <2>4. dropped' \subseteq Alerts
    BY <1>14, <2>2 DEF SyncFails, TypeOK, Alerts
  <2>5. faults' \in 0..MaxFaults
    BY <1>14 DEF SyncFails, TypeOK
  <2>. QED  BY <1>14, <2>1, <2>3, <2>4, <2>5 DEF SyncFails, TypeOK, portalVars, configVars, tableVars
<1>15. ASSUME NEW w \in Warrants, NEW p \in Snapshots, PortalChanges(w, p) PROVE TypeInv'
  BY <1>15 DEF PortalChanges, TypeOK, CallFields, configVars, tableVars, lossVars
<1>16. ASSUME NEW c \in Configs, ToggleConfig(c) PROVE TypeInv'
  BY <1>16 DEF ToggleConfig, TypeOK, CallFields, portalVars, tableVars, lossVars
<1>17. ASSUME NEW a \in Alerts, NEW st \in Final, AlertSettles(a, st) PROVE TypeInv'
  BY <1>17 DEF AlertSettles, TypeOK, CallFields, AlertStatus, portalVars, configVars, lossVars
<1>18. CASE UNCHANGED syncVars
  BY <1>18 DEF syncVars, portalVars, configVars, tableVars, lossVars, TypeOK, CallFields
<1>. QED
  BY <1>5, <1>6, <1>7, <1>8, <1>9, <1>10, <1>11, <1>12, <1>13, <1>14, <1>15, <1>16, <1>17, <1>18
     DEF SyncNext, SyncStep

(* Every reachable state of the tables and of the running calls is well     *)
(* typed.                                                                   *)
THEOREM SyncTypeCorrect == SyncSpec => []TypeOK
<1>1. TypeInv => TypeOK
  BY DEF TypeInv
<1>. QED  BY TypeInit, TypeStep, <1>1, PTL DEF SyncSpec

-----------------------------------------------------------------------------
(* The call that owes configuration c an alert of warrant w.                *)
Owes(s, w, c) ==
    /\ sync[s].w = w
    /\ \/ sync[s].pc \in {"pdf", "configs"}
       \/ sync[s].pc \in {"enqueue", "publish"} /\ c \in sync[s].todo

PastUpsert == {"append", "pdf", "configs", "enqueue", "publish"}
PastAppend == {"pdf", "configs", "enqueue", "publish"}

SafeInv ==
    /\ CallsLeaveTraces
    /\ EverOffIsTrue
    /\ RowIsLogged
    /\ AlertHasHistory
    /\ AlertCoverage

(* Rows and history entries are never taken back, nor are alerts.           *)
TablesGrow ==
    /\ \A w \in Warrants : /\ warrant[w] # None => warrant'[w] # None
                           /\ history[w] # <<>> => history'[w] # <<>>
                           /\ Logged(w) \subseteq Logged(w)'
    /\ \A a \in Alerts : alerts[a] # "NONE" => alerts'[a] # "NONE"
    /\ lost \subseteq lost' /\ dropped \subseteq dropped'

(* Empty tables owe nothing.                                                *)
LEMMA SafeInit == SyncInit => SafeInv
BY DEF SyncInit, SafeInv, CallsLeaveTraces, EverOffIsTrue, RowIsLogged, AlertHasHistory,
   AlertCoverage, Idle

(* A step of one call keeps the invariant if what that call owed - a        *)
(* history entry for the row it wrote, an alert for each configuration - is *)
(* paid, still owed, or recorded as lost.                                   *)
LEMMA CallKeepsSafe ==
    ASSUME TypeInv, SafeInv, NEW s \in Syncers, TablesGrow,
           \A t \in Syncers : t # s => sync'[t] = sync[t],
           UNCHANGED <<enabled, everOff>>,
           sync'[s].pc \in PastUpsert => warrant'[sync'[s].w] # None,
           sync'[s].pc \in PastAppend => history'[sync'[s].w] # <<>>,
           \A w \in Warrants : warrant'[w] # warrant[w] =>
               sync'[s].pc = "append" /\ sync'[s].w = w /\ sync'[s].raw = warrant'[w],
           \A w \in Warrants : (sync[s].pc = "append" /\ sync[s].w = w) =>
               sync[s].raw \in Logged(w)' \/ <<w, sync[s].raw>> \in lost',
           \A a \in Alerts : (alerts[a] = "NONE" /\ alerts'[a] # "NONE") =>
               warrant[a[1]] # None /\ history[a[1]] # <<>>,
           \A w \in Warrants : (history[w] = <<>> /\ history'[w] # <<>>) =>
               sync'[s].w = w /\ sync'[s].pc = "pdf",
           \A w \in Warrants, c \in Configs \ everOff :
               (Owes(s, w, c) /\ alerts'[<<w, c>>] = "NONE") =>
                  Owes(s, w, c)' \/ <<w, c>> \in dropped'
    PROVE  SafeInv'
<1>1. CallsLeaveTraces'
  <2>. SUFFICES ASSUME NEW t \in Syncers
                PROVE  /\ sync'[t].pc \in PastUpsert => warrant'[sync'[t].w] # None
                       /\ sync'[t].pc \in PastAppend => history'[sync'[t].w] # <<>>
    BY DEF CallsLeaveTraces, PastUpsert, PastAppend
  <2>1. CASE t = s
    BY <2>1
  <2>2. CASE t # s
    <3>1. sync'[t] = sync[t]
      BY <2>2
    <3>2. sync[t].pc \in PastUpsert => warrant[sync[t].w] # None
      BY DEF SafeInv, CallsLeaveTraces, PastUpsert
    <3>3. sync[t].pc \in PastAppend => history[sync[t].w] # <<>>
      BY DEF SafeInv, CallsLeaveTraces, PastAppend
    <3>4. sync[t].pc \in PastUpsert => sync[t].w \in Warrants
      BY DEF TypeInv, CallFields, PastUpsert
    <3>. QED  BY <3>1, <3>2, <3>3, <3>4 DEF TablesGrow, PastUpsert, PastAppend
  <2>. QED  BY <2>1, <2>2
<1>2. EverOffIsTrue'
  BY DEF SafeInv, EverOffIsTrue
<1>3. RowIsLogged'
  <2>. SUFFICES ASSUME NEW w \in Warrants, warrant'[w] # None
                PROVE  \/ warrant'[w] \in Logged(w)'
                       \/ \E t \in Syncers : sync'[t].pc = "append" /\ sync'[t].w = w
                                             /\ sync'[t].raw = warrant'[w]
                       \/ <<w, warrant'[w]>> \in lost'
    BY DEF RowIsLogged
  <2>1. CASE warrant'[w] # warrant[w]
    BY <2>1
  <2>2. CASE warrant'[w] = warrant[w]
    <3>1. CASE warrant[w] \in Logged(w) \/ <<w, warrant[w]>> \in lost
      BY <2>2, <3>1 DEF TablesGrow
    <3>2. CASE \E t \in Syncers : sync[t].pc = "append" /\ sync[t].w = w
                                  /\ sync[t].raw = warrant[w]
      <4>1. PICK t \in Syncers : sync[t].pc = "append" /\ sync[t].w = w
                                /\ sync[t].raw = warrant[w]
        BY <3>2
      <4>2. CASE t = s
        BY <2>2, <4>1, <4>2
      <4>3. CASE t # s
        BY <2>2, <4>1, <4>3
      <4>. QED  BY <4>2, <4>3
    <3>. QED  BY <2>2, <3>1, <3>2 DEF SafeInv, RowIsLogged
  <2>. QED  BY <2>1, <2>2
<1>4. AlertHasHistory'
  <2>. SUFFICES ASSUME NEW a \in Alerts, alerts'[a] # "NONE"
                PROVE  history'[a[1]] # <<>> /\ warrant'[a[1]] # None
    BY DEF AlertHasHistory
  <2>1. a[1] \in Warrants
    BY DEF Alerts
  <2>2. history[a[1]] # <<>> /\ warrant[a[1]] # None
    BY DEF SafeInv, AlertHasHistory
  <2>. QED  BY <2>1, <2>2 DEF TablesGrow
<1>5. AlertCoverage'
  <2>. SUFFICES ASSUME NEW w \in Warrants, NEW c \in Configs \ everOff,
                       history'[w] # <<>>, alerts'[<<w, c>>] = "NONE"
                PROVE  <<w, c>> \in dropped' \/ \E t \in Syncers : Owes(t, w, c)'
    BY DEF AlertCoverage, Owes
  <2>1. CASE history[w] = <<>>
    <3>1. Owes(s, w, c)'
      BY <2>1 DEF Owes
    <3>. QED  BY <3>1
  <2>2. CASE history[w] # <<>>
    <3>1. alerts[<<w, c>>] = "NONE"
      BY DEF TablesGrow, Alerts
    <3>2. <<w, c>> \in dropped \/ \E t \in Syncers : Owes(t, w, c)
      BY <2>2, <3>1 DEF SafeInv, AlertCoverage, Owes
    <3>3. CASE <<w, c>> \in dropped
      BY <3>3 DEF TablesGrow
    <3>4. CASE \E t \in Syncers : Owes(t, w, c)
      <4>1. PICK t \in Syncers : Owes(t, w, c)
        BY <3>4
      <4>2. CASE t = s
        <5>1. Owes(s, w, c)' \/ <<w, c>> \in dropped'
          BY <4>1, <4>2
        <5>. QED  BY <5>1
      <4>3. CASE t # s
        <5>1. Owes(t, w, c)'
          BY <4>1, <4>3 DEF Owes
        <5>. QED  BY <5>1
      <4>. QED  BY <4>2, <4>3
    <3>. QED  BY <3>2, <3>3, <3>4
  <2>. QED  BY <2>1, <2>2
<1>. QED  BY <1>1, <1>2, <1>3, <1>4, <1>5 DEF SafeInv

(* Steps that change neither a row, nor the history, nor an alert.          *)
LEMMA QuietTables ==
    ASSUME UNCHANGED <<tableVars, lossVars>>
    PROVE  TablesGrow /\ UNCHANGED <<warrant, history, alerts, lost, dropped>>
BY DEF TablesGrow, tableVars, lossVars, Logged

(* SafeInv is inductive, given TypeInv.                                     *)
LEMMA SafeStep == TypeInv /\ SafeInv /\ [SyncNext]_syncVars => SafeInv'
<1>. SUFFICES ASSUME TypeInv, SafeInv, [SyncNext]_syncVars PROVE SafeInv'
  OBVIOUS
<1>. USE DEF PastUpsert, PastAppend
<1>0. /\ TypeOK
      /\ \A s \in Syncers : sync[s].pc # "idle" => sync[s].w \in Warrants /\ sync[s].raw \in Snapshots
      /\ \A s \in Syncers : sync[s].pc \in PastUpsert => warrant[sync[s].w] # None
      /\ \A s \in Syncers : sync[s].pc \in PastAppend => history[sync[s].w] # <<>>
  BY DEF TypeInv, CallFields, SafeInv, CallsLeaveTraces
<1>1. ASSUME NEW s \in Syncers, NEW w \in Warrants, Fetch(s, w) PROVE SafeInv'
  <2>1. sync'[s].pc = "find" /\ sync[s].pc = "idle"
    BY <1>0, <1>1 DEF Fetch, TypeOK, Idle
  <2>2. \A t \in Syncers : t # s => sync'[t] = sync[t]
    BY <1>0, <1>1 DEF Fetch, TypeOK
  <2>3. TablesGrow /\ UNCHANGED <<warrant, history, alerts, lost, dropped, enabled, everOff>>
    BY <1>1, QuietTables DEF Fetch, configVars
  <2>. QED  BY <2>1, <2>2, <2>3, CallKeepsSafe DEF Owes
<1>2. ASSUME NEW s \in Syncers, FindUnchanged(s) PROVE SafeInv'
  <2>1. sync'[s].pc = "idle" /\ sync[s].pc = "find"
    BY <1>0, <1>2 DEF FindUnchanged, Return, TypeOK, Idle
  <2>2. \A t \in Syncers : t # s => sync'[t] = sync[t]
    BY <1>0, <1>2 DEF FindUnchanged, Return, TypeOK
  <2>3. TablesGrow /\ UNCHANGED <<warrant, history, alerts, lost, dropped, enabled, everOff>>
    BY <1>2, QuietTables DEF FindUnchanged, configVars
  <2>. QED  BY <2>1, <2>2, <2>3, CallKeepsSafe DEF Owes
<1>3. ASSUME NEW s \in Syncers, FindChanged(s) PROVE SafeInv'
  <2>1. sync'[s].pc = "upsert" /\ sync[s].pc = "find"
    BY <1>0, <1>3 DEF FindChanged, TypeOK, Calls
  <2>2. \A t \in Syncers : t # s => sync'[t] = sync[t]
    BY <1>0, <1>3 DEF FindChanged, TypeOK
  <2>3. TablesGrow /\ UNCHANGED <<warrant, history, alerts, lost, dropped, enabled, everOff>>
    BY <1>3, QuietTables DEF FindChanged, configVars
  <2>. QED  BY <2>1, <2>2, <2>3, CallKeepsSafe DEF Owes
<1>4. ASSUME NEW s \in Syncers, Upsert(s) PROVE SafeInv'
  <2>1. /\ sync[s].pc = "upsert" /\ sync'[s].pc = "append"
        /\ sync'[s].w = sync[s].w /\ sync'[s].raw = sync[s].raw
    BY <1>0, <1>4 DEF Upsert, MoveTo, TypeOK, Calls
  <2>2. \A t \in Syncers : t # s => sync'[t] = sync[t]
    BY <1>0, <1>4 DEF Upsert, MoveTo, TypeOK
  <2>3. /\ sync[s].w \in Warrants /\ sync[s].raw # None
        /\ \A w \in Warrants : warrant'[w] = IF w = sync[s].w THEN sync[s].raw ELSE warrant[w]
        /\ UNCHANGED <<history, alerts, lost, dropped, enabled, everOff>>
    BY <1>0, <1>4, <2>1, NoneAssumption DEF Upsert, TypeOK, configVars, lossVars
  <2>4. TablesGrow
    BY <2>3 DEF TablesGrow, Logged
  <2>. QED  BY <2>1, <2>2, <2>3, <2>4, CallKeepsSafe DEF Owes
<1>5. ASSUME NEW s \in Syncers, AppendHistory(s) PROVE SafeInv'
  <2>1. /\ sync[s].pc = "append" /\ sync'[s].pc = "pdf"
        /\ sync'[s].w = sync[s].w /\ sync'[s].raw = sync[s].raw /\ sync[s].w \in Warrants
    BY <1>0, <1>5 DEF AppendHistory, MoveTo, TypeOK, Calls
  <2>2. \A t \in Syncers : t # s => sync'[t] = sync[t]
    BY <1>0, <1>5 DEF AppendHistory, MoveTo, TypeOK
  <2>. DEFINE e == [kind |-> ChangeKind(sync[s].prev, sync[s].raw),
                    from |-> sync[s].prev, to |-> sync[s].raw]
              h == history[sync[s].w]
  <2>3. /\ UNCHANGED <<warrant, alerts, lost, dropped, enabled, everOff>>
        /\ history'[sync[s].w] = Append(h, e)
        /\ \A w \in Warrants : w # sync[s].w => history'[w] = history[w]
    BY <1>0, <1>5, <2>1 DEF AppendHistory, TypeOK, configVars, lossVars
  <2>4. e.to = sync[s].raw
    OBVIOUS
  <2>. HIDE DEF e
  <2>5. /\ DOMAIN Append(h, e) = 1..(Len(h) + 1)
        /\ \A i \in DOMAIN h : i \in DOMAIN Append(h, e) /\ Append(h, e)[i] = h[i]
        /\ Len(h) + 1 \in DOMAIN Append(h, e) /\ Append(h, e)[Len(h) + 1] = e
        /\ Append(h, e) # <<>>
    <3>1. h \in Seq(Entries)
      BY <1>0, <2>1 DEF TypeOK
    <3>2. e \in Entries
      <4>1. sync[s].prev \in Snapshots \cup {None} /\ sync[s].raw \in Snapshots
        BY <1>0, <2>1 DEF TypeOK, Calls, TypeInv, CallFields
      <4>. QED  BY <4>1, ChangeKindType DEF e, Entries
    <3>. HIDE DEF h
    <3>. QED  BY <3>1, <3>2, AppendFacts
  <2>6. \A w \in Warrants : Logged(w) \subseteq Logged(w)'
    BY <2>3, <2>5 DEF Logged
  <2>7. \A w \in Warrants : w = sync[s].w => sync[s].raw \in Logged(w)'
    BY <2>3, <2>4, <2>5 DEF Logged
  <2>8. TablesGrow
    BY <2>3, <2>5, <2>6 DEF TablesGrow
  <2>9. history'[sync'[s].w] # <<>> /\ warrant'[sync'[s].w] # None
    BY <1>0, <2>1, <2>3, <2>5
  <2>10. \A w \in Warrants : history'[w] # history[w] => w = sync'[s].w
    BY <2>1, <2>3
  <2>. QED  BY <2>1, <2>2, <2>3, <2>7, <2>8, <2>9, <2>10, CallKeepsSafe DEF Owes
<1>6. ASSUME NEW s \in Syncers, PublishPdf(s) PROVE SafeInv'
  <2>1. sync'[s].pc = "configs" /\ sync[s].pc = "pdf" /\ sync'[s].w = sync[s].w
    BY <1>0, <1>6 DEF PublishPdf, MoveTo, TypeOK, Calls
  <2>2. \A t \in Syncers : t # s => sync'[t] = sync[t]
    BY <1>0, <1>6 DEF PublishPdf, MoveTo, TypeOK
  <2>3. TablesGrow /\ UNCHANGED <<warrant, history, alerts, lost, dropped, enabled, everOff>>
    BY <1>6, QuietTables DEF PublishPdf, configVars
  <2>. QED  BY <1>0, <2>1, <2>2, <2>3, CallKeepsSafe DEF Owes
<1>7. ASSUME NEW s \in Syncers, NEW rest, NextConfig(s, rest)
      PROVE  /\ \A t \in Syncers : t # s => sync'[t] = sync[t]
             /\ \/ sync'[s].pc = "idle" /\ rest = {}
                \/ sync'[s].pc = "enqueue" /\ sync'[s].w = sync[s].w /\ sync'[s].todo = rest
  BY <1>0, <1>7 DEF NextConfig, Return, Idle, TypeOK, Calls
<1>8. ASSUME NEW s \in Syncers, ListConfigs(s) PROVE SafeInv'
  <2>. DEFINE rest == {c \in Configs : enabled[c]}
  <2>1. /\ sync[s].pc = "configs"
        /\ \A t \in Syncers : t # s => sync'[t] = sync[t]
        /\ \/ sync'[s].pc = "idle" /\ rest = {}
           \/ sync'[s].pc = "enqueue" /\ sync'[s].w = sync[s].w /\ sync'[s].todo = rest
    BY <1>7, <1>8 DEF ListConfigs
  <2>2. TablesGrow /\ UNCHANGED <<warrant, history, alerts, lost, dropped, enabled, everOff>>
    BY <1>8, QuietTables DEF ListConfigs, configVars
  <2>3. \A c \in Configs \ everOff : c \in rest
    BY DEF SafeInv, EverOffIsTrue
  <2>. HIDE DEF rest
  <2>. QED  BY <1>0, <2>1, <2>2, <2>3, CallKeepsSafe DEF Owes
<1>9. ASSUME NEW s \in Syncers, NEW c \in Configs, EnqueueAlert(s, c) PROVE SafeInv'
  <2>. DEFINE rest == sync[s].todo \ {c}
              a == <<sync[s].w, c>>
  <2>1. /\ sync[s].pc = "enqueue" /\ sync[s].w \in Warrants
        /\ \A t \in Syncers : t # s => sync'[t] = sync[t]
        /\ \/ sync'[s].pc = "idle" /\ rest = {}
           \/ sync'[s].pc \in {"enqueue", "publish"} /\ sync'[s].w = sync[s].w
              /\ sync'[s].todo = rest
    <3>1. CASE alerts[a] \in {"NONE", "PENDING"}
      BY <1>0, <1>9, <3>1 DEF EnqueueAlert, TypeOK, Calls
    <3>2. CASE alerts[a] \notin {"NONE", "PENDING"}
      BY <1>0, <1>7, <1>9, <3>2 DEF EnqueueAlert
    <3>. QED  BY <3>1, <3>2
  <2>2. /\ UNCHANGED <<warrant, history, lost, dropped, enabled, everOff>>
        /\ a \in Alerts /\ alerts'[a] # "NONE"
        /\ \A b \in Alerts : b # a => alerts'[b] = alerts[b]
    BY <1>0, <1>9, <2>1 DEF EnqueueAlert, TypeOK, Alerts, configVars, lossVars
  <2>3. TablesGrow
    BY <2>2 DEF TablesGrow, Logged
  <2>4. \A w \in Warrants, d \in Configs \ everOff :
            (Owes(s, w, d) /\ alerts'[<<w, d>>] = "NONE") => Owes(s, w, d)'
    <3>. SUFFICES ASSUME NEW w \in Warrants, NEW d \in Configs \ everOff,
                         Owes(s, w, d), alerts'[<<w, d>>] = "NONE"
                  PROVE  Owes(s, w, d)'
      OBVIOUS
    <3>1. sync[s].w = w /\ d \in sync[s].todo /\ d # c
      BY <2>1, <2>2 DEF Owes
    <3>. QED  BY <2>1, <3>1 DEF Owes
  <2>5. \A b \in Alerts : (alerts[b] = "NONE" /\ alerts'[b] # "NONE") =>
            warrant[b[1]] # None /\ history[b[1]] # <<>>
    BY <1>0, <2>1, <2>2
  <2>. HIDE DEF rest, a
  <2>6. /\ sync'[s].pc \in PastUpsert => warrant'[sync'[s].w] # None
        /\ sync'[s].pc \in PastAppend => history'[sync'[s].w] # <<>>
    BY <1>0, <2>1, <2>2
  <2>. QED  BY <2>1, <2>2, <2>3, <2>4, <2>5, <2>6, CallKeepsSafe
<1>10. ASSUME NEW s \in Syncers, PublishAlert(s) PROVE SafeInv'
  <2>1. /\ sync[s].pc = "publish"
        /\ \A t \in Syncers : t # s => sync'[t] = sync[t]
        /\ \/ sync'[s].pc = "idle" /\ sync[s].todo = {}
           \/ sync'[s].pc = "enqueue" /\ sync'[s].w = sync[s].w /\ sync'[s].todo = sync[s].todo
    BY <1>7, <1>10 DEF PublishAlert
  <2>2. TablesGrow /\ UNCHANGED <<warrant, history, alerts, lost, dropped, enabled, everOff>>
    BY <1>10, QuietTables DEF PublishAlert, configVars
  <2>. QED  BY <1>0, <2>1, <2>2, CallKeepsSafe DEF Owes
<1>11. ASSUME NEW s \in Syncers, SyncFails(s) PROVE SafeInv'
  <2>1. /\ sync'[s].pc = "idle" /\ sync[s].pc # "idle"
        /\ \A t \in Syncers : t # s => sync'[t] = sync[t]
        /\ UNCHANGED <<warrant, history, alerts, enabled, everOff>>
    BY <1>0, <1>11 DEF SyncFails, Return, TypeOK, Idle, configVars, tableVars
  <2>2. /\ lost \subseteq lost'
        /\ sync[s].pc = "append" => <<sync[s].w, sync[s].raw>> \in lost'
    BY <1>11 DEF SyncFails
  <2>3. \A w \in Warrants, c \in Configs : Owes(s, w, c) => <<w, c>> \in dropped'
    <3>. SUFFICES ASSUME NEW w \in Warrants, NEW c \in Configs, Owes(s, w, c)
                  PROVE  <<w, c>> \in dropped'
      OBVIOUS
    <3>1. CASE sync[s].pc \in {"pdf", "configs"}
      BY <1>11, <3>1 DEF SyncFails, Owes
    <3>2. CASE sync[s].pc \in {"enqueue", "publish"} /\ c \in sync[s].todo
      BY <1>11, <3>2 DEF SyncFails, Owes
    <3>. QED  BY <3>1, <3>2 DEF Owes
  <2>4. dropped \subseteq dropped'
    BY <1>11 DEF SyncFails
  <2>5. TablesGrow
    BY <2>1, <2>2, <2>4 DEF TablesGrow, Logged
  <2>. QED  BY <2>1, <2>2, <2>3, <2>5, CallKeepsSafe
<1>12. ASSUME NEW w \in Warrants, NEW p \in Snapshots, PortalChanges(w, p) PROVE SafeInv'
  BY <1>12 DEF PortalChanges, SafeInv, CallsLeaveTraces, EverOffIsTrue, RowIsLogged, Logged,
     AlertHasHistory, AlertCoverage, configVars, tableVars, lossVars
<1>13. ASSUME NEW c \in Configs, ToggleConfig(c) PROVE SafeInv'
  <2>1. UNCHANGED <<warrant, history, alerts, sync, lost, dropped>> /\ everOff \subseteq everOff'
    BY <1>13 DEF ToggleConfig, tableVars, lossVars
  <2>2. EverOffIsTrue'
    BY <1>0, <1>13 DEF ToggleConfig, SafeInv, EverOffIsTrue, TypeOK
  <2>3. AlertCoverage'
    BY <2>1 DEF SafeInv, AlertCoverage
  <2>. QED
    BY <2>1, <2>2, <2>3 DEF SafeInv, CallsLeaveTraces, RowIsLogged, Logged, AlertHasHistory
<1>14. ASSUME NEW a \in Alerts, NEW st \in Final, AlertSettles(a, st) PROVE SafeInv'
  <2>1. /\ UNCHANGED <<warrant, history, enabled, everOff, sync, lost, dropped>>
        /\ \A b \in Alerts : alerts'[b] = "NONE" <=> alerts[b] = "NONE"
    BY <1>0, <1>14 DEF AlertSettles, TypeOK, Final, configVars, lossVars
  <2>2. AlertHasHistory' /\ AlertCoverage'
    BY <2>1 DEF SafeInv, AlertHasHistory, AlertCoverage, Alerts
  <2>. QED
    BY <2>1, <2>2 DEF SafeInv, CallsLeaveTraces, EverOffIsTrue, RowIsLogged, Logged
<1>15. CASE UNCHANGED syncVars
  BY <1>15 DEF syncVars, portalVars, configVars, tableVars, lossVars, SafeInv, CallsLeaveTraces,
     EverOffIsTrue, RowIsLogged, Logged, AlertHasHistory, AlertCoverage
<1>. QED
  BY <1>1, <1>2, <1>3, <1>4, <1>5, <1>6, <1>8, <1>9, <1>10, <1>11, <1>12, <1>13, <1>14, <1>15
     DEF SyncNext, SyncStep

(* What a row holds is in the history, about to be, or was lost with the    *)
(* call that wrote it, however the calls interleave.                        *)
THEOREM RowsAreLogged == SyncSpec => []RowIsLogged
<1>1. SafeInv => RowIsLogged
  BY DEF SafeInv
<1>. QED  BY TypeInit, TypeStep, SafeInit, SafeStep, <1>1, PTL DEF SyncSpec

(* Every logged warrant has an alert for each configuration that was always *)
(* on, is about to, or its call died; and no alert precedes its warrant.    *)
THEOREM AlertsAreCovered == SyncSpec => []AlertsFollowHistory
<1>1. SafeInv => AlertsFollowHistory
  BY DEF SafeInv, AlertsFollowHistory
<1>. QED  BY TypeInit, TypeStep, SafeInit, SafeStep, <1>1, PTL DEF SyncSpec

-----------------------------------------------------------------------------
(* The history chain, for one call at a time.                               *)
OneCall == \A s, t \in Syncers : s = t

(* Where entry i starts, and what HistoryIsChain says of it.                *)
Prior(h, i) == IF i = 1 THEN None ELSE h[i - 1].to

Linked(h, i) ==
    /\ h[i].from = Prior(h, i)
    /\ h[i].kind = "CREATED" <=> i = 1
    /\ h[i].kind = "UPDATED" => Status[h[i].to] = Status[Prior(h, i)]
    /\ h[i].kind = "REVOKED" <=> i > 1 /\ Status[Prior(h, i)] # Revoked /\ Status[h[i].to] = Revoked

NothingLost(w) == lost \cap ({w} \X Snapshots) = {}

Appending(w) == \E s \in Syncers : sync[s].w = w /\ sync[s].pc = "append"

(* The call that has yet to log its change knows where the chain ends, and  *)
(* the one that has yet to write the row knows the row.                     *)
ChainInv ==
    \A w \in Warrants : NothingLost(w) =>
        /\ \A i \in DOMAIN history[w] : Linked(history[w], i)
        /\ ~Appending(w) => warrant[w] = Prior(history[w], Len(history[w]) + 1)
        /\ \A s \in Syncers : (sync[s].w = w /\ sync[s].pc = "append") =>
             warrant[w] = sync[s].raw /\ sync[s].prev = Prior(history[w], Len(history[w]) + 1)
        /\ \A s \in Syncers : (sync[s].w = w /\ sync[s].pc = "upsert") =>
             sync[s].prev = warrant[w]

(* The label tells a first entry, an unchanged status and a revocation.     *)
LEMMA ChangeKindMeaning ==
    ASSUME NEW prev \in Snapshots \cup {None}, NEW raw \in Snapshots
    PROVE  /\ ChangeKind(prev, raw) = "CREATED" <=> prev = None
           /\ ChangeKind(prev, raw) = "UPDATED" => Status[raw] = Status[prev]
           /\ ChangeKind(prev, raw) = "REVOKED" <=>
                prev # None /\ Status[prev] # Revoked /\ Status[raw] = Revoked
<1>1. CASE prev = None
  BY <1>1 DEF ChangeKind
<1>2. CASE prev # None /\ Status[prev] = Status[raw]
  BY <1>2 DEF ChangeKind
<1>3. CASE prev # None /\ Status[prev] # Status[raw] /\ Status[raw] = Revoked
  BY <1>3 DEF ChangeKind
<1>4. CASE prev # None /\ Status[prev] # Status[raw] /\ Status[raw] # Revoked
  BY <1>4 DEF ChangeKind
<1>. QED  BY <1>1, <1>2, <1>3, <1>4

(* Appending an entry that starts where the chain ends keeps it a chain,    *)
(* which then ends where that entry does.                                   *)
LEMMA ChainGrows ==
    ASSUME NEW h \in Seq(Entries), NEW e \in Entries,
           \A i \in DOMAIN h : Linked(h, i),
           e.from = Prior(h, Len(h) + 1), e.kind = ChangeKind(e.from, e.to)
    PROVE  /\ \A i \in DOMAIN Append(h, e) : Linked(Append(h, e), i)
           /\ Prior(Append(h, e), Len(Append(h, e)) + 1) = e.to
<1>. DEFINE g == Append(h, e)
            prev == e.from
<1>1. e \in Entries
  OBVIOUS
<1>2. e.from \in Snapshots \cup {None} /\ e.to \in Snapshots
  BY DEF Entries
<1>3. Len(h) \in Nat /\ DOMAIN h = 1..Len(h) /\ Len(g) = Len(h) + 1
  BY <1>1
<1>4. /\ DOMAIN g = 1..(Len(h) + 1) /\ g[Len(h) + 1] = e
      /\ \A i \in DOMAIN h : g[i] = h[i]
  BY <1>1, AppendFacts
<1>. HIDE DEF g
<1>5. \A i \in 1..(Len(h) + 1) : Prior(g, i) = Prior(h, i)
  <2>. SUFFICES ASSUME NEW i \in 1..(Len(h) + 1), i # 1 PROVE g[i - 1] = h[i - 1]
    BY DEF Prior
  <2>1. i - 1 \in DOMAIN h
    BY <1>3
  <2>. QED  BY <1>4, <2>1
<1>6. ASSUME NEW i \in DOMAIN h PROVE Linked(g, i)
  <2>1. g[i] = h[i] /\ Prior(g, i) = Prior(h, i) /\ Linked(h, i)
    BY <1>3, <1>4, <1>5, <1>6
  <2>. QED  BY <2>1 DEF Linked
<1>7. Linked(g, Len(h) + 1)
  <2>1. prev = None <=> Len(h) + 1 = 1
    <3>1. CASE Len(h) = 0
      BY <3>1 DEF Prior
    <3>2. CASE Len(h) # 0
      <4>1. Len(h) \in DOMAIN h /\ Len(h) + 1 # 1 /\ Len(h) + 1 - 1 = Len(h)
        BY <1>3, <3>2
      <4>2. prev = h[Len(h)].to
        BY <4>1 DEF Prior
      <4>3. h[Len(h)] \in Entries
        BY <4>1
      <4>4. prev \in Snapshots
        BY <4>2, <4>3 DEF Entries
      <4>. QED  BY <4>1, <4>4, NoneAssumption
    <3>. QED  BY <3>1, <3>2
  <2>2. Prior(g, Len(h) + 1) = prev /\ g[Len(h) + 1] = e
    BY <1>3, <1>4, <1>5
  <2>3. (Len(h) + 1 > 1) <=> Len(h) + 1 # 1
    BY <1>3
  <2>. QED  BY <1>2, <2>1, <2>2, <2>3, ChangeKindMeaning DEF Linked
<1>8. Prior(g, Len(g) + 1) = e.to
  <2>1. Len(g) + 1 # 1 /\ Len(g) + 1 - 1 = Len(h) + 1
    BY <1>3
  <2>. QED  BY <1>2, <1>4, <2>1 DEF Prior
<1>. QED  BY <1>3, <1>4, <1>6, <1>7, <1>8 DEF g

(* An empty history is a chain that ends at no snapshot.                    *)
LEMMA ChainInit == SyncInit => ChainInv
<1>1. Len(<<>>) = 0 /\ DOMAIN <<>> = {} /\ Prior(<<>>, 1) = None
  BY DEF Prior
<1>. QED  BY <1>1 DEF SyncInit, ChainInv, Appending, Idle

(* A step of the only call that writes neither the row nor the history.     *)
LEMMA QuietChain ==
    ASSUME ChainInv, OneCall, NEW s \in Syncers, UNCHANGED <<warrant, history>>,
           sync'[s].pc # "append",
           sync'[s].pc = "upsert" => sync'[s].prev = warrant[sync'[s].w],
           \A w \in Warrants : NothingLost(w)' =>
               NothingLost(w) /\ ~(sync[s].w = w /\ sync[s].pc = "append")
    PROVE  ChainInv'
<1>. SUFFICES ASSUME NEW w \in Warrants, NothingLost(w)'
              PROVE  /\ \A i \in DOMAIN history[w] : Linked(history[w], i)
                     /\ warrant[w] = Prior(history[w], Len(history[w]) + 1)
                     /\ \A t \in Syncers : sync'[t].pc # "append"
                     /\ \A t \in Syncers : (sync'[t].w = w /\ sync'[t].pc = "upsert") =>
                          sync'[t].prev = warrant[w]
  BY DEF ChainInv
<1>1. NothingLost(w) /\ ~Appending(w)
  BY DEF OneCall, Appending
<1>2. \A t \in Syncers : t = s
  BY DEF OneCall
<1>. QED  BY <1>1, <1>2 DEF ChainInv

(* ChainInv is inductive when there is only one call at a time.             *)
LEMMA ChainStep == OneCall /\ TypeInv /\ ChainInv /\ [SyncNext]_syncVars => ChainInv'
<1>. SUFFICES ASSUME OneCall, TypeInv, ChainInv, [SyncNext]_syncVars PROVE ChainInv'
  OBVIOUS
<1>0. /\ TypeOK
      /\ \A s \in Syncers : sync[s].pc # "idle" => sync[s].w \in Warrants /\ sync[s].raw \in Snapshots
      /\ \A s, t \in Syncers : s = t
  BY DEF TypeInv, CallFields, OneCall
<1>1. ASSUME NEW s \in Syncers, sync[s].pc # "append", UNCHANGED <<warrant, history, lost>>,
             sync'[s].pc \notin {"append", "upsert"}
      PROVE  ChainInv'
  BY <1>1, QuietChain DEF NothingLost
<1>2. ASSUME NEW s \in Syncers, NEW w \in Warrants, Fetch(s, w) PROVE ChainInv'
  <2>1. sync[s].pc = "idle" /\ sync'[s].pc = "find"
    BY <1>0, <1>2 DEF Fetch, TypeOK, Idle
  <2>. QED  BY <1>1, <1>2, <2>1 DEF Fetch, tableVars, lossVars
<1>3. ASSUME NEW s \in Syncers, FindUnchanged(s) PROVE ChainInv'
  <2>1. sync[s].pc = "find" /\ sync'[s].pc = "idle"
    BY <1>0, <1>3 DEF FindUnchanged, Return, TypeOK, Idle
  <2>. QED  BY <1>1, <1>3, <2>1 DEF FindUnchanged, tableVars, lossVars
<1>4. ASSUME NEW s \in Syncers, FindChanged(s) PROVE ChainInv'
  <2>1. /\ sync[s].pc = "find" /\ sync'[s].pc = "upsert"
        /\ sync'[s].w = sync[s].w /\ sync'[s].prev = warrant[sync[s].w]
    BY <1>0, <1>4 DEF FindChanged, TypeOK, Calls
  <2>. QED  BY <1>4, <2>1, QuietChain DEF FindChanged, tableVars, lossVars, NothingLost
<1>5. ASSUME NEW s \in Syncers, Upsert(s) PROVE ChainInv'
  <2>1. /\ sync[s].pc = "upsert" /\ sync'[s].pc = "append" /\ sync'[s].w = sync[s].w
        /\ sync'[s].raw = sync[s].raw /\ sync'[s].prev = sync[s].prev
    BY <1>0, <1>5 DEF Upsert, MoveTo, TypeOK, Calls
  <2>2. /\ sync[s].w \in Warrants /\ UNCHANGED <<history, lost>>
        /\ warrant'[sync[s].w] = sync[s].raw
        /\ \A w \in Warrants : w # sync[s].w => warrant'[w] = warrant[w]
    BY <1>0, <1>5, <2>1 DEF Upsert, TypeOK, lossVars
  <2>. SUFFICES ASSUME NEW w \in Warrants, NothingLost(w)'
                PROVE  /\ \A i \in DOMAIN history[w] : Linked(history[w], i)
                       /\ ~Appending(w)' => warrant'[w] = Prior(history[w], Len(history[w]) + 1)
                       /\ sync[s].w = w => warrant'[w] = sync[s].raw
                            /\ sync[s].prev = Prior(history[w], Len(history[w]) + 1)
    BY <1>0, <2>1, <2>2 DEF ChainInv
  <2>3. NothingLost(w) /\ ~Appending(w)
    BY <1>0, <2>1, <2>2 DEF NothingLost, Appending
  <2>4. sync[s].w = w => Appending(w)'
    BY <2>1 DEF Appending
  <2>. QED  BY <2>1, <2>2, <2>3, <2>4 DEF ChainInv
<1>6. ASSUME NEW s \in Syncers, AppendHistory(s) PROVE ChainInv'
  <2>. DEFINE h == history[sync[s].w]
              e == [kind |-> ChangeKind(sync[s].prev, sync[s].raw),
                    from |-> sync[s].prev, to |-> sync[s].raw]
  <2>1. /\ sync[s].pc = "append" /\ sync'[s].pc = "pdf" /\ sync'[s].w = sync[s].w
        /\ sync[s].w \in Warrants /\ sync[s].raw \in Snapshots
        /\ sync[s].prev \in Snapshots \cup {None}
    BY <1>0, <1>6 DEF AppendHistory, MoveTo, TypeOK, Calls
  <2>2. /\ UNCHANGED <<warrant, lost>>
        /\ history'[sync[s].w] = Append(h, e)
        /\ \A w \in Warrants : w # sync[s].w => history'[w] = history[w]
    BY <1>0, <1>6, <2>1 DEF AppendHistory, TypeOK, lossVars
  <2>3. h \in Seq(Entries)
    BY <1>0, <2>1 DEF TypeOK
  <2>. SUFFICES ASSUME NEW w \in Warrants, NothingLost(w)'
                PROVE  /\ \A i \in DOMAIN history'[w] : Linked(history'[w], i)
                       /\ warrant[w] = Prior(history'[w], Len(history'[w]) + 1)
    BY <1>0, <2>1, <2>2 DEF ChainInv
  <2>4. NothingLost(w)
    BY <2>2 DEF NothingLost
  <2>5. CASE w # sync[s].w
    <3>1. ~Appending(w)
      BY <1>0, <2>5 DEF Appending
    <3>. QED  BY <2>2, <2>4, <2>5, <3>1 DEF ChainInv
  <2>6. CASE w = sync[s].w
    <3>1. PICK k : k = h
      OBVIOUS
    <3>2. PICK g : g = e
      OBVIOUS
    <3>3. /\ g \in Entries /\ g.from = sync[s].prev /\ g.to = sync[s].raw
          /\ g.kind = ChangeKind(g.from, g.to)
      BY <2>1, <3>2, ChangeKindType DEF Entries
    <3>4. k \in Seq(Entries) /\ history'[w] = Append(k, g)
      BY <2>2, <2>3, <2>6, <3>1, <3>2
    <3>5. /\ \A i \in DOMAIN k : Linked(k, i)
          /\ warrant[w] = g.to /\ g.from = Prior(k, Len(k) + 1)
      BY <2>1, <2>4, <2>6, <3>1, <3>3 DEF ChainInv
    <3>6. /\ \A i \in DOMAIN Append(k, g) : Linked(Append(k, g), i)
          /\ Prior(Append(k, g), Len(Append(k, g)) + 1) = g.to
      BY <3>3, <3>4, <3>5, ChainGrows
    <3>. QED  BY <3>4, <3>5, <3>6
  <2>. QED  BY <2>5, <2>6
<1>7. ASSUME NEW s \in Syncers, PublishPdf(s) PROVE ChainInv'
  <2>1. sync[s].pc = "pdf" /\ sync'[s].pc = "configs"
    BY <1>0, <1>7 DEF PublishPdf, MoveTo, TypeOK, Calls
  <2>. QED  BY <1>1, <1>7, <2>1 DEF PublishPdf, tableVars, lossVars
<1>8. ASSUME NEW s \in Syncers, NEW rest, NextConfig(s, rest)
      PROVE  sync'[s].pc \in {"idle", "enqueue"}
  BY <1>0, <1>8 DEF NextConfig, Return, Idle, TypeOK, Calls
<1>9. ASSUME NEW s \in Syncers, ListConfigs(s) \/ PublishAlert(s) PROVE ChainInv'
  <2>1. sync[s].pc \in {"configs", "publish"} /\ sync'[s].pc \in {"idle", "enqueue"}
    BY <1>8, <1>9 DEF ListConfigs, PublishAlert
  <2>. QED  BY <1>1, <1>9, <2>1 DEF ListConfigs, PublishAlert, tableVars, lossVars
<1>10. ASSUME NEW s \in Syncers, NEW c \in Configs, EnqueueAlert(s, c) PROVE ChainInv'
  <2>1. sync[s].pc = "enqueue" /\ sync'[s].pc \in {"idle", "enqueue", "publish"}
    <3>1. CASE alerts[<<sync[s].w, c>>] \in {"NONE", "PENDING"}
      BY <1>0, <1>10, <3>1 DEF EnqueueAlert, TypeOK, Calls
    <3>2. CASE alerts[<<sync[s].w, c>>] \notin {"NONE", "PENDING"}
      BY <1>8, <1>10, <3>2 DEF EnqueueAlert
    <3>. QED  BY <3>1, <3>2
  <2>. QED  BY <1>1, <1>10, <2>1 DEF EnqueueAlert, lossVars
<1>11. ASSUME NEW s \in Syncers, SyncFails(s) PROVE ChainInv'
  <2>1. sync[s].pc # "idle" /\ sync'[s].pc = "idle" /\ UNCHANGED <<warrant, history>>
    BY <1>0, <1>11 DEF SyncFails, Return, TypeOK, Idle, tableVars
  <2>2. /\ lost \subseteq lost'
        /\ sync[s].pc = "append" => <<sync[s].w, sync[s].raw>> \in lost' /\ sync[s].raw \in Snapshots
    BY <1>0, <1>11 DEF SyncFails
  <2>3. \A w \in Warrants : NothingLost(w)' =>
            NothingLost(w) /\ ~(sync[s].w = w /\ sync[s].pc = "append")
    BY <2>2 DEF NothingLost
  <2>. QED  BY <2>1, <2>3, QuietChain
<1>12. CASE UNCHANGED <<sync, warrant, history, lost>>
  BY <1>12 DEF ChainInv, NothingLost, Appending
<1>13. ASSUME NEW w \in Warrants, NEW p \in Snapshots, PortalChanges(w, p) PROVE ChainInv'
  BY <1>12, <1>13 DEF PortalChanges, tableVars, lossVars
<1>14. ASSUME NEW c \in Configs, ToggleConfig(c) PROVE ChainInv'
  BY <1>12, <1>14 DEF ToggleConfig, tableVars, lossVars
<1>15. ASSUME NEW a \in Alerts, NEW st \in Final, AlertSettles(a, st) PROVE ChainInv'
  BY <1>12, <1>15 DEF AlertSettles, lossVars
<1>16. CASE UNCHANGED syncVars
  BY <1>12, <1>16 DEF syncVars, tableVars, lossVars
<1>. QED
  BY <1>2, <1>3, <1>4, <1>5, <1>6, <1>7, <1>9, <1>10, <1>11, <1>13, <1>14, <1>15, <1>16
     DEF SyncNext, SyncStep

(* With one call at a time, and whatever fails, the history of a warrant    *)
(* that lost no entry is a chain from CREATED to the row, each entry        *)
(* labelled by the change from the one before it.                           *)
THEOREM HistoryChains ==
    ASSUME OneCall
    PROVE  SyncSpec => []HistoryIsChain
<1>1. TypeInv /\ ChainInv => HistoryIsChain
  BY DEF HistoryIsChain, ChainInv, Linked, Prior, NothingLost, Appending
<1>2. TypeInv /\ ChainInv /\ [SyncNext]_syncVars => ChainInv'
  BY ChainStep
<1>. QED  BY TypeInit, TypeStep, ChainInit, <1>1, <1>2, PTL DEF SyncSpec

-----------------------------------------------------------------------------
(* The pipeline: the calls of syncWarrant and the alert handlers together.  *)
WorkerRows == [pc: Delivery!Steps, job: Nat, snap: Snapshots \cup {None}, at: Nat]

(* A running handler has a job of the queue.                                *)
QueueTypeOK ==
    /\ jobs \in Seq(Delivery!JobRows)
    /\ worker \in [Workers -> WorkerRows]
    /\ \A x \in Workers : worker[x].pc # "idle" => worker[x].job \in DOMAIN jobs
    /\ delivered \in [Alerts -> Seq(Delivery!Messages)]

(* No job is published before its alert exists.                             *)
JobsHaveAlerts ==
    /\ \A i \in DOMAIN jobs : alerts[jobs[i].alert] # "NONE"
    /\ \A s \in Syncers : sync[s].pc = "publish" => alerts[<<sync[s].w, sync[s].cfg>>] # "NONE"

(* A handler that returns leaves its alert settled.                         *)
DoneIsSettled ==
    \A x \in Workers : worker[x].pc = "complete" => alerts[Delivery!AlertOf(x)] \in Final

Live == {"queued", "active"}

(* What a handler's step does to the queue: jobs stay where they are and    *)
(* keep their alert, and a live one stays live, is completed by a handler   *)
(* that is through with it, or is given up for good.                        *)
QueueMoves(x) ==
    /\ DOMAIN jobs' = DOMAIN jobs
    /\ \A i \in DOMAIN jobs :
         /\ jobs'[i].alert = jobs[i].alert
         /\ jobs[i].state \in Live =>
              \/ jobs'[i].state \in Live
              \/ jobs[i].alert \in exhausted'
              \/ worker[x].pc = "complete" /\ worker[x].job = i
    /\ exhausted \subseteq exhausted'

(* What it does to the alerts: nothing, or it settles its own.              *)
AlertMoves(x) ==
    \/ alerts' = alerts
    \/ /\ worker[x].pc \in {"markSent", "markFailed", "markSkipped"}
       /\ \E st \in Final : alerts' = [alerts EXCEPT ![Delivery!AlertOf(x)] = st]

HandlerStep(x) ==
    Delivery!WorkerStep(x) \/ Delivery!SendLosesReply(x) \/ Delivery!WorkerFails(x)

(* A handler with a job has an alert.                                       *)
LEMMA AlertOfType ==
    ASSUME QueueTypeOK, NEW x \in Workers, worker[x].pc # "idle"
    PROVE  /\ worker[x].job \in DOMAIN jobs
           /\ jobs[worker[x].job] \in Delivery!JobRows
           /\ Delivery!AlertOf(x) \in Alerts
           /\ Delivery!AlertOf(x) = jobs[worker[x].job].alert
<1>1. worker[x].job \in DOMAIN jobs /\ jobs \in Seq(Delivery!JobRows)
  BY DEF QueueTypeOK
<1>2. jobs[worker[x].job] \in Delivery!JobRows
  BY <1>1
<1>. QED  BY <1>1, <1>2 DEF Delivery!AlertOf, Delivery!JobRows, Delivery!Alerts, Alerts

(* Changing a job's state or retries leaves the queue well typed.           *)
LEMMA OneJobMoves ==
    ASSUME QueueTypeOK, NEW i \in DOMAIN jobs, NEW st \in Delivery!JobStates,
           NEW n \in 0..RetryLimit,
           NEW j, j = [alert |-> jobs[i].alert, state |-> st, retries |-> n],
           jobs' = [jobs EXCEPT ![i] = j]
    PROVE  /\ jobs' \in Seq(Delivery!JobRows) /\ DOMAIN jobs' = DOMAIN jobs
           /\ jobs'[i].alert = jobs[i].alert /\ jobs'[i].state = st
           /\ \A k \in DOMAIN jobs : k # i => jobs'[k] = jobs[k]
           /\ \A k \in DOMAIN jobs : jobs'[k].alert = jobs[k].alert
<1>1. jobs \in Seq(Delivery!JobRows) /\ jobs[i] \in Delivery!JobRows
  BY DEF QueueTypeOK
<1>2. j \in Delivery!JobRows /\ j.alert = jobs[i].alert /\ j.state = st
  BY <1>1 DEF Delivery!JobRows
<1>3. jobs' \in Seq(Delivery!JobRows) /\ DOMAIN jobs' = DOMAIN jobs
  BY <1>1, <1>2
<1>4. jobs'[i] = j /\ \A k \in DOMAIN jobs : k # i => jobs'[k] = jobs[k]
  BY <1>1
<1>. QED  BY <1>2, <1>3, <1>4

(* A handler that throws or dies gives its job up: to be run again, or for  *)
(* good.                                                                    *)
LEMMA FailingMoves ==
    ASSUME QueueTypeOK, NEW x \in Workers, worker[x].pc # "idle", Delivery!JobFails(x)
    PROVE  /\ jobs' \in Seq(Delivery!JobRows) /\ QueueMoves(x)
           /\ worker' = [worker EXCEPT ![x] = Delivery!IdleWorker]
<1>1. PICK i \in DOMAIN jobs : i = worker[x].job
  BY AlertOfType
<1>2. jobs[i] \in Delivery!JobRows
  BY <1>1, AlertOfType
<1>3. jobs[i] = [alert |-> jobs[i].alert, state |-> jobs[i].state, retries |-> jobs[i].retries]
      /\ jobs[i].retries \in 0..RetryLimit
  BY <1>2 DEF Delivery!JobRows
<1>4. worker' = [worker EXCEPT ![x] = Delivery!IdleWorker]
  BY DEF Delivery!JobFails
<1>5. CASE jobs[i].retries < RetryLimit
  <2>1. PICK j : j = [alert |-> jobs[i].alert, state |-> "queued", retries |-> jobs[i].retries + 1]
    OBVIOUS
  <2>. DEFINE again == [alert |-> jobs[i].alert, state |-> "queued", retries |-> jobs[i].retries + 1]
  <2>2. jobs' = [jobs EXCEPT ![i] = again] /\ exhausted' = exhausted
    BY <1>1, <1>2, <1>3, <1>5 DEF Delivery!JobFails, Delivery!JobRows
  <2>3. jobs' = [jobs EXCEPT ![i] = j]
    BY <2>1, <2>2
  <2>4. jobs[i].retries + 1 \in 0..RetryLimit /\ "queued" \in Delivery!JobStates
    BY <1>3, <1>5, QueueAssumption DEF Delivery!JobStates
  <2>5. /\ jobs' \in Seq(Delivery!JobRows) /\ DOMAIN jobs' = DOMAIN jobs
        /\ jobs'[i].alert = jobs[i].alert /\ jobs'[i].state = "queued"
        /\ \A k \in DOMAIN jobs : k # i => jobs'[k] = jobs[k]
        /\ \A k \in DOMAIN jobs : jobs'[k].alert = jobs[k].alert
    BY <2>1, <2>3, <2>4, OneJobMoves
  <2>. QED  BY <1>4, <2>2, <2>5 DEF QueueMoves, Live
<1>6. CASE ~(jobs[i].retries < RetryLimit)
  <2>1. PICK j : j = [alert |-> jobs[i].alert, state |-> "failed", retries |-> jobs[i].retries]
    OBVIOUS
  <2>2. jobs' = [jobs EXCEPT ![i] = [jobs[i] EXCEPT !.state = "failed"]]
        /\ exhausted' = exhausted \cup {jobs[i].alert}
    BY <1>1, <1>6 DEF Delivery!JobFails
  <2>6. [jobs[i] EXCEPT !.state = "failed"] = j
    BY <1>3, <2>1
  <2>3. jobs' = [jobs EXCEPT ![i] = j]
    BY <2>2, <2>6
  <2>4. "failed" \in Delivery!JobStates
    BY DEF Delivery!JobStates
  <2>5. /\ jobs' \in Seq(Delivery!JobRows) /\ DOMAIN jobs' = DOMAIN jobs
        /\ \A k \in DOMAIN jobs : k # i => jobs'[k] = jobs[k]
        /\ \A k \in DOMAIN jobs : jobs'[k].alert = jobs[k].alert
    BY <1>3, <2>1, <2>3, <2>4, OneJobMoves
  <2>. QED  BY <1>4, <2>2, <2>5 DEF QueueMoves, Live
<1>. QED  BY <1>5, <1>6

(* The handler returns: the job it had is over.                             *)
LEMMA CompletingMoves ==
    ASSUME QueueTypeOK, NEW x \in Workers, Delivery!Complete(x)
    PROVE  /\ jobs' \in Seq(Delivery!JobRows) /\ QueueMoves(x)
           /\ worker' = [worker EXCEPT ![x] = Delivery!IdleWorker]
           /\ UNCHANGED exhausted
<1>1. worker[x].pc = "complete" /\ worker' = [worker EXCEPT ![x] = Delivery!IdleWorker]
      /\ UNCHANGED exhausted
  BY DEF Delivery!Complete
<1>2. PICK i \in DOMAIN jobs : i = worker[x].job
  BY <1>1, AlertOfType
<1>3. jobs[i] \in Delivery!JobRows
  BY <1>1, <1>2, AlertOfType
<1>4. jobs[i] = [alert |-> jobs[i].alert, state |-> jobs[i].state, retries |-> jobs[i].retries]
      /\ jobs[i].retries \in 0..RetryLimit
  BY <1>3 DEF Delivery!JobRows
<1>5. PICK j : j = [alert |-> jobs[i].alert, state |-> "completed", retries |-> jobs[i].retries]
  OBVIOUS
<1>6. jobs' = [jobs EXCEPT ![i] = [jobs[i] EXCEPT !.state = "completed"]]
  BY <1>2 DEF Delivery!Complete
<1>9. [jobs[i] EXCEPT !.state = "completed"] = j
  BY <1>4, <1>5
<1>7. jobs' = [jobs EXCEPT ![i] = j] /\ "completed" \in Delivery!JobStates
  BY <1>6, <1>9 DEF Delivery!JobStates
<1>8. /\ jobs' \in Seq(Delivery!JobRows) /\ DOMAIN jobs' = DOMAIN jobs
      /\ \A k \in DOMAIN jobs : k # i => jobs'[k] = jobs[k]
      /\ \A k \in DOMAIN jobs : jobs'[k].alert = jobs[k].alert
  BY <1>4, <1>5, <1>7, OneJobMoves
<1>. QED  BY <1>1, <1>2, <1>8 DEF QueueMoves, Live

(* A handler takes a queued job, which becomes active.                      *)
LEMMA TakingMoves ==
    ASSUME QueueTypeOK, NEW x \in Workers, NEW i \in DOMAIN jobs, Delivery!TakeJob(x, i)
    PROVE  /\ jobs' \in Seq(Delivery!JobRows) /\ QueueMoves(x)
           /\ worker' \in [Workers -> WorkerRows]
           /\ worker'[x].pc = "alert" /\ worker'[x].job = i
           /\ \A y \in Workers : y # x => worker'[y] = worker[y]
<1>1. jobs[i] \in Delivery!JobRows /\ i \in Nat /\ worker \in [Workers -> WorkerRows]
  BY DEF QueueTypeOK
<1>2. jobs[i] = [alert |-> jobs[i].alert, state |-> jobs[i].state, retries |-> jobs[i].retries]
      /\ jobs[i].retries \in 0..RetryLimit
  BY <1>1 DEF Delivery!JobRows
<1>3. PICK j : j = [alert |-> jobs[i].alert, state |-> "active", retries |-> jobs[i].retries]
  OBVIOUS
<1>4. jobs' = [jobs EXCEPT ![i] = [jobs[i] EXCEPT !.state = "active"]] /\ exhausted' = exhausted
  BY DEF Delivery!TakeJob
<1>10. [jobs[i] EXCEPT !.state = "active"] = j
  BY <1>2, <1>3
<1>5. jobs' = [jobs EXCEPT ![i] = j] /\ "active" \in Delivery!JobStates
  BY <1>4, <1>10 DEF Delivery!JobStates
<1>6. /\ jobs' \in Seq(Delivery!JobRows) /\ DOMAIN jobs' = DOMAIN jobs
      /\ jobs'[i].state = "active"
      /\ \A k \in DOMAIN jobs : k # i => jobs'[k] = jobs[k]
      /\ \A k \in DOMAIN jobs : jobs'[k].alert = jobs[k].alert
  BY <1>2, <1>3, <1>5, OneJobMoves
<1>7. worker' = [worker EXCEPT ![x].pc = "alert", ![x].job = i] /\ "alert" \in Delivery!Steps
  BY DEF Delivery!TakeJob, Delivery!Steps
<1>8. worker' \in [Workers -> WorkerRows]
  BY <1>1, <1>7 DEF WorkerRows
<1>9. /\ worker'[x].pc = "alert" /\ worker'[x].job = i
      /\ \A y \in Workers : y # x => worker'[y] = worker[y]
  BY <1>1, <1>7 DEF WorkerRows
<1>. QED  BY <1>4, <1>6, <1>8, <1>9 DEF QueueMoves, Live

(* The handler's steps from one await to the next keep its job; a handler   *)
(* that is through has settled its alert, or found it not PENDING.          *)
HandlerMoves(x) ==
    \/ Delivery!FindAlert(x) \/ Delivery!FindConfig(x) \/ Delivery!FindWarrant(x)
    \/ Delivery!FindHistory(x)
    \/ Delivery!SendSucceeds(x) \/ Delivery!SendFailsForGood(x) \/ Delivery!SendLosesReply(x)
    \/ Delivery!MarkSent(x) \/ Delivery!MarkFailed(x) \/ Delivery!MarkSkipped(x)

LEMMA MovesOn ==
    ASSUME TypeOK, QueueTypeOK, NEW x \in Workers, HandlerMoves(x)
    PROVE  /\ worker[x].pc # "idle" /\ worker'[x].pc # "idle"
           /\ worker' \in [Workers -> WorkerRows] /\ worker'[x].job = worker[x].job
           /\ \A y \in Workers : y # x => worker'[y] = worker[y]
           /\ UNCHANGED <<jobs, exhausted>> /\ AlertMoves(x)
           /\ worker'[x].pc = "complete" =>
                \/ worker[x].pc = "alert" /\ alerts[Delivery!AlertOf(x)] # "PENDING"
                     /\ UNCHANGED alerts
                \/ \E st \in Final : alerts' = [alerts EXCEPT ![Delivery!AlertOf(x)] = st]
<1>1. UNCHANGED <<jobs, exhausted>> /\ worker[x].pc # "idle"
  BY DEF HandlerMoves, Delivery!FindAlert, Delivery!FindConfig, Delivery!FindWarrant,
         Delivery!FindHistory, Delivery!SendSucceeds, Delivery!SendFailsForGood,
         Delivery!SendLosesReply, Delivery!MarkSent, Delivery!MarkFailed, Delivery!MarkSkipped,
         Delivery!Mark
<1>2. worker \in [Workers -> WorkerRows] /\ worker[x] \in WorkerRows
  BY DEF QueueTypeOK
<1>3. PICK a \in Alerts : a = Delivery!AlertOf(x)
  BY <1>1, AlertOfType
<1>4. ASSUME NEW pc \in Delivery!Steps \ {"idle"}, worker' = [worker EXCEPT ![x].pc = pc]
      PROVE  /\ worker' \in [Workers -> WorkerRows] /\ worker'[x].job = worker[x].job
             /\ worker'[x].pc = pc
             /\ \A y \in Workers : y # x => worker'[y] = worker[y]
  BY <1>2, <1>4 DEF WorkerRows
<1>5. CASE Delivery!FindAlert(x)
  <2>. DEFINE pc == IF alerts[a] = "PENDING" THEN "config" ELSE "complete"
  <2>1. pc \in Delivery!Steps \ {"idle"}
    BY DEF Delivery!Steps
  <2>2. /\ worker' = [worker EXCEPT ![x].pc = pc] /\ UNCHANGED alerts
        /\ worker[x].pc = "alert"
    BY <1>3, <1>5 DEF Delivery!FindAlert, Delivery!MoveTo
  <2>3. pc = "complete" => alerts[a] # "PENDING"
    OBVIOUS
  <2>. HIDE DEF pc
  <2>4. /\ worker' \in [Workers -> WorkerRows] /\ worker'[x].job = worker[x].job
        /\ worker'[x].pc = pc /\ pc # "idle"
        /\ \A y \in Workers : y # x => worker'[y] = worker[y]
    BY <1>4, <2>1, <2>2
  <2>. QED  BY <1>1, <1>3, <2>2, <2>3, <2>4 DEF AlertMoves
<1>6. CASE Delivery!FindConfig(x)
  <2>. DEFINE pc == IF enabled[a[2]] THEN "warrant" ELSE "markSkipped"
  <2>1. pc \in Delivery!Steps \ {"idle", "complete"}
    BY DEF Delivery!Steps
  <2>2. worker' = [worker EXCEPT ![x].pc = pc] /\ UNCHANGED alerts
    BY <1>3, <1>6 DEF Delivery!FindConfig, Delivery!MoveTo
  <2>. HIDE DEF pc
  <2>3. /\ worker' \in [Workers -> WorkerRows] /\ worker'[x].job = worker[x].job
        /\ worker'[x].pc \notin {"idle", "complete"}
        /\ \A y \in Workers : y # x => worker'[y] = worker[y]
    BY <1>4, <2>1, <2>2
  <2>. QED  BY <1>1, <2>2, <2>3 DEF AlertMoves
<1>7. CASE Delivery!FindWarrant(x)
  <2>1. PICK snap \in Snapshots \cup {None} : snap = warrant[a[1]]
    BY <1>3 DEF TypeOK, Alerts
  <2>2. worker' = [worker EXCEPT ![x].pc = "history", ![x].snap = snap] /\ UNCHANGED alerts
    BY <1>3, <1>7, <2>1 DEF Delivery!FindWarrant
  <2>3. worker' \in [Workers -> WorkerRows]
    BY <1>2, <2>2 DEF WorkerRows, Delivery!Steps
  <2>4. /\ worker'[x].pc = "history" /\ worker'[x].job = worker[x].job
        /\ \A y \in Workers : y # x => worker'[y] = worker[y]
    BY <1>2, <2>2 DEF WorkerRows
  <2>. QED  BY <1>1, <2>2, <2>3, <2>4 DEF AlertMoves
<1>8. CASE Delivery!FindHistory(x)
  <2>1. PICK n \in Nat : n = Len(history[a[1]])
    <3>1. history[a[1]] \in Seq(Entries)
      BY <1>3 DEF TypeOK, Alerts
    <3>. QED  BY <3>1
  <2>2. worker' = [worker EXCEPT ![x].pc = "send", ![x].at = n] /\ UNCHANGED alerts
    BY <1>3, <1>8, <2>1 DEF Delivery!FindHistory
  <2>3. worker' \in [Workers -> WorkerRows]
    BY <1>2, <2>2 DEF WorkerRows, Delivery!Steps
  <2>4. /\ worker'[x].pc = "send" /\ worker'[x].job = worker[x].job
        /\ \A y \in Workers : y # x => worker'[y] = worker[y]
    BY <1>2, <2>2 DEF WorkerRows
  <2>. QED  BY <1>1, <2>2, <2>3, <2>4 DEF AlertMoves
<1>9. CASE Delivery!SendSucceeds(x)
  BY <1>1, <1>4, <1>9 DEF Delivery!SendSucceeds, Delivery!MoveTo, Delivery!Steps, AlertMoves
<1>10. CASE Delivery!SendFailsForGood(x)
  BY <1>1, <1>4, <1>10 DEF Delivery!SendFailsForGood, Delivery!MoveTo, Delivery!Steps, AlertMoves
<1>11. CASE Delivery!SendLosesReply(x)
  BY <1>1, <1>2, <1>11 DEF Delivery!SendLosesReply, AlertMoves
<1>12. CASE Delivery!MarkSent(x) \/ Delivery!MarkFailed(x) \/ Delivery!MarkSkipped(x)
  <2>1. /\ worker[x].pc \in {"markSent", "markFailed", "markSkipped"}
        /\ worker' = [worker EXCEPT ![x].pc = "complete"]
        /\ \E st \in Final : alerts' = [alerts EXCEPT ![Delivery!AlertOf(x)] = st]
    BY <1>12 DEF Delivery!MarkSent, Delivery!MarkFailed, Delivery!MarkSkipped, Delivery!Mark,
                 Delivery!MoveTo, Final
  <2>2. /\ worker' \in [Workers -> WorkerRows] /\ worker'[x].job = worker[x].job
        /\ worker'[x].pc = "complete"
        /\ \A y \in Workers : y # x => worker'[y] = worker[y]
    BY <1>4, <2>1 DEF Delivery!Steps
  <2>. QED  BY <1>1, <2>1, <2>2 DEF AlertMoves
<1>. QED  BY <1>5, <1>6, <1>7, <1>8, <1>9, <1>10, <1>11, <1>12 DEF HandlerMoves

(* Everything a handler's step does, from the lemmas on its kinds.          *)
LEMMA HandlerActs ==
    ASSUME TypeOK, QueueTypeOK, NEW x \in Workers, HandlerStep(x)
    PROVE  /\ jobs' \in Seq(Delivery!JobRows) /\ worker' \in [Workers -> WorkerRows]
           /\ QueueMoves(x) /\ AlertMoves(x)
           /\ \A y \in Workers : y # x => worker'[y] = worker[y]
           /\ worker'[x].pc # "idle" =>
                \/ worker'[x].job = worker[x].job /\ worker[x].pc # "idle"
                \/ worker'[x].pc = "alert" /\ worker'[x].job \in DOMAIN jobs
           /\ worker'[x].pc = "complete" =>
                \/ worker[x].pc = "alert" /\ alerts[Delivery!AlertOf(x)] # "PENDING"
                     /\ UNCHANGED alerts
                \/ \E st \in Final : alerts' = [alerts EXCEPT ![Delivery!AlertOf(x)] = st]
           /\ UNCHANGED <<warrant, history, enabled>>
<1>0. UNCHANGED <<warrant, history, enabled>>
  BY DEF HandlerStep, Delivery!WorkerStep, Delivery!TakeJob, Delivery!FindAlert,
         Delivery!FindConfig, Delivery!FindWarrant, Delivery!FindHistory, Delivery!SendSucceeds,
         Delivery!SendFailsForGood, Delivery!SendFailsForNow, Delivery!MarkSent,
         Delivery!MarkFailed, Delivery!MarkSkipped, Delivery!Mark, Delivery!Complete,
         Delivery!SendLosesReply, Delivery!WorkerFails, Delivery!readVars
<1>1. ASSUME worker' = [worker EXCEPT ![x] = Delivery!IdleWorker]
      PROVE  /\ worker' \in [Workers -> WorkerRows] /\ worker'[x].pc = "idle"
             /\ \A y \in Workers : y # x => worker'[y] = worker[y]
  <2>1. Delivery!IdleWorker \in WorkerRows /\ Delivery!IdleWorker.pc = "idle"
    BY DEF Delivery!IdleWorker, WorkerRows, Delivery!Steps
  <2>. QED  BY <1>1, <2>1 DEF QueueTypeOK
<1>2. CASE \E i \in DOMAIN jobs : Delivery!TakeJob(x, i)
  <2>1. PICK i \in DOMAIN jobs : Delivery!TakeJob(x, i)
    BY <1>2
  <2>2. UNCHANGED alerts
    BY <2>1 DEF Delivery!TakeJob
  <2>. QED  BY <1>0, <2>1, <2>2, TakingMoves DEF AlertMoves
<1>3. CASE HandlerMoves(x)
  <2>1. jobs' \in Seq(Delivery!JobRows) /\ QueueMoves(x)
    BY <1>3, MovesOn DEF QueueTypeOK, QueueMoves
  <2>. QED  BY <1>0, <1>3, <2>1, MovesOn
<1>4. CASE Delivery!Complete(x)
  <2>1. UNCHANGED alerts
    BY <1>4 DEF Delivery!Complete
  <2>. QED  BY <1>0, <1>1, <1>4, <2>1, CompletingMoves DEF AlertMoves
<1>5. CASE Delivery!SendFailsForNow(x) \/ Delivery!WorkerFails(x)
  <2>1. UNCHANGED alerts /\ worker[x].pc # "idle" /\ Delivery!JobFails(x)
    BY <1>5 DEF Delivery!SendFailsForNow, Delivery!WorkerFails
  <2>. QED  BY <1>0, <1>1, <2>1, FailingMoves DEF AlertMoves
<1>. QED
  BY <1>2, <1>3, <1>4, <1>5 DEF HandlerStep, Delivery!WorkerStep, HandlerMoves

(* Telegram accepts messages of an alert only while its handler sends.      *)
LEMMA HandlerPosts ==
    ASSUME TypeOK, QueueTypeOK, NEW x \in Workers, HandlerStep(x)
    PROVE  \/ delivered' = delivered
           \/ /\ worker[x].pc = "send" /\ worker'[x].pc \in {"send", "markSent"}
              /\ alerts' = alerts
              /\ \E e \in Delivery!Messages : delivered' =
                   [delivered EXCEPT ![Delivery!AlertOf(x)] = Append(@, e)]
<1>1. CASE Delivery!SendSucceeds(x) \/ Delivery!SendLosesReply(x)
  <2>. DEFINE e == [snap |-> worker[x].snap, at |-> worker[x].at]
  <2>1. worker[x] \in WorkerRows /\ worker[x].pc = "send" /\ alerts' = alerts
    BY <1>1 DEF QueueTypeOK, Delivery!SendSucceeds, Delivery!SendLosesReply
  <2>2. e \in Delivery!Messages
    BY <2>1 DEF WorkerRows, Delivery!Messages
  <2>3. delivered' = [delivered EXCEPT ![Delivery!AlertOf(x)] = Append(@, e)]
    BY <1>1 DEF Delivery!SendSucceeds, Delivery!SendLosesReply, Delivery!Post
  <2>4. worker'[x].pc \in {"send", "markSent"}
    BY <1>1, <2>1 DEF Delivery!SendSucceeds, Delivery!SendLosesReply, Delivery!MoveTo, QueueTypeOK,
                      WorkerRows
  <2>. HIDE DEF e
  <2>. QED  BY <2>1, <2>2, <2>3, <2>4
<1>2. CASE ~(Delivery!SendSucceeds(x) \/ Delivery!SendLosesReply(x))
  BY <1>2 DEF HandlerStep, Delivery!WorkerStep, Delivery!TakeJob, Delivery!FindAlert,
         Delivery!FindConfig, Delivery!FindWarrant, Delivery!FindHistory,
         Delivery!SendFailsForGood, Delivery!SendFailsForNow, Delivery!MarkSent,
         Delivery!MarkFailed, Delivery!MarkSkipped, Delivery!Mark, Delivery!Complete,
         Delivery!WorkerFails
<1>. QED  BY <1>1, <1>2

(* A step of the pipeline is a step of WarrantSync, to which a handler that *)
(* settles its alert is a part of the environment.                          *)
LEMMA StepIsSync ==
    ASSUME TypeOK, QueueTypeOK, JobsHaveAlerts, [Next]_vars
    PROVE  [SyncNext]_syncVars
<1>1. ASSUME NEW s \in Syncers, Syncs(s) \/ Publishes(s) \/ SyncDies(s) PROVE SyncNext
  BY <1>1 DEF Syncs, Publishes, SyncDies, SyncNext, SyncStep
<1>2. ASSUME NEW x \in Workers, Delivers(x) \/ DeliveryFails(x) PROVE [SyncNext]_syncVars
  <2>1. HandlerStep(x) /\ UNCHANGED <<portalVars, everOff, sync, lossVars>>
    BY <1>2 DEF Delivers, DeliveryFails, HandlerStep
  <2>2. AlertMoves(x) /\ UNCHANGED <<warrant, history, enabled>>
    BY <2>1, HandlerActs
  <2>3. CASE alerts' = alerts
    BY <2>1, <2>2, <2>3 DEF syncVars, configVars, tableVars
  <2>4. CASE /\ worker[x].pc \in {"markSent", "markFailed", "markSkipped"}
             /\ \E st \in Final : alerts' = [alerts EXCEPT ![Delivery!AlertOf(x)] = st]
    <3>1. PICK st \in Final : alerts' = [alerts EXCEPT ![Delivery!AlertOf(x)] = st]
      BY <2>4
    <3>2. PICK a \in Alerts : a = Delivery!AlertOf(x) /\ alerts[a] # "NONE"
      BY <2>4, AlertOfType DEF JobsHaveAlerts
    <3>3. AlertSettles(a, st)
      BY <2>1, <2>2, <3>1, <3>2 DEF AlertSettles, configVars
    <3>. QED  BY <3>3 DEF SyncNext
  <2>. QED  BY <2>2, <2>3, <2>4 DEF AlertMoves
<1>3. CASE OutsideChanges
  BY <1>3 DEF OutsideChanges, SyncNext
<1>4. CASE UNCHANGED vars
  BY <1>4 DEF vars
<1>. QED  BY <1>1, <1>2, <1>3, <1>4 DEF Next

(* A pending alert has a call or a job that will act on it, or was lost.    *)
Carried ==
    \A a \in Alerts : alerts[a] = "PENDING" =>
        Publishing(a) \/ Delivery!HasLiveJob(a) \/ a \in stranded \cup exhausted

QueueInv == QueueTypeOK /\ JobsHaveAlerts /\ DoneIsSettled /\ Carried

PipeInv == TypeInv /\ SafeInv /\ QueueInv

(* A step of a call short of publishing: an alert that it makes PENDING is  *)
(* the one that it is about to publish.                                     *)
LEMMA CallActs ==
    ASSUME TypeInv, NEW s \in Syncers, Syncs(s)
    PROVE  /\ sync[s].pc # "publish"
           /\ \A t \in Syncers : t # s => sync'[t] = sync[t]
           /\ \A a \in Alerts :
                /\ alerts[a] # "NONE" => alerts'[a] # "NONE"
                /\ alerts[a] \in Final => alerts'[a] \in Final
                /\ (alerts'[a] = "PENDING" /\ alerts[a] # "PENDING") => Publishing(a)'
           /\ sync'[s].pc = "publish" =>
                /\ <<sync'[s].w, sync'[s].cfg>> \in Alerts
                /\ alerts'[<<sync'[s].w, sync'[s].cfg>>] # "NONE"
           /\ \/ UNCHANGED alerts
              \/ /\ sync[s].pc = "enqueue" /\ UNCHANGED <<warrant, history, enabled>>
                 /\ \E b \in Alerts : /\ b[1] = sync[s].w /\ alerts[b] = "NONE"
                                      /\ alerts' = [alerts EXCEPT ![b] = "PENDING"]
<1>0. TypeOK /\ sync[s] \in Calls
      /\ (sync[s].pc # "idle" => sync[s].w \in Warrants /\ sync[s].raw \in Snapshots)
  BY DEF TypeInv, TypeOK, CallFields
<1>1. ASSUME NEW c \in Configs, EnqueueAlert(s, c), alerts[<<sync[s].w, c>>] \in {"NONE", "PENDING"}
      PROVE  /\ sync[s].pc = "enqueue" /\ sync[s].w \in Warrants
             /\ \A t \in Syncers : t # s => sync'[t] = sync[t]
             /\ sync'[s].pc = "publish" /\ sync'[s].w = sync[s].w /\ sync'[s].cfg = c
             /\ alerts' = [alerts EXCEPT ![<<sync[s].w, c>>] = "PENDING"]
  BY <1>0, <1>1 DEF EnqueueAlert, TypeOK, Calls
<1>2. CASE \E c \in Configs : EnqueueAlert(s, c) /\ alerts[<<sync[s].w, c>>] \in {"NONE", "PENDING"}
  <2>1. PICK c \in Configs : EnqueueAlert(s, c) /\ alerts[<<sync[s].w, c>>] \in {"NONE", "PENDING"}
    BY <1>2
  <2>2. PICK b \in Alerts : b = <<sync[s].w, c>> /\ b[1] = sync[s].w /\ b[2] = c
    BY <1>1, <2>1 DEF Alerts
  <2>3. /\ alerts[b] \notin Final /\ alerts'[b] = "PENDING"
        /\ \A a \in Alerts : a # b => alerts'[a] = alerts[a]
    BY <1>0, <1>1, <2>1, <2>2 DEF TypeOK, Final
  <2>4. Publishing(b)'
    BY <1>1, <2>1, <2>2 DEF Publishing
  <2>5. alerts' = [alerts EXCEPT ![b] = "PENDING"] /\ UNCHANGED <<warrant, history, enabled>>
    BY <1>1, <2>1, <2>2 DEF EnqueueAlert, configVars
  <2>6. alerts[b] # "NONE" => alerts' = alerts
    <3>1. alerts[b] # "NONE" => alerts[b] = "PENDING"
      BY <2>1, <2>2
    <3>2. alerts \in [Alerts -> AlertStatus]
      BY <1>0 DEF TypeOK
    <3>. QED  BY <2>5, <3>1, <3>2
  <2>. QED  BY <1>1, <2>1, <2>2, <2>3, <2>4, <2>5, <2>6
<1>3. ASSUME NEW rest, NextConfig(s, rest)
      PROVE  sync'[s].pc # "publish" /\ \A t \in Syncers : t # s => sync'[t] = sync[t]
  BY <1>0, <1>3 DEF NextConfig, Return, Idle, TypeOK, Calls
<1>4. CASE \E c \in Configs : EnqueueAlert(s, c) /\ alerts[<<sync[s].w, c>>] \notin {"NONE", "PENDING"}
  <2>1. PICK c \in Configs : EnqueueAlert(s, c) /\ alerts[<<sync[s].w, c>>] \notin {"NONE", "PENDING"}
    BY <1>4
  <2>2. sync[s].pc = "enqueue" /\ alerts' = alerts /\ NextConfig(s, sync[s].todo \ {c})
    BY <2>1 DEF EnqueueAlert
  <2>. QED  BY <1>3, <2>2
<1>5. CASE ListConfigs(s)
  <2>1. sync[s].pc = "configs" /\ alerts' = alerts /\ NextConfig(s, {c \in Configs : enabled[c]})
    BY <1>5 DEF ListConfigs, tableVars
  <2>. QED  BY <1>3, <2>1
<1>6. CASE \/ \E w \in Warrants : Fetch(s, w)
           \/ FindUnchanged(s) \/ FindChanged(s) \/ Upsert(s) \/ AppendHistory(s) \/ PublishPdf(s)
  <2>1. alerts' = alerts /\ sync[s].pc # "publish"
    BY <1>6 DEF Fetch, FindUnchanged, FindChanged, Upsert, AppendHistory, PublishPdf, tableVars
  <2>2. sync'[s].pc # "publish" /\ \A t \in Syncers : t # s => sync'[t] = sync[t]
    <3>1. CASE \E w \in Warrants : Fetch(s, w)
      BY <1>0, <3>1 DEF Fetch, TypeOK, Idle
    <3>2. CASE FindUnchanged(s)
      BY <1>0, <3>2 DEF FindUnchanged, Return, TypeOK, Idle
    <3>3. CASE FindChanged(s) \/ Upsert(s) \/ AppendHistory(s) \/ PublishPdf(s)
      BY <1>0, <3>3 DEF FindChanged, Upsert, AppendHistory, PublishPdf, MoveTo, TypeOK, Calls
    <3>. QED  BY <1>6, <3>1, <3>2, <3>3
  <2>. QED  BY <2>1, <2>2
<1>. QED  BY <1>2, <1>4, <1>5, <1>6 DEF Syncs

(* A published job, at the end of the queue.                                *)
LEMMA PublishActs ==
    ASSUME TypeInv, QueueTypeOK, NEW s \in Syncers, Publishes(s)
    PROVE  \E a \in Alerts :
           /\ sync[s].pc = "publish" /\ a = <<sync[s].w, sync[s].cfg>>
           /\ sync'[s].pc # "publish"
           /\ \A t \in Syncers : t # s => sync'[t] = sync[t]
           /\ jobs' \in Seq(Delivery!JobRows)
           /\ DOMAIN jobs' = 1..(Len(jobs) + 1) /\ DOMAIN jobs = 1..Len(jobs)
           /\ Len(jobs) \in Nat /\ Len(jobs') = Len(jobs) + 1
           /\ jobs'[Len(jobs) + 1].alert = a /\ jobs'[Len(jobs) + 1].state = "queued"
           /\ \A i \in DOMAIN jobs : i \in DOMAIN jobs' /\ jobs'[i] = jobs[i]
           /\ UNCHANGED <<alerts, worker, delivered, errors, exhausted, stranded>>
           /\ UNCHANGED <<warrant, history, enabled>>
<1>1. sync[s].pc = "publish" /\ sync[s].w \in Warrants /\ sync[s].cfg \in Configs /\ TypeOK
  BY DEF Publishes, PublishAlert, TypeInv, CallFields
<1>2. PICK a \in Alerts : a = <<sync[s].w, sync[s].cfg>>
  BY <1>1 DEF Alerts
<1>3. PICK j \in Delivery!JobRows : /\ j = [alert |-> a, state |-> "queued", retries |-> 0]
                                   /\ j.alert = a /\ j.state = "queued"
  <2>1. [alert |-> a, state |-> "queued", retries |-> 0] \in Delivery!JobRows
    BY QueueAssumption DEF Delivery!JobRows, Delivery!JobStates, Delivery!Alerts, Alerts
  <2>. QED  BY <2>1
<1>4. jobs' = Append(jobs, j) /\ jobs \in Seq(Delivery!JobRows)
  <2>1. jobs' = Append(jobs, [alert |-> <<sync[s].w, sync[s].cfg>>, state |-> "queued", retries |-> 0])
    BY Zenon DEF Publishes, Delivery!PublishJob
  <2>. QED  BY <1>2, <1>3, <2>1, Zenon DEF QueueTypeOK
<1>5. /\ Len(jobs) \in Nat /\ DOMAIN jobs = 1..Len(jobs)
      /\ jobs' \in Seq(Delivery!JobRows) /\ Len(jobs') = Len(jobs) + 1
  BY <1>4
<1>6. /\ DOMAIN jobs' = 1..(Len(jobs) + 1) /\ jobs'[Len(jobs) + 1] = j
      /\ \A i \in DOMAIN jobs : i \in DOMAIN jobs' /\ jobs'[i] = jobs[i]
  BY <1>4, AppendFacts
<1>7. NextConfig(s, sync[s].todo)
      /\ UNCHANGED <<alerts, worker, delivered, errors, exhausted, stranded>>
      /\ UNCHANGED <<warrant, history, enabled>>
  BY DEF Publishes, PublishAlert, tableVars, configVars
<1>8. sync'[s].pc # "publish" /\ \A t \in Syncers : t # s => sync'[t] = sync[t]
  BY <1>1, <1>7 DEF NextConfig, Return, Idle, TypeOK, Calls
<1>. QED  BY <1>1, <1>2, <1>3, <1>5, <1>6, <1>7, <1>8

(* QueueInv survives each kind of step.                                     *)
LEMMA CallKeepsQueue ==
    ASSUME TypeInv, QueueInv, NEW s \in Syncers, Syncs(s)
    PROVE  QueueInv'
<1>1. UNCHANGED <<queueVars, stranded>>
  BY DEF Syncs
<1>2. UNCHANGED <<jobs, worker, delivered, errors, exhausted, stranded>>
  BY <1>1 DEF queueVars
<1>3. QueueTypeOK'
  BY <1>2 DEF QueueInv, QueueTypeOK
<1>4. \A i \in DOMAIN jobs : jobs[i].alert \in Alerts
  <2>1. \A i \in DOMAIN jobs : jobs[i] \in Delivery!JobRows
    BY DEF QueueInv, QueueTypeOK
  <2>. QED  BY <2>1 DEF Delivery!JobRows, Delivery!Alerts, Alerts
<1>5. JobsHaveAlerts'
  <2>1. \A i \in DOMAIN jobs : alerts'[jobs[i].alert] # "NONE"
    BY <1>4, CallActs DEF QueueInv, JobsHaveAlerts
  <2>2. ASSUME NEW t \in Syncers, sync'[t].pc = "publish"
        PROVE  alerts'[<<sync'[t].w, sync'[t].cfg>>] # "NONE"
    <3>1. CASE t = s
      BY <2>2, <3>1, CallActs
    <3>2. CASE t # s
      <4>1. sync'[t] = sync[t]
        BY <3>2, CallActs
      <4>2. PICK a \in Alerts : a = <<sync[t].w, sync[t].cfg>>
        BY <2>2, <4>1 DEF TypeInv, CallFields, Alerts
      <4>3. alerts[a] # "NONE"
        BY <2>2, <4>1, <4>2 DEF QueueInv, JobsHaveAlerts
      <4>. QED  BY <4>1, <4>2, <4>3, CallActs
    <3>. QED  BY <3>1, <3>2
  <2>. QED  BY <1>2, <2>1, <2>2 DEF JobsHaveAlerts
<1>6. DoneIsSettled'
  <2>. SUFFICES ASSUME NEW x \in Workers, worker[x].pc = "complete"
                PROVE  alerts'[Delivery!AlertOf(x)] \in Final
    BY <1>2 DEF DoneIsSettled, Delivery!AlertOf
  <2>1. Delivery!AlertOf(x) \in Alerts /\ alerts[Delivery!AlertOf(x)] \in Final
    BY AlertOfType DEF QueueInv, DoneIsSettled
  <2>. QED  BY <2>1, CallActs
<1>7. Carried'
  <2>. SUFFICES ASSUME NEW a \in Alerts, alerts'[a] = "PENDING"
                PROVE  Publishing(a)' \/ Delivery!HasLiveJob(a) \/ a \in stranded \cup exhausted
    BY <1>2 DEF Carried, Delivery!HasLiveJob
  <2>1. CASE alerts[a] # "PENDING"
    BY <2>1, CallActs
  <2>2. CASE alerts[a] = "PENDING" /\ Publishing(a)
    <3>1. PICK t \in Syncers : sync[t].pc = "publish" /\ sync[t].w = a[1] /\ sync[t].cfg = a[2]
      BY <2>2 DEF Publishing
    <3>2. t # s
      BY <3>1, CallActs
    <3>3. sync'[t] = sync[t]
      BY <3>2, CallActs
    <3>. QED  BY <3>1, <3>3 DEF Publishing
  <2>3. CASE alerts[a] = "PENDING" /\ ~Publishing(a)
    BY <2>3 DEF QueueInv, Carried
  <2>. QED  BY <2>1, <2>2, <2>3
<1>. QED  BY <1>3, <1>5, <1>6, <1>7 DEF QueueInv

LEMMA PublishKeepsQueue ==
    ASSUME TypeInv, QueueInv, NEW s \in Syncers, Publishes(s)
    PROVE  QueueInv'
<1>0. QueueTypeOK
  BY DEF QueueInv
<1>1. PICK a \in Alerts :
           /\ sync[s].pc = "publish" /\ a = <<sync[s].w, sync[s].cfg>>
           /\ sync'[s].pc # "publish"
           /\ \A t \in Syncers : t # s => sync'[t] = sync[t]
           /\ jobs' \in Seq(Delivery!JobRows)
           /\ DOMAIN jobs' = 1..(Len(jobs) + 1) /\ DOMAIN jobs = 1..Len(jobs)
           /\ Len(jobs) \in Nat /\ Len(jobs') = Len(jobs) + 1
           /\ jobs'[Len(jobs) + 1].alert = a /\ jobs'[Len(jobs) + 1].state = "queued"
           /\ \A i \in DOMAIN jobs : i \in DOMAIN jobs' /\ jobs'[i] = jobs[i]
           /\ UNCHANGED <<alerts, worker, delivered, errors, exhausted, stranded>>
           /\ UNCHANGED <<warrant, history, enabled>>
  BY <1>0, PublishActs
<1>2. /\ a[1] = sync[s].w /\ a[2] = sync[s].cfg /\ Len(jobs) + 1 \in DOMAIN jobs'
      /\ \A i \in DOMAIN jobs' : i \in DOMAIN jobs \/ i = Len(jobs) + 1
  BY <1>1
<1>3. QueueTypeOK'
  BY <1>0, <1>1 DEF QueueTypeOK
<1>4. JobsHaveAlerts'
  <2>1. alerts[a] # "NONE"
    BY <1>1 DEF QueueInv, JobsHaveAlerts
  <2>2. \A i \in DOMAIN jobs' : alerts[jobs'[i].alert] # "NONE"
    BY <1>1, <1>2, <2>1 DEF QueueInv, JobsHaveAlerts
  <2>3. \A t \in Syncers : sync'[t].pc = "publish" => alerts[<<sync'[t].w, sync'[t].cfg>>] # "NONE"
    BY <1>1 DEF QueueInv, JobsHaveAlerts
  <2>. QED  BY <1>1, <2>2, <2>3 DEF JobsHaveAlerts
<1>5. DoneIsSettled'
  <2>. SUFFICES ASSUME NEW x \in Workers, worker[x].pc = "complete"
                PROVE  alerts[jobs'[worker[x].job].alert] \in Final
    BY <1>1 DEF DoneIsSettled, Delivery!AlertOf
  <2>1. worker[x].job \in DOMAIN jobs /\ alerts[jobs[worker[x].job].alert] \in Final
    BY <1>0, AlertOfType DEF QueueInv, DoneIsSettled
  <2>. QED  BY <1>1, <2>1
<1>6. Carried'
  <2>. SUFFICES ASSUME NEW b \in Alerts, alerts[b] = "PENDING"
                PROVE  Publishing(b)' \/ Delivery!HasLiveJob(b)' \/ b \in stranded \cup exhausted
    BY <1>1 DEF Carried
  <2>1. CASE b = a
    <3>1. Delivery!HasLiveJob(b)'
      BY <1>1, <1>2, <2>1 DEF Delivery!HasLiveJob
    <3>. QED  BY <3>1
  <2>2. CASE b # a /\ Publishing(b)
    <3>1. PICK t \in Syncers : sync[t].pc = "publish" /\ sync[t].w = b[1] /\ sync[t].cfg = b[2]
      BY <2>2 DEF Publishing
    <3>2. t # s
      BY <1>1, <1>2, <2>2, <3>1 DEF Alerts
    <3>. QED  BY <1>1, <3>1, <3>2 DEF Publishing
  <2>3. CASE ~Publishing(b) /\ Delivery!HasLiveJob(b)
    <3>1. PICK i \in DOMAIN jobs : jobs[i].alert = b /\ jobs[i].state \in {"queued", "active"}
      BY <2>3 DEF Delivery!HasLiveJob
    <3>2. Delivery!HasLiveJob(b)'
      BY <1>1, <3>1 DEF Delivery!HasLiveJob
    <3>. QED  BY <3>2
  <2>4. CASE ~Publishing(b) /\ ~Delivery!HasLiveJob(b)
    BY <2>4 DEF QueueInv, Carried
  <2>. QED  BY <2>1, <2>2, <2>3, <2>4
<1>. QED  BY <1>3, <1>4, <1>5, <1>6 DEF QueueInv

LEMMA DeathKeepsQueue ==
    ASSUME TypeInv, QueueInv, NEW s \in Syncers, SyncDies(s)
    PROVE  QueueInv'
<1>1. UNCHANGED <<jobs, worker, delivered, errors, exhausted>> /\ UNCHANGED alerts
  BY DEF SyncDies, SyncFails, queueVars, tableVars
<1>2. /\ sync'[s].pc = "idle" /\ \A t \in Syncers : t # s => sync'[t] = sync[t]
      /\ stranded \subseteq stranded'
      /\ sync[s].pc = "publish" => <<sync[s].w, sync[s].cfg>> \in stranded'
  BY DEF SyncDies, SyncFails, Return, Idle, TypeInv, TypeOK
<1>3. QueueTypeOK' /\ DoneIsSettled'
  BY <1>1 DEF QueueInv, QueueTypeOK, DoneIsSettled, Delivery!AlertOf
<1>4. JobsHaveAlerts'
  BY <1>1, <1>2 DEF QueueInv, JobsHaveAlerts
<1>5. Carried'
  <2>. SUFFICES ASSUME NEW a \in Alerts, alerts[a] = "PENDING"
                PROVE  Publishing(a)' \/ Delivery!HasLiveJob(a) \/ a \in stranded' \cup exhausted
    BY <1>1 DEF Carried, Delivery!HasLiveJob
  <2>1. CASE Publishing(a)
    <3>1. PICK t \in Syncers : sync[t].pc = "publish" /\ sync[t].w = a[1] /\ sync[t].cfg = a[2]
      BY <2>1 DEF Publishing
    <3>2. CASE t = s
      <4>1. a = <<sync[s].w, sync[s].cfg>>
        BY <3>1, <3>2 DEF Alerts
      <4>. QED  BY <1>2, <3>1, <3>2, <4>1
    <3>3. CASE t # s
      BY <1>2, <3>1, <3>3 DEF Publishing
    <3>. QED  BY <3>2, <3>3
  <2>2. CASE ~Publishing(a)
    BY <1>2, <2>2 DEF QueueInv, Carried
  <2>. QED  BY <2>1, <2>2
<1>. QED  BY <1>3, <1>4, <1>5 DEF QueueInv

LEMMA HandlerKeepsQueue ==
    ASSUME TypeInv, QueueInv, NEW x \in Workers, Delivers(x) \/ DeliveryFails(x)
    PROVE  QueueInv'
<1>1. HandlerStep(x) /\ UNCHANGED <<sync, stranded>>
  BY DEF Delivers, DeliveryFails, HandlerStep
<1>2. TypeOK /\ QueueTypeOK
  BY DEF TypeInv, QueueInv
<1>3. /\ jobs' \in Seq(Delivery!JobRows) /\ worker' \in [Workers -> WorkerRows]
      /\ QueueMoves(x) /\ AlertMoves(x)
      /\ \A y \in Workers : y # x => worker'[y] = worker[y]
      /\ worker'[x].pc # "idle" =>
           \/ worker'[x].job = worker[x].job /\ worker[x].pc # "idle"
           \/ worker'[x].pc = "alert" /\ worker'[x].job \in DOMAIN jobs
      /\ worker'[x].pc = "complete" =>
           \/ worker[x].pc = "alert" /\ alerts[Delivery!AlertOf(x)] # "PENDING"
                /\ UNCHANGED alerts
           \/ \E st \in Final : alerts' = [alerts EXCEPT ![Delivery!AlertOf(x)] = st]
  BY <1>1, <1>2, HandlerActs
<1>4. /\ DOMAIN jobs' = DOMAIN jobs /\ exhausted \subseteq exhausted'
      /\ \A i \in DOMAIN jobs :
           /\ jobs'[i].alert = jobs[i].alert
           /\ jobs[i].state \in Live =>
                \/ jobs'[i].state \in Live
                \/ jobs[i].alert \in exhausted'
                \/ worker[x].pc = "complete" /\ worker[x].job = i
  BY <1>3 DEF QueueMoves
<1>5. \A a \in Alerts : /\ alerts'[a] = alerts[a] \/ alerts'[a] \in Final
                        /\ alerts[a] \in Final => alerts'[a] \in Final
                        /\ alerts[a] # "NONE" => alerts'[a] # "NONE"
  BY <1>2, <1>3 DEF AlertMoves, TypeOK, Final
<1>6. QueueTypeOK'
  <2>1. \A y \in Workers : worker'[y].pc # "idle" => worker'[y].job \in DOMAIN jobs'
    BY <1>2, <1>3, <1>4 DEF QueueTypeOK
  <2>2. delivered' \in [Alerts -> Seq(Delivery!Messages)]
    <3>1. CASE delivered' = delivered
      BY <1>2, <3>1 DEF QueueTypeOK
    <3>2. CASE delivered' # delivered
      <4>1. PICK e \in Delivery!Messages :
              delivered' = [delivered EXCEPT ![Delivery!AlertOf(x)] = Append(@, e)]
        BY <1>1, <1>2, <3>2, HandlerPosts
      <4>2. \A a \in Alerts : Append(delivered[a], e) \in Seq(Delivery!Messages)
        BY <1>2 DEF QueueTypeOK
      <4>. QED  BY <1>2, <4>1, <4>2 DEF QueueTypeOK
    <3>. QED  BY <3>1, <3>2
  <2>. QED  BY <1>3, <2>1, <2>2 DEF QueueTypeOK
<1>7. JobsHaveAlerts'
  <2>1. \A i \in DOMAIN jobs : jobs[i] \in Delivery!JobRows
    BY <1>2 DEF QueueTypeOK
  <2>2. \A i \in DOMAIN jobs' : alerts'[jobs'[i].alert] # "NONE"
    BY <1>4, <1>5, <2>1 DEF QueueInv, JobsHaveAlerts, Delivery!JobRows, Delivery!Alerts, Alerts
  <2>3. ASSUME NEW t \in Syncers, sync[t].pc = "publish"
        PROVE  alerts'[<<sync[t].w, sync[t].cfg>>] # "NONE"
    <3>1. PICK a \in Alerts : a = <<sync[t].w, sync[t].cfg>>
      BY <2>3 DEF TypeInv, CallFields, Alerts
    <3>2. alerts[a] # "NONE"
      BY <2>3, <3>1 DEF QueueInv, JobsHaveAlerts
    <3>. QED  BY <1>5, <3>1, <3>2
  <2>. QED  BY <1>1, <2>2, <2>3 DEF JobsHaveAlerts
<1>8. DoneIsSettled'
  <2>. SUFFICES ASSUME NEW y \in Workers, worker'[y].pc = "complete"
                PROVE  alerts'[jobs'[worker'[y].job].alert] \in Final
    BY DEF DoneIsSettled, Delivery!AlertOf
  <2>1. /\ worker[y].pc # "idle" /\ worker'[y].job = worker[y].job
        /\ worker[y].job \in DOMAIN jobs
    BY <1>2, <1>3 DEF QueueTypeOK
  <2>2. PICK a \in Alerts : a = jobs[worker[y].job].alert /\ a = Delivery!AlertOf(y)
    BY <1>2, <2>1, AlertOfType
  <2>3. jobs'[worker'[y].job].alert = a
    BY <1>4, <2>1, <2>2
  <2>4. CASE y # x
    <3>1. alerts[a] \in Final
      BY <1>3, <2>2, <2>4 DEF QueueInv, DoneIsSettled
    <3>. QED  BY <1>5, <2>3, <3>1
  <2>5. CASE y = x /\ \E st \in Final : alerts' = [alerts EXCEPT ![a] = st]
    <3>1. alerts'[a] \in Final
      BY <1>2, <2>5 DEF TypeOK
    <3>. QED  BY <2>3, <3>1
  <2>6. CASE y = x /\ alerts[a] # "PENDING" /\ alerts' = alerts
    <3>1. alerts[a] # "NONE"
      BY <2>1, <2>2 DEF QueueInv, JobsHaveAlerts
    <3>2. alerts[a] \in Final
      BY <1>2, <2>6, <3>1 DEF TypeOK, AlertStatus, Final
    <3>. QED  BY <2>3, <2>6, <3>2
  <2>. QED  BY <1>3, <2>2, <2>4, <2>5, <2>6
<1>9. Carried'
  <2>. SUFFICES ASSUME NEW a \in Alerts, alerts'[a] = "PENDING"
                PROVE  Publishing(a) \/ Delivery!HasLiveJob(a)' \/ a \in stranded \cup exhausted'
    BY <1>1 DEF Carried, Publishing
  <2>1. alerts[a] = "PENDING"
    BY <1>5 DEF Final
  <2>2. CASE Delivery!HasLiveJob(a)
    <3>1. PICK i \in DOMAIN jobs : jobs[i].alert = a /\ jobs[i].state \in Live
      BY <2>2 DEF Delivery!HasLiveJob, Live
    <3>2. ~(worker[x].pc = "complete" /\ worker[x].job = i)
      BY <2>1, <3>1 DEF QueueInv, DoneIsSettled, Delivery!AlertOf, Final
    <3>3. CASE jobs'[i].state \in Live
      <4>1. Delivery!HasLiveJob(a)'
        BY <1>4, <3>1, <3>3 DEF Delivery!HasLiveJob, Live
      <4>. QED  BY <4>1
    <3>. QED  BY <1>4, <3>1, <3>2, <3>3
  <2>3. CASE ~Delivery!HasLiveJob(a)
    BY <1>4, <2>1, <2>3 DEF QueueInv, Carried
  <2>. QED  BY <2>2, <2>3
<1>. QED  BY <1>6, <1>7, <1>8, <1>9 DEF QueueInv

(* PipeInv is inductive.                                                    *)
LEMMA PipeInit == Init => PipeInv
<1>. SUFFICES ASSUME Init PROVE PipeInv
  OBVIOUS
<1>1. TypeInv /\ SafeInv
  BY TypeInit, SafeInit DEF Init
<1>2. /\ jobs = <<>> /\ worker = [x \in Workers |-> Delivery!IdleWorker]
      /\ delivered = [a \in Alerts |-> <<>>] /\ alerts = [a \in Alerts |-> "NONE"]
      /\ sync = [s \in Syncers |-> Idle]
  BY DEF Init, SyncInit, Delivery!DeliveryInit, Delivery!Alerts, Alerts
<1>3. /\ Delivery!IdleWorker \in WorkerRows /\ Delivery!IdleWorker.pc = "idle"
      /\ Idle.pc = "idle"
  BY DEF Delivery!IdleWorker, WorkerRows, Delivery!Steps, Idle
<1>4. QueueTypeOK
  <2>1. jobs \in Seq(Delivery!JobRows)
    BY <1>2
  <2>2. delivered \in [Alerts -> Seq(Delivery!Messages)]
    BY <1>2
  <2>. QED  BY <1>2, <1>3, <2>1, <2>2 DEF QueueTypeOK
<1>5. JobsHaveAlerts
  BY <1>2, <1>3 DEF JobsHaveAlerts
<1>6. DoneIsSettled
  BY <1>2, <1>3 DEF DoneIsSettled
<1>7. Carried
  BY <1>2 DEF Carried
<1>. QED  BY <1>1, <1>4, <1>5, <1>6, <1>7 DEF PipeInv, QueueInv

LEMMA PipeStep == PipeInv /\ [Next]_vars => PipeInv' /\ [SyncNext]_syncVars
<1>. SUFFICES ASSUME PipeInv, [Next]_vars PROVE PipeInv' /\ [SyncNext]_syncVars
  OBVIOUS
<1>1. TypeInv /\ SafeInv /\ QueueInv
  BY DEF PipeInv
<1>2. [SyncNext]_syncVars
  BY <1>1, StepIsSync DEF TypeInv, QueueInv
<1>3. TypeInv' /\ SafeInv'
  BY <1>1, <1>2, TypeStep, SafeStep
<1>4. CASE OutsideChanges \/ UNCHANGED vars
  <2>1. UNCHANGED <<jobs, worker, delivered, exhausted, stranded, alerts, sync>>
    BY <1>4 DEF OutsideChanges, PortalChanges, ToggleConfig, vars, queueVars, syncVars, tableVars
  <2>. QED
    BY <1>1, <1>2, <1>3, <2>1 DEF PipeInv, QueueInv, QueueTypeOK, JobsHaveAlerts, DoneIsSettled,
       Carried, Publishing, Delivery!HasLiveJob, Delivery!AlertOf
<1>5. CASE \E s \in Syncers : Syncs(s) \/ Publishes(s) \/ SyncDies(s)
  BY <1>1, <1>2, <1>3, <1>5, CallKeepsQueue, PublishKeepsQueue, DeathKeepsQueue DEF PipeInv
<1>6. CASE \E x \in Workers : Delivers(x) \/ DeliveryFails(x)
  BY <1>1, <1>2, <1>3, <1>6, HandlerKeepsQueue DEF PipeInv
<1>. QED  BY <1>4, <1>5, <1>6 DEF Next

(* A PENDING alert always has a call or a live job that will act on it, or  *)
(* was lost with a dead call or a job out of retries; and no handler        *)
(* returns while its alert is PENDING.                                      *)
THEOREM PendingAlertsAreCarried == Spec => []PendingIsCarried
<1>1. PipeInv => PendingIsCarried
  <2>. SUFFICES ASSUME PipeInv, NEW a \in Alerts, alerts[a] = "PENDING"
                PROVE  /\ Publishing(a) \/ Delivery!HasLiveJob(a) \/ a \in stranded \cup exhausted
                       /\ \A x \in Workers : worker[x].pc = "complete" => Delivery!AlertOf(x) # a
    BY DEF PendingIsCarried
  <2>. QED  BY DEF PipeInv, QueueInv, Carried, DoneIsSettled, Final
<1>. QED  BY PipeInit, PipeStep, <1>1, PTL DEF Spec

(* Every step of the pipeline is a step that WarrantSync allows or leaves   *)
(* its state alone: what is proved of WarrantSync holds in the pipeline.    *)
THEOREM PipelineImplementsSync == Spec => SyncSpec
<1>1. Init => SyncInit
  BY DEF Init
<1>. QED  BY PipeInit, PipeStep, <1>1, PTL DEF Spec, SyncSpec

-----------------------------------------------------------------------------
(* AlertDelivery's own bounds, which the pipeline does not check.           *)
WithinBounds ==
    /\ Len(jobs) <= MaxJobs
    /\ \A w \in Warrants : Len(history[w]) <= MaxHistory

(* A call's step, in the terms of AlertDelivery: it writes the row, logs    *)
(* the change, creates the alert, or nothing that a handler reads.          *)
LEMMA CallIsSyncActs ==
    ASSUME TypeInv, SafeInv, NEW s \in Syncers, Syncs(s),
           \A w \in Warrants : Len(history[w])' <= MaxHistory
    PROVE  [Delivery!DeliveryNext]_(Delivery!deliveryVars)
<1>. USE DEF Delivery!deliveryVars, Delivery!readVars
<1>0. /\ UNCHANGED <<jobs, worker, delivered, errors, exhausted>>
      /\ TypeOK /\ sync[s] \in Calls
      /\ sync[s].pc # "idle" => sync[s].w \in Warrants /\ sync[s].raw \in Snapshots
  BY DEF Syncs, queueVars, TypeInv, TypeOK, CallFields
<1>1. CASE Upsert(s)
  <2>1. PICK w \in Warrants, p \in Snapshots : w = sync[s].w /\ p = sync[s].raw
    BY <1>0, <1>1 DEF Upsert
  <2>2. Delivery!SyncWritesRow(w, p)
    BY <1>0, <1>1, <2>1 DEF Upsert, configVars, Delivery!SyncWritesRow
  <2>. QED  BY <2>2 DEF Delivery!DeliveryNext, Delivery!SyncActs
<1>2. CASE AppendHistory(s)
  <2>1. PICK w \in Warrants : w = sync[s].w
    BY <1>0, <1>2 DEF AppendHistory
  <2>2. PICK e \in Entries : e = [kind |-> ChangeKind(sync[s].prev, sync[s].raw),
                                  from |-> sync[s].prev, to |-> sync[s].raw]
    <3>1. sync[s].prev \in Snapshots \cup {None} /\ sync[s].raw \in Snapshots
      BY <1>0, <1>2 DEF AppendHistory, Calls
    <3>2. [kind |-> ChangeKind(sync[s].prev, sync[s].raw),
           from |-> sync[s].prev, to |-> sync[s].raw] \in Entries
      BY <3>1, ChangeKindType DEF Entries
    <3>. QED  BY <3>2
  <2>3. history' = [history EXCEPT ![w] = Append(@, e)] /\ UNCHANGED <<warrant, enabled, alerts>>
    <3>1. history' = [history EXCEPT ![sync[s].w] =
                        Append(@, [kind |-> ChangeKind(sync[s].prev, sync[s].raw),
                                   from |-> sync[s].prev, to |-> sync[s].raw])]
      BY <1>2, Zenon DEF AppendHistory
    <3>2. UNCHANGED <<warrant, enabled, alerts>>
      BY <1>2 DEF AppendHistory, configVars
    <3>. QED  BY <2>1, <2>2, <3>1, <3>2, Zenon
  <2>4. warrant[w] # None
    BY <1>2, <2>1 DEF AppendHistory, SafeInv, CallsLeaveTraces
  <2>5. Len(history[w]) < MaxHistory
    <3>1. history[w] \in Seq(Entries) /\ history'[w] = Append(history[w], e)
      BY <1>0, <2>3 DEF TypeOK
    <3>2. Len(Append(history[w], e)) = Len(history[w]) + 1 /\ Len(history[w]) \in Nat
      BY <3>1
    <3>3. Len(history'[w]) <= MaxHistory
      OBVIOUS
    <3>. QED  BY <3>1, <3>2, <3>3, QueueAssumption
  <2>6. Delivery!SyncLogs(w, e)
    BY <1>0, <2>3, <2>4, <2>5 DEF Delivery!SyncLogs
  <2>. QED  BY <2>6 DEF Delivery!DeliveryNext, Delivery!SyncActs
<1>3. CASE \E c \in Configs : EnqueueAlert(s, c)
  <2>0. UNCHANGED <<warrant, history, enabled>> /\ sync[s].pc = "enqueue"
    BY <1>3 DEF EnqueueAlert, configVars
  <2>1. CASE UNCHANGED alerts
    BY <1>0, <2>0, <2>1
  <2>2. CASE \E b \in Alerts : /\ b[1] = sync[s].w /\ alerts[b] = "NONE"
                               /\ alerts' = [alerts EXCEPT ![b] = "PENDING"]
    <3>1. PICK b \in Alerts : /\ b[1] = sync[s].w /\ alerts[b] = "NONE"
                              /\ alerts' = [alerts EXCEPT ![b] = "PENDING"]
      BY <2>2
    <3>2. history[b[1]] # <<>>
      BY <2>0, <3>1 DEF SafeInv, CallsLeaveTraces
    <3>3. Delivery!SyncEnqueues(b)
      BY <1>0, <2>0, <3>1, <3>2 DEF Delivery!SyncEnqueues
    <3>. QED  BY <3>1, <3>3 DEF Delivery!DeliveryNext, Delivery!SyncActs, Delivery!Alerts, Alerts
  <2>. QED  BY <2>1, <2>2, CallActs
<1>4. CASE \/ \E w \in Warrants : Fetch(s, w)
           \/ FindUnchanged(s) \/ FindChanged(s) \/ PublishPdf(s) \/ ListConfigs(s)
  <2>1. UNCHANGED <<warrant, history, enabled, alerts>>
    BY <1>4 DEF Fetch, FindUnchanged, FindChanged, PublishPdf, ListConfigs, tableVars, configVars
  <2>. QED  BY <1>0, <2>1
<1>. QED  BY <1>1, <1>2, <1>3, <1>4 DEF Syncs

(* Every step of the pipeline is one that AlertDelivery allows.             *)
LEMMA StepIsDelivery ==
    PipeInv /\ WithinBounds' /\ [Next]_vars => [Delivery!DeliveryNext]_(Delivery!deliveryVars)
<1>. SUFFICES ASSUME PipeInv, WithinBounds', [Next]_vars
              PROVE  [Delivery!DeliveryNext]_(Delivery!deliveryVars)
  OBVIOUS
<1>. USE DEF Delivery!deliveryVars, Delivery!readVars
<1>0. TypeInv /\ SafeInv /\ TypeOK /\ QueueTypeOK /\ JobsHaveAlerts
  BY DEF PipeInv, QueueInv, TypeInv
<1>1. ASSUME NEW s \in Syncers, Syncs(s) PROVE [Delivery!DeliveryNext]_(Delivery!deliveryVars)
  <2>1. \A w \in Warrants : Len(history[w])' <= MaxHistory
    BY DEF WithinBounds
  <2>. QED  BY <1>0, <1>1, <2>1, CallIsSyncActs
<1>2. ASSUME NEW s \in Syncers, Publishes(s) PROVE Delivery!DeliveryNext
  <2>1. PICK a \in Alerts :
          /\ a = <<sync[s].w, sync[s].cfg>> /\ sync[s].pc = "publish"
          /\ Len(jobs) \in Nat /\ Len(jobs') = Len(jobs) + 1
          /\ UNCHANGED <<alerts, worker, delivered, errors, exhausted>>
          /\ UNCHANGED <<warrant, history, enabled>>
    BY <1>0, <1>2, PublishActs
  <2>2. alerts[a] # "NONE"
    BY <1>0, <2>1 DEF JobsHaveAlerts
  <2>3. Len(jobs) < MaxJobs
    BY <2>1, QueueAssumption DEF WithinBounds
  <2>4. Delivery!PublishJob(a)
    BY <1>2, <2>1, Zenon DEF Publishes
  <2>5. Delivery!SyncPublishes(a)
    BY <2>1, <2>2, <2>3, <2>4 DEF Delivery!SyncPublishes
  <2>. QED  BY <2>5 DEF Delivery!DeliveryNext, Delivery!SyncActs, Delivery!Alerts, Alerts
<1>3. ASSUME NEW s \in Syncers, SyncDies(s) PROVE UNCHANGED Delivery!deliveryVars
  BY <1>3 DEF SyncDies, SyncFails, queueVars, tableVars, configVars
<1>4. ASSUME NEW x \in Workers, Delivers(x) \/ DeliveryFails(x) PROVE Delivery!DeliveryNext
  BY <1>4 DEF Delivers, DeliveryFails, Delivery!DeliveryNext
<1>5. CASE OutsideChanges
  <2>1. CASE \E c \in Configs : ToggleConfig(c)
    <3>1. \E c \in Configs : Delivery!ConfigToggles(c)
      BY <1>5, <2>1 DEF OutsideChanges, ToggleConfig, tableVars, queueVars, Delivery!ConfigToggles
    <3>. QED  BY <3>1 DEF Delivery!DeliveryNext
  <2>2. CASE \E w \in Warrants, p \in Snapshots : PortalChanges(w, p)
    BY <1>5, <2>2 DEF OutsideChanges, PortalChanges, tableVars, configVars, queueVars
  <2>. QED  BY <1>5, <2>1, <2>2 DEF OutsideChanges
<1>6. CASE UNCHANGED vars
  BY <1>6 DEF vars, syncVars, tableVars, configVars, queueVars
<1>. QED  BY <1>1, <1>2, <1>3, <1>4, <1>5, <1>6 DEF Next

(* Each component sees in the other what its own environment allows: on     *)
(* behaviours within AlertDelivery's bounds, the pipeline implements it, so *)
(* what is proved of AlertDelivery holds in the pipeline.                   *)
THEOREM PipelineImplementsDelivery == Spec /\ []WithinBounds => DeliveryHolds
<1>1. Init => Delivery!DeliveryInit
  BY DEF Init
<1>. QED
  BY PipeInit, PipeStep, StepIsDelivery, <1>1, PTL DEF Spec, DeliveryHolds, Delivery!DeliverySpec

-----------------------------------------------------------------------------
(* The lifecycle of an alert, for one handler at a time.                    *)
OneHandler == \A x, y \in Workers : x = y

PastCheck == {"config", "warrant", "history", "send", "markSent", "markFailed", "markSkipped"}

(* What the handler saw when it checked the status still holds until it     *)
(* marks the alert, and it only marks SENT what Telegram accepted.          *)
LifeInv ==
    \A x \in Workers :
        /\ worker[x].pc \in PastCheck => alerts[Delivery!AlertOf(x)] = "PENDING"
        /\ worker[x].pc = "markSent" => delivered[Delivery!AlertOf(x)] # <<>>

LEMMA LifeInit == Init => LifeInv
BY DEF Init, Delivery!DeliveryInit, Delivery!IdleWorker, LifeInv, PastCheck

(* A handler goes past its check only from it, with a PENDING alert.        *)
LEMMA PassingCheck ==
    ASSUME TypeOK, QueueTypeOK, NEW x \in Workers, HandlerStep(x), worker'[x].pc \in PastCheck
    PROVE  /\ worker[x].pc \in {"alert"} \cup PastCheck /\ UNCHANGED <<jobs, alerts>>
           /\ worker'[x].job = worker[x].job
           /\ worker[x].pc = "alert" => alerts[Delivery!AlertOf(x)] = "PENDING"
           /\ (worker'[x].pc = "markSent") =>
                \E e \in Delivery!Messages :
                   delivered' = [delivered EXCEPT ![Delivery!AlertOf(x)] = Append(@, e)]
<1>0. worker \in [Workers -> WorkerRows]
  BY DEF QueueTypeOK
<1>1. worker'[x] # Delivery!IdleWorker /\ worker'[x].pc # "complete" /\ worker'[x].pc # "alert"
  BY DEF PastCheck, Delivery!IdleWorker
<1>2. ~Delivery!JobFails(x) /\ ~Delivery!Complete(x)
  BY <1>0, <1>1 DEF Delivery!JobFails, Delivery!Complete
<1>3. \A i \in DOMAIN jobs : ~Delivery!TakeJob(x, i)
  BY <1>1, TakingMoves
<1>4. HandlerMoves(x)
  BY <1>2, <1>3 DEF HandlerStep, HandlerMoves, Delivery!WorkerStep, Delivery!SendFailsForNow,
                    Delivery!WorkerFails
<1>5. /\ UNCHANGED jobs /\ worker'[x].job = worker[x].job
  BY <1>4, MovesOn
<1>6. ~(Delivery!MarkSent(x) \/ Delivery!MarkFailed(x) \/ Delivery!MarkSkipped(x))
  BY <1>0, <1>1 DEF Delivery!MarkSent, Delivery!MarkFailed, Delivery!MarkSkipped, Delivery!Mark,
                    Delivery!MoveTo, WorkerRows
<1>7. CASE Delivery!FindAlert(x)
  <2>1. /\ worker[x].pc = "alert" /\ UNCHANGED alerts
        /\ worker'[x].pc = IF alerts[Delivery!AlertOf(x)] = "PENDING" THEN "config" ELSE "complete"
    BY <1>0, <1>7 DEF Delivery!FindAlert, Delivery!MoveTo, WorkerRows
  <2>. QED  BY <1>1, <1>5, <2>1
<1>8. CASE \/ Delivery!FindConfig(x) \/ Delivery!FindWarrant(x) \/ Delivery!FindHistory(x)
           \/ Delivery!SendFailsForGood(x) \/ Delivery!SendLosesReply(x)
  <2>1. /\ worker[x].pc \in {"config", "warrant", "history", "send"} /\ UNCHANGED alerts
        /\ worker'[x].pc # "markSent"
    BY <1>0, <1>8 DEF Delivery!FindConfig, Delivery!FindWarrant, Delivery!FindHistory,
       Delivery!SendFailsForGood, Delivery!SendLosesReply, Delivery!MoveTo, WorkerRows
  <2>. QED  BY <1>5, <2>1 DEF PastCheck
<1>9. CASE Delivery!SendSucceeds(x)
  <2>1. /\ worker[x].pc = "send" /\ UNCHANGED alerts
        /\ delivered' = [delivered EXCEPT ![Delivery!AlertOf(x)] =
             Append(@, [snap |-> worker[x].snap, at |-> worker[x].at])]
    BY <1>9 DEF Delivery!SendSucceeds, Delivery!Post
  <2>2. [snap |-> worker[x].snap, at |-> worker[x].at] \in Delivery!Messages
    BY <1>0 DEF WorkerRows, Delivery!Messages
  <2>. QED  BY <1>5, <2>1, <2>2 DEF PastCheck
<1>. QED  BY <1>4, <1>6, <1>7, <1>8, <1>9 DEF HandlerMoves

(* LifeInv is inductive when there is only one handler.                     *)
LEMMA LifeStep == OneHandler /\ PipeInv /\ LifeInv /\ [Next]_vars => LifeInv'
<1>. SUFFICES ASSUME OneHandler, PipeInv, LifeInv, [Next]_vars, NEW x \in Workers
              PROVE  /\ worker'[x].pc \in PastCheck => (alerts[Delivery!AlertOf(x)] = "PENDING")'
                     /\ worker'[x].pc = "markSent" => (delivered[Delivery!AlertOf(x)] # <<>>)'
  BY DEF LifeInv
<1>0. TypeInv /\ TypeOK /\ QueueTypeOK
  BY DEF PipeInv, QueueInv, TypeInv
<1>1. ASSUME UNCHANGED <<worker, delivered>>,
             \A i \in DOMAIN jobs : i \in DOMAIN jobs' /\ jobs'[i] = jobs[i],
             \A a \in Alerts : alerts[a] = "PENDING" => alerts'[a] = "PENDING"
      PROVE  /\ worker'[x].pc \in PastCheck => (alerts[Delivery!AlertOf(x)] = "PENDING")'
             /\ worker'[x].pc = "markSent" => (delivered[Delivery!AlertOf(x)] # <<>>)'
  <2>1. CASE worker[x].pc = "idle"
    BY <1>1, <2>1 DEF PastCheck
  <2>2. CASE worker[x].pc # "idle"
    <3>1. /\ worker[x].job \in DOMAIN jobs /\ Delivery!AlertOf(x) \in Alerts
          /\ Delivery!AlertOf(x)' = Delivery!AlertOf(x)
      BY <1>0, <1>1, <2>2, AlertOfType DEF Delivery!AlertOf
    <3>. QED  BY <1>1, <3>1 DEF LifeInv
  <2>. QED  BY <2>1, <2>2
<1>2. ASSUME NEW s \in Syncers, Syncs(s)
      PROVE  /\ UNCHANGED <<worker, delivered, jobs>>
             /\ \A a \in Alerts : alerts[a] = "PENDING" => alerts'[a] = "PENDING"
  <2>1. UNCHANGED <<worker, delivered, jobs>>
    BY <1>2 DEF Syncs, queueVars
  <2>2. \/ UNCHANGED alerts
        \/ \E b \in Alerts : alerts' = [alerts EXCEPT ![b] = "PENDING"]
    BY <1>0, <1>2, CallActs
  <2>. QED  BY <1>0, <2>1, <2>2 DEF TypeOK
<1>3. ASSUME NEW s \in Syncers, Publishes(s)
      PROVE  /\ UNCHANGED <<worker, delivered, alerts>>
             /\ \A i \in DOMAIN jobs : i \in DOMAIN jobs' /\ jobs'[i] = jobs[i]
  BY <1>0, <1>3, PublishActs
<1>4. ASSUME \/ \E s \in Syncers : SyncDies(s)
             \/ OutsideChanges \/ UNCHANGED vars
      PROVE  UNCHANGED <<worker, delivered, alerts, jobs>>
  BY <1>4 DEF SyncDies, SyncFails, OutsideChanges, PortalChanges, ToggleConfig, vars, queueVars,
              syncVars, tableVars
<1>5. CASE (\E s \in Syncers : Syncs(s) \/ Publishes(s) \/ SyncDies(s)) \/ OutsideChanges
           \/ UNCHANGED vars
  BY <1>1, <1>2, <1>3, <1>4, <1>5
<1>6. ASSUME NEW y \in Workers, Delivers(y) \/ DeliveryFails(y), worker'[x].pc \in PastCheck
      PROVE  /\ (alerts[Delivery!AlertOf(x)] = "PENDING")'
             /\ worker'[x].pc = "markSent" => (delivered[Delivery!AlertOf(x)] # <<>>)'
  <2>1. y = x /\ HandlerStep(x)
    BY <1>6 DEF OneHandler, Delivers, DeliveryFails, HandlerStep
  <2>2. /\ worker[x].pc \in {"alert"} \cup PastCheck /\ UNCHANGED <<jobs, alerts>>
        /\ worker'[x].job = worker[x].job
        /\ worker[x].pc = "alert" => alerts[Delivery!AlertOf(x)] = "PENDING"
        /\ (worker'[x].pc = "markSent") =>
             \E e \in Delivery!Messages :
                delivered' = [delivered EXCEPT ![Delivery!AlertOf(x)] = Append(@, e)]
    BY <1>0, <1>6, <2>1, PassingCheck
  <2>3. alerts[Delivery!AlertOf(x)] = "PENDING"
    BY <2>2 DEF LifeInv
  <2>4. Delivery!AlertOf(x)' = Delivery!AlertOf(x)
    BY <2>2 DEF Delivery!AlertOf
  <2>5. Delivery!AlertOf(x) \in Alerts
    <3>1. worker[x].pc # "idle"
      BY <2>2 DEF PastCheck
    <3>. QED  BY <1>0, <3>1, AlertOfType
  <2>6. CASE worker'[x].pc = "markSent"
    <3>1. PICK e \in Delivery!Messages :
            delivered' = [delivered EXCEPT ![Delivery!AlertOf(x)] = Append(@, e)]
      BY <2>2, <2>6
    <3>2. PICK m \in Seq(Delivery!Messages) : m = delivered[Delivery!AlertOf(x)]
      BY <1>0, <2>5 DEF QueueTypeOK
    <3>3. delivered'[Delivery!AlertOf(x)] = Append(m, e)
      BY <1>0, <2>5, <3>1, <3>2 DEF QueueTypeOK
    <3>4. Append(m, e) # <<>>
      BY AppendFacts
    <3>. QED  BY <2>2, <2>3, <2>4, <3>3, <3>4
  <2>. QED  BY <2>2, <2>3, <2>4, <2>6
<1>7. CASE \E y \in Workers : Delivers(y) \/ DeliveryFails(y)
  <2>1. CASE worker'[x].pc \in PastCheck
    BY <1>6, <1>7, <2>1
  <2>2. CASE worker'[x].pc \notin PastCheck
    BY <2>2 DEF PastCheck
  <2>. QED  BY <2>1, <2>2
<1>. QED  BY <1>5, <1>7 DEF Next

(* What a delivery does to the alerts' lifecycle.                           *)
LEMMA PostIsDeliver ==
    ASSUME QueueTypeOK, NEW b \in Alerts, alerts[b] = "PENDING", UNCHANGED alerts,
           NEW e \in Delivery!Messages, delivered' = [delivered EXCEPT ![b] = Append(@, e)]
    PROVE  Lifecycle!Deliver(b)
<1>. DEFINE told == [a \in Alerts |-> delivered[a] # <<>>]
            told2 == [a \in Alerts |-> delivered'[a] # <<>>]
<1>1. delivered \in [Alerts -> Seq(Delivery!Messages)]
  BY DEF QueueTypeOK
<1>2. PICK m \in Seq(Delivery!Messages) : m = delivered[b]
  BY <1>1
<1>3. Append(m, e) # <<>>
  BY AppendFacts
<1>4. delivered'[b] = Append(m, e) /\ \A a \in Alerts : a # b => delivered'[a] = delivered[a]
  BY <1>1, <1>2
<1>5. told2 = [told EXCEPT ![b] = TRUE]
  <2>1. told2[b] = TRUE
    BY <1>3, <1>4, Zenon
  <2>2. \A a \in Alerts : a # b => told2[a] = told[a]
    BY <1>4, Zenon
  <2>3. DOMAIN told = Alerts /\ DOMAIN told2 = Alerts /\ told \in [Alerts -> BOOLEAN]
        /\ told2 \in [Alerts -> BOOLEAN]
    BY Zenon
  <2>. HIDE DEF told, told2
  <2>. QED  BY <2>1, <2>2, <2>3
<1>. QED  BY <1>5, Zenon DEF Lifecycle!Deliver

(* Every step of the pipeline creates, delivers or settles an alert as      *)
(* AlertLifecycle says, or concerns no alert.                               *)
LEMMA StepIsLifecycle ==
    OneHandler /\ PipeInv /\ LifeInv /\ [Next]_vars => [Lifecycle!Next]_(Lifecycle!vars)
<1>. SUFFICES ASSUME OneHandler, PipeInv, LifeInv, [Next]_vars
              PROVE  [Lifecycle!Next]_(Lifecycle!vars)
  OBVIOUS
<1>0. TypeInv /\ TypeOK /\ QueueTypeOK
  BY DEF PipeInv, QueueInv, TypeInv
<1>1. ASSUME UNCHANGED <<alerts, delivered>> PROVE UNCHANGED Lifecycle!vars
  BY <1>1 DEF Lifecycle!vars
<1>2. ASSUME NEW s \in Syncers, Syncs(s) PROVE [Lifecycle!Next]_(Lifecycle!vars)
  <2>1. UNCHANGED delivered
    BY <1>2 DEF Syncs, queueVars
  <2>2. CASE UNCHANGED alerts
    BY <1>1, <2>1, <2>2
  <2>3. CASE \E b \in Alerts : alerts[b] = "NONE" /\ alerts' = [alerts EXCEPT ![b] = "PENDING"]
    <3>1. PICK b \in Alerts : alerts[b] = "NONE" /\ alerts' = [alerts EXCEPT ![b] = "PENDING"]
      BY <2>3
    <3>2. Lifecycle!Create(b)
      BY <2>1, <3>1 DEF Lifecycle!Create
    <3>. QED  BY <3>2 DEF Lifecycle!Next
  <2>. QED  BY <1>0, <1>2, <2>2, <2>3, CallActs
<1>3. CASE \/ \E s \in Syncers : Publishes(s) \/ SyncDies(s)
           \/ OutsideChanges \/ UNCHANGED vars
  <2>1. UNCHANGED <<alerts, delivered>>
    BY <1>3 DEF Publishes, PublishAlert, SyncDies, SyncFails, OutsideChanges, PortalChanges,
       ToggleConfig, vars, queueVars, syncVars, tableVars
  <2>. QED  BY <1>1, <2>1
<1>4. ASSUME NEW x \in Workers, HandlerStep(x) PROVE [Lifecycle!Next]_(Lifecycle!vars)
  <2>1. CASE Delivery!MarkSent(x) \/ Delivery!MarkFailed(x) \/ Delivery!MarkSkipped(x)
    <3>1. PICK st \in Final :
            /\ worker[x].pc \in {"markSent", "markFailed", "markSkipped"}
            /\ alerts' = [alerts EXCEPT ![Delivery!AlertOf(x)] = st] /\ UNCHANGED delivered
            /\ st = "SENT" => worker[x].pc = "markSent"
      BY <2>1 DEF Delivery!MarkSent, Delivery!MarkFailed, Delivery!MarkSkipped, Delivery!Mark, Final
    <3>2. PICK b \in Alerts : b = Delivery!AlertOf(x)
      BY <1>0, <3>1, AlertOfType
    <3>3. alerts[b] = "PENDING" /\ (st = "SENT" => delivered[b] # <<>>)
      BY <3>1, <3>2 DEF LifeInv, PastCheck
    <3>4. Lifecycle!Settle(b, st) /\ st \in Lifecycle!Settled
      BY <3>1, <3>2, <3>3 DEF Lifecycle!Settle, Lifecycle!Settled, Final
    <3>. QED  BY <3>4 DEF Lifecycle!Next
  <2>2. CASE delivered' # delivered
    <3>1. PICK e \in Delivery!Messages :
            /\ worker[x].pc = "send" /\ UNCHANGED alerts
            /\ delivered' = [delivered EXCEPT ![Delivery!AlertOf(x)] = Append(@, e)]
      BY <1>0, <1>4, <2>2, HandlerPosts
    <3>2. PICK b \in Alerts : b = Delivery!AlertOf(x)
      BY <1>0, <3>1, AlertOfType
    <3>3. alerts[b] = "PENDING"
      BY <3>1, <3>2 DEF LifeInv, PastCheck
    <3>4. Lifecycle!Deliver(b)
      BY <1>0, <3>1, <3>2, <3>3, PostIsDeliver
    <3>. QED  BY <3>4 DEF Lifecycle!Next
  <2>3. CASE delivered' = delivered /\
             ~(Delivery!MarkSent(x) \/ Delivery!MarkFailed(x) \/ Delivery!MarkSkipped(x))
    <3>1. UNCHANGED alerts
      BY <1>4, <2>3 DEF HandlerStep, Delivery!WorkerStep, Delivery!TakeJob, Delivery!FindAlert,
         Delivery!FindConfig, Delivery!FindWarrant, Delivery!FindHistory, Delivery!SendSucceeds,
         Delivery!SendFailsForGood, Delivery!SendFailsForNow, Delivery!Complete,
         Delivery!SendLosesReply, Delivery!WorkerFails
    <3>. QED  BY <1>1, <2>3, <3>1
  <2>. QED  BY <2>1, <2>2, <2>3
<1>5. ASSUME NEW x \in Workers, Delivers(x) \/ DeliveryFails(x)
      PROVE  [Lifecycle!Next]_(Lifecycle!vars)
  BY <1>4, <1>5 DEF Delivers, DeliveryFails, HandlerStep
<1>. QED  BY <1>2, <1>3, <1>5 DEF Next

(* With one handler at a time, and any number of syncing calls, failures    *)
(* and jobs of the same alert, the alerts table keeps the promise of        *)
(* AlertLifecycle: only a PENDING alert is delivered or changes status, and *)
(* SENT means that Telegram accepted a message.                             *)
THEOREM PipelineKeepsLifecycle ==
    ASSUME OneHandler
    PROVE  Spec => LifecycleSpec
<1>1. Init => Lifecycle!Init
  BY DEF Init, SyncInit, Delivery!DeliveryInit, Delivery!Alerts, Alerts, Lifecycle!Init
<1>2. PipeInv /\ LifeInv /\ [Next]_vars => LifeInv' /\ [Lifecycle!Next]_(Lifecycle!vars)
  BY LifeStep, StepIsLifecycle
<1>. QED
  BY PipeInit, PipeStep, LifeInit, <1>1, <1>2, PTL DEF Spec, LifecycleSpec, Lifecycle!Spec

=============================================================================
