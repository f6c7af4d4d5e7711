--------------------------- MODULE AlertDelivery ---------------------------
(***************************************************************************)
(* The telegram-send-alert handler of                                      *)
(* apps/worker/src/handlers/telegram-send-alert.ts, run by concurrent      *)
(* workers on the jobs of its pg-boss queue and cut at its awaits, over    *)
(* the alerts, telegram_configs, warrants and warrant_history tables.  The *)
(* last actions stand for the rest of the system: syncWarrant, which       *)
(* publishes the jobs, and the web application, which toggles the          *)
(* configurations.  Nothing in the repository deletes an alert, a          *)
(* configuration or a warrant, so the branches for a missing row are out.  *)
(* The PDF that follows a delivered text changes none of this state.       *)
(***************************************************************************)
EXTENDS Naturals, Sequences, FiniteSets

CONSTANTS
    Warrants, Snapshots, Configs, None,
    Entries,     \* rows of warrant_history, opaque here
    Workers,     \* handler runs that may be active at a time
    RetryLimit,  \* pg-boss retryLimit: a job runs RetryLimit + 1 times
    MaxErrors,   \* bound: rejected awaits, process deaths, lost Telegram replies
    MaxJobs,     \* bound: jobs published
    MaxHistory   \* bound: history entries per warrant

ASSUME DeliveryAssumption ==
    /\ RetryLimit \in Nat /\ MaxErrors \in Nat /\ MaxJobs \in Nat /\ MaxHistory \in Nat
    /\ None \notin Snapshots
    /\ IsFiniteSet(Workers)

VARIABLES
    warrant,    \* the warrants table: the snapshot each row holds, or None
    history,    \* the warrant_history table, per warrant, by detectedAt
    enabled,    \* TelegramConfig.alertEnabled
    alerts,     \* the alerts table, unique on (warrantId, telegramConfigId)
    jobs,       \* pg-boss: the telegram-send-alert jobs, in publication order
    worker,     \* the state of each handler run
    delivered,  \* messages Telegram accepted, per alert: row text and history read
    errors,     \* rejected awaits, deaths and lost replies so far
    exhausted   \* history variable: alerts a job of which failed for good

readVars == <<warrant, history, enabled>>
deliveryVars == <<readVars, alerts, jobs, worker, delivered, errors, exhausted>>

Alerts == Warrants \X Configs
Final == {"SENT", "FAILED", "SKIPPED"}
AlertStatus == {"NONE", "PENDING"} \cup Final
JobStates == {"queued", "active", "completed", "failed"}
JobRows == [alert: Alerts, state: JobStates, retries: 0..RetryLimit]
Steps == {"idle", "alert", "config", "warrant", "history", "send",
          "markSent", "markFailed", "markSkipped", "complete"}
Messages == [snap: Snapshots \cup {None}, at: Nat]

IdleWorker == [pc |-> "idle", job |-> 0, snap |-> None, at |-> 0]

TypeOK ==
    /\ warrant \in [Warrants -> Snapshots \cup {None}]
    /\ history \in [Warrants -> Seq(Entries)]
    /\ enabled \in [Configs -> BOOLEAN]
    /\ alerts \in [Alerts -> AlertStatus]
    /\ jobs \in Seq(JobRows)
    /\ worker \in [Workers -> [pc: Steps, job: Nat, snap: Snapshots \cup {None}, at: Nat]]
    /\ delivered \in [Alerts -> Seq(Messages)]
    /\ errors \in 0..MaxErrors
    /\ exhausted \subseteq Alerts

DeliveryInit ==
    /\ warrant = [w \in Warrants |-> None]
    /\ history = [w \in Warrants |-> <<>>]
    /\ enabled = [c \in Configs |-> TRUE]
    /\ alerts = [a \in Alerts |-> "NONE"]
    /\ jobs = <<>>
    /\ worker = [x \in Workers |-> IdleWorker]
    /\ delivered = [a \in Alerts |-> <<>>]
    /\ errors = 0
    /\ exhausted = {}

-----------------------------------------------------------------------------
AlertOf(x) == jobs[worker[x].job].alert

(* The alert has a job that will still run, or is running.                  *)
HasLiveJob(a) == \E i \in DOMAIN jobs : jobs[i].alert = a
                                        /\ jobs[i].state \in {"queued", "active"}

MoveTo(x, pc) == worker' = [worker EXCEPT ![x].pc = pc]

(* Definitions named ...Variant are what the one after them would be with   *)
(* a plausible bug: each shows that a property can fail.                    *)

(* Retries are not counted.                                                 *)
JobRequeuesVariant(x) ==
    /\ worker' = [worker EXCEPT ![x] = IdleWorker]
    /\ jobs' = [jobs EXCEPT ![worker[x].job].state = "queued"]
    /\ UNCHANGED exhausted

(* The handler throws, or its process dies and pg-boss expires the job: the *)
(* job is queued again until its retries are used up.                       *)
JobFails(x) ==
    LET i == worker[x].job
    IN  /\ worker' = [worker EXCEPT ![x] = IdleWorker]
        /\ IF jobs[i].retries < RetryLimit
           THEN /\ jobs' = [jobs EXCEPT ![i].state = "queued", ![i].retries = @ + 1]
                /\ UNCHANGED exhausted
           ELSE /\ jobs' = [jobs EXCEPT ![i].state = "failed"]
                /\ exhausted' = exhausted \cup {jobs[i].alert}

Mark(x, st) ==
    /\ alerts' = [alerts EXCEPT ![AlertOf(x)] = st]
    /\ MoveTo(x, "complete")
    /\ UNCHANGED <<readVars, jobs, delivered, errors, exhausted>>

(* telegram.sendMessage: Telegram posts the text in the chat.               *)
Post(x) ==
    delivered' = [delivered EXCEPT ![AlertOf(x)] =
                    Append(@, [snap |-> worker[x].snap, at |-> worker[x].at])]

-----------------------------------------------------------------------------
(* pg-boss hands a queued job to an idle worker, in any order: a retried    *)
(* job waits out its back-off (external).                                   *)
TakeJob(x, i) ==
    /\ worker[x].pc = "idle"
    /\ jobs[i].state = "queued"
    /\ jobs' = [jobs EXCEPT ![i].state = "active"]
    /\ worker' = [worker EXCEPT ![x].pc = "alert", ![x].job = i]
    /\ UNCHANGED <<readVars, alerts, delivered, errors, exhausted>>

(* The status check is missing.                                             *)
FindAlertVariant(x) ==
    /\ worker[x].pc = "alert"
    /\ MoveTo(x, "config")
    /\ UNCHANGED <<readVars, alerts, jobs, delivered, errors, exhausted>>

(* alert.findById: an alert that is not PENDING ends the handler.           *)
FindAlert(x) ==
    /\ worker[x].pc = "alert"
    /\ MoveTo(x, IF alerts[AlertOf(x)] = "PENDING" THEN "config" ELSE "complete")
    /\ UNCHANGED <<readVars, alerts, jobs, delivered, errors, exhausted>>

(* A disabled configuration returns without marking the alert.              *)
FindConfigVariant(x) ==
    /\ worker[x].pc = "config"
    /\ MoveTo(x, IF enabled[AlertOf(x)[2]] THEN "warrant" ELSE "complete")
    /\ UNCHANGED <<readVars, alerts, jobs, delivered, errors, exhausted>>

(* telegramConfig.findDecrypted: a disabled configuration skips the alert.  *)
FindConfig(x) ==
    /\ worker[x].pc = "config"
    /\ MoveTo(x, IF enabled[AlertOf(x)[2]] THEN "warrant" ELSE "markSkipped")
    /\ UNCHANGED <<readVars, alerts, jobs, delivered, errors, exhausted>>

(* warrant.findById: the row the text is about.                             *)
FindWarrant(x) ==
    /\ worker[x].pc = "warrant"
    /\ worker' = [worker EXCEPT ![x].pc = "history", ![x].snap = warrant[AlertOf(x)[1]]]
    /\ UNCHANGED <<readVars, alerts, jobs, delivered, errors, exhausted>>

(* findLatestForWarrant: the entry that labels the text, by its position.   *)
FindHistory(x) ==
    /\ worker[x].pc = "history"
    /\ worker' = [worker EXCEPT ![x].pc = "send", ![x].at = Len(history[AlertOf(x)[1]])]
    /\ UNCHANGED <<readVars, alerts, jobs, delivered, errors, exhausted>>

SendSucceeds(x) ==
    /\ worker[x].pc = "send"
    /\ Post(x)
    /\ MoveTo(x, "markSent")
    /\ UNCHANGED <<readVars, alerts, jobs, errors, exhausted>>

(* A permanent error falls through to markSent.                             *)
SendFailsForGoodVariant(x) ==
    /\ worker[x].pc = "send"
    /\ MoveTo(x, "markSent")
    /\ UNCHANGED <<readVars, alerts, jobs, delivered, errors, exhausted>>

(* isPermanentTelegramError: 400, 401, 403, 404 or an invalid configuration. *)
SendFailsForGood(x) ==
    /\ worker[x].pc = "send"
    /\ MoveTo(x, "markFailed")
    /\ UNCHANGED <<readVars, alerts, jobs, delivered, errors, exhausted>>

(* A transient error puts the alert back to PENDING.                        *)
SendFailsForNowVariant(x) ==
    /\ worker[x].pc = "send"
    /\ JobFails(x)
    /\ alerts' = [alerts EXCEPT ![AlertOf(x)] = "PENDING"]
    /\ UNCHANGED <<readVars, delivered, errors>>

(* 429, 5xx or network, after the retries of withTelegramRetry: rethrown.   *)
SendFailsForNow(x) ==
    /\ worker[x].pc = "send"
    /\ JobFails(x)
    /\ UNCHANGED <<readVars, alerts, delivered, errors>>

(* Telegram posts the text, and its reply is lost: withTelegramRetry sends  *)
(* again, or gives up (SendFailsForNow).                                    *)
SendLosesReply(x) ==
    /\ worker[x].pc = "send"
    /\ errors < MaxErrors
    /\ errors' = errors + 1
    /\ Post(x)
    /\ UNCHANGED <<readVars, alerts, jobs, worker, exhausted>>

(* A permanent failure leaves the alert as it was before it was tried.      *)
MarkFailedVariant(x) == worker[x].pc = "markFailed" /\ Mark(x, "NONE")

MarkSent(x) == worker[x].pc = "markSent" /\ Mark(x, "SENT")
MarkFailed(x) == worker[x].pc = "markFailed" /\ Mark(x, "FAILED")
MarkSkipped(x) == worker[x].pc = "markSkipped" /\ Mark(x, "SKIPPED")

(* The handler returns, and pg-boss completes the job.                      *)
Complete(x) ==
    /\ worker[x].pc = "complete"
    /\ jobs' = [jobs EXCEPT ![worker[x].job].state = "completed"]
    /\ worker' = [worker EXCEPT ![x] = IdleWorker]
    /\ UNCHANGED <<readVars, alerts, delivered, errors, exhausted>>

(* An await of the handler rejects (markSent within its try included), or   *)
(* the process dies.                                                        *)
WorkerFails(x) ==
    /\ worker[x].pc # "idle"
    /\ errors < MaxErrors
    /\ errors' = errors + 1
    /\ JobFails(x)
    /\ UNCHANGED <<readVars, alerts, delivered>>

WorkerStep(x) ==
    \/ \E i \in DOMAIN jobs : TakeJob(x, i)
    \/ FindAlert(x)
    \/ FindConfig(x)
    \/ FindWarrant(x)
    \/ FindHistory(x)
    \/ SendSucceeds(x) \/ SendFailsForGood(x) \/ SendFailsForNow(x)
    \/ MarkSent(x) \/ MarkFailed(x) \/ MarkSkipped(x)
    \/ Complete(x)

-----------------------------------------------------------------------------
(* syncWarrant, seen from here: it writes the row, logs the change, creates *)
(* the alert and publishes a job for it.                                    *)
SyncWritesRow(w, p) ==
    /\ warrant' = [warrant EXCEPT ![w] = p]
    /\ UNCHANGED <<history, enabled, alerts, jobs, worker, delivered, errors, exhausted>>

SyncLogs(w, e) ==
    /\ warrant[w] # None
    /\ Len(history[w]) < MaxHistory
    /\ history' = [history EXCEPT ![w] = Append(@, e)]
    /\ UNCHANGED <<warrant, enabled, alerts, jobs, worker, delivered, errors, exhausted>>

SyncEnqueues(a) ==
    /\ alerts[a] = "NONE"
    /\ history[a[1]] # <<>>
    /\ alerts' = [alerts EXCEPT ![a] = "PENDING"]
    /\ UNCHANGED <<readVars, jobs, worker, delivered, errors, exhausted>>

PublishJob(a) ==
    jobs' = Append(jobs, [alert |-> a, state |-> "queued", retries |-> 0])

SyncPublishes(a) ==
    /\ alerts[a] # "NONE"
    /\ Len(jobs) < MaxJobs
    /\ PublishJob(a)
    /\ UNCHANGED <<readVars, alerts, worker, delivered, errors, exhausted>>

ConfigToggles(c) ==
    /\ enabled' = [enabled EXCEPT ![c] = ~@]
    /\ UNCHANGED <<warrant, history, alerts, jobs, worker, delivered, errors, exhausted>>

SyncActs ==
    \/ \E w \in Warrants, p \in Snapshots : SyncWritesRow(w, p)
    \/ \E w \in Warrants, e \in Entries : SyncLogs(w, e)
    \/ \E a \in Alerts : SyncEnqueues(a) \/ SyncPublishes(a)

DeliveryNext ==
    \/ \E x \in Workers : WorkerStep(x) \/ SendLosesReply(x) \/ WorkerFails(x)
    \/ SyncActs
    \/ \E c \in Configs : ConfigToggles(c)

DeliverySpec == DeliveryInit /\ [][DeliveryNext]_deliveryVars

(* A worker polls for jobs, and the event loop runs its handler to its end. *)
FairDeliverySpec == DeliverySpec /\ \A x \in Workers : WF_deliveryVars(WorkerStep(x))

-----------------------------------------------------------------------------
(* Properties.                                                              *)

(* An active job is run by one worker, and a worker runs an active job: no  *)
(* two handlers ever share a job, across failures and retries.              *)
JobsAreOwned ==
    /\ \A x \in Workers : worker[x].pc # "idle" =>
         worker[x].job \in DOMAIN jobs /\ jobs[worker[x].job].state = "active"
    /\ \A x, y \in Workers :
         (x # y /\ worker[x].pc # "idle" /\ worker[y].pc # "idle") =>
           worker[x].job # worker[y].job
    /\ \A i \in DOMAIN jobs : jobs[i].state = "active" =>
         \E x \in Workers : worker[x].pc # "idle" /\ worker[x].job = i

(* An alert is SENT only if Telegram accepted a message of it, whatever     *)
(* other jobs of the same alert do.                                         *)
SentIsDelivered == \A a \in Alerts : alerts[a] = "SENT" => delivered[a] # <<>>

(* A chat gets an alert at most once per handler run that is active at a    *)
(* time, plus once per failure between Telegram's acceptance and markSent:  *)
(* jobs published twice and retried cost nothing once the alert is settled. *)
DuplicatesBounded ==
    \A a \in Alerts : Len(delivered[a]) <= Cardinality(Workers) + errors

(* A settled alert never becomes PENDING again, and a row is never lost.    *)
SettledStaysSettled ==
    [][\A a \in Alerts : /\ alerts[a] \in Final => alerts'[a] \in Final
                         /\ alerts[a] # "NONE" => alerts'[a] # "NONE"]_deliveryVars

(* A job never stays: it completes, or fails with its retries used up.      *)
JobsFinish ==
    \A i \in 1..MaxJobs :
        (i \in DOMAIN jobs) ~> (i \in DOMAIN jobs /\ jobs[i].state \in {"completed", "failed"})

=============================================================================
