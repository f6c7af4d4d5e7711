--------------------------- MODULE AlertPipeline ---------------------------
(***************************************************************************)
(* From a change on the portal to a message in a chat: WarrantSync and     *)
(* AlertDelivery composed over the warrants, warrant_history, alerts and   *)
(* telegram_configs tables, with the telegram-send-alert queue between     *)
(* them.  Each component's steps are its own; here publishAlert puts the   *)
(* job into the queue that AlertDelivery serves.                           *)
(***************************************************************************)
EXTENDS WarrantSync

CONSTANTS
    Workers,     \* telegram-send-alert handler runs active at a time
    RetryLimit,  \* pg-boss retryLimit
    MaxErrors,   \* bound: failures inside the handlers
    MaxJobs,     \* bound of AlertDelivery, out of reach of what this module publishes
    MaxHistory   \* bound of AlertDelivery, out of reach of what this module logs

ASSUME QueueAssumption ==
    /\ RetryLimit \in Nat /\ MaxErrors \in Nat /\ MaxJobs \in Nat /\ MaxHistory \in Nat
    /\ IsFiniteSet(Workers)

VARIABLES
    jobs, worker, delivered, errors, exhausted,  \* see AlertDelivery
    stranded  \* history variable: PENDING alerts whose publishing call died

queueVars == <<jobs, worker, delivered, errors, exhausted>>
vars == <<syncVars, queueVars, stranded>>

Delivery == INSTANCE AlertDelivery

Init == SyncInit /\ Delivery!DeliveryInit /\ stranded = {}

(* A call of syncWarrant takes a step: publishing adds a job, and dying     *)
(* between enqueue and publish leaves a PENDING alert that this call will   *)
(* not publish.                                                             *)
Publishes(s) ==
    /\ PublishAlert(s)
    /\ Delivery!PublishJob(<<sync[s].w, sync[s].cfg>>)
    /\ UNCHANGED <<worker, delivered, errors, exhausted, stranded>>

Syncs(s) ==
    /\ \/ \E w \in Warrants : Fetch(s, w)
       \/ FindUnchanged(s) \/ FindChanged(s) \/ Upsert(s) \/ AppendHistory(s)
       \/ PublishPdf(s) \/ ListConfigs(s)
       \/ \E c \in Configs : EnqueueAlert(s, c)
    /\ UNCHANGED <<queueVars, stranded>>

SyncDies(s) ==
    /\ SyncFails(s)
    /\ stranded' = IF sync[s].pc = "publish"
                   THEN stranded \cup {<<sync[s].w, sync[s].cfg>>} ELSE stranded
    /\ UNCHANGED queueVars

(* A worker takes a step of AlertDelivery.                                  *)
Delivers(x) ==
    /\ Delivery!WorkerStep(x)
    /\ UNCHANGED <<portalVars, everOff, sync, lossVars, stranded>>

DeliveryFails(x) ==
    /\ Delivery!SendLosesReply(x) \/ Delivery!WorkerFails(x)
    /\ UNCHANGED <<portalVars, everOff, sync, lossVars, stranded>>

OutsideChanges ==
    /\ \/ \E w \in Warrants, p \in Snapshots : PortalChanges(w, p)
       \/ \E c \in Configs : ToggleConfig(c)
    /\ UNCHANGED <<queueVars, stranded>>

Next ==
    \/ \E s \in Syncers : Syncs(s) \/ Publishes(s) \/ SyncDies(s)
    \/ \E x \in Workers : Delivers(x) \/ DeliveryFails(x)
    \/ OutsideChanges

Spec == Init /\ [][Next]_vars

(* A call inside syncWarrant goes on, every warrant keeps being scanned,    *)
(* and a worker polls for jobs and runs its handler to its end.             *)
Fairness ==
    /\ \A s \in Syncers : WF_vars((Syncs(s) /\ sync[s].pc # "idle") \/ Publishes(s))
    /\ \A w \in Warrants : SF_vars(\E s \in Syncers : Fetch(s, w) /\ UNCHANGED <<queueVars, stranded>>)
    /\ \A x \in Workers : WF_vars(Delivers(x))

FairSpec == Spec /\ Fairness

-----------------------------------------------------------------------------
(* Properties.                                                              *)

Publishing(a) == \E s \in Syncers : sync[s].pc = "publish"
                                    /\ sync[s].w = a[1] /\ sync[s].cfg = a[2]

(* A PENDING alert is always carried by something that will act on it: a    *)
(* call about to publish its job, or a job that is queued or running and    *)
(* not yet through with it: no handler returns, and so completes its job,   *)
(* while the alert is PENDING.  The only ways to lose it are a call that    *)
(* dies between enqueue and publish, and a job that used up its retries:    *)
(* nothing sweeps PENDING alerts (warrant-sync.ts:189-203,                  *)
(* telegram-send-alert.ts:67-125).                                          *)
PendingIsCarried ==
    \A a \in Alerts : alerts[a] = "PENDING" =>
        /\ Publishing(a) \/ Delivery!HasLiveJob(a) \/ a \in stranded \cup exhausted
        /\ \A x \in Workers : worker[x].pc = "complete" => Delivery!AlertOf(x) # a

(* The alerts table keeps the promise of AlertLifecycle (one worker).       *)
Lifecycle == INSTANCE AlertLifecycle WITH
    status <- alerts,
    told <- [a \in Alerts |-> delivered[a] # <<>>]

LifecycleSpec == Lifecycle!Spec

(* Each component sees in the other what its own environment allows.        *)
DeliveryHolds == Delivery!DeliverySpec

(* Every PENDING alert is settled in the end, or was lost by a failure.     *)
PendingSettles ==
    \A a \in Alerts : alerts[a] = "PENDING" ~>
        (alerts[a] \in Final \/ a \in stranded \cup exhausted)

(* What enqueueFollowups' caller says: jobs are enqueued "when something    *)
(* new or changed".  When every call and job is over and nothing failed, a  *)
(* configuration that was on throughout has been told what the row holds.   *)
ChangesAreTold ==
    \A a \in Alerts :
        (/\ warrant[a[1]] # None
         /\ \A s \in Syncers : sync[s].pc = "idle"
         /\ ~Delivery!HasLiveJob(a)
         /\ alerts[a] = "SENT" /\ a[2] \notin everOff
         /\ faults = 0 /\ errors = 0)
        => \E i \in DOMAIN delivered[a] : delivered[a][i].snap = warrant[a[1]]
=============================================================================
