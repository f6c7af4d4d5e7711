------------------------ MODULE AlertDelivery_proofs ------------------------
(***************************************************************************)
(* Proofs about AlertDelivery, for any number of handlers, jobs, retries   *)
(* and failures.                                                           *)
(***************************************************************************)
EXTENDS AlertDelivery, FiniteSetTheorems, TLAPS

WorkerRows == [pc: Steps, job: Nat, snap: Snapshots \cup {None}, at: Nat]

TypeInv == TypeOK /\ JobsAreOwned

(* No job disappears or changes its alert.                                  *)
JobsKeep ==
    \A i \in DOMAIN jobs : i \in DOMAIN jobs' /\ jobs'[i].alert = jobs[i].alert

-----------------------------------------------------------------------------
(* What Append leaves in place and what it adds.                            *)
LEMMA AppendFacts ==
    ASSUME NEW S, NEW h \in Seq(S), NEW e \in S
    PROVE  /\ Append(h, e) \in Seq(S) /\ Len(h) \in Nat
           /\ DOMAIN h = 1..Len(h)
           /\ DOMAIN Append(h, e) = 1..(Len(h) + 1)
           /\ Len(Append(h, e)) = Len(h) + 1
           /\ \A i \in 1..Len(h) : Append(h, e)[i] = h[i]
           /\ Append(h, e)[Len(h) + 1] = e
           /\ Append(h, e) # <<>>
<1>1. Len(Append(h, e)) = Len(h) + 1 /\ Len(h) \in Nat
  OBVIOUS
<1>2. Append(h, e) # <<>>
  <2>1. Len(Append(h, e)) # Len(<<>>)
    BY <1>1
  <2>. QED  BY <2>1
<1>. QED  BY <1>1, <1>2

(* A handler that goes on keeps its job.                                    *)
LEMMA MovingOn ==
    ASSUME TypeInv, NEW x \in Workers, worker[x].pc # "idle",
           NEW r \in WorkerRows, r.pc # "idle", r.job = worker[x].job,
           worker' = [worker EXCEPT ![x] = r], UNCHANGED jobs
    PROVE  worker' \in [Workers -> WorkerRows] /\ JobsAreOwned'
<1>1. worker' \in [Workers -> WorkerRows]
  BY DEF TypeInv, TypeOK, WorkerRows
<1>2. \A y \in Workers : /\ worker'[y].pc # "idle" <=> worker[y].pc # "idle"
                         /\ worker'[y].job = worker[y].job
  BY DEF TypeInv, TypeOK
<1>3. JobsAreOwned'
  BY <1>2 DEF TypeInv, JobsAreOwned
<1>. QED  BY <1>1, <1>3

(* A handler that ends gives its job up, whatever becomes of the job.       *)
LEMMA LettingGo ==
    ASSUME TypeInv, NEW x \in Workers, worker[x].pc # "idle",
           NEW j \in JobRows, j.alert = jobs[worker[x].job].alert, j.state # "active",
           jobs' = [jobs EXCEPT ![worker[x].job] = j],
           worker' = [worker EXCEPT ![x] = IdleWorker]
    PROVE  /\ worker' \in [Workers -> WorkerRows] /\ jobs' \in Seq(JobRows)
           /\ JobsAreOwned' /\ JobsKeep
<1>. DEFINE i == worker[x].job
<1>1. i \in DOMAIN jobs /\ jobs[i].state = "active" /\ jobs \in Seq(JobRows)
  BY DEF TypeInv, TypeOK, JobsAreOwned
<1>2. worker' \in [Workers -> WorkerRows]
  BY DEF TypeInv, TypeOK, WorkerRows, IdleWorker, Steps
<1>3. jobs' \in Seq(JobRows) /\ DOMAIN jobs' = DOMAIN jobs
  BY <1>1
<1>4. jobs'[i] = j /\ \A k \in DOMAIN jobs : k # i => jobs'[k] = jobs[k]
  BY <1>1
<1>5. worker'[x].pc = "idle" /\ \A y \in Workers : y # x => worker'[y] = worker[y]
  BY DEF TypeInv, TypeOK, IdleWorker
<1>6. \A y \in Workers : (y # x /\ worker[y].pc # "idle") => worker[y].job # i
  BY DEF TypeInv, JobsAreOwned
<1>7. JobsAreOwned'
  <2>1. \A y \in Workers : worker'[y].pc # "idle" =>
          worker'[y].job \in DOMAIN jobs' /\ jobs'[worker'[y].job].state = "active"
    <3>. SUFFICES ASSUME NEW y \in Workers, worker'[y].pc # "idle"
                  PROVE  worker'[y].job \in DOMAIN jobs' /\ jobs'[worker'[y].job].state = "active"
      OBVIOUS
    <3>1. y # x /\ worker'[y] = worker[y]
      BY <1>5
    <3>2. worker[y].job \in DOMAIN jobs /\ jobs[worker[y].job].state = "active"
          /\ worker[y].job # i
      BY <1>6, <3>1 DEF TypeInv, JobsAreOwned
    <3>. QED  BY <1>3, <1>4, <3>1, <3>2
  <2>2. \A y, z \in Workers : (y # z /\ worker'[y].pc # "idle" /\ worker'[z].pc # "idle") =>
          worker'[y].job # worker'[z].job
    BY <1>5 DEF TypeInv, JobsAreOwned
  <2>3. \A k \in DOMAIN jobs' : jobs'[k].state = "active" =>
          \E y \in Workers : worker'[y].pc # "idle" /\ worker'[y].job = k
    <3>. SUFFICES ASSUME NEW k \in DOMAIN jobs', jobs'[k].state = "active"
                  PROVE  \E y \in Workers : worker'[y].pc # "idle" /\ worker'[y].job = k
      OBVIOUS
    <3>1. k # i /\ jobs[k].state = "active" /\ k \in DOMAIN jobs
      BY <1>3, <1>4
    <3>2. PICK y \in Workers : worker[y].pc # "idle" /\ worker[y].job = k
      BY <3>1 DEF TypeInv, JobsAreOwned
    <3>3. y # x
      BY <3>1, <3>2
    <3>. QED  BY <1>5, <3>2, <3>3
  <2>. QED  BY <2>1, <2>2, <2>3 DEF JobsAreOwned
<1>8. JobsKeep
  BY <1>1, <1>3, <1>4 DEF JobsKeep
<1>. QED  BY <1>2, <1>3, <1>7, <1>8

(* JobFails in those terms.                                                 *)
LEMMA FailingLetsGo ==
    ASSUME TypeInv, NEW x \in Workers, worker[x].pc # "idle", JobFails(x)
    PROVE  /\ worker' \in [Workers -> WorkerRows] /\ jobs' \in Seq(JobRows)
           /\ JobsAreOwned' /\ JobsKeep /\ exhausted' \subseteq Alerts
           /\ worker' = [worker EXCEPT ![x] = IdleWorker]
<1>. DEFINE i == worker[x].job
            again == [alert |-> jobs[i].alert, state |-> "queued", retries |-> jobs[i].retries + 1]
            ended == [alert |-> jobs[i].alert, state |-> "failed", retries |-> jobs[i].retries]
<1>1. i \in DOMAIN jobs /\ jobs[i] \in JobRows /\ jobs \in Seq(JobRows)
  BY DEF TypeInv, TypeOK, JobsAreOwned
<1>2. worker' = [worker EXCEPT ![x] = IdleWorker]
  BY DEF JobFails
<1>3. jobs[i] = [alert |-> jobs[i].alert, state |-> jobs[i].state, retries |-> jobs[i].retries]
      /\ jobs[i].alert \in Alerts /\ jobs[i].retries \in 0..RetryLimit
  BY <1>1 DEF JobRows
<1>4. CASE jobs[i].retries < RetryLimit
  <2>1. again \in JobRows
    BY <1>3, <1>4, DeliveryAssumption DEF JobRows, JobStates
  <2>2. jobs' = [jobs EXCEPT ![i] = again] /\ exhausted' = exhausted
    BY <1>1, <1>3, <1>4 DEF JobFails, JobRows
  <2>3. again.alert = jobs[i].alert /\ again.state # "active"
    OBVIOUS
  <2>. HIDE DEF again
  <2>. QED  BY <1>2, <2>1, <2>2, <2>3, LettingGo DEF TypeInv, TypeOK
<1>5. CASE ~(jobs[i].retries < RetryLimit)
  <2>1. ended \in JobRows
    BY <1>3 DEF JobRows, JobStates
  <2>2. jobs' = [jobs EXCEPT ![i] = ended] /\ exhausted' = exhausted \cup {jobs[i].alert}
    BY <1>1, <1>3, <1>5 DEF JobFails, JobRows
  <2>3. ended.alert = jobs[i].alert /\ ended.state # "active"
    OBVIOUS
  <2>. HIDE DEF ended
  <2>. QED  BY <1>2, <1>3, <2>1, <2>2, <2>3, LettingGo DEF TypeInv, TypeOK
<1>. QED  BY <1>4, <1>5

(* A handler that is handed a queued job is the only one that has it.       *)
LEMMA TakingJob ==
    ASSUME TypeInv, NEW x \in Workers, NEW i \in DOMAIN jobs, TakeJob(x, i)
    PROVE  /\ worker' \in [Workers -> WorkerRows] /\ jobs' \in Seq(JobRows)
           /\ JobsAreOwned' /\ JobsKeep
           /\ worker'[x].pc = "alert" /\ \A y \in Workers : y # x => worker'[y] = worker[y]
<1>. DEFINE j == [alert |-> jobs[i].alert, state |-> "active", retries |-> jobs[i].retries]
            r == [pc |-> "alert", job |-> i, snap |-> worker[x].snap, at |-> worker[x].at]
<1>1. /\ worker[x].pc = "idle" /\ jobs[i].state = "queued"
      /\ jobs \in Seq(JobRows) /\ jobs[i] \in JobRows /\ i \in Nat
      /\ worker \in [Workers -> WorkerRows]
  BY DEF TakeJob, TypeInv, TypeOK, WorkerRows
<1>2. j \in JobRows /\ r \in WorkerRows
  BY <1>1 DEF JobRows, JobStates, WorkerRows, Steps
<1>3. /\ jobs' = [jobs EXCEPT ![i] = j] /\ worker' \in [Workers -> WorkerRows]
      /\ worker'[x] = r /\ \A y \in Workers : y # x => worker'[y] = worker[y]
  <2>1. jobs[i] = [alert |-> jobs[i].alert, state |-> jobs[i].state, retries |-> jobs[i].retries]
    BY <1>1 DEF JobRows
  <2>2. worker' \in [Workers -> WorkerRows] /\ \A y \in Workers : y # x => worker'[y] = worker[y]
    BY <1>1 DEF TakeJob, WorkerRows, Steps
  <2>3. /\ worker'[x].pc = "alert" /\ worker'[x].job = i
        /\ worker'[x].snap = worker[x].snap /\ worker'[x].at = worker[x].at
    BY <1>1 DEF TakeJob, WorkerRows
  <2>4. worker'[x] = r
    <3>1. worker'[x] = [pc |-> worker'[x].pc, job |-> worker'[x].job,
                        snap |-> worker'[x].snap, at |-> worker'[x].at]
      BY <2>2 DEF WorkerRows
    <3>. QED  BY <2>3, <3>1
  <2>5. jobs' = [jobs EXCEPT ![i] = j]
    <3>1. [jobs[i] EXCEPT !.state = "active"] = j
      BY <2>1
    <3>2. jobs' = [jobs EXCEPT ![i] = [jobs[i] EXCEPT !.state = "active"]]
      BY <1>1 DEF TakeJob
    <3>. HIDE DEF j
    <3>. QED  BY <3>1, <3>2
  <2>. QED  BY <2>2, <2>4, <2>5
<1>4. /\ r.pc = "alert" /\ r.job = i
      /\ j.alert = jobs[i].alert /\ j.state = "active"
  OBVIOUS
<1>. HIDE DEF j, r
<1>5. jobs' \in Seq(JobRows) /\ DOMAIN jobs' = DOMAIN jobs /\ worker' \in [Workers -> WorkerRows]
  BY <1>1, <1>2, <1>3
<1>6. /\ jobs'[i] = j /\ \A k \in DOMAIN jobs : k # i => jobs'[k] = jobs[k]
      /\ worker'[x] = r /\ \A y \in Workers : y # x => worker'[y] = worker[y]
  BY <1>1, <1>3
<1>7. \A y \in Workers : worker[y].pc # "idle" => worker[y].job # i /\ y # x
  BY <1>1 DEF TypeInv, JobsAreOwned
<1>8. JobsAreOwned'
  <2>1. \A y \in Workers : worker'[y].pc # "idle" =>
          worker'[y].job \in DOMAIN jobs' /\ jobs'[worker'[y].job].state = "active"
    BY <1>4, <1>5, <1>6, <1>7 DEF TypeInv, JobsAreOwned
  <2>2. \A y, z \in Workers : (y # z /\ worker'[y].pc # "idle" /\ worker'[z].pc # "idle") =>
          worker'[y].job # worker'[z].job
    BY <1>4, <1>6, <1>7 DEF TypeInv, JobsAreOwned
  <2>3. \A k \in DOMAIN jobs' : jobs'[k].state = "active" =>
          \E y \in Workers : worker'[y].pc # "idle" /\ worker'[y].job = k
    <3>. SUFFICES ASSUME NEW k \in DOMAIN jobs', jobs'[k].state = "active"
                  PROVE  \E y \in Workers : worker'[y].pc # "idle" /\ worker'[y].job = k
      OBVIOUS
    <3>1. CASE k = i
      BY <1>4, <1>6, <3>1
    <3>2. CASE k # i
      <4>1. k \in DOMAIN jobs /\ jobs[k].state = "active"
        BY <1>5, <1>6, <3>2
      <4>2. PICK y \in Workers : worker[y].pc # "idle" /\ worker[y].job = k
        BY <4>1 DEF TypeInv, JobsAreOwned
      <4>. QED  BY <1>6, <1>7, <4>2
    <3>. QED  BY <3>1, <3>2
  <2>. QED  BY <2>1, <2>2, <2>3 DEF JobsAreOwned
<1>9. JobsKeep
  BY <1>4, <1>5, <1>6 DEF JobsKeep
<1>. QED  BY <1>4, <1>5, <1>6, <1>8, <1>9

(* The handler's steps from one await to the next.                          *)
HandlerMoves(x) ==
    \/ FindAlert(x) \/ FindConfig(x) \/ FindWarrant(x) \/ FindHistory(x)
    \/ SendSucceeds(x) \/ SendFailsForGood(x)
    \/ MarkSent(x) \/ MarkFailed(x) \/ MarkSkipped(x)

(* What they have in common.                                                *)
LEMMA MovesOn ==
    ASSUME TypeInv, NEW x \in Workers, HandlerMoves(x)
    PROVE  /\ worker[x].pc # "idle" /\ worker'[x].pc # "idle"
           /\ worker' \in [Workers -> WorkerRows] /\ JobsAreOwned'
           /\ UNCHANGED <<jobs, errors, exhausted, readVars>> /\ JobsKeep
           /\ \A y \in Workers : y # x => worker'[y] = worker[y]
           /\ worker'[x].job = worker[x].job /\ AlertOf(x) \in Alerts
<1>1. UNCHANGED <<jobs, errors, exhausted, readVars>> /\ worker[x].pc # "idle"
  BY DEF HandlerMoves, FindAlert, FindConfig, FindWarrant, FindHistory, SendSucceeds,
         SendFailsForGood, MarkSent, MarkFailed, MarkSkipped, Mark
<1>2. worker \in [Workers -> WorkerRows]
  BY DEF TypeInv, TypeOK, WorkerRows
<1>3. worker[x].job \in DOMAIN jobs /\ jobs \in Seq(JobRows)
  BY <1>1 DEF TypeInv, TypeOK, JobsAreOwned
<1>4. AlertOf(x) \in Alerts
  <2>1. jobs[worker[x].job] \in JobRows
    BY <1>3
  <2>. QED  BY <2>1 DEF AlertOf, JobRows
<1>5. \E r \in WorkerRows : /\ r.pc # "idle" /\ r.job = worker[x].job
                            /\ worker' = [worker EXCEPT ![x] = r]
  <2>. DEFINE next(pc) == [worker[x] EXCEPT !.pc = pc]
  <2>1. \A pc \in Steps : next(pc) \in WorkerRows /\ next(pc).pc = pc
                          /\ next(pc).job = worker[x].job
    BY <1>2 DEF WorkerRows
  <2>2. \A pc \in Steps \ {"idle"} : MoveTo(x, pc) =>
          \E r \in WorkerRows : /\ r.pc # "idle" /\ r.job = worker[x].job
                                /\ worker' = [worker EXCEPT ![x] = r]
    BY <1>2, <2>1 DEF MoveTo
  <2>3. CASE FindWarrant(x)
    <3>. DEFINE r == [worker[x] EXCEPT !.pc = "history", !.snap = warrant[AlertOf(x)[1]]]
    <3>1. warrant[AlertOf(x)[1]] \in Snapshots \cup {None}
      BY <1>4 DEF TypeInv, TypeOK, Alerts
    <3>2. r \in WorkerRows /\ r.pc = "history" /\ r.job = worker[x].job
      BY <1>2, <3>1 DEF WorkerRows, Steps
    <3>3. worker' = [worker EXCEPT ![x] = r]
      BY <1>2, <2>3 DEF FindWarrant
    <3>. QED  BY <3>2, <3>3
  <2>4. CASE FindHistory(x)
    <3>. DEFINE r == [worker[x] EXCEPT !.pc = "send", !.at = Len(history[AlertOf(x)[1]])]
    <3>1. Len(history[AlertOf(x)[1]]) \in Nat
      BY <1>4 DEF TypeInv, TypeOK, Alerts
    <3>2. r \in WorkerRows /\ r.pc = "send" /\ r.job = worker[x].job
      BY <1>2, <3>1 DEF WorkerRows, Steps
    <3>3. worker' = [worker EXCEPT ![x] = r]
      BY <1>2, <2>4 DEF FindHistory
    <3>. QED  BY <3>2, <3>3
  <2>5. CASE FindAlert(x)
    BY <2>2, <2>5 DEF FindAlert, Steps
  <2>6. CASE FindConfig(x)
    BY <2>2, <2>6 DEF FindConfig, Steps
  <2>7. CASE SendSucceeds(x)
    BY <2>2, <2>7 DEF SendSucceeds, Steps
  <2>8. CASE SendFailsForGood(x)
    BY <2>2, <2>8 DEF SendFailsForGood, Steps
  <2>9. CASE MarkSent(x) \/ MarkFailed(x) \/ MarkSkipped(x)
    BY <2>2, <2>9 DEF MarkSent, MarkFailed, MarkSkipped, Mark, Steps
  <2>. QED  BY <2>3, <2>4, <2>5, <2>6, <2>7, <2>8, <2>9 DEF HandlerMoves
<1>6. PICK r \in WorkerRows : /\ r.pc # "idle" /\ r.job = worker[x].job
                              /\ worker' = [worker EXCEPT ![x] = r]
  BY <1>5
<1>7. worker' \in [Workers -> WorkerRows] /\ JobsAreOwned'
  BY <1>1, <1>6, MovingOn
<1>8. worker'[x] = r /\ \A y \in Workers : y # x => worker'[y] = worker[y]
  BY <1>2, <1>6
<1>9. JobsKeep
  BY <1>1 DEF JobsKeep
<1>. QED  BY <1>1, <1>4, <1>6, <1>7, <1>8, <1>9

(* A completed job in the terms of LettingGo.                               *)
LEMMA CompletingLetsGo ==
    ASSUME TypeInv, NEW x \in Workers, Complete(x)
    PROVE  /\ worker' \in [Workers -> WorkerRows] /\ jobs' \in Seq(JobRows)
           /\ JobsAreOwned' /\ JobsKeep
           /\ worker' = [worker EXCEPT ![x] = IdleWorker]
<1>. DEFINE i == worker[x].job
            j == [alert |-> jobs[i].alert, state |-> "completed", retries |-> jobs[i].retries]
<1>1. worker[x].pc # "idle" /\ worker' = [worker EXCEPT ![x] = IdleWorker]
  BY DEF Complete
<1>2. i \in DOMAIN jobs /\ jobs \in Seq(JobRows)
  BY <1>1 DEF TypeInv, TypeOK, JobsAreOwned
<1>3. jobs[i] \in JobRows
  BY <1>2
<1>4. jobs[i] = [alert |-> jobs[i].alert, state |-> jobs[i].state, retries |-> jobs[i].retries]
  BY <1>3 DEF JobRows
<1>5. j \in JobRows /\ j.alert = jobs[i].alert /\ j.state # "active"
  BY <1>3 DEF JobRows, JobStates
<1>6. [jobs[i] EXCEPT !.state = "completed"] = j
  BY <1>4
<1>7. jobs' = [jobs EXCEPT ![i] = [jobs[i] EXCEPT !.state = "completed"]]
  BY <1>2 DEF Complete
<1>. HIDE DEF j
<1>. QED  BY <1>1, <1>5, <1>6, <1>7, LettingGo

(* A message that Telegram accepts is added to those of its alert.          *)
LEMMA Posting ==
    ASSUME TypeInv, NEW x \in Workers, worker[x].pc # "idle", Post(x)
    PROVE  /\ AlertOf(x) \in Alerts
           /\ delivered' \in [Alerts -> Seq(Messages)]
           /\ Len(delivered'[AlertOf(x)]) = Len(delivered[AlertOf(x)]) + 1
           /\ delivered'[AlertOf(x)] # <<>>
           /\ \A a \in Alerts : a # AlertOf(x) => delivered'[a] = delivered[a]
<1>. DEFINE m == [snap |-> worker[x].snap, at |-> worker[x].at]
<1>1. AlertOf(x) \in Alerts
  <2>1. worker[x].job \in DOMAIN jobs /\ jobs \in Seq(JobRows)
    BY DEF TypeInv, TypeOK, JobsAreOwned
  <2>2. jobs[worker[x].job] \in JobRows
    BY <2>1
  <2>. QED  BY <2>2 DEF AlertOf, JobRows
<1>2. m \in Messages
  BY DEF TypeInv, TypeOK, Messages
<1>3. delivered' = [delivered EXCEPT ![AlertOf(x)] = Append(@, m)]
  BY DEF Post
<1>. HIDE DEF m
<1>4. delivered \in [Alerts -> Seq(Messages)]
  BY DEF TypeInv, TypeOK
<1>5. /\ Append(delivered[AlertOf(x)], m) \in Seq(Messages)
      /\ Append(delivered[AlertOf(x)], m) # <<>>
      /\ Len(Append(delivered[AlertOf(x)], m)) = Len(delivered[AlertOf(x)]) + 1
  BY <1>1, <1>2, <1>4, AppendFacts
<1>. QED  BY <1>1, <1>3, <1>4, <1>5

(* A new job is queued behind the others.                                   *)
LEMMA Publishing ==
    ASSUME TypeInv, NEW a \in Alerts, PublishJob(a), UNCHANGED worker
    PROVE  jobs' \in Seq(JobRows) /\ JobsAreOwned' /\ JobsKeep
<1>. DEFINE j == [alert |-> a, state |-> "queued", retries |-> 0]
<1>1. j \in JobRows /\ j.state = "queued"
  BY DeliveryAssumption DEF JobRows, JobStates
<1>2. jobs' = Append(jobs, j) /\ jobs \in Seq(JobRows)
  BY DEF PublishJob, TypeInv, TypeOK
<1>. HIDE DEF j
<1>3. /\ jobs' \in Seq(JobRows) /\ Len(jobs) \in Nat
      /\ DOMAIN jobs = 1..Len(jobs) /\ DOMAIN jobs' = 1..(Len(jobs) + 1)
      /\ \A i \in 1..Len(jobs) : jobs'[i] = jobs[i]
      /\ jobs'[Len(jobs) + 1] = j
  BY <1>1, <1>2, AppendFacts
<1>4. \A i \in DOMAIN jobs : i \in DOMAIN jobs' /\ jobs'[i] = jobs[i]
  BY <1>3
<1>5. \A i \in DOMAIN jobs' : jobs'[i].state = "active" => i \in DOMAIN jobs
  BY <1>1, <1>3
<1>6. JobsAreOwned'
  BY <1>4, <1>5 DEF TypeInv, JobsAreOwned
<1>7. JobsKeep
  BY <1>4 DEF JobsKeep
<1>. QED  BY <1>3, <1>6, <1>7

-----------------------------------------------------------------------------
(* TypeInv is inductive.                                                    *)
LEMMA TypeInit == DeliveryInit => TypeInv
<1>. SUFFICES ASSUME DeliveryInit PROVE TypeInv
  OBVIOUS
<1>1. TypeOK
  BY DeliveryAssumption DEF DeliveryInit, TypeOK, AlertStatus, IdleWorker, Steps
<1>2. JobsAreOwned
  BY DEF DeliveryInit, JobsAreOwned, IdleWorker
<1>. QED  BY <1>1, <1>2 DEF TypeInv

(* Every step keeps TypeInv, and no step changes the alert of a job.        *)
LEMMA TypeStep == TypeInv /\ [DeliveryNext]_deliveryVars => TypeInv' /\ JobsKeep
<1>. SUFFICES ASSUME TypeInv, [DeliveryNext]_deliveryVars PROVE TypeInv' /\ JobsKeep
  OBVIOUS
<1>. USE DEF readVars
<1>0. TypeOK /\ JobsAreOwned
  BY DEF TypeInv
<1>1. ASSUME NEW x \in Workers, NEW i \in DOMAIN jobs, TakeJob(x, i) PROVE TypeInv' /\ JobsKeep
  BY <1>0, <1>1, TakingJob DEF TakeJob, TypeInv, TypeOK, WorkerRows
<1>2. ASSUME NEW x \in Workers, HandlerMoves(x) PROVE TypeInv' /\ JobsKeep
  <2>1. /\ worker' \in [Workers -> WorkerRows] /\ JobsAreOwned' /\ JobsKeep
        /\ UNCHANGED <<jobs, errors, exhausted, readVars>>
        /\ AlertOf(x) \in Alerts /\ worker[x].pc # "idle"
    BY <1>2, MovesOn
  <2>2. alerts' \in [Alerts -> AlertStatus]
    BY <1>0, <1>2, <2>1
       DEF HandlerMoves, FindAlert, FindConfig, FindWarrant, FindHistory, SendSucceeds,
           SendFailsForGood, MarkSent, MarkFailed, MarkSkipped, Mark, TypeOK, AlertStatus, Final
  <2>3. delivered' \in [Alerts -> Seq(Messages)]
    <3>1. CASE SendSucceeds(x)
      BY <2>1, <3>1, Posting DEF SendSucceeds
    <3>2. CASE ~SendSucceeds(x)
      BY <1>0, <1>2, <3>2
         DEF HandlerMoves, FindAlert, FindConfig, FindWarrant, FindHistory,
             SendFailsForGood, MarkSent, MarkFailed, MarkSkipped, Mark, TypeOK
    <3>. QED  BY <3>1, <3>2
  <2>. QED  BY <1>0, <2>1, <2>2, <2>3 DEF TypeInv, TypeOK, WorkerRows
<1>3. ASSUME NEW x \in Workers, Complete(x) PROVE TypeInv' /\ JobsKeep
  BY <1>0, <1>3, CompletingLetsGo DEF Complete, TypeInv, TypeOK, WorkerRows
<1>4. ASSUME NEW x \in Workers, SendFailsForNow(x) PROVE TypeInv' /\ JobsKeep
  <2>1. worker[x].pc # "idle" /\ JobFails(x)
        /\ UNCHANGED <<readVars, alerts, delivered, errors>>
    BY <1>4 DEF SendFailsForNow
  <2>. QED  BY <1>0, <2>1, FailingLetsGo DEF TypeInv, TypeOK, WorkerRows
<1>5. ASSUME NEW x \in Workers, SendLosesReply(x) PROVE TypeInv' /\ JobsKeep
  <2>1. /\ worker[x].pc # "idle" /\ Post(x) /\ errors < MaxErrors /\ errors' = errors + 1
        /\ UNCHANGED <<readVars, alerts, jobs, worker, exhausted>>
    BY <1>5 DEF SendLosesReply
  <2>2. delivered' \in [Alerts -> Seq(Messages)]
    BY <2>1, Posting
  <2>3. JobsAreOwned' /\ JobsKeep
    BY <1>0, <2>1 DEF JobsAreOwned, JobsKeep
  <2>. QED  BY <1>0, <2>1, <2>2, <2>3, DeliveryAssumption DEF TypeInv, TypeOK
<1>6. ASSUME NEW x \in Workers, WorkerFails(x) PROVE TypeInv' /\ JobsKeep
  <2>1. /\ worker[x].pc # "idle" /\ JobFails(x) /\ errors < MaxErrors /\ errors' = errors + 1
        /\ UNCHANGED <<readVars, alerts, delivered>>
    BY <1>6 DEF WorkerFails
  <2>. QED  BY <1>0, <2>1, FailingLetsGo, DeliveryAssumption DEF TypeInv, TypeOK, WorkerRows
<1>7. ASSUME NEW w \in Warrants, NEW p \in Snapshots, SyncWritesRow(w, p)
      PROVE  TypeInv' /\ JobsKeep
  BY <1>0, <1>7 DEF SyncWritesRow, TypeInv, TypeOK, JobsAreOwned, JobsKeep
<1>8. ASSUME NEW w \in Warrants, NEW e \in Entries, SyncLogs(w, e) PROVE TypeInv' /\ JobsKeep
  <2>1. history' \in [Warrants -> Seq(Entries)]
    BY <1>0, <1>8 DEF SyncLogs, TypeOK
  <2>. QED  BY <1>0, <1>8, <2>1 DEF SyncLogs, TypeInv, TypeOK, JobsAreOwned, JobsKeep
<1>9. ASSUME NEW a \in Alerts, SyncEnqueues(a) PROVE TypeInv' /\ JobsKeep
  BY <1>0, <1>9 DEF SyncEnqueues, TypeInv, TypeOK, JobsAreOwned, JobsKeep, AlertStatus
<1>10. ASSUME NEW a \in Alerts, SyncPublishes(a) PROVE TypeInv' /\ JobsKeep
  <2>1. PublishJob(a) /\ UNCHANGED <<readVars, alerts, worker, delivered, errors, exhausted>>
    BY <1>10 DEF SyncPublishes
  <2>. QED  BY <1>0, <2>1, Publishing DEF TypeInv, TypeOK
<1>11. ASSUME NEW c \in Configs, ConfigToggles(c) PROVE TypeInv' /\ JobsKeep
  BY <1>0, <1>11 DEF ConfigToggles, TypeInv, TypeOK, JobsAreOwned, JobsKeep
<1>12. CASE UNCHANGED deliveryVars
  BY <1>0, <1>12 DEF deliveryVars, TypeInv, TypeOK, JobsAreOwned, JobsKeep
<1>. QED
  BY <1>1, <1>2, <1>3, <1>4, <1>5, <1>6, <1>7, <1>8, <1>9, <1>10, <1>11, <1>12
     DEF DeliveryNext, SyncActs, WorkerStep, HandlerMoves

(* Every reachable state of the tables, the queue and the handlers is well  *)
(* typed.                                                                   *)
THEOREM DeliveryTypeCorrect == DeliverySpec => []TypeOK
<1>1. TypeInv => TypeOK
  BY DEF TypeInv
<1>. QED  BY TypeInit, TypeStep, <1>1, PTL DEF DeliverySpec

(* Whatever fails and is retried, a job has at most one handler, and only a *)
(* job that a handler runs is active.                                       *)
THEOREM JobOwnership == DeliverySpec => []JobsAreOwned
<1>1. TypeInv => JobsAreOwned
  BY DEF TypeInv
<1>. QED  BY TypeInit, TypeStep, <1>1, PTL DEF DeliverySpec

-----------------------------------------------------------------------------
(* The handlers that may still send alert a, and those that have sent it    *)
(* and not yet marked it.                                                   *)
MaySend(a) == {x \in Workers : /\ worker[x].pc \in {"config", "warrant", "history", "send"}
                               /\ AlertOf(x) = a}
HasSent(a) == {x \in Workers : worker[x].pc = "markSent" /\ AlertOf(x) = a}

(* While the alert is not settled, every message of it stands for a failure *)
(* or for a handler that is about to mark it; once it is settled, no        *)
(* further handler may send it.                                             *)
Accounted(a) ==
    /\ alerts[a] = "SENT" => delivered[a] # <<>>
    /\ HasSent(a) # {} => delivered[a] # <<>>
    /\ alerts[a] \in Final =>
         Len(delivered[a]) + Cardinality(MaySend(a)) <= errors + Cardinality(Workers)
    /\ alerts[a] \notin Final => Len(delivered[a]) <= errors + Cardinality(HasSent(a))

MessagesInv == \A a \in Alerts : Accounted(a)

OnlyWorker(x) == \A y \in Workers : y # x => worker'[y] = worker[y]

(* The size of a set of handlers when one handler moves in or out.          *)
LEMMA OneMoves ==
    ASSUME NEW S \in SUBSET Workers, NEW T \in SUBSET Workers, NEW x \in Workers,
           S \ {x} = T \ {x}
    PROVE  /\ Cardinality(S) \in Nat /\ Cardinality(T) \in Nat
           /\ (x \in S <=> x \in T) => Cardinality(T) = Cardinality(S)
           /\ (x \in S /\ x \notin T) => Cardinality(T) = Cardinality(S) - 1
           /\ (x \notin S /\ x \in T) => Cardinality(T) = Cardinality(S) + 1
<1>1. IsFiniteSet(S) /\ IsFiniteSet(T)
  BY FS_Subset, DeliveryAssumption
<1>2. Cardinality(S) \in Nat /\ Cardinality(T) \in Nat
  BY <1>1, FS_CardinalityType
<1>3. (x \in S <=> x \in T) => S = T
  OBVIOUS
<1>4. (x \in S /\ x \notin T) => T = S \ {x}
  OBVIOUS
<1>5. (x \notin S /\ x \in T) => T = S \cup {x}
  OBVIOUS
<1>6. (x \in S /\ x \notin T) => Cardinality(T) = Cardinality(S) - 1
  BY <1>1, <1>4, FS_RemoveElement
<1>7. (x \notin S /\ x \in T) => Cardinality(T) = Cardinality(S) + 1
  BY <1>1, <1>5, FS_AddElement
<1>. QED  BY <1>2, <1>3, <1>6, <1>7

(* No handler is about to send and about to mark: the two sets share Workers. *)
LEMMA SendersFit ==
    ASSUME NEW a
    PROVE  /\ Cardinality(MaySend(a)) \in Nat /\ Cardinality(HasSent(a)) \in Nat
           /\ Cardinality(Workers) \in Nat
           /\ Cardinality(MaySend(a)) + Cardinality(HasSent(a)) <= Cardinality(Workers)
<1>1. MaySend(a) \in SUBSET Workers /\ HasSent(a) \in SUBSET Workers
      /\ MaySend(a) \cap HasSent(a) = {}
  BY DEF MaySend, HasSent
<1>2. IsFiniteSet(MaySend(a)) /\ IsFiniteSet(HasSent(a)) /\ IsFiniteSet(Workers)
  BY <1>1, FS_Subset, DeliveryAssumption
<1>3. /\ Cardinality(MaySend(a)) \in Nat /\ Cardinality(HasSent(a)) \in Nat
      /\ Cardinality(Workers) \in Nat
  BY <1>2, FS_CardinalityType
<1>4. Cardinality(MaySend(a) \cup HasSent(a)) = Cardinality(MaySend(a)) + Cardinality(HasSent(a))
  <2>1. Cardinality({}) = 0
    BY FS_EmptySet
  <2>2. Cardinality(MaySend(a) \cup HasSent(a))
          = Cardinality(MaySend(a)) + Cardinality(HasSent(a)) - Cardinality(MaySend(a) \cap HasSent(a))
    BY <1>2, FS_Union
  <2>3. Cardinality(MaySend(a) \cap HasSent(a)) = 0
    BY <1>1, <2>1, Zenon
  <2>. QED  BY <1>3, <2>2, <2>3
<1>5. Cardinality(MaySend(a) \cup HasSent(a)) <= Cardinality(Workers)
  <2>1. MaySend(a) \cup HasSent(a) \subseteq Workers
    BY <1>1
  <2>. QED  BY <1>2, <2>1, FS_Subset
<1>. QED  BY <1>3, <1>4, <1>5

(* A running handler works on an alert.                                     *)
LEMMA AlertOfType ==
    ASSUME TypeInv, NEW x \in Workers, worker[x].pc # "idle"
    PROVE  AlertOf(x) \in Alerts /\ worker[x].job \in DOMAIN jobs
<1>1. worker[x].job \in DOMAIN jobs /\ jobs \in Seq(JobRows)
  BY DEF TypeInv, TypeOK, JobsAreOwned
<1>2. jobs[worker[x].job] \in JobRows
  BY <1>1
<1>. QED  BY <1>1, <1>2 DEF AlertOf, JobRows

(* A handler that keeps its job keeps its alert.                            *)
LEMMA AlertOfKeeps ==
    ASSUME TypeInv, JobsKeep, NEW y \in Workers, worker[y].pc # "idle",
           worker'[y].job = worker[y].job
    PROVE  AlertOf(y)' = AlertOf(y)
BY AlertOfType DEF AlertOf, JobsKeep

(* A step of one handler moves no other one.                                *)
LEMMA OthersKeep ==
    ASSUME TypeInv, JobsKeep, NEW x \in Workers, OnlyWorker(x), NEW a
    PROVE  /\ MaySend(a) \ {x} = MaySend(a)' \ {x} /\ MaySend(a)' \in SUBSET Workers
           /\ HasSent(a) \ {x} = HasSent(a)' \ {x} /\ HasSent(a)' \in SUBSET Workers
<1>1. \A y \in Workers : y # x =>
        /\ worker'[y].pc = worker[y].pc
        /\ worker[y].pc # "idle" => AlertOf(y)' = AlertOf(y)
  BY AlertOfKeeps DEF OnlyWorker
<1>2. \A y \in Workers : y # x => (y \in MaySend(a)' <=> y \in MaySend(a))
  BY <1>1 DEF MaySend
<1>3. \A y \in Workers : y # x => (y \in HasSent(a)' <=> y \in HasSent(a))
  BY <1>1 DEF HasSent
<1>4. /\ MaySend(a) \in SUBSET Workers /\ MaySend(a)' \in SUBSET Workers
      /\ HasSent(a) \in SUBSET Workers /\ HasSent(a)' \in SUBSET Workers
  BY DEF MaySend, HasSent
<1>. QED  BY <1>2, <1>3, <1>4

(* A step of a handler that neither posts a message of a nor settles it.    *)
LEMMA Unheard ==
    ASSUME TypeInv, JobsKeep, NEW x \in Workers, OnlyWorker(x), NEW a \in Alerts, Accounted(a),
           alerts'[a] = alerts[a], delivered'[a] = delivered[a],
           \/ errors' = errors /\ (x \in HasSent(a) <=> x \in HasSent(a)')
           \/ errors' = errors + 1 /\ x \notin HasSent(a)',
           x \in MaySend(a)' => (x \in MaySend(a) \/ alerts[a] \notin Final)
    PROVE  Accounted(a)'
<1>1. /\ MaySend(a) \ {x} = MaySend(a)' \ {x} /\ MaySend(a)' \in SUBSET Workers
      /\ HasSent(a) \ {x} = HasSent(a)' \ {x} /\ HasSent(a)' \in SUBSET Workers
      /\ MaySend(a) \in SUBSET Workers /\ HasSent(a) \in SUBSET Workers
  BY OthersKeep DEF MaySend, HasSent
<1>2. /\ Cardinality(MaySend(a)) \in Nat /\ Cardinality(MaySend(a)') \in Nat
      /\ Cardinality(HasSent(a)) \in Nat /\ Cardinality(HasSent(a)') \in Nat
      /\ Cardinality(Workers) \in Nat /\ errors \in Nat /\ Len(delivered[a]) \in Nat
  <2>1. delivered[a] \in Seq(Messages) /\ errors \in Nat
    BY DEF TypeInv, TypeOK
  <2>2. /\ Cardinality(MaySend(a)) \in Nat /\ Cardinality(MaySend(a)') \in Nat
        /\ Cardinality(HasSent(a)) \in Nat /\ Cardinality(HasSent(a)') \in Nat
    BY <1>1, OneMoves
  <2>3. Cardinality(Workers) \in Nat
    BY FS_CardinalityType, DeliveryAssumption
  <2>. QED  BY <2>1, <2>2, <2>3
<1>3. alerts[a] \in Final => Cardinality(MaySend(a)') <= Cardinality(MaySend(a))
  BY <1>1, <1>2, OneMoves
<1>4. Cardinality(HasSent(a)) <= Cardinality(HasSent(a)') + (errors' - errors)
  BY <1>1, <1>2, OneMoves
<1>5. HasSent(a)' # {} => HasSent(a) # {}
  BY <1>1
<1>6. alerts'[a] \in Final =>
        Len(delivered'[a]) + Cardinality(MaySend(a)') <= errors' + Cardinality(Workers)
  BY <1>2, <1>3 DEF Accounted
<1>7. alerts'[a] \notin Final => Len(delivered'[a]) <= errors' + Cardinality(HasSent(a)')
  BY <1>2, <1>4 DEF Accounted
<1>. QED  BY <1>5, <1>6, <1>7 DEF Accounted

(* A step of the rest of the system moves no handler.                       *)
LEMMA AllKeep ==
    ASSUME TypeInv, JobsKeep, UNCHANGED worker, NEW a
    PROVE  MaySend(a)' = MaySend(a) /\ HasSent(a)' = HasSent(a)
<1>1. \A y \in Workers : worker[y].pc # "idle" => AlertOf(y)' = AlertOf(y)
  BY AlertOfKeeps
<1>2. MaySend(a)' = MaySend(a)
  BY <1>1 DEF MaySend
<1>3. HasSent(a)' = HasSent(a)
  BY <1>1 DEF HasSent
<1>. QED  BY <1>2, <1>3

(* What the numbers of an alert are, for the arithmetic.                    *)
LEMMA Counts ==
    ASSUME TypeInv, NEW a \in Alerts
    PROVE  /\ Cardinality(MaySend(a)) \in Nat /\ Cardinality(HasSent(a)) \in Nat
           /\ Cardinality(Workers) \in Nat /\ errors \in Nat /\ Len(delivered[a]) \in Nat
<1>1. delivered[a] \in Seq(Messages) /\ errors \in Nat
  BY DEF TypeInv, TypeOK
<1>. QED  BY <1>1, SendersFit

(* The message that a handler sends is its own to account for.              *)
LEMMA SendingCounts ==
    ASSUME TypeInv, MessagesInv, JobsKeep, NEW x \in Workers, SendSucceeds(x),
           NEW a \in Alerts, a = AlertOf(x)
    PROVE  Accounted(a)'
<1>1. /\ worker[x].pc = "send" /\ worker'[x].pc = "markSent" /\ OnlyWorker(x)
      /\ AlertOf(x)' = AlertOf(x) /\ UNCHANGED <<alerts, errors>>
  BY MovesOn, AlertOfKeeps DEF HandlerMoves, SendSucceeds, MoveTo, OnlyWorker, TypeInv, TypeOK
<1>2. Len(delivered'[a]) = Len(delivered[a]) + 1 /\ delivered'[a] # <<>>
  BY <1>1, Posting DEF SendSucceeds
<1>3. /\ x \in MaySend(a) /\ x \notin MaySend(a)'
      /\ x \notin HasSent(a) /\ x \in HasSent(a)'
  BY <1>1 DEF MaySend, HasSent
<1>4. /\ MaySend(a) \ {x} = MaySend(a)' \ {x} /\ MaySend(a)' \in SUBSET Workers
      /\ HasSent(a) \ {x} = HasSent(a)' \ {x} /\ HasSent(a)' \in SUBSET Workers
      /\ MaySend(a) \in SUBSET Workers /\ HasSent(a) \in SUBSET Workers
  BY <1>1, OthersKeep DEF MaySend, HasSent
<1>5. Cardinality(MaySend(a)') = Cardinality(MaySend(a)) - 1
      /\ Cardinality(HasSent(a)') = Cardinality(HasSent(a)) + 1
  BY <1>3, <1>4, OneMoves
<1>6. Accounted(a)
  BY DEF MessagesInv
<1>7. alerts'[a] \in Final =>
        Len(delivered'[a]) + Cardinality(MaySend(a)') <= errors' + Cardinality(Workers)
  BY <1>1, <1>2, <1>5, <1>6, Counts DEF Accounted
<1>8. alerts'[a] \notin Final => Len(delivered'[a]) <= errors' + Cardinality(HasSent(a)')
  BY <1>1, <1>2, <1>5, <1>6, Counts DEF Accounted
<1>. QED  BY <1>2, <1>7, <1>8 DEF Accounted

(* A message whose reply is lost is accounted for by the failure.           *)
LEMMA LosingCounts ==
    ASSUME TypeInv, MessagesInv, JobsKeep, NEW x \in Workers, SendLosesReply(x),
           NEW a \in Alerts, a = AlertOf(x)
    PROVE  Accounted(a)'
<1>1. MaySend(a)' = MaySend(a) /\ HasSent(a)' = HasSent(a)
      /\ alerts' = alerts /\ errors' = errors + 1
  BY AllKeep DEF SendLosesReply
<1>2. Len(delivered'[a]) = Len(delivered[a]) + 1 /\ delivered'[a] # <<>>
  BY Posting DEF SendLosesReply
<1>3. Accounted(a)
  BY DEF MessagesInv
<1>4. alerts'[a] \in Final =>
        Len(delivered'[a]) + Cardinality(MaySend(a)') <= errors' + Cardinality(Workers)
  BY <1>1, <1>2, <1>3, Counts DEF Accounted
<1>5. alerts'[a] \notin Final => Len(delivered'[a]) <= errors' + Cardinality(HasSent(a)')
  BY <1>1, <1>2, <1>3, Counts DEF Accounted
<1>. QED  BY <1>2, <1>4, <1>5 DEF Accounted

(* Settling an alert leaves at most the handlers beyond its check to send.  *)
LEMMA MarkingCounts ==
    ASSUME TypeInv, MessagesInv, JobsKeep, NEW x \in Workers,
           MarkSent(x) \/ MarkFailed(x) \/ MarkSkipped(x),
           NEW a \in Alerts, a = AlertOf(x)
    PROVE  Accounted(a)'
<1>1. /\ worker[x].pc \in {"markSent", "markFailed", "markSkipped"}
      /\ worker'[x].pc = "complete" /\ OnlyWorker(x)
      /\ delivered' = delivered /\ errors' = errors /\ alerts'[a] \in Final
      /\ alerts'[a] = "SENT" => worker[x].pc = "markSent"
  BY MovesOn DEF HandlerMoves, MarkSent, MarkFailed, MarkSkipped, Mark, MoveTo, OnlyWorker,
                 TypeInv, TypeOK, Final
<1>2. x \notin MaySend(a) /\ x \notin MaySend(a)' /\ x \notin HasSent(a)'
  BY <1>1 DEF MaySend, HasSent
<1>3. /\ MaySend(a) \ {x} = MaySend(a)' \ {x} /\ MaySend(a)' \in SUBSET Workers
      /\ HasSent(a) \ {x} = HasSent(a)' \ {x} /\ MaySend(a) \in SUBSET Workers
  BY <1>1, OthersKeep DEF MaySend
<1>4. MaySend(a)' = MaySend(a) /\ (HasSent(a)' # {} => HasSent(a) # {})
  BY <1>2, <1>3
<1>5. Accounted(a)
  BY DEF MessagesInv
<1>6. worker[x].pc = "markSent" => x \in HasSent(a)
  BY DEF HasSent
<1>7. alerts'[a] = "SENT" => delivered'[a] # <<>>
  BY <1>1, <1>5, <1>6 DEF Accounted
<1>8. Len(delivered[a]) + Cardinality(MaySend(a)) <= errors + Cardinality(Workers)
  BY <1>5, Counts, SendersFit DEF Accounted
<1>. QED  BY <1>1, <1>4, <1>5, <1>7, <1>8 DEF Accounted

(* No message and no handler at the start.                                  *)
LEMMA MessagesInit == DeliveryInit => MessagesInv
<1>. SUFFICES ASSUME DeliveryInit, NEW a \in Alerts PROVE Accounted(a)
  BY DEF MessagesInv
<1>1. alerts[a] = "NONE" /\ delivered[a] = <<>> /\ errors = 0
  BY DEF DeliveryInit
<1>2. HasSent(a) = {}
  BY DEF DeliveryInit, HasSent, IdleWorker
<1>3. Cardinality(HasSent(a)) = 0
  BY <1>2, FS_EmptySet, Zenon
<1>. QED  BY <1>1, <1>2, <1>3 DEF Accounted, Final

(* A handler's steps, each with the alert it works on and with the others.  *)
LEMMA HandlerCounts ==
    ASSUME TypeInv, MessagesInv, JobsKeep, NEW x \in Workers, HandlerMoves(x), NEW a \in Alerts
    PROVE  Accounted(a)'
<1>1. /\ OnlyWorker(x) /\ AlertOf(x)' = AlertOf(x) /\ errors' = errors
      /\ worker \in [Workers -> WorkerRows] /\ AlertOf(x) \in Alerts /\ Accounted(a)
  BY MovesOn, AlertOfKeeps DEF OnlyWorker, TypeInv, TypeOK, WorkerRows, MessagesInv
<1>2. CASE FindAlert(x)
  <2>1. /\ worker[x].pc = "alert" /\ UNCHANGED <<alerts, delivered>>
        /\ worker'[x].pc = IF alerts[AlertOf(x)] = "PENDING" THEN "config" ELSE "complete"
    BY <1>1, <1>2 DEF FindAlert, MoveTo, WorkerRows
  <2>2. x \notin HasSent(a) /\ x \notin HasSent(a)'
    BY <2>1 DEF HasSent
  <2>3. x \in MaySend(a)' => alerts[a] \notin Final
    BY <1>1, <2>1 DEF MaySend, Final
  <2>. QED  BY <1>1, <2>1, <2>2, <2>3, Unheard
<1>3. CASE FindConfig(x) \/ FindWarrant(x) \/ FindHistory(x) \/ SendFailsForGood(x)
  <2>1. /\ worker[x].pc \in {"config", "warrant", "history", "send"}
        /\ worker'[x].pc # "markSent" /\ UNCHANGED <<alerts, delivered>>
    BY <1>1, <1>3 DEF FindConfig, FindWarrant, FindHistory, SendFailsForGood, MoveTo, WorkerRows
  <2>2. x \notin HasSent(a) /\ x \notin HasSent(a)'
    BY <2>1 DEF HasSent
  <2>3. x \in MaySend(a)' => x \in MaySend(a)
    BY <1>1, <2>1 DEF MaySend
  <2>. QED  BY <1>1, <2>1, <2>2, <2>3, Unheard
<1>4. CASE SendSucceeds(x)
  <2>1. CASE a = AlertOf(x)
    BY <1>4, <2>1, SendingCounts
  <2>2. CASE a # AlertOf(x)
    <3>1. /\ worker[x].pc = "send" /\ alerts'[a] = alerts[a] /\ delivered'[a] = delivered[a]
      BY <1>4, <2>2, Posting DEF SendSucceeds
    <3>2. x \notin HasSent(a) /\ x \notin HasSent(a)' /\ x \notin MaySend(a)'
      BY <1>1, <2>2 DEF HasSent, MaySend
    <3>. QED  BY <1>1, <3>1, <3>2, Unheard
  <2>. QED  BY <2>1, <2>2
<1>5. CASE MarkSent(x) \/ MarkFailed(x) \/ MarkSkipped(x)
  <2>1. CASE a = AlertOf(x)
    BY <1>5, <2>1, MarkingCounts
  <2>2. CASE a # AlertOf(x)
    <3>1. alerts'[a] = alerts[a] /\ delivered'[a] = delivered[a]
      BY <1>5, <2>2 DEF MarkSent, MarkFailed, MarkSkipped, Mark, TypeInv, TypeOK
    <3>2. x \notin HasSent(a) /\ x \notin HasSent(a)' /\ x \notin MaySend(a)'
      BY <1>1, <2>2 DEF HasSent, MaySend
    <3>. QED  BY <1>1, <3>1, <3>2, Unheard
  <2>. QED  BY <2>1, <2>2
<1>. QED  BY <1>2, <1>3, <1>4, <1>5 DEF HandlerMoves

(* The count survives every step of the handlers and of the rest.           *)
LEMMA MessagesStep ==
    TypeInv /\ MessagesInv /\ [DeliveryNext]_deliveryVars => MessagesInv'
<1>. SUFFICES ASSUME TypeInv, MessagesInv, [DeliveryNext]_deliveryVars, NEW a \in Alerts
              PROVE  Accounted(a)'
  BY DEF MessagesInv
<1>0. JobsKeep /\ Accounted(a) /\ worker \in [Workers -> WorkerRows]
  BY TypeStep DEF MessagesInv, TypeInv, TypeOK, WorkerRows
<1>1. ASSUME NEW x \in Workers, NEW i \in DOMAIN jobs, TakeJob(x, i) PROVE Accounted(a)'
  <2>1. /\ worker[x].pc = "idle" /\ worker'[x].pc = "alert" /\ OnlyWorker(x)
        /\ UNCHANGED <<alerts, delivered, errors>>
    BY <1>1, TakingJob DEF TakeJob, OnlyWorker
  <2>2. x \notin HasSent(a) /\ x \notin HasSent(a)' /\ x \notin MaySend(a)'
    BY <2>1 DEF HasSent, MaySend
  <2>. QED  BY <1>0, <2>1, <2>2, Unheard
<1>2. ASSUME NEW x \in Workers, HandlerMoves(x) PROVE Accounted(a)'
  BY <1>0, <1>2, HandlerCounts
<1>3. ASSUME NEW x \in Workers, Complete(x) \/ SendFailsForNow(x) PROVE Accounted(a)'
  <2>1. /\ worker[x].pc \in {"complete", "send"} /\ worker' = [worker EXCEPT ![x] = IdleWorker]
        /\ UNCHANGED <<alerts, delivered, errors>>
    BY <1>3 DEF Complete, SendFailsForNow, JobFails
  <2>2. OnlyWorker(x) /\ worker'[x].pc = "idle"
    BY <1>0, <2>1 DEF OnlyWorker, IdleWorker
  <2>3. x \notin HasSent(a) /\ x \notin HasSent(a)' /\ x \notin MaySend(a)'
    BY <2>1, <2>2 DEF HasSent, MaySend
  <2>. QED  BY <1>0, <2>1, <2>2, <2>3, Unheard
<1>4. ASSUME NEW x \in Workers, WorkerFails(x) PROVE Accounted(a)'
  <2>1. /\ worker' = [worker EXCEPT ![x] = IdleWorker] /\ errors' = errors + 1
        /\ UNCHANGED <<alerts, delivered>>
    BY <1>4 DEF WorkerFails, JobFails
  <2>2. OnlyWorker(x) /\ worker'[x].pc = "idle"
    BY <1>0, <2>1 DEF OnlyWorker, IdleWorker
  <2>3. x \notin HasSent(a)' /\ x \notin MaySend(a)'
    BY <2>2 DEF HasSent, MaySend
  <2>. QED  BY <1>0, <2>1, <2>2, <2>3, Unheard
<1>5. ASSUME NEW x \in Workers, SendLosesReply(x) PROVE Accounted(a)'
  <2>1. CASE a = AlertOf(x)
    BY <1>0, <1>5, <2>1, LosingCounts
  <2>2. CASE a # AlertOf(x)
    <3>1. /\ worker[x].pc = "send" /\ UNCHANGED <<alerts, worker>> /\ errors' = errors + 1
          /\ delivered'[a] = delivered[a]
      BY <1>5, <2>2, Posting DEF SendLosesReply
    <3>2. /\ OnlyWorker(x) /\ MaySend(a)' = MaySend(a) /\ x \notin HasSent(a)'
      BY <1>0, <3>1, AllKeep DEF OnlyWorker, HasSent
    <3>. QED  BY <1>0, <3>1, <3>2, Unheard
  <2>. QED  BY <2>1, <2>2
<1>6. CASE SyncActs \/ (\E c \in Configs : ConfigToggles(c)) \/ UNCHANGED deliveryVars
  <2>1. /\ UNCHANGED <<worker, delivered, errors>>
        /\ alerts'[a] = alerts[a] \/ (alerts[a] = "NONE" /\ alerts'[a] = "PENDING")
    BY <1>6 DEF SyncActs, SyncWritesRow, SyncLogs, SyncEnqueues, SyncPublishes, ConfigToggles,
                deliveryVars, TypeInv, TypeOK
  <2>2. MaySend(a)' = MaySend(a) /\ HasSent(a)' = HasSent(a)
    BY <1>0, <2>1, AllKeep
  <2>3. (alerts'[a] = "SENT" <=> alerts[a] = "SENT") /\ (alerts'[a] \in Final <=> alerts[a] \in Final)
    BY <2>1 DEF Final
  <2>. QED  BY <1>0, <2>1, <2>2, <2>3 DEF Accounted
<1>. QED
  BY <1>1, <1>2, <1>3, <1>4, <1>5, <1>6 DEF DeliveryNext, WorkerStep, HandlerMoves

(* No handler marks an alert SENT that Telegram has no message of.          *)
THEOREM SentMeansDelivered == DeliverySpec => []SentIsDelivered
<1>1. MessagesInv => SentIsDelivered
  BY DEF MessagesInv, Accounted, SentIsDelivered
<1>. QED  BY TypeInit, TypeStep, MessagesInit, MessagesStep, <1>1, PTL DEF DeliverySpec

(* Jobs published twice, run at once and retried send an alert at most once *)
(* per handler and once more per failure.                                   *)
THEOREM DuplicatesAreBounded == DeliverySpec => []DuplicatesBounded
<1>1. TypeInv /\ MessagesInv => DuplicatesBounded
  <2>. SUFFICES ASSUME TypeInv, MessagesInv, NEW a \in Alerts
                PROVE  Len(delivered[a]) <= Cardinality(Workers) + errors
    BY DEF DuplicatesBounded
  <2>1. \/ Len(delivered[a]) + Cardinality(MaySend(a)) <= errors + Cardinality(Workers)
        \/ Len(delivered[a]) <= errors + Cardinality(HasSent(a))
    BY DEF MessagesInv, Accounted
  <2>2. Cardinality(HasSent(a)) <= Cardinality(Workers)
    BY SendersFit
  <2>. QED  BY <2>1, <2>2, Counts
<1>. QED  BY TypeInit, TypeStep, MessagesInit, MessagesStep, <1>1, PTL DEF DeliverySpec

(* No order of handlers brings a settled alert back, or loses one.          *)
THEOREM SettledForGood == DeliverySpec => SettledStaysSettled
<1>. DEFINE Stays == \A a \in Alerts : /\ alerts[a] \in Final => alerts'[a] \in Final
                                       /\ alerts[a] # "NONE" => alerts'[a] # "NONE"
<1>1. TypeInv /\ [DeliveryNext]_deliveryVars => [Stays]_deliveryVars
  <2>. SUFFICES ASSUME TypeInv, DeliveryNext PROVE Stays
    OBVIOUS
  <2>1. CASE \E x \in Workers : MarkSent(x) \/ MarkFailed(x) \/ MarkSkipped(x)
    BY <2>1 DEF MarkSent, MarkFailed, MarkSkipped, Mark, TypeInv, TypeOK, Final
  <2>2. CASE \E a \in Alerts : SyncEnqueues(a)
    BY <2>2 DEF SyncEnqueues, TypeInv, TypeOK, Final
  <2>3. CASE UNCHANGED alerts
    BY <2>3
  <2>4. \/ \E x \in Workers : MarkSent(x) \/ MarkFailed(x) \/ MarkSkipped(x)
        \/ \E a \in Alerts : SyncEnqueues(a)
        \/ UNCHANGED alerts
    BY DEF DeliveryNext, WorkerStep, SyncActs, TakeJob, FindAlert, FindConfig, FindWarrant,
           FindHistory, SendSucceeds, SendFailsForGood, SendFailsForNow, Complete,
           SendLosesReply, WorkerFails, SyncWritesRow, SyncLogs, SyncPublishes, ConfigToggles
  <2>. QED  BY <2>1, <2>2, <2>3, <2>4
<1>. QED  BY TypeInit, TypeStep, <1>1, PTL DEF DeliverySpec, SettledStaysSettled

=============================================================================
