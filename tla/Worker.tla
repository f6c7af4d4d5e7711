------------------------------- MODULE Worker -------------------------------
(***************************************************************************)
(* The worker process (apps/worker/src/index.ts) as its platform runs it,  *)
(* two incarnations of it while a deploy is under way: boot, the cron      *)
(* ticks that fan one job out per active city (scan-tick, retroactive-     *)
(* tick), the handlers that take those jobs, and the shutdown tasks.  What *)
(* a job of a city does while it runs is ScanCity.  pg-boss (external) is  *)
(* taken at the word of packages/queue: a send whose singletonKey is that  *)
(* of a waiting or active job does nothing (jobs/index.ts:17-18), a job    *)
(* that fails is retried or given up, and one whose process died expires   *)
(* (expireInHours), but never under a handler that is alive.               *)
(***************************************************************************)
EXTENDS Naturals, FiniteSets, Sequences

CONSTANTS
    Procs,      \* worker processes that may live at a time
    Cities,     \* the monitored_cities rows, all tenants
    Kinds,      \* "scan" and "retro": each has a schedule, a queue and a key
    TeamSize,   \* jobs of a kind one process runs at a time
    MaxFaults   \* bound: signals, deaths, failures and time-outs

ASSUME WorkerAssumption ==
    /\ IsFiniteSet(Procs) /\ IsFiniteSet(Cities)
    /\ TeamSize \in Nat \ {0} /\ MaxFaults \in Nat

VARIABLES
    active,   \* monitored_cities.ativo
    due,      \* kinds with a tick job waiting
    waiting,  \* pg-boss: jobs of each kind and city that wait, retries too
    orphans,  \* pg-boss: jobs that are active but no handler will end
    proc,     \* the lifecycle of each process
    tick,     \* each process's tick handlers
    run,      \* each process's handler of each kind and city
    faults

vars == <<active, due, waiting, orphans, proc, tick, run, faults>>

Keys == Kinds \X Cities

(* registerShutdown is called in this order ...                             *)
Registered == <<"heartbeat", "health-server", "services", "pg-boss">>

Lives == [phase: {"down", "boot", "up", "ready", "stopping"},
          task: 1..Len(Registered) + 1,  \* the shutdown task that is running
          cut: BOOLEAN,                  \* pg-boss was stopped before it was idle
          fatal: BOOLEAN]                \* process.exit(1) follows the tasks
Down == [phase |-> "down", task |-> 1, cut |-> FALSE, fatal |-> FALSE]
Ticks == [pc: {"idle", "list", "publish"}, todo: SUBSET Cities]
IdleTick == [pc |-> "idle", todo |-> {}]

TypeOK ==
    /\ active \in [Cities -> BOOLEAN]
    /\ due \subseteq Kinds
    /\ waiting \in [Keys -> Nat]
    /\ orphans \in [Keys -> Nat]
    /\ proc \in [Procs -> Lives]
    /\ tick \in [Procs -> [Kinds -> Ticks]]
    /\ run \in [Procs -> [Keys -> {"idle", "find", "scan"}]]
    /\ faults \in 0..MaxFaults
    /\ \A p \in Procs : proc[p].phase \in {"down", "boot"} =>
          \A k \in Kinds : /\ tick[p][k] = IdleTick
                           /\ \A c \in Cities : run[p][<<k, c>>] = "idle"

Init ==
    /\ active = [c \in Cities |-> TRUE]
    /\ due = {}
    /\ waiting = [x \in Keys |-> 0]
    /\ orphans = [x \in Keys |-> 0]
    /\ proc = [p \in Procs |-> Down]
    /\ tick = [p \in Procs |-> [k \in Kinds |-> IdleTick]]
    /\ run = [p \in Procs |-> [x \in Keys |-> "idle"]]
    /\ faults = 0

Fails == faults < MaxFaults /\ faults' = faults + 1

-----------------------------------------------------------------------------
(* Definitions named ...Variant are what the one after them would be with   *)
(* a plausible bug: each shows that a property can fail.                    *)

(* In the order of registration.                                            *)
TaskVariant(i) == Registered[i]

(* ... and [...tasks].reverse() runs them in the opposite one.              *)
Task(i) == Registered[Len(Registered) + 1 - i]

(* The shutdown of p has come as far as the named task, or past it.         *)
Began(p, t) == proc[p].phase = "stopping"
                 /\ \E i \in 1..Len(Registered) : i <= proc[p].task /\ Task(i) = t
Ended(p, t) == proc[p].phase = "stopping"
                 /\ \E i \in 1..Len(Registered) : i < proc[p].task /\ Task(i) = t

(* Jobs are taken as soon as pg-boss has started.                           *)
PollsVariant(p) == /\ proc[p].phase # "down"
                   /\ ~Began(p, "pg-boss")

(* boss.work polls from registerAllHandlers until boss.stop begins.         *)
Polls(p) == /\ proc[p].phase \in {"up", "ready", "stopping"}
            /\ ~Began(p, "pg-boss")

Busy(p) == \/ \E x \in Keys : run[p][x] # "idle"
           \/ \E k \in Kinds : tick[p][k] # IdleTick

Running(x) == Cardinality({p \in Procs : run[p][x] # "idle"})

(* The process is gone: its tick handlers with it, and the jobs it was      *)
(* running stay active.                                                     *)
Exits(p) ==
    /\ proc' = [proc EXCEPT ![p] = Down]
    /\ run' = [run EXCEPT ![p] = [x \in Keys |-> "idle"]]
    /\ tick' = [tick EXCEPT ![p] = [k \in Kinds |-> IdleTick]]
    /\ orphans' = [x \in Keys |-> orphans[x] + IF run[p][x] # "idle" THEN 1 ELSE 0]

-----------------------------------------------------------------------------
(* main(), in its order: startBoss and buildServices; registerAllHandlers,  *)
(* from which on jobs are taken; setupSchedules, the servers and            *)
(* registerShutdown; state.ready and awaitShutdown.                         *)
Boot(p) ==
    /\ \/ proc[p].phase = "down"  /\ proc' = [proc EXCEPT ![p].phase = "boot"]
       \/ proc[p].phase = "boot"  /\ proc' = [proc EXCEPT ![p].phase = "up"]
       \/ proc[p].phase = "up"    /\ proc' = [proc EXCEPT ![p].phase = "ready"]
    /\ UNCHANGED <<active, due, waiting, orphans, tick, run, faults>>

(* Out of memory, SIGKILL, a boot that fails (main().catch), a signal or a  *)
(* fatal event before awaitShutdown has set its listeners, and a fatal      *)
(* event while the tasks run: handle returns at once, and its caller exits. *)
Dies(p) ==
    /\ proc[p].phase # "down" /\ Fails
    /\ Exits(p)
    /\ UNCHANGED <<active, due, waiting>>

(* SIGINT, SIGTERM, uncaughtException or unhandledRejection.                *)
Signalled(p, fatal) ==
    /\ proc[p].phase = "ready" /\ Fails
    /\ proc' = [proc EXCEPT ![p].phase = "stopping", ![p].fatal = fatal]
    /\ UNCHANGED <<active, due, waiting, orphans, tick, run>>

AtTask(p) == proc[p].phase = "stopping" /\ proc[p].task <= Len(Registered)
NextTask(p, cut) == proc' = [proc EXCEPT ![p].task = @ + 1, ![p].cut = @ \/ cut]

(* boss.stop resolves when its handlers have ended.                         *)
TaskEnds(p) ==
    /\ AtTask(p)
    /\ Task(proc[p].task) = "pg-boss" => ~Busy(p)
    /\ NextTask(p, FALSE)
    /\ UNCHANGED <<active, due, waiting, orphans, tick, run, faults>>

(* A task that rejects is logged and the next one runs; boss.stop resolves  *)
(* after 30 seconds whatever its handlers are doing.                        *)
TaskFails(p) ==
    /\ AtTask(p) /\ Fails
    /\ NextTask(p, Task(proc[p].task) = "pg-boss" /\ Busy(p))
    /\ UNCHANGED <<active, due, waiting, orphans, tick, run>>

(* A boss whose drain was cut keeps its connections, and they keep node.    *)
AllTasksEndVariant(p) ==
    /\ proc[p].phase = "stopping" /\ proc[p].task > Len(Registered)
    /\ proc[p].fatal \/ (~Busy(p) /\ ~proc[p].cut)
    /\ Exits(p)
    /\ UNCHANGED <<active, due, waiting, faults>>

(* After a signal main() returns, and node leaves when nothing is under     *)
(* way; after a fatal event process.exit(1) cuts what is.                   *)
AllTasksEnd(p) ==
    /\ proc[p].phase = "stopping" /\ proc[p].task > Len(Registered)
    /\ proc[p].fatal \/ ~Busy(p)
    /\ Exits(p)
    /\ UNCHANGED <<active, due, waiting, faults>>

-----------------------------------------------------------------------------
(* pg-boss's cron sends a tick job (external); one stands for a backlog.    *)
CronFires(k) ==
    /\ due' = due \cup {k}
    /\ UNCHANGED <<active, waiting, orphans, proc, tick, run, faults>>

(* teamSize 1: a process has one tick of a kind in flight.                  *)
TakeTick(p, k) ==
    /\ Polls(p) /\ tick[p][k] = IdleTick
    /\ k \in due /\ due' = due \ {k}
    /\ tick' = [tick EXCEPT ![p][k].pc = "list"]
    /\ UNCHANGED <<active, waiting, orphans, proc, run, faults>>

ListAllActive(p, k) ==
    /\ tick[p][k].pc = "list"
    /\ tick' = [tick EXCEPT ![p][k] = [pc |-> "publish", todo |-> {c \in Cities : active[c]}]]
    /\ UNCHANGED <<active, due, waiting, orphans, proc, run, faults>>

(* The key is compared with the waiting jobs' only.                         *)
SingletonHeldVariant(x) == waiting[x] + orphans[x] > 0

(* A job with this key waits, runs or has not expired.                      *)
SingletonHeld(x) == waiting[x] + orphans[x] + Running(x) > 0

(* The loop over the cities that listAllActive returned.                    *)
PublishSingletonJob(p, k, c) ==
    /\ tick[p][k].pc = "publish" /\ c \in tick[p][k].todo
    /\ ~Ended(p, "pg-boss")
    /\ tick' = [tick EXCEPT ![p][k].todo = @ \ {c}]
    /\ waiting' = [waiting EXCEPT ![<<k, c>>] =
                     IF SingletonHeld(<<k, c>>) THEN @ ELSE @ + 1]
    /\ UNCHANGED <<active, due, orphans, proc, run, faults>>

TickDone(p, k) ==
    /\ tick[p][k].pc = "publish" /\ tick[p][k].todo = {}
    /\ tick' = [tick EXCEPT ![p][k] = IdleTick]
    /\ UNCHANGED <<active, due, waiting, orphans, proc, run, faults>>

(* The query or a send rejects: the tick is retried or, its retries used up *)
(* or its boss closed, is left to the next one.                             *)
TickFails(p, k) ==
    /\ tick[p][k].pc # "idle"
    /\ IF Ended(p, "pg-boss") THEN UNCHANGED faults ELSE Fails
    /\ tick' = [tick EXCEPT ![p][k] = IdleTick]
    /\ due' \in {due} \cup IF Ended(p, "pg-boss") THEN {} ELSE {due \cup {k}}
    /\ UNCHANGED <<active, waiting, orphans, proc, run>>

-----------------------------------------------------------------------------
(* A member activates or deactivates a city (apps/web/src/lib/cities).      *)
SetActive(c, ativo) ==
    /\ active[c] # ativo
    /\ active' = [active EXCEPT ![c] = ativo]
    /\ UNCHANGED <<due, waiting, orphans, proc, tick, run, faults>>

Team(p, k) == {c \in Cities : run[p][<<k, c>>] # "idle"}

TakeJob(p, x) ==
    /\ Polls(p) /\ run[p][x] = "idle"
    /\ waiting[x] > 0
    /\ Cardinality(Team(p, x[1])) < TeamSize
    /\ waiting' = [waiting EXCEPT ![x] = @ - 1]
    /\ run' = [run EXCEPT ![p][x] = "find"]
    /\ UNCHANGED <<active, due, orphans, proc, tick, faults>>

(* The handler returns: its job is completed, unless the boss that would    *)
(* complete it is closed.                                                   *)
Returns(p, x) ==
    /\ run' = [run EXCEPT ![p][x] = "idle"]
    /\ orphans' = [orphans EXCEPT ![x] = IF Ended(p, "pg-boss") THEN @ + 1 ELSE @]

(* findById and the test of city.ativo: a job of a city that has been       *)
(* deactivated since the tick does nothing.                                 *)
FindCity(p, x) ==
    /\ run[p][x] = "find"
    /\ IF active[x[2]] THEN run' = [run EXCEPT ![p][x] = "scan"] /\ UNCHANGED orphans
                       ELSE Returns(p, x)
    /\ UNCHANGED <<active, due, waiting, proc, tick, faults>>

ScanEnds(p, x) ==
    /\ run[p][x] = "scan"
    /\ Returns(p, x)
    /\ UNCHANGED <<active, due, waiting, proc, tick, faults>>

(* The handler throws: the job waits again or, its retries used up, fails.  *)
JobFails(p, x) ==
    /\ run[p][x] # "idle" /\ Fails
    /\ IF Ended(p, "pg-boss")
       THEN Returns(p, x) /\ UNCHANGED waiting
       ELSE /\ run' = [run EXCEPT ![p][x] = "idle"]
            /\ waiting' \in {waiting, [waiting EXCEPT ![x] = @ + 1]}
            /\ UNCHANGED orphans
    /\ UNCHANGED <<active, due, proc, tick>>

(* Without expireInHours such a job stays active.                           *)
JobExpiresVariant(x) == orphans[x] > 0 /\ UNCHANGED vars

(* 24 hours later: retried, or failed.                                      *)
JobExpires(x) ==
    /\ orphans[x] > 0
    /\ orphans' = [orphans EXCEPT ![x] = @ - 1]
    /\ waiting' \in {waiting, [waiting EXCEPT ![x] = @ + 1]}
    /\ UNCHANGED <<active, due, proc, tick, run, faults>>

-----------------------------------------------------------------------------
Lifecycle(p) == Boot(p) \/ TaskEnds(p) \/ AllTasksEnd(p)
TickStep(p, k) ==
    \/ TakeTick(p, k) \/ ListAllActive(p, k) \/ TickDone(p, k)
    \/ \E c \in Cities : PublishSingletonJob(p, k, c)
Handle(p, x) == FindCity(p, x) \/ ScanEnds(p, x)

Next ==
    \/ \E p \in Procs :
         \/ Lifecycle(p) \/ Dies(p) \/ TaskFails(p)
         \/ \E fatal \in BOOLEAN : Signalled(p, fatal)
         \/ \E k \in Kinds : TickStep(p, k) \/ TickFails(p, k)
         \/ \E x \in Keys : TakeJob(p, x) \/ Handle(p, x) \/ JobFails(p, x)
    \/ \E k \in Kinds : CronFires(k)
    \/ \E x \in Keys : JobExpires(x)
    \/ \E c \in Cities, ativo \in BOOLEAN : SetActive(c, ativo)

Spec == Init /\ [][Next]_vars

(* The platform starts a process that ended; node's event loop goes on with *)
(* what can; cron fires and expiry runs for ever; and pg-boss fetches the   *)
(* oldest job first, so that none is passed over for ever.                  *)
FairSpec ==
    /\ Spec
    /\ \A p \in Procs :
         /\ WF_vars(Lifecycle(p))
         /\ \A k \in Kinds :
              /\ WF_vars(TickStep(p, k))
              /\ WF_vars(Ended(p, "pg-boss") /\ TickFails(p, k))
         /\ \A x \in Keys : WF_vars(Handle(p, x)) /\ SF_vars(TakeJob(p, x))
    /\ \A k \in Kinds : WF_vars(CronFires(k))
    /\ \A x \in Keys : WF_vars(JobExpires(x))

-----------------------------------------------------------------------------
(* Properties.                                                              *)

(* However ticks overlap, are retried or meet a deploy, and whatever dies,  *)
(* a city has at most one job of a kind that waits, runs or has been left,  *)
(* so never two handlers at once (scan-tick.ts:34-41).                      *)
OneJobPerCity == \A x \in Keys : waiting[x] + orphans[x] + Running(x) <= 1

(* No handler of a process loses its services under its feet unless the     *)
(* drain was cut (lifecycle/shutdown.ts:35, index.ts:52-64).                *)
ServicesOutliveHandlers ==
    \A p \in Procs : (Ended(p, "services") /\ ~proc[p].cut) => ~Busy(p)

(* A process that began its shutdown is gone in the end, also when a task   *)
(* rejects or the drain is cut (lifecycle/shutdown.ts:35-45).               *)
SignalledExits ==
    \A p \in Procs : proc[p].phase = "stopping" ~> proc[p].phase = "down"

(* A city that stays active is scanned again and again, whatever was lost   *)
(* on the way, and one that stays inactive is not for ever scanned          *)
(* (scan-tick.ts:15-42, scan-city.ts:30, boss.ts:30).                       *)
ActiveCitiesAreScanned ==
    \A x \in Keys :
        /\ <>[]active[x[2]] => []<><<\E p \in Procs : ScanEnds(p, x)>>_vars
        /\ <>[]~active[x[2]] => <>[](\A p \in Procs : run[p][x] # "scan")
=============================================================================
