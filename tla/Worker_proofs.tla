---------------------------- MODULE Worker_proofs ----------------------------
(***************************************************************************)
(* Proofs about Worker, for any number of processes, cities, kinds and     *)
(* failures and any team size.  That a city has one job is inductive as it *)
(* stands, once the handlers of a job are counted; that services outlive   *)
(* the handlers follows from DrainInv: the first task is pg-boss's, from   *)
(* its beginning on nothing is taken, and it ends when nothing runs.       *)
(***************************************************************************)
EXTENDS Worker, FiniteSetTheorems, TLAPS

(* What a process that drained pg-boss no longer runs.                      *)
DrainInv ==
    /\ TypeOK
    /\ \A p \in Procs : /\ proc[p].phase # "stopping" => proc[p].task = 1
                        /\ (Ended(p, "pg-boss") /\ ~proc[p].cut) => ~Busy(p)

(* pg-boss's task is the first, and so before that of the services.         *)
LEMMA TaskOrder ==
    /\ Task(1) = "pg-boss" /\ Task(2) = "services"
    /\ Task(3) = "health-server" /\ Task(4) = "heartbeat"
    /\ 1..Len(Registered) = 1..4
  BY DEF Task, Registered

LEMMA FirstTask ==
    ASSUME TypeOK, NEW p \in Procs
    PROVE  /\ proc[p].task \in 1..5
           /\ Began(p, "pg-boss") <=> proc[p].phase = "stopping"
           /\ Ended(p, "pg-boss") <=> (proc[p].phase = "stopping" /\ proc[p].task > 1)
           /\ Ended(p, "services") => Ended(p, "pg-boss")
  <1>1. proc[p].task \in 1..5
    BY DEF TypeOK, Lives, Registered
  <1>2. Began(p, "pg-boss") <=> proc[p].phase = "stopping"
    BY TaskOrder, <1>1 DEF Began
  <1>3. Ended(p, "pg-boss") <=> (proc[p].phase = "stopping" /\ proc[p].task > 1)
    BY TaskOrder, <1>1 DEF Ended
  <1>4. Ended(p, "services") => Ended(p, "pg-boss")
    BY TaskOrder, <1>1 DEF Ended
  <1> QED BY <1>1, <1>2, <1>3, <1>4

-----------------------------------------------------------------------------
(* Types.                                                                   *)

LEMMA ExitsType ==
    ASSUME TypeOK, NEW p \in Procs, Exits(p), UNCHANGED <<active, due, waiting>>,
           faults' \in 0..MaxFaults
    PROVE  TypeOK'
  <1>1. Down \in Lives /\ IdleTick \in Ticks
    BY DEF Down, Lives, IdleTick, Ticks, Registered
  <1>2. orphans' \in [Keys -> Nat]
    BY DEF Exits, TypeOK
  <1>3. /\ proc' \in [Procs -> Lives] /\ tick' \in [Procs -> [Kinds -> Ticks]]
        /\ run' \in [Procs -> [Keys -> {"idle", "find", "scan"}]]
    BY <1>1 DEF Exits, TypeOK
  <1>4. \A q \in Procs : proc'[q].phase \in {"down", "boot"} =>
          \A k \in Kinds : /\ tick'[q][k] = IdleTick
                           /\ \A c \in Cities : run'[q][<<k, c>>] = "idle"
    BY DEF Exits, TypeOK, Keys
  <1> QED BY <1>2, <1>3, <1>4 DEF TypeOK

LEMMA TypeStep == TypeOK /\ [Next]_vars => TypeOK'
  <1> SUFFICES ASSUME TypeOK, [Next]_vars PROVE TypeOK'
    OBVIOUS
  <1> USE WorkerAssumption
  <1>0. /\ proc \in [Procs -> Lives] /\ tick \in [Procs -> [Kinds -> Ticks]]
        /\ run \in [Procs -> [Keys -> {"idle", "find", "scan"}]]
        /\ IdleTick \in Ticks /\ faults \in 0..MaxFaults
    BY DEF TypeOK, IdleTick, Ticks
  <1>a. Fails => faults' \in 0..MaxFaults
    BY <1>0 DEF Fails
  (* The steps of a process's lifecycle but its end.                        *)
  <1>1. ASSUME NEW p \in Procs, NEW life \in Lives, proc' = [proc EXCEPT ![p] = life],
               life.phase \in {"down", "boot"} => proc[p].phase \in {"down", "boot"},
               UNCHANGED <<active, due, waiting, orphans, tick, run>>, faults' \in 0..MaxFaults
        PROVE  TypeOK'
    <2>1. \A q \in Procs : proc'[q].phase \in {"down", "boot"} => proc[q].phase \in {"down", "boot"}
      BY <1>0, <1>1
    <2> QED BY <1>0, <1>1, <2>1 DEF TypeOK
  <1>2. ASSUME NEW p \in Procs, Lifecycle(p) \/ Dies(p) \/ TaskFails(p) PROVE TypeOK'
    <2>1. CASE Boot(p)
      <3>1. PICK phase \in {"boot", "up", "ready"} :
              /\ proc' = [proc EXCEPT ![p].phase = phase]
              /\ phase = "boot" => proc[p].phase = "down"
        BY <2>1 DEF Boot
      <3>2. [proc[p] EXCEPT !.phase = phase] \in Lives
        BY <1>0 DEF Lives
      <3>3. [proc[p] EXCEPT !.phase = phase].phase = phase
        BY <1>0 DEF Lives
      <3>4. proc' = [proc EXCEPT ![p] = [proc[p] EXCEPT !.phase = phase]]
        BY <1>0, <3>1
      <3> QED BY <1>0, <1>1, <2>1, <3>1, <3>2, <3>3, <3>4 DEF Boot
    <2>2. CASE Dies(p) \/ AllTasksEnd(p)
      BY <1>0, <1>a, <2>2, ExitsType DEF Dies, AllTasksEnd
    <2>3. ASSUME NEW cut \in BOOLEAN, NextTask(p, cut), AtTask(p),
                 UNCHANGED <<active, due, waiting, orphans, tick, run>>, faults' \in 0..MaxFaults
          PROVE  TypeOK'
      <3> DEFINE life == [proc[p] EXCEPT !.task = proc[p].task + 1, !.cut = proc[p].cut \/ cut]
      <3>1. proc[p].task + 1 \in 1..Len(Registered) + 1 /\ proc[p].phase = "stopping"
        BY <1>0, <2>3 DEF AtTask, Lives, Registered
      <3>2. (proc[p].cut \/ cut) \in BOOLEAN
        OBVIOUS
      <3>3. life \in Lives /\ life.phase = "stopping"
        BY <1>0, <3>1, <3>2 DEF Lives
      <3>4. proc' = [proc EXCEPT ![p] = life]
        BY <1>0, <2>3 DEF NextTask
      <3> QED BY <1>1, <2>3, <3>3, <3>4
    <2>4. CASE TaskEnds(p)
      BY <1>0, <2>3, <2>4 DEF TaskEnds
    <2>5. CASE TaskFails(p)
      <3>1. (Task(proc[p].task) = "pg-boss" /\ Busy(p)) \in BOOLEAN
        OBVIOUS
      <3> QED BY <1>a, <2>3, <2>5, <3>1 DEF TaskFails
    <2> QED BY <1>2, <2>1, <2>2, <2>4, <2>5 DEF Lifecycle
  <1>3. ASSUME NEW p \in Procs, NEW fatal \in BOOLEAN, Signalled(p, fatal) PROVE TypeOK'
    <2> DEFINE life == [proc[p] EXCEPT !.phase = "stopping", !.fatal = fatal]
    <2>1. life \in Lives /\ life.phase = "stopping"
      BY <1>0 DEF Lives
    <2>2. proc' = [proc EXCEPT ![p] = life]
      BY <1>0, <1>3 DEF Signalled
    <2> QED BY <1>a, <1>1, <1>3, <2>1, <2>2 DEF Signalled
  <1>4. ASSUME NEW k \in Kinds, CronFires(k) PROVE TypeOK'
    BY <1>4 DEF CronFires, TypeOK
  (* A step of a tick.                                                      *)
  <1>5. ASSUME NEW p \in Procs, NEW k \in Kinds, NEW t \in Ticks,
               tick' = [tick EXCEPT ![p][k] = t],
               t = IdleTick \/ tick[p][k] # IdleTick \/ proc[p].phase \in {"up", "ready", "stopping"},
               due' \subseteq Kinds, waiting' \in [Keys -> Nat], faults' \in 0..MaxFaults,
               UNCHANGED <<active, orphans, proc, run>>
        PROVE  TypeOK'
    <2>1. /\ tick' \in [Procs -> [Kinds -> Ticks]]
          /\ \A q \in Procs, l \in Kinds : tick'[q][l] = IF q = p /\ l = k THEN t ELSE tick[q][l]
      BY <1>0, <1>5
    <2>2. \A q \in Procs : proc[q].phase \in {"down", "boot"} => \A l \in Kinds : tick'[q][l] = IdleTick
      BY <1>5, <2>1 DEF TypeOK
    <2> QED BY <1>5, <2>1, <2>2 DEF TypeOK
  <1>6. ASSUME NEW p \in Procs, NEW k \in Kinds, TickStep(p, k) \/ TickFails(p, k)
        PROVE  TypeOK'
    <2>1. CASE TakeTick(p, k)
      <3>0. tick[p][k] \in Ticks
        BY <1>0
      <3>1. [tick[p][k] EXCEPT !.pc = "list"] \in Ticks
        BY <3>0 DEF Ticks
      <3>2. /\ tick' = [tick EXCEPT ![p][k] = [tick[p][k] EXCEPT !.pc = "list"]]
            /\ due' \subseteq Kinds
        BY <1>0, <2>1 DEF TakeTick, TypeOK
      <3> QED BY <1>0, <1>5, <2>1, <3>1, <3>2 DEF TakeTick, Polls, TypeOK
    <2>2. CASE ListAllActive(p, k)
      <3>1. {c \in Cities : active[c]} \subseteq Cities
        OBVIOUS
      <3>2. [pc |-> "publish", todo |-> {c \in Cities : active[c]}] \in Ticks
        BY <3>1, Zenon DEF Ticks
      <3> QED BY <1>0, <1>5, <2>2, <3>2 DEF ListAllActive, TypeOK, IdleTick
    <2>3. CASE TickDone(p, k)
      BY <1>0, <1>5, <2>3 DEF TickDone, TypeOK
    <2>4. CASE TickFails(p, k)
      BY <1>0, <1>a, <1>5, <2>4 DEF TickFails, TypeOK
    <2>5. ASSUME NEW c \in Cities, PublishSingletonJob(p, k, c) PROVE TypeOK'
      <3> DEFINE t == [tick[p][k] EXCEPT !.todo = tick[p][k].todo \ {c}]
      <3>1. t \in Ticks /\ tick' = [tick EXCEPT ![p][k] = t] /\ tick[p][k] # IdleTick
        BY <1>0, <2>5 DEF Ticks, PublishSingletonJob, IdleTick
      <3>2. waiting' \in [Keys -> Nat]
        <4>1. <<k, c>> \in Keys /\ waiting \in [Keys -> Nat]
          BY DEF TypeOK, Keys
        <4> QED BY <2>5, <4>1 DEF PublishSingletonJob
      <3> QED BY <1>0, <1>5, <2>5, <3>1, <3>2 DEF PublishSingletonJob, TypeOK
    <2> QED BY <1>6, <2>1, <2>2, <2>3, <2>4, <2>5 DEF TickStep
  (* A step of a handler.                                                   *)
  <1>7. ASSUME NEW p \in Procs, NEW x \in Keys, NEW pc \in {"idle", "find", "scan"},
               run' = [run EXCEPT ![p][x] = pc],
               pc = "idle" \/ run[p][x] # "idle" \/ proc[p].phase \in {"up", "ready", "stopping"},
               waiting' \in [Keys -> Nat], orphans' \in [Keys -> Nat], faults' \in 0..MaxFaults,
               UNCHANGED <<active, due, proc, tick>>
        PROVE  TypeOK'
    <2>1. /\ run' \in [Procs -> [Keys -> {"idle", "find", "scan"}]]
          /\ \A q \in Procs, y \in Keys : run'[q][y] = IF q = p /\ y = x THEN pc ELSE run[q][y]
      BY <1>0, <1>7
    <2>2. \A q \in Procs : proc[q].phase \in {"down", "boot"} =>
              \A k \in Kinds, c \in Cities : run'[q][<<k, c>>] = "idle"
      <3> SUFFICES ASSUME NEW q \in Procs, proc[q].phase \in {"down", "boot"},
                          NEW k \in Kinds, NEW c \in Cities
                   PROVE  run'[q][<<k, c>>] = "idle"
        OBVIOUS
      <3>1. run[q][<<k, c>>] = "idle" /\ <<k, c>> \in Keys
        BY DEF TypeOK, Keys
      <3> QED BY <1>7, <2>1, <3>1
    <2> QED BY <1>7, <2>1, <2>2 DEF TypeOK
  <1>8. ASSUME NEW p \in Procs, NEW x \in Keys, TakeJob(p, x) \/ Handle(p, x) \/ JobFails(p, x)
        PROVE  TypeOK'
    <2>0. waiting \in [Keys -> Nat] /\ orphans \in [Keys -> Nat]
      BY DEF TypeOK
    <2>1. CASE TakeJob(p, x)
      <3>1. waiting' \in [Keys -> Nat]
        BY <2>0, <2>1 DEF TakeJob
      <3> QED BY <1>0, <1>7, <2>0, <2>1, <3>1 DEF TakeJob, Polls
    <2>2. ASSUME Returns(p, x) PROVE orphans' \in [Keys -> Nat]
      BY <2>0, <2>2 DEF Returns
    <2>3. CASE Handle(p, x)
      BY <1>0, <1>7, <2>0, <2>2, <2>3 DEF Handle, FindCity, ScanEnds, Returns
    <2>4. CASE JobFails(p, x)
      <3>1. [waiting EXCEPT ![x] = @ + 1] \in [Keys -> Nat]
        BY <2>0
      <3>2. /\ run' = [run EXCEPT ![p][x] = "idle"] /\ waiting' \in [Keys -> Nat]
            /\ orphans' \in [Keys -> Nat] /\ faults' \in 0..MaxFaults
            /\ UNCHANGED <<active, due, proc, tick>>
        BY <1>a, <2>0, <2>2, <2>4, <3>1 DEF JobFails, Returns
      <3> QED BY <1>7, <3>2
    <2> QED BY <1>8, <2>1, <2>3, <2>4
  <1>9. ASSUME NEW x \in Keys, JobExpires(x) PROVE TypeOK'
    <2>1. orphans' \in [Keys -> Nat] /\ waiting' \in [Keys -> Nat]
      BY <1>9 DEF JobExpires, TypeOK
    <2> QED BY <1>9, <2>1 DEF JobExpires, TypeOK
  <1>10. ASSUME NEW c \in Cities, NEW ativo \in BOOLEAN, SetActive(c, ativo) PROVE TypeOK'
    BY <1>10 DEF SetActive, TypeOK
  <1>11. CASE UNCHANGED vars
    BY <1>11 DEF vars, TypeOK
  <1> QED BY <1>2, <1>3, <1>4, <1>6, <1>8, <1>9, <1>10, <1>11 DEF Next

LEMMA TypeInit == Init => TypeOK
  <1> SUFFICES ASSUME Init PROVE TypeOK
    OBVIOUS
  <1>1. Down \in Lives /\ IdleTick \in Ticks /\ 0 \in 0..MaxFaults
    BY WorkerAssumption DEF Down, Lives, IdleTick, Ticks, Registered
  <1> QED BY <1>1 DEF Init, TypeOK, Keys

LEMMA TypeInvariant == Spec => []TypeOK
  BY TypeInit, TypeStep, PTL DEF Spec

(* Processes, ticks, jobs and handlers keep their types, and a process that *)
(* has not registered its handlers, or is gone, runs none.                  *)
THEOREM WorkerTypeCorrect == Spec => []TypeOK
  BY TypeInvariant

-----------------------------------------------------------------------------
(* How many handlers run a city's jobs.                                     *)

(* One handler starts, goes on or ends: the others' numbers stay.           *)
LEMMA RunningStep ==
    ASSUME TypeOK, NEW p \in Procs, NEW x \in Keys, NEW pc \in {"idle", "find", "scan"},
           run' = [run EXCEPT ![p][x] = pc]
    PROVE  \A y \in Keys :
             /\ Running(y) \in Nat /\ Running(y)' \in Nat
             /\ y # x => Running(y)' = Running(y)
             /\ y = x /\ run[p][x] = "idle" /\ pc # "idle" => Running(y)' = Running(y) + 1
             /\ y = x /\ run[p][x] # "idle" /\ pc # "idle" => Running(y)' = Running(y)
             /\ y = x /\ run[p][x] # "idle" /\ pc = "idle" =>
                  Running(y)' = Running(y) - 1 /\ Running(y) > 0
  <1> SUFFICES ASSUME NEW y \in Keys
               PROVE  /\ Running(y) \in Nat /\ Running(y)' \in Nat
                      /\ y # x => Running(y)' = Running(y)
                      /\ y = x /\ run[p][x] = "idle" /\ pc # "idle" => Running(y)' = Running(y) + 1
                      /\ y = x /\ run[p][x] # "idle" /\ pc # "idle" => Running(y)' = Running(y)
                      /\ y = x /\ run[p][x] # "idle" /\ pc = "idle" =>
                           Running(y)' = Running(y) - 1 /\ Running(y) > 0
    OBVIOUS
  <1> DEFINE R == {q \in Procs : run[q][y] # "idle"}
             N == {q \in Procs : run'[q][y] # "idle"}
  <1>1. \A q \in Procs : run'[q][y] = IF q = p /\ y = x THEN pc ELSE run[q][y]
    BY DEF TypeOK
  <1>2. Running(y) = Cardinality(R) /\ Running(y)' = Cardinality(N)
    BY DEF Running
  <1>3. IsFiniteSet(R) /\ IsFiniteSet(N)
    BY WorkerAssumption, FS_Subset
  <1>4. /\ Cardinality(R) \in Nat /\ Cardinality(N) \in Nat
        /\ Cardinality(R) = 0 <=> R = {}
    BY <1>3, FS_CardinalityType, FS_EmptySet
  <1>5. CASE y # x \/ (run[p][x] # "idle" /\ pc # "idle")
    <2>1. N = R
      BY <1>1, <1>5
    <2> QED BY <1>2, <1>4, <1>5, <2>1
  <1>6. CASE y = x /\ run[p][x] = "idle" /\ pc # "idle"
    <2>1. N = R \cup {p} /\ p \notin R
      BY <1>1, <1>6
    <2>2. Cardinality(N) = Cardinality(R) + 1
      BY <1>3, <2>1, FS_AddElement
    <2> QED BY <1>2, <1>4, <1>6, <2>2
  <1>7. CASE y = x /\ run[p][x] # "idle" /\ pc = "idle"
    <2>1. N = R \ {p} /\ p \in R
      BY <1>1, <1>7
    <2>2. Cardinality(N) = Cardinality(R) - 1
      BY <1>3, <2>1, FS_RemoveElement
    <2> QED BY <1>2, <1>4, <1>7, <2>1, <2>2
  <1>8. CASE y = x /\ run[p][x] = "idle" /\ pc = "idle"
    BY <1>2, <1>4, <1>8
  <1> QED BY <1>5, <1>6, <1>7, <1>8

(* When a process ends, each handler it ran leaves its job active: the job  *)
(* counts as an orphan from now on.                                         *)
LEMMA ExitsCount ==
    ASSUME TypeOK, NEW p \in Procs, Exits(p), NEW y \in Keys
    PROVE  /\ Running(y) \in Nat /\ Running(y)' \in Nat
           /\ orphans[y]' + Running(y)' = orphans[y] + Running(y)
  <1> DEFINE R == {q \in Procs : run[q][y] # "idle"}
             N == {q \in Procs : run'[q][y] # "idle"}
  <1>1. \A q \in Procs : run'[q][y] = IF q = p THEN "idle" ELSE run[q][y]
    BY DEF TypeOK, Exits
  <1>2. Running(y) = Cardinality(R) /\ Running(y)' = Cardinality(N)
    BY DEF Running
  <1>3. IsFiniteSet(R) /\ Cardinality(R) \in Nat
    BY WorkerAssumption, FS_Subset, FS_CardinalityType
  <1>4. N = R \ {p}
    BY <1>1
  <1>5. IsFiniteSet(N) /\ Cardinality(N) = IF p \in R THEN Cardinality(R) - 1 ELSE Cardinality(R)
    <2> HIDE DEF R, N
    <2> QED BY <1>3, <1>4, FS_RemoveElement
  <1>6. orphans'[y] = orphans[y] + IF p \in R THEN 1 ELSE 0
    <2>1. orphans'[y] = orphans[y] + IF run[p][y] # "idle" THEN 1 ELSE 0
      BY DEF Exits
    <2> QED BY <2>1
  <1>7. Cardinality(N) \in Nat /\ orphans[y] \in Nat
    BY <1>5, FS_CardinalityType DEF TypeOK
  <1> QED BY <1>2, <1>3, <1>5, <1>6, <1>7

LEMMA OneJobStep == TypeOK /\ OneJobPerCity /\ [Next]_vars => OneJobPerCity'
  <1> SUFFICES ASSUME TypeOK, OneJobPerCity, [Next]_vars, NEW y \in Keys
               PROVE  waiting'[y] + orphans'[y] + Running(y)' <= 1
    BY DEF OneJobPerCity
  <1>0. /\ waiting \in [Keys -> Nat] /\ orphans \in [Keys -> Nat]
        /\ waiting[y] + orphans[y] + Running(y) <= 1
        /\ waiting[y] \in Nat /\ orphans[y] \in Nat
    BY DEF TypeOK, OneJobPerCity
  <1>1. Running(y) \in Nat
    <2>1. IsFiniteSet({q \in Procs : run[q][y] # "idle"})
      BY WorkerAssumption, FS_Subset
    <2> QED BY <2>1, FS_CardinalityType DEF Running
  <1>2. CASE UNCHANGED <<waiting, orphans, run>>
    BY <1>0, <1>2 DEF Running
  <1>3. ASSUME NEW p \in Procs, Dies(p) \/ AllTasksEnd(p)
        PROVE  waiting'[y] + orphans'[y] + Running(y)' <= 1
    <2>1. Exits(p) /\ waiting' = waiting
      BY <1>3 DEF Dies, AllTasksEnd
    <2>2. /\ Running(y)' \in Nat
          /\ orphans'[y] + Running(y)' = orphans[y] + Running(y)
      BY <2>1, ExitsCount
    <2>3. orphans'[y] \in Nat
      BY <2>1, <1>0 DEF Exits
    <2> QED BY <1>0, <1>1, <2>1, <2>2, <2>3
  <1>4. ASSUME NEW p \in Procs, NEW k \in Kinds, NEW c \in Cities, PublishSingletonJob(p, k, c)
        PROVE  waiting'[y] + orphans'[y] + Running(y)' <= 1
    <2>1. Running(y)' = Running(y) /\ orphans' = orphans
      BY <1>4 DEF PublishSingletonJob, Running
    <2>2. CASE y # <<k, c>> \/ SingletonHeld(<<k, c>>)
      BY <1>0, <1>1, <1>4, <2>1, <2>2 DEF PublishSingletonJob
    <2>3. CASE y = <<k, c>> /\ ~SingletonHeld(<<k, c>>)
      <3>1. waiting[y] = 0 /\ orphans[y] = 0 /\ Running(y) = 0
        BY <1>0, <1>1, <2>3 DEF SingletonHeld
      <3>2. waiting'[y] = waiting[y] + 1
        BY <1>0, <1>4, <2>3 DEF PublishSingletonJob
      <3> QED BY <2>1, <3>1, <3>2
    <2> QED BY <2>2, <2>3
  <1>5. ASSUME NEW p \in Procs, NEW x \in Keys, TakeJob(p, x)
        PROVE  waiting'[y] + orphans'[y] + Running(y)' <= 1
    <2>1. /\ Running(y)' \in Nat
          /\ y # x => Running(y)' = Running(y)
          /\ y = x => Running(y)' = Running(y) + 1
      BY <1>5, RunningStep DEF TakeJob
    <2>2. /\ orphans' = orphans /\ (y # x => waiting'[y] = waiting[y])
          /\ y = x => waiting'[y] = waiting[y] - 1
      BY <1>0, <1>5 DEF TakeJob
    <2> QED BY <1>0, <1>1, <2>1, <2>2
  <1>6. ASSUME NEW p \in Procs, NEW x \in Keys, Returns(p, x), run[p][x] # "idle", waiting' = waiting
        PROVE  waiting'[y] + orphans'[y] + Running(y)' <= 1
    <2>1. /\ Running(y)' \in Nat
          /\ y # x => Running(y)' = Running(y)
          /\ y = x => Running(y)' = Running(y) - 1
      BY <1>6, RunningStep DEF Returns
    <2>2. /\ y # x => orphans'[y] = orphans[y]
          /\ y = x => orphans'[y] \in {orphans[y], orphans[y] + 1}
      BY <1>0, <1>6 DEF Returns
    <2> QED BY <1>0, <1>1, <1>6, <2>1, <2>2
  <1>7. ASSUME NEW p \in Procs, NEW x \in Keys, Handle(p, x)
        PROVE  waiting'[y] + orphans'[y] + Running(y)' <= 1
    <2>1. CASE run' = [run EXCEPT ![p][x] = "scan"] /\ UNCHANGED <<waiting, orphans>>
                 /\ run[p][x] = "find"
      <3>1. Running(y)' = Running(y)
        BY <2>1, RunningStep
      <3> QED BY <1>0, <1>1, <2>1, <3>1
    <2>2. CASE Returns(p, x) /\ run[p][x] # "idle" /\ waiting' = waiting
      BY <1>6, <2>2
    <2> QED BY <1>7, <2>1, <2>2 DEF Handle, FindCity, ScanEnds
  <1>8. ASSUME NEW p \in Procs, NEW x \in Keys, JobFails(p, x)
        PROVE  waiting'[y] + orphans'[y] + Running(y)' <= 1
    <2>1. CASE Ended(p, "pg-boss")
      BY <1>6, <1>8, <2>1 DEF JobFails
    <2>2. CASE ~Ended(p, "pg-boss")
      <3>1. /\ Running(y)' \in Nat
            /\ y # x => Running(y)' = Running(y)
            /\ y = x => Running(y)' = Running(y) - 1
        BY <1>8, <2>2, RunningStep DEF JobFails
      <3>2. /\ orphans' = orphans
            /\ y # x => waiting'[y] = waiting[y]
            /\ y = x => waiting'[y] \in {waiting[y], waiting[y] + 1}
        BY <1>0, <1>8, <2>2 DEF JobFails
      <3> QED BY <1>0, <1>1, <3>1, <3>2
    <2> QED BY <2>1, <2>2
  <1>9. ASSUME NEW x \in Keys, JobExpires(x)
        PROVE  waiting'[y] + orphans'[y] + Running(y)' <= 1
    <2>1. /\ Running(y)' = Running(y)
          /\ y # x => orphans'[y] = orphans[y] /\ waiting'[y] = waiting[y]
          /\ y = x => orphans'[y] = orphans[y] - 1
                        /\ waiting'[y] \in {waiting[y], waiting[y] + 1}
      BY <1>0, <1>9 DEF JobExpires, Running
    <2> QED BY <1>0, <1>1, <2>1
  <1>10. ASSUME NEW p \in Procs, Boot(p) \/ TaskEnds(p) \/ TaskFails(p)
         PROVE  UNCHANGED <<waiting, orphans, run>>
    BY <1>10 DEF Boot, TaskEnds, TaskFails
  <1>11. ASSUME NEW p \in Procs, NEW k \in Kinds,
                TakeTick(p, k) \/ ListAllActive(p, k) \/ TickDone(p, k) \/ TickFails(p, k)
         PROVE  UNCHANGED <<waiting, orphans, run>>
    BY <1>11 DEF TakeTick, ListAllActive, TickDone, TickFails
  <1>12. CASE (\E k \in Kinds : CronFires(k))
               \/ (\E c \in Cities, ativo \in BOOLEAN : SetActive(c, ativo))
               \/ (\E p \in Procs, fatal \in BOOLEAN : Signalled(p, fatal))
               \/ UNCHANGED vars
    BY <1>2, <1>12 DEF CronFires, SetActive, Signalled, vars
  <1> QED
    BY <1>2, <1>3, <1>4, <1>5, <1>7, <1>8, <1>9, <1>10, <1>11, <1>12 DEF Next, Lifecycle, TickStep

(* A city has at most one job of a kind that waits, runs or was left by a   *)
(* process that died, so never two handlers at once, for any number of      *)
(* processes, ticks and failures (scan-tick.ts:34-41).                      *)
THEOREM CitiesHaveOneJob == Spec => []OneJobPerCity
  <1>1. Init => OneJobPerCity
    <2>1. Init => \A x \in Keys : Running(x) = 0
      <3> SUFFICES ASSUME Init, NEW x \in Keys PROVE Running(x) = 0
        OBVIOUS
      <3>1. {p \in Procs : run[p][x] # "idle"} = {}
        BY DEF Init
      <3> QED BY <3>1, FS_EmptySet DEF Running
    <2> QED BY <2>1 DEF Init, OneJobPerCity
  <1> QED BY <1>1, OneJobStep, TypeInvariant, PTL DEF Spec

-----------------------------------------------------------------------------
(* The drain.                                                               *)

(* What is busy stays so, or becomes so only where jobs are taken.          *)
LEMMA DrainStep == DrainInv /\ [Next]_vars => DrainInv'
  <1> SUFFICES ASSUME DrainInv, [Next]_vars PROVE DrainInv'
    OBVIOUS
  <1>0. /\ TypeOK /\ TypeOK'
        /\ proc \in [Procs -> Lives] /\ tick \in [Procs -> [Kinds -> Ticks]]
        /\ run \in [Procs -> [Keys -> {"idle", "find", "scan"}]]
    BY TypeStep DEF DrainInv, TypeOK
  <1> DEFINE Kept(q) == /\ proc'[q].phase # "stopping" => proc'[q].task = 1
                        /\ (/\ proc'[q].phase = "stopping" /\ proc'[q].task > 1
                            /\ ~proc'[q].cut) => ~Busy(q)'
  <1>a. SUFFICES ASSUME NEW q \in Procs PROVE Kept(q)
    <2>2. \A p \in Procs : proc'[p].task \in 1..5
      BY <1>0 DEF TypeOK, Lives, Registered
    <2>3. \A p \in Procs :
            Ended(p, "pg-boss")' <=> (proc'[p].phase = "stopping" /\ proc'[p].task > 1)
      <3> SUFFICES ASSUME NEW p \in Procs
                   PROVE  Ended(p, "pg-boss")' <=> (proc'[p].phase = "stopping" /\ proc'[p].task > 1)
        OBVIOUS
      <3>1. /\ Task(1) = "pg-boss" /\ \A i \in 2..4 : Task(i) # "pg-boss"
            /\ 1..Len(Registered) = 1..4 /\ proc'[p].task \in 1..5
        BY <2>2, TaskOrder
      <3>2. Ended(p, "pg-boss")' <=>
              (proc'[p].phase = "stopping" /\ \E i \in 1..4 : i < proc'[p].task /\ Task(i) = "pg-boss")
        BY <3>1 DEF Ended, Task, Registered
      <3> QED BY <3>1, <3>2
    <2> QED BY <1>a, <1>0, <2>3 DEF DrainInv
  <1>b. /\ Task(1) = "pg-boss" /\ proc[q].task \in 1..5
        /\ Began(q, "pg-boss") <=> proc[q].phase = "stopping"
        /\ proc[q].phase # "stopping" => proc[q].task = 1
        /\ (proc[q].phase = "stopping" /\ proc[q].task > 1 /\ ~proc[q].cut) => ~Busy(q)
    BY <1>0, FirstTask, TaskOrder DEF DrainInv
  (* A step that leaves the lives alone, and takes a tick or a job only     *)
  (* where they are polled for.                                             *)
  <1>1. ASSUME proc' = proc, ~Polls(q) => (Busy(q)' => Busy(q))
        PROVE  Kept(q)
    BY <1>b, <1>1 DEF Polls
  <1>2. CASE UNCHANGED <<proc, tick, run>>
    BY <1>1, <1>2 DEF Busy
  <1>3. ASSUME NEW p \in Procs, Boot(p) PROVE Kept(q)
    <2>1. /\ proc' \in [Procs -> Lives]
          /\ q # p => proc'[q] = proc[q]
          /\ q = p => proc'[q].phase # "stopping" /\ proc'[q].task = proc[q].task
                      /\ proc[q].phase # "stopping"
      BY <1>0, <1>3 DEF Boot, Lives, TypeOK
    <2>2. Busy(q)' => Busy(q)
      BY <1>3 DEF Boot, Busy
    <2> QED BY <1>b, <2>1, <2>2
  <1>4. ASSUME NEW p \in Procs, NEW fatal \in BOOLEAN, Signalled(p, fatal) PROVE Kept(q)
    <2>1. /\ q # p => proc'[q] = proc[q]
          /\ q = p => proc'[q].task = proc[q].task /\ proc[q].phase # "stopping"
      BY <1>0, <1>4 DEF Signalled, Lives
    <2>2. Busy(q)' => Busy(q)
      BY <1>4 DEF Signalled, Busy
    <2> QED BY <1>b, <2>1, <2>2
  <1>5. ASSUME NEW p \in Procs, NEW cut \in BOOLEAN, AtTask(p), NextTask(p, cut),
               UNCHANGED <<tick, run>>,
               (Task(proc[p].task) = "pg-boss" /\ Busy(p)) => cut
        PROVE  Kept(q)
    <2>1. Busy(q)' => Busy(q)
      BY <1>5 DEF Busy
    <2>2. CASE q # p
      <3>1. proc'[q] = proc[q]
        BY <1>0, <1>5, <2>2 DEF NextTask
      <3> QED BY <1>b, <2>1, <3>1
    <2>3. CASE q = p
      <3>1. /\ proc'[q].phase = "stopping" /\ proc[q].phase = "stopping"
            /\ proc'[q].cut = (proc[q].cut \/ cut)
        BY <1>0, <1>5, <2>3 DEF NextTask, AtTask, Lives
      <3>2. CASE proc[q].task = 1
        BY <1>b, <1>5, <2>1, <2>3, <3>1, <3>2
      <3>3. CASE proc[q].task > 1
        BY <1>b, <2>1, <3>1, <3>3
      <3> QED BY <1>b, <3>2, <3>3
    <2> QED BY <2>2, <2>3
  <1>6. ASSUME NEW p \in Procs, TaskEnds(p) \/ TaskFails(p) PROVE Kept(q)
    <2>1. CASE TaskEnds(p)
      BY <1>5, <2>1 DEF TaskEnds
    <2>2. CASE TaskFails(p)
      <3>1. (Task(proc[p].task) = "pg-boss" /\ Busy(p)) \in BOOLEAN
        OBVIOUS
      <3> QED BY <1>5, <2>2, <3>1 DEF TaskFails
    <2> QED BY <1>6, <2>1, <2>2
  <1>7. ASSUME NEW p \in Procs, Dies(p) \/ AllTasksEnd(p) PROVE Kept(q)
    <2>1. Exits(p)
      BY <1>7 DEF Dies, AllTasksEnd
    <2>2. CASE q = p
      BY <1>0, <2>1, <2>2 DEF Exits, Down
    <2>3. CASE q # p
      <3>1. proc'[q] = proc[q] /\ run'[q] = run[q] /\ tick'[q] = tick[q]
        BY <1>0, <2>1, <2>3 DEF Exits
      <3>2. Busy(q)' => Busy(q)
        BY <3>1 DEF Busy
      <3> QED BY <1>b, <3>1, <3>2
    <2> QED BY <2>2, <2>3
  (* One tick, or one handler.                                              *)
  <1>8. ASSUME NEW p \in Procs, NEW k \in Kinds, NEW t \in Ticks,
               tick' = [tick EXCEPT ![p][k] = t], UNCHANGED <<proc, run>>,
               t = IdleTick \/ tick[p][k] # IdleTick \/ Polls(p)
        PROVE  Kept(q)
    <2>1. \A l \in Kinds : tick'[q][l] = IF q = p /\ l = k THEN t ELSE tick[q][l]
      BY <1>0, <1>8
    <2>2. ~Polls(q) => (Busy(q)' => Busy(q))
      BY <1>8, <2>1 DEF Busy
    <2> QED BY <1>1, <1>8, <2>2
  <1>9. ASSUME NEW p \in Procs, NEW k \in Kinds, TickStep(p, k) \/ TickFails(p, k)
        PROVE  Kept(q)
    <2>0. tick[p][k] \in Ticks /\ IdleTick \in Ticks
      BY <1>0 DEF IdleTick, Ticks
    <2>1. CASE TakeTick(p, k)
      <3>1. [tick[p][k] EXCEPT !.pc = "list"] \in Ticks
        BY <2>0 DEF Ticks
      <3>2. tick' = [tick EXCEPT ![p][k] = [tick[p][k] EXCEPT !.pc = "list"]]
        BY <1>0, <2>1 DEF TakeTick
      <3> QED BY <1>8, <2>1, <3>1, <3>2 DEF TakeTick
    <2>2. CASE ListAllActive(p, k) \/ TickDone(p, k) \/ TickFails(p, k)
      <3>1. tick[p][k] # IdleTick /\ UNCHANGED <<proc, run>>
        BY <2>2 DEF ListAllActive, TickDone, TickFails, IdleTick
      <3>2. [pc |-> "publish", todo |-> {c \in Cities : active[c]}] \in Ticks
        <4>1. {c \in Cities : active[c]} \subseteq Cities
          OBVIOUS
        <4> QED BY <4>1, Zenon DEF Ticks
      <3> QED BY <1>8, <2>0, <2>2, <3>1, <3>2 DEF ListAllActive, TickDone, TickFails
    <2>3. ASSUME NEW c \in Cities, PublishSingletonJob(p, k, c) PROVE Kept(q)
      <3> DEFINE t == [tick[p][k] EXCEPT !.todo = tick[p][k].todo \ {c}]
      <3>1. t \in Ticks /\ tick' = [tick EXCEPT ![p][k] = t] /\ tick[p][k] # IdleTick
        BY <1>0, <2>0, <2>3 DEF Ticks, PublishSingletonJob, IdleTick
      <3> QED BY <1>8, <2>3, <3>1 DEF PublishSingletonJob
    <2> QED BY <1>9, <2>1, <2>2, <2>3 DEF TickStep
  <1>10. ASSUME NEW p \in Procs, NEW x \in Keys, NEW pc \in {"idle", "find", "scan"},
                run' = [run EXCEPT ![p][x] = pc], UNCHANGED <<proc, tick>>,
                pc = "idle" \/ run[p][x] # "idle" \/ Polls(p)
         PROVE  Kept(q)
    <2>1. \A y \in Keys : run'[q][y] = IF q = p /\ y = x THEN pc ELSE run[q][y]
      BY <1>0, <1>10
    <2>2. ~Polls(q) => (Busy(q)' => Busy(q))
      BY <1>10, <2>1 DEF Busy
    <2> QED BY <1>1, <1>10, <2>2
  <1>11. ASSUME NEW p \in Procs, NEW x \in Keys, TakeJob(p, x) \/ Handle(p, x) \/ JobFails(p, x)
         PROVE  Kept(q)
    BY <1>10, <1>11 DEF TakeJob, Handle, FindCity, ScanEnds, JobFails, Returns
  <1>12. CASE (\E k \in Kinds : CronFires(k)) \/ (\E x \in Keys : JobExpires(x))
               \/ (\E c \in Cities, ativo \in BOOLEAN : SetActive(c, ativo))
               \/ UNCHANGED vars
    BY <1>2, <1>12 DEF CronFires, JobExpires, SetActive, vars
  <1> QED
    BY <1>3, <1>4, <1>6, <1>7, <1>9, <1>11, <1>12 DEF Next, Lifecycle

(* While handlers run, what they use is there, unless pg-boss's drain was   *)
(* cut (lifecycle/shutdown.ts:35, index.ts:52-64).                          *)
THEOREM ServicesOutlive == Spec => []ServicesOutliveHandlers
  <1>1. Init => DrainInv
    <2> SUFFICES ASSUME Init PROVE DrainInv
      OBVIOUS
    <2> QED BY TypeInit DEF DrainInv, Init, Down, Ended
  <1>2. DrainInv => ServicesOutliveHandlers
    BY FirstTask DEF DrainInv, ServicesOutliveHandlers
  <1> QED BY <1>1, <1>2, DrainStep, PTL DEF Spec
=============================================================================
