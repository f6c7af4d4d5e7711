-------------------------- MODULE PdfStore_proofs --------------------------
(***************************************************************************)
(* Proofs about PdfStore, for any number of warrants, documents, workers,  *)
(* jobs, retries and failures.  StoreInv adds to AttachedIsStored what the *)
(* runs know between their statements: a document that is about to get its *)
(* row is in the bucket, and one that is about to be attached has its row. *)
(***************************************************************************)
EXTENDS PdfStore, FiniteSetTheorems, TLAPS

StoreInv ==
    /\ TypeOK
    /\ AttachedIsStored
    /\ \A x \in Workers :
         /\ worker[x].pc = "upsert" => worker[x].doc \in objects
         /\ worker[x].pc = "attach" => worker[x].doc \in assets

(* Whether a run ends its job or fails it, only the job and the run change. *)
LEMMA JobFailsType ==
    ASSUME TypeOK, NEW x \in Workers, worker[x].pc # "idle", JobFails(x)
    PROVE  /\ jobs' \in [Jobs -> JobRows]
           /\ worker' = [worker EXCEPT ![x] = IdleRun]
  <1> USE PdfAssumption
  <1> DEFINE j == worker[x].job
  <1>1. j \in Jobs /\ jobs \in [Jobs -> JobRows]
    BY DEF TypeOK
  <1>2. CASE jobs[j].retries < RetryLimit
    <2>1. [state |-> "queued", retries |-> jobs[j].retries + 1] \in JobRows
      BY <1>1, <1>2 DEF JobRows
    <2> QED BY <1>1, <1>2, <2>1 DEF JobFails
  <1>3. CASE ~(jobs[j].retries < RetryLimit)
    <2>1. [jobs[j] EXCEPT !.state = "failed"] \in JobRows
      BY <1>1 DEF JobRows
    <2> QED BY <1>1, <1>3, <2>1 DEF JobFails
  <1> QED BY <1>2, <1>3 DEF JobFails

LEMMA JobEndsType ==
    ASSUME TypeOK, NEW x \in Workers, worker[x].pc # "idle", JobEnds(x)
    PROVE  /\ jobs' \in [Jobs -> JobRows]
           /\ worker' = [worker EXCEPT ![x] = IdleRun]
  <1>1. worker[x].job \in Jobs /\ jobs \in [Jobs -> JobRows]
    BY DEF TypeOK
  <1>2. [jobs[worker[x].job] EXCEPT !.state = "completed"] \in JobRows
    BY <1>1 DEF JobRows
  <1> QED BY <1>1, <1>2 DEF JobEnds

(* Every step keeps the types, the store and what the runs know of it.      *)
LEMMA StoreStep == StoreInv /\ [Next]_vars => StoreInv'
  <1> SUFFICES ASSUME StoreInv, [Next]_vars PROVE StoreInv'
    OBVIOUS
  <1> USE PdfAssumption DEF StoreInv, AttachedIsStored
  <1>0. /\ worker \in [Workers -> Runs] /\ faults \in 0..MaxFaults
        /\ IdleRun \in Runs
    BY DEF TypeOK, IdleRun, Runs, Steps
  <1>1. ASSUME NEW j \in Jobs, NEW d \in Docs, Publish(j, d)
        PROVE  StoreInv'
    <2>1. [jobs[j] EXCEPT !.state = "queued"] \in JobRows /\ j[1] \in Warrants
      BY <1>1 DEF TypeOK, JobRows
    <2>2. TypeOK'
      BY <1>1, <2>1 DEF TypeOK, Publish, store
    <2> QED BY <1>1, <2>2 DEF Publish, store
  <1>2. ASSUME NEW x \in Workers, NEW j \in Jobs, TakeJob(x, j)
        PROVE  StoreInv'
    <2>1. /\ [jobs[j] EXCEPT !.state = "active"] \in JobRows
          /\ [pc |-> "find", job |-> j, doc |-> None] \in Runs
      BY <1>2 DEF TypeOK, JobRows, Runs, Steps
    <2>2. TypeOK'
      BY <1>2, <2>1 DEF TypeOK, TakeJob, store
    <2> QED BY <1>0, <1>2, <2>2 DEF TakeJob, store
  <1>3. ASSUME NEW x \in Workers, worker[x].pc # "idle", UNCHANGED <<served, store>>,
               faults' \in 0..MaxFaults, jobs' \in [Jobs -> JobRows],
               worker' = [worker EXCEPT ![x] = IdleRun]
        PROVE  StoreInv'
    <2>1. TypeOK'
      BY <1>0, <1>3 DEF TypeOK, store, IdleRun
    <2> QED BY <1>0, <1>3, <2>1 DEF store, IdleRun
  <1>4. ASSUME NEW x \in Workers, FindWarrant(x)
        PROVE  StoreInv'
    <2>1. CASE attached[WarrantOf(x)] # None
      BY <1>0, <1>3, <1>4, <2>1, JobEndsType DEF FindWarrant
    <2>2. CASE attached[WarrantOf(x)] = None
      <3>1. TypeOK'
        BY <1>0, <1>4, <2>2 DEF TypeOK, FindWarrant, MoveTo, store, Runs, Steps
      <3> QED BY <1>0, <1>4, <2>2, <3>1 DEF FindWarrant, MoveTo, store, Runs
    <2> QED BY <2>1, <2>2
  <1>5. ASSUME NEW x \in Workers, Download(x)
        PROVE  StoreInv'
    <2>1. CASE served[WarrantOf(x)] \in Pdfs
      <3> DEFINE d == served[WarrantOf(x)]
                 r == [worker[x] EXCEPT !.pc = "dedup", !.doc = d]
      <3>1. r \in Runs /\ r.pc = "dedup" /\ r.doc \in Pdfs /\ r.job \in Jobs
        BY <1>0, <1>5, <2>1 DEF TypeOK, Download, Runs, Steps
      <3>2. worker' = [worker EXCEPT ![x] = r] /\ UNCHANGED <<served, store, jobs, faults>>
        BY <1>0, <1>5, <2>1 DEF Download, Runs
      <3>3. TypeOK'
        BY <1>0, <3>1, <3>2 DEF TypeOK, store
      <3> QED BY <1>0, <3>1, <3>2, <3>3 DEF store, Runs
    <2>2. CASE served[WarrantOf(x)] \notin Pdfs
      BY <1>0, <1>3, <1>5, <2>2, JobFailsType DEF Download
    <2> QED BY <2>1, <2>2
  <1>6. ASSUME NEW x \in Workers, FindBySha(x)
        PROVE  StoreInv'
    <2>1. TypeOK'
      BY <1>0, <1>6 DEF TypeOK, FindBySha, MoveTo, store, Runs, Steps
    <2> QED BY <1>0, <1>6, <2>1 DEF FindBySha, MoveTo, store, Runs
  <1>7. ASSUME NEW x \in Workers, Upload(x)
        PROVE  StoreInv'
    <2>1. worker[x].doc \in Pdfs
      BY <1>7 DEF Upload, TypeOK
    <2>2. TypeOK'
      BY <1>0, <1>7, <2>1 DEF TypeOK, Upload, MoveTo, Runs, Steps
    <2> QED BY <1>0, <1>7, <2>1, <2>2 DEF Upload, MoveTo, Runs
  <1>8. ASSUME NEW x \in Workers, UpsertAsset(x)
        PROVE  StoreInv'
    <2>1. worker[x].doc \in Pdfs /\ worker[x].doc \in objects
      BY <1>8 DEF UpsertAsset, TypeOK
    <2>2. TypeOK'
      BY <1>0, <1>8, <2>1 DEF TypeOK, UpsertAsset, MoveTo, Runs, Steps
    <2> QED BY <1>0, <1>8, <2>1, <2>2 DEF UpsertAsset, MoveTo, Runs
  <1>9. ASSUME NEW x \in Workers, Attach(x)
        PROVE  StoreInv'
    <2>1. /\ worker[x].doc \in Pdfs /\ worker[x].doc \in assets
          /\ WarrantOf(x) \in Warrants /\ attached \in [Warrants -> Docs \cup {None}]
      BY <1>9 DEF Attach, TypeOK, WarrantOf
    <2>2. /\ jobs' \in [Jobs -> JobRows]
          /\ worker' = [worker EXCEPT ![x] = IdleRun]
      BY <1>9, JobEndsType DEF Attach
    <2>3. TypeOK'
      BY <1>0, <1>9, <2>1, <2>2 DEF TypeOK, Attach, IdleRun
    <2> QED BY <1>0, <1>9, <2>1, <2>2, <2>3 DEF Attach, IdleRun
  <1>10. ASSUME NEW x \in Workers, RunFails(x)
         PROVE  StoreInv'
    BY <1>0, <1>3, <1>10, JobFailsType DEF RunFails
  <1>11. CASE UNCHANGED vars
    BY <1>11 DEF vars, store, TypeOK
  <1> QED BY <1>1, <1>2, <1>4, <1>5, <1>6, <1>7, <1>8, <1>9, <1>10, <1>11
          DEF Next, RunStep

LEMMA StoreInit == Init => StoreInv
  BY PdfAssumption DEF Init, StoreInv, AttachedIsStored, TypeOK, JobRows, Runs, Steps, IdleRun

LEMMA StoreInvariant == Spec => []StoreInv
  BY StoreInit, StoreStep, PTL DEF Spec

(* The tables, the bucket and the runs keep their types (pdf-download.ts).  *)
THEOREM PdfTypeCorrect == Spec => []TypeOK
  <1>1. StoreInv => TypeOK
    BY DEF StoreInv
  <1> QED BY <1>1, StoreInvariant, PTL

(* What is attached has its row and its object, a PDF, whatever failed and  *)
(* whoever stored the same document at once (pdf-download.ts:44-62).        *)
THEOREM AttachedStaysStored == Spec => []AttachedIsStored
  <1>1. StoreInv => AttachedIsStored
    BY DEF StoreInv
  <1> QED BY <1>1, StoreInvariant, PTL

-----------------------------------------------------------------------------
(* The objects that have neither a row nor a run about to give them one.    *)
Orphans == objects \ (assets \cup Storing)

(* A step that is no failure orphans nothing, and a failure at most the     *)
(* document of its own run.                                                 *)
LEMMA OrphansStep ==
    ASSUME StoreInv, [Next]_vars
    PROVE  \/ Orphans' \subseteq Orphans /\ faults' = faults
           \/ \E d : Orphans' \subseteq Orphans \cup {d} /\ faults' = faults + 1
  <1> DEFINE Quiet == Orphans' \subseteq Orphans /\ faults' = faults
  <1> USE DEF Orphans, Storing
  <1>0. /\ worker \in [Workers -> Runs] /\ IdleRun.pc = "idle"
    BY DEF StoreInv, TypeOK, IdleRun
  <1>1. ASSUME NEW j \in Jobs, NEW d \in Docs, Publish(j, d) PROVE Quiet
    BY <1>1 DEF Publish, store
  <1>2. ASSUME NEW x \in Workers, NEW j \in Jobs, TakeJob(x, j) PROVE Quiet
    BY <1>0, <1>2 DEF TakeJob, store
  <1>4. ASSUME NEW x \in Workers, FindWarrant(x) \/ Download(x) \/ FindBySha(x)
        PROVE  Quiet
    <2>1. UNCHANGED <<store, faults>> /\ worker[x].pc # "upsert"
      BY <1>4 DEF FindWarrant, Download, FindBySha
    <2>2. \A y \in Workers \ {x} : worker'[y] = worker[y]
      BY <1>0, <1>4 DEF FindWarrant, Download, FindBySha, MoveTo, JobEnds, JobFails
    <2> QED BY <1>0, <2>1, <2>2 DEF store
  <1>5. ASSUME NEW x \in Workers, Upload(x) PROVE Quiet
    BY <1>0, <1>5 DEF Upload, MoveTo, Runs
  <1>6. ASSUME NEW x \in Workers, UpsertAsset(x) PROVE Quiet
    BY <1>0, <1>6 DEF UpsertAsset, MoveTo, Runs
  <1>7. ASSUME NEW x \in Workers, Attach(x) PROVE Quiet
    BY <1>0, <1>7 DEF Attach, JobEnds, IdleRun
  <1>8. ASSUME NEW x \in Workers, RunFails(x)
        PROVE  Orphans' \subseteq Orphans \cup {worker[x].doc} /\ faults' = faults + 1
    BY <1>0, <1>8 DEF RunFails, JobFails, store
  <1>9. CASE UNCHANGED vars
    BY <1>9 DEF vars, store
  <1> QED BY <1>1, <1>2, <1>4, <1>5, <1>6, <1>7, <1>8, <1>9 DEF Next, RunStep

(* The orphans are no more than the failures.                               *)
LEMMA OrphansKept == StoreInv /\ OrphansBounded /\ [Next]_vars => OrphansBounded'
  <1> SUFFICES ASSUME StoreInv, OrphansBounded, [Next]_vars PROVE OrphansBounded'
    OBVIOUS
  <1>1. /\ IsFiniteSet(Orphans) /\ Cardinality(Orphans) \in Nat
        /\ Cardinality(Orphans) <= faults /\ faults \in Nat
    <2>1. IsFiniteSet(Orphans)
      BY PdfAssumption, FS_Subset DEF StoreInv, TypeOK, Orphans
    <2> QED BY <2>1, PdfAssumption, FS_CardinalityType
            DEF OrphansBounded, Orphans, StoreInv, TypeOK
  <1>2. SUFFICES Cardinality(Orphans') <= faults'
    BY DEF OrphansBounded, Orphans
  <1>3. CASE Orphans' \subseteq Orphans /\ faults' = faults
    <2>1. Cardinality(Orphans') <= Cardinality(Orphans) /\ Cardinality(Orphans') \in Nat
      BY <1>1, <1>3, FS_Subset, FS_CardinalityType
    <2> QED BY <1>1, <1>3, <2>1
  <1>4. ASSUME NEW d, Orphans' \subseteq Orphans \cup {d}, faults' = faults + 1
        PROVE  Cardinality(Orphans') <= faults'
    <2>1. /\ IsFiniteSet(Orphans \cup {d})
          /\ \/ Cardinality(Orphans \cup {d}) = Cardinality(Orphans)
             \/ Cardinality(Orphans \cup {d}) = Cardinality(Orphans) + 1
      BY <1>1, FS_AddElement
    <2>2. /\ Cardinality(Orphans') <= Cardinality(Orphans \cup {d})
          /\ Cardinality(Orphans') \in Nat
      BY <1>4, <2>1, FS_Subset, FS_CardinalityType
    <2> QED BY <1>1, <1>4, <2>1, <2>2
  <1> QED BY <1>3, <1>4, OrphansStep

(* Concurrent and repeated stores orphan no object: only a failure between  *)
(* upload and upsert does, and at most one (pdf-download.ts:52-61).         *)
THEOREM OrphansAreBounded == Spec => []OrphansBounded
  <1>1. Init => OrphansBounded
    <2>1. Init => objects \ (assets \cup Storing) = {}
      BY DEF Init
    <2> QED BY <2>1, FS_EmptySet, PdfAssumption DEF OrphansBounded, Init
  <1> QED BY <1>1, OrphansKept, StoreInvariant, PTL DEF Spec

-----------------------------------------------------------------------------
(* The warrant has its document, and no run is between its check of the     *)
(* attachment and its own attachment.                                       *)
Settled(w, d) ==
    /\ attached[w] = d
    /\ \A x \in Workers : worker[x].pc \notin {"idle", "find"} => WarrantOf(x) # w

(* A run that checks now finds the document, and ends.                      *)
LEMMA SettledStays ==
    ASSUME NEW w \in Warrants, NEW d \in Pdfs, TypeOK, Settled(w, d), [Next]_vars
    PROVE  Settled(w, d)'
  <1> USE DEF Settled, WarrantOf
  <1>0. /\ worker \in [Workers -> Runs] /\ IdleRun.pc = "idle" /\ d # None
        /\ attached \in [Warrants -> Docs \cup {None}]
    BY PdfAssumption DEF TypeOK, IdleRun
  <1>1. ASSUME NEW x \in Workers, worker'[x].pc \in {"idle", "find"}, UNCHANGED attached,
               \A y \in Workers \ {x} : worker'[y] = worker[y]
        PROVE  Settled(w, d)'
    BY <1>1
  <1>2. ASSUME NEW x \in Workers, worker[x].pc \notin {"idle", "find"}, UNCHANGED attached,
               worker'[x].job = worker[x].job, \A y \in Workers \ {x} : worker'[y] = worker[y]
        PROVE  Settled(w, d)'
    BY <1>2
  <1>3. ASSUME NEW j \in Jobs, NEW e \in Docs, Publish(j, e) PROVE Settled(w, d)'
    BY <1>3 DEF Publish, store
  <1>4. ASSUME NEW x \in Workers, NEW j \in Jobs, TakeJob(x, j) PROVE Settled(w, d)'
    BY <1>0, <1>1, <1>4 DEF TakeJob, store
  <1>5. ASSUME NEW x \in Workers, FindWarrant(x) PROVE Settled(w, d)'
    <2>1. CASE attached[WarrantOf(x)] # None
      BY <1>0, <1>1, <1>5, <2>1 DEF FindWarrant, JobEnds, store
    <2>2. CASE attached[WarrantOf(x)] = None
      <3>1. WarrantOf(x) # w
        BY <1>0, <2>2
      <3>2. /\ UNCHANGED attached /\ worker'[x].job = worker[x].job
            /\ \A y \in Workers \ {x} : worker'[y] = worker[y]
        BY <1>0, <1>5, <2>2 DEF FindWarrant, MoveTo, store, Runs
      <3> QED BY <3>1, <3>2
    <2> QED BY <2>1, <2>2
  <1>6. ASSUME NEW x \in Workers, Download(x) PROVE Settled(w, d)'
    <2>1. CASE served[WarrantOf(x)] \in Pdfs
      <3>1. /\ worker[x].pc = "download" /\ UNCHANGED attached
            /\ worker'[x].job = worker[x].job
            /\ \A y \in Workers \ {x} : worker'[y] = worker[y]
        BY <1>0, <1>6, <2>1 DEF Download, store, Runs
      <3> QED BY <1>2, <3>1
    <2>2. CASE served[WarrantOf(x)] \notin Pdfs
      BY <1>0, <1>1, <1>6, <2>2 DEF Download, JobFails, store
    <2> QED BY <2>1, <2>2
  <1>7. ASSUME NEW x \in Workers, FindBySha(x) \/ Upload(x) \/ UpsertAsset(x)
        PROVE  Settled(w, d)'
    <2>1. /\ worker[x].pc \in {"dedup", "upload", "upsert"} /\ UNCHANGED attached
          /\ worker'[x].job = worker[x].job /\ \A y \in Workers \ {x} : worker'[y] = worker[y]
      BY <1>0, <1>7 DEF FindBySha, Upload, UpsertAsset, MoveTo, store, Runs
    <2> QED BY <1>2, <2>1
  <1>8. ASSUME NEW x \in Workers, Attach(x) PROVE Settled(w, d)'
    <2>1. /\ WarrantOf(x) # w /\ attached' = [attached EXCEPT ![WarrantOf(x)] = worker[x].doc]
          /\ worker' = [worker EXCEPT ![x] = IdleRun]
      BY <1>8 DEF Attach, JobEnds
    <2>2. attached'[w] = d
      BY <1>0, <2>1
    <2> QED BY <1>0, <2>1, <2>2
  <1>9. ASSUME NEW x \in Workers, RunFails(x) PROVE Settled(w, d)'
    BY <1>0, <1>1, <1>9 DEF RunFails, JobFails, store
  <1>10. CASE UNCHANGED vars
    BY <1>10 DEF vars, store
  <1> QED BY <1>3, <1>4, <1>5, <1>6, <1>7, <1>8, <1>9, <1>10 DEF Next, RunStep

(* Once a warrant has a document and no run is past its check, no later job *)
(* of the warrant replaces it (pdf-download.ts:35).                         *)
THEOREM FirstPdfIsKept == Spec => FirstPdfStays
  <1>1. ASSUME NEW w \in Warrants, NEW d \in Pdfs
        PROVE  Spec => [](Settled(w, d) => [](attached[w] = d))
    <2>1. TypeOK /\ Settled(w, d) /\ [Next]_vars => Settled(w, d)'
      BY SettledStays
    <2>2. Settled(w, d) => attached[w] = d
      BY DEF Settled
    <2> QED BY <2>1, <2>2, PdfTypeCorrect, PTL DEF Spec
  <1> QED BY <1>1 DEF FirstPdfStays, Settled

=============================================================================
