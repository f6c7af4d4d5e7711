------------------------------ MODULE PdfStore ------------------------------
(***************************************************************************)
(* The pdf-download handler of apps/worker/src/handlers/pdf-download.ts:   *)
(* concurrent workers bring the document the BNMP portal serves for a      *)
(* warrant into the storage bucket, the pdf_assets table and the warrant's *)
(* row, each in a statement of its own, and may fail between any two.  One *)
(* tenant, whose id prefixes every path and key.  A document stands for    *)
(* its SHA-256: an object's path and a row's unique key are both made of   *)
(* it.  Nothing in the repository deletes an object, a row or a warrant,   *)
(* so the branches for a missing warrant are out.                          *)
(***************************************************************************)
EXTENDS Naturals, FiniteSets

CONSTANTS
    Warrants,
    Docs,        \* bodies the portal may serve, by SHA-256
    Pdfs,        \* the bodies that start with the PDF magic bytes
    None,        \* null
    Workers,     \* handler runs that may be active at a time
    Jobs,        \* pdf-download jobs: a warrant and a number
    RetryLimit,  \* pg-boss retryLimit: a job runs RetryLimit + 1 times
    MaxFaults    \* bound: rejected awaits and process deaths

ASSUME PdfAssumption ==
    /\ Pdfs \subseteq Docs /\ None \notin Docs
    /\ Jobs \subseteq Warrants \X Nat
    /\ RetryLimit \in Nat /\ MaxFaults \in Nat
    /\ IsFiniteSet(Workers) /\ IsFiniteSet(Docs)

VARIABLES
    served,    \* what BNMP serves for each warrant now (external)
    objects,   \* the storage bucket
    assets,    \* the pdf_assets table, unique on (tenantId, sha256)
    attached,  \* warrants.pdf_asset_id, as the asset's document, or None
    jobs,      \* pg-boss: the pdf-download jobs
    worker,    \* the state of each handler run
    faults     \* rejected awaits and deaths so far

store == <<objects, assets, attached>>
vars == <<served, store, jobs, worker, faults>>

JobRows == [state: {"unpublished", "queued", "active", "completed", "failed"},
            retries: 0..RetryLimit]
Steps == {"idle", "find", "download", "dedup", "upload", "upsert", "attach"}
Runs == [pc: Steps, job: Jobs \cup {None}, doc: Docs \cup {None}]
IdleRun == [pc |-> "idle", job |-> None, doc |-> None]

TypeOK ==
    /\ served \in [Warrants -> Docs \cup {None}]
    /\ objects \subseteq Docs
    /\ assets \subseteq Docs
    /\ attached \in [Warrants -> Docs \cup {None}]
    /\ jobs \in [Jobs -> JobRows]
    /\ worker \in [Workers -> Runs]
    /\ \A x \in Workers : worker[x].pc # "idle" => worker[x].job \in Jobs
    /\ \A x \in Workers : worker[x].pc \in {"dedup", "upload", "upsert", "attach"}
                            => worker[x].doc \in Pdfs
    /\ faults \in 0..MaxFaults

Init ==
    /\ served = [w \in Warrants |-> None]
    /\ objects = {}
    /\ assets = {}
    /\ attached = [w \in Warrants |-> None]
    /\ jobs = [j \in Jobs |-> [state |-> "unpublished", retries |-> 0]]
    /\ worker = [x \in Workers |-> IdleRun]
    /\ faults = 0

WarrantOf(x) == worker[x].job[1]
MoveTo(x, pc) == worker' = [worker EXCEPT ![x].pc = pc]

(* The handler returns, and pg-boss completes its job.                      *)
JobEnds(x) ==
    /\ jobs' = [jobs EXCEPT ![worker[x].job].state = "completed"]
    /\ worker' = [worker EXCEPT ![x] = IdleRun]

(* Definitions named ...Variant are what the one after them would be with   *)
(* a plausible bug: each shows that a property can fail.                    *)

(* A job that failed is given up without a trace.                           *)
JobFailsVariant(x) ==
    /\ worker' = [worker EXCEPT ![x] = IdleRun]
    /\ jobs' = [jobs EXCEPT ![worker[x].job].state = "completed"]

(* The handler throws, or its process dies and pg-boss expires the job: the *)
(* job is queued again until its retries are used up.                       *)
JobFails(x) ==
    LET j == worker[x].job
    IN  /\ worker' = [worker EXCEPT ![x] = IdleRun]
        /\ jobs' = [jobs EXCEPT ![j] =
                      IF @.retries < RetryLimit
                      THEN [state |-> "queued", retries |-> @.retries + 1]
                      ELSE [@ EXCEPT !.state = "failed"]]

-----------------------------------------------------------------------------
(* The portal lists a new or changed payload of a warrant, whose document   *)
(* is d from now on (external), and syncWarrant publishes a job for it.     *)
Publish(j, d) ==
    /\ jobs[j].state = "unpublished"
    /\ jobs' = [jobs EXCEPT ![j].state = "queued"]
    /\ served' = [served EXCEPT ![j[1]] = d]
    /\ UNCHANGED <<store, worker, faults>>

TakeJob(x, j) ==
    /\ worker[x].pc = "idle"
    /\ jobs[j].state = "queued"
    /\ jobs' = [jobs EXCEPT ![j].state = "active"]
    /\ worker' = [worker EXCEPT ![x] = [pc |-> "find", job |-> j, doc |-> None]]
    /\ UNCHANGED <<served, store, faults>>

(* The already-attached check is missing.                                   *)
FindWarrantVariant(x) ==
    /\ worker[x].pc = "find"
    /\ MoveTo(x, "download")
    /\ UNCHANGED jobs
    /\ UNCHANGED <<served, store, faults>>

(* warrant.findById: a warrant with a pdfAssetId is left as it is.          *)
FindWarrant(x) ==
    /\ worker[x].pc = "find"
    /\ IF attached[WarrantOf(x)] # None
       THEN JobEnds(x)
       ELSE MoveTo(x, "download") /\ UNCHANGED jobs
    /\ UNCHANGED <<served, store, faults>>

(* downloadPdf: an empty body, or one without the PDF magic bytes, throws   *)
(* PdfDownloadFailed; the others are hashed.                                *)
Download(x) ==
    LET d == served[WarrantOf(x)]
    IN  /\ worker[x].pc = "download"
        /\ IF d \in Pdfs
           THEN /\ worker' = [worker EXCEPT ![x].pc = "dedup", ![x].doc = d]
                /\ UNCHANGED jobs
           ELSE JobFails(x)
        /\ UNCHANGED <<served, store, faults>>

(* The row is created before the bytes are stored.                          *)
FindByShaVariant(x) ==
    /\ worker[x].pc = "dedup"
    /\ MoveTo(x, IF worker[x].doc \in assets THEN "attach" ELSE "upload")
    /\ assets' = assets \cup {worker[x].doc}
    /\ UNCHANGED <<served, objects, attached, jobs, faults>>

(* pdfAsset.findBySha: a hit goes straight to the attachment.               *)
FindBySha(x) ==
    /\ worker[x].pc = "dedup"
    /\ MoveTo(x, IF worker[x].doc \in assets THEN "attach" ELSE "upload")
    /\ UNCHANGED <<served, store, jobs, faults>>

(* storage.upload with upsert: the same path may be written twice.          *)
Upload(x) ==
    /\ worker[x].pc = "upload"
    /\ objects' = objects \cup {worker[x].doc}
    /\ MoveTo(x, "upsert")
    /\ UNCHANGED <<served, assets, attached, jobs, faults>>

(* The row of the document the warrant had is replaced.                     *)
UpsertAssetVariant(x) ==
    /\ worker[x].pc = "upsert"
    /\ assets' = (assets \ {attached[WarrantOf(x)]}) \cup {worker[x].doc}
    /\ MoveTo(x, "attach")
    /\ UNCHANGED <<served, objects, attached, jobs, faults>>

(* pdfAsset.upsert on (tenantId, sha256).                                   *)
UpsertAsset(x) ==
    /\ worker[x].pc = "upsert"
    /\ assets' = assets \cup {worker[x].doc}
    /\ MoveTo(x, "attach")
    /\ UNCHANGED <<served, objects, attached, jobs, faults>>

(* warrant.attachPdfAsset, whatever the row holds by now; the job ends.     *)
Attach(x) ==
    /\ worker[x].pc = "attach"
    /\ attached' = [attached EXCEPT ![WarrantOf(x)] = worker[x].doc]
    /\ JobEnds(x)
    /\ UNCHANGED <<served, objects, assets, faults>>

(* Any await rejects (an HTTP error, a timeout, StorageWriteFailed, the     *)
(* database) or the process dies.                                           *)
RunFails(x) ==
    /\ worker[x].pc # "idle"
    /\ faults < MaxFaults
    /\ faults' = faults + 1
    /\ JobFails(x)
    /\ UNCHANGED <<served, store>>

RunStep(x) ==
    \/ FindWarrant(x)
    \/ Download(x)
    \/ FindBySha(x)
    \/ Upload(x)
    \/ UpsertAsset(x)
    \/ Attach(x)

Next ==
    \/ \E j \in Jobs, d \in Docs : Publish(j, d)
    \/ \E x \in Workers, j \in Jobs : TakeJob(x, j)
    \/ \E x \in Workers : RunStep(x) \/ RunFails(x)

Spec == Init /\ [][Next]_vars

(* A handler run goes on (the event loop), and pg-boss hands out its jobs.  *)
FairSpec ==
    /\ Spec
    /\ \A x \in Workers : WF_vars(RunStep(x))
    /\ \A j \in Jobs : WF_vars(\E x \in Workers : TakeJob(x, j))

-----------------------------------------------------------------------------
(* Properties.                                                              *)

(* An attached document has its row, and a row its object, which is a PDF,  *)
(* so the alert handler that follows pdfAssetId to the bucket finds bytes:  *)
(* whatever failed between the upload, the row and the attachment, and      *)
(* whoever stored the same document meanwhile (pdf-download.ts:44-62).      *)
AttachedIsStored ==
    /\ \A w \in Warrants : attached[w] # None => attached[w] \in assets
    /\ assets \subseteq objects
    /\ objects \subseteq Pdfs

(* The documents whose object is stored and whose row is about to be.       *)
Storing == {worker[x].doc : x \in {y \in Workers : worker[y].pc = "upsert"}}

(* Objects without a row are left only by runs that failed between upload   *)
(* and upsert, at most one each: storing one document twice at once, or a   *)
(* retry that finds the object in place, orphans nothing.                   *)
OrphansBounded == Cardinality(objects \ (assets \cup Storing)) <= faults

(* Once a warrant has a document and no run of its jobs is past the check   *)
(* of pdfAssetId, the document stays for ever, a later job of a changed     *)
(* warrant included (pdf-download.ts:35).                                   *)
FirstPdfStays ==
    \A w \in Warrants, d \in Pdfs :
        [](( /\ attached[w] = d
             /\ \A x \in Workers : worker[x].pc \notin {"idle", "find"} => WarrantOf(x) # w )
           => [](attached[w] = d))

(* A queued job leaves its warrant with a document or has failed for good:  *)
(* no retry or duplicate loses it on the way.                               *)
JobsEndAttached ==
    \A j \in Jobs :
        (jobs[j].state = "queued")
            ~> (jobs[j].state = "failed"
                \/ (jobs[j].state = "completed" /\ attached[j[1]] # None))
=============================================================================
