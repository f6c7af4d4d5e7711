------------------------------ MODULE ScanCity ------------------------------
(***************************************************************************)
(* The scanning handlers of apps/worker/src/handlers: scan-city,           *)
(* retroactive-scan and warrant-recheck walk the listing that the BNMP     *)
(* portal gives of one city, newest first and page by page, and bring each *)
(* row they meet into the warrants table, while the listing goes on        *)
(* changing.  A page is one call of BnmpClient.filterPage with its         *)
(* attempts and its one session refresh.  syncWarrant is one step here     *)
(* (see WarrantSync), and one job runs at a time.                          *)
(***************************************************************************)
EXTENDS Integers, Sequences, FiniteSets

CONSTANTS
    Rows,         \* bnmpIds the city's listing may hold
    Listing0,     \* the rows listed at first, in order
    Payloads,     \* what a row may hold
    Payload0,     \* what the rows hold at first
    None,         \* null
    PageSize,     \* BNMP_SCAN_PAGE_SIZE
    MaxPages,     \* BNMP_SCAN_MAX_PAGES
    RetroStart,   \* BNMP_RETROACTIVE_START_PAGE
    RetroEnd,     \* BNMP_RETROACTIVE_END_PAGE
    MaxAttempts,  \* BnmpClientOptions.maxRetries
    MaxChanges,   \* bound: payloads the portal changes
    MaxFaults     \* bound: failed requests and failed rows

ASSUME ScanAssumption ==
    /\ PageSize \in Nat \ {0} /\ MaxPages \in Nat \ {0} /\ MaxAttempts \in Nat \ {0}
    /\ RetroStart \in Nat /\ RetroEnd \in Nat /\ RetroStart < RetroEnd
    /\ MaxChanges \in Nat /\ MaxFaults \in Nat
    /\ Listing0 \in Seq(Rows)
    /\ \A i, k \in DOMAIN Listing0 : Listing0[i] = Listing0[k] => i = k
    /\ None \notin Payloads \cup Rows
    /\ Payload0 \in Payloads

VARIABLES
    listing,  \* the rows BNMP lists, newest first (external)
    payload,  \* what each of them holds there (external)
    changes,  \* how many payloads have changed
    db,       \* the warrants table: the payload each row holds, or None
    job,      \* the running job, or the last one
    trace,    \* history variable: what that job has done, visited rows included
              \* as long as the listing does not shift
    faults    \* failed requests and rows so far

portalVars == <<listing, payload, changes>>
scanVars == <<portalVars, db, job, trace, faults>>

Kinds == {"scan", "retro", "recheck"}
Found == [row: Rows, payload: Payloads]
Handlers == [kind: Kinds, pc: {"fetch", "rows", "done"}, target: Rows \cup {None},
             page: Nat, todo: Seq(Found), last: BOOLEAN,
             budget: 0..MaxPages * PageSize, streak: 0..2 * PageSize,
             attempt: 1..MaxAttempts, fresh: BOOLEAN]
Traces == [requests: Nat, visited: SUBSET Rows,
           shifted: BOOLEAN, caughtUp: BOOLEAN, threw: BOOLEAN]
NoTrace == [requests |-> 0, visited |-> {},
            shifted |-> FALSE, caughtUp |-> FALSE, threw |-> FALSE]

ScanTypeOK ==
    /\ listing \in Seq(Rows)
    /\ \A i, k \in DOMAIN listing : listing[i] = listing[k] => i = k
    /\ payload \in [Rows -> Payloads]
    /\ changes \in 0..MaxChanges
    /\ db \in [Rows -> Payloads \cup {None}]
    /\ job \in Handlers
    /\ trace \in Traces
    /\ faults \in 0..MaxFaults

Started(kind, t) ==
    [kind |-> kind, pc |-> "fetch", target |-> t,
     page |-> IF kind = "retro" THEN RetroStart ELSE 0,
     todo |-> <<>>, last |-> FALSE, budget |-> MaxPages * PageSize, streak |-> 0,
     attempt |-> 1, fresh |-> FALSE]

ScanInit ==
    /\ listing = Listing0
    /\ payload = [r \in Rows |-> Payload0]
    /\ changes = 0
    /\ db = [r \in Rows |-> None]
    /\ job = Started("scan", None)
    /\ trace = NoTrace
    /\ faults = 0

Fails == faults < MaxFaults /\ faults' = faults + 1

Done == job' = [job EXCEPT !.pc = "done", !.todo = <<>>]
Throws == Done /\ trace' = [trace EXCEPT !.threw = TRUE]

(* The scheduler has a job started (see Worker); a recheck is of a warrant  *)
(* that has a row.                                                          *)
Start(kind, t) ==
    /\ job.pc = "done"
    /\ IF kind = "recheck" THEN t \in Rows /\ db[t] # None ELSE t = None
    /\ job' = Started(kind, t)
    /\ trace' = NoTrace
    /\ UNCHANGED <<portalVars, db, faults>>

-----------------------------------------------------------------------------
(* filterPage answers: a page of the listing as it is now.                  *)
FetchPage ==
    LET from == job.page * PageSize
        end == from + PageSize
        rows == SubSeq(listing, from + 1, IF end < Len(listing) THEN end ELSE Len(listing))
    IN  /\ job.pc = "fetch"
        /\ job' = [job EXCEPT !.pc = "rows", !.last = (end >= Len(listing)),
                     !.todo = [i \in DOMAIN rows |->
                                 [row |-> rows[i], payload |-> payload[rows[i]]]],
                     !.attempt = 1, !.fresh = FALSE]
        /\ trace' = [trace EXCEPT !.requests = @ + 1]
        /\ UNCHANGED <<portalVars, db, faults>>

Retries(attempt, fresh) ==
    /\ job' = [job EXCEPT !.attempt = attempt, !.fresh = fresh]
    /\ trace' = [trace EXCEPT !.requests = @ + 1]

(* A 429, a 5xx or a network error is retried up to MaxAttempts.            *)
RequestFails ==
    /\ job.pc = "fetch" /\ Fails
    /\ IF job.attempt < MaxAttempts THEN Retries(job.attempt + 1, job.fresh) ELSE Throws
    /\ UNCHANGED <<portalVars, db>>

(* A 401 or 403 has the session refreshed and the call repeated, once.      *)
SessionExpires ==
    /\ job.pc = "fetch" /\ Fails
    /\ IF job.fresh THEN Throws ELSE Retries(1, TRUE)
    /\ UNCHANGED <<portalVars, db>>

(* A 400, 404 or 422, a body that does not parse, or a failed refresh.      *)
PageRejected ==
    /\ job.pc = "fetch" /\ Fails
    /\ Throws
    /\ UNCHANGED <<portalVars, db>>

-----------------------------------------------------------------------------
(* Definitions named ...Variant are what the one after them would be with   *)
(* a plausible bug: each shows that a property can fail.                    *)

(* The budget is counted but not looked at.                                 *)
HasRowVariant ==
    /\ job.pc = "rows" /\ job.todo # <<>> /\ job.kind # "recheck"

(* The loop over a page's rows; a scan's ends when its budget is spent.     *)
HasRow ==
    /\ job.pc = "rows" /\ job.todo # <<>> /\ job.kind # "recheck"
    /\ job.kind = "scan" => job.budget > 0

Take(streak) ==
    job' = [job EXCEPT !.todo = Tail(@), !.streak = streak,
              !.budget = IF job.kind = "scan" THEN @ - 1 ELSE @]

Visited(caughtUp) ==
    trace' = [trace EXCEPT !.caughtUp = caughtUp,
                !.visited = IF trace.shifted THEN {} ELSE @ \cup {Head(job.todo).row}]

(* A single page of unchanged rows counts as caught up.                     *)
RowUnchangedVariant ==
    LET streak == job.streak + 1
        caughtUp == job.kind = "scan" /\ streak >= PageSize
    IN  /\ HasRow
        /\ db[Head(job.todo).row] = Head(job.todo).payload
        /\ IF caughtUp THEN Done ELSE Take(IF job.kind = "scan" THEN streak ELSE 0)
        /\ Visited(caughtUp)
        /\ UNCHANGED <<portalVars, db, faults>>

(* syncWarrant returns 'unchanged': a scan that meets two pages' worth of   *)
(* such rows on end stops.                                                  *)
RowUnchanged ==
    LET streak == job.streak + 1
        caughtUp == job.kind = "scan" /\ streak >= 2 * PageSize
    IN  /\ HasRow
        /\ db[Head(job.todo).row] = Head(job.todo).payload
        /\ IF caughtUp THEN Done ELSE Take(IF job.kind = "scan" THEN streak ELSE 0)
        /\ Visited(caughtUp)
        /\ UNCHANGED <<portalVars, db, faults>>

(* syncWarrant returns 'created' or 'updated'.                              *)
RowChanged ==
    LET found == Head(job.todo)
    IN  /\ HasRow
        /\ db[found.row] # found.payload
        /\ db' = [db EXCEPT ![found.row] = found.payload]
        /\ Take(0)
        /\ Visited(FALSE)
        /\ UNCHANGED <<portalVars, faults>>

(* syncWarrant throws, before or after its upsert: the loop goes on.        *)
RowFails ==
    LET found == Head(job.todo)
    IN  /\ HasRow /\ Fails
        /\ db' \in {db, [db EXCEPT ![found.row] = found.payload]}
        /\ Take(job.streak)
        /\ Visited(FALSE)
        /\ UNCHANGED portalVars

(* The budget is per page.                                                  *)
BudgetSpentVariant ==
    /\ job.pc = "rows" /\ job.kind = "scan" /\ job.todo # <<>> /\ job.budget = 0
    /\ job' = [job EXCEPT !.budget = PageSize]
    /\ UNCHANGED <<portalVars, db, trace, faults>>

(* The generator has a row more than the budget.                            *)
BudgetSpent ==
    /\ job.pc = "rows" /\ job.kind = "scan" /\ job.todo # <<>> /\ job.budget = 0
    /\ Done
    /\ UNCHANGED <<portalVars, db, trace, faults>>

(* A recheck finds its warrant on the page: it is synced, and the job ends. *)
Match(i) ==
    /\ job.pc = "rows" /\ job.kind = "recheck"
    /\ job.todo[i].row = job.target
    /\ \/ db' = [db EXCEPT ![job.target] = job.todo[i].payload] /\ UNCHANGED faults
       \/ Fails /\ UNCHANGED db
    /\ Done
    /\ trace' = [trace EXCEPT !.visited = {job.target}, !.threw = (faults' # faults)]
    /\ UNCHANGED portalVars

PageDone ==
    /\ job.pc = "rows"
    /\ IF job.kind = "recheck" THEN \A i \in DOMAIN job.todo : job.todo[i].row # job.target
                               ELSE job.todo = <<>>

(* The page after the last is left to the next job.                         *)
NextPageVariant ==
    /\ PageDone
    /\ IF job.last \/ (job.kind # "scan" /\ job.page + 2 >= RetroEnd)
       THEN Done
       ELSE job' = [job EXCEPT !.pc = "fetch", !.page = @ + 1, !.todo = <<>>]
    /\ trace' = [trace EXCEPT !.requests = 0]
    /\ UNCHANGED <<portalVars, db, faults>>

(* The loop over the pages: to the last one, or to the end of the window.   *)
NextPage ==
    /\ PageDone
    /\ IF job.last \/ (job.kind # "scan" /\ job.page + 1 >= RetroEnd)
       THEN Done
       ELSE job' = [job EXCEPT !.pc = "fetch", !.page = @ + 1, !.todo = <<>>]
    /\ trace' = [trace EXCEPT !.requests = 0]
    /\ UNCHANGED <<portalVars, db, faults>>

Step ==
    \/ FetchPage
    \/ RowUnchanged \/ RowChanged \/ BudgetSpent
    \/ \E i \in DOMAIN job.todo : Match(i)
    \/ NextPage

Fault == RequestFails \/ SessionExpires \/ PageRejected \/ RowFails

-----------------------------------------------------------------------------
(* BNMP lists one more row, at the head or, backfilled, further down.       *)
PortalInserts(r, i) ==
    /\ \A k \in DOMAIN listing : listing[k] # r
    /\ listing' = SubSeq(listing, 1, i) \o <<r>> \o SubSeq(listing, i + 1, Len(listing))
    /\ trace' = [trace EXCEPT !.shifted = TRUE, !.visited = {}]
    /\ UNCHANGED <<payload, changes, db, job, faults>>

PortalChanges(r, p) ==
    /\ changes < MaxChanges
    /\ p # payload[r]
    /\ payload' = [payload EXCEPT ![r] = p]
    /\ changes' = changes + 1
    /\ UNCHANGED <<listing, db, job, trace, faults>>

ScanNext ==
    \/ \E k \in Kinds, t \in Rows \cup {None} : Start(k, t)
    \/ Step
    \/ Fault
    \/ \E r \in Rows, i \in 0..Len(listing) : PortalInserts(r, i)
    \/ \E r \in Rows, p \in Payloads : PortalChanges(r, p)

ScanSpec == ScanInit /\ [][ScanNext]_scanVars

(* A handler goes on (the event loop), and the schedules keep starting both *)
(* kinds of scan.                                                           *)
FairScan ==
    /\ ScanSpec
    /\ WF_scanVars(Step)
    /\ \A k \in {"scan", "retro"} : SF_scanVars(Start(k, None))

-----------------------------------------------------------------------------
(* Properties.                                                              *)

(* Whatever shifts under it, a scan fetches at most one page more than      *)
(* MaxPages, a retroactive scan or a recheck none past its window, and no   *)
(* page costs more than two sessions of MaxAttempts requests                *)
(* (scan-city.ts:49-52, client/http.ts:63, client/index.ts:86).             *)
WorkBounded ==
    /\ trace.requests <= 2 * MaxAttempts
    /\ job.page < CASE job.kind = "scan" -> MaxPages + 1
                    [] OTHER             -> RetroEnd

Positions(kind) ==
    CASE kind = "scan"  -> 1..MaxPages * PageSize
      [] kind = "retro" -> (RetroStart * PageSize + 1)..(RetroEnd * PageSize)
      [] OTHER          -> 1..RetroEnd * PageSize

Window == {listing[i] : i \in Positions(job.kind) \cap DOMAIN listing}

(* A job that ends without an error, under a listing that did not shift,    *)
(* has met every row of its window, unless a scan stopped as caught up; a   *)
(* recheck has met its warrant if the window lists it.                      *)
CleanRunCovers ==
    (job.pc = "done" /\ ~trace.threw /\ ~trace.shifted /\ ~trace.caughtUp) =>
        IF job.kind = "recheck" THEN job.target \in Window => job.target \in trace.visited
                                ELSE Window \subseteq trace.visited

(* The positions that no heuristic hides: a scan's first two pages, which   *)
(* it reads before it can count as caught up, and the retroactive window.   *)
Reach ==
    {i \in DOMAIN listing : \/ i \in Positions("retro")
                            \/ i \in Positions("scan") /\ i <= 2 * PageSize}

(* Once the portal rests, every row in reach ends with the payload BNMP     *)
(* lists, whatever rows and requests failed and wherever rows were inserted *)
(* (scan-city.ts:78, retroactive-scan.ts:10-16).  Rows between a scan's two *)
(* first pages and RetroStart are out of reach: see the README.             *)
RowsRefresh == <>[](\A i \in Reach : db[listing[i]] = payload[listing[i]])
=============================================================================
