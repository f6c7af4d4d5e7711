\* Two workers, two jobs of one warrant and one of another, two PDFs that they
\* may share and a body that is none, one failure and one retry per job.
SPECIFICATION FairSpec
CONSTANTS
    w1 = w1
    w2 = w2
    Warrants = {w1, w2}
    Docs = {d1, d2, html}
    Pdfs = {d1, d2}
    None = None
    Workers = {x1, x2}
    Jobs <- MCJobs
    RetryLimit = 1
    MaxFaults = 1
INVARIANTS AttachedIsStored OrphansBounded
PROPERTIES FirstPdfStays JobsEndAttached
CHECK_DEADLOCK FALSE
