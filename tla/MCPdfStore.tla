----------------------------- MODULE MCPdfStore -----------------------------
(* PdfStore for TLC: two jobs of one warrant and one of another.            *)
EXTENDS PdfStore
CONSTANTS w1, w2

MCJobs == {<<w1, 1>>, <<w1, 2>>, <<w2, 1>>}
=============================================================================
