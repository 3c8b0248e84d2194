----------------------------- MODULE MCAsyncPool -----------------------------
(* AsyncPool with more callers than permits and jobs to spare.             *)
EXTENDS AsyncPool

CONSTANTS c1, c2, c3, j1, j2, j3, j4

MCCallers == {c1, c2, c3}

MCJobs == {j1, j2, j3, j4}
=============================================================================
