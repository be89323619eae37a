----------------------------- MODULE MCSmalloc -----------------------------
(* A heap of ten or thirteen 16-byte units, with 16-byte headers as on the *)
(* 32-bit targets: up to five blocks, gaps that fit and gaps that do not.  *)
EXTENDS SmallocProofs

MCRequests == {0, 1, 16, 40}
=============================================================================
