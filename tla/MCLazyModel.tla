----------------------------- MODULE MCLazyModel -----------------------------
(* LazyModel on a few threads.                                             *)
EXTENDS LazyModel

CONSTANTS t1, t2, t3

MCThreads == {t1, t2, t3}
=============================================================================
