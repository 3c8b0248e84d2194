---------------------------- MODULE MCLazyProvider ----------------------------
(* LazyProvider on two threads and three texts, one more than its cache    *)
(* holds.  The requests include repeats, hits after misses and misses      *)
(* after hits.                                                             *)
EXTENDS LazyProvider

CONSTANTS t1, t2, a, b, c

MCThreads == {t1, t2}

MCTexts == {a, b, c}

MCRequests == {<<a>>, <<b>>, <<a, c>>, <<c, b, c>>}
=============================================================================
