----------------------------- MODULE MCLlmStack -----------------------------
(* A router over two backends and a single client, each behind a cache on  *)
(* the same store.  The router prefers the backend that was added last.    *)
EXTENDS LlmStack, TLC

CONSTANTS c1, c2, routed, single, b1, b2, r1, r2

MCCalls == {c1, c2}
MCStacks == {routed, single}
MCChain == (routed :> <<b2, b1>>) @@ (single :> <<b1>>)
MCRank == (b1 :> 1) @@ (b2 :> 2)
MCRequests == {r1, r2}

(* The requests are interchangeable, so the first call may be for r1.      *)
MCInit == Init /\ call[c1].request = r1

MCSpec == MCInit /\ [][Next]_vars /\ Fairness
=============================================================================
