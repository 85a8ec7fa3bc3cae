----------------------------- MODULE MCUrlFlow ------------------------------
(***************************************************************************)
(* Programs for TLC to run through UrlFlow.                                *)
(***************************************************************************)
EXTENDS UrlFlow

Step(kind, after, uses) == [kind |-> kind, after |-> after, uses |-> uses]

\* The flow of the README: a nonce that is not awaited, a request promised
\* from it and another issued with it; then a request that needs them all.
NonceProgram ==
  <<Step("async", {}, None), Step("promised", {}, 1), Step("plain", {}, None),
    Step("plain", {1, 2, 3}, 1)>>

\* Every kind of step, before, between and after the redirects.
LongProgram ==
  <<Step("sync", {}, None), Step("async", {}, None), Step("promised", {}, 2),
    Step("plain", {}, None), Step("async", {1, 2, 3, 4}, None),
    Step("plain", 1..5, 5), Step("sync", 1..6, None), Step("promised", 1..6, 7)>>

\* Two branches that each await a producer of their own before they send: the
\* order of the two requests is the order in which the producers finish.
BranchingProgram ==
  <<Step("async", {}, None), Step("async", {}, None), Step("plain", {1}, 1),
    Step("plain", {2}, 2)>>

\* A nonce that is not awaited, a request made without it, and then a memoize
\* that needs the nonce: the request and the memoize race for their slots.
OvertakenProgram ==
  <<Step("async", {}, None), Step("plain", {}, None), Step("sync", {1}, None)>>

JustOvertaken    == {OvertakenProgram}
NonceAndBranches == {NonceProgram, BranchingProgram}
JustLong         == {LongProgram}
=============================================================================
