---------------------------- MODULE MCAgentLoop ----------------------------
(* Small instances of AgentLoop.                                            *)
EXTENDS AgentLoop, TLC

CONSTANTS a1, a2, repo1, repo2

AlertPerRepo == a1 :> repo1 @@ a2 :> repo2

\* Caps that one or two calls reach, so that a burst overshoots them.
TokenCaps == "run" :> 4 @@ "repo" :> 3 @@ "alert" :> 2

\* In dollars the alert is the tightest, or has no token cap at all.
DollarCaps == "run" :> 5 @@ "repo" :> 4 @@ "alert" :> 1
=============================================================================
