--------------------------- MODULE AlertLifecycle ---------------------------
(***************************************************************************)
(* What the triage pipeline promises for each alert of each run, with no   *)
(* database, no stages and no crashes: an alert goes through a one-way     *)
(* funnel.  It is ingested, a rule clears it or queues it, a cluster       *)
(* suppresses it or selects it for analysis, the tooling measures it or    *)
(* not, the agent judges it or leaves it waiting, and a judged alert is    *)
(* checked or rejected.  "cleared", "suppressed" and "checked" are final.  *)
(*                                                                         *)
(* Several alerts may move in one step (the dedup stage commits all of its *)
(* decisions in one transaction).                                          *)
(***************************************************************************)
CONSTANTS
  Alerts,   \* alert keys
  Runs      \* run identifiers

VARIABLE phase   \* phase[r][a]: how far alert a is in run r

Phases == {"new", "ingested", "cleared", "queued", "suppressed", "selected",
           "measured", "unmeasured", "waiting", "judged", "checked", "rejected"}

Final == {"cleared", "suppressed", "checked"}

\* The moves of one alert.  A measurement may be withdrawn (its repository
\* turned out shallow) until the agent has used it; an alert the agent could
\* not settle, or whose verdict a mechanical check rejected, may be tried again.
Move ==
  {<<"new", "ingested">>}
  \cup {"ingested"} \X {"cleared", "queued"}
  \cup {"queued"} \X {"suppressed", "selected"}
  \cup {"selected", "unmeasured"} \X {"measured", "unmeasured"}
  \cup {"measured"} \X {"unmeasured", "waiting", "judged"}
  \cup {<<"waiting", "judged">>}
  \cup {"judged"} \X {"checked", "rejected"}
  \cup {<<"rejected", "checked">>}

TypeOK == phase \in [Runs -> [Alerts -> Phases]]

Init == phase = [r \in Runs |-> [a \in Alerts |-> "new"]]

Next ==
  /\ phase' \in [Runs -> [Alerts -> Phases]]
  /\ \A r \in Runs, a \in Alerts :
       phase'[r][a] # phase[r][a] => <<phase[r][a], phase'[r][a]>> \in Move

Spec == Init /\ [][Next]_phase
=============================================================================
