------------------------------ MODULE MCStrategy ------------------------------
(***************************************************************************)
(* Automatic trading and the guests of the plugin runtime, checked side by  *)
(* side: `part' picks what moves and how far; the rest stays in its initial *)
(* state.                                                                   *)
(***************************************************************************)
EXTENDS StrategyRuns, PluginGuests

VARIABLE part

suiteVars == <<part, vars, guestsVars>>

TwoAccounts == <<1, 2>>

\* Each run places at most one order, with one catalog.
OneOrder == epoch' = 0 /\ \A r \in Runs : doc'[r].seq <= 1 /\ live'[r].act.kind \in {"none", "place"}
OnlyFirst == session' = 1 /\ start'.run # 2

\* Two actions of any kind, a change of the catalog, one failed save or stop.
Actions1 == OnlyFirst /\ admission' = 0
\* Two controls of a run that places an order, one failed save or stop.
Controls1 == OneOrder /\ OnlyFirst /\ control'.runs \in {{}, {1}, Runs}
\* Two runs, over the sessions of two accounts.
Accounts2 == OneOrder /\ admission' = 0 /\ faults' = 0

\* One workflow, its grant, its proposal, a lifecycle operation and a second session.
Workflow1 == guest'["b"] = Fresh
\* Two computations and a lifecycle operation.
Compute2 == accountSession' = 1 /\ serial' = 0

SuiteInit ==
  /\ part \in {"actions", "controls", "two", "workflow", "compute"}
  /\ Init /\ GuestsInit

SuiteNext ==
  \/ /\ Next
     /\ \/ part = "actions" /\ Actions1
        \/ part = "controls" /\ Controls1
        \/ part = "two" /\ Accounts2
     /\ UNCHANGED <<part, guestsVars>>
  \/ /\ GuestsNext
     /\ \/ part = "workflow" /\ Workflow1
        \/ part = "compute" /\ Compute2
     /\ UNCHANGED <<part, vars>>

SuiteSpec == SuiteInit /\ [][SuiteNext]_suiteVars
=============================================================================
