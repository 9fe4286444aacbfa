------------------------------- MODULE MCScheduler -------------------------------
(***************************************************************************)
(* The three modules of the scheduler, checked side by side: `part' picks  *)
(* the one that moves, the others stay in their initial state.             *)
(***************************************************************************)
EXTENDS TaskRuns, SchedulerLifecycle, SchedulerTasks

CONSTANTS c1, c2, t1

VARIABLES part,
          life1, gen1, workers1, calls1, tokens1, faults1   \* a second SchedulerLifecycle

recoveryVars == <<life1, gen1, workers1, calls1, tokens1, faults1>>
suiteVars    == <<part, vars, lifeVars, recoveryVars, tasksVars>>

\* The lifecycle with one required loop, for liveness.
R == INSTANCE SchedulerLifecycle WITH Tasks <- {t1}, Starters <- {c1}, Stoppers <- {c2},
       MaxGen <- 2, MaxTokens <- 1, MaxFaults <- 1, life <- life1, gen <- gen1,
       workers <- workers1, calls <- calls1, tokens <- tokens1, faults <- faults1

SuiteInit ==
  /\ part \in {"runs", "life", "recovery", "tasks"}
  /\ Init /\ LifeInit /\ R!LifeInit /\ TasksInit

RunsMove(A)  == part = "runs" /\ A /\ UNCHANGED <<part, lifeVars, recoveryVars, tasksVars>>
LifeMoves(A) == part = "life" /\ A /\ UNCHANGED <<part, vars, recoveryVars, tasksVars>>
Recovers(A)  == part = "recovery" /\ A /\ UNCHANGED <<part, vars, lifeVars, tasksVars>>
TasksMove(A) == part = "tasks" /\ A /\ UNCHANGED <<part, vars, lifeVars, recoveryVars>>

SuiteNext == RunsMove(Next) \/ LifeMoves(LifeNext) \/ Recovers(R!LifeNext) \/ TasksMove(TasksNext)

\* The fairness of the lifecycle (LifeFairSpec of SchedulerLifecycle).
SuiteSpec ==
  /\ SuiteInit /\ [][SuiteNext]_suiteVars
  /\ WF_suiteVars(Recovers(R!Work))
  /\ WF_suiteVars(Recovers(\E g \in R!Gens : R!ActivityEnds(g)))
  /\ WF_suiteVars(Recovers(\E c \in R!Requesters : R!Serve(c)))

---------------------------------------------------------------------------
\* A wanted scheduler comes up, whatever dies on the way (launch_recovery_handler).
WantedComesUp == R!DesiredComesUp
=============================================================================
