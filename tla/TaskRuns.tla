-------------------------------- MODULE TaskRuns --------------------------------
(***************************************************************************)
(* The runs of one scheduler task in one generation: run_scheduled_task    *)
(* and drain_scheduled_runs of services/scheduler.rs.                      *)
(*                                                                         *)
(* Periodic loops call it without force and are turned away while a run is *)
(* in flight.  A forced call that meets a run in flight waits for one more *)
(* run, which the owner of the first run performs and which all calls that *)
(* arrive meanwhile share.  Each action is one section under the mutex of  *)
(* TaskRunState; what a task does is left to SchedulerTasks.               *)
(***************************************************************************)
EXTENDS Naturals, FiniteSets

CONSTANTS Callers,    \* periodic loop, run_now commands, the starter of the generation
          MaxToken,   \* u64::MAX of next_owner_token
          None        \* no owner

ASSUME OwnerAssumption == None \notin Callers
ASSUME TokenAssumption == MaxToken \in Nat

VARIABLES state,      \* TaskRunState, the waiters as sets of callers
          control,    \* GenerationControl: cancelled, active_owners
          call,       \* what each caller is doing and was told
          started     \* executions started so far; history

vars == <<state, control, call, started>>

Answers == {"ok", "failed", "cancelled", "skipped"}

TypeOK ==
  /\ state \in [closed : BOOLEAN, owner : Callers \cup {None}, next : 0..MaxToken, token : 0..MaxToken,
                pending : BOOLEAN, forced : BOOLEAN,
                pendingWaiters : SUBSET Callers, activeWaiters : SUBSET Callers]
  /\ control \in [cancelled : BOOLEAN, owners : Nat]
  /\ call \in [Callers -> [pc : {"idle", "running", "waiting", "told", "dropped"}, token : 0..MaxToken,
                           asked : Nat, joined : BOOLEAN, answer : Answers, answeredBy : Nat]]
  /\ started \in Nat

NoCall == [pc |-> "idle", token |-> 0, asked |-> 0, joined |-> FALSE, answer |-> "skipped", answeredBy |-> 0]

Init ==
  /\ state = [closed |-> FALSE, owner |-> None, next |-> 0, token |-> 0, pending |-> FALSE, forced |-> FALSE,
              pendingWaiters |-> {}, activeWaiters |-> {}]
  /\ control = [cancelled |-> FALSE, owners |-> 0]
  /\ call = [c \in Callers |-> NoCall]
  /\ started = 0

InFlight == state.owner # None

Waiters == state.pendingWaiters \cup state.activeWaiters

Told(c, answer, n) == [c EXCEPT !.pc = "told", !.answer = answer, !.answeredBy = n]

\* The callers of `heard' that still listen get the answer, and `self' returns it.
Deliver(self, heard, answer) ==
  call' = [c \in Callers |-> IF c = self \/ (c \in heard /\ call[c].pc = "waiting")
                             THEN Told(call[c], answer, started) ELSE call[c]]

---------------------------------------------------------------------------
\* run_scheduled_task, the four outcomes of the claim.

RefuseClosed(c) ==
  /\ call[c].pc = "idle"
  /\ state.closed \/ control.cancelled
  /\ call' = [call EXCEPT ![c] = Told(@, "cancelled", started)]
  /\ UNCHANGED <<state, control, started>>

SkipBusy(c) ==
  /\ call[c].pc = "idle" /\ ~state.closed /\ ~control.cancelled /\ InFlight
  /\ call' = [call EXCEPT ![c] = Told(@, "skipped", started)]
  /\ UNCHANGED <<state, control, started>>

AwaitRerun_JoinsAnyRun(c) ==
  /\ call[c].pc = "idle" /\ ~state.closed /\ ~control.cancelled /\ InFlight
  /\ state' = [state EXCEPT !.activeWaiters = @ \cup {c}]
  /\ call' = [call EXCEPT ![c].pc = "waiting", ![c].asked = started, ![c].joined = state.forced]
  /\ UNCHANGED <<control, started>>

AwaitRerun(c) ==
  /\ call[c].pc = "idle" /\ ~state.closed /\ ~control.cancelled /\ InFlight
  /\ state' = IF state.forced
              THEN [state EXCEPT !.activeWaiters = @ \cup {c}]
              ELSE [state EXCEPT !.pendingWaiters = @ \cup {c}, !.pending = TRUE]
  /\ call' = [call EXCEPT ![c].pc = "waiting", ![c].asked = started, ![c].joined = state.forced]
  /\ UNCHANGED <<control, started>>

BecomeOwner(c) ==
  /\ call[c].pc = "idle" /\ ~state.closed /\ ~control.cancelled /\ ~InFlight
  /\ IF state.next < MaxToken
     THEN /\ state' = [state EXCEPT !.next = @ + 1, !.token = state.next + 1, !.owner = c, !.forced = FALSE]
          /\ control' = [control EXCEPT !.owners = @ + 1]
          /\ call' = [call EXCEPT ![c].pc = "running", ![c].token = state.next + 1]
          /\ started' = started + 1
     ELSE /\ state' = [state EXCEPT !.closed = TRUE]
          /\ call' = [call EXCEPT ![c] = Told(@, "cancelled", started)]
          /\ UNCHANGED <<control, started>>

---------------------------------------------------------------------------
\* drain_scheduled_runs, after execute() returned or lost to the cancellation.

Owns(c) == state.owner = c /\ state.token = call[c].token

Released == [state EXCEPT !.owner = None, !.token = 0, !.pending = FALSE, !.forced = FALSE,
                          !.pendingWaiters = {}, !.activeWaiters = {}]

\* The run was overtaken by a cancellation: nobody gets its result.
SettleCancelled(c) ==
  /\ call[c].pc = "running" /\ Owns(c)
  /\ state.closed \/ control.cancelled
  /\ state' = Released
  /\ control' = [control EXCEPT !.owners = @ - 1]
  /\ Deliver(c, Waiters, "cancelled")
  /\ UNCHANGED started

\* Somebody asked for a fresh run: the owner runs once more, for all of them.
Rerun(c) ==
  /\ call[c].pc = "running" /\ Owns(c) /\ ~state.closed /\ ~control.cancelled
  /\ ~state.forced /\ state.pending
  /\ state' = [state EXCEPT !.pending = FALSE, !.forced = TRUE, !.pendingWaiters = {}, !.activeWaiters = Waiters]
  /\ started' = started + 1
  /\ UNCHANGED <<control, call>>

SettleDone(c, result) ==
  /\ call[c].pc = "running" /\ Owns(c) /\ ~state.closed /\ ~control.cancelled
  /\ state.forced \/ ~state.pending
  /\ state' = [state EXCEPT !.owner = None, !.token = 0, !.forced = FALSE, !.activeWaiters = {}]
  /\ control' = [control EXCEPT !.owners = @ - 1]
  /\ Deliver(c, state.activeWaiters, result)
  /\ UNCHANGED started

\* The owner's future is dropped in the middle of a run (TaskRunOwnerGuard).
DropOwner(c) ==
  /\ call[c].pc = "running"
  /\ IF Owns(c)
     THEN /\ state' = Released
          /\ control' = [control EXCEPT !.owners = @ - 1]
          /\ call' = [w \in Callers |-> IF w = c THEN [call[c] EXCEPT !.pc = "dropped"]
                                        ELSE IF w \in Waiters /\ call[w].pc = "waiting"
                                        THEN Told(call[w], "cancelled", started) ELSE call[w]]
     ELSE /\ call' = [call EXCEPT ![c].pc = "dropped"]
          /\ UNCHANGED <<state, control>>
  /\ UNCHANGED started

\* A waiting future is dropped; its sender stays in the list.
DropWaiter(c) ==
  /\ call[c].pc = "waiting"
  /\ call' = [call EXCEPT ![c].pc = "dropped"]
  /\ UNCHANGED <<state, control, started>>

\* A caller that was told comes back with its next call.
Return(c) ==
  /\ call[c].pc = "told"
  /\ call' = [call EXCEPT ![c] = NoCall]
  /\ UNCHANGED <<state, control, started>>

---------------------------------------------------------------------------
\* The end of the generation: GenerationControl::cancel, then
\* cancel_task_run_state for each task, in launch_scheduler_cleanup.

Cancel ==
  /\ ~control.cancelled
  /\ control' = [control EXCEPT !.cancelled = TRUE]
  /\ UNCHANGED <<state, call, started>>

CancelRunState ==
  /\ control.cancelled /\ ~state.closed
  /\ state' = [state EXCEPT !.closed = TRUE, !.pending = FALSE, !.forced = FALSE,
                            !.pendingWaiters = {}, !.activeWaiters = {}]
  /\ call' = [c \in Callers |-> IF c \in Waiters /\ call[c].pc = "waiting"
                                THEN Told(call[c], "cancelled", started) ELSE call[c]]
  /\ UNCHANGED <<control, started>>

Settle(c) ==
  \/ SettleCancelled(c)
  \/ Rerun(c)
  \/ \E result \in {"ok", "failed"} : SettleDone(c, result)

Next ==
  \/ \E c \in Callers :
       \/ RefuseClosed(c) \/ SkipBusy(c) \/ AwaitRerun(c) \/ BecomeOwner(c)
       \/ Settle(c) \/ DropOwner(c) \/ DropWaiter(c) \/ Return(c)
  \/ Cancel \/ CancelRunState

Spec == Init /\ [][Next]_vars

---------------------------------------------------------------------------
(***************************************************************************)
(* At most one execution of the task runs in a generation, and the drain   *)
(* counter of the generation counts exactly that one: wait_drained cannot  *)
(* return while an execution is still under way.                           *)
(***************************************************************************)
OneRunCounted ==
  /\ \A c \in Callers : call[c].pc = "running" <=> (state.owner = c)
  /\ control.owners = IF InFlight THEN 1 ELSE 0

(***************************************************************************)
(* Nobody waits for nobody: a waiting caller has its sender in a list that *)
(* an owner, still in flight, is going to answer.                          *)
(***************************************************************************)
WaitersServed ==
  \A c \in Callers : call[c].pc = "waiting" =>
    InFlight /\ (c \in state.activeWaiters \/ (c \in state.pendingWaiters /\ state.pending))

(***************************************************************************)
(* A forced call that met an ordinary run is never answered by that run,   *)
(* whose data may be older than the request: the result it gets is one of  *)
(* an execution started later, or a cancellation.                          *)
(***************************************************************************)
ForceIsFresh ==
  \A c \in Callers :
    (call[c].pc = "told" /\ call[c].answer \in {"ok", "failed"} /\ call[c].token = 0 /\ ~call[c].joined)
      => call[c].answeredBy > call[c].asked

(***************************************************************************)
(* One owner executes at most twice, however many forced calls arrive:     *)
(* those that come during the second run join it.                          *)
(***************************************************************************)
AtMostOneRerun == started <= 2 * state.next

(***************************************************************************)
(* One execution of a task at a time, counted by the generation's drain;   *)
(* every waiting call is in the list of an owner in flight; a forced call  *)
(* never gets the result of a run older than itself; an owner reruns at    *)
(* most once (run_scheduled_task, drain_scheduled_runs).                   *)
(***************************************************************************)
RunsSafe == TypeOK /\ OneRunCounted /\ WaitersServed /\ ForceIsFresh /\ AtMostOneRerun

=============================================================================
