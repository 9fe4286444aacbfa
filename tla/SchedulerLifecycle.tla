--------------------------- MODULE SchedulerLifecycle ---------------------------
(***************************************************************************)
(* Start, stop, cleanup and recovery of the scheduler's generations:       *)
(* SchedulerLifecycle, its guards and its supervisors in                   *)
(* services/scheduler.rs.                                                  *)
(*                                                                         *)
(* A generation owns one required loop per periodic task, a supervisor per *)
(* loop, the future that starts it, and the activities claimed from it.    *)
(* Every change of `life' is one section under the lifecycle mutex; what   *)
(* happens between two sections (cancelling, aborting, joining, waiting)   *)
(* is interleaved.  A generation that fails while a run is desired is      *)
(* restarted by a recovery worker.                                         *)
(***************************************************************************)
EXTENDS Naturals, FiniteSets

CONSTANTS Tasks,      \* periodic_task_ids
          Starters,   \* commands calling start
          Stoppers,   \* commands calling stop and shutdown
          MaxGen,     \* u64::MAX of next_generation
          MaxTokens,  \* bound: explicit starts that install a desired token
          MaxFaults,  \* bound: loops that exit by themselves, workers that die
          NoTicket

ASSUME LifeAssumption == MaxGen \in Nat /\ MaxTokens \in Nat /\ MaxFaults \in Nat

Requesters == Starters \cup Stoppers
Gens == 1..MaxGen
Tickets == [failed : Gens, attempt : Nat, token : 1..MaxTokens]

ASSUME TicketAssumption == NoTicket \notin Tickets

VARIABLES life,       \* SchedulerLifecycle
          gen,        \* what exists of each generation
          workers,    \* recovery workers: ticket -> step
          calls,      \* start and stop calls under way
          tokens,     \* DesiredRunTokens made so far
          faults      \* faults that happened

lifeVars == <<life, gen, workers, calls, tokens, faults>>

Phases == {"stopped", "starting", "running", "stopping"}

Fresh == [cancelled |-> FALSE, starter |-> FALSE, drive |-> "none",
          loop |-> [t \in Tasks |-> "none"], sup |-> [t \in Tasks |-> "none"],
          said |-> [t \in Tasks |-> "none"], committed |-> {}, outcome |-> "none",
          installed |-> FALSE, busy |-> FALSE, clean |-> "none", ticket |-> NoTicket]

LifeTypeOK ==
  /\ life \in [phase : Phases, gen : 0..MaxGen, next : 0..MaxGen, exhausted : BOOLEAN,
               desired : 0..MaxTokens, attempt : Nat, pending : Tickets \cup {NoTicket},
               worker : Tickets \cup {NoTicket}, terminal : BOOLEAN,
               loops : [Tasks -> {"none", "booting", "ready", "approved"}]]
  /\ gen \in [Gens -> [cancelled : BOOLEAN, starter : BOOLEAN,
                       drive : {"none", "prepare", "register", "install", "await", "finish", "commit",
                                "result", "unwind", "done"},
                       loop : [Tasks -> {"none", "alive", "ended"}],
                       sup : [Tasks -> {"none", "boot", "ready", "approved", "ended"}],
                       said : [Tasks -> {"none", "yes", "no"}], committed : SUBSET Tasks,
                       outcome : {"none", "yes", "no"}, installed : BOOLEAN, busy : BOOLEAN,
                       clean : {"none", "begun", "stored", "working", "complete"},
                       ticket : Tickets \cup {NoTicket}]]
  /\ \A w \in DOMAIN workers : w \in Tickets /\ workers[w] \in [at : {"wait", "backoff", "drive"}, gen : 0..MaxGen]
  /\ calls \in [Requesters -> [pc : {"idle", "await", "drive", "stop"}, token : 0..MaxTokens, gen : 0..MaxGen,
                           worker : Tickets \cup {NoTicket}]]
  /\ tokens \in 0..MaxTokens /\ faults \in 0..MaxFaults

Waiting == [at |-> "wait", gen |-> 0]

NoRequest == [pc |-> "idle", token |-> 0, gen |-> 0, worker |-> NoTicket]

LifeInit ==
  /\ life = [phase |-> "stopped", gen |-> 0, next |-> 0, exhausted |-> FALSE, desired |-> 0, attempt |-> 0,
             pending |-> NoTicket, worker |-> NoTicket, terminal |-> FALSE, loops |-> [t \in Tasks |-> "none"]]
  /\ gen = [g \in Gens |-> Fresh]
  /\ workers = [w \in {} |-> Waiting]
  /\ calls = [c \in Requesters |-> NoRequest]
  /\ tokens = 0 /\ faults = 0

Starting(g) == life.phase = "starting" /\ life.gen = g

\* Generation 0 stands for none: there is nothing to wait for.
Complete(g) == g \in Gens => gen[g].clean = "complete"

---------------------------------------------------------------------------
\* Sections on the lifecycle record.

\* fail_generation_exhaustion
Exhausted(l) == [l EXCEPT !.exhausted = TRUE, !.desired = 0, !.pending = NoTicket, !.attempt = 0]

\* begin_start, called in phase stopped.
BeginStart(l) ==
  IF l.next = MaxGen THEN Exhausted(l)
  ELSE [l EXCEPT !.phase = "starting", !.gen = l.next + 1, !.next = l.next + 1,
                 !.loops = [t \in Tasks |-> "none"]]

\* disable_desired_running
DisableDesired(l) == [l EXCEPT !.desired = 0, !.pending = NoTicket, !.attempt = 0]

\* reserve_recovery: the ticket of a generation that failed while a run is desired.
ReservedTicket(l, failed) ==
  IF l.terminal \/ l.exhausted \/ l.desired = 0
     \/ (l.pending # NoTicket /\ l.pending.failed = failed /\ l.pending.token = l.desired)
  THEN NoTicket
  ELSE [failed |-> failed, attempt |-> l.attempt + 1, token |-> l.desired]

Reserve(l, ticket) ==
  IF ticket = NoTicket THEN l ELSE [l EXCEPT !.attempt = ticket.attempt, !.pending = ticket]

BeginCleanup_NoRecovery(l, g, explicit) ==
  IF l.gen # g \/ l.phase \notin {"starting", "running"} THEN [life |-> l, begun |-> FALSE, ticket |-> NoTicket]
  ELSE [life |-> [l EXCEPT !.phase = "stopping"], begun |-> TRUE, ticket |-> NoTicket]

\* begin_cleanup_with_cause: a generation that is starting or running is torn down
\* once; a later request of the same generation only waits.
BeginCleanup(l, g, explicit) ==
  IF l.gen # g \/ l.phase \notin {"starting", "running"} THEN [life |-> l, begun |-> FALSE, ticket |-> NoTicket]
  ELSE LET ticket == IF explicit THEN NoTicket ELSE ReservedTicket(l, g)
       IN  [life |-> [Reserve(l, ticket) EXCEPT !.phase = "stopping"], begun |-> TRUE, ticket |-> ticket]

\* What begin_cleanup leaves of the generation, on top of `r'.
Begun(r, request) ==
  IF request.begun THEN [r EXCEPT !.clean = "begun", !.ticket = request.ticket] ELSE r

\* required_loop_failed, unless the generation was cancelled; `r' is the
\* generation after the step that found out.
FailLoop(g, r) ==
  LET request == IF gen[g].cancelled THEN [life |-> life, begun |-> FALSE, ticket |-> NoTicket]
                 ELSE BeginCleanup(life, g, FALSE)
  IN  life' = request.life /\ gen' = [gen EXCEPT ![g] = Begun(r, request)]

\* mark_start_committed
StartCommitted(l, g) ==
  IF l.phase = "running" /\ l.gen = g THEN [l EXCEPT !.pending = NoTicket, !.attempt = 0] ELSE l

\* A generation whose start was claimed: its driver is an owner of it.
Claimed(l) ==
  IF l.phase = "starting" THEN [gen EXCEPT ![l.gen].starter = TRUE, ![l.gen].drive = "prepare"] ELSE gen

\* launch_recovery_handler: the worker starts only for the ticket still pending.
Launch(ws, l, ticket) ==
  IF ticket # NoTicket /\ l.pending = ticket /\ l.desired = ticket.token
  THEN [w \in DOMAIN ws \cup {ticket} |-> IF w = ticket THEN Waiting ELSE ws[w]]
  ELSE ws

Latest(l, ticket) ==
  IF ticket # NoTicket /\ l.pending = ticket /\ l.desired = ticket.token THEN [l EXCEPT !.worker = ticket] ELSE l

---------------------------------------------------------------------------
\* Starting.

\* start_decision_for, for the explicit start of `c' that owns `token'.
Decide(c, l, token) ==
  LET mine == ~l.terminal /\ ~l.exhausted /\ l.desired = token IN
  \/ /\ ~mine \/ l.phase \in {"starting", "running"}
     /\ life' = l /\ calls' = [calls EXCEPT ![c] = NoRequest] /\ UNCHANGED gen
  \/ /\ mine /\ l.phase = "stopping"
     /\ life' = l /\ calls' = [calls EXCEPT ![c] = [NoRequest EXCEPT !.pc = "await", !.token = token, !.gen = l.gen]]
     /\ UNCHANGED gen
  \/ /\ mine /\ l.phase = "stopped"
     /\ LET begun == BeginStart(l) IN
        /\ life' = begun /\ gen' = Claimed(begun)
        /\ calls' = [calls EXCEPT ![c] = IF begun.phase = "starting"
                                        THEN [NoRequest EXCEPT !.pc = "drive", !.token = token, !.gen = begun.gen] ELSE NoRequest]

\* request_explicit_start; refused or already running otherwise.
StartExplicit(c) ==
  /\ calls[c].pc = "idle" /\ tokens < MaxTokens
  /\ ~life.terminal /\ ~life.exhausted /\ life.phase \in {"stopping", "stopped"}
  /\ tokens' = tokens + 1
  /\ Decide(c, [life EXCEPT !.desired = tokens + 1, !.pending = NoTicket, !.attempt = 0], tokens + 1)
  /\ UNCHANGED <<workers, faults>>

\* SchedulerStartClaim::refresh, when the cleanup waited for is over.
StartRefresh(c) ==
  /\ calls[c].pc = "await" /\ Complete(calls[c].gen)
  /\ Decide(c, life, calls[c].token)
  /\ UNCHANGED <<workers, tokens, faults>>

\* SchedulerStartClaim::drop: a start that is dropped while it waits leaves its
\* wish to a recovery worker.
DropWaitingStart(c) ==
  /\ calls[c].pc = "await"
  /\ LET failed == IF life.phase = "stopped" THEN life.next ELSE life.gen
         ticket == IF life.desired = calls[c].token THEN ReservedTicket(life, failed) ELSE NoTicket
         l      == Reserve(life, ticket)
     IN  life' = Latest(l, ticket) /\ workers' = Launch(workers, l, ticket)
  /\ calls' = [calls EXCEPT ![c] = NoRequest]
  /\ UNCHANGED <<gen, tokens, faults>>

\* The required loops are spawned, each an owner of the generation.
DrivePrepare(g) ==
  /\ gen[g].drive = "prepare" /\ ~gen[g].cancelled /\ Starting(g)
  /\ gen' = [gen EXCEPT ![g].drive = "register", ![g].loop = [t \in Tasks |-> "alive"]]
  /\ UNCHANGED <<life, workers, calls, tokens, faults>>

\* register_required_loops, supervise_scheduler_batch
DriveRegister(g) ==
  /\ gen[g].drive = "register" /\ Starting(g)
  /\ life' = [life EXCEPT !.loops = [t \in Tasks |-> "booting"]]
  /\ gen' = [gen EXCEPT ![g].drive = "install", ![g].sup = [t \in Tasks |-> "boot"]]
  /\ UNCHANGED <<workers, calls, tokens, faults>>

\* install_handles
DriveInstall(g) ==
  /\ gen[g].drive = "install" /\ Starting(g)
  /\ gen' = [gen EXCEPT ![g].drive = "await", ![g].installed = TRUE]
  /\ UNCHANGED <<life, workers, calls, tokens, faults>>

\* Every supervisor reported its loop alive.
DriveAwait(g) ==
  /\ gen[g].drive = "await" /\ ~gen[g].cancelled
  /\ \A t \in Tasks : gen[g].said[t] = "yes"
  /\ gen' = [gen EXCEPT ![g].drive = "finish"]
  /\ UNCHANGED <<life, workers, calls, tokens, faults>>

\* finish_start: the first time sync and environment probe are over.
DriveFinish(g) ==
  /\ gen[g].drive = "finish" /\ ~gen[g].cancelled
  /\ gen' = [gen EXCEPT ![g].drive = "commit"]
  /\ UNCHANGED <<life, workers, calls, tokens, faults>>

\* The supervisors are told to commit; one of them may be gone.
DriveCommit(g) ==
  /\ gen[g].drive = "commit"
  /\ IF \A t \in Tasks : gen[g].sup[t] # "ended"
     THEN gen' = [gen EXCEPT ![g].drive = "result", ![g].committed = Tasks]
     ELSE \E told \in SUBSET Tasks :
            /\ \A t \in told : gen[g].sup[t] # "ended"
            /\ gen' = [gen EXCEPT ![g].drive = "unwind", ![g].committed = told]
  /\ UNCHANGED <<life, workers, calls, tokens, faults>>

\* The last supervisor published the generation: SchedulerStartGuard::commit.
DriveCommitted(g) ==
  /\ gen[g].drive = "result" /\ gen[g].outcome = "yes"
  /\ life' = StartCommitted(life, g)
  /\ gen' = [gen EXCEPT ![g].drive = "done", ![g].starter = FALSE]
  /\ UNCHANGED <<workers, calls, tokens, faults>>

\* Every other way out of the start: cancelled, no longer starting, a loop that
\* is not alive, a commit that was rejected.
DriveAbandon(g) ==
  /\ gen[g].drive \notin {"none", "unwind", "done"}
  /\ \/ gen[g].cancelled
     \/ gen[g].drive \in {"prepare", "register", "install"} /\ ~Starting(g)
     \/ gen[g].drive = "await" /\ \E t \in Tasks : gen[g].said[t] = "no"
     \/ gen[g].drive = "result" /\ gen[g].outcome = "no"
  /\ gen' = [gen EXCEPT ![g].drive = "unwind"]
  /\ UNCHANGED <<life, workers, calls, tokens, faults>>

\* The future of the start is dropped.
DropStart(g) ==
  /\ gen[g].drive \notin {"none", "unwind", "done"} /\ faults < MaxFaults
  /\ faults' = faults + 1
  /\ gen' = [gen EXCEPT ![g].drive = "unwind"]
  /\ UNCHANGED <<life, workers, calls, tokens>>

\* SchedulerStartGuard::drop
DriveUnwind(g) ==
  /\ gen[g].drive = "unwind"
  /\ LET request == BeginCleanup(life, g, FALSE)
     IN  /\ life' = request.life
         /\ gen' = [gen EXCEPT ![g] = Begun([@ EXCEPT !.drive = "done", !.starter = FALSE], request)]
  /\ UNCHANGED <<workers, calls, tokens, faults>>

StartReturns(c) ==
  /\ calls[c].pc = "drive" /\ gen[calls[c].gen].drive = "done"
  /\ calls' = [calls EXCEPT ![c] = NoRequest]
  /\ UNCHANGED <<life, gen, workers, tokens, faults>>

---------------------------------------------------------------------------
\* Loops and their supervisors.

\* A required loop ends by itself (RequiredLoopRuntimeGuard::drop).
LoopExits(g, t) ==
  /\ gen[g].loop[t] = "alive" /\ faults < MaxFaults
  /\ faults' = faults + 1
  /\ FailLoop(g, [gen[g] EXCEPT !.loop[t] = "ended"])
  /\ UNCHANGED <<workers, calls, tokens>>

\* Its handle was aborted: by its supervisor, or because the batch that held it
\* was dropped.
LoopAborted(g, t) ==
  /\ gen[g].loop[t] = "alive"
  /\ gen[g].sup[t] = "ended" \/ (gen[g].sup[t] = "none" /\ gen[g].drive \in {"unwind", "done"})
  /\ FailLoop(g, [gen[g] EXCEPT !.loop[t] = "ended"])
  /\ UNCHANGED <<workers, calls, tokens, faults>>

\* supervise_scheduler_handle up to the ready signal.
SupervisorBoots(g, t) ==
  /\ gen[g].sup[t] = "boot"
  /\ \/ /\ gen[g].loop[t] = "ended" \/ gen[g].cancelled
        /\ FailLoop(g, [gen[g] EXCEPT !.sup[t] = "ended", !.said[t] = "no"])
     \/ /\ gen[g].loop[t] = "alive" /\ ~gen[g].cancelled
        /\ IF Starting(g) /\ life.loops[t] = "booting"
           THEN /\ life' = [life EXCEPT !.loops[t] = "ready"]
                /\ gen' = [gen EXCEPT ![g].sup[t] = "ready", ![g].said[t] = "yes"]
           ELSE /\ gen' = [gen EXCEPT ![g].sup[t] = "ended", ![g].said[t] = "no"]
                /\ UNCHANGED life
  /\ UNCHANGED <<workers, calls, tokens, faults>>

\* The supervised loop ended, before or after the commit.
SupervisorSeesExit(g, t) ==
  /\ gen[g].sup[t] \in {"ready", "approved"} /\ gen[g].loop[t] = "ended"
  /\ FailLoop(g, [gen[g] EXCEPT !.sup[t] = "ended"])
  /\ UNCHANGED <<workers, calls, tokens, faults>>

\* The generation was cancelled: abort_and_join.
SupervisorCancelled(g, t) ==
  /\ gen[g].sup[t] \in {"ready", "approved"} /\ gen[g].cancelled
  /\ gen' = [gen EXCEPT ![g].sup[t] = "ended"]
  /\ UNCHANGED <<life, workers, calls, tokens, faults>>

\* The starter went away without a commit signal for this loop.
SupervisorUncommitted(g, t) ==
  /\ gen[g].sup[t] = "ready" /\ gen[g].drive \in {"unwind", "done"} /\ t \notin gen[g].committed
  /\ FailLoop(g, [gen[g] EXCEPT !.sup[t] = "ended"])
  /\ UNCHANGED <<workers, calls, tokens, faults>>

SupervisorCommits_FirstPublishes(g, t) ==
  /\ gen[g].sup[t] = "ready" /\ t \in gen[g].committed
  /\ Starting(g) /\ life.loops[t] = "ready"
  /\ life' = [life EXCEPT !.loops[t] = "approved", !.phase = "running"]
  /\ gen' = [gen EXCEPT ![g].sup[t] = "approved", ![g].outcome = "yes"]
  /\ UNCHANGED <<workers, calls, tokens, faults>>

\* approve_required_loop_and_maybe_publish: the last approval publishes Running.
SupervisorCommits(g, t) ==
  /\ gen[g].sup[t] = "ready" /\ t \in gen[g].committed
  /\ LET approved == [life EXCEPT !.loops[t] = "approved"]
         last     == \A u \in Tasks : approved.loops[u] = "approved"
     IN  \/ /\ Starting(g) /\ life.loops[t] = "ready" /\ ~last
            /\ life' = approved
            /\ gen' = [gen EXCEPT ![g].sup[t] = "approved"]
         \/ /\ Starting(g) /\ life.loops[t] = "ready" /\ last /\ ~gen[g].cancelled
            /\ life' = [approved EXCEPT !.phase = "running"]
            /\ gen' = [gen EXCEPT ![g].sup[t] = "approved", ![g].outcome = "yes"]
         \/ /\ ~Starting(g) \/ life.loops[t] # "ready" \/ (last /\ gen[g].cancelled)
            /\ life' = IF Starting(g) /\ life.loops[t] = "ready" THEN approved ELSE life
            /\ gen' = [gen EXCEPT ![g].sup[t] = "ended", ![g].outcome = "no"]
  /\ UNCHANGED <<workers, calls, tokens, faults>>

\* Its own handle is aborted: by the cleanup once installed, or with the batch of
\* an abandoned start.  The loop's handle is deferred to the generation's drain.
SupervisorAborted(g, t) ==
  /\ gen[g].sup[t] \in {"boot", "ready", "approved"}
  /\ \/ gen[g].installed /\ gen[g].clean = "working"
     \/ ~gen[g].installed /\ gen[g].drive \in {"unwind", "done"}
  /\ gen' = [gen EXCEPT ![g].sup[t] = "ended",
                        ![g].said[t] = IF gen[g].sup[t] = "boot" THEN "no" ELSE @]
  /\ UNCHANGED <<life, workers, calls, tokens, faults>>

\* claim_generation_activity, or a scheduled run (TaskRuns) that is not yet refused.
ClaimActivity(g) ==
  /\ life.gen = g /\ life.phase # "stopped" /\ ~gen[g].cancelled /\ ~gen[g].busy
  /\ gen' = [gen EXCEPT ![g].busy = TRUE]
  /\ UNCHANGED <<life, workers, calls, tokens, faults>>

ActivityEnds(g) ==
  /\ gen[g].busy
  /\ gen' = [gen EXCEPT ![g].busy = FALSE]
  /\ UNCHANGED <<life, workers, calls, tokens, faults>>

---------------------------------------------------------------------------
\* Cleanup.

\* launch_scheduler_cleanup: cancel the generation, install and launch the job,
\* then the recovery worker if one was reserved.
LaunchCleanup(g) ==
  /\ gen[g].clean = "begun"
  /\ gen' = [gen EXCEPT ![g].cancelled = TRUE, ![g].clean = "working", ![g].ticket = NoTicket]
  /\ workers' = Launch(workers, life, gen[g].ticket)
  /\ life' = Latest(life, gen[g].ticket)
  /\ UNCHANGED <<calls, tokens, faults>>

\* active_owners and deferred handles of GenerationControl.
Drained(g) ==
  /\ ~gen[g].starter /\ ~gen[g].busy
  /\ \A t \in Tasks : gen[g].loop[t] # "alive" /\ gen[g].sup[t] \in {"none", "ended"}

\* CleanupJobLease::drain is over, finish_cleanup.
FinishCleanup(g) ==
  /\ gen[g].clean = "working" /\ Drained(g)
  /\ life' = [life EXCEPT !.phase = "stopped", !.gen = 0, !.loops = [t \in Tasks |-> "none"]]
  /\ gen' = [gen EXCEPT ![g].clean = "complete"]
  /\ UNCHANGED <<workers, calls, tokens, faults>>

\* The cleanup worker is aborted or cannot be spawned: CleanupJobLease::drop
\* puts the job back.
CleanupWorkerDies(g) ==
  /\ gen[g].clean = "working" /\ faults < MaxFaults
  /\ faults' = faults + 1
  /\ gen' = [gen EXCEPT ![g].clean = "stored"]
  /\ UNCHANGED <<life, workers, calls, tokens>>

\* Somebody in wait_for_owned_cleanup.
Awaited(g) ==
  \/ \E c \in Requesters : calls[c].pc \in {"await", "stop"} /\ calls[c].gen = g
  \/ \E w \in DOMAIN workers : workers[w].at = "wait" /\ w.failed = g

RelaunchCleanup(g) ==
  /\ gen[g].clean = "stored" /\ Awaited(g)
  /\ gen' = [gen EXCEPT ![g].clean = "working"]
  /\ UNCHANGED <<life, workers, calls, tokens, faults>>

---------------------------------------------------------------------------
\* Recovery.

Without(ws, w) == [v \in DOMAIN ws \ {w} |-> ws[v]]

\* reconcile_abandoned_recovery, when worker `w' is gone.
Reconcile(w) ==
  IF ~life.terminal /\ ~life.exhausted /\ life.pending = w /\ life.desired = w.token
  THEN LET ticket == [w EXCEPT !.attempt = life.attempt + 1]
           l      == Reserve(life, ticket)
       IN  life' = Latest(l, ticket) /\ workers' = Launch(Without(workers, w), l, ticket)
  ELSE UNCHANGED life /\ workers' = Without(workers, w)

\* recovery_future, after the cleanup of the failed generation.
RecoveryWakes(w) ==
  /\ workers[w].at = "wait" /\ Complete(w.failed)
  /\ workers' = [workers EXCEPT ![w].at = "backoff"]
  /\ UNCHANGED <<life, gen, calls, tokens, faults>>

\* recovery_start_decision
RecoveryMayStart(l, w) ==
  /\ ~l.terminal /\ ~l.exhausted /\ l.phase = "stopped"
  /\ l.pending # NoTicket /\ l.pending.failed = w.failed /\ l.pending.token = w.token
  /\ l.desired = w.token

\* The backoff is over: start the next generation or give up.
RecoveryStarts(w) ==
  /\ workers[w].at = "backoff"
  /\ IF RecoveryMayStart(life, w)
     THEN LET begun == BeginStart(life) IN
          /\ life' = begun /\ gen' = Claimed(begun)
          /\ workers' = IF begun.phase = "starting" THEN [workers EXCEPT ![w] = [at |-> "drive", gen |-> begun.gen]] ELSE Without(workers, w)
     ELSE Reconcile(w) /\ UNCHANGED gen
  /\ UNCHANGED <<calls, tokens, faults>>

RecoveryReturns(w) ==
  /\ workers[w].at = "drive" /\ gen[workers[w].gen].drive = "done"
  /\ Reconcile(w)
  /\ UNCHANGED <<gen, calls, tokens, faults>>

\* The recovery task is dropped before it claimed a start.
RecoveryDies(w) ==
  /\ workers[w].at # "drive" /\ faults < MaxFaults
  /\ faults' = faults + 1
  /\ Reconcile(w)
  /\ UNCHANGED <<gen, calls, tokens>>

---------------------------------------------------------------------------
\* Stopping.

\* begin_explicit_stop, begin_terminal_shutdown
Stop(c, terminal) ==
  /\ calls[c].pc = "idle"
  /\ LET disabled == [DisableDesired(life) EXCEPT !.terminal = life.terminal \/ terminal]
         request  == BeginCleanup(disabled, life.gen, TRUE)
     IN  /\ life' = [request.life EXCEPT !.worker = NoTicket]
         /\ gen' = IF request.begun THEN [gen EXCEPT ![life.gen] = Begun(@, request)] ELSE gen
  /\ calls' = [calls EXCEPT ![c] = [pc |-> "stop", token |-> 0, gen |-> life.gen, worker |-> life.worker]]
  /\ UNCHANGED <<workers, tokens, faults>>

\* The recovery worker taken from the lifecycle is aborted; one that drives a
\* start drops the guard of that start.
StopAborts(c) ==
  /\ calls[c].pc = "stop" /\ calls[c].worker \in DOMAIN workers
  /\ LET w == calls[c].worker IN
     /\ Reconcile(w)
     /\ gen' = IF workers[w].at = "drive" /\ gen[workers[w].gen].drive # "done"
               THEN [gen EXCEPT ![workers[w].gen].drive = "unwind"] ELSE gen
  /\ calls' = [calls EXCEPT ![c].worker = NoTicket]
  /\ UNCHANGED <<tokens, faults>>

\* Recovery workers and cleanup are over.
StopReturns(c) ==
  /\ calls[c].pc = "stop" /\ DOMAIN workers = {}
  /\ Complete(calls[c].gen)
  /\ calls' = [calls EXCEPT ![c] = NoRequest]
  /\ UNCHANGED <<life, gen, workers, tokens, faults>>

---------------------------------------------------------------------------
DriveStart(g) ==
  \/ DrivePrepare(g) \/ DriveRegister(g) \/ DriveInstall(g) \/ DriveAwait(g) \/ DriveFinish(g)
  \/ DriveCommit(g) \/ DriveCommitted(g) \/ DriveAbandon(g) \/ DriveUnwind(g)

Supervise(g, t) ==
  \/ LoopAborted(g, t) \/ SupervisorBoots(g, t) \/ SupervisorSeesExit(g, t) \/ SupervisorCancelled(g, t)
  \/ SupervisorUncommitted(g, t) \/ SupervisorCommits(g, t) \/ SupervisorAborted(g, t)

Cleanup(g) == LaunchCleanup(g) \/ FinishCleanup(g) \/ RelaunchCleanup(g)

Recover(w) == RecoveryWakes(w) \/ RecoveryStarts(w) \/ RecoveryReturns(w)

\* Everything that goes on by itself.
Work ==
  \/ \E g \in Gens : DriveStart(g) \/ Cleanup(g)
  \/ \E g \in Gens, t \in Tasks : Supervise(g, t)
  \/ \E w \in DOMAIN workers : Recover(w)

Serve(c) == StartRefresh(c) \/ StartReturns(c) \/ StopAborts(c) \/ StopReturns(c)

Fault ==
  \/ \E g \in Gens : DropStart(g)
  \/ \E g \in Gens, t \in Tasks : LoopExits(g, t)
  \/ \E g \in Gens : CleanupWorkerDies(g)
  \/ \E w \in DOMAIN workers : RecoveryDies(w)

LifeNext ==
  \/ Work
  \/ \E g \in Gens : ClaimActivity(g) \/ ActivityEnds(g)
  \/ \E c \in Requesters : Serve(c)
  \/ \E c \in Starters : StartExplicit(c) \/ DropWaitingStart(c)
  \/ \E c \in Stoppers, terminal \in BOOLEAN : Stop(c, terminal)
  \/ Fault

LifeSpec == LifeInit /\ [][LifeNext]_lifeVars

\* Tasks that are ready run, and nothing a generation waits for blocks for ever.
LifeFairSpec ==
  /\ LifeSpec /\ WF_lifeVars(Work)
  /\ WF_lifeVars(\E g \in Gens : ActivityEnds(g)) /\ WF_lifeVars(\E c \in Requesters : Serve(c))

---------------------------------------------------------------------------
\* A loop, supervisor, starter or activity of generation g still exists.
Owned(g) ==
  \/ gen[g].starter \/ gen[g].busy
  \/ \E t \in Tasks : gen[g].loop[t] = "alive" \/ gen[g].sup[t] \in {"boot", "ready", "approved"}

(***************************************************************************)
(* Only the current generation owns anything: a generation is forgotten    *)
(* (finish_cleanup) after its last loop, supervisor and activity ended, so *)
(* the loops of two generations never run side by side.                    *)
(***************************************************************************)
OneGeneration == \A g \in Gens : Owned(g) => g = life.gen

(***************************************************************************)
(* Running is published only when every required loop has been approved,   *)
(* and a loop that ends turns Running off in the same step.                *)
(***************************************************************************)
RunningComplete ==
  life.phase = "running" =>
    \A t \in Tasks : life.loops[t] = "approved" /\ gen[life.gen].loop[t] = "alive"

\* Nothing starts or runs that was stopped: stop and shutdown win over recovery.
StopSticks == life.phase \in {"starting", "running"} => life.desired # 0 /\ ~life.terminal

(***************************************************************************)
(* A reserved recovery is in somebody's hands: a worker, or the cleanup    *)
(* that is going to launch one.                                            *)
(***************************************************************************)
RecoveryNotLost ==
  life.pending # NoTicket =>
    life.pending \in DOMAIN workers \/ \E g \in Gens : gen[g].ticket = life.pending

LifecycleSafe == LifeTypeOK /\ OneGeneration /\ RunningComplete /\ StopSticks /\ RecoveryNotLost

(***************************************************************************)
(* A scheduler that is wanted comes up, whichever loop, start, cleanup     *)
(* worker or recovery worker dies on the way, or is stopped for good.      *)
(***************************************************************************)
DesiredComesUp == life.desired # 0 ~> (life.phase = "running" \/ life.desired = 0)
=============================================================================
