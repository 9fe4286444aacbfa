----------------------------- MODULE SchedulerTasks -----------------------------
(***************************************************************************)
(* What the scheduler's tasks do to the session: services/scheduler.rs     *)
(* (execute_inner and below), with the parts of services/time.rs,          *)
(* services/daily_pnl.rs and services/market.rs they call.                 *)
(*                                                                         *)
(* Runners are a periodic loop, a run_now command or a connection          *)
(* bootstrap.  Every task but the environment probe and the candle flush   *)
(* runs under the read side of the account lock, which is fair: a reader   *)
(* that arrives after a queued account change waits behind it.  The probe  *)
(* reads the session, asks the network without the lock, and takes the     *)
(* lock to commit.  A future may be dropped at any await.                  *)
(***************************************************************************)
EXTENDS Naturals, Sequences, SequencesExt

CONSTANTS Runners,    \* executions that may be under way together
          Writer,     \* the account command that takes the write side
          Nothing,
          Accounts,
          Envs,       \* API base URLs, canonicalised (environment_key)
          MaxChanges, \* bound: account commands
          MaxBlips    \* bound: times the public stream goes up or down

ASSUME WriterAssumption == Writer \notin Runners
ASSUME NothingAssumption == Nothing \notin Runners
ASSUME SessionAssumption == Accounts # {} /\ Envs # {}
ASSUME BoundAssumption == MaxChanges \in Nat /\ MaxBlips \in Nat

VARIABLES session,    \* active_account_id, session_epoch, connection status
          url,        \* base URL of each account's credential
          lock,       \* AccountLifecycleCoordinator.lifecycle: holders and FIFO queue
          job,        \* the execution of each runner
          edge,       \* prev_public_connected and its mutex; `filled' is history
          public,     \* is_public_connected
          changes, blips

tasksVars == <<session, url, lock, job, edge, public, changes, blips>>

Kinds    == {"panels", "market", "time", "bootstrap", "probe"}

TasksTypeOK ==
  /\ session \in [account : Accounts, epoch : Nat, up : BOOLEAN, former : Accounts \cup {Nothing}]
  /\ url \in [Accounts -> Envs]
  /\ lock \in [holders : SUBSET (Runners \cup {Writer}), queue : Seq(Runners \cup {Writer})]
  /\ job \in [Runners -> [kind : Kinds, mode : {"periodic", "bootstrap"},
                          pc : {"idle", "queue", "sync", "edge", "backfill", "quotes", "snapshot", "fetch",
                                "probe", "ask", "requeue", "recheck", "commit", "end"},
                          account : Accounts \cup {Nothing}, epoch : Nat, env : Envs \cup {Nothing}]]
  /\ edge \in [prev : BOOLEAN, owner : Runners \cup {Nothing}, filled : BOOLEAN]
  /\ public \in BOOLEAN
  /\ changes \in 0..MaxChanges /\ blips \in 0..MaxBlips

NoJob == [kind |-> "probe", mode |-> "periodic", pc |-> "idle", account |-> Nothing, epoch |-> 0, env |-> Nothing]

\* The context a job captured is that of the session in force.
InForce(r) == job[r].account = session.account /\ job[r].epoch = session.epoch

TasksInit ==
  /\ session = [account |-> CHOOSE a \in Accounts : TRUE, epoch |-> 0, up |-> TRUE, former |-> Nothing]
  /\ url \in [Accounts -> {CHOOSE e \in Envs : TRUE}]
  /\ job = [r \in Runners |-> NoJob]
  /\ lock = [holders |-> {}, queue |-> <<>>]
  /\ edge = [prev |-> FALSE, owner |-> Nothing, filled |-> FALSE]
  /\ public = FALSE /\ changes = 0 /\ blips = 0

World   == <<session, url, public, changes, blips>>
To(r, pc) == job' = [job EXCEPT ![r].pc = pc]
End(r)    == job' = [job EXCEPT ![r] = NoJob]

---------------------------------------------------------------------------
\* The account lock: a FIFO queue in which the head is admitted when it can be.

Enqueue(who) == lock' = [lock EXCEPT !.queue = Append(@, who)]

Release(who) == lock' = [lock EXCEPT !.holders = @ \ {who}]

Admissible(who) ==
  /\ lock.queue # <<>> /\ Head(lock.queue) = who
  /\ IF who = Writer THEN lock.holders = {} ELSE Writer \notin lock.holders

Admit(who) == lock' = [holders |-> lock.holders \cup {who}, queue |-> Tail(lock.queue)]

---------------------------------------------------------------------------
\* execute_task_with_account_lifecycle, run_bootstrap_account_phase: all the tasks
\* that touch the account start under the guard.

\* requires_account_lifecycle
NeedsGuard(kind) == kind # "probe"

First(kind) == CASE kind = "panels" -> "snapshot" [] kind = "market" -> "edge"
                 [] kind = "probe" -> "probe" [] OTHER -> "sync"

Begin(r, kind) ==
  /\ job[r].pc = "idle"
  /\ job' = [job EXCEPT ![r] = [NoJob EXCEPT
               !.kind = kind, !.mode = IF kind = "bootstrap" THEN "bootstrap" ELSE "periodic",
               !.pc = IF NeedsGuard(kind) THEN "queue" ELSE First(kind)]]
  /\ IF NeedsGuard(kind) THEN Enqueue(r) ELSE UNCHANGED lock
  /\ UNCHANGED edge /\ UNCHANGED World

EnterGuard(r) ==
  /\ job[r].pc = "queue" /\ Admissible(r)
  /\ Admit(r) /\ To(r, First(job[r].kind))
  /\ UNCHANGED edge /\ UNCHANGED World

\* run_time_sync_task: TimeService::sync ended, well or not.
SyncEnds(r) ==
  /\ job[r].pc = "sync"
  /\ To(r, IF job[r].kind = "time" THEN "end" ELSE "edge")
  /\ UNCHANGED <<lock, edge>> /\ UNCHANGED World

\* run_market_reconnect_backfill: the transition is looked at under its own mutex,
\* which is kept while the backfill runs.
MeetEdge(r) ==
  /\ job[r].pc = "edge" /\ edge.owner = Nothing
  /\ IF public /\ ~edge.prev
     THEN edge' = [edge EXCEPT !.owner = r] /\ To(r, "backfill")
     ELSE edge' = [edge EXCEPT !.prev = public, !.filled = public /\ @] /\ To(r, "quotes")
  /\ UNCHANGED lock /\ UNCHANGED World

\* The backfill succeeded or failed; either way the edge is consumed.
BackfillEnds(r) ==
  /\ job[r].pc = "backfill"
  /\ edge' = [prev |-> TRUE, owner |-> Nothing, filled |-> TRUE]
  /\ To(r, "quotes")
  /\ UNCHANGED lock /\ UNCHANGED World

\* refresh_ticker_depth and refresh_klines, or nothing while the stream is fresh;
\* in a bootstrap the funding rate and the account tasks follow.
QuotesEnd(r) ==
  /\ job[r].pc = "quotes"
  /\ To(r, IF job[r].kind = "market" \/ ~session.up THEN "end" ELSE "snapshot")
  /\ UNCHANGED <<lock, edge>> /\ UNCHANGED World

\* run_balances, run_private_panels, DailyPnl: capture_session_context before the
\* request.  Periodic runs skip it while the stream is fresh.
CaptureSnapshot(r) ==
  /\ job[r].pc = "snapshot" /\ session.up
  /\ job' = [job EXCEPT ![r].pc = "fetch", ![r].account = session.account, ![r].epoch = session.epoch]
  /\ UNCHANGED <<lock, edge>> /\ UNCHANGED World

SkipSnapshot(r) ==
  /\ job[r].pc = "snapshot" /\ (~session.up \/ job[r].mode = "periodic")
  /\ To(r, "end")
  /\ UNCHANGED <<lock, edge>> /\ UNCHANGED World

\* The answer is emitted for the captured context, or the request failed.
SnapshotEnds(r) ==
  /\ job[r].pc = "fetch"
  /\ To(r, "end")
  /\ UNCHANGED <<lock, edge>> /\ UNCHANGED World

LeaveGuard_Nested(r) ==
  /\ job[r].pc = "end"
  /\ IF job[r].kind = "bootstrap" THEN To(r, "probe") ELSE End(r)
  /\ IF job[r].kind = "bootstrap" THEN UNCHANGED lock ELSE Release(r)
  /\ UNCHANGED edge /\ UNCHANGED World

\* The guard is dropped; a bootstrap goes on to probe the environment without it.
LeaveGuard(r) ==
  /\ job[r].pc = "end"
  /\ IF job[r].kind = "bootstrap" THEN To(r, "probe") ELSE End(r)
  /\ Release(r)
  /\ UNCHANGED edge /\ UNCHANGED World

---------------------------------------------------------------------------
\* probe_environment

\* The account and its base URL are read first, the epoch after them.
ProbeReadsAccount(r) ==
  /\ job[r].pc = "probe"
  /\ job' = [job EXCEPT ![r].pc = "ask", ![r].account = session.account, ![r].env = url[session.account]]
  /\ UNCHANGED <<lock, edge>> /\ UNCHANGED World

ProbeReadsEpoch(r) ==
  /\ job[r].pc = "ask"
  /\ job' = [job EXCEPT ![r].pc = "requeue", ![r].epoch = session.epoch]
  /\ Enqueue(r)                                    \* after the answer of server_time
  /\ UNCHANGED edge /\ UNCHANGED World

ProbeEnters(r) ==
  /\ job[r].pc = "requeue" /\ Admissible(r)
  /\ Admit(r) /\ To(r, "recheck")
  /\ UNCHANGED edge /\ UNCHANGED World

\* Still the same account and epoch, and the same environment: a credential may
\* be saved with another base URL without a new epoch.
Unchanged(r) == InForce(r) /\ job[r].env = url[session.account]

ProbeRechecks(r) ==
  /\ job[r].pc = "recheck"
  /\ IF Unchanged(r) THEN To(r, "commit") /\ UNCHANGED lock
     ELSE End(r) /\ Release(r)
  /\ UNCHANGED edge /\ UNCHANGED World

\* publish_environment_task_status, observe_environment_guarded.
ProbeCommits(r) ==
  /\ job[r].pc = "commit"
  /\ End(r) /\ Release(r)
  /\ UNCHANGED edge /\ UNCHANGED World

\* The future is dropped at an await: its guard, its place in the queue and the
\* mutex of the edge go with it.
Drop(r) ==
  /\ job[r].pc \notin {"idle", "recheck", "commit", "end"}
  /\ End(r)
  /\ lock' = [holders |-> lock.holders \ {r}, queue |-> RemoveFirst(lock.queue, r)]
  /\ edge' = IF edge.owner = r THEN [edge EXCEPT !.owner = Nothing] ELSE edge
  /\ UNCHANGED World

---------------------------------------------------------------------------
\* Account commands, under the write side.

Settled == UNCHANGED <<job, edge, public, blips>>

MutationQueues ==
  /\ changes < MaxChanges /\ Writer \notin lock.holders /\ ~Contains(lock.queue, Writer)
  /\ Enqueue(Writer) /\ changes' = changes + 1
  /\ Settled /\ UNCHANGED <<session, url>>

MutationEnters ==
  /\ Admissible(Writer) /\ Admit(Writer)
  /\ Settled /\ UNCHANGED <<session, url, changes>>

\* switch_account: the configuration is replaced before the epoch advances.
SwitchReplaces ==
  /\ Writer \in lock.holders /\ session.former = Nothing
  /\ \E a \in Accounts \ {session.account} :
       session' = [session EXCEPT !.account = a, !.former = session.account]
  /\ Settled /\ UNCHANGED <<url, lock, changes>>

SwitchEnds ==
  /\ Writer \in lock.holders /\ session.former # Nothing
  /\ \E committed \in BOOLEAN :
       session' = IF committed THEN [session EXCEPT !.epoch = @ + 1, !.former = Nothing]
                  ELSE [session EXCEPT !.account = session.former, !.former = Nothing]
  /\ Release(Writer)
  /\ Settled /\ UNCHANGED <<url, changes>>

\* save_credentials with another base URL; connect and disconnect.
CredentialSaved ==
  /\ Writer \in lock.holders /\ session.former = Nothing
  /\ \/ \E a \in Accounts, e \in Envs : url' = [url EXCEPT ![a] = e] /\ UNCHANGED session
     \/ \E up \in BOOLEAN : session' = [session EXCEPT !.up = up] /\ UNCHANGED url
  /\ Release(Writer)
  /\ Settled /\ UNCHANGED changes

\* The public stream connects or drops.
Blip ==
  /\ blips < MaxBlips /\ blips' = blips + 1
  /\ public' = ~public
  /\ UNCHANGED <<session, url, lock, job, edge, changes>>

---------------------------------------------------------------------------
Step(r) ==
  \/ EnterGuard(r) \/ SyncEnds(r) \/ MeetEdge(r) \/ BackfillEnds(r) \/ QuotesEnd(r)
  \/ CaptureSnapshot(r) \/ SkipSnapshot(r) \/ SnapshotEnds(r) \/ LeaveGuard(r)
  \/ ProbeReadsAccount(r) \/ ProbeReadsEpoch(r) \/ ProbeEnters(r) \/ ProbeRechecks(r) \/ ProbeCommits(r)

Mutation == MutationEnters \/ SwitchReplaces \/ SwitchEnds \/ CredentialSaved

TasksNext ==
  \/ \E r \in Runners : Step(r) \/ Drop(r)
  \/ \E r \in Runners, kind \in Kinds : Begin(r, kind)
  \/ MutationQueues \/ Mutation \/ Blip

TasksSpec == TasksInit /\ [][TasksNext]_tasksVars

---------------------------------------------------------------------------
(***************************************************************************)
(* An answer is emitted for the session in force: between the capture of   *)
(* the context and the emission no account command can have completed,     *)
(* although the request was on the network meanwhile.                      *)
(***************************************************************************)
SnapshotCurrent == \A r \in Runners : job[r].pc = "fetch" => InForce(r)

(***************************************************************************)
(* The environment status that is published was measured against the base  *)
(* URL of the account in force, whatever changed during the request.       *)
(***************************************************************************)
ProbeCurrent ==
  \A r \in Runners : job[r].pc = "commit" => InForce(r) /\ job[r].env = url[session.account]

(***************************************************************************)
(* A connection is marked as seen only after a backfill for it ran to its  *)
(* end: a cancelled one leaves the edge for the next run.                  *)
(***************************************************************************)
EdgeNotLost ==
  /\ edge.prev => edge.filled
  /\ \A r \in Runners : job[r].pc = "backfill" <=> edge.owner = r

(***************************************************************************)
(* Nobody waits for the account lock while holding it: with an account     *)
(* command queued in between, the two would wait for each other for ever.  *)
(***************************************************************************)
NoNestedGuard == \A who \in lock.holders : ~Contains(lock.queue, who)

TasksSafe == TasksTypeOK /\ SnapshotCurrent /\ ProbeCurrent /\ EdgeNotLost /\ NoNestedGuard
=============================================================================
