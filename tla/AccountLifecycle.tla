--------------------------- MODULE AccountLifecycle ---------------------------
(***************************************************************************)
(* Accounts, their credentials and the session that acts for one of them:  *)
(* services/account_profiles.rs with switching.rs and mutations.rs,        *)
(* services/connection.rs, and the part of api/client.rs and ws/manager.rs *)
(* that holds the installed session and the order stream.                  *)
(*                                                                         *)
(* A mutation (connect, disconnect, switch, delete, save) holds the write  *)
(* side of the lifecycle lock from "start" on; a private request and an    *)
(* observation of the order stream hold the read side.  The lock is fair   *)
(* and prefers writers, so no new reader is admitted while a mutation      *)
(* waits.  Settings reach the disk through config_persistence, whose       *)
(* promise is CrashRegister with "expose": a failed save may show later.   *)
(***************************************************************************)
EXTENDS Naturals, FiniteSets

CONSTANTS Accounts,     \* account ids, normalised
          Credentials,  \* API credentials
          None,         \* no credential, no session, no account
          MaxEpoch      \* bound on the successful switches of one run

Config  == {c \in [active : Accounts, accounts : SUBSET Accounts] : c.active \in c.accounts}
Session == [account : Accounts, epoch : 0 .. MaxEpoch]

ASSUME AccountAssumption == Accounts # {} /\ None \notin Accounts \cup Credentials \cup Session \cup Config
ASSUME EpochAssumption   == MaxEpoch \in Nat

VARIABLES cfg,        \* AppState.config: the active account and the listed ones
          loadable,   \* configs the next start may find on disk
          creds,      \* the keyring
          epoch,      \* AccountLifecycleCoordinator.session_epoch
          status,     \* ConnectionService status
          api,        \* the session installed in the API client
          stream,     \* the session of the running order stream
          worker,     \* what its task does
          request,    \* the session context of the private request under way
          data,       \* the account whose trades the analytics service holds
          task,       \* the mutation under way
          owners,     \* per epoch of this run, the accounts something was done for
          torn        \* accounts of which a change failed or was cut short

vars == <<cfg, loadable, creds, epoch, status, api, stream, worker, request, data,
          task, owners, torn>>

Ops == {"connect", "disconnect", "switch", "delete", "save_credentials", "save_config"}

Free == [op |-> "none", pc |-> "free", target |-> None, cred |-> None, old |-> None,
         former |-> None, connected |-> FALSE, realtime |-> FALSE, undo |-> "none"]

Task ==
  [op : Ops \cup {"none"},
   pc : {"free", "queued", "start", "persist", "restore", "connect", "sync",
         "commit", "rollback", "reconnect", "rolled_back"},
   target : Accounts \cup {None}, cred : Credentials \cup {None}, old : Credentials \cup {None},
   former : Config \cup {None}, connected : BOOLEAN, realtime : BOOLEAN,
   undo : {"none", "clean", "failed"}]

TypeOK ==
  /\ cfg \in Config
  /\ loadable \subseteq Config /\ loadable # {}
  /\ creds \in [Accounts -> Credentials \cup {None}]
  /\ epoch \in 0 .. MaxEpoch
  /\ status \in {"disconnected", "connecting", "connected", "error"}
  /\ {api, stream, request} \subseteq Session \cup {None}
  /\ worker \in {"none", "reading", "waiting", "observing"}
  /\ data \in Accounts \cup {None}
  /\ task \in Task
  /\ owners \in [0 .. MaxEpoch -> SUBSET Accounts]
  /\ torn \subseteq Accounts

\* A first start, or one with accounts that were set up before.
Init ==
  /\ cfg \in Config /\ loadable = {cfg}
  /\ creds \in [Accounts -> Credentials \cup {None}]
  /\ torn = {a \in Accounts : creds[a] = None}
  /\ epoch = 0 /\ status = "disconnected"
  /\ api = None /\ stream = None /\ worker = "none" /\ request = None /\ data = None
  /\ task = Free
  /\ owners = [e \in 0 .. MaxEpoch |-> {}]

Current == [account |-> cfg.active, epoch |-> epoch]

Holding(pc) == task.pc = pc

Goto(pc) == task' = [task EXCEPT !.pc = pc]

\* Mutant of StopStream: stopping waits for the worker instead of aborting it.
StopStream_Graceful ==
  /\ worker \in {"none", "reading"}
  /\ stream' = None /\ worker' = "none"

\* WsManager::stop aborts the workers and waits for them, wherever they wait.
StopStream == stream' = None /\ worker' = "none"

\* WsManager::start stops the running stream first.
StartStream(session) == stream' = session /\ worker' = "reading"

\* ConnectionService::disconnect.
Disconnect == StopStream /\ api' = None /\ status' = "disconnected"

KeepConnection == UNCHANGED <<status, api, stream, worker>>

\* ConfigStore::save of a config that succeeds, or that fails and may show later.
Persist(next)     == loadable' = {next}
FailPersist(next) == loadable' = loadable \cup {next}

-----------------------------------------------------------------------------
(***************************************************************************)
(* The lock.                                                               *)
(***************************************************************************)
Queue(op, target, cred, realtime) ==
  /\ task.op = "none"
  /\ task' = [Free EXCEPT !.op = op, !.pc = "queued", !.target = target, !.cred = cred,
                          !.realtime = realtime]
  /\ UNCHANGED <<cfg, loadable, creds, epoch, status, api, stream, worker, request, data,
                 owners, torn>>

Acquire ==
  /\ Holding("queued")
  /\ request = None /\ worker # "observing"
  /\ Goto("start")
  /\ UNCHANGED <<cfg, loadable, creds, epoch, status, api, stream, worker, request, data,
                 owners, torn>>

\* Neither a mutation that runs nor one that waits.
ReadLock == task.op = "none"

\* The command returns, whatever its result, and the guard is dropped.
Release == task' = Free

-----------------------------------------------------------------------------
(***************************************************************************)
(* Readers of the lock: private requests and the order stream.             *)
(***************************************************************************)
BeginRequest ==
  /\ request = None /\ ReadLock
  /\ request' = Current
  /\ UNCHANGED <<cfg, loadable, creds, epoch, status, api, stream, worker, data, task,
                 owners, torn>>

\* The request is signed with the installed credential, answered or given up,
\* and what it fetched replaces the analytics data.
EndRequest ==
  /\ request # None
  /\ IF api # None
     THEN /\ data' \in {data, api.account}
          /\ owners' = [owners EXCEPT ![request.epoch] = @ \cup {api.account}]
     ELSE UNCHANGED <<data, owners>>
  /\ request' = None
  /\ UNCHANGED <<cfg, loadable, creds, epoch, status, api, stream, worker, task, torn>>

\* An order event or a change of the stream's connection arrived.
StreamEvent ==
  /\ worker = "reading"
  /\ worker' = "waiting"
  /\ UNCHANGED <<cfg, loadable, creds, epoch, status, api, stream, request, data, task,
                 owners, torn>>

StreamGuard ==
  /\ worker = "waiting" /\ ReadLock
  /\ worker' = "observing"
  /\ UNCHANGED <<cfg, loadable, creds, epoch, status, api, stream, request, data, task,
                 owners, torn>>

\* observe_private_orders and observe_connection_status publish only for the
\* session in force.
StreamObserve ==
  /\ worker = "observing"
  /\ worker' = "reading"
  /\ owners' = IF stream = Current
               THEN [owners EXCEPT ![stream.epoch] = @ \cup {stream.account}] ELSE owners
  /\ UNCHANGED <<cfg, loadable, creds, epoch, status, api, stream, request, data, task, torn>>

-----------------------------------------------------------------------------
(***************************************************************************)
(* Connecting: the `connect' command, the target of a switch, and the      *)
(* former account when a switch is rolled back.                            *)
(***************************************************************************)

\* set_status(Connecting); without realtime the running stream is stopped; the
\* credential and its session are installed before the clock is synchronised.
InstallSession(session, realtime) ==
  /\ status' = "connecting"
  /\ IF realtime THEN UNCHANGED <<stream, worker>> ELSE StopStream
  /\ api' = session

\* The clock could be synchronised.
Synchronised ==
  /\ status' = "connected"
  /\ IF task.realtime THEN StartStream(api) ELSE UNCHANGED <<stream, worker>>
  /\ UNCHANGED api

ConnectInstall ==
  /\ task.op = "connect" /\ Holding("start")
  /\ InstallSession(Current, task.realtime)
  /\ Goto("sync")
  /\ UNCHANGED <<cfg, loadable, creds, epoch, request, data, owners, torn>>

\* The local candles cannot be read, and nothing has happened yet; or no usable
\* credential was given or stored.
ConnectRefuse ==
  /\ task.op = "connect" /\ Holding("start")
  /\ \/ UNCHANGED <<status, stream, worker>>
     \/ /\ status' = "error"
        /\ IF task.realtime THEN UNCHANGED <<stream, worker>> ELSE StopStream
  /\ Release
  /\ UNCHANGED <<cfg, loadable, creds, epoch, api, request, data, owners, torn>>

SyncClock ==
  /\ Holding("sync")
  /\ Synchronised
  /\ IF task.op = "connect" THEN Release
     ELSE Goto(IF task.undo = "none" THEN "commit" ELSE "rolled_back")
  /\ UNCHANGED <<cfg, loadable, creds, epoch, request, data, owners, torn>>

FailSyncClock ==
  /\ Holding("sync")
  /\ status' = "error"
  /\ IF task.op = "connect" THEN Release
     ELSE IF task.undo = "none" THEN Goto("rollback")
     ELSE task' = [task EXCEPT !.pc = "rolled_back", !.undo = "failed"]
  /\ UNCHANGED <<cfg, loadable, creds, epoch, api, stream, worker, request, data, owners, torn>>

DisconnectCommand ==
  /\ task.op = "disconnect" /\ Holding("start")
  /\ Disconnect
  /\ Release
  /\ UNCHANGED <<cfg, loadable, creds, epoch, request, data, owners, torn>>

-----------------------------------------------------------------------------
(***************************************************************************)
(* switch_account and rollback_switch.                                     *)
(***************************************************************************)
SwitchTo(config, target) == [config EXCEPT !.active = target]

\* The target is active or unknown, a credential cannot be loaded, or the
\* preflight fails: nothing has happened yet.
SwitchRefuse ==
  /\ task.op = "switch" /\ Holding("start")
  /\ Release
  /\ KeepConnection
  /\ UNCHANGED <<cfg, loadable, creds, epoch, request, data, owners, torn>>

SwitchDisconnect ==
  /\ task.op = "switch" /\ Holding("start")
  /\ task.target \in cfg.accounts \ {cfg.active} /\ creds[task.target] # None
  /\ status = "connected" => creds[cfg.active] # None
  /\ epoch < MaxEpoch
  /\ task' = [task EXCEPT !.pc = "persist", !.former = cfg, !.connected = (status = "connected")]
  /\ Disconnect
  /\ UNCHANGED <<cfg, loadable, creds, epoch, request, data, owners, torn>>

SwitchPersist ==
  /\ task.op = "switch" /\ Holding("persist")
  /\ Persist(SwitchTo(cfg, task.target))
  /\ cfg' = SwitchTo(cfg, task.target)
  /\ Goto(IF task.connected THEN "connect" ELSE "commit")
  /\ KeepConnection
  /\ UNCHANGED <<creds, epoch, request, data, owners, torn>>

SwitchFailPersist ==
  /\ task.op = "switch" /\ Holding("persist")
  /\ FailPersist(SwitchTo(cfg, task.target))
  /\ Goto("rollback")
  /\ KeepConnection
  /\ UNCHANGED <<cfg, creds, epoch, request, data, owners, torn>>

\* Mutant of SwitchConnect: the target connects under the epoch in force.
SwitchConnect_SameEpoch ==
  /\ Holding("connect")
  /\ InstallSession([account |-> task.target, epoch |-> epoch], task.realtime)
  /\ Goto("sync")
  /\ UNCHANGED <<cfg, loadable, creds, epoch, request, data, owners, torn>>

\* next_session_epoch: the epoch the switch will have when it is committed.
SwitchConnect ==
  /\ Holding("connect")
  /\ InstallSession([account |-> task.target, epoch |-> epoch + 1], task.realtime)
  /\ Goto("sync")
  /\ UNCHANGED <<cfg, loadable, creds, epoch, request, data, owners, torn>>

\* Mutant of SwitchCommit: the analytics data of the former account are kept.
SwitchCommit_KeepsData ==
  /\ Holding("commit")
  /\ epoch' = epoch + 1
  /\ Release
  /\ KeepConnection
  /\ UNCHANGED <<cfg, loadable, creds, request, data, owners, torn>>

\* Mutant of SwitchCommit: the epoch advances only when a session was opened.
SwitchCommit_OfflineKeepsEpoch ==
  /\ Holding("commit")
  /\ data' = None
  /\ epoch' = IF task.connected THEN epoch + 1 ELSE epoch
  /\ Release
  /\ KeepConnection
  /\ UNCHANGED <<cfg, loadable, creds, request, owners, torn>>

\* clear_account_data, advance_session_epoch.
SwitchCommit ==
  /\ Holding("commit")
  /\ data' = None
  /\ epoch' = epoch + 1
  /\ Release
  /\ KeepConnection
  /\ UNCHANGED <<cfg, loadable, creds, request, owners, torn>>

\* The former config is saved again, put back in force, and the former account
\* is to be reconnected if it was connected.
Rollback ==
  /\ Holding("rollback")
  /\ \/ Persist(task.former)
        /\ task' = [task EXCEPT !.undo = "clean",
                                !.pc = IF task.connected THEN "reconnect" ELSE "rolled_back"]
     \/ FailPersist(task.former)
        /\ task' = [task EXCEPT !.undo = "failed",
                                !.pc = IF task.connected THEN "reconnect" ELSE "rolled_back"]
  /\ cfg' = task.former
  /\ KeepConnection
  /\ UNCHANGED <<creds, epoch, request, data, owners, torn>>

\* With or without realtime as the settings say, not as it was asked for.
RollbackReconnect ==
  /\ Holding("reconnect")
  /\ \E realtime \in BOOLEAN :
       /\ InstallSession(Current, realtime)
       /\ task' = [task EXCEPT !.pc = "sync", !.realtime = realtime]
  /\ UNCHANGED <<cfg, loadable, creds, epoch, request, data, owners, torn>>

\* Mutant of RollbackEnd: the connection stays as the rollback left it.
RollbackEnd_StaysConnected ==
  /\ Holding("rolled_back")
  /\ KeepConnection
  /\ Release
  /\ UNCHANGED <<cfg, loadable, creds, epoch, request, data, owners, torn>>

\* When a part of the rollback failed the client ends up disconnected.
RollbackEnd ==
  /\ Holding("rolled_back")
  /\ IF task.undo = "failed" THEN Disconnect ELSE KeepConnection
  /\ Release
  /\ UNCHANGED <<cfg, loadable, creds, epoch, request, data, owners, torn>>

-----------------------------------------------------------------------------
(***************************************************************************)
(* delete_account, save_credentials and the settings commands.             *)
(***************************************************************************)
Tear == torn' = torn \cup {task.target}

SetCredential(value) == creds' = [creds EXCEPT ![task.target] = value]

\* A refused request or a keyring that fails.
KeyringRefuse ==
  /\ task.op \in {"delete", "save_credentials"} /\ Holding("start")
  /\ Release
  /\ KeepConnection
  /\ UNCHANGED <<cfg, loadable, creds, epoch, request, data, owners, torn>>

\* Mutant of DeleteCredential: the active account can be deleted.
DeleteCredential_Active ==
  /\ task.op = "delete" /\ Holding("start")
  /\ task.target \in cfg.accounts /\ Cardinality(cfg.accounts) > 1
  /\ SetCredential(None)
  /\ task' = [task EXCEPT !.pc = "persist", !.old = creds[task.target]]
  /\ KeepConnection
  /\ UNCHANGED <<cfg, loadable, epoch, request, data, owners, torn>>

DeleteCredential ==
  /\ task.op = "delete" /\ Holding("start")
  /\ task.target \in cfg.accounts \ {cfg.active} /\ Cardinality(cfg.accounts) > 1
  /\ SetCredential(None)
  /\ task' = [task EXCEPT !.pc = "persist", !.old = creds[task.target]]
  /\ KeepConnection
  /\ UNCHANGED <<cfg, loadable, epoch, request, data, owners, torn>>

SaveCredential ==
  /\ task.op = "save_credentials" /\ Holding("start")
  /\ SetCredential(task.cred)
  /\ task' = [task EXCEPT !.pc = "persist", !.old = creds[task.target]]
  /\ KeepConnection
  /\ UNCHANGED <<cfg, loadable, epoch, request, data, owners, torn>>

\* Mutant of Relisted: deleting an account leaves it in the list.
Relisted_KeepsDeleted == [cfg EXCEPT !.accounts = @ \cup {task.target}]

\* The config that lists the account, or no longer lists it.
Relisted ==
  [cfg EXCEPT !.accounts = IF task.op = "delete" THEN @ \ {task.target}
                                                 ELSE @ \cup {task.target}]

\* The account is listed as its credential says; earlier failures are mended.
KeyringPersist ==
  /\ task.op \in {"delete", "save_credentials"} /\ Holding("persist")
  /\ Persist(Relisted) /\ cfg' = Relisted
  /\ torn' = torn \ {task.target}
  /\ Release
  /\ KeepConnection
  /\ UNCHANGED <<creds, epoch, request, data, owners>>

KeyringFailPersist ==
  /\ task.op \in {"delete", "save_credentials"} /\ Holding("persist")
  /\ FailPersist(Relisted)
  /\ Tear
  /\ Goto("restore")
  /\ KeepConnection
  /\ UNCHANGED <<cfg, creds, epoch, request, data, owners>>

\* Mutant of KeyringRestore: a failed change always ends without a credential.
KeyringRestore_Deletes ==
  /\ Holding("restore")
  /\ SetCredential(None)
  /\ Release
  /\ KeepConnection
  /\ UNCHANGED <<cfg, loadable, epoch, request, data, owners, torn>>

\* The credential is put back as it was, if the keyring lets us.
KeyringRestore ==
  /\ Holding("restore")
  /\ SetCredential(task.old) \/ UNCHANGED creds
  /\ Release
  /\ KeepConnection
  /\ UNCHANGED <<cfg, loadable, epoch, request, data, owners, torn>>

\* Every command that changes another setting saves the whole config, with the
\* accounts of the one in force; choosing another chart restarts the stream.
SaveConfig ==
  /\ task.op = "save_config" /\ Holding("start")
  /\ \/ /\ Persist(cfg)
        /\ IF task.realtime /\ status = "connected"
           THEN StartStream(Current) ELSE UNCHANGED <<stream, worker>>
     \/ FailPersist(cfg) /\ UNCHANGED <<stream, worker>>
  /\ Release
  /\ UNCHANGED <<cfg, creds, epoch, status, api, request, data, owners, torn>>

-----------------------------------------------------------------------------
\* The process ends at any point and starts again.
Restart ==
  /\ cfg' \in loadable
  /\ epoch' = 0 /\ status' = "disconnected"
  /\ api' = None /\ stream' = None /\ worker' = "none" /\ request' = None /\ data' = None
  /\ task' = Free
  /\ owners' = [e \in 0 .. MaxEpoch |-> {}]
  /\ torn' = IF Holding("persist") \/ Holding("restore")
             THEN torn \cup {task.target} ELSE torn
  /\ UNCHANGED <<loadable, creds>>

Command ==
  \/ \E realtime \in BOOLEAN : Queue("connect", None, None, realtime)
  \/ \E realtime \in BOOLEAN : Queue("save_config", None, None, realtime)
  \/ Queue("disconnect", None, None, FALSE)
  \/ \E a \in Accounts :
       \/ \E realtime \in BOOLEAN : Queue("switch", a, None, realtime)
       \/ Queue("delete", a, None, FALSE)
       \/ \E c \in Credentials : Queue("save_credentials", a, c, FALSE)

Mutation ==
  \/ Acquire
  \/ ConnectInstall \/ ConnectRefuse \/ SyncClock \/ FailSyncClock \/ DisconnectCommand
  \/ SwitchRefuse \/ SwitchDisconnect \/ SwitchPersist \/ SwitchFailPersist
  \/ SwitchConnect \/ SwitchCommit \/ Rollback \/ RollbackReconnect \/ RollbackEnd
  \/ KeyringRefuse \/ DeleteCredential \/ SaveCredential
  \/ KeyringPersist \/ KeyringFailPersist \/ KeyringRestore
  \/ SaveConfig

Reader == BeginRequest \/ EndRequest \/ StreamEvent \/ StreamGuard \/ StreamObserve

Next == Command \/ Mutation \/ Reader \/ Restart

Spec == Init /\ [][Next]_vars

\* Every step of a mutation ends (the HTTP client has a total timeout, the
\* keyring and the disk answer), and so does what a reader does under the lock.
FairSpec == Spec /\ WF_vars(Mutation) /\ WF_vars(EndRequest) /\ WF_vars(StreamObserve)

-----------------------------------------------------------------------------
\* Whoever holds the read side of the lock acts for the account in force: the
\* installed credential and the stream belong to it and to its epoch, however
\* the mutations before ended.
SessionOwned ==
  task.pc \in {"free", "queued"} => {api, stream, request} \subseteq {Current, None}

\* An epoch stands for one account: what is done under it, by requests and by
\* the stream, is done for that account only, so a receiver may tell stale
\* results by the epoch.
OneAccountPerEpoch == \A e \in 0 .. MaxEpoch : Cardinality(owners[e]) <= 1

\* The analytics service never shows one account the trades of another.
DataOwned == ReadLock => data \in {cfg.active, None}

\* A switch that failed has changed nothing, now and for the next start: the
\* former account is in force, and connected if it was; or else the client ends
\* up disconnected, with nothing installed that could act for either account.
FailedSwitchSettled ==
  [][Holding("rolled_back") /\ task' # task =>
       \/ /\ task.undo = "clean"
          /\ cfg' = task.former /\ loadable' = {task.former}
          /\ api' = IF task.connected THEN Current ELSE None
          /\ task.connected <=> status' = "connected"
       \/ /\ task.undo = "failed" \/ Restart
          /\ status' = "disconnected" /\ {api', stream'} = {None}]_vars

\* A listed account has its credential, at once and after every restart, unless
\* a change of that very account failed or was cut short.
ListedUsable ==
  \A c \in loadable \cup {cfg} : \A a \in c.accounts :
    creds[a] = None => a \in torn \/ (task.target = a /\ task.pc \in {"persist", "restore"})

\* No command, failure or restart takes the credential of the account in force
\* away, except that a failed command takes back the first one it had just saved.
ActiveCredentialKept ==
  [][creds[cfg.active] # None /\ creds'[cfg.active] = None =>
       task.op = "save_credentials" /\ task.old = None]_vars

\* A mutation that waits or runs comes to its end: the worker it has to stop may
\* itself be waiting for the lock the mutation holds.
MutationsEnd == task.op # "none" ~> task.op = "none"
=============================================================================
