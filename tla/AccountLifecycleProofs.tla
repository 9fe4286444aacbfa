------------------------ MODULE AccountLifecycleProofs ------------------------
(***************************************************************************)
(* The properties of AccountLifecycle for every set of accounts and any    *)
(* number of switches: first who owns the sessions and the data, then what *)
(* happens to the credentials and how a failed switch ends.                *)
(***************************************************************************)
EXTENDS AccountLifecycle, FiniteSetTheorems, TLAPS

\* A switch that has disconnected the former account.
InSwitch == task.op = "switch" /\ task.pc \notin {"queued", "start"}

\* The session a switch installs for its target.
TargetSession == [account |-> task.target, epoch |-> epoch + 1]

\* The account for which things were done under the current epoch.
Base == IF InSwitch THEN task.former.active ELSE cfg.active

\* Which commands pass through which steps, and what they know by then.
Steps ==
  /\ task.pc = "free" <=> task.op = "none"
  /\ task.pc \in {"connect", "commit", "rollback", "reconnect", "rolled_back"} => task.op = "switch"
  /\ task.pc = "sync" => task.op \in {"connect", "switch"}
  /\ task.pc = "persist" => task.op \in {"switch", "delete", "save_credentials"}
  /\ task.pc = "restore" => task.op \in {"delete", "save_credentials"}
  /\ task.op \in {"switch", "delete", "save_credentials"} => task.target \in Accounts
  /\ task.op = "delete" /\ task.pc \in {"persist", "restore"} => task.target # cfg.active
  /\ task.pc \in {"reconnect", "rolled_back"} => task.undo # "none"
  /\ task.undo # "none" => task.pc \in {"reconnect", "sync", "rolled_back"} /\ task.op = "switch"

\* Readers exclude mutations.
Exclusion ==
  /\ request \in {Current, None}
  /\ task.pc \notin {"free", "queued"} => request = None /\ worker # "observing"

\* Outside a switch the sessions belong to the account in force.
Settled ==
  ~InSwitch =>
    /\ {api, stream} \subseteq {Current, None}
    /\ task.pc = "sync" => api = Current

\* What each step of a switch has left.
Switching ==
  InSwitch =>
    /\ task.former \in Config /\ epoch < MaxEpoch
    /\ task.pc = "persist" => cfg = task.former /\ task.target \in cfg.accounts
    /\ task.pc \in {"connect", "commit"} \/ (task.pc = "sync" /\ task.undo = "none") =>
         cfg.active = task.target
    /\ task.pc \in {"reconnect", "rolled_back"} \/ (task.pc = "sync" /\ task.undo # "none") =>
         cfg = task.former
    /\ task.pc \in {"persist", "connect"} => api = None
    /\ task.pc \in {"connect", "sync", "reconnect"} => task.connected
    /\ task.pc = "rollback" /\ ~task.connected => api = None
    /\ task.pc = "sync" => api = (IF task.undo = "none" THEN TargetSession ELSE Current)
    /\ task.pc = "commit" => {api, stream} \subseteq {TargetSession, None}
    /\ task.pc \in {"persist", "connect", "sync", "rollback", "reconnect"} => stream = None
    /\ task.pc = "rolled_back" /\ task.undo = "clean" => {api, stream} \subseteq {Current, None}

\* What was done under this epoch and the earlier ones.
Ownership ==
  /\ data \in {Base, None}
  /\ owners[epoch] \subseteq {Base}
  /\ \A e \in 0 .. MaxEpoch : e > epoch => owners[e] = {}
  /\ \A e \in 0 .. MaxEpoch : \E a \in Accounts : owners[e] \subseteq {a}

IInv == TypeOK /\ Steps /\ Exclusion /\ Settled /\ Switching /\ Ownership

-----------------------------------------------------------------------------
LEMMA InitInv == Init => IInv
  BY AccountAssumption, EpochAssumption
  DEF Init, IInv, TypeOK, Steps, Exclusion, Settled, Switching, Ownership, InSwitch, Base,
      Current, Free, Task, Ops, Config, Session

LEMMA QueueInv ==
  ASSUME IInv, NEW op \in Ops, NEW target \in Accounts \cup {None},
         NEW cred \in Credentials \cup {None}, NEW realtime \in BOOLEAN,
         op \in {"switch", "delete", "save_credentials"} => target \in Accounts,
         Queue(op, target, cred, realtime)
  PROVE  IInv'
<1>. USE AccountAssumption, EpochAssumption
     DEF Queue, Free, IInv, TypeOK, Task, Ops, Steps, InSwitch, Current
<1>1. TypeOK'
  <2>1. task' \in Task  OBVIOUS
  <2>2. /\ cfg' \in Config /\ loadable' \subseteq Config /\ loadable' # {}
        /\ creds' \in [Accounts -> Credentials \cup {None}] /\ epoch' \in 0 .. MaxEpoch
        /\ status' \in {"disconnected", "connecting", "connected", "error"}
        /\ {api', stream', request'} \subseteq Session \cup {None}
        /\ worker' \in {"none", "reading", "waiting", "observing"}
        /\ data' \in Accounts \cup {None}
        /\ owners' \in [0 .. MaxEpoch -> SUBSET Accounts] /\ torn' \subseteq Accounts
    BY DEF Config, Session, Switching, Settled, Exclusion, TargetSession
  <2>. QED  BY <2>1, <2>2
<1>2. Steps'  BY DEF Switching
<1>3. Exclusion'  BY DEF Exclusion
<1>4. Settled'  BY DEF Settled, Switching, TargetSession
<1>5. Switching'  BY DEF Config, Settled, Switching, TargetSession
<1>6. Ownership'
  BY DEF Config, Session, Exclusion, Settled, Switching, TargetSession, Ownership, Base
<1>. QED  BY <1>1, <1>2, <1>3, <1>4, <1>5, <1>6

LEMMA ConnectInstallInv ==
  ASSUME IInv, ConnectInstall
  PROVE  IInv'
<1>. USE AccountAssumption, EpochAssumption
     DEF ConnectInstall, Holding, Goto, InstallSession, StopStream, IInv, TypeOK, Task,
         Ops, Steps, InSwitch, Current
<1>1. TypeOK'  BY DEF Config, Session, Switching, Settled, Exclusion, TargetSession
<1>2. Steps'  BY DEF Switching
<1>3. Exclusion'  BY DEF Exclusion
<1>4. Settled'  BY DEF Settled, Switching, TargetSession
<1>5. Switching'  BY DEF Config, Settled, Switching, TargetSession
<1>6. Ownership'
  BY DEF Config, Session, Exclusion, Settled, Switching, TargetSession, Ownership, Base
<1>. QED  BY <1>1, <1>2, <1>3, <1>4, <1>5, <1>6

LEMMA ConnectRefuseInv ==
  ASSUME IInv, ConnectRefuse
  PROVE  IInv'
<1>. USE AccountAssumption, EpochAssumption
     DEF ConnectRefuse, Holding, StopStream, Release, Free, IInv, TypeOK, Task, Ops,
         Steps, InSwitch, Current
<1>1. TypeOK'  BY DEF Config, Session, Switching, Settled, Exclusion, TargetSession
<1>2. Steps'  BY DEF Switching
<1>3. Exclusion'  BY DEF Exclusion
<1>4. Settled'  BY DEF Settled, Switching, TargetSession
<1>5. Switching'  BY DEF Config, Settled, Switching, TargetSession
<1>6. Ownership'
  BY DEF Config, Session, Exclusion, Settled, Switching, TargetSession, Ownership, Base
<1>. QED  BY <1>1, <1>2, <1>3, <1>4, <1>5, <1>6

LEMMA SyncClockInv ==
  ASSUME IInv, SyncClock
  PROVE  IInv'
<1>. USE AccountAssumption, EpochAssumption DEF IInv, TypeOK, Task, Ops, Steps, InSwitch, Current
<1>0. task.pc = "sync" /\ task \in Task  BY DEF SyncClock, Holding
<1>1. CASE task.op = "connect"
  <2>1. /\ task' = Free /\ status' = "connected"
        /\ stream' \in {stream, api} /\ worker' \in {worker, "reading"}
        /\ UNCHANGED <<cfg, loadable, creds, epoch, api, request, data, owners, torn>>
    BY <1>1 DEF SyncClock, Synchronised, StartStream, Release
  <2>2. task' \in Task /\ Free \in Task
    BY <1>0, <1>1, <2>1 DEF Free
  <2>3. TypeOK'  BY <1>0, <1>1, <2>1, <2>2 DEF Free
  <2>4. Steps'  BY <1>0, <1>1, <2>1, <2>2 DEF Switching, Free
  <2>5. Exclusion'  BY <1>0, <1>1, <2>1, <2>2 DEF Exclusion, Free
  <2>6. Settled'  BY <1>0, <1>1, <2>1, <2>2 DEF Settled, Switching, TargetSession, Free
  <2>7. Switching'
    BY <1>0, <1>1, <2>1, <2>2 DEF Config, Settled, Switching, TargetSession, Free
  <2>8. Ownership'
    BY <1>0, <1>1, <2>1, <2>2
    DEF Config, Session, Exclusion, Settled, Switching, TargetSession, Ownership, Base, Free
  <2>. QED  BY <2>3, <2>4, <2>5, <2>6, <2>7, <2>8
<1>2. CASE task.op # "connect" /\ task.undo = "none"
  <2>1. /\ task' = [task EXCEPT !.pc = "commit"] /\ status' = "connected"
        /\ stream' \in {stream, api} /\ worker' \in {worker, "reading"}
        /\ UNCHANGED <<cfg, loadable, creds, epoch, api, request, data, owners, torn>>
    BY <1>2 DEF SyncClock, Synchronised, StartStream, Goto
  <2>2. task' \in Task /\ task'.op = task.op /\ task'.target = task.target
        /\ task'.former = task.former /\ task'.connected = task.connected
        /\ task'.pc = "commit" /\ task'.undo = "none"
    BY <1>0, <1>2, <2>1 DEF Free
  <2>3. TypeOK'  BY <1>0, <1>2, <2>1, <2>2
  <2>4. Steps'  BY <1>0, <1>2, <2>1, <2>2 DEF Switching
  <2>5. Exclusion'  BY <1>0, <1>2, <2>1, <2>2 DEF Exclusion
  <2>6. Settled'  BY <1>0, <1>2, <2>1, <2>2 DEF Settled, Switching, TargetSession
  <2>7. Switching'  BY <1>0, <1>2, <2>1, <2>2 DEF Config, Settled, Switching, TargetSession
  <2>8. Ownership'
    BY <1>0, <1>2, <2>1, <2>2
    DEF Config, Session, Exclusion, Settled, Switching, TargetSession, Ownership, Base
  <2>. QED  BY <2>3, <2>4, <2>5, <2>6, <2>7, <2>8
<1>3. CASE task.op # "connect" /\ task.undo # "none"
  <2>1. /\ task' = [task EXCEPT !.pc = "rolled_back"] /\ status' = "connected"
        /\ stream' \in {stream, api} /\ worker' \in {worker, "reading"}
        /\ UNCHANGED <<cfg, loadable, creds, epoch, api, request, data, owners, torn>>
    BY <1>3 DEF SyncClock, Synchronised, StartStream, Goto
  <2>2. task' \in Task /\ task'.op = task.op /\ task'.target = task.target
        /\ task'.former = task.former /\ task'.connected = task.connected
        /\ task'.pc = "rolled_back" /\ task'.undo = task.undo
    BY <1>0, <1>3, <2>1 DEF Free
  <2>3. TypeOK'  BY <1>0, <1>3, <2>1, <2>2
  <2>4. Steps'  BY <1>0, <1>3, <2>1, <2>2 DEF Switching
  <2>5. Exclusion'  BY <1>0, <1>3, <2>1, <2>2 DEF Exclusion
  <2>6. Settled'  BY <1>0, <1>3, <2>1, <2>2 DEF Settled, Switching, TargetSession
  <2>7. Switching'  BY <1>0, <1>3, <2>1, <2>2 DEF Config, Settled, Switching, TargetSession
  <2>8. Ownership'
    BY <1>0, <1>3, <2>1, <2>2
    DEF Config, Session, Exclusion, Settled, Switching, TargetSession, Ownership, Base
  <2>. QED  BY <2>3, <2>4, <2>5, <2>6, <2>7, <2>8
<1>. QED  BY <1>1, <1>2, <1>3

LEMMA FailSyncClockInv ==
  ASSUME IInv, FailSyncClock
  PROVE  IInv'
<1>. USE AccountAssumption, EpochAssumption DEF IInv, TypeOK, Task, Ops, Steps, InSwitch, Current
<1>0. task.pc = "sync" /\ task \in Task  BY DEF FailSyncClock, Holding
<1>1. CASE task.op = "connect"
  <2>1. /\ task' = Free /\ status' = "error"
        /\ UNCHANGED <<cfg, loadable, creds, epoch, api, stream, worker, request, data, owners, torn>>
    BY <1>1 DEF FailSyncClock, Release
  <2>2. task' \in Task /\ Free \in Task
    BY <1>0, <1>1, <2>1 DEF Free
  <2>3. TypeOK'  BY <1>0, <1>1, <2>1, <2>2 DEF Free
  <2>4. Steps'  BY <1>0, <1>1, <2>1, <2>2 DEF Switching, Free
  <2>5. Exclusion'  BY <1>0, <1>1, <2>1, <2>2 DEF Exclusion, Free
  <2>6. Settled'  BY <1>0, <1>1, <2>1, <2>2 DEF Settled, Switching, TargetSession, Free
  <2>7. Switching'
    BY <1>0, <1>1, <2>1, <2>2 DEF Config, Settled, Switching, TargetSession, Free
  <2>8. Ownership'
    BY <1>0, <1>1, <2>1, <2>2
    DEF Config, Session, Exclusion, Settled, Switching, TargetSession, Ownership, Base, Free
  <2>. QED  BY <2>3, <2>4, <2>5, <2>6, <2>7, <2>8
<1>2. CASE task.op # "connect" /\ task.undo = "none"
  <2>1. /\ task' = [task EXCEPT !.pc = "rollback"] /\ status' = "error"
        /\ UNCHANGED <<cfg, loadable, creds, epoch, api, stream, worker, request, data, owners, torn>>
    BY <1>2 DEF FailSyncClock, Goto
  <2>2. task' \in Task /\ task'.op = task.op /\ task'.target = task.target
        /\ task'.former = task.former /\ task'.connected = task.connected
        /\ task'.pc = "rollback" /\ task'.undo = "none"
    BY <1>0, <1>2, <2>1 DEF Free
  <2>3. TypeOK'  BY <1>0, <1>2, <2>1, <2>2
  <2>4. Steps'  BY <1>0, <1>2, <2>1, <2>2 DEF Switching
  <2>5. Exclusion'  BY <1>0, <1>2, <2>1, <2>2 DEF Exclusion
  <2>6. Settled'  BY <1>0, <1>2, <2>1, <2>2 DEF Settled, Switching, TargetSession
  <2>7. Switching'  BY <1>0, <1>2, <2>1, <2>2 DEF Config, Settled, Switching, TargetSession
  <2>8. Ownership'
    BY <1>0, <1>2, <2>1, <2>2
    DEF Config, Session, Exclusion, Settled, Switching, TargetSession, Ownership, Base
  <2>. QED  BY <2>3, <2>4, <2>5, <2>6, <2>7, <2>8
<1>3. CASE task.op # "connect" /\ task.undo # "none"
  <2>1. /\ task' = [task EXCEPT !.pc = "rolled_back", !.undo = "failed"] /\ status' = "error"
        /\ UNCHANGED <<cfg, loadable, creds, epoch, api, stream, worker, request, data, owners, torn>>
    BY <1>3 DEF FailSyncClock
  <2>2. task' \in Task /\ task'.op = task.op /\ task'.target = task.target
        /\ task'.former = task.former /\ task'.connected = task.connected
        /\ task'.pc = "rolled_back" /\ task'.undo = "failed"
    BY <1>0, <1>3, <2>1 DEF Free
  <2>3. TypeOK'  BY <1>0, <1>3, <2>1, <2>2
  <2>4. Steps'  BY <1>0, <1>3, <2>1, <2>2 DEF Switching
  <2>5. Exclusion'  BY <1>0, <1>3, <2>1, <2>2 DEF Exclusion
  <2>6. Settled'  BY <1>0, <1>3, <2>1, <2>2 DEF Settled, Switching, TargetSession
  <2>7. Switching'  BY <1>0, <1>3, <2>1, <2>2 DEF Config, Settled, Switching, TargetSession
  <2>8. Ownership'
    BY <1>0, <1>3, <2>1, <2>2
    DEF Config, Session, Exclusion, Settled, Switching, TargetSession, Ownership, Base
  <2>. QED  BY <2>3, <2>4, <2>5, <2>6, <2>7, <2>8
<1>. QED  BY <1>1, <1>2, <1>3

LEMMA DisconnectCommandInv ==
  ASSUME IInv, DisconnectCommand
  PROVE  IInv'
<1>. USE AccountAssumption, EpochAssumption
     DEF DisconnectCommand, Holding, Disconnect, StopStream, Release, Free, IInv,
         TypeOK, Task, Ops, Steps, InSwitch, Current
<1>1. TypeOK'  BY DEF Config, Session, Switching, Settled, Exclusion, TargetSession
<1>2. Steps'  BY DEF Switching
<1>3. Exclusion'  BY DEF Exclusion
<1>4. Settled'  BY DEF Settled, Switching, TargetSession
<1>5. Switching'  BY DEF Config, Settled, Switching, TargetSession
<1>6. Ownership'
  BY DEF Config, Session, Exclusion, Settled, Switching, TargetSession, Ownership, Base
<1>. QED  BY <1>1, <1>2, <1>3, <1>4, <1>5, <1>6

LEMMA SwitchRefuseInv ==
  ASSUME IInv, SwitchRefuse
  PROVE  IInv'
<1>. USE AccountAssumption, EpochAssumption
     DEF SwitchRefuse, Holding, KeepConnection, Release, Free, IInv, TypeOK, Task, Ops,
         Steps, InSwitch, Current
<1>1. TypeOK'  BY DEF Config, Session, Switching, Settled, Exclusion, TargetSession
<1>2. Steps'  BY DEF Switching
<1>3. Exclusion'  BY DEF Exclusion
<1>4. Settled'  BY DEF Settled, Switching, TargetSession
<1>5. Switching'  BY DEF Config, Settled, Switching, TargetSession
<1>6. Ownership'
  BY DEF Config, Session, Exclusion, Settled, Switching, TargetSession, Ownership, Base
<1>. QED  BY <1>1, <1>2, <1>3, <1>4, <1>5, <1>6

LEMMA SwitchDisconnectInv ==
  ASSUME IInv, SwitchDisconnect
  PROVE  IInv'
<1>. USE AccountAssumption, EpochAssumption
     DEF SwitchDisconnect, Holding, Disconnect, StopStream, IInv, TypeOK, Task, Ops,
         Steps, InSwitch, Current
<1>1. TypeOK'  BY DEF Config, Session, Switching, Settled, Exclusion, TargetSession
<1>2. Steps'  BY DEF Switching
<1>3. Exclusion'  BY DEF Exclusion
<1>4. Settled'  BY DEF Settled, Switching, TargetSession
<1>5. Switching'  BY DEF Config, Settled, Switching, TargetSession
<1>6. Ownership'
  BY DEF Config, Session, Exclusion, Settled, Switching, TargetSession, Ownership, Base
<1>. QED  BY <1>1, <1>2, <1>3, <1>4, <1>5, <1>6

LEMMA SwitchPersistInv ==
  ASSUME IInv, SwitchPersist
  PROVE  IInv'
<1>. USE AccountAssumption, EpochAssumption
     DEF SwitchPersist, Holding, Goto, KeepConnection, Persist, FailPersist, SwitchTo,
         IInv, TypeOK, Task, Ops, Steps, InSwitch, Current
<1>1. TypeOK'  BY DEF Config, Session, Switching, Settled, Exclusion, TargetSession
<1>2. Steps'  BY DEF Switching
<1>3. Exclusion'  BY DEF Exclusion
<1>4. Settled'  BY DEF Settled, Switching, TargetSession
<1>5. Switching'  BY DEF Config, Settled, Switching, TargetSession
<1>6. Ownership'
  BY DEF Config, Session, Exclusion, Settled, Switching, TargetSession, Ownership, Base
<1>. QED  BY <1>1, <1>2, <1>3, <1>4, <1>5, <1>6

LEMMA SwitchFailPersistInv ==
  ASSUME IInv, SwitchFailPersist
  PROVE  IInv'
<1>. USE AccountAssumption, EpochAssumption
     DEF SwitchFailPersist, Holding, Goto, KeepConnection, FailPersist, SwitchTo, IInv,
         TypeOK, Task, Ops, Steps, InSwitch, Current
<1>1. TypeOK'
  <2>1. task' \in Task  OBVIOUS
  <2>2. /\ cfg' \in Config /\ loadable' \subseteq Config /\ loadable' # {}
        /\ creds' \in [Accounts -> Credentials \cup {None}] /\ epoch' \in 0 .. MaxEpoch
        /\ status' \in {"disconnected", "connecting", "connected", "error"}
        /\ {api', stream', request'} \subseteq Session \cup {None}
        /\ worker' \in {"none", "reading", "waiting", "observing"}
        /\ data' \in Accounts \cup {None}
        /\ owners' \in [0 .. MaxEpoch -> SUBSET Accounts] /\ torn' \subseteq Accounts
    BY DEF Config, Session, Switching, Settled, Exclusion, TargetSession
  <2>. QED  BY <2>1, <2>2
<1>2. Steps'  BY DEF Switching
<1>3. Exclusion'  BY DEF Exclusion
<1>4. Settled'  BY DEF Settled, Switching, TargetSession
<1>5. Switching'  BY DEF Config, Settled, Switching, TargetSession
<1>6. Ownership'
  BY DEF Config, Session, Exclusion, Settled, Switching, TargetSession, Ownership, Base
<1>. QED  BY <1>1, <1>2, <1>3, <1>4, <1>5, <1>6

LEMMA SwitchConnectInv ==
  ASSUME IInv, SwitchConnect
  PROVE  IInv'
<1>. USE AccountAssumption, EpochAssumption
     DEF SwitchConnect, Holding, Goto, InstallSession, StopStream, IInv, TypeOK, Task,
         Ops, Steps, InSwitch, Current
<1>1. TypeOK'
  <2>1. task' \in Task  OBVIOUS
  <2>2. /\ cfg' \in Config /\ loadable' \subseteq Config /\ loadable' # {}
        /\ creds' \in [Accounts -> Credentials \cup {None}] /\ epoch' \in 0 .. MaxEpoch
        /\ status' \in {"disconnected", "connecting", "connected", "error"}
        /\ {api', stream', request'} \subseteq Session \cup {None}
        /\ worker' \in {"none", "reading", "waiting", "observing"}
        /\ data' \in Accounts \cup {None}
        /\ owners' \in [0 .. MaxEpoch -> SUBSET Accounts] /\ torn' \subseteq Accounts
    BY DEF Config, Session, Switching, Settled, Exclusion, TargetSession
  <2>. QED  BY <2>1, <2>2
<1>2. Steps'  BY DEF Switching
<1>3. Exclusion'  BY DEF Exclusion
<1>4. Settled'  BY DEF Settled, Switching, TargetSession
<1>5. Switching'  BY DEF Config, Settled, Switching, TargetSession
<1>6. Ownership'
  BY DEF Config, Session, Exclusion, Settled, Switching, TargetSession, Ownership, Base
<1>. QED  BY <1>1, <1>2, <1>3, <1>4, <1>5, <1>6

LEMMA SwitchCommitInv ==
  ASSUME IInv, SwitchCommit
  PROVE  IInv'
<1>. USE AccountAssumption, EpochAssumption
     DEF SwitchCommit, Holding, KeepConnection, Release, Free, IInv, TypeOK, Task, Ops,
         Steps, InSwitch, Current
<1>1. TypeOK'  BY DEF Config, Session, Switching, Settled, Exclusion, TargetSession
<1>2. Steps'  BY DEF Switching
<1>3. Exclusion'  BY DEF Exclusion
<1>4. Settled'  BY DEF Settled, Switching, TargetSession
<1>5. Switching'  BY DEF Config, Settled, Switching, TargetSession
<1>6. Ownership'
  BY DEF Config, Session, Exclusion, Settled, Switching, TargetSession, Ownership, Base
<1>. QED  BY <1>1, <1>2, <1>3, <1>4, <1>5, <1>6

LEMMA RollbackInv ==
  ASSUME IInv, Rollback
  PROVE  IInv'
<1>. USE AccountAssumption, EpochAssumption DEF IInv, TypeOK, Task, Ops, Steps, InSwitch, Current
<1>0. task.pc = "rollback" /\ task \in Task  BY DEF Rollback, Holding
<1>1. CASE Persist(task.former)
           /\ task' = [task EXCEPT !.undo = "clean",
                                   !.pc = IF task.connected THEN "reconnect" ELSE "rolled_back"]
  <2>1. /\ loadable' = {task.former} /\ cfg' = task.former
        /\ UNCHANGED <<creds, epoch, status, api, stream, worker, request, data, owners, torn>>
    BY <1>1 DEF Rollback, Persist, KeepConnection
  <2>2. task' \in Task /\ task'.op = task.op /\ task'.target = task.target
        /\ task'.former = task.former /\ task'.connected = task.connected
        /\ task'.pc \in {"reconnect", "rolled_back"} /\ task'.undo = "clean"
        /\ task'.pc = "rolled_back" => ~task.connected
    BY <1>0, <1>1, <2>1 DEF Free
  <2>3. TypeOK'  BY <1>0, <1>1, <2>1, <2>2 DEF Switching
  <2>4. Steps'  BY <1>0, <1>1, <2>1, <2>2 DEF Switching
  <2>5. Exclusion'  BY <1>0, <1>1, <2>1, <2>2 DEF Exclusion
  <2>6. Settled'  BY <1>0, <1>1, <2>1, <2>2 DEF Settled, Switching, TargetSession
  <2>7. Switching'  BY <1>0, <1>1, <2>1, <2>2 DEF Config, Settled, Switching, TargetSession
  <2>8. Ownership'
    BY <1>0, <1>1, <2>1, <2>2
    DEF Config, Session, Exclusion, Settled, Switching, TargetSession, Ownership, Base
  <2>. QED  BY <2>3, <2>4, <2>5, <2>6, <2>7, <2>8
<1>2. CASE FailPersist(task.former)
           /\ task' = [task EXCEPT !.undo = "failed",
                                   !.pc = IF task.connected THEN "reconnect" ELSE "rolled_back"]
  <2>1. /\ loadable' = loadable \cup {task.former} /\ cfg' = task.former
        /\ UNCHANGED <<creds, epoch, status, api, stream, worker, request, data, owners, torn>>
    BY <1>2 DEF Rollback, FailPersist, KeepConnection
  <2>2. task' \in Task /\ task'.op = task.op /\ task'.target = task.target
        /\ task'.former = task.former /\ task'.connected = task.connected
        /\ task'.pc \in {"reconnect", "rolled_back"} /\ task'.undo = "failed"
    BY <1>0, <1>2, <2>1 DEF Free
  <2>3. TypeOK'  BY <1>0, <1>2, <2>1, <2>2 DEF Switching
  <2>4. Steps'  BY <1>0, <1>2, <2>1, <2>2 DEF Switching
  <2>5. Exclusion'  BY <1>0, <1>2, <2>1, <2>2 DEF Exclusion
  <2>6. Settled'  BY <1>0, <1>2, <2>1, <2>2 DEF Settled, Switching, TargetSession
  <2>7. Switching'  BY <1>0, <1>2, <2>1, <2>2 DEF Config, Settled, Switching, TargetSession
  <2>8. Ownership'
    BY <1>0, <1>2, <2>1, <2>2
    DEF Config, Session, Exclusion, Settled, Switching, TargetSession, Ownership, Base
  <2>. QED  BY <2>3, <2>4, <2>5, <2>6, <2>7, <2>8
<1>. QED  BY <1>1, <1>2 DEF Rollback

LEMMA RollbackReconnectInv ==
  ASSUME IInv, RollbackReconnect
  PROVE  IInv'
<1>. USE AccountAssumption, EpochAssumption
     DEF RollbackReconnect, Holding, InstallSession, StopStream, IInv, TypeOK, Task,
         Ops, Steps, InSwitch, Current
<1>1. TypeOK'
  <2>1. task' \in Task  OBVIOUS
  <2>2. /\ cfg' \in Config /\ loadable' \subseteq Config /\ loadable' # {}
        /\ creds' \in [Accounts -> Credentials \cup {None}] /\ epoch' \in 0 .. MaxEpoch
        /\ status' \in {"disconnected", "connecting", "connected", "error"}
        /\ {api', stream', request'} \subseteq Session \cup {None}
        /\ worker' \in {"none", "reading", "waiting", "observing"}
        /\ data' \in Accounts \cup {None}
        /\ owners' \in [0 .. MaxEpoch -> SUBSET Accounts] /\ torn' \subseteq Accounts
    BY DEF Config, Session, Switching, Settled, Exclusion, TargetSession
  <2>. QED  BY <2>1, <2>2
<1>2. Steps'  BY DEF Switching
<1>3. Exclusion'  BY DEF Exclusion
<1>4. Settled'  BY DEF Settled, Switching, TargetSession
<1>5. Switching'  BY DEF Config, Settled, Switching, TargetSession
<1>6. Ownership'
  BY DEF Config, Session, Exclusion, Settled, Switching, TargetSession, Ownership, Base
<1>. QED  BY <1>1, <1>2, <1>3, <1>4, <1>5, <1>6

LEMMA RollbackEndInv ==
  ASSUME IInv, RollbackEnd
  PROVE  IInv'
<1>. USE AccountAssumption, EpochAssumption
     DEF RollbackEnd, Holding, Disconnect, StopStream, KeepConnection, Release, Free,
         IInv, TypeOK, Task, Ops, Steps, InSwitch, Current
<1>1. TypeOK'  BY DEF Config, Session, Switching, Settled, Exclusion, TargetSession
<1>2. Steps'  BY DEF Switching
<1>3. Exclusion'  BY DEF Exclusion
<1>4. Settled'  BY DEF Settled, Switching, TargetSession
<1>5. Switching'  BY DEF Config, Settled, Switching, TargetSession
<1>6. Ownership'
  BY DEF Config, Session, Exclusion, Settled, Switching, TargetSession, Ownership, Base
<1>. QED  BY <1>1, <1>2, <1>3, <1>4, <1>5, <1>6

LEMMA KeyringRefuseInv ==
  ASSUME IInv, KeyringRefuse
  PROVE  IInv'
<1>. USE AccountAssumption, EpochAssumption
     DEF KeyringRefuse, Holding, KeepConnection, Release, Free, IInv, TypeOK, Task, Ops,
         Steps, InSwitch, Current
<1>1. TypeOK'  BY DEF Config, Session, Switching, Settled, Exclusion, TargetSession
<1>2. Steps'  BY DEF Switching
<1>3. Exclusion'  BY DEF Exclusion
<1>4. Settled'  BY DEF Settled, Switching, TargetSession
<1>5. Switching'  BY DEF Config, Settled, Switching, TargetSession
<1>6. Ownership'
  BY DEF Config, Session, Exclusion, Settled, Switching, TargetSession, Ownership, Base
<1>. QED  BY <1>1, <1>2, <1>3, <1>4, <1>5, <1>6

LEMMA DeleteCredentialInv ==
  ASSUME IInv, DeleteCredential
  PROVE  IInv'
<1>. USE AccountAssumption, EpochAssumption
     DEF DeleteCredential, Holding, KeepConnection, SetCredential, IInv, TypeOK, Task,
         Ops, Steps, InSwitch, Current
<1>1. TypeOK'  BY DEF Config, Session, Switching, Settled, Exclusion, TargetSession
<1>2. Steps'  BY DEF Switching
<1>3. Exclusion'  BY DEF Exclusion
<1>4. Settled'  BY DEF Settled, Switching, TargetSession
<1>5. Switching'  BY DEF Config, Settled, Switching, TargetSession
<1>6. Ownership'
  BY DEF Config, Session, Exclusion, Settled, Switching, TargetSession, Ownership, Base
<1>. QED  BY <1>1, <1>2, <1>3, <1>4, <1>5, <1>6

LEMMA SaveCredentialInv ==
  ASSUME IInv, SaveCredential
  PROVE  IInv'
<1>. USE AccountAssumption, EpochAssumption
     DEF SaveCredential, Holding, KeepConnection, SetCredential, IInv, TypeOK, Task,
         Ops, Steps, InSwitch, Current
<1>1. TypeOK'  BY DEF Config, Session, Switching, Settled, Exclusion, TargetSession
<1>2. Steps'  BY DEF Switching
<1>3. Exclusion'  BY DEF Exclusion
<1>4. Settled'  BY DEF Settled, Switching, TargetSession
<1>5. Switching'  BY DEF Config, Settled, Switching, TargetSession
<1>6. Ownership'
  BY DEF Config, Session, Exclusion, Settled, Switching, TargetSession, Ownership, Base
<1>. QED  BY <1>1, <1>2, <1>3, <1>4, <1>5, <1>6

LEMMA KeyringPersistInv ==
  ASSUME IInv, KeyringPersist
  PROVE  IInv'
<1>. USE AccountAssumption, EpochAssumption
     DEF KeyringPersist, Holding, KeepConnection, Persist, FailPersist, Release, Free,
         Relisted, IInv, TypeOK, Task, Ops, Steps, InSwitch, Current
<1>1. TypeOK'  BY DEF Config, Session, Switching, Settled, Exclusion, TargetSession
<1>2. Steps'  BY DEF Switching
<1>3. Exclusion'  BY DEF Exclusion
<1>4. Settled'  BY DEF Settled, Switching, TargetSession
<1>5. Switching'  BY DEF Config, Settled, Switching, TargetSession
<1>6. Ownership'
  BY DEF Config, Session, Exclusion, Settled, Switching, TargetSession, Ownership, Base
<1>. QED  BY <1>1, <1>2, <1>3, <1>4, <1>5, <1>6

LEMMA KeyringFailPersistInv ==
  ASSUME IInv, KeyringFailPersist
  PROVE  IInv'
<1>. USE AccountAssumption, EpochAssumption
     DEF KeyringFailPersist, Holding, Goto, KeepConnection, FailPersist, Tear, Relisted,
         IInv, TypeOK, Task, Ops, Steps, InSwitch, Current
<1>1. TypeOK'  BY DEF Config, Session, Switching, Settled, Exclusion, TargetSession
<1>2. Steps'  BY DEF Switching
<1>3. Exclusion'  BY DEF Exclusion
<1>4. Settled'  BY DEF Settled, Switching, TargetSession
<1>5. Switching'  BY DEF Config, Settled, Switching, TargetSession
<1>6. Ownership'
  BY DEF Config, Session, Exclusion, Settled, Switching, TargetSession, Ownership, Base
<1>. QED  BY <1>1, <1>2, <1>3, <1>4, <1>5, <1>6

LEMMA KeyringRestoreInv ==
  ASSUME IInv, KeyringRestore
  PROVE  IInv'
<1>. USE AccountAssumption, EpochAssumption
     DEF KeyringRestore, Holding, KeepConnection, Release, Free, SetCredential, IInv,
         TypeOK, Task, Ops, Steps, InSwitch, Current
<1>1. TypeOK'  BY DEF Config, Session, Switching, Settled, Exclusion, TargetSession
<1>2. Steps'  BY DEF Switching
<1>3. Exclusion'  BY DEF Exclusion
<1>4. Settled'  BY DEF Settled, Switching, TargetSession
<1>5. Switching'  BY DEF Config, Settled, Switching, TargetSession
<1>6. Ownership'
  BY DEF Config, Session, Exclusion, Settled, Switching, TargetSession, Ownership, Base
<1>. QED  BY <1>1, <1>2, <1>3, <1>4, <1>5, <1>6

LEMMA SaveConfigInv ==
  ASSUME IInv, SaveConfig
  PROVE  IInv'
<1>. USE AccountAssumption, EpochAssumption
     DEF SaveConfig, Holding, StartStream, Persist, FailPersist, Release, Free, IInv,
         TypeOK, Task, Ops, Steps, InSwitch, Current
<1>1. TypeOK'  BY DEF Config, Session, Switching, Settled, Exclusion, TargetSession
<1>2. Steps'  BY DEF Switching
<1>3. Exclusion'  BY DEF Exclusion
<1>4. Settled'  BY DEF Settled, Switching, TargetSession
<1>5. Switching'  BY DEF Config, Settled, Switching, TargetSession
<1>6. Ownership'
  BY DEF Config, Session, Exclusion, Settled, Switching, TargetSession, Ownership, Base
<1>. QED  BY <1>1, <1>2, <1>3, <1>4, <1>5, <1>6

LEMMA BeginRequestInv ==
  ASSUME IInv, BeginRequest
  PROVE  IInv'
<1>. USE AccountAssumption, EpochAssumption
     DEF BeginRequest, ReadLock, IInv, TypeOK, Task, Ops, Steps, InSwitch, Current
<1>1. TypeOK'  BY DEF Config, Session, Switching, Settled, Exclusion, TargetSession
<1>2. Steps'  BY DEF Switching
<1>3. Exclusion'  BY DEF Exclusion
<1>4. Settled'  BY DEF Settled, Switching, TargetSession
<1>5. Switching'  BY DEF Config, Settled, Switching, TargetSession
<1>6. Ownership'
  BY DEF Config, Session, Exclusion, Settled, Switching, TargetSession, Ownership, Base
<1>. QED  BY <1>1, <1>2, <1>3, <1>4, <1>5, <1>6

LEMMA EndRequestInv ==
  ASSUME IInv, EndRequest
  PROVE  IInv'
<1>. USE AccountAssumption, EpochAssumption
     DEF EndRequest, IInv, TypeOK, Task, Ops, Steps, InSwitch, Current
<1>1. TypeOK'  BY DEF Config, Session, Switching, Settled, Exclusion, TargetSession
<1>2. Steps'  BY DEF Switching
<1>3. Exclusion'  BY DEF Exclusion
<1>4. Settled'  BY DEF Settled, Switching, TargetSession
<1>5. Switching'  BY DEF Config, Settled, Switching, TargetSession
<1>6. Ownership'
  BY DEF Config, Session, Exclusion, Settled, Switching, TargetSession, Ownership, Base
<1>. QED  BY <1>1, <1>2, <1>3, <1>4, <1>5, <1>6

LEMMA StreamEventInv ==
  ASSUME IInv, StreamEvent
  PROVE  IInv'
<1>. USE AccountAssumption, EpochAssumption
     DEF StreamEvent, IInv, TypeOK, Task, Ops, Steps, InSwitch, Current
<1>1. TypeOK'  BY DEF Config, Session, Switching, Settled, Exclusion, TargetSession
<1>2. Steps'  BY DEF Switching
<1>3. Exclusion'  BY DEF Exclusion
<1>4. Settled'  BY DEF Settled, Switching, TargetSession
<1>5. Switching'  BY DEF Config, Settled, Switching, TargetSession
<1>6. Ownership'
  BY DEF Config, Session, Exclusion, Settled, Switching, TargetSession, Ownership, Base
<1>. QED  BY <1>1, <1>2, <1>3, <1>4, <1>5, <1>6

LEMMA StreamGuardInv ==
  ASSUME IInv, StreamGuard
  PROVE  IInv'
<1>. USE AccountAssumption, EpochAssumption
     DEF StreamGuard, ReadLock, IInv, TypeOK, Task, Ops, Steps, InSwitch, Current
<1>1. TypeOK'  BY DEF Config, Session, Switching, Settled, Exclusion, TargetSession
<1>2. Steps'  BY DEF Switching
<1>3. Exclusion'  BY DEF Exclusion
<1>4. Settled'  BY DEF Settled, Switching, TargetSession
<1>5. Switching'  BY DEF Config, Settled, Switching, TargetSession
<1>6. Ownership'
  BY DEF Config, Session, Exclusion, Settled, Switching, TargetSession, Ownership, Base
<1>. QED  BY <1>1, <1>2, <1>3, <1>4, <1>5, <1>6

LEMMA StreamObserveInv ==
  ASSUME IInv, StreamObserve
  PROVE  IInv'
<1>. USE AccountAssumption, EpochAssumption
     DEF StreamObserve, IInv, TypeOK, Task, Ops, Steps, InSwitch, Current
<1>1. TypeOK'  BY DEF Config, Session, Switching, Settled, Exclusion, TargetSession
<1>2. Steps'  BY DEF Switching
<1>3. Exclusion'  BY DEF Exclusion
<1>4. Settled'  BY DEF Settled, Switching, TargetSession
<1>5. Switching'  BY DEF Config, Settled, Switching, TargetSession
<1>6. Ownership'
  BY DEF Config, Session, Exclusion, Settled, Switching, TargetSession, Ownership, Base
<1>. QED  BY <1>1, <1>2, <1>3, <1>4, <1>5, <1>6

LEMMA AcquireInv ==
  ASSUME IInv, Acquire
  PROVE  IInv'
<1>. USE AccountAssumption, EpochAssumption
     DEF Acquire, Holding, Goto, IInv, TypeOK, Task, Ops, Steps, InSwitch, Current
<1>1. TypeOK'  BY DEF Config, Session, Switching, Settled, Exclusion, TargetSession
<1>2. Steps'  BY DEF Switching
<1>3. Exclusion'  BY DEF Exclusion
<1>4. Settled'  BY DEF Settled, Switching, TargetSession
<1>5. Switching'  BY DEF Config, Settled, Switching, TargetSession
<1>6. Ownership'
  BY DEF Config, Session, Exclusion, Settled, Switching, TargetSession, Ownership, Base
<1>. QED  BY <1>1, <1>2, <1>3, <1>4, <1>5, <1>6

LEMMA RestartInv ==
  ASSUME IInv, Restart
  PROVE  IInv'
<1>. USE AccountAssumption, EpochAssumption
     DEF Restart, Holding, Free, IInv, TypeOK, Task, Ops, Steps, InSwitch, Current
<1>1. TypeOK'  BY DEF Config, Session, Switching, Settled, Exclusion, TargetSession
<1>2. Steps'  BY DEF Switching
<1>3. Exclusion'  BY DEF Exclusion
<1>4. Settled'  BY DEF Settled, Switching, TargetSession
<1>5. Switching'  BY DEF Config, Settled, Switching, TargetSession
<1>6. Ownership'
  BY DEF Config, Session, Exclusion, Settled, Switching, TargetSession, Ownership, Base
<1>. QED  BY <1>1, <1>2, <1>3, <1>4, <1>5, <1>6

-----------------------------------------------------------------------------
LEMMA StutterInv ==
  ASSUME IInv, UNCHANGED vars
  PROVE  IInv'
BY DEF IInv, vars, TypeOK, Steps, Exclusion, Settled, Switching, Ownership, InSwitch, Base,
       TargetSession, Current

LEMMA CommandInv ==
  ASSUME IInv, Command
  PROVE  IInv'
<1>1. CASE \E realtime \in BOOLEAN : Queue("connect", None, None, realtime)
  BY <1>1, QueueInv DEF Ops
<1>2. CASE \E realtime \in BOOLEAN : Queue("save_config", None, None, realtime)
  BY <1>2, QueueInv DEF Ops
<1>3. CASE Queue("disconnect", None, None, FALSE)
  BY <1>3, QueueInv DEF Ops
<1>4. ASSUME NEW a \in Accounts, NEW realtime \in BOOLEAN, Queue("switch", a, None, realtime)
      PROVE  IInv'
  BY <1>4, QueueInv DEF Ops
<1>5. ASSUME NEW a \in Accounts, Queue("delete", a, None, FALSE)
      PROVE  IInv'
  BY <1>5, QueueInv DEF Ops
<1>6. ASSUME NEW a \in Accounts, NEW c \in Credentials, Queue("save_credentials", a, c, FALSE)
      PROVE  IInv'
  BY <1>6, QueueInv DEF Ops
<1>. QED  BY <1>1, <1>2, <1>3, <1>4, <1>5, <1>6 DEF Command

LEMMA NextInv == IInv /\ [Next]_vars => IInv'
<1>. SUFFICES ASSUME IInv, [Next]_vars PROVE IInv'  OBVIOUS
<1>1. CASE Command  BY <1>1, CommandInv
<1>2. CASE Mutation
  BY <1>2, AcquireInv, ConnectInstallInv, ConnectRefuseInv, SyncClockInv, FailSyncClockInv,
     DisconnectCommandInv, SwitchRefuseInv, SwitchDisconnectInv, SwitchPersistInv,
     SwitchFailPersistInv, SwitchConnectInv, SwitchCommitInv, RollbackInv, RollbackReconnectInv,
     RollbackEndInv, KeyringRefuseInv, DeleteCredentialInv, SaveCredentialInv, KeyringPersistInv,
     KeyringFailPersistInv, KeyringRestoreInv, SaveConfigInv
  DEF Mutation
<1>3. CASE Reader
  BY <1>3, BeginRequestInv, EndRequestInv, StreamEventInv, StreamGuardInv, StreamObserveInv
  DEF Reader
<1>4. CASE Restart  BY <1>4, RestartInv
<1>5. CASE UNCHANGED vars  BY <1>5, StutterInv
<1>. QED  BY <1>1, <1>2, <1>3, <1>4, <1>5 DEF Next

\* The sessions, the readers and the data stay with the account they belong to
\* through every step of every command, failure and restart.
THEOREM Invariance == Spec => []IInv
BY InitInv, NextInv, PTL DEF Spec

\* Type correctness of the account lifecycle.
THEOREM TypeCorrect == Spec => []TypeOK
<1>1. IInv => TypeOK  BY DEF IInv
<1>. QED  BY <1>1, Invariance, PTL

\* Whoever reads under the lifecycle lock acts with the credential, and hears the
\* stream, of the account in force.
THEOREM SessionsCorrect == Spec => []SessionOwned
<1>1. IInv => SessionOwned
  BY DEF IInv, Exclusion, Settled, Steps, InSwitch, SessionOwned
<1>. QED  BY <1>1, Invariance, PTL

\* The analytics data shown belong to the account in force.
THEOREM DataCorrect == Spec => []DataOwned
<1>1. IInv => DataOwned
  BY DEF IInv, Ownership, Base, InSwitch, Steps, DataOwned, ReadLock
<1>. QED  BY <1>1, Invariance, PTL

LEMMA AtMostOneElement ==
  ASSUME NEW S, NEW a, S \subseteq {a}
  PROVE  Cardinality(S) <= 1
<1>1. CASE S = {}  BY <1>1, FS_EmptySet
<1>2. CASE S # {}
  <2>1. S = {a}  BY <1>2
  <2>. QED  BY <2>1, FS_Singleton
<1>. QED  BY <1>1, <1>2

\* An epoch never stands for two accounts.
THEOREM EpochsCorrect == Spec => []OneAccountPerEpoch
<1>1. IInv => OneAccountPerEpoch
  <2>. SUFFICES ASSUME IInv, NEW e \in 0 .. MaxEpoch
                PROVE  Cardinality(owners[e]) <= 1
    BY DEF OneAccountPerEpoch
  <2>1. PICK a \in Accounts : owners[e] \subseteq {a}  BY DEF IInv, Ownership
  <2>. QED  BY <2>1, AtMostOneElement
<1>. QED  BY <1>1, Invariance, PTL

-----------------------------------------------------------------------------
(***************************************************************************)
(* Credentials and failed switches.  The list of accounts does not change  *)
(* during a switch, and a command that changes the keyring knows what it   *)
(* has to put back.                                                        *)
(***************************************************************************)
Keyring ==
  /\ task.op = "save_credentials" => task.cred \in Credentials
  /\ task.op \in {"switch", "save_credentials"} /\ task.pc = "persist" => creds[task.target] # None
  /\ task.pc = "restore" => task.target \in torn
  /\ InSwitch => task.former.accounts = cfg.accounts

\* What a failed switch has undone so far.
Undone ==
  InSwitch =>
    /\ ~task.connected => status = "disconnected" /\ api = None
    /\ task.undo = "clean" => loadable = {task.former}
    /\ task.pc = "rolled_back" /\ task.undo = "clean" /\ task.connected =>
         api = Current /\ status = "connected"

UInv == IInv /\ Keyring /\ Undone /\ ListedUsable

LEMMA InitUInv == Init => UInv
<1>. SUFFICES ASSUME Init PROVE UInv  OBVIOUS
<1>1. IInv  BY InitInv
<1>2. Keyring /\ Undone  BY DEF Init, Keyring, Undone, InSwitch, Free
<1>3. ListedUsable  BY DEF Init, ListedUsable, Config
<1>. QED  BY <1>1, <1>2, <1>3 DEF UInv

\* A step that touches neither the settings nor the keyring needs no excuse.
LEMMA KeepUsable ==
  ASSUME UInv, UNCHANGED <<cfg, loadable, creds, torn>>,
         task.pc \in {"persist", "restore"} => UNCHANGED <<task>>
  PROVE  ListedUsable'
BY DEF UInv, ListedUsable

\* The steps of readers.
LEMMA ReaderUInv ==
  ASSUME UInv, UNCHANGED <<cfg, loadable, creds, epoch, status, api, task, torn>>
  PROVE  (Keyring /\ Undone /\ ListedUsable)'
BY DEF UInv, Keyring, Undone, ListedUsable, InSwitch, Current

\* The steps of commands that are over, wait, or have not begun to change
\* anything, and of `connect'.
LEMMA PlainUInv ==
  ASSUME UInv, UNCHANGED <<cfg, loadable, creds, torn>>, task.pc \notin {"persist", "restore"},
         \/ task' = Free
         \/ task'.pc \in {"queued", "start"} /\ (task'.op = "save_credentials" => task'.cred \in Credentials)
         \/ task'.op = "connect" /\ task'.pc = "sync"
  PROVE  (Keyring /\ Undone /\ ListedUsable)'
<1>1. ListedUsable'  BY KeepUsable
<1>2. Keyring' /\ Undone'  BY DEF Keyring, Undone, InSwitch, Free
<1>. QED  BY <1>1, <1>2

LEMMA SyncUInv ==
  ASSUME UInv, SyncClock \/ FailSyncClock
  PROVE  (Keyring /\ Undone /\ ListedUsable)'
<1>0. task \in Task /\ task.pc = "sync" /\ UNCHANGED <<cfg, loadable, creds, epoch, torn, api>>
  BY DEF UInv, IInv, TypeOK, SyncClock, FailSyncClock, Synchronised, Holding
<1>1. CASE task.op = "connect"
  BY <1>0, <1>1, PlainUInv DEF SyncClock, FailSyncClock, Release
<1>2. CASE task.op # "connect"
  <2>1. InSwitch /\ task.connected /\ (task.undo # "none" => api = Current)
    BY <1>0, <1>2 DEF UInv, IInv, Steps, Switching, InSwitch
  <2>2. /\ task'.op = task.op /\ task'.target = task.target /\ task'.former = task.former
        /\ task'.connected = task.connected /\ task'.cred = task.cred
        /\ task'.pc \in {"commit", "rollback", "rolled_back"}
        /\ task'.pc = "rolled_back" /\ task'.undo = "clean" =>
             task.undo = "clean" /\ status' = "connected"
        /\ task'.undo = "clean" => task.undo = "clean"
    <3>1. CASE SyncClock
      BY <1>0, <1>2, <3>1 DEF SyncClock, Synchronised, Goto, Task
    <3>2. CASE FailSyncClock
      BY <1>0, <1>2, <3>2 DEF FailSyncClock, Goto, Task
    <3>. QED  BY <3>1, <3>2
  <2>3. ListedUsable'  BY <1>0, KeepUsable
  <2>4. Keyring'  BY <1>0, <2>1, <2>2 DEF UInv, Keyring, InSwitch
  <2>5. Undone'  BY <1>0, <2>1, <2>2 DEF UInv, Undone, InSwitch, Current
  <2>. QED  BY <2>3, <2>4, <2>5
<1>. QED  BY <1>1, <1>2

LEMMA SwitchDisconnectUInv ==
  ASSUME UInv, SwitchDisconnect
  PROVE  (Keyring /\ Undone /\ ListedUsable)'
<1>0. task \in Task /\ task.pc = "start" /\ task.op = "switch" /\ task.undo = "none"
  BY DEF UInv, IInv, TypeOK, Steps, SwitchDisconnect, Holding
<1>1. /\ task'.op = "switch" /\ task'.pc = "persist" /\ task'.target = task.target
      /\ task'.former = cfg /\ task'.undo = "none"
  BY <1>0 DEF SwitchDisconnect, Task
<1>2. /\ UNCHANGED <<cfg, loadable, creds, torn>> /\ creds[task.target] # None
      /\ api' = None /\ status' = "disconnected"
  BY DEF SwitchDisconnect, Disconnect
<1>3. ListedUsable'  BY <1>0, <1>2, KeepUsable
<1>4. Keyring'  BY <1>1, <1>2 DEF Keyring
<1>5. Undone'  BY <1>1, <1>2 DEF Undone
<1>. QED  BY <1>3, <1>4, <1>5

LEMMA SwitchPersistUInv ==
  ASSUME UInv, SwitchPersist \/ SwitchFailPersist
  PROVE  (Keyring /\ Undone /\ ListedUsable)'
<1>. DEFINE next == SwitchTo(cfg, task.target)
<1>0. /\ task \in Task /\ task.pc = "persist" /\ task.op = "switch" /\ task.undo = "none"
      /\ InSwitch /\ cfg \in Config /\ task.target \in Accounts
  BY DEF UInv, IInv, TypeOK, Steps, SwitchPersist, SwitchFailPersist, Holding, InSwitch
<1>1. next.accounts = cfg.accounts  BY <1>0 DEF SwitchTo, Config
<1>2. /\ task'.op = "switch" /\ task'.pc \in {"connect", "commit", "rollback"}
      /\ task'.target = task.target /\ task'.former = task.former /\ task'.undo = "none"
      /\ task'.connected = task.connected
  BY <1>0 DEF SwitchPersist, SwitchFailPersist, Goto, Task
<1>3. /\ UNCHANGED <<creds, torn, api, status>>
      /\ loadable' \subseteq loadable \cup {next} /\ cfg' \in {cfg, next}
  BY DEF SwitchPersist, SwitchFailPersist, KeepConnection, Persist, FailPersist
<1>4. creds[task.target] # None  BY <1>0 DEF UInv, Keyring
<1>5. ListedUsable'
  <2>. SUFFICES ASSUME NEW c \in loadable' \cup {cfg'}, NEW a \in c.accounts, creds[a] = None
                PROVE  a \in torn
    BY <1>3 DEF ListedUsable
  <2>1. \E d \in loadable \cup {cfg} : a \in d.accounts  BY <1>1, <1>3
  <2>. QED  BY <2>1, <1>4 DEF UInv, ListedUsable
<1>6. Keyring'
  <2>1. cfg'.accounts = cfg.accounts  BY <1>1, <1>3
  <2>. QED  BY <1>0, <1>2, <2>1 DEF UInv, Keyring
<1>7. Undone'  BY <1>0, <1>2, <1>3 DEF UInv, Undone
<1>. QED  BY <1>5, <1>6, <1>7

LEMMA SwitchConnectUInv ==
  ASSUME UInv, SwitchConnect
  PROVE  (Keyring /\ Undone /\ ListedUsable)'
<1>0. task \in Task /\ task.pc = "connect" /\ InSwitch /\ task.connected /\ task.undo = "none"
  BY DEF UInv, IInv, TypeOK, Steps, Switching, SwitchConnect, Holding, InSwitch
<1>1. task' = [task EXCEPT !.pc = "sync"] /\ UNCHANGED <<cfg, loadable, creds, torn>>
  BY DEF SwitchConnect, Goto
<1>2. /\ task'.op = task.op /\ task'.pc = "sync" /\ task'.former = task.former
      /\ task'.connected = task.connected /\ task'.undo = "none" /\ task'.cred = task.cred
  BY <1>0, <1>1 DEF Task
<1>3. ListedUsable'  BY <1>0, <1>1, KeepUsable
<1>4. Keyring'  BY <1>0, <1>1, <1>2 DEF UInv, Keyring, InSwitch
<1>5. Undone'  BY <1>0, <1>1, <1>2 DEF UInv, Undone
<1>. QED  BY <1>3, <1>4, <1>5

LEMMA RollbackUInv ==
  ASSUME UInv, Rollback
  PROVE  (Keyring /\ Undone /\ ListedUsable)'
<1>0. /\ task \in Task /\ task.pc = "rollback" /\ InSwitch /\ task.op = "switch"
      /\ task.former.accounts = cfg.accounts
  BY DEF UInv, IInv, TypeOK, Steps, Keyring, Rollback, Holding, InSwitch
<1>1. PICK undo \in {"clean", "failed"} :
        /\ task' = [task EXCEPT !.undo = undo,
                                !.pc = IF task.connected THEN "reconnect" ELSE "rolled_back"]
        /\ IF undo = "clean" THEN Persist(task.former) ELSE FailPersist(task.former)
  BY DEF Rollback
<1>2. cfg' = task.former /\ UNCHANGED <<creds, torn, api, status>>
  BY DEF Rollback, KeepConnection
<1>3. /\ task'.op = task.op /\ task'.former = task.former /\ task'.connected = task.connected
      /\ task'.undo = undo /\ task'.cred = task.cred
      /\ task'.pc \in {"reconnect", "rolled_back"}
      /\ task'.pc = "rolled_back" => ~task.connected
  BY <1>0, <1>1 DEF Task
<1>4. loadable' \subseteq loadable \cup {task.former} /\ (undo = "clean" => loadable' = {task.former})
  BY <1>1 DEF Persist, FailPersist
<1>5. ListedUsable'
  <2>. SUFFICES ASSUME NEW c \in loadable' \cup {cfg'}, NEW a \in c.accounts, creds[a] = None
                PROVE  a \in torn
    BY <1>2 DEF ListedUsable
  <2>1. \E d \in loadable \cup {cfg} : a \in d.accounts  BY <1>0, <1>2, <1>4
  <2>. QED  BY <2>1, <1>0 DEF UInv, ListedUsable
<1>6. Keyring'  BY <1>0, <1>2, <1>3 DEF Keyring
<1>7. Undone'  BY <1>0, <1>2, <1>3, <1>4 DEF UInv, Undone
<1>. QED  BY <1>5, <1>6, <1>7

LEMMA RollbackReconnectUInv ==
  ASSUME UInv, RollbackReconnect
  PROVE  (Keyring /\ Undone /\ ListedUsable)'
<1>0. task \in Task /\ task.pc = "reconnect" /\ InSwitch /\ task.connected
  BY DEF UInv, IInv, TypeOK, Steps, Switching, RollbackReconnect, Holding, InSwitch
<1>1. /\ \E realtime \in BOOLEAN : task' = [task EXCEPT !.pc = "sync", !.realtime = realtime]
      /\ UNCHANGED <<cfg, loadable, creds, torn>>
  BY DEF RollbackReconnect
<1>2. /\ task'.op = task.op /\ task'.pc = "sync" /\ task'.former = task.former
      /\ task'.connected = task.connected /\ task'.undo = task.undo /\ task'.cred = task.cred
  BY <1>0, <1>1 DEF Task
<1>3. ListedUsable'  BY <1>0, <1>1, KeepUsable
<1>4. Keyring'  BY <1>0, <1>1, <1>2 DEF UInv, Keyring, InSwitch
<1>5. Undone'  BY <1>0, <1>1, <1>2 DEF UInv, Undone, InSwitch
<1>. QED  BY <1>3, <1>4, <1>5

\* delete_account and save_credentials, the keyring first.
LEMMA SetCredentialUInv ==
  ASSUME UInv, DeleteCredential \/ SaveCredential
  PROVE  (Keyring /\ Undone /\ ListedUsable)'
<1>0. /\ task \in Task /\ task.pc = "start" /\ task.op \in {"delete", "save_credentials"}
      /\ task.target \in Accounts /\ creds \in [Accounts -> Credentials \cup {None}]
      /\ task.op = "save_credentials" => task.cred \in Credentials
  BY DEF UInv, IInv, TypeOK, Steps, Keyring, DeleteCredential, SaveCredential, Holding
<1>1. /\ task'.op = task.op /\ task'.pc = "persist" /\ task'.target = task.target
      /\ task'.cred = task.cred
  BY <1>0 DEF DeleteCredential, SaveCredential, Task
<1>2. UNCHANGED <<cfg, loadable, torn>>  BY DEF DeleteCredential, SaveCredential
<1>3. /\ \A a \in Accounts : a # task.target => creds'[a] = creds[a]
      /\ task.op = "save_credentials" => creds'[task.target] = task.cred
  BY <1>0 DEF DeleteCredential, SaveCredential, SetCredential
<1>4. ListedUsable'
  <2>. SUFFICES ASSUME NEW c \in loadable \cup {cfg}, NEW a \in c.accounts, creds'[a] = None,
                       a # task.target
                PROVE  a \in torn
    BY <1>1, <1>2 DEF ListedUsable
  <2>1. a \in Accounts  BY DEF UInv, IInv, TypeOK, Config
  <2>2. creds[a] = None  BY <1>3, <2>1
  <2>. QED  BY <1>0, <2>2 DEF UInv, ListedUsable
<1>5. Keyring'
  BY <1>0, <1>1, <1>3, AccountAssumption DEF Keyring, InSwitch
<1>6. Undone'  BY <1>0, <1>1 DEF Undone, InSwitch
<1>. QED  BY <1>4, <1>5, <1>6

LEMMA KeyringPersistUInv ==
  ASSUME UInv, KeyringPersist
  PROVE  (Keyring /\ Undone /\ ListedUsable)'
<1>0. /\ task.pc = "persist" /\ task.op \in {"delete", "save_credentials"} /\ cfg \in Config
      /\ task.op = "save_credentials" => creds[task.target] # None
  BY DEF UInv, IInv, TypeOK, Keyring, KeyringPersist, Holding
<1>1. /\ loadable' = {Relisted} /\ cfg' = Relisted /\ torn' = torn \ {task.target}
      /\ creds' = creds /\ task' = Free
  BY DEF KeyringPersist, Persist, Release
<1>2. Relisted.accounts = IF task.op = "delete" THEN cfg.accounts \ {task.target}
                                                ELSE cfg.accounts \cup {task.target}
  BY <1>0 DEF Relisted, Config
<1>3. ListedUsable'
  <2>. SUFFICES ASSUME NEW a \in Relisted.accounts, creds[a] = None
                PROVE  a \in torn \ {task.target}
    BY <1>1 DEF ListedUsable
  <2>1. a # task.target /\ a \in cfg.accounts  BY <1>0, <1>2
  <2>. QED  BY <2>1 DEF UInv, ListedUsable
<1>4. Keyring' /\ Undone'  BY <1>1 DEF Keyring, Undone, InSwitch, Free
<1>. QED  BY <1>3, <1>4

LEMMA KeyringFailPersistUInv ==
  ASSUME UInv, KeyringFailPersist
  PROVE  (Keyring /\ Undone /\ ListedUsable)'
<1>0. /\ task \in Task /\ task.pc = "persist" /\ task.op \in {"delete", "save_credentials"}
      /\ cfg \in Config
  BY DEF UInv, IInv, TypeOK, KeyringFailPersist, Holding
<1>1. /\ loadable' = loadable \cup {Relisted} /\ torn' = torn \cup {task.target}
      /\ UNCHANGED <<cfg, creds>>
  BY DEF KeyringFailPersist, FailPersist, Tear
<1>2. /\ task'.op = task.op /\ task'.pc = "restore" /\ task'.target = task.target
      /\ task'.cred = task.cred
  BY <1>0 DEF KeyringFailPersist, Goto, Task
<1>3. Relisted.accounts \subseteq cfg.accounts \cup {task.target}
  BY <1>0 DEF Relisted, Config
<1>4. ListedUsable'
  <2>. SUFFICES ASSUME NEW c \in loadable \cup {Relisted, cfg}, NEW a \in c.accounts, creds[a] = None
                PROVE  a \in torn \cup {task.target}
    BY <1>1 DEF ListedUsable
  <2>1. a = task.target \/ \E d \in loadable \cup {cfg} : a \in d.accounts  BY <1>3
  <2>. QED  BY <2>1 DEF UInv, ListedUsable
<1>5. Keyring'  BY <1>0, <1>1, <1>2 DEF UInv, Keyring, InSwitch
<1>6. Undone'  BY <1>0, <1>2 DEF Undone, InSwitch
<1>. QED  BY <1>4, <1>5, <1>6

LEMMA KeyringRestoreUInv ==
  ASSUME UInv, KeyringRestore
  PROVE  (Keyring /\ Undone /\ ListedUsable)'
<1>0. /\ task.pc = "restore" /\ task.target \in torn /\ task.target \in Accounts
      /\ creds \in [Accounts -> Credentials \cup {None}]
  BY DEF UInv, IInv, TypeOK, Keyring, KeyringRestore, Holding
<1>1. task' = Free /\ UNCHANGED <<cfg, loadable, torn>>  BY DEF KeyringRestore, Release
<1>2. \A a \in Accounts : a # task.target => creds'[a] = creds[a]
  BY <1>0 DEF KeyringRestore, SetCredential
<1>3. ListedUsable'
  <2>. SUFFICES ASSUME NEW c \in loadable \cup {cfg}, NEW a \in c.accounts, creds'[a] = None
                PROVE  a \in torn
    BY <1>1 DEF ListedUsable
  <2>1. a \in Accounts  BY DEF UInv, IInv, TypeOK, Config
  <2>. QED  BY <1>0, <1>2, <2>1 DEF UInv, ListedUsable
<1>4. Keyring' /\ Undone'  BY <1>1 DEF Keyring, Undone, InSwitch, Free
<1>. QED  BY <1>3, <1>4

LEMMA SaveConfigUInv ==
  ASSUME UInv, SaveConfig
  PROVE  (Keyring /\ Undone /\ ListedUsable)'
<1>1. /\ task.pc = "start" /\ task' = Free /\ UNCHANGED <<cfg, creds, torn>>
      /\ loadable' \subseteq loadable \cup {cfg}
  BY DEF SaveConfig, Holding, Release, Persist, FailPersist
<1>2. ListedUsable'  BY <1>1 DEF UInv, ListedUsable
<1>3. Keyring' /\ Undone'  BY <1>1 DEF Keyring, Undone, InSwitch, Free
<1>. QED  BY <1>2, <1>3

LEMMA RestartUInv ==
  ASSUME UInv, Restart
  PROVE  (Keyring /\ Undone /\ ListedUsable)'
<1>1. /\ cfg' \in loadable /\ task' = Free /\ UNCHANGED <<loadable, creds>>
      /\ torn \subseteq torn'
      /\ task.pc \in {"persist", "restore"} => task.target \in torn'
  BY DEF Restart, Holding
<1>2. ListedUsable'  BY <1>1 DEF UInv, ListedUsable
<1>3. Keyring' /\ Undone'  BY <1>1 DEF Keyring, Undone, InSwitch, Free
<1>. QED  BY <1>2, <1>3

LEMMA NextUInv == UInv /\ [Next]_vars => UInv'
<1>. SUFFICES ASSUME UInv, [Next]_vars PROVE UInv'  OBVIOUS
<1>0. task \in Task /\ (task.op = "save_credentials" => task.cred \in Credentials)
  BY DEF UInv, IInv, TypeOK, Keyring
<1>1. (Keyring /\ Undone /\ ListedUsable)'
  <2>1. CASE Command
    <3>1. ASSUME NEW op, NEW target, NEW cred, NEW realtime, Queue(op, target, cred, realtime),
                 op = "save_credentials" => cred \in Credentials
          PROVE  (Keyring /\ Undone /\ ListedUsable)'
      <4>1. /\ task'.pc = "queued" /\ task'.op = op /\ task'.cred = cred
            /\ UNCHANGED <<cfg, loadable, creds, torn>> /\ task.op = "none"
        BY <3>1 DEF Queue, Free
      <4>2. task.pc \notin {"persist", "restore"}  BY <4>1 DEF UInv, IInv, Steps
      <4>. QED  BY <3>1, <4>1, <4>2, PlainUInv
    <3>. QED  BY <2>1, <3>1 DEF Command
  <2>2. CASE Acquire
    BY <1>0, <2>2, PlainUInv DEF Acquire, Holding, Goto, Task
  <2>3. CASE ConnectInstall
    BY <1>0, <2>3, PlainUInv DEF ConnectInstall, Holding, Goto, Task
  <2>4. CASE ConnectRefuse \/ DisconnectCommand \/ SwitchRefuse \/ KeyringRefuse
    BY <2>4, PlainUInv
    DEF ConnectRefuse, DisconnectCommand, SwitchRefuse, KeyringRefuse, Holding, Release
  <2>5. CASE SwitchCommit \/ RollbackEnd
    BY <2>5, PlainUInv DEF SwitchCommit, RollbackEnd, Holding, Release
  <2>6. CASE Mutation
    BY <2>2, <2>3, <2>4, <2>5, <2>6, SyncUInv, SwitchDisconnectUInv, SwitchPersistUInv,
       SwitchConnectUInv, RollbackUInv, RollbackReconnectUInv, SetCredentialUInv,
       KeyringPersistUInv, KeyringFailPersistUInv, KeyringRestoreUInv, SaveConfigUInv
    DEF Mutation
  <2>7. CASE Reader
    BY <2>7, ReaderUInv
    DEF Reader, BeginRequest, EndRequest, StreamEvent, StreamGuard, StreamObserve
  <2>8. CASE UNCHANGED vars  BY <2>8, ReaderUInv DEF vars
  <2>. QED  BY <2>1, <2>6, <2>7, <2>8, RestartUInv DEF Next
<1>2. IInv'  BY NextInv DEF UInv
<1>. QED  BY <1>1, <1>2 DEF UInv

LEMMA CredentialInvariance == Spec => []UInv
BY InitUInv, NextUInv, PTL DEF Spec

\* Whatever fails or is cut short, a listed account without a credential is one
\* whose own change failed: delete_account and save_credentials never leave
\* another account listed without its key.
THEOREM ListedCorrect == Spec => []ListedUsable
<1>1. UInv => ListedUsable  BY DEF UInv
<1>. QED  BY <1>1, CredentialInvariance, PTL

\* rollback_switch ends with the former account fully in force, on disk too, or
\* with the client disconnected.
THEOREM FailedSwitchCorrect == Spec => FailedSwitchSettled
<1>. DEFINE Settles ==
       Holding("rolled_back") /\ task' # task =>
         \/ /\ task.undo = "clean"
            /\ cfg' = task.former /\ loadable' = {task.former}
            /\ api' = IF task.connected THEN Current ELSE None
            /\ task.connected <=> status' = "connected"
         \/ /\ task.undo = "failed" \/ Restart
            /\ status' = "disconnected" /\ {api', stream'} = {None}
<1>1. ASSUME UInv, [Next]_vars PROVE [Settles]_vars
  <2>. SUFFICES ASSUME Next, Holding("rolled_back"), task' # task
                PROVE  \/ /\ task.undo = "clean"
                          /\ cfg' = task.former /\ loadable' = {task.former}
                          /\ api' = IF task.connected THEN Current ELSE None
                          /\ task.connected <=> status' = "connected"
                       \/ /\ task.undo = "failed" \/ Restart
                          /\ status' = "disconnected" /\ {api', stream'} = {None}
    BY <1>1
  <2>1. /\ task \in Task /\ task.pc = "rolled_back" /\ InSwitch /\ cfg = task.former
        /\ task.undo \in {"clean", "failed"}
    BY <1>1 DEF UInv, IInv, TypeOK, Task, Steps, Switching, Holding, InSwitch
  <2>2. RollbackEnd \/ Restart
    <3>1. ~Command  BY <2>1, <1>1 DEF Command, Queue, UInv, IInv, Steps
    <3>2. ~Reader
      BY DEF Reader, BeginRequest, EndRequest, StreamEvent, StreamGuard, StreamObserve
    <3>3. CASE Mutation
      BY <2>1, <3>3
      DEF Mutation, Acquire, ConnectInstall, ConnectRefuse, SyncClock, FailSyncClock,
          DisconnectCommand, SwitchRefuse, SwitchDisconnect, SwitchPersist, SwitchFailPersist,
          SwitchConnect, SwitchCommit, Rollback, RollbackReconnect, KeyringRefuse,
          DeleteCredential, SaveCredential, KeyringPersist, KeyringFailPersist, KeyringRestore,
          SaveConfig, Holding
    <3>. QED  BY <3>1, <3>2, <3>3 DEF Next
  <2>3. CASE Restart
    BY <2>3 DEF Restart
  <2>4. CASE RollbackEnd /\ task.undo = "failed"
    BY <2>4 DEF RollbackEnd, Disconnect, StopStream
  <2>5. CASE RollbackEnd /\ task.undo = "clean"
    <3>1. UNCHANGED <<cfg, loadable, api, status>>
      BY <2>5 DEF RollbackEnd, KeepConnection
    <3>. QED  BY <1>1, <2>1, <2>5, <3>1 DEF UInv, Undone, Task
  <2>. QED  BY <2>1, <2>2, <2>3, <2>4, <2>5
<1>. QED  BY <1>1, CredentialInvariance, PTL DEF Spec, FailedSwitchSettled

\* Only delete_account, save_credentials and their clean-up touch the keyring, and
\* none of them takes away the credential of the account in force, except the
\* clean-up of the command that had just stored its first one.
THEOREM ActiveCredentialCorrect == Spec => ActiveCredentialKept
<1>. DEFINE Kept == creds[cfg.active] # None /\ creds'[cfg.active] = None =>
                      task.op = "save_credentials" /\ task.old = None
<1>1. ASSUME UInv, [Next]_vars PROVE [Kept]_vars
  <2>. SUFFICES ASSUME Next, creds[cfg.active] # None, creds'[cfg.active] = None
                PROVE  task.op = "save_credentials" /\ task.old = None
    BY <1>1
  <2>1. /\ creds \in [Accounts -> Credentials \cup {None}] /\ cfg.active \in Accounts
        /\ task.op = "save_credentials" => task.cred \in Credentials
    BY <1>1 DEF UInv, IInv, TypeOK, Config, Keyring
  <2>2. DeleteCredential \/ SaveCredential \/ KeyringRestore
    <3>1. ~Command  BY DEF Command, Queue
    <3>2. ~Reader
      BY DEF Reader, BeginRequest, EndRequest, StreamEvent, StreamGuard, StreamObserve
    <3>3. ~Restart  BY DEF Restart
    <3>4. CASE Mutation
      BY <3>4
      DEF Mutation, Acquire, ConnectInstall, ConnectRefuse, SyncClock, FailSyncClock,
          DisconnectCommand, SwitchRefuse, SwitchDisconnect, SwitchPersist, SwitchFailPersist,
          SwitchConnect, SwitchCommit, Rollback, RollbackReconnect, RollbackEnd, KeyringRefuse,
          KeyringPersist, KeyringFailPersist, SaveConfig
    <3>. QED  BY <3>1, <3>2, <3>3, <3>4 DEF Next
  <2>3. ~DeleteCredential  BY <2>1 DEF DeleteCredential, SetCredential
  <2>4. ~SaveCredential  BY <2>1, AccountAssumption DEF SaveCredential, SetCredential
  <2>5. CASE KeyringRestore
    <3>1. task.pc = "restore" /\ creds' = [creds EXCEPT ![task.target] = task.old]
      BY <2>5 DEF KeyringRestore, SetCredential, Holding
    <3>2. task.target = cfg.active /\ task.old = None  BY <2>1, <3>1
    <3>. QED  BY <1>1, <3>1, <3>2 DEF UInv, IInv, Steps
  <2>. QED  BY <2>2, <2>3, <2>4, <2>5
<1>. QED  BY <1>1, CredentialInvariance, PTL DEF Spec, ActiveCredentialKept
=============================================================================
