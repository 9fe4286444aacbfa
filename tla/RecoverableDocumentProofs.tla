---------------------- MODULE RecoverableDocumentProofs ----------------------
(***************************************************************************)
(* Every store implements the crash register, for any number of saves.     *)
(***************************************************************************)
EXTENDS RecoverableDocument, TLAPS

Known == {committed} \cup attempts

\* The document is written before the step that gives it its name.
Written == pc \in {"replace_main", "demote_main", "promote_temp"} => files["tmp"] = doc

\* Facts all stores share.
Common ==
  /\ pc \notin {"idle", "load"} => doc \in attempts
  /\ pc = "load" => store = "notification"
  /\ committed # Damaged
  /\ pc \notin {"idle", "load"} => pc \in IF store = "secure" THEN SecurePcs ELSE SavePcs
  /\ files["main"] \in Known \cup {Absent}

\* The stores of three paths: what is left under each path at each step.
ThreeSlots ==
  store # "secure" =>
    /\ Written
    /\ files["tmp"] \in attempts \cup {Absent, Damaged}
    /\ pc = "demote_main" => files["main"] # Absent
    /\ pc = "promote_temp" => files["main"] = Absent

\* While the main file is away its last version is the backup.
BackedUp ==
  store \in {"config", "chart", "notification"} =>
    /\ files["main"] = Absent \/ pc = "restore_main" => files["bak"] \in Known \cup {Absent}
    /\ committed # Absent /\ (files["main"] = Absent \/ pc = "restore_main") =>
         files["bak"] # Absent

\* The ledger is never gone without a trace.
Traced ==
  store = "usage" =>
    /\ pc \in {"promote_temp", "restore_main"} => files["bak"] \in Known \cup {Absent}
    /\ pc = "restore_main" => files["bak"] # Absent
    /\ committed # Absent /\ files["main"] = Absent => files["tmp"] # Absent

\* The plugin documents: the last committed document is complete under a name
\* that loading tries, and nothing before it can be loaded.
Secured ==
  store = "secure" =>
    /\ files["main"] \in {committed, Absent}
    /\ committed = Absent => files["tmp"] = Absent /\ files["bak"] = Absent
    /\ files["main"] = Absent /\ committed # Absent =>
         \/ files["tmp"] = committed
         \/ files["tmp"] = Absent /\ files["bak"] = committed
    /\ pc # "idle" => old = committed
    /\ pc \in {"create_backup", "write_backup", "replace_backup"} => committed # Absent
    /\ pc = "replace_backup" => files["bak_pending"] = committed
    /\ pc \in {"create_backup", "write_backup", "replace_backup", "delete_tmp", "replace_main"} =>
         files["pending"] = doc
    /\ pc \in {"delete_tmp", "replace_main"} /\ files["main"] = Absent /\ committed # Absent =>
         files["bak"] = committed

\* What loading may answer.
Answers ==
  {committed} \cup (IF store = "secure" THEN {} ELSE attempts)
              \cup (IF store = "usage" \/ committed = Absent THEN {Damaged} ELSE {})

IInv == TypeOK /\ Common /\ ThreeSlots /\ BackedUp /\ Traced /\ Secured

-----------------------------------------------------------------------------
\* One outcome of a step: what comes next, and the files it leaves.
Took(next, after) ==
  /\ files' = after
  /\ IF next \in {"saved", "failed"}
     THEN pc' = "idle" /\ doc' = Absent /\ old' = Absent
     ELSE pc' = next /\ UNCHANGED <<doc, old>>
  /\ IF next = "saved"
     THEN committed' = doc /\ attempts' = {}
     ELSE UNCHANGED <<committed, attempts>>
  /\ UNCHANGED <<store, saves>>

\* What a step may do to the register.
Kept == UNCHANGED <<committed, attempts>>

Committed == committed' = doc /\ attempts' = {} /\ files'["main"] = doc

LEMMA ConfigStep ==
  ASSUME IInv, store = "config", pc \notin {"idle", "load"},
         NEW outcome \in SaveSteps(pc, files, doc), Took(outcome[1], outcome[2])
  PROVE  IInv' /\ (Kept \/ Committed)
<1>. USE SlotMarkers, BoundAssumption, DocAssumption, StoreAssumption
     DEF IInv, Took, Put, Remove, Rename, Readable, Synced, Known, Kept, Committed, TypeOK, Slots,
         ConfigSlots, SecureSlots, SavePcs, SecurePcs, Common, ThreeSlots, Written, BackedUp, Traced,
         Secured
<1>1. CASE pc = "open_temp"
  <2>1. outcome \in OpenTemp(files)  BY <1>1 DEF SaveSteps
  <2>2. TypeOK' /\ Common'  BY <1>1, <2>1 DEF OpenTemp
  <2>3. ThreeSlots' /\ BackedUp' /\ Traced' /\ Secured'  BY <1>1, <2>1 DEF OpenTemp
  <2>4. Kept \/ Committed  BY <1>1, <2>1 DEF OpenTemp
  <2>. QED  BY <2>2, <2>3, <2>4
<1>2. CASE pc = "write_temp"
  <2>1. outcome \in WriteTemp(files, doc)  BY <1>2 DEF SaveSteps
  <2>2. TypeOK' /\ Common'  BY <1>2, <2>1 DEF WriteTemp
  <2>3. ThreeSlots' /\ BackedUp' /\ Traced' /\ Secured'  BY <1>2, <2>1 DEF WriteTemp
  <2>4. Kept \/ Committed  BY <1>2, <2>1 DEF WriteTemp
  <2>. QED  BY <2>2, <2>3, <2>4
<1>3. CASE pc = "replace_main"
  <2>1. outcome \in ReplaceMain(files)  BY <1>3 DEF SaveSteps
  <2>2. TypeOK' /\ Common'  BY <1>3, <2>1 DEF ReplaceMain
  <2>3. ThreeSlots' /\ BackedUp' /\ Traced' /\ Secured'  BY <1>3, <2>1 DEF ReplaceMain
  <2>4. Kept \/ Committed  BY <1>3, <2>1 DEF ReplaceMain
  <2>. QED  BY <2>2, <2>3, <2>4
<1>4. CASE pc = "demote_main"
  <2>1. outcome \in DemoteMain(files)  BY <1>4 DEF SaveSteps
  <2>2. TypeOK' /\ Common'  BY <1>4, <2>1 DEF DemoteMain
  <2>3. ThreeSlots' /\ BackedUp' /\ Traced' /\ Secured'  BY <1>4, <2>1 DEF DemoteMain
  <2>4. Kept \/ Committed  BY <1>4, <2>1 DEF DemoteMain
  <2>. QED  BY <2>2, <2>3, <2>4
<1>5. CASE pc = "promote_temp"
  <2>1. outcome \in PromoteTemp(files)  BY <1>5 DEF SaveSteps
  <2>2. TypeOK' /\ Common'  BY <1>5, <2>1 DEF PromoteTemp
  <2>3. ThreeSlots' /\ BackedUp' /\ Traced' /\ Secured'  BY <1>5, <2>1 DEF PromoteTemp
  <2>4. Kept \/ Committed  BY <1>5, <2>1 DEF PromoteTemp
  <2>. QED  BY <2>2, <2>3, <2>4
<1>6. CASE pc = "restore_main"
  <2>1. outcome \in RestoreMain(files)  BY <1>6 DEF SaveSteps
  <2>2. TypeOK' /\ Common'  BY <1>6, <2>1 DEF RestoreMain
  <2>3. ThreeSlots' /\ BackedUp' /\ Traced' /\ Secured'  BY <1>6, <2>1 DEF RestoreMain
  <2>4. Kept \/ Committed  BY <1>6, <2>1 DEF RestoreMain
  <2>. QED  BY <2>2, <2>3, <2>4
<1>. QED  BY <1>1, <1>2, <1>3, <1>4, <1>5, <1>6

LEMMA UsageStep ==
  ASSUME IInv, store = "usage", pc \notin {"idle", "load"},
         NEW outcome \in UsageSteps(pc, files, doc), Took(outcome[1], outcome[2])
  PROVE  IInv' /\ (Kept \/ Committed)
<1>. USE SlotMarkers, BoundAssumption, DocAssumption, StoreAssumption
     DEF IInv, Took, Put, Remove, Rename, Readable, Synced, Known, Kept, Committed, TypeOK, Slots,
         ConfigSlots, SecureSlots, SavePcs, SecurePcs, Common, ThreeSlots, Written, BackedUp, Traced,
         Secured
<1>1. CASE pc = "open_temp"
  <2>1. outcome \in OpenTemp(files)  BY <1>1 DEF UsageSteps
  <2>2. TypeOK' /\ Common'  BY <1>1, <2>1 DEF OpenTemp
  <2>3. ThreeSlots' /\ BackedUp' /\ Traced' /\ Secured'  BY <1>1, <2>1 DEF OpenTemp
  <2>4. Kept \/ Committed  BY <1>1, <2>1 DEF OpenTemp
  <2>. QED  BY <2>2, <2>3, <2>4
<1>2. CASE pc = "write_temp"
  <2>1. outcome \in WriteTemp(files, doc)  BY <1>2 DEF UsageSteps
  <2>2. TypeOK' /\ Common'  BY <1>2, <2>1 DEF WriteTemp
  <2>3. ThreeSlots' /\ BackedUp' /\ Traced' /\ Secured'  BY <1>2, <2>1 DEF WriteTemp
  <2>4. Kept \/ Committed  BY <1>2, <2>1 DEF WriteTemp
  <2>. QED  BY <2>2, <2>3, <2>4
<1>3. CASE pc = "replace_main"
  <2>1. outcome \in ReplaceUsage(files)  BY <1>3 DEF UsageSteps
  <2>2. TypeOK' /\ Common'  BY <1>3, <2>1 DEF ReplaceUsage
  <2>3. ThreeSlots' /\ BackedUp' /\ Traced' /\ Secured'  BY <1>3, <2>1 DEF ReplaceUsage
  <2>4. Kept \/ Committed  BY <1>3, <2>1 DEF ReplaceUsage
  <2>. QED  BY <2>2, <2>3, <2>4
<1>4. CASE pc = "demote_main"
  <2>1. outcome \in DemoteMain(files)  BY <1>4 DEF UsageSteps
  <2>2. TypeOK' /\ Common'  BY <1>4, <2>1 DEF DemoteMain
  <2>3. ThreeSlots' /\ BackedUp' /\ Traced' /\ Secured'  BY <1>4, <2>1 DEF DemoteMain
  <2>4. Kept \/ Committed  BY <1>4, <2>1 DEF DemoteMain
  <2>. QED  BY <2>2, <2>3, <2>4
<1>5. CASE pc = "promote_temp"
  <2>1. outcome \in PromoteUsage(files)  BY <1>5 DEF UsageSteps
  <2>2. TypeOK' /\ Common'  BY <1>5, <2>1 DEF PromoteUsage
  <2>3. ThreeSlots' /\ BackedUp' /\ Traced' /\ Secured'  BY <1>5, <2>1 DEF PromoteUsage
  <2>4. Kept \/ Committed  BY <1>5, <2>1 DEF PromoteUsage
  <2>. QED  BY <2>2, <2>3, <2>4
<1>6. CASE pc = "restore_main"
  <2>1. outcome \in RestoreMain(files)  BY <1>6 DEF UsageSteps
  <2>2. TypeOK' /\ Common'  BY <1>6, <2>1 DEF RestoreMain
  <2>3. ThreeSlots' /\ BackedUp' /\ Traced' /\ Secured'  BY <1>6, <2>1 DEF RestoreMain
  <2>4. Kept \/ Committed  BY <1>6, <2>1 DEF RestoreMain
  <2>. QED  BY <2>2, <2>3, <2>4
<1>. QED  BY <1>1, <1>2, <1>3, <1>4, <1>5, <1>6

LEMMA CheckedStep ==
  ASSUME IInv, store \in {"chart", "notification"}, pc \notin {"idle", "load"},
         NEW outcome \in CheckedSteps(pc, files, doc), Took(outcome[1], outcome[2])
  PROVE  IInv' /\ (Kept \/ Committed)
<1>. USE SlotMarkers, BoundAssumption, DocAssumption, StoreAssumption
     DEF IInv, Took, Put, Remove, Rename, Readable, Synced, Known, Kept, Committed, TypeOK, Slots,
         ConfigSlots, SecureSlots, SavePcs, SecurePcs, Common, ThreeSlots, Written, BackedUp, Traced,
         Secured
<1>1. CASE pc = "open_temp"
  <2>1. outcome \in OpenTemp(files)  BY <1>1 DEF CheckedSteps
  <2>2. TypeOK' /\ Common'  BY <1>1, <2>1 DEF OpenTemp
  <2>3. ThreeSlots' /\ BackedUp' /\ Traced' /\ Secured'  BY <1>1, <2>1 DEF OpenTemp
  <2>4. Kept \/ Committed  BY <1>1, <2>1 DEF OpenTemp
  <2>. QED  BY <2>2, <2>3, <2>4
<1>2. CASE pc = "write_temp"
  <2>1. outcome \in WriteTemp(files, doc)  BY <1>2 DEF CheckedSteps
  <2>2. TypeOK' /\ Common'  BY <1>2, <2>1 DEF WriteTemp
  <2>3. ThreeSlots' /\ BackedUp' /\ Traced' /\ Secured'  BY <1>2, <2>1 DEF WriteTemp
  <2>4. Kept \/ Committed  BY <1>2, <2>1 DEF WriteTemp
  <2>. QED  BY <2>2, <2>3, <2>4
<1>3. CASE pc = "replace_main"
  <2>1. outcome \in ReplaceChecked(files)  BY <1>3 DEF CheckedSteps
  <2>2. TypeOK' /\ Common'  BY <1>3, <2>1 DEF ReplaceChecked
  <2>3. ThreeSlots' /\ BackedUp' /\ Traced' /\ Secured'  BY <1>3, <2>1 DEF ReplaceChecked
  <2>4. Kept \/ Committed  BY <1>3, <2>1 DEF ReplaceChecked
  <2>. QED  BY <2>2, <2>3, <2>4
<1>4. CASE pc = "demote_main"
  <2>1. outcome \in DemoteChecked(files)  BY <1>4 DEF CheckedSteps
  <2>2. TypeOK' /\ Common'  BY <1>4, <2>1 DEF DemoteChecked
  <2>3. ThreeSlots' /\ BackedUp' /\ Traced' /\ Secured'  BY <1>4, <2>1 DEF DemoteChecked
  <2>4. Kept \/ Committed  BY <1>4, <2>1 DEF DemoteChecked
  <2>. QED  BY <2>2, <2>3, <2>4
<1>5. CASE pc = "promote_temp"
  <2>1. outcome \in PromoteChecked(files)  BY <1>5 DEF CheckedSteps
  <2>2. TypeOK' /\ Common'  BY <1>5, <2>1 DEF PromoteChecked
  <2>3. ThreeSlots' /\ BackedUp' /\ Traced' /\ Secured'  BY <1>5, <2>1 DEF PromoteChecked
  <2>4. Kept \/ Committed  BY <1>5, <2>1 DEF PromoteChecked
  <2>. QED  BY <2>2, <2>3, <2>4
<1>6. CASE pc = "restore_main"
  <2>1. outcome \in RestoreMain(files)  BY <1>6 DEF CheckedSteps
  <2>2. TypeOK' /\ Common'  BY <1>6, <2>1 DEF RestoreMain
  <2>3. ThreeSlots' /\ BackedUp' /\ Traced' /\ Secured'  BY <1>6, <2>1 DEF RestoreMain
  <2>4. Kept \/ Committed  BY <1>6, <2>1 DEF RestoreMain
  <2>. QED  BY <2>2, <2>3, <2>4
<1>. QED  BY <1>1, <1>2, <1>3, <1>4, <1>5, <1>6

LEMMA SecureStep ==
  ASSUME IInv, store = "secure", pc \notin {"idle", "load"},
         NEW outcome \in SecureSteps(pc, files, old, doc), Took(outcome[1], outcome[2])
  PROVE  IInv' /\ (Kept \/ Committed)
<1>. USE SlotMarkers, BoundAssumption, DocAssumption, StoreAssumption
     DEF IInv, Took, Put, Remove, Rename, Readable, Synced, Known, Kept, Committed, TypeOK, Slots,
         ConfigSlots, SecureSlots, SavePcs, SecurePcs, Common, ThreeSlots, Written, BackedUp, Traced,
         Secured
<1>1. CASE pc = "clean_pending"
  <2>1. outcome \in CleanPending(files)  BY <1>1 DEF SecureSteps
  <2>2. TypeOK' /\ Common'  BY <1>1, <2>1 DEF CleanPending
  <2>3. ThreeSlots' /\ BackedUp' /\ Traced' /\ Secured'  BY <1>1, <2>1 DEF CleanPending
  <2>4. Kept \/ Committed  BY <1>1, <2>1 DEF CleanPending
  <2>. QED  BY <2>2, <2>3, <2>4
<1>2. CASE pc = "create_pending"
  <2>1. outcome \in CreatePending(files)  BY <1>2 DEF SecureSteps
  <2>2. TypeOK' /\ Common'  BY <1>2, <2>1 DEF CreatePending
  <2>3. ThreeSlots' /\ BackedUp' /\ Traced' /\ Secured'  BY <1>2, <2>1 DEF CreatePending
  <2>4. Kept \/ Committed  BY <1>2, <2>1 DEF CreatePending
  <2>. QED  BY <2>2, <2>3, <2>4
<1>3. CASE pc = "write_pending"
  <2>1. outcome \in WritePending(files, old, doc)  BY <1>3 DEF SecureSteps
  <2>2. TypeOK' /\ Common'  BY <1>3, <2>1 DEF WritePending
  <2>3. ThreeSlots' /\ BackedUp' /\ Traced' /\ Secured'  BY <1>3, <2>1 DEF WritePending
  <2>4. Kept \/ Committed  BY <1>3, <2>1 DEF WritePending
  <2>. QED  BY <2>2, <2>3, <2>4
<1>4. CASE pc = "create_backup"
  <2>1. outcome \in CreateBackup(files)  BY <1>4 DEF SecureSteps
  <2>2. TypeOK' /\ Common'  BY <1>4, <2>1 DEF CreateBackup
  <2>3. ThreeSlots' /\ BackedUp' /\ Traced' /\ Secured'  BY <1>4, <2>1 DEF CreateBackup
  <2>4. Kept \/ Committed  BY <1>4, <2>1 DEF CreateBackup
  <2>. QED  BY <2>2, <2>3, <2>4
<1>5. CASE pc = "write_backup"
  <2>1. outcome \in WriteBackup(files, old)  BY <1>5 DEF SecureSteps
  <2>2. TypeOK' /\ Common'  BY <1>5, <2>1 DEF WriteBackup
  <2>3. ThreeSlots' /\ BackedUp' /\ Traced' /\ Secured'  BY <1>5, <2>1 DEF WriteBackup
  <2>4. Kept \/ Committed  BY <1>5, <2>1 DEF WriteBackup
  <2>. QED  BY <2>2, <2>3, <2>4
<1>6. CASE pc = "replace_backup"
  <2>1. outcome \in ReplaceBackup(files)  BY <1>6 DEF SecureSteps
  <2>2. TypeOK' /\ Common'  BY <1>6, <2>1 DEF ReplaceBackup
  <2>3. ThreeSlots' /\ BackedUp' /\ Traced' /\ Secured'  BY <1>6, <2>1 DEF ReplaceBackup
  <2>4. Kept \/ Committed  BY <1>6, <2>1 DEF ReplaceBackup
  <2>. QED  BY <2>2, <2>3, <2>4
<1>7. CASE pc = "delete_tmp"
  <2>1. outcome \in DeleteLegacyTmp(files)  BY <1>7 DEF SecureSteps
  <2>2. TypeOK' /\ Common'  BY <1>7, <2>1 DEF DeleteLegacyTmp
  <2>3. ThreeSlots' /\ BackedUp' /\ Traced' /\ Secured'  BY <1>7, <2>1 DEF DeleteLegacyTmp
  <2>4. Kept \/ Committed  BY <1>7, <2>1 DEF DeleteLegacyTmp
  <2>. QED  BY <2>2, <2>3, <2>4
<1>8. CASE pc = "replace_main"
  <2>1. outcome \in ReplaceSecureMain(files)  BY <1>8 DEF SecureSteps
  <2>2. TypeOK' /\ Common'  BY <1>8, <2>1 DEF ReplaceSecureMain
  <2>3. ThreeSlots' /\ BackedUp' /\ Traced' /\ Secured'  BY <1>8, <2>1 DEF ReplaceSecureMain
  <2>4. Kept \/ Committed  BY <1>8, <2>1 DEF ReplaceSecureMain
  <2>. QED  BY <2>2, <2>3, <2>4
<1>. QED  BY <1>1, <1>2, <1>3, <1>4, <1>5, <1>6, <1>7, <1>8

\* Every step of a save keeps the invariant, and either leaves the register
\* alone or commits the document being saved.
LEMMA StepInv ==
  ASSUME IInv, Step
  PROVE  IInv' /\ (Kept \/ Committed)
<1>1. PICK outcome \in Outcomes : Took(outcome[1], outcome[2])  BY DEF Step, Took
<1>2. CASE store = "config"  BY <1>1, <1>2, ConfigStep DEF Outcomes, Step
<1>3. CASE store = "usage"  BY <1>1, <1>3, UsageStep DEF Outcomes, Step
<1>4. CASE store \in {"chart", "notification"}  BY <1>1, <1>4, CheckedStep DEF Outcomes, Step
<1>5. CASE store = "secure"  BY <1>1, <1>5, SecureStep DEF Outcomes, Step
<1>. QED  BY <1>2, <1>3, <1>4, <1>5, StoreAssumption DEF IInv, TypeOK

-----------------------------------------------------------------------------
LEMMA InitInv == Init => IInv
  BY SlotMarkers, BoundAssumption, DocAssumption, StoreAssumption
  DEF Init, Legacy, Put, IInv, TypeOK, Slots, ConfigSlots, SecureSlots, Common, ThreeSlots, Written,
      BackedUp, Traced, Secured, Known, Docs

\* What the invariant says of loading: the register's promise.
LEMMA LoadAllowed == IInv => Load(store, files) \in Answers
<1>. SUFFICES ASSUME IInv  PROVE Load(store, files) \in Answers
  OBVIOUS
<1>. USE SlotMarkers, DocAssumption, StoreAssumption
     DEF IInv, TypeOK, Common, Known, Load, LoadUsage, LoadFirstValid, Readable, Slots,
         ConfigSlots, SecureSlots, Answers
<1>1. CASE store \in {"config", "chart", "notification"}
  BY <1>1 DEF ThreeSlots, BackedUp
<1>2. CASE store = "usage"  BY <1>2 DEF ThreeSlots, Traced
<1>3. CASE store = "secure"  BY <1>3 DEF Secured
<1>. QED  BY <1>1, <1>2, <1>3

LEMMA SaveInv ==
  ASSUME IInv, Save
  PROVE  IInv' /\ doc' \in Docs /\ attempts' = attempts \cup {doc'}
<1>1. Load(store, files) \in Docs \cup {Absent, Damaged}
  BY LoadAllowed DEF Answers, IInv, TypeOK
<1>2. saves + 1 \in Docs  BY BoundAssumption DEF Save, IInv, TypeOK, Docs
<1>3. store = "secure" => Load(store, files) = committed
  BY LoadAllowed DEF Answers, Save
<1>4. TypeOK' /\ Common'
  BY <1>1, <1>2, <1>3, DocAssumption
  DEF Save, IInv, TypeOK, Slots, Common, Known, SavePcs, SecurePcs
<1>5. ThreeSlots' /\ BackedUp' /\ Traced' /\ Secured'
  BY <1>3 DEF Save, IInv, TypeOK, Common, ThreeSlots, Written, BackedUp, Traced, Secured, Known
<1>. QED  BY <1>2, <1>4, <1>5 DEF IInv, Save

LEMMA RestartInv ==
  ASSUME IInv, Restart
  PROVE  IInv' /\ Kept
  BY DEF Restart, Kept, IInv, TypeOK, Slots, Common, ThreeSlots, Written, BackedUp, Traced, Secured,
         Known

LEMMA LoadCleanInv ==
  ASSUME IInv, LoadClean
  PROVE  IInv' /\ Kept
  BY DEF LoadClean, Kept, IInv, TypeOK, Slots, Common, ThreeSlots, Written, BackedUp, Traced, Secured,
         Known

\* The recovered document is one more attempt.
LEMMA NormalizeInv ==
  ASSUME IInv, Normalize
  PROVE  IInv' /\ doc' \in Docs /\ attempts' = attempts \cup {doc'}
<1>1. doc' \in Docs /\ attempts' = attempts \cup {doc'}
  BY LoadAllowed DEF Answers, Normalize, Readable, IInv, TypeOK
<1>2. TypeOK' /\ Common'
  BY <1>1, DocAssumption DEF Normalize, IInv, TypeOK, Slots, Common, Known, SavePcs
<1>3. ThreeSlots' /\ BackedUp' /\ Traced' /\ Secured'
  BY <1>1 DEF Normalize, IInv, TypeOK, Common, ThreeSlots, Written, BackedUp, Traced, Secured, Known
<1>. QED  BY <1>1, <1>2, <1>3 DEF IInv

\* Only what cannot be read is moved away.
LEMMA PreserveCorruptInv ==
  ASSUME IInv, PreserveCorrupt
  PROVE  IInv' /\ Kept
<1>1. /\ store = "notification" /\ pc = "load"
      /\ committed = Absent /\ \A slot \in ConfigSlots : files[slot] \in {Absent, Damaged}
  BY SlotMarkers, DocAssumption, LoadAllowed
  DEF PreserveCorrupt, Answers, IInv, TypeOK, Common, Load, LoadFirstValid, Readable, Slots, ConfigSlots
<1>2. PICK moved \in SUBSET ConfigSlots :
        files' = [slot \in ConfigSlots |-> IF slot \in moved THEN Absent ELSE files[slot]]
  BY DEF PreserveCorrupt
<1>3. \A slot \in ConfigSlots : files'[slot] \in {Absent, files[slot]}
  BY <1>2
<1>4. TypeOK'
  BY <1>1, <1>2, <1>3 DEF PreserveCorrupt, IInv, TypeOK, Slots
<1>5. Common' /\ ThreeSlots' /\ BackedUp' /\ Traced' /\ Secured'
  BY <1>1, <1>3, SlotMarkers, DocAssumption
  DEF PreserveCorrupt, IInv, TypeOK, Common, ThreeSlots, Written, BackedUp, Traced, Secured, Known,
      ConfigSlots, Slots
<1>. QED  BY <1>4, <1>5 DEF IInv, PreserveCorrupt, Kept

LEMMA StutterInv ==
  ASSUME IInv, UNCHANGED vars
  PROVE  IInv' /\ Kept
  BY DEF vars, Kept, IInv, TypeOK, Slots, Common, ThreeSlots, Written, BackedUp, Traced, Secured,
         Known

LEMMA NextInv ==
  ASSUME IInv, [Next]_vars
  PROVE  IInv'
  BY StepInv, SaveInv, RestartInv, LoadCleanInv, NormalizeInv, PreserveCorruptInv, StutterInv DEF Next

\* The file protocols keep their invariant through every failing call, every
\* end of the process and any number of saves.
THEOREM Invariance == Spec => []IInv
  BY InitInv, NextInv, PTL DEF Spec

\* Type correctness of the file protocols.
THEOREM TypeCorrect == Spec => []TypeOK
<1>1. IInv => TypeOK  BY DEF IInv
<1>. QED  BY <1>1, Invariance, PTL

-----------------------------------------------------------------------------
(***************************************************************************)
(* The refinement.                                                         *)
(***************************************************************************)
LEMMA InitRefines == Init => Register!Init
  BY SlotMarkers, DocAssumption, BoundAssumption, StoreAssumption
  DEF Init, Legacy, Put, Slots, ConfigSlots, SecureSlots, Register!Init, Register!Promises, Load,
      LoadUsage, LoadFirstValid, Readable, Docs

\* In every state of the invariant loading answers what the register allows.
LEMMA VisibleAllowed ==
  ASSUME IInv
  PROVE  Load(store, files) \in Register!Allowed(committed, attempts)
  BY LoadAllowed DEF Register!Allowed, Answers

LEMMA LoadAllowedNext == IInv' => (Load(store, files) \in Answers)'
  BY LoadAllowed, PTL

LEMMA VisibleAllowedNext ==
  ASSUME IInv', UNCHANGED store
  PROVE  Load(store, files)' \in Register!Allowed(committed', attempts')
<1>1. Load(store, files)' \in Answers'
  BY LoadAllowedNext
<1>. QED  BY <1>1 DEF Register!Allowed, Answers

LEMMA KeptRefines ==
  ASSUME IInv', UNCHANGED store, Kept
  PROVE  Register!Next
  BY VisibleAllowedNext DEF Kept, Register!Next, Register!Work

LEMMA BeginRefines ==
  ASSUME IInv', UNCHANGED <<store, committed>>, doc' \in Docs, attempts' = attempts \cup {doc'}
  PROVE  Register!Next
<1>1. Register!Begin(doc')  BY VisibleAllowedNext DEF Register!Begin
<1>. QED  BY <1>1 DEF Register!Next

\* The document of a finished save is the main file, which loading prefers.
LEMMA CommitRefines ==
  ASSUME IInv, pc \notin {"idle", "load"}, UNCHANGED store, Committed
  PROVE  Register!Next
<1>1. doc \in attempts /\ Readable(doc)
  BY DocAssumption DEF IInv, TypeOK, Common, Readable
<1>2. Load(store, files)' = doc
  BY <1>1 DEF Committed, Load, LoadUsage, LoadFirstValid, Readable
<1>3. Register!Commit(doc)  BY <1>2 DEF Committed, Register!Commit
<1>. QED  BY <1>1, <1>3 DEF Register!Next

LEMMA NextRefines ==
  ASSUME IInv, [Next]_vars
  PROVE  [Register!Next]_(Register!vars)
<1>. USE NextInv
<1>1. CASE Save  BY <1>1, SaveInv, BeginRefines DEF Save
<1>2. CASE Step
  <2>1. UNCHANGED store /\ pc \notin {"idle", "load"}  BY <1>2 DEF Step
  <2>. QED  BY <1>2, <2>1, StepInv, KeptRefines, CommitRefines
<1>3. CASE Restart  BY <1>3, RestartInv, KeptRefines DEF Restart
<1>4. CASE LoadClean  BY <1>4, LoadCleanInv, KeptRefines DEF LoadClean
<1>5. CASE Normalize  BY <1>5, NormalizeInv, BeginRefines DEF Normalize
<1>6. CASE PreserveCorrupt  BY <1>6, PreserveCorruptInv, KeptRefines DEF PreserveCorrupt
<1>7. CASE UNCHANGED vars  BY <1>7, StutterInv, KeptRefines DEF vars
<1>. QED  BY <1>1, <1>2, <1>3, <1>4, <1>5, <1>6, <1>7 DEF Next

\* Every store implements the crash register, whatever the number of saves.
THEOREM Refinement == Spec => ImplementsRegister
<1>1. Spec => [][Register!Next]_(Register!vars)
  BY Invariance, NextRefines, PTL DEF Spec
<1>. QED  BY <1>1, InitRefines, PTL DEF ImplementsRegister, Register!Spec, Spec
=============================================================================
