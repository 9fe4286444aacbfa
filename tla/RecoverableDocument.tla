------------------------- MODULE RecoverableDocument -------------------------
(***************************************************************************)
(* The file protocols by which the client replaces a stored document, one  *)
(* system call at a time, with the end of the process between any two.     *)
(* Five stores share this module:                                          *)
(*   config        storage/config_persistence.rs (settings, order journal) *)
(*   usage         storage/risk_usage.rs                                   *)
(*   chart         storage/chart_state_store.rs                            *)
(*   notification  storage/notification_store.rs                           *)
(*   secure        storage/safe_plugin_document.rs, as storage/            *)
(*                 plugin_state.rs and managed_plugin_ownership.rs use it  *)
(* Every store serialises its writers with a lock, so one save runs at a   *)
(* time; a document is the number of the save that wrote it.               *)
(***************************************************************************)
EXTENDS FileSlots, Naturals

CONSTANTS Stores,     \* the stores to consider
          MaxSaves    \* bound on the number of saves

Docs == 0 .. MaxSaves

ASSUME StoreAssumption  == Stores \subseteq {"config", "usage", "chart", "notification", "secure"}
ASSUME BoundAssumption  == MaxSaves \in Nat
ASSUME DocAssumption    == Absent \notin Docs /\ Damaged \notin Docs

VARIABLES store,      \* the store this behaviour is about
          files,      \* its paths
          pc,         \* "idle", "load", or the next step of the save that runs
          doc,        \* the document being saved
          old,        \* the secure store's copy of the document it replaces
          saves,      \* saves begun
          committed,  \* the document of the last save that was reported as done
          attempts    \* documents of later saves

vars == <<store, files, pc, doc, old, saves, committed, attempts>>

Slots(s) == IF s = "secure" THEN SecureSlots ELSE ConfigSlots

TypeOK ==
  /\ store \in Stores
  /\ files \in [Slots(store) -> Docs \cup {Absent, Damaged}]
  /\ pc \in {"idle", "load"} \cup SavePcs \cup SecurePcs
  /\ {doc, old, committed} \subseteq Docs \cup {Absent}
  /\ saves \in Docs
  /\ attempts \subseteq Docs

\* Mutant of Load: every store stops at the first copy that exists.
Load_FirstExisting(s, f) == IF s = "usage" THEN LoadUsage(f) ELSE LoadFirstExisting(f)

\* What the store's load answers.
Load(s, f) == IF s = "usage" THEN LoadUsage(f) ELSE LoadFirstValid(f)

\* The document of an older release that wrote only <main>.tmp.
Legacy(s) == Put([slot \in Slots(s) |-> Absent], "tmp", 0)

Init ==
  /\ store \in Stores
  /\ \/ files = [slot \in Slots(store) |-> Absent] /\ committed = Absent
     \/ store = "secure" /\ files = Legacy(store) /\ committed = 0
  /\ pc = "idle" /\ doc = Absent /\ old = Absent /\ saves = 0 /\ attempts = {}

-----------------------------------------------------------------------------
\* Saving begins; the secure store first loads the document it is to replace
\* and refuses to save when that fails.
Save ==
  /\ pc = "idle" /\ saves < MaxSaves
  /\ store = "secure" => Load(store, files) # Damaged
  /\ saves' = saves + 1
  /\ doc' = saves + 1
  /\ attempts' = attempts \cup {saves + 1}
  /\ IF store = "secure"
     THEN pc' = "clean_pending" /\ old' = Load(store, files)
     ELSE pc' = "open_temp" /\ UNCHANGED old
  /\ UNCHANGED <<store, files, committed>>

Outcomes ==
  IF store = "secure" THEN SecureSteps(pc, files, old, doc)
  ELSE IF store = "usage" THEN UsageSteps(pc, files, doc)
  ELSE IF store = "config" THEN SaveSteps(pc, files, doc)
  ELSE CheckedSteps(pc, files, doc)

Step ==
  /\ pc \notin {"idle", "load"}
  /\ \E outcome \in Outcomes :
       /\ files' = outcome[2]
       /\ IF outcome[1] \in {"saved", "failed"}
          THEN pc' = "idle" /\ doc' = Absent /\ old' = Absent
          ELSE pc' = outcome[1] /\ UNCHANGED <<doc, old>>
       /\ IF outcome[1] = "saved"
          THEN committed' = doc /\ attempts' = {}
          ELSE UNCHANGED <<committed, attempts>>
  /\ UNCHANGED <<store, saves>>

\* The process ends and starts again.  Only the notification store changes
\* anything when it is loaded.
Restart ==
  /\ pc' = IF store = "notification" THEN "load" ELSE "idle"
  /\ doc' = Absent /\ old' = Absent
  /\ UNCHANGED <<store, files, saves, committed, attempts>>

\* load_report found the document under its own name, or nothing at all.
LoadClean ==
  /\ pc = "load"
  /\ Readable(files["main"]) \/ Load(store, files) = Absent
  /\ pc' = "idle"
  /\ UNCHANGED <<store, files, doc, old, saves, committed, attempts>>

\* Mutant of Normalize: whatever the load answers is saved again.
Normalize_Unchecked ==
  /\ pc = "load"
  /\ ~Readable(files["main"])
  /\ doc' = Load(store, files)
  /\ attempts' = attempts \cup {Load(store, files)}
  /\ pc' = "open_temp"
  /\ UNCHANGED <<store, files, old, saves, committed>>

\* A recovered document is saved again at once (normalize_recovery), and used
\* whatever becomes of that save.
Normalize ==
  /\ pc = "load"
  /\ ~Readable(files["main"]) /\ Readable(Load(store, files))
  /\ doc' = Load(store, files)
  /\ attempts' = attempts \cup {Load(store, files)}
  /\ pc' = "open_temp"
  /\ UNCHANGED <<store, files, old, saves, committed>>

\* Only damaged files are left: they are moved away as evidence, or copied
\* where moving fails; when neither works the store stays unused.
PreserveCorrupt ==
  /\ pc = "load"
  /\ Load(store, files) = Damaged
  /\ \E moved \in SUBSET ConfigSlots :
       files' = [slot \in ConfigSlots |-> IF slot \in moved THEN Absent ELSE files[slot]]
  /\ pc' \in {"idle", "load"}
  /\ UNCHANGED <<store, doc, old, saves, committed, attempts>>

Next == Save \/ Step \/ Restart \/ LoadClean \/ Normalize \/ PreserveCorrupt

Spec == Init /\ [][Next]_vars

-----------------------------------------------------------------------------
Register == INSTANCE CrashRegister WITH
  visible <- Load(store, files),
  promise <- (IF store = "secure" THEN {} ELSE {"expose"}) \cup
             (IF store = "usage" THEN {"refuse"} ELSE {})

\* Every store implements the register.  A save reported as done is what every
\* later load answers, through any number of failed saves and restarts, until
\* another document was at least begun; nothing older ever comes back; loading is
\* never refused once a document was saved, except by the risk ledger, which
\* rather refuses than answers from a backup; and a plugin document shows only
\* what was reported as committed.
ImplementsRegister == Register!Spec
=============================================================================
