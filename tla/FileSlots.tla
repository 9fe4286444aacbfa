------------------------------ MODULE FileSlots ------------------------------
(***************************************************************************)
(* The recoverable files of the desktop client.  A stored document owns a  *)
(* few sibling paths (the document itself and suffixed copies); a slot is  *)
(* what one of these paths holds: nothing, bytes that do not parse, or a   *)
(* complete document.  The operators below are the file-system calls the   *)
(* stores make and the rules by which each store reads its document back.  *)
(***************************************************************************)
CONSTANTS Absent,     \* no file at this path
          Damaged     \* a file whose bytes do not parse (created, truncated or half written)

ASSUME SlotMarkers == Absent # Damaged

Put(f, slot, contents) == [f EXCEPT ![slot] = contents]

Remove(f, slot) == [f EXCEPT ![slot] = Absent]

Rename(f, from, to) == [f EXCEPT ![from] = Absent, ![to] = f[from]]

Readable(contents) == contents \notin {Absent, Damaged}

-----------------------------------------------------------------------------
(***************************************************************************)
(* storage/config_persistence.rs: main, <main>.tmp and <main>.bak.         *)
(***************************************************************************)
ConfigSlots == {"main", "tmp", "bak"}

NoFile == [slot \in ConfigSlots |-> Absent]

\* config_persistence::save, one system call at a time.  Each element is one
\* outcome of the call: the step to continue with, and the files it leaves;
\* "failed" is the Err that save returns.
OpenTemp(f) == {<<"write_temp", Put(f, "tmp", Damaged)>>, <<"failed", f>>}

\* write_all may fail, or sync_all after everything was written.
WriteTemp(f, new) ==
  {<<"replace_main", Put(f, "tmp", new)>>, <<"failed", Put(f, "tmp", new)>>, <<"failed", f>>}

\* Without a main file the temporary copy is renamed at once; otherwise the
\* old backup is removed first.
ReplaceMain(f) ==
  {<<"failed", f>>} \cup
  IF f["main"] = Absent
  THEN {<<"saved", Rename(f, "tmp", "main")>>}
  ELSE {<<"demote_main", Remove(f, "bak")>>}

DemoteMain(f) == {<<"promote_temp", Rename(f, "main", "bak")>>, <<"failed", f>>}

PromoteTemp(f) == {<<"saved", Rename(f, "tmp", "main")>>, <<"restore_main", f>>}

\* The promotion failed: put the old main file back if that works.
RestoreMain(f) == {<<"failed", Rename(f, "bak", "main")>>, <<"failed", f>>}

SavePcs == {"open_temp", "write_temp", "replace_main", "demote_main",
            "promote_temp", "restore_main"}

SaveSteps(pc, f, new) ==
  [open_temp    |-> OpenTemp(f),
   write_temp   |-> WriteTemp(f, new),
   replace_main |-> ReplaceMain(f),
   demote_main  |-> DemoteMain(f),
   promote_temp |-> PromoteTemp(f),
   restore_main |-> RestoreMain(f)][pc]

\* config_persistence::load: candidates that cannot be read or parsed are skipped.
LoadFirstValid(f) ==
  IF Readable(f["main"]) THEN f["main"]
  ELSE IF Readable(f["tmp"]) THEN f["tmp"]
  ELSE IF Readable(f["bak"]) THEN f["bak"]
  ELSE IF \A slot \in ConfigSlots : f[slot] = Absent THEN Absent ELSE Damaged

\* order_submissions::read_record: the first candidate that exists decides,
\* even when it is damaged.
LoadFirstExisting(f) ==
  IF f["main"] # Absent THEN f["main"]
  ELSE IF f["tmp"] # Absent THEN f["tmp"] ELSE f["bak"]

-----------------------------------------------------------------------------
(***************************************************************************)
(* storage/risk_usage.rs: the same three paths, another order of steps and *)
(* another reader.                                                         *)
(***************************************************************************)

\* The old backup goes first, whether or not there is a main file.
ReplaceUsage(f) ==
  {<<IF f["main"] = Absent THEN "promote_temp" ELSE "demote_main", Remove(f, "bak")>>,
   <<"failed", f>>}

\* A failed promotion restores the ledger only if this save demoted one.
PromoteUsage(f) ==
  {<<"saved", Rename(f, "tmp", "main")>>,
   <<IF f["bak"] = Absent THEN "failed" ELSE "restore_main", f>>}

UsageSteps(pc, f, new) ==
  [open_temp    |-> OpenTemp(f),
   write_temp   |-> WriteTemp(f, new),
   replace_main |-> ReplaceUsage(f),
   demote_main  |-> DemoteMain(f),
   promote_temp |-> PromoteUsage(f),
   restore_main |-> RestoreMain(f)][pc]

\* RiskUsageStore::load: the first candidate that exists decides, and a ledger
\* of which only the backup is left is refused.
LoadUsage(f) ==
  IF f["main"] # Absent THEN f["main"]
  ELSE IF f["tmp"] # Absent THEN f["tmp"]
  ELSE IF f["bak"] # Absent THEN Damaged ELSE Absent

-----------------------------------------------------------------------------
(***************************************************************************)
(* storage/chart_state_store.rs and storage/notification_store.rs: every   *)
(* removal and rename is followed by a sync of the directory, whose        *)
(* failure is reported after the change has happened.                      *)
(***************************************************************************)
Synced(next, before, after) == {<<next, after>>, <<"failed", before>>, <<"failed", after>>}

\* Only a valid main file becomes the backup; any other one is removed.
ReplaceChecked(f) ==
  IF Readable(f["main"])
  THEN Synced("demote_main", f, Remove(f, "bak"))
  ELSE Synced("promote_temp", f, Remove(f, "main"))

DemoteChecked(f) == Synced("promote_temp", f, Rename(f, "main", "bak"))

\* main_is_valid || backup_is_valid, both read before the save began, is here
\* whether the backup is readable: a valid main file has become the backup.
PromoteChecked(f) ==
  {<<"saved", Rename(f, "tmp", "main")>>} \cup
  {<<IF Readable(f["bak"]) THEN "restore_main" ELSE "failed", after>> :
     after \in {f, Rename(f, "tmp", "main")}}

CheckedSteps(pc, f, new) ==
  [open_temp    |-> OpenTemp(f),
   write_temp   |-> WriteTemp(f, new),
   replace_main |-> ReplaceChecked(f),
   demote_main  |-> DemoteChecked(f),
   promote_temp |-> PromoteChecked(f),
   restore_main |-> RestoreMain(f)][pc]

-----------------------------------------------------------------------------
(***************************************************************************)
(* storage/safe_plugin_document.rs: five reserved names.  The document and *)
(* a copy of its predecessor are complete under work names before either   *)
(* is renamed over the name readers use.                                   *)
(***************************************************************************)
SecureSlots == ConfigSlots \cup {"pending", "bak_pending"}

\* Leftovers of an interrupted transaction; one removal may succeed alone.
CleanPending(f) ==
  LET first == Remove(f, "pending")
      both  == Remove(first, "bak_pending")
  IN {<<"create_pending", both>>, <<"failed", f>>, <<"failed", first>>, <<"failed", both>>}

CreatePending(f) == {<<"write_pending", Put(f, "pending", Damaged)>>, <<"failed", f>>}

\* Without a previous document there is nothing to back up.
WritePending(f, old, new) ==
  LET written == Put(f, "pending", new)
  IN {<<IF Readable(old) THEN "create_backup" ELSE "delete_tmp", written>>,
      <<"failed", written>>, <<"failed", f>>}

CreateBackup(f) == {<<"write_backup", Put(f, "bak_pending", Damaged)>>, <<"failed", f>>}

WriteBackup(f, old) ==
  LET written == Put(f, "bak_pending", old)
  IN {<<"replace_backup", written>>, <<"failed", written>>, <<"failed", f>>}

\* Verifying the renamed file may still fail.
ReplaceBackup(f) == Synced("delete_tmp", f, Rename(f, "bak_pending", "bak"))

DeleteLegacyTmp(f) == Synced("replace_main", f, Remove(f, "tmp"))

\* The commit point.  A later failure is reported with outcome committed.
ReplaceSecureMain(f) == {<<"saved", Rename(f, "pending", "main")>>, <<"failed", f>>}

SecurePcs == {"clean_pending", "create_pending", "write_pending", "create_backup",
              "write_backup", "replace_backup", "delete_tmp", "replace_main"}

SecureSteps(pc, f, old, new) ==
  [clean_pending  |-> CleanPending(f),
   create_pending |-> CreatePending(f),
   write_pending  |-> WritePending(f, old, new),
   create_backup  |-> CreateBackup(f),
   write_backup   |-> WriteBackup(f, old),
   replace_backup |-> ReplaceBackup(f),
   delete_tmp     |-> DeleteLegacyTmp(f),
   replace_main   |-> ReplaceSecureMain(f)][pc]
=============================================================================
