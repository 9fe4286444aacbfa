---------------------------- MODULE ManagedPlugins ----------------------------
(***************************************************************************)
(* The managed local plugins: import (plugin/runtime/import.rs), removal     *)
(* (plugin/runtime/removal.rs), reload and enabling, over the registry       *)
(* (plugin/registry.rs), the ownership index and its reconciliation with a   *)
(* scan (plugin/ownership.rs), and the package directories                   *)
(* (storage/local_plugin_package/platform.rs, storage/local_plugin_import.rs).*)
(*                                                                         *)
(* A package directory is an object with an identity of its own: its slot,   *)
(* its receipt and its file identities are one thing here.  `pdur' and       *)
(* `ddur' are what a power loss brings back of packages and documents that   *)
(* were not synced.  The operation gate lets one operation run at a time;    *)
(* the user works in the directories meanwhile, and the process may stop     *)
(* between any two steps.                                                    *)
(***************************************************************************)
EXTENDS Integers, FiniteSets

CONSTANTS
    Objs,          \* package directories, numbered in the order of their receipts
    Ids,           \* plugin ids
    IdOf,          \* the id in each package's manifest
    EditedId,      \* the id in it after the user edited it
    MaxStage,      \* 16 packages in import-staging
    MaxQuarantine, \* 16 packages in removal-staging
    MaxUser,       \* bound: what the user does in the directories
    MaxFaults      \* bound: failing steps, stops, power losses, damaged documents

ASSUME PackageAssumption == Objs \subseteq Nat \ {0} /\ IsFiniteSet(Objs)
ASSUME ManifestAssumption == IdOf \in [Objs -> Ids] /\ EditedId \in [Objs -> Ids]

VARIABLES
    pkg, pdur,  \* the packages, and what of them is durable
    disk, ddur, \* the two documents, and what of them is durable
    mem,        \* the live PluginRegistry
    op,         \* the operation that holds the gate
    user, faults,
    consent,    \* history: the user enabled this id since the last import of it
    undone,     \* history: a power loss brought an older state document back
    loose,      \* history: packages forgotten before their deletion was synced
    lost,       \* history: the ownership index was damaged
    shown       \* history: what the current catalog generation stands for

disks == <<pkg, pdur, disk, ddur>>
told  == <<consent, undone, loose, lost>>
pluginVars == <<disks, mem, op, user, faults, told, shown>>

Nothing == [at |-> "none", kind |-> "ours", shape |-> "full"]
NoEntries == [o \in Objs |-> "none"]
NoState == [i \in Ids |-> [fp |-> 0, on |-> FALSE]]
NoScan == [local |-> TRUE, quar |-> TRUE, p |-> [o \in Objs |-> Nothing]]
NoClasses == [i \in Ids |-> "none"]
NoCounts == [up |-> TRUE, conflicts |-> 0, rollback |-> 0, cleanup |-> 0]
Down == [NoCounts EXCEPT !.up = FALSE]

Fault(n) == faults + n <= MaxFaults /\ faults' = faults + n
-----------------------------------------------------------------------------
(* A scan: what both roots hold, or that one of them could not be read.     *)
Photo(local, quar) ==
    [local |-> local, quar |-> quar,
     p |-> [o \in Objs |-> IF \/ pkg[o].at = "local" /\ local
                              \/ pkg[o].at = "quar" /\ quar
                           THEN pkg[o] ELSE Nothing]]
Readable(s) == s.local /\ s.quar

Candidates(s) == {o \in Objs : s.p[o].at = "local" /\ s.p[o].kind # "broken"}
SeenId(s, o) == IF s.p[o].kind = "edited" THEN EditedId[o] ELSE IdOf[o]
Content(s, o) == IF s.p[o].kind = "edited" THEN 2 ELSE 1
HasReceipt(s, o) == s.p[o].kind # "external"

(* Packages that share an id are all rejected, and so are unreadable ones.  *)
Listed(s) == {o \in Candidates(s) :
                \A q \in Candidates(s) \ {o} : SeenId(s, q) # SeenId(s, o)}
Degraded(s) == \E o \in Objs : s.p[o].at = "local" /\ o \notin Listed(s)
ListedAs(s, i) == {o \in Listed(s) : SeenId(s, o) = i}
-----------------------------------------------------------------------------
(* The ownership index against a scan.                                      *)
Matches(s, o) == o \in Listed(s) /\ s.p[o].kind = "ours"
Proves(x, s, o) == x[o] = "managed" /\ Matches(s, o)
Claimants(s, o) == {q \in Listed(s) : q = o \/ SeenId(s, q) = IdOf[o]}
Disputed(x, s) == {o \in Objs : x[o] # "none" /\ Cardinality(Claimants(s, o)) > 1}
Removing(x, s) == {o \in Objs : x[o] = "removing"} \ Disputed(x, s)
Restorable(x, s) == {o \in Removing(x, s) : Matches(s, o)}
Vanished(x, s) == {o \in Removing(x, s) : s.p[o].at = "none"}
Residue(x, s) == {o \in Removing(x, s) : s.p[o].at = "quar" /\ s.p[o].kind = "ours"}
Unproven(x, s) == {o \in Objs : x[o] = "managed" /\ ~Proves(x, s, o)} \ Disputed(x, s)
Orphans(x, s) == {o \in Objs : s.p[o].at = "quar" /\ x[o] # "removing"}

Counts(x, s) ==
    [up |-> TRUE,
     conflicts |-> Cardinality(Disputed(x, s)) + Cardinality(Unproven(x, s))
       + Cardinality(Removing(x, s) \ (Restorable(x, s) \cup Vanished(x, s) \cup Residue(x, s)))
       + Cardinality(Orphans(x, s)),
     rollback |-> Cardinality(Restorable(x, s)),
     cleanup |-> Cardinality(Vanished(x, s) \cup Residue(x, s))]

(* The first entry, by receipt, that has the package's slot, receipt or id. *)
EntriesOf(x, s, o) == {e \in Objs : x[e] # "none" /\ (e = o \/ IdOf[e] = SeenId(s, o))}
First(es) == CHOOSE e \in es : \A f \in es : e <= f

ClassOf(x, s, o) ==
    IF ~HasReceipt(s, o) THEN "external"
    ELSE IF \E e \in Disputed(x, s) : o \in Claimants(s, e) THEN "conflict"
    ELSE IF o \in Restorable(x, s) THEN "pending"
    ELSE IF EntriesOf(x, s, o) = {} THEN "external"
    ELSE IF First(EntriesOf(x, s, o)) = o /\ Proves(x, s, o) THEN "managed"
    ELSE "conflict"

(* Without an index that can be relied on.                                  *)
BlindClass(s, o) == IF HasReceipt(s, o) THEN "unavailable" ELSE "external"

Classes(up, x, s) ==
    [i \in Ids |-> IF ListedAs(s, i) = {} THEN "none"
                   ELSE LET o == CHOOSE o \in ListedAs(s, i) : TRUE
                        IN IF up THEN ClassOf(x, s, o) ELSE BlindClass(s, o)]
-----------------------------------------------------------------------------
(* The two documents.  A damaged one is read from its backup: an index that *)
(* is no authority until it is saved again, a state in which no local       *)
(* plugin is enabled.                                                        *)
Empty(v) == [cur |-> v, bak |-> {}, bad |-> FALSE]
Loadable(d) == ~d.bad \/ d.bak # {}
Version(d) == IF d.bad THEN CHOOSE v \in d.bak : TRUE ELSE d.cur
AllOff(st) == [i \in Ids |-> [st[i] EXCEPT !.on = FALSE]]

LoadIndex(d) ==
    IF ~Loadable(d) THEN [idx |-> NoEntries, own |-> "down"]
    ELSE [idx |-> Version(d), own |-> IF d.bad THEN "rewrite" ELSE "ok"]
LoadState(d) ==
    IF ~Loadable(d) THEN [st |-> NoState, sto |-> "down"]
    ELSE IF d.bad THEN [st |-> AllOff(Version(d)), sto |-> "rewrite"]
    ELSE [st |-> d.cur, sto |-> "ok"]

Loads(load, down) == {[v |-> load, cost |-> 0], [v |-> down, cost |-> 1]}
IndexLoads == Loads(LoadIndex(disk.idx), [idx |-> NoEntries, own |-> "down"])
StateLoads == Loads(LoadState(disk.st), [st |-> NoState, sto |-> "down"])

(* A save ends not committed, committed but with an error before the last   *)
(* sync, or durable.  It syncs the directory of both documents before it     *)
(* replaces the main file, and again at its end.                             *)
Outcomes == {"failed", "unsynced", "durable"}
Committed(out) == out # "failed"
Absent(docs, d) == docs[d] = Empty(IF d = "idx" THEN NoEntries ELSE NoState)
Stored(docs, d, v) ==
    [docs EXCEPT ![d] = [cur |-> v, bad |-> FALSE,
                         bak |-> IF Absent(docs, d) THEN {} ELSE {Version(docs[d])}]]
Cost(out, d) == IF out = "durable" \/ ~Loadable(disk[d]) THEN 0 ELSE 1

Save(d, v, out) ==
    /\ Committed(out) => Loadable(disk[d])
    /\ disk' = IF Committed(out) THEN Stored(disk, d, v) ELSE disk
    /\ ddur' = CASE out = "failed" -> ddur [] out = "unsynced" -> disk [] OTHER -> disk'
    /\ Fault(Cost(out, d))
-----------------------------------------------------------------------------
(* The registry.                                                            *)
Structure(r) ==
    [scan |-> r.scan, cls |-> r.cls, sum |-> r.sum, blind |-> r.own = "down",
     idx |-> IF r.own = "down" THEN NoEntries ELSE r.idx, off |-> r.sto = "down"]
NextNumber(g) == IF g = 1 THEN 2 ELSE 1  \* only that it differs matters

Renumbered(old, next) ==
    IF Structure(next) # Structure(old) THEN [next EXCEPT !.gen = NextNumber(old.gen)] ELSE next

Enabled(r, o) == r.sto # "down" /\ r.st[SeenId(r.scan, o)] = [fp |-> Content(r.scan, o), on |-> TRUE]

(* The classification of a scan by the documents at hand.                   *)
Reconciled(r, s) ==
    LET up == Readable(s) /\ r.own = "ok"
    IN [r EXCEPT !.own = IF Readable(s) /\ @ = "rewrite" THEN "down" ELSE @, !.scan = s,
                 !.cls = Classes(up, r.idx, s), !.sum = IF up THEN Counts(r.idx, s) ELSE Down]

(* set_enabled and the decisions of import and removal: one entry per id.   *)
Decided(st, i, fp, on) == [st EXCEPT ![i] = [fp |-> fp, on |-> on]]

Booted(x, t) ==
    [idx |-> x.idx, own |-> x.own, st |-> t.st, sto |-> t.sto, gen |-> 0, scan |-> NoScan,
     cls |-> NoClasses, sum |-> IF x.own = "ok" THEN NoCounts ELSE Down, unrec |-> FALSE]

(* Documents are adopted by the live registry as soon as they are saved;    *)
(* what is shown stays, and authorises nothing more until the next scan.     *)
Entries(r) == IF r.own = "down" THEN NoEntries ELSE r.idx
Documents(r, from) == [r EXCEPT !.idx = from.idx, !.own = from.own, !.st = from.st, !.sto = from.sto]
\* Mutant: the catalog shown goes on authorising operations.
AdoptRemoval_Unflagged(r, from) == Documents(r, from)
AdoptRemoval(r, from) ==
    [Documents(r, from) EXCEPT !.unrec = @ \/ Entries(r) # Entries(from)]
AdoptImport(r, from) ==
    [Documents(r, from) EXCEPT !.unrec = @ \/ Entries(r) # Entries(from) \/ r.st # from.st]

(* publish_candidate_once against the frozen baseline, and                  *)
(* publish_import_candidate against the live registry.                       *)
PublishOnce(base, next) == [Renumbered(base, next) EXCEPT !.unrec = base.unrec]
PublishImport(next) == Renumbered(mem, next)

Show(r) ==
    /\ mem' = r
    /\ shown' = IF r.gen # mem.gen THEN Structure(r) ELSE shown

NoOp == [pc |-> "idle", kind |-> "none", o |-> 0, base |-> Booted(LoadIndex(Empty(NoEntries)), LoadState(Empty(NoState))),
         cand |-> Booted(LoadIndex(Empty(NoEntries)), LoadState(Empty(NoState))), scan |-> NoScan, todo |-> {}, sure |-> TRUE,
         clean |-> "none"]
End == op' = NoOp
Goto(pc) == op' = [op EXCEPT !.pc = pc]
-----------------------------------------------------------------------------
(* apply_local_discovery, for the live registry and for an import's         *)
(* candidate: the index is loaded again; a recovered one is saved before     *)
(* anything rests on it; a removal that did not happen is rolled back and    *)
(* one that is complete is forgotten, with a save each.                       *)
Todo(r) == Restorable(r.idx, op.scan) \cup Vanished(r.idx, op.scan)
Reconcile(r) ==
    op' = [op EXCEPT !.cand = r, !.todo = Todo(r),
                     !.pc = IF Readable(op.scan) /\ r.own = "ok" /\ Todo(r) # {}
                            THEN "converge" ELSE "apply"]

LoadOwnership ==
    /\ op.pc = "load"
    /\ \E l \in IndexLoads :
         /\ Fault(l.cost)
         /\ IF Readable(op.scan) /\ l.v.own = "rewrite"
            THEN op' = [op EXCEPT !.cand = [@ EXCEPT !.idx = l.v.idx, !.own = "rewrite"],
                                  !.pc = "rewrite"]
            ELSE Reconcile([op.cand EXCEPT !.idx = l.v.idx, !.own = l.v.own])
    /\ UNCHANGED <<disks, mem, user, told, shown>>

RewriteOwnership ==
    /\ op.pc = "rewrite"
    /\ \E out \in Outcomes :
         /\ Save("idx", op.cand.idx, out)
         /\ Reconcile([op.cand EXCEPT !.own = IF Committed(out) THEN "ok" ELSE "down"])
    /\ UNCHANGED <<pkg, pdur, mem, user, told, shown>>

(* The entry goes although the deletion is not synced: history.             *)
Loosened(o, forgotten) == IF forgotten /\ pdur[o].at = "quar" THEN loose \cup {o} ELSE loose

Settled(x, s, o) == [x EXCEPT ![o] = IF o \in Restorable(x, s) THEN "managed" ELSE "none"]
Converge ==
    /\ op.pc = "converge"
    /\ \E o \in {First(op.todo)}, out \in Outcomes :
         \E x \in {Settled(op.cand.idx, op.scan, o)} :
           /\ Save("idx", x, out)
           /\ op' = [op EXCEPT !.cand = IF Committed(out) THEN [@ EXCEPT !.idx = x] ELSE @,
                               !.todo = @ \ {o}, !.pc = IF op.todo = {o} THEN "apply" ELSE @]
           /\ loose' = Loosened(o, Committed(out) /\ x[o] = "none")
    /\ UNCHANGED <<pkg, pdur, mem, user, consent, undone, lost, shown>>

(* The state document is loaded again when it could not be loaded before.   *)
WithState(r, t) == [r EXCEPT !.st = t.st, !.sto = t.sto]
Applied(t) ==
    LET next  == WithState(Reconciled(op.cand, op.scan), t)
        fresh == IF op.base.gen = 0 THEN [next EXCEPT !.gen = 1] ELSE Renumbered(op.base, next)
    IN [fresh EXCEPT !.unrec = @ /\ ~(Readable(op.scan) /\ next.own = "ok")]
States ==
    IF op.cand.sto = "down" THEN StateLoads
    ELSE {[v |-> [st |-> op.cand.st, sto |-> op.cand.sto], cost |-> 0]}

Scans == {[v |-> Photo(TRUE, TRUE), cost |-> 0], [v |-> Photo(FALSE, TRUE), cost |-> 1],
          [v |-> Photo(TRUE, FALSE), cost |-> 1]}
Scanned(kind, o) ==
    \E s \in Scans :
      /\ Fault(s.cost)
      /\ op' = [NoOp EXCEPT !.pc = "load", !.kind = kind, !.o = o, !.base = mem, !.cand = mem,
                            !.scan = s.v]

(* reload_catalog, and get_catalog when the catalog or the index needs it.  *)
Reload ==
    /\ op.pc = "idle"
    /\ Scanned("reload", 0)
    /\ UNCHANGED <<disks, mem, user, told, shown>>

Reloaded ==
    /\ op.pc = "apply" /\ op.kind = "reload"
    /\ \E t \in States : Fault(t.cost) /\ Show(Applied(t.v))
    /\ End
    /\ UNCHANGED <<disks, user, told>>

(* request_state_retry.                                                     *)
RetryState ==
    /\ op.pc = "idle" /\ mem.sto = "down" /\ mem.gen # 0
    /\ \E t \in StateLoads :
         Fault(t.cost) /\ Show(Renumbered(mem, WithState(mem, t.v)))
    /\ UNCHANGED <<disks, op, user, told>>

(* set_enabled of a listed package.                                         *)
SetEnabled(i, on) ==
    /\ op.pc = "idle" /\ ~mem.unrec /\ mem.sto # "down"
    /\ mem.cls[i] \notin {"none", "pending"}
    /\ \E o \in ListedAs(mem.scan, i), out \in Outcomes :
         \E st \in {Decided(mem.st, i, Content(mem.scan, o), on)} :
           /\ st # mem.st \/ mem.sto = "rewrite"
           /\ Save("st", st, out)
           /\ mem' = IF Committed(out) THEN WithState(mem, [st |-> st, sto |-> "ok"]) ELSE mem
           /\ consent' = IF Committed(out) THEN [consent EXCEPT ![i] = on] ELSE consent
    /\ UNCHANGED <<pkg, pdur, op, user, undone, loose, lost, shown>>
-----------------------------------------------------------------------------
(* Import.                                                                  *)
At(place) == {o \in Objs : pkg[o].at = place}
Unused == {o \in Objs : pkg[o].at = "new" /\ o # op.o}
FirstUnused(o) == o \in Unused /\ \A q \in Unused : IdOf[q] = IdOf[o] => o <= q
Put(o, r) == pkg' = [pkg EXCEPT ![o] = r] /\ pdur' = [pdur EXCEPT ![o] = r]
Placed(o, place) == [pkg EXCEPT ![o].at = place]

(* commit_import: the generation is the one that was previewed.             *)
Import(o) ==
    /\ op.pc = "idle" /\ mem.gen # 0 /\ FirstUnused(o)
    /\ Scanned("import", o)
    /\ UNCHANGED <<disks, mem, user, told, shown>>

(* validate_managed_import.                                                 *)
Importable(r, o) ==
    /\ ~r.unrec /\ r.sto # "down" /\ r.own = "ok" /\ r.sum.up
    /\ r.scan.local /\ ~Degraded(r.scan) /\ ListedAs(r.scan, IdOf[o]) = {}
    /\ Cardinality(At("stage")) < MaxStage

(* The scan before: a catalog that changed is published and ends the import.*)
Prescanned ==
    /\ op.pc = "apply" /\ op.kind = "import"
    /\ \E t \in States : \E r \in {Applied(t.v)} :
         /\ Fault(t.cost)
         /\ \/ r.gen # mem.gen /\ Show(PublishImport(r)) /\ End
            \/ /\ r.gen = mem.gen /\ Importable(r, op.o)
               /\ op' = [op EXCEPT !.cand = r, !.pc = "stage"]
               /\ UNCHANGED <<mem, shown>>
            \/ r.gen = mem.gen /\ ~Importable(r, op.o) /\ End /\ UNCHANGED <<mem, shown>>
    /\ UNCHANGED <<disks, user, told>>

(* prepare_stage, or a stage that could not be completed and may stay.      *)
Stage ==
    /\ op.pc = "stage"
    /\ \/ Put(op.o, [Nothing EXCEPT !.at = "stage"]) /\ Goto("disable") /\ UNCHANGED faults
       \/ Put(op.o, [Nothing EXCEPT !.at = "stage", !.kind = "broken"]) /\ Fault(1) /\ End
    /\ UNCHANGED <<disk, ddur, mem, user, told, shown>>

(* persist_import_disabled: nothing to save if that is what memory holds.   *)
Disable ==
    /\ op.pc = "disable"
    /\ \E i \in {IdOf[op.o]} : \E st \in {Decided(op.cand.st, i, 1, FALSE)} :
         \/ /\ st = op.cand.st /\ op.cand.sto = "ok"
            /\ mem' = AdoptImport(mem, op.cand)
            /\ Goto("promote")
            /\ UNCHANGED <<disk, ddur, faults>>
         \/ /\ st # op.cand.st \/ op.cand.sto # "ok"
            /\ \E out \in Outcomes :
                 \E c \in {IF Committed(out) THEN WithState(op.cand, [st |-> st, sto |-> "ok"])
                           ELSE op.cand} :
                   /\ Save("st", st, out)
                   /\ mem' = AdoptImport(mem, c)
                   /\ op' = IF out = "durable" THEN [op EXCEPT !.cand = c, !.pc = "promote"]
                            ELSE NoOp
    /\ UNCHANGED <<pkg, pdur, user, told, shown>>

(* DiskStage::promote and, when it is proven not to have happened, cleanup. *)
Promote ==
    /\ op.pc = "promote"
    /\ \/ /\ pkg[op.o].kind = "ours"
          /\ pkg' = Placed(op.o, "local") /\ pdur' = [pdur EXCEPT ![op.o] = pkg'[op.o]]
          /\ consent' = [consent EXCEPT ![IdOf[op.o]] = FALSE]
          /\ Goto("register")
          /\ UNCHANGED <<mem, shown, faults>>
       \/ /\ pkg[op.o].kind = "ours"        \* not verified or not synced
          /\ pkg' = Placed(op.o, "local")
          /\ consent' = [consent EXCEPT ![IdOf[op.o]] = FALSE]
          /\ op' = [op EXCEPT !.sure = FALSE, !.pc = "postscan"]
          /\ Fault(1)
          /\ UNCHANGED <<pdur, mem, shown>>
       \/ /\ pkg[op.o].kind = "ours"        \* an error that proves nothing
          /\ op' = [op EXCEPT !.sure = FALSE, !.pc = "postscan"]
          /\ Fault(1)
          /\ UNCHANGED <<pkg, pdur, mem, consent, shown>>
       \/ /\ pkg[op.o].kind = "ours"        \* the slot is taken, and so are the next ones
          /\ Put(op.o, [pkg[op.o] EXCEPT !.at = "gone"])
          /\ Show(PublishImport(op.cand)) /\ End
          /\ Fault(1)
          /\ UNCHANGED consent
       \/ /\ pkg[op.o].kind # "ours"        \* not what was staged; other files stay
          /\ Put(op.o, IF pkg[op.o].kind = "edited" THEN [pkg[op.o] EXCEPT !.at = "gone"]
                       ELSE pkg[op.o])
          /\ Show(PublishImport(op.cand)) /\ End
          /\ UNCHANGED <<consent, faults>>
    /\ UNCHANGED <<disk, ddur, user, undone, loose, lost>>

(* register_managed_import: an id has one entry.                            *)
Registrable(r, o) == r.own = "ok" /\ \A e \in Objs : r.idx[e] # "none" => IdOf[e] # IdOf[o]
Register ==
    /\ op.pc = "register"
    /\ \/ /\ Registrable(op.cand, op.o)
          /\ \E out \in Outcomes :
               \E c \in {IF Committed(out) THEN [op.cand EXCEPT !.idx[op.o] = "managed"]
                         ELSE op.cand} :
                 /\ Save("idx", [op.cand.idx EXCEPT ![op.o] = "managed"], out)
                 /\ mem' = AdoptImport(mem, c)
                 /\ op' = [op EXCEPT !.cand = c, !.sure = out # "unsynced", !.pc = "postscan"]
       \/ /\ ~Registrable(op.cand, op.o)
          /\ mem' = AdoptImport(mem, op.cand) /\ Goto("postscan")
          /\ UNCHANGED <<disk, ddur, faults>>
    /\ UNCHANGED <<pkg, pdur, user, told, shown>>

(* The scan after: one complete publication, or none.                       *)
Postscan ==
    /\ op.pc = "postscan"
    /\ \E s \in Scans :
         /\ Fault(s.cost)
         /\ op' = IF s.v.local THEN [op EXCEPT !.pc = "load", !.kind = "published", !.scan = s.v,
                                               !.base = op.cand]
                  ELSE NoOp
    /\ UNCHANGED <<disks, mem, user, told, shown>>

Imported ==
    /\ op.pc = "apply" /\ op.kind = "published"
    /\ \E t \in States :
         /\ Fault(t.cost)
         /\ IF op.sure THEN Show(PublishImport(Applied(t.v))) ELSE UNCHANGED <<mem, shown>>
    /\ End
    /\ UNCHANGED <<disks, user, told>>
-----------------------------------------------------------------------------
(* Removal.  preflight_removal and Removal::prepare.                        *)
Intact(o) == pkg[o].kind = "ours"
Removable(o) ==
    /\ ~mem.unrec /\ mem.gen # 0 /\ mem.sto # "down" /\ mem.own = "ok" /\ Readable(mem.scan)
    /\ mem.cls[SeenId(mem.scan, o)] = "managed" /\ o \in Listed(mem.scan)
    /\ Proves(mem.idx, mem.scan, o) /\ ~Enabled(mem, o)
    /\ pkg[o].at = "local" /\ Intact(o) /\ Cardinality(At("quar")) < MaxQuarantine

Remove(o) ==
    /\ op.pc = "idle" /\ Removable(o)
    /\ op' = [NoOp EXCEPT !.pc = "off", !.kind = "removal", !.o = o, !.base = mem, !.cand = mem,
                          !.sure = FALSE]
    /\ UNCHANGED <<disks, mem, user, faults, told, shown>>

(* Only what will survive a power loss lets the removal go on.              *)
\* Mutant: a save whose directory could not be synced is taken for done.
Barrier_Committed(out) == Committed(out)
Barrier(out) == out = "durable"

SaveDisabled ==
    /\ op.pc = "off"
    /\ \E out \in Outcomes, st \in {Decided(op.cand.st, IdOf[op.o], 1, FALSE)} :
         \E c \in {IF Committed(out) THEN WithState(op.cand, [st |-> st, sto |-> "ok"])
                   ELSE op.cand} :
           /\ Save("st", st, out)
           /\ IF Barrier(out) \/ ~Committed(out)
              THEN mem' = AdoptRemoval(mem, c) /\ UNCHANGED shown
              ELSE Show(PublishOnce(op.base, Reconciled(c, op.base.scan)))
           /\ op' = IF Barrier(out) THEN [op EXCEPT !.cand = c, !.pc = "mark"] ELSE NoOp
    /\ UNCHANGED <<pkg, pdur, user, told>>

MarkRemoving ==
    /\ op.pc = "mark"
    /\ \E out \in Outcomes, x \in {[op.cand.idx EXCEPT ![op.o] = "removing"]} :
         \E c \in {IF Committed(out) THEN [op.cand EXCEPT !.idx = x] ELSE op.cand} :
           /\ Save("idx", x, out)
           /\ mem' = AdoptRemoval(mem, c)
           /\ op' = [op EXCEPT !.cand = c, !.pc = IF Barrier(out) THEN "rename" ELSE "rollback"]
    /\ UNCHANGED <<pkg, pdur, user, told, shown>>

(* reverify_before_rename and quarantine_once.                              *)
Quarantine ==
    /\ op.pc = "rename"
    /\ \/ /\ pkg[op.o].at # "local" \/ ~Intact(op.o)
          /\ Goto("rollback")
          /\ UNCHANGED <<pkg, pdur, faults>>
       \/ /\ pkg[op.o].at = "local" /\ Intact(op.o)
          /\ \/ /\ pkg' = Placed(op.o, "quar") /\ pdur' = [pdur EXCEPT ![op.o] = pkg'[op.o]]
                /\ op' = [op EXCEPT !.sure = TRUE, !.pc = "look"]
                /\ UNCHANGED faults
             \/ pkg' = Placed(op.o, "quar") /\ Goto("look") /\ Fault(1) /\ UNCHANGED pdur
             \/ Goto("look") /\ Fault(1) /\ UNCHANGED <<pkg, pdur>>
             \/ Goto("rollback") /\ Fault(1) /\ UNCHANGED <<pkg, pdur>>
    /\ UNCHANGED <<disk, ddur, mem, user, told, shown>>

(* The scan that will be published.                                         *)
Look ==
    /\ op.pc = "look"
    /\ \E s \in Scans :
         /\ Fault(s.cost)
         /\ op' = [op EXCEPT !.scan = s.v, !.pc = IF op.sure THEN "delete" ELSE "forget",
                             !.clean = IF op.sure THEN @ ELSE "conflict"]
    /\ UNCHANGED <<disks, mem, user, told, shown>>

(* cleanup_once: manifest, receipt, directory, each verified before.  What   *)
(* stops it leaves a shape that is known, or a conflict.                      *)
Less(shape) == CASE shape = "full" -> "receipt" [] shape = "receipt" -> "empty" [] OTHER -> "gone"
KnownShape(o) ==
    CASE pkg[o].at = "gone" -> "absent" [] pkg[o].at = "quar" /\ Intact(o) -> pkg[o].shape
      [] OTHER -> "conflict"
Stop(shape) == op' = [op EXCEPT !.clean = shape, !.pc = "forget"]

Delete ==
    /\ op.pc = "delete"
    /\ \/ /\ pkg[op.o].at = "quar" /\ Intact(op.o) /\ pkg[op.o].shape # "empty"
          /\ pkg' = [pkg EXCEPT ![op.o].shape = Less(@)]
          /\ UNCHANGED <<pdur, op, faults>>
       \/ /\ pkg[op.o].at = "quar" /\ Intact(op.o) /\ pkg[op.o].shape = "empty"
          /\ pkg' = Placed(op.o, "gone")
          /\ UNCHANGED <<pdur, op, faults>>
       \/ /\ pkg[op.o].at = "gone"
          /\ pdur' = [pdur EXCEPT ![op.o] = pkg[op.o]] /\ Stop("removed")
          /\ UNCHANGED <<pkg, faults>>
       \/ KnownShape(op.o) = "conflict" /\ Stop("conflict") /\ UNCHANGED <<pkg, pdur, faults>>
       \/ Fault(1) /\ Stop(KnownShape(op.o)) /\ UNCHANGED <<pkg, pdur>>
    /\ UNCHANGED <<disk, ddur, mem, user, told, shown>>

(* update_target_observation: the scan as the cleanup left it.              *)
Observed ==
    CASE op.clean = "conflict" -> op.scan
      [] op.clean \in {"removed", "absent"} -> [op.scan EXCEPT !.p[op.o] = Nothing]
      [] OTHER -> [op.scan EXCEPT !.p[op.o] = [at |-> "quar", kind |-> "ours", shape |-> op.clean]]
ProvesConflict ==
    \/ op.scan.p[op.o].at = "local"
    \/ op.scan.p[op.o].at = "quar" /\ op.scan.p[op.o].kind # "ours"
Publishable ==
    /\ Readable(op.scan) /\ ~Matches(op.scan, op.o)
    /\ op.clean = "conflict" => ProvesConflict
Conclude(c) ==
    IF Publishable THEN Show(PublishOnce(op.base, Reconciled(c, Observed)))
    ELSE mem' = AdoptRemoval(mem, c) /\ UNCHANGED shown

(* The entry is deleted once nothing is left, and the catalog published.    *)
Clean == op.clean \in {"removed", "absent"}
Forget ==
    /\ op.pc = "forget"
    /\ \/ /\ Clean
          /\ \E out \in Outcomes, x \in {[op.cand.idx EXCEPT ![op.o] = "none"]} :
               /\ Save("idx", x, out)
               /\ Conclude(IF Committed(out) THEN [op.cand EXCEPT !.idx = x] ELSE op.cand)
               /\ loose' = Loosened(op.o, Committed(out))
       \/ ~Clean /\ Conclude(op.cand) /\ UNCHANGED <<disk, ddur, faults, loose>>
    /\ End
    /\ UNCHANGED <<pkg, pdur, user, consent, undone, lost>>

(* rollback: nothing was moved.                                             *)
Rollback ==
    /\ op.pc = "rollback"
    /\ \E out \in Outcomes, x \in {[op.cand.idx EXCEPT ![op.o] = "managed"]} :
         /\ Save("idx", x, out)
         /\ Show(PublishOnce(op.base,
                   Reconciled(IF Committed(out) THEN [op.cand EXCEPT !.idx = x] ELSE op.cand,
                              op.base.scan)))
    /\ End
    /\ UNCHANGED <<pkg, pdur, user, told>>
-----------------------------------------------------------------------------
(* The user, in the directories.                                            *)
Tamper ==
    /\ user < MaxUser /\ user' = user + 1
    /\ \E o \in Objs :
         \/ FirstUnused(o) /\ Put(o, [Nothing EXCEPT !.at = "local", !.kind = "external"])
         \/ /\ FirstUnused(o) /\ \E q \in At("local") : IdOf[q] = IdOf[o] /\ Intact(q)
            /\ Put(o, [Nothing EXCEPT !.at = "local", !.kind = "copy"])
         \/ /\ pkg[o].at \in {"local", "quar", "stage"} /\ Intact(o) /\ pkg[o].shape = "full"
            /\ \E k \in {"edited", "broken"} : Put(o, [pkg[o] EXCEPT !.kind = k])
         \/ pkg[o].at \in {"local", "quar"} /\ Put(o, [pkg[o] EXCEPT !.at = "gone"])
    /\ UNCHANGED <<disk, ddur, mem, op, faults, told, shown>>

(* A document's main file is damaged.                                       *)
Damage ==
    /\ Fault(1)
    /\ \E d \in {"idx", "st"} :
         /\ ~disk[d].bad /\ ~Absent(disk, d)
         /\ disk' = [disk EXCEPT ![d].bad = TRUE]
         /\ ddur' = [ddur EXCEPT ![d].bad = TRUE]
         /\ lost' = (lost \/ d = "idx")
    /\ UNCHANGED <<pkg, pdur, mem, op, user, consent, undone, loose, shown>>

(* The process starts anew: after a stop, or after a power loss that brings *)
(* back any mixture of what was not synced.                                  *)
Boot ==
    \E x \in {LoadIndex(disk'.idx), [idx |-> NoEntries, own |-> "down"]},
       t \in {LoadState(disk'.st), [st |-> NoState, sto |-> "down"]} :
      /\ Fault(1 + (IF x = LoadIndex(disk'.idx) THEN 0 ELSE 1)
                 + (IF t = LoadState(disk'.st) THEN 0 ELSE 1))
      /\ mem' = Booted(x, t)
      /\ shown' = Structure(mem')

Restart ==
    /\ UNCHANGED disks
    /\ Boot /\ End
    /\ UNCHANGED <<user, told>>

PowerLoss ==
    /\ \E kept \in SUBSET Objs, docs \in SUBSET {"idx", "st"} :
         /\ pkg' = [o \in Objs |-> IF o \in kept THEN pkg[o] ELSE pdur[o]]
         /\ disk' = [disk EXCEPT !["idx"] = IF "idx" \in docs THEN @ ELSE ddur.idx,
                                 !["st"] = IF "st" \in docs THEN @ ELSE ddur.st]
    /\ pkg' # pkg \/ disk' # disk
    /\ pdur' = pkg' /\ ddur' = disk'
    /\ undone' = (undone \/ disk'.st # disk.st)
    /\ Boot /\ End
    /\ UNCHANGED <<user, consent, loose, lost>>

PluginsInit ==
    /\ pkg = [o \in Objs |-> [Nothing EXCEPT !.at = "new"]] /\ pdur = pkg
    /\ disk = [idx |-> Empty(NoEntries), st |-> Empty(NoState)] /\ ddur = disk
    /\ mem = Booted(LoadIndex(disk.idx), LoadState(disk.st))
    /\ op = NoOp /\ user = 0 /\ faults = 0
    /\ consent = [i \in Ids |-> FALSE] /\ undone = FALSE /\ loose = {} /\ lost = FALSE
    /\ shown = Structure(mem)

PluginsNext ==
    \/ Reload \/ LoadOwnership \/ RewriteOwnership \/ Converge \/ Reloaded \/ RetryState
    \/ \E i \in Ids, on \in BOOLEAN : SetEnabled(i, on)
    \/ \E o \in Objs : Import(o) \/ Remove(o)
    \/ Prescanned \/ Stage \/ Disable \/ Promote \/ Register \/ Postscan \/ Imported
    \/ SaveDisabled \/ MarkRemoving \/ Quarantine \/ Look \/ Delete \/ Forget \/ Rollback
    \/ Tamper \/ Damage \/ Restart \/ PowerLoss

PluginsSpec == PluginsInit /\ [][PluginsNext]_pluginVars
-----------------------------------------------------------------------------
(* A save that committed is never taken back by memory, whatever it         *)
(* answered: between operations the registry's documents are those on disk.  *)
(* It may only hold on to a removal that the scan after an uncertain import   *)
(* has settled.  (The index: as long as nobody damages it.)                   *)
MemoryFollowsDisk ==
    op.pc = "idle" =>
      /\ mem.own = "ok" /\ ~lost =>
           \A o \in Objs : mem.idx[o] \in {disk.idx.cur[o], "removing"}
      /\ mem.sto = "ok" /\ ~disk.st.bad => mem.st = disk.st.cur

(* A package in quarantine has its entry, so that a later scan accounts for *)
(* it, unless its deletion was not synced before the entry went or the       *)
(* index was damaged.                                                        *)
QuarantineAccounted ==
    \A o \in At("quar") : o \in loose \/ lost \/ disk.idx.cur[o] = "removing"

(* An entry stands for a package that was promoted for good.                *)
EntryMeansPromoted ==
    \A o \in Objs : disk.idx.cur[o] # "none" => pdur[o].at \notin {"new", "stage"}

(* An imported package is enabled only by a decision made after the import. *)
EnabledByConsent ==
    \A o \in Listed(mem.scan) :
      mem.scan.p[o].kind = "ours" /\ Enabled(mem, o) => consent[IdOf[o]] \/ undone

(* One generation number stands for one catalog; when documents have moved  *)
(* on since, nothing may be done upon it.                                    *)
OneNumberOneCatalog == ~mem.unrec => Structure(mem) = shown

(***************************************************************************)
(* Managed plugins: memory never takes back what was saved, a quarantined   *)
(* package is accounted for, an entry stands for a package promoted for     *)
(* good, an imported package is enabled by a decision made since, and one   *)
(* catalog number stands for one catalog (plugin/registry.rs,               *)
(* plugin/ownership.rs, plugin/runtime/import.rs and removal.rs).           *)
(***************************************************************************)
PluginsSafe ==
    /\ MemoryFollowsDisk /\ QuarantineAccounted /\ EntryMeansPromoted
    /\ EnabledByConsent /\ OneNumberOneCatalog

(* The program moves or deletes nothing of the user's: only an unaltered    *)
(* package of its own, disabled and marked as under removal for good.        *)
RemovalStep ==
    user' = user /\ pkg' # pkg /\ ~PowerLoss =>
      \A o \in Objs : pkg[o].at \in {"local", "quar"} /\ pkg'[o] # pkg[o] =>
        /\ pkg[o].kind = "ours" /\ pkg'[o].at # "local"
        /\ ddur.idx.cur[o] = "removing"
        /\ pkg[o].at = "local" => ~ddur.st.cur[IdOf[o]].on

(***************************************************************************)
(* The program moves or deletes only unaltered packages of its own, which   *)
(* are disabled and marked as under removal even after a power loss         *)
(* (storage/local_plugin_package/platform.rs, plugin/runtime/removal.rs).   *)
(***************************************************************************)
RemovesOnlyOwn == [][RemovalStep]_pluginVars
=============================================================================
