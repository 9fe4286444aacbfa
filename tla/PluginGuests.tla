------------------------------ MODULE PluginGuests ------------------------------
(***************************************************************************)
(* The plugin runtime while guests run: compute requests and workflows      *)
(* (plugin/runtime/{compute,workflow}.rs, plugin/compute/slot.rs), the       *)
(* grants and confirmations of workflows, and the lifecycle operations that  *)
(* replace the catalog (plugin/runtime.rs).                                  *)
(*                                                                         *)
(* `opGate' is the operation gate: its holder and, behind it, those who have *)
(* reserved it.  A guest's request only tries it.  Requests that wait for it *)
(* before they do anything begin here when they get it.  Who reads or writes *)
(* the account under the gate holds the account guard as well.               *)
(***************************************************************************)
EXTENDS Integers, FiniteSets, Sequences

CONSTANTS
    Guests,     \* requests, by their id
    MaxLife,    \* bound: lifecycle operations
    MaxSession, \* bound: sessions
    MaxSerial,  \* bound: numbers of grants
    MaxPending  \* 32 proposals

ASSUME GuestAssumption == Guests \cap {"none", "grants", "life", "confirm"} = {}
ASSUME LimitAssumption == {MaxLife, MaxSerial, MaxPending} \subseteq Nat /\ MaxSession \in Nat \ {0}

VARIABLES
    opGate,
    computeEpoch,
    catalog,  \* the registry's catalog generation
    slot,     \* ComputeSlot.active, or "none"
    guest,    \* each request
    life,     \* the lifecycle operation
    accountSession,
    serial,   \* WorkflowState.serial
    grant,    \* WorkflowState.grants of the plugin
    pending,  \* WorkflowState.pending
    setting,  \* the set_workflow_grants request
    confirm,  \* the confirm_workflow request
    executed, \* history: proposals handed to the exchange
    published,\* history: lifecycle operations that ended
    stale     \* history: something outdated was delivered or executed

flow == <<serial, grant, pending>>
guestsVars == <<opGate, computeEpoch, catalog, slot, guest, life, accountSession, flow, setting, confirm, executed,
          published, stale>>

Bindings == [cat : Nat, epoch : Nat, sess : Nat]
Grants == [b : Bindings, rev : Nat, intent : Nat, caps : BOOLEAN]
Proposals(ids) == [id : ids, b : Bindings, rev : Nat, intent : Nat, fresh : BOOLEAN, old : BOOLEAN]
GuestSteps == {"idle", "asked", "locked", "captured", "leased", "running", "orphan", "done", "gone"}
GuestRecs == [step : GuestSteps, kind : {"compute", "workflow"}, b : Bindings, g : Grants, cancel : BOOLEAN,
              told : BOOLEAN, old : BOOLEAN, seen : Nat]
SettingRecs == [step : {"idle", "reserved", "accepted"}, intent : Nat, rev : Nat, caps : BOOLEAN]
ConfirmRecs == [step : {"idle", "taken", "sent"}, p : Proposals(Guests \cup {"none"})]
Gates == Seq(Guests \cup {"grants", "life", "confirm"})

Binding == [cat |-> catalog, epoch |-> computeEpoch, sess |-> accountSession]
NoBinding == [cat |-> 0, epoch |-> 0, sess |-> 0]
NoGrant == [b |-> NoBinding, rev |-> 0, intent |-> 0, caps |-> FALSE]
Fresh == [step |-> "idle", kind |-> "compute", b |-> NoBinding, g |-> NoGrant, cancel |-> FALSE,
          told |-> FALSE, old |-> FALSE, seen |-> 0]
NoSetting == [step |-> "idle", intent |-> 0, rev |-> 0, caps |-> FALSE]
NoConfirm == [step |-> "idle", p |-> [id |-> "none", b |-> NoBinding, rev |-> 0, intent |-> 0,
                                      fresh |-> FALSE, old |-> FALSE]]

Holds(who) == opGate # <<>> /\ Head(opGate) = who
Admitting(g) == guest[g].step \in {"locked", "captured", "leased"}
Running(g) == guest[g].step \in {"running", "orphan"}

(* What a change does to the guests and proposals that rest on what it      *)
(* changes: history.                                                         *)
Outdated(gs) == [g \in Guests |-> IF g \in gs THEN [guest[g] EXCEPT !.old = TRUE] ELSE guest[g]]
Engaged == {g \in Guests : guest[g].step \in {"captured", "leased", "running", "done"}}
Workflows == {g \in Engaged : guest[g].kind = "workflow"}
OldConfirm == IF confirm.step = "taken" THEN [confirm EXCEPT !.p.old = TRUE] ELSE confirm
OldPending(ps) == {[p EXCEPT !.old = TRUE] : p \in ps}
-----------------------------------------------------------------------------
(* ComputeSlot::acquire, cancel and invalidate, and the drop of the lease.  *)
Acquire(g) == slot = "none" /\ slot' = g
Released(g) == IF slot = g THEN "none" ELSE slot
Cancelled(g) == [guest EXCEPT ![g].cancel = TRUE]

(* WorkflowState::grant: the grant of a binding, made anew when it changed. *)
GrantOf(b) ==
    LET kept == {p \in pending : p.fresh /\ p.b.epoch = b.epoch}
    IN IF grant # NoGrant /\ grant.b = b
       THEN [serial |-> serial, grant |-> grant, pending |-> kept]
       ELSE [serial |-> serial + 1, pending |-> {},
             grant |-> [b |-> b, rev |-> serial + 1, intent |-> serial + 1, caps |-> FALSE]]

SetFlow(f) == serial' = f.serial /\ grant' = f.grant /\ pending' = f.pending

guestRest == <<computeEpoch, catalog, life, accountSession, setting, confirm, executed, published>>

(* execute_compute reads the epoch, then tries the gate.                    *)
ReadEpoch(g) ==
    /\ guest[g].step = "idle"
    /\ guest' = [guest EXCEPT ![g].step = "asked", ![g].kind = "compute", ![g].b.epoch = computeEpoch]
    /\ UNCHANGED <<opGate, slot, flow, stale, guestRest>>

(* run_workflow tries it at once.                                           *)
TryGate(g) ==
    /\ guest[g].step \in {"idle", "asked"}
    /\ \/ /\ opGate = <<>>
          /\ opGate' = <<g>>
          /\ guest' = [guest EXCEPT ![g].step = "locked",
                                    ![g].kind = IF guest[g].step = "idle" THEN "workflow" ELSE @]
       \/ /\ opGate # <<>>
          /\ guest' = [guest EXCEPT ![g].step = "gone"]
          /\ UNCHANGED opGate
    /\ UNCHANGED <<slot, flow, stale, guestRest>>

(* capture_compute: the contribution as the catalog has it.                 *)
CaptureCompute(g) ==
    /\ guest[g].step = "locked" /\ guest[g].kind = "compute"
    /\ guest' = [guest EXCEPT ![g].step = "captured", ![g].b.cat = catalog, ![g].seen = published]
    /\ UNCHANGED <<opGate, slot, flow, stale, guestRest>>

(* binding_locked, the grant, and what the caller expects of it.            *)
CaptureWorkflow(g) ==
    /\ guest[g].step = "locked" /\ guest[g].kind = "workflow" /\ serial < MaxSerial
    /\ \E f \in {GrantOf(Binding)} :
         /\ SetFlow(f)
         /\ \/ /\ f.grant.caps
               /\ guest' = [guest EXCEPT ![g].step = "captured", ![g].b = Binding,
                                         ![g].g = f.grant, ![g].seen = published]
               /\ UNCHANGED opGate
            \/ /\ guest' = [guest EXCEPT ![g].step = "gone"]
               /\ opGate' = Tail(opGate)
    /\ UNCHANGED <<slot, stale, guestRest>>

Lease(g) ==
    /\ guest[g].step = "captured"
    /\ \/ /\ Acquire(g)
          /\ guest' = [guest EXCEPT ![g].step = "leased"]
          /\ UNCHANGED opGate
       \/ /\ slot # "none"
          /\ guest' = [guest EXCEPT ![g].step = "gone"]
          /\ opGate' = Tail(opGate)
          /\ UNCHANGED slot
    /\ UNCHANGED <<flow, stale, guestRest>>

Launched(g) == guest' = [guest EXCEPT ![g].step = "running"] /\ UNCHANGED slot
Refused(g) == guest' = [guest EXCEPT ![g].step = "gone"] /\ slot' = Released(g)

(* Compute looks at the epoch again; the gate is given up and it runs.      *)
Launch(g) ==
    /\ guest[g].step = "leased" /\ guest[g].kind = "compute"
    /\ opGate' = Tail(opGate)
    /\ IF guest[g].b.epoch = computeEpoch THEN Launched(g) ELSE Refused(g)
    /\ UNCHANGED <<flow, stale, guestRest>>

(* snapshot_locked: a workflow reads the account and the market under the   *)
(* gate and the account guard.  Every list must parse, or there is none.     *)
SnapshotOutcomes == BOOLEAN

Snapshot(g, whole) ==
    /\ guest[g].step = "leased" /\ guest[g].kind = "workflow"
    /\ opGate' = Tail(opGate)
    /\ IF whole THEN Launched(g) ELSE Refused(g)
    /\ UNCHANGED <<flow, stale, guestRest>>

(* The lease is inside the blocking task when there is one.                 *)
AbandonedSlot(g) == IF guest[g].step = "running" THEN slot ELSE Released(g)

(* The caller of the request goes away.                                     *)
Abandon(g) ==
    /\ guest[g].step \notin {"idle", "orphan", "gone"}
    /\ opGate' = IF Admitting(g) THEN Tail(opGate) ELSE opGate
    /\ slot' = AbandonedSlot(g)
    /\ guest' = [guest EXCEPT ![g].step = IF @ = "running" THEN "orphan" ELSE "gone",
                              ![g].cancel = TRUE, ![g].told = TRUE]
    /\ UNCHANGED <<flow, stale, guestRest>>

(* The guest ends, with a result or without: cancelled, out of fuel or time, *)
(* trapped, or a result that is not valid.                                   *)
WorkerEnds(g, ok) ==
    /\ Running(g)
    /\ slot' = Released(g)
    /\ guest' = [guest EXCEPT ![g].step = IF ok /\ @ = "running" THEN "done" ELSE "gone"]
    /\ UNCHANGED <<opGate, flow, stale, guestRest>>

(* cancel_compute.                                                          *)
CancelCompute(g) ==
    /\ slot = g
    /\ guest' = [Cancelled(g) EXCEPT ![g].told = TRUE]
    /\ UNCHANGED <<opGate, slot, flow, stale, guestRest>>

\* Mutant: only the number of the grant is compared.
SameGrant_Revision(was, now) == was.rev = now.rev

(* The grant a guest or a proposal was made under is the one in force, and  *)
(* nobody has asked to change it.                                            *)
SameGrant(was, now) == was.rev = now.rev /\ was.intent = now.intent

EndsGuest(g) == guest' = [guest EXCEPT ![g].step = "gone"]

(* The result of a compute guest, if it may still be used.                  *)
Usable(g) == ~guest[g].cancel /\ guest[g].b.epoch = computeEpoch /\ guest[g].b.cat = catalog

DeliverCompute(g) ==
    /\ guest[g].step = "done" /\ guest[g].kind = "compute"
    /\ stale' = (stale \/ (opGate = <<>> /\ Usable(g) /\ guest[g].old))
    /\ EndsGuest(g)
    /\ UNCHANGED <<opGate, slot, flow, guestRest>>

(* capture_workflow still finds the contribution as it was.                 *)
StillOffered(g) == catalog = guest[g].b.cat

(* What a workflow proposes to trade.                                       *)
Proposal(g) ==
    [id |-> g, b |-> guest[g].b, rev |-> guest[g].g.rev, intent |-> guest[g].g.intent,
     fresh |-> TRUE, old |-> guest[g].old]

(* The result of a workflow; one that trades becomes a proposal.            *)
DeliverWorkflow(g, trades) ==
    /\ guest[g].step = "done" /\ guest[g].kind = "workflow" /\ opGate = <<>>
    /\ StillOffered(g) /\ serial < MaxSerial
    /\ \E f \in {GrantOf(Binding)} :
         \/ /\ ~guest[g].cancel /\ guest[g].b = Binding /\ SameGrant(guest[g].g, f.grant)
            /\ stale' = (stale \/ guest[g].old)
            /\ trades => Cardinality(f.pending) < MaxPending
            /\ SetFlow([f EXCEPT !.pending = IF ~trades THEN @ ELSE @ \cup {Proposal(g)}])
         \/ SetFlow(f) /\ UNCHANGED stale
    /\ EndsGuest(g)
    /\ UNCHANGED <<opGate, slot, guestRest>>

(* It is not delivered: the gate is taken, or the contribution has changed. *)
NotDelivered(g) ==
    /\ guest[g].step = "done" /\ guest[g].kind = "workflow"
    /\ opGate # <<>> \/ ~StillOffered(g)
    /\ EndsGuest(g)
    /\ UNCHANGED <<opGate, slot, flow, stale, guestRest>>
-----------------------------------------------------------------------------
(* get_workflow_access.                                                     *)
GetAccess ==
    /\ opGate = <<>> /\ serial < MaxSerial
    /\ SetFlow(GrantOf(Binding))
    /\ UNCHANGED <<opGate, slot, guest, stale, guestRest>>

settingRest == <<computeEpoch, catalog, slot, life, accountSession, executed, published, stale>>

(* set_workflow_grants: the gate is reserved, then the intent is accepted:  *)
(* what was computed or proposed under the old grant is void from now on.   *)
ReserveGrants(rev, caps) ==
    /\ setting.step = "idle"
    /\ opGate' = Append(opGate, "grants")
    /\ setting' = [step |-> "reserved", intent |-> 0, rev |-> rev, caps |-> caps]
    /\ UNCHANGED <<guest, flow, confirm, settingRest>>

AcceptIntent ==
    /\ setting.step = "reserved" /\ serial < MaxSerial
    /\ serial' = serial + 1
    /\ grant' = IF grant = NoGrant THEN grant ELSE [grant EXCEPT !.intent = serial + 1]
    /\ pending' = {}
    /\ setting' = [setting EXCEPT !.step = "accepted", !.intent = serial + 1]
    /\ guest' = Outdated(Workflows)
    /\ confirm' = OldConfirm
    /\ UNCHANGED <<opGate, settingRest>>

(* set_workflow_grants_locked.                                              *)
EnterGrants ==
    /\ setting.step = "accepted" /\ Holds("grants") /\ serial + 1 < MaxSerial
    /\ \E f \in {GrantOf(Binding)} :
         SetFlow(IF f.grant.rev = setting.rev /\ f.grant.intent = setting.intent
                 THEN [serial |-> f.serial + 1, pending |-> f.pending,
                       grant |-> [f.grant EXCEPT !.rev = f.serial + 1, !.caps = setting.caps]]
                 ELSE f)
    /\ opGate' = Tail(opGate)
    /\ setting' = NoSetting
    /\ UNCHANGED <<guest, confirm, settingRest>>
-----------------------------------------------------------------------------
confirmRest == <<computeEpoch, catalog, slot, guest, life, accountSession, setting, published>>

(* confirm_owned: the token is used up,                                     *)
TakeProposal(p) ==
    /\ confirm.step = "idle" /\ opGate = <<>> /\ p \in pending
    /\ opGate' = <<"confirm">>
    /\ confirm' = [step |-> "taken", p |-> p]
    /\ pending' = pending \ {p}
    /\ UNCHANGED <<serial, grant, executed, stale, confirmRest>>

(* it is compared with what is in force, and executed.                      *)
Execute ==
    /\ confirm.step = "taken" /\ serial < MaxSerial
    /\ \E p \in {confirm.p}, f \in {GrantOf(Binding)} :
         /\ SetFlow(f)
         /\ IF p.fresh /\ p.b = Binding /\ SameGrant(p, f.grant)
            THEN /\ executed' = Append(executed, p.id)
                 /\ stale' = (stale \/ p.old)
                 /\ confirm' = [confirm EXCEPT !.step = "sent"]
                 /\ UNCHANGED opGate
            ELSE /\ opGate' = Tail(opGate)
                 /\ confirm' = NoConfirm
                 /\ UNCHANGED <<executed, stale>>
    /\ UNCHANGED confirmRest

(* The receipt: accepted, rejected or unknown; the token is gone either way. *)
Receipt ==
    /\ confirm.step = "sent"
    /\ opGate' = Tail(opGate)
    /\ confirm' = NoConfirm
    /\ UNCHANGED <<flow, executed, stale, confirmRest>>

(* Sixty seconds pass.                                                      *)
Expire(p) ==
    /\ p \in pending /\ p.fresh
    /\ pending' = (pending \ {p}) \cup {[p EXCEPT !.fresh = FALSE]}
    /\ UNCHANGED <<opGate, serial, grant, executed, stale, confirm, confirmRest>>
-----------------------------------------------------------------------------
lifeRest == <<accountSession, serial, grant, setting, executed, stale>>

(* reserve_operation: the gate, the epoch, the slot, in this order; then    *)
(* the operation waits for its turn.                                         *)
NextLife(step) ==
    CASE step = "idle" -> "reserve" [] step = "reserve" -> "bump" [] step = "bump" -> "invalidate"
      [] step = "invalidate" -> "wait" [] OTHER -> "idle"

BeginLife ==
    /\ life = "idle" /\ computeEpoch < MaxLife
    /\ life' = NextLife(life)
    /\ UNCHANGED <<opGate, computeEpoch, catalog, slot, guest, pending, confirm, published, lifeRest>>

ReserveGate ==
    /\ life = "reserve"
    /\ opGate' = Append(opGate, "life")
    /\ life' = NextLife(life)
    /\ UNCHANGED <<computeEpoch, catalog, slot, guest, pending, confirm, published, lifeRest>>

Bump ==
    /\ life = "bump"
    /\ computeEpoch' = computeEpoch + 1
    /\ life' = NextLife(life)
    /\ guest' = Outdated(Engaged)
    /\ pending' = OldPending(pending)
    /\ confirm' = OldConfirm
    /\ UNCHANGED <<opGate, catalog, slot, published, lifeRest>>

Invalidate ==
    /\ life = "invalidate"
    /\ guest' = IF slot = "none" THEN guest ELSE Cancelled(slot)
    /\ life' = NextLife(life)
    /\ UNCHANGED <<opGate, computeEpoch, catalog, slot, pending, confirm, published, lifeRest>>

(* The operation itself: the catalog changes, or does not.                  *)
PublishCatalog(changes) ==
    /\ life = "wait" /\ Holds("life")
    /\ catalog' = IF changes THEN catalog + 1 ELSE catalog
    /\ published' = published + 1
    /\ opGate' = Tail(opGate)
    /\ life' = "idle"
    /\ UNCHANGED <<computeEpoch, slot, guest, pending, confirm, lifeRest>>

(* Another session of the account: not while the account guard is held.     *)
SessionChanges ==
    /\ accountSession < MaxSession
    /\ opGate = <<>> \/ Holds("life") \/ Holds("grants")
    /\ accountSession' = accountSession + 1
    /\ guest' = Outdated(Workflows)
    /\ pending' = OldPending(pending)
    /\ UNCHANGED <<opGate, computeEpoch, catalog, slot, life, serial, grant, setting, confirm, executed, published, stale>>
-----------------------------------------------------------------------------
GuestsInit ==
    /\ opGate = <<>> /\ computeEpoch = 0 /\ catalog = 1 /\ slot = "none" /\ guest = [g \in Guests |-> Fresh]
    /\ life = "idle" /\ accountSession = 1 /\ serial = 0 /\ grant = NoGrant /\ pending = {}
    /\ setting = NoSetting /\ confirm = NoConfirm /\ executed = <<>> /\ published = 0 /\ stale = FALSE

GuestsNext ==
    \/ \E g \in Guests :
         \/ ReadEpoch(g) \/ TryGate(g) \/ CaptureCompute(g) \/ CaptureWorkflow(g) \/ Lease(g) \/ Launch(g) \/ Abandon(g)
         \/ CancelCompute(g) \/ DeliverCompute(g) \/ NotDelivered(g)
         \/ \E ok \in BOOLEAN : WorkerEnds(g, ok)
         \/ \E whole \in SnapshotOutcomes : Snapshot(g, whole)
         \/ \E trades \in BOOLEAN : DeliverWorkflow(g, trades)
    \/ GetAccess \/ AcceptIntent \/ EnterGrants \/ Execute \/ Receipt
    \/ \E rev \in {0, grant.rev}, caps \in BOOLEAN : ReserveGrants(rev, caps)
    \/ \E p \in pending : TakeProposal(p) \/ Expire(p)
    \/ BeginLife \/ ReserveGate \/ Bump \/ Invalidate \/ \E changes \in BOOLEAN : PublishCatalog(changes)
    \/ SessionChanges

GuestsSpec == GuestsInit /\ [][GuestsNext]_guestsVars
-----------------------------------------------------------------------------
PendingOK == pending \subseteq Proposals(Guests) /\ IsFiniteSet(pending) /\ Cardinality(pending) <= MaxPending

GuestsTypeOK ==
    /\ opGate \in Gates /\ executed \in Seq(Guests) /\ guest \in [Guests -> GuestRecs]
    /\ slot \in Guests \cup {"none"} /\ life \in {"idle", "reserve", "bump", "invalidate", "wait"}
    /\ computeEpoch \in 0..MaxLife /\ accountSession \in 1..MaxSession /\ serial \in 0..MaxSerial
    /\ catalog \in Nat /\ published \in Nat /\ stale \in BOOLEAN
    /\ grant \in Grants /\ PendingOK /\ setting \in SettingRecs /\ confirm \in ConfirmRecs

(* One guest runs at a time, and it is the one the slot names, also after   *)
(* its caller went away.                                                     *)
OneGuest == \A g \in Guests : Running(g) => slot = g

(* No result, and no proposal, is used after a lifecycle operation was      *)
(* accepted, the session changed, or a change of its grant was asked for.   *)
NothingStale == ~stale

(* A guest is cancelled by its id, by its caller, or by a lifecycle         *)
(* operation that is under way or came after it was admitted.                *)
NoStrayCancel ==
    \A g \in Guests : Running(g) /\ guest[g].cancel /\ ~guest[g].told
                      => life # "idle" \/ published > guest[g].seen

(* A compute guest that outlives a lifecycle operation has been told to end *)
(* or cannot deliver.                                                        *)
NoneCrosses ==
    \A g \in Guests : Running(g) /\ guest[g].kind = "compute" /\ published > guest[g].seen
                      => guest[g].cancel /\ guest[g].b.epoch < computeEpoch

(* A proposal is executed at most once.                                     *)
ExecutedOnce == \A i, j \in 1..Len(executed) : executed[i] = executed[j] => i = j

GuestsSafe == GuestsTypeOK /\ OneGuest /\ NothingStale /\ NoStrayCancel /\ NoneCrosses /\ ExecutedOnce
=============================================================================
