------------------------------ MODULE StrategyRuns ------------------------------
(***************************************************************************)
(* Automatic trading: plugin/strategy/{supervisor,execution,recovery,store} *)
(* and the order paths it uses.  A run is a record of the strategy document *)
(* and, while it is live, a worker.  Every mutation of the exchange is      *)
(* written to the document before it is handed over and closed by a receipt *)
(* after; what is unknown blocks the account until it is reconciled.         *)
(*                                                                         *)
(* `gate' is the operation gate together with the account guard.  The       *)
(* document's mutex is held within a step, and over the two halves of a     *)
(* start.  Controls take neither the gate nor, to revoke, the mutex.         *)
(***************************************************************************)
EXTENDS Integers, FiniteSets, Sequences

CONSTANTS
    Runs,
    Kinds,      \* the actions a guest may ask for: place, protect, cancel, amend
    AccountOf,  \* the account of each session
    MaxSeq,     \* bound: callbacks of a run
    MaxActions, \* StrategyPolicy.max_actions
    MaxTotal,   \* StrategyPolicy.max_total_qty; every order is of quantity 1
    MaxEpoch,   \* bound: changes of the plugin catalog
    MaxAdmission, \* bound: controls
    MaxFaults   \* bound: failed saves and stops of the process

ASSUME KindAssumption == Kinds \subseteq {"place", "protect", "cancel", "amend"}
ASSUME AccountAssumption == AccountOf \in Seq(Nat) /\ AccountOf # <<>>
ASSUME BoundAssumption ==
    /\ MaxSeq \in Nat /\ MaxActions \in Nat /\ MaxTotal \in Nat
    /\ MaxEpoch \in Nat /\ MaxAdmission \in Nat /\ MaxFaults \in Nat

VARIABLES
    doc,      \* Inner.document
    file,     \* what the strategy file holds; bad: a candidate that does not parse
    down,     \* Inner.unavailable
    ticket,   \* Inner.tickets
    start,    \* the start request
    live,     \* Inner.live and its worker
    admission,\* StrategySupervisor.admission
    closed,
    epoch,    \* PluginRuntime.compute_epoch
    session,  \* the account session
    gate,     \* who holds the operation gate and the account guard
    control,  \* the control request
    recovery, \* the reconcile request
    journal,  \* order submission records
    exchange, \* the orders at the exchange
    held,     \* risk reservations of the orders and amendments, by sequence
    sent,     \* history: actions and quantity handed over
    revoked,  \* history: the control that last revoked a run
    overtaken,\* history: runs started anew between the two halves of a control
    faults

durable == <<doc, file, down, ticket, live, faults>>
outside == <<journal, exchange, held, sent>>
request == <<start, control, recovery>>
vars == <<durable, request, admission, closed, epoch, session, gate, outside, revoked, overtaken>>

Seqs == 1..MaxSeq
NoAction == [kind |-> "none", seq |-> 0, target |-> 0]
NewRun == [st |-> "absent", pend |-> NoAction, seq |-> 0, acts |-> 0, total |-> 0,
           owned |-> {}, asked |-> {}, acct |-> 0, unknown |-> FALSE]
NoTicket == [sess |-> 0, epoch |-> 0, adm |-> 0]
NoStart == [step |-> "idle", run |-> 0, t |-> NoTicket]
Off == [step |-> "off", intent |-> 0, adm |-> 0, epoch |-> 0, sess |-> 0, act |-> NoAction]
NoControl == [step |-> "idle", runs |-> {}, intent |-> 0]
NoRecovery == [step |-> "idle", run |-> 0]

Account == AccountOf[session]
IsPlace(a) == a.kind \in {"place", "protect"}
IsLive(r) == live[r].step # "off"
Settled(d, r) == d[r].pend = NoAction

(* Live::revoke.                                                            *)
Revoke(l, intent) == IF l.step = "off" \/ l.intent >= intent THEN l ELSE [l EXCEPT !.intent = intent]

(* save, when the store fails: nothing more is admitted in this process.    *)
Degraded(d) ==
    [r \in Runs |-> IF d[r].st = "absent" THEN d[r]
                    ELSE [d[r] EXCEPT !.st = IF Settled(d, r) THEN "faulted" ELSE "recovery"]]

(* StrategyRunView::validate: the caps hold.                                *)
ValidView(d) == d.acts <= MaxActions /\ d.acts <= d.seq /\ d.total <= MaxTotal

(* StrategyDocument::validate: an open action is the last one, and of an    *)
(* order that is owned; an unknown outcome has its open action.              *)
ValidRun(d) ==
    /\ ValidView(d)
    /\ Cardinality(d.owned) <= d.acts
    /\ d.unknown => d.pend # NoAction
    /\ d.pend # NoAction =>
         /\ d.pend.seq = d.seq /\ d.acts > 0
         /\ d.pend.kind # "cancel" => d.total > 0
         /\ d.pend.kind = "cancel" => d.pend.target \in d.owned
         /\ d.pend.kind = "amend" => d.pend.target \in d.owned \ d.asked

ValidDocument(d) == \A r \in Runs : d[r].st # "absent" => ValidRun(d[r])

(* The document is saved; lv are the live runs after the step and tk the    *)
(* tickets.  A failing save leaves the old document, the new one, or a       *)
(* partial candidate; one that is not valid is not written at all.           *)
SaveWith(next, lv, tk) ==
    \/ /\ ~down /\ ValidDocument(next)
       /\ down' = FALSE
       /\ doc' = next /\ file' = [doc |-> next, bad |-> FALSE] /\ live' = lv /\ ticket' = tk
       /\ UNCHANGED faults
    \/ \E unwritten \in {down \/ ~ValidDocument(next)} :
       /\ unwritten \/ faults < MaxFaults
       /\ down' = TRUE /\ ticket' = NoTicket
       /\ doc' = Degraded(next)
       /\ live' = [r \in Runs |-> Revoke(lv[r], 1)]
       /\ faults' = IF unwritten THEN faults ELSE faults + 1
       /\ file' \in IF unwritten THEN {file}
                    ELSE {file, [doc |-> next, bad |-> FALSE], [file EXCEPT !.bad = TRUE]}

Save(next, lv) == SaveWith(next, lv, ticket)

Unlocked == start.step # "saved"
-----------------------------------------------------------------------------
(* access.                                                                  *)
Access ==
    /\ gate = "free" /\ ~down /\ ~closed /\ ticket = NoTicket
    /\ ticket' = [sess |-> session, epoch |-> epoch, adm |-> admission]
    /\ UNCHANGED <<doc, file, down, live, faults, request, admission, closed, epoch, session, gate,
                   outside, revoked, overtaken>>

(* start takes the ticket; start_owned then waits for the gate.             *)
TakeTicket(r) ==
    /\ start.step = "idle" /\ ticket # NoTicket /\ ~down
    /\ start' = [step |-> "taken", run |-> r, t |-> ticket]
    /\ ticket' = NoTicket
    /\ UNCHANGED <<doc, file, down, live, faults, control, recovery, admission, closed, epoch,
                   session, gate, outside, revoked, overtaken>>

Resumable(d) ==
    /\ d.st \in {"paused", "stopped", "faulted"}
    /\ d.pend = NoAction /\ d.acct = Account /\ d.acts < MaxActions

(* Nothing of the account runs or is unresolved.                            *)
AccountFree ==
    \A r \in Runs : doc[r].acct = Account => ~IsLive(r) /\ Settled(doc, r)

StartAllowed(t, r) ==
    /\ t.epoch = epoch /\ t.sess = session /\ t.adm = admission /\ ~closed /\ ~down
    /\ AccountFree
    /\ doc[r].st = "absent" \/ Resumable(doc[r])

\* Mutant: a run that is started again begins anew.
Started_Anew(d) == [NewRun EXCEPT !.st = "running", !.acct = Account]

(* A new run, or one that goes on from where it stood.                      *)
Started(d) == [d EXCEPT !.st = "running", !.acct = Account]

StartSave ==
    /\ start.step = "taken" /\ gate = "free"
    /\ StartAllowed(start.t, start.run)
    /\ Save([doc EXCEPT ![start.run] = Started(@)], live)
    /\ start' = IF down' THEN NoStart ELSE [start EXCEPT !.step = "saved"]
    /\ gate' = IF down' THEN "free" ELSE "start"
    /\ UNCHANGED <<control, recovery, admission, closed, epoch, session, outside, revoked, overtaken>>

StartRefused ==
    /\ start.step = "taken" /\ gate = "free"
    /\ start' = NoStart
    /\ UNCHANGED <<durable, control, recovery, admission, closed, epoch, session, gate, outside,
                   revoked, overtaken>>

\* Mutant: a start is not looked at again after its save.
Admitted_Once(t) == TRUE

(* admission_epoch under the lock of the controls.                          *)
Admitted(t) == t.adm = admission /\ ~closed

(* The second half, under the lock of the controls: a control meanwhile     *)
(* undoes the start.                                                         *)
StartAdmit ==
    /\ start.step = "saved"
    /\ IF Admitted(start.t)
       THEN /\ live' = [live EXCEPT ![start.run] =
                          [Off EXCEPT !.step = "loop", !.adm = start.t.adm, !.epoch = start.t.epoch,
                                      !.sess = start.t.sess]]
            /\ overtaken' = IF start.run \in control.runs THEN overtaken \cup {start.run} ELSE overtaken
            /\ UNCHANGED <<doc, file, down, ticket, faults>>
       ELSE /\ Save([doc EXCEPT ![start.run].st = "stopped"], live)
            /\ UNCHANGED overtaken
    /\ start' = NoStart
    /\ gate' = "free"
    /\ UNCHANGED <<control, recovery, admission, closed, epoch, session, outside, revoked>>
-----------------------------------------------------------------------------
(* The worker.  `Step' sets where it stands.                                *)
Step(r, s) == [live EXCEPT ![r].step = s]
Idle(r, s) == [live EXCEPT ![r].step = s, ![r].act = NoAction]

Bound(r) == live[r].epoch = epoch /\ live[r].sess = session
Clear(r) == live[r].intent = 0

workerRest == <<request, admission, closed, epoch, session, revoked, overtaken>>

(* worker_loop and the first half of pass: binding, snapshot, guest.        *)
Call(r) ==
    /\ live[r].step = "loop" /\ Clear(r) /\ gate = "free" /\ Bound(r)
    /\ live' = Step(r, "computing")
    /\ UNCHANGED <<doc, file, down, ticket, faults, workerRest, gate, outside>>

(* Something ends the run: mark, with the status of the reason.  A control  *)
(* may fall between the look at the intent and the mark.                     *)
Fails(r, st) ==
    /\ live[r].step \in {"loop", "computing"} /\ Unlocked
    /\ Save([doc EXCEPT ![r].st = st], Step(r, "ending"))
    /\ UNCHANGED <<workerRest, gate, outside>>

(* A revoked worker returns.                                                *)
Returns(r) ==
    /\ live[r].step \in {"loop", "computing"} /\ ~Clear(r)
    /\ live' = Step(r, "ending")
    /\ UNCHANGED <<doc, file, down, ticket, faults, workerRest, gate, outside>>

(* validate_action: the caps of the policy, and what each action needs.     *)
WithinTotal(d) == d.total < MaxTotal
OwnedAndUncancelled(d, a) == a.target \in d.owned \ d.asked

Valid(d, a) ==
    /\ d.acts < MaxActions
    /\ a.kind # "cancel" => WithinTotal(d)
    /\ ~IsPlace(a) => OwnedAndUncancelled(d, a)

Decides(r) ==
    /\ live[r].step = "computing" /\ gate = "free" /\ Clear(r) /\ Bound(r) /\ Unlocked /\ ~down
    /\ doc[r].seq < MaxSeq

(* The guest asks for nothing, or to stop.                                  *)
Rest(r, stop) ==
    /\ Decides(r)
    /\ Save([doc EXCEPT ![r].seq = @ + 1, ![r].st = IF stop THEN "completed" ELSE @],
            Step(r, IF stop THEN "ending" ELSE "loop"))
    /\ UNCHANGED <<workerRest, gate, outside>>

(* pass: the action is written down before it is sent; its caps are spent.  *)
Prepared(d, a) ==
    [d EXCEPT !.seq = a.seq, !.acts = @ + 1, !.pend = a,
              !.total = IF a.kind = "cancel" THEN @ ELSE @ + 1,
              !.asked = IF a.kind = "cancel" THEN @ \cup {a.target} ELSE @]

Prepare(r, a) ==
    /\ Decides(r)
    /\ a.seq = doc[r].seq + 1
    /\ Valid(doc[r], a)
    /\ Save([doc EXCEPT ![r] = Prepared(doc[r], a)],
            [live EXCEPT ![r].step = IF down' THEN "ending" ELSE "prepared", ![r].act = a])
    /\ gate' = IF down' THEN "free" ELSE "worker"
    /\ UNCHANGED <<workerRest, outside>>

(* submit_once: an order of the account whose outcome is open blocks others. *)
Unblocked(r) ==
    \A q \in Runs : doc[q].acct = doc[r].acct => \A s \in Seqs : journal[q][s] # "pending"

(* submit_once begins its record and the risk reservation is made; a        *)
(* cancellation has neither, an amendment only the reservation.              *)
Queue(r) ==
    /\ live[r].step = "prepared"
    /\ IsPlace(live[r].act) => Unblocked(r)
    /\ journal' = IF IsPlace(live[r].act) THEN [journal EXCEPT ![r][live[r].act.seq] = "pending"] ELSE journal
    /\ held' = IF live[r].act.kind = "cancel" THEN held ELSE [held EXCEPT ![r] = @ \cup {live[r].act.seq}]
    /\ live' = Step(r, "queued")
    /\ UNCHANGED <<doc, file, down, ticket, faults, workerRest, gate, exchange, sent>>

(* handle_failed_submission: only a certain failure gives it back.          *)
Release(r, a, status) == IF status = "rejected" THEN [held EXCEPT ![r] = @ \ {a.seq}] ELSE held

(* finish: the record of the outcome, unless the journal cannot be written. *)
Noted(r, a, status) ==
    IF IsPlace(a) /\ status # "unknown" THEN [journal EXCEPT ![r][a.seq] = status] ELSE journal

(* account_response: the receipt, and what it settles.                      *)
Accounted(d, a, status) ==
    [d EXCEPT !.unknown = status = "unknown",
              !.owned = IF status = "accepted" /\ IsPlace(a) THEN @ \cup {a.seq} ELSE @,
              !.pend = IF status = "rejected" \/ (status = "accepted" /\ ~IsPlace(a)) THEN NoAction ELSE @,
              !.st = IF status = "unknown" THEN "recovery" ELSE @]

(* Not sent after all: the check after the save, the risk rules, a quote,   *)
(* or the admission at the hand-over refuse it.                              *)
Deny(r) ==
    /\ live[r].step \in {"prepared", "queued"} /\ Unlocked
    /\ \E a \in {live[r].act} :
         /\ journal' = IF live[r].step = "queued" THEN Noted(r, a, "rejected") ELSE journal
         /\ held' = Release(r, a, "rejected")
         /\ Save([doc EXCEPT ![r] = Accounted(@, a, "rejected")], Idle(r, "loop"))
    /\ gate' = "free"
    /\ UNCHANGED <<workerRest, exchange, sent>>

(* check_dispatch, directly before the call that sends.                     *)
MayDispatch(r) == live[r].epoch = epoch /\ Clear(r)

HandOver(r) ==
    /\ live[r].step = "queued"
    /\ MayDispatch(r)
    /\ live' = Step(r, "sent")
    /\ sent' = [sent EXCEPT ![r].acts = @ + 1,
                            ![r].qty = IF live[r].act.kind = "cancel" THEN @ ELSE @ + 1,
                            ![r].late = @ \/ live[r].intent > 0]
    /\ UNCHANGED <<doc, file, down, ticket, faults, workerRest, gate, journal, exchange, held>>

(* What the request does to the orders when the exchange takes it.          *)
Taken(x, a) ==
    IF IsPlace(a) THEN [x EXCEPT ![a.seq] = [st |-> "open", by |-> a.seq]]
    ELSE IF a.kind = "cancel" THEN [x EXCEPT ![a.target].st = "done"]
    ELSE [x EXCEPT ![a.target].by = a.seq]

(* The answer of the exchange, and its receipt.  An unknown answer may hide *)
(* either; a cancellation may be acknowledged and come too late.  A rejection *)
(* the journal could not note counts as unknown, an acceptance stays one.    *)
Answer(r, taken, status, noted) ==
    /\ live[r].step = "sent" /\ Unlocked
    /\ status = "rejected" => ~taken
    /\ status = "accepted" /\ live[r].act.kind # "cancel" => taken
    /\ ~noted => IsPlace(live[r].act) /\ status # "unknown"
    /\ \E a \in {live[r].act},
         known \in {IF status = "rejected" /\ ~noted THEN "unknown" ELSE status} :
         /\ exchange' = IF taken THEN [exchange EXCEPT ![r] = Taken(@, a)] ELSE exchange
         /\ journal' = IF noted THEN Noted(r, a, status) ELSE journal
         /\ held' = Release(r, a, status)
         /\ Save([doc EXCEPT ![r] = Accounted(@, a, known)],
                 IF known = "unknown" \/ down' THEN Step(r, "ending")
                 ELSE IF known = "accepted" /\ IsPlace(a) THEN Step(r, "ack") ELSE Idle(r, "loop"))
    /\ gate' = IF live'[r].step = "ack" THEN gate ELSE "free"
    /\ UNCHANGED <<workerRest, sent>>

(* query_exact: the exchange knows the order.                               *)
Found(r, s) == exchange[r][s].st \notin {"none", "rejected"}

(* acknowledge and acknowledge_protected: the record says accepted, or it   *)
(* is pending and the order is found; then the record is closed as accepted. *)
Acknowledgeable(r, s) == journal[r][s] = "accepted" \/ (journal[r][s] = "pending" /\ Found(r, s))

(* The action is closed.                                                    *)
Acknowledge(r) ==
    /\ live[r].step = "ack" /\ Unlocked
    /\ Acknowledgeable(r, live[r].act.seq)
    /\ journal' = Noted(r, live[r].act, "accepted")
    /\ Save([doc EXCEPT ![r].pend = NoAction], Idle(r, IF down' THEN "ending" ELSE "loop"))
    /\ gate' = "free"
    /\ UNCHANGED <<workerRest, exchange, held, sent>>

AcknowledgeFails(r) ==
    /\ live[r].step = "ack" /\ Unlocked
    /\ Save([doc EXCEPT ![r].st = "recovery"], Step(r, "ending"))
    /\ gate' = "free"
    /\ UNCHANGED <<workerRest, outside>>

(* finish.                                                                  *)
Finished(d, intent) ==
    IF d.pend # NoAction THEN [d EXCEPT !.st = "recovery"]
    ELSE IF intent > 0 /\ d.st \notin {"faulted", "completed"}
    THEN [d EXCEPT !.st = IF intent = 2 THEN "stopped" ELSE "paused"]
    ELSE d

Finish(r) ==
    /\ live[r].step = "ending" /\ Unlocked
    /\ IF down
       THEN live' = [live EXCEPT ![r] = Off] /\ UNCHANGED <<doc, file, down, ticket, faults>>
       ELSE Save([doc EXCEPT ![r] = Finished(@, live[r].intent)], [live EXCEPT ![r] = Off])
    /\ UNCHANGED <<workerRest, gate, outside>>
-----------------------------------------------------------------------------
(* control and stop_all: first everything concerned is revoked,             *)
RevokeIntent(runs, intent) ==
    /\ control.step = "idle" /\ admission < MaxAdmission
    /\ admission' = admission + 1
    /\ live' = [r \in Runs |-> IF r \in runs THEN Revoke(live[r], intent) ELSE live[r]]
    /\ control' = [step |-> "record", runs |-> runs, intent |-> intent]
    /\ revoked' = [r \in Runs |-> IF r \in runs THEN admission + 1 ELSE revoked[r]]
    /\ UNCHANGED <<doc, file, down, ticket, faults, start, recovery, closed, epoch, session, gate, outside,
                   overtaken>>

Controlled(r, d) ==
    IF d.st = "absent" THEN d
    ELSE IF IsLive(r) THEN [d EXCEPT !.st = "stopping"]
    ELSE IF d.pend # NoAction THEN [d EXCEPT !.st = "recovery"]
    ELSE IF d.st = "completed" THEN d
    ELSE [d EXCEPT !.st = IF control.intent = 2 THEN "stopped" ELSE "paused"]

(* then the document says so.                                               *)
RecordControl ==
    /\ control.step = "record" /\ Unlocked
    /\ IF \A r \in control.runs : doc[r].st = "absent"
       THEN ticket' = NoTicket /\ UNCHANGED <<doc, file, down, live, faults>>
       ELSE SaveWith([r \in Runs |-> IF r \in control.runs THEN Controlled(r, doc[r]) ELSE doc[r]],
                     live, NoTicket)
    /\ control' = NoControl
    /\ overtaken' = {r \in overtaken : r \in control.runs => IsLive(r) /\ Clear(r)}
    /\ UNCHANGED <<start, recovery, admission, closed, epoch, session, gate, outside, revoked>>

(* revoke_for_exit.                                                         *)
Exit ==
    /\ ~closed /\ admission < MaxAdmission
    /\ closed' = TRUE
    /\ admission' = admission + 1
    /\ live' = [r \in Runs |-> Revoke(live[r], 2)]
    /\ revoked' = [r \in Runs |-> admission + 1]
    /\ UNCHANGED <<doc, file, down, ticket, faults, request, epoch, session, gate, outside, overtaken>>
-----------------------------------------------------------------------------
(* What the journal and the exchange know of an open action: reconcile,     *)
EvidencePlaced(r, s) ==
    CASE journal[r][s] = "none" -> "nothing"
      [] journal[r][s] = "rejected" -> "rejected"
      [] journal[r][s] = "accepted" -> "accepted"
      [] exchange[r][s].st = "rejected" -> "rejected"
      [] Found(r, s) -> "accepted"
      [] OTHER -> "nothing"

(* reconcile_protected,                                                     *)
EvidenceProtected(r, s) ==
    IF journal[r][s] \in {"accepted", "pending"} /\ Found(r, s) THEN "accepted" ELSE "nothing"

(* and reconcile_amend.                                                     *)
EvidenceAmended(r, a) == IF exchange[r][a.target].by = a.seq THEN "accepted" ELSE "nothing"

Evidence(r, a) ==
    CASE a.kind = "place" -> EvidencePlaced(r, a.seq)
      [] a.kind = "protect" -> EvidenceProtected(r, a.seq)
      [] a.kind = "amend" -> EvidenceAmended(r, a)
      [] OTHER -> IF exchange[r][a.target].st \in {"done", "rejected"} THEN "accepted" ELSE "nothing"

Reconcile(r) ==
    /\ gate = "free" /\ ~down /\ Unlocked /\ recovery.step = "idle"
    /\ ~IsLive(r) /\ ~Settled(doc, r) /\ doc[r].acct = Account
    /\ \E a \in {doc[r].pend}, e \in {Evidence(r, doc[r].pend)} :
         /\ e # "nothing"
         /\ journal' = Noted(r, a, e)
         /\ Save([doc EXCEPT ![r] = Accounted(@, a, e)], live)
         /\ recovery' = IF down' THEN NoRecovery
                        ELSE [step |-> IF IsPlace(a) /\ e = "accepted" THEN "ack" ELSE "mark", run |-> r]
    /\ gate' = IF down' THEN "free" ELSE "recovery"
    /\ UNCHANGED <<start, control, admission, closed, epoch, session, exchange, held, sent, revoked, overtaken>>

ReconcileAck ==
    /\ recovery.step = "ack" /\ Unlocked
    /\ \E ok \in BOOLEAN :
         /\ Save([doc EXCEPT ![recovery.run] = IF ok THEN [@ EXCEPT !.pend = NoAction]
                                               ELSE [@ EXCEPT !.st = "recovery"]], live)
         /\ recovery' = IF down' \/ ~ok THEN NoRecovery ELSE [recovery EXCEPT !.step = "mark"]
    /\ gate' = IF recovery'.step = "mark" THEN gate ELSE "free"
    /\ UNCHANGED <<start, control, admission, closed, epoch, session, outside, revoked, overtaken>>

ReconcileMark ==
    /\ recovery.step = "mark" /\ Unlocked
    /\ Save([doc EXCEPT ![recovery.run].st = "paused"], live)
    /\ recovery' = NoRecovery
    /\ gate' = "free"
    /\ UNCHANGED <<start, control, admission, closed, epoch, session, outside, revoked, overtaken>>
-----------------------------------------------------------------------------
(* A change of the catalog bumps the epoch while others hold the gate; a    *)
(* change of session needs the account guard.                                *)
BumpEpoch ==
    /\ epoch < MaxEpoch
    /\ epoch' = epoch + 1
    /\ UNCHANGED <<durable, request, admission, closed, session, gate, outside, revoked, overtaken>>

SwitchSession ==
    /\ gate = "free" /\ session < Len(AccountOf)
    /\ session' = session + 1
    /\ UNCHANGED <<durable, request, admission, closed, epoch, gate, outside, revoked, overtaken>>

(* An order at the exchange is filled, or refused after all.                *)
Ends(r, s, st) ==
    /\ exchange[r][s].st = "open"
    /\ exchange' = [exchange EXCEPT ![r][s].st = st]
    /\ UNCHANGED <<durable, workerRest, gate, journal, held, sent>>

(* StrategySupervisor::new on what the store loads.                         *)
Loaded(d) ==
    [r \in Runs |-> IF d[r].pend # NoAction THEN [d[r] EXCEPT !.st = "recovery"]
                    ELSE IF d[r].st \in {"running", "stopping", "recovery"} THEN [d[r] EXCEPT !.st = "paused"]
                    ELSE d[r]]

(* The process stops; a request under way may have been taken, and its      *)
(* journal record finished.                                                  *)
Restart ==
    /\ faults < MaxFaults
    /\ faults' = faults + 1
    /\ \E taken \in [{r \in Runs : live[r].step = "sent"} -> BOOLEAN], noted \in BOOLEAN :
         /\ exchange' = [r \in Runs |-> IF r \in DOMAIN taken /\ taken[r]
                                        THEN Taken(exchange[r], live[r].act) ELSE exchange[r]]
         /\ journal' = [r \in Runs |-> IF r \in DOMAIN taken /\ taken[r] /\ noted /\ IsPlace(live[r].act)
                                       THEN [journal[r] EXCEPT ![live[r].act.seq] = "accepted"]
                                       ELSE journal[r]]
    /\ doc' = IF file.bad THEN [r \in Runs |-> NewRun] ELSE Loaded(file.doc)
    /\ down' = file.bad
    /\ ticket' = NoTicket /\ live' = [r \in Runs |-> Off]
    /\ start' = NoStart /\ control' = NoControl /\ recovery' = NoRecovery
    /\ admission' = 0 /\ closed' = FALSE /\ gate' = "free"
    /\ revoked' = [r \in Runs |-> 0] /\ overtaken' = {}
    /\ UNCHANGED <<file, epoch, session, held, sent>>
-----------------------------------------------------------------------------
Init ==
    /\ doc = [r \in Runs |-> NewRun] /\ file = [doc |-> doc, bad |-> FALSE]
    /\ down = FALSE /\ ticket = NoTicket /\ live = [r \in Runs |-> Off] /\ faults = 0
    /\ start = NoStart /\ control = NoControl /\ recovery = NoRecovery
    /\ admission = 0 /\ closed = FALSE /\ epoch = 0 /\ session = 1 /\ gate = "free"
    /\ journal = [r \in Runs |-> [s \in Seqs |-> "none"]]
    /\ exchange = [r \in Runs |-> [s \in Seqs |-> [st |-> "none", by |-> 0]]]
    /\ held = [r \in Runs |-> {}]
    /\ sent = [r \in Runs |-> [acts |-> 0, qty |-> 0, late |-> FALSE]]
    /\ revoked = [r \in Runs |-> 0] /\ overtaken = {}

Actions == [kind : Kinds \cap {"place", "protect"}, seq : Seqs, target : {0}]
           \cup [kind : Kinds \cap {"cancel", "amend"}, seq : Seqs, target : Seqs]

Next ==
    \/ Access \/ StartSave \/ StartRefused \/ StartAdmit
    \/ RecordControl \/ Exit \/ ReconcileAck \/ ReconcileMark
    \/ BumpEpoch \/ SwitchSession \/ Restart
    \/ \E intent \in {1, 2} : \E r \in Runs : RevokeIntent({r}, intent)
    \/ RevokeIntent(Runs, 2)
    \/ \E r \in Runs :
         \/ TakeTicket(r) \/ Call(r) \/ Returns(r) \/ Queue(r) \/ Deny(r) \/ HandOver(r)
         \/ Acknowledge(r) \/ AcknowledgeFails(r) \/ Finish(r) \/ Reconcile(r)
         \/ \E st \in {"paused", "faulted", "completed"} : Fails(r, st)
         \/ \E stop \in BOOLEAN : Rest(r, stop)
         \/ \E a \in Actions : Prepare(r, a)
         \/ \E taken, noted \in BOOLEAN, status \in {"accepted", "rejected", "unknown"} :
               Answer(r, taken, status, noted)
         \/ \E s \in Seqs, st \in {"done", "rejected"} : Ends(r, s, st)

Spec == Init /\ [][Next]_vars
-----------------------------------------------------------------------------
Status == {"absent", "running", "stopping", "paused", "stopped", "faulted", "completed", "recovery"}
Action == [kind : {"none", "place", "protect", "cancel", "amend"}, seq : 0..MaxSeq, target : 0..MaxSeq]
Run == [st : Status, pend : Action, seq : 0..MaxSeq, acts : 0..MaxActions, total : 0..MaxTotal,
        owned : SUBSET Seqs, asked : SUBSET Seqs, acct : Nat, unknown : BOOLEAN]
Ticket == [sess : Nat, epoch : Nat, adm : Nat]
Worker == [step : {"off", "loop", "computing", "prepared", "queued", "sent", "ack", "ending"},
           intent : 0..2, adm : Nat, epoch : Nat, sess : Nat, act : Action]

TypeOK ==
    /\ doc \in [Runs -> Run] /\ file \in [doc : [Runs -> Run], bad : BOOLEAN]
    /\ live \in [Runs -> Worker] /\ ticket \in Ticket
    /\ start \in [step : {"idle", "taken", "saved"}, run : Runs \cup {0}, t : Ticket]
    /\ control \in [step : {"idle", "record"}, runs : SUBSET Runs, intent : 0..2]
    /\ recovery \in [step : {"idle", "ack", "mark"}, run : Runs \cup {0}]
    /\ gate \in {"free", "start", "worker", "recovery"}
    /\ down \in BOOLEAN /\ closed \in BOOLEAN
    /\ faults \in 0..MaxFaults /\ admission \in 0..MaxAdmission
    /\ epoch \in 0..MaxEpoch /\ session \in 1..Len(AccountOf)
    /\ journal \in [Runs -> [Seqs -> {"none", "pending", "accepted", "rejected"}]]
    /\ exchange \in [Runs -> [Seqs -> [st : {"none", "open", "done", "rejected"}, by : 0..MaxSeq]]]
    /\ held \in [Runs -> SUBSET Seqs]
    /\ sent \in [Runs -> [acts : Nat, qty : Nat, late : BOOLEAN]]
    /\ revoked \in [Runs -> Nat] /\ overtaken \subseteq Runs

(* Every order of a run that exists at the exchange is one it owns or the   *)
(* action it still has open, on disk: a stop at any moment loses none.      *)
NoOrphan ==
    \A r \in Runs : \A s \in Seqs :
        Found(r, s) => s \in file.doc[r].owned \/ file.doc[r].pend.seq = s

(* What was handed over, over all restarts, is counted on disk and within   *)
(* the caps of the policy.                                                   *)
CapsHold ==
    \A r \in Runs : /\ sent[r].acts <= file.doc[r].acts /\ file.doc[r].acts <= MaxActions
                    /\ sent[r].qty <= file.doc[r].total /\ file.doc[r].total <= MaxTotal

(* Whatever was handed over and may have been taken has its reservation     *)
(* with the risk rules, also after a stop.                                   *)
ReservationKept ==
    \A r \in Runs : \A s \in Seqs :
        /\ exchange[r][s].st # "none" => s \in held[r]
        /\ exchange[r][s].by # 0 => exchange[r][s].by \in held[r]

(* An account has at most one action whose outcome is open.                 *)
OneOpenAction ==
    \A r, q \in Runs :
        /\ r # q /\ file.doc[r].acct = file.doc[q].acct
        => Settled(file.doc, r) \/ Settled(file.doc, q)

(* A run that was told to stop or pause hands nothing over, also one whose  *)
(* start was under way when it was told.                                     *)
RevokedIsSilent ==
    \A r \in Runs : /\ ~sent[r].late
                    /\ IsLive(r) => live[r].adm >= revoked[r] \/ live[r].intent > 0

(* A run shown as running has a worker or is being started; one shown as    *)
(* stopping is being stopped, unless it was started between the two halves  *)
(* of the control that says so.                                              *)
ShownAsItIs ==
    \A r \in Runs :
        /\ doc[r].st = "running" => IsLive(r) \/ (start.step = "saved" /\ start.run = r)
        /\ doc[r].st = "stopping" => (IsLive(r) /\ live[r].intent > 0) \/ r \in overtaken

(* The supervisor never builds a document its own store refuses: that would *)
(* end all automatic trading of the process.                                 *)
NeverRefused == down => faults > 0

(* While the store works, memory and disk agree on all that limits a run.   *)
MemoryIsDurable ==
    ~down => \A r \in Runs : [doc[r] EXCEPT !.st = "any"] = [file.doc[r] EXCEPT !.st = "any"]

SpentKept ==
    \A r \in Runs : /\ file'.doc[r].acts >= file.doc[r].acts
                    /\ file'.doc[r].total >= file.doc[r].total
                    /\ file'.doc[r].seq >= file.doc[r].seq
                    /\ file.doc[r].owned \subseteq file'.doc[r].owned
                    /\ file.doc[r].asked \subseteq file'.doc[r].asked

(* What a run has spent of its policy is never given back by a step, a      *)
(* start, a failing save or a restart, and no order it owns is forgotten    *)
(* (plugin/strategy/supervisor.rs, start_owned and new).                     *)
SpentStaysSpent == [][SpentKept]_vars

(* Automatic trading: no order is lost to the document, the caps of the     *)
(* policy and the risk reservations hold over failures and stops, an        *)
(* account has one open action, and a stopped run sends nothing              *)
(* (plugin/strategy/supervisor.rs, execution.rs).                            *)
StrategySafe ==
    /\ TypeOK /\ NoOrphan /\ CapsHold /\ ReservationKept /\ OneOpenAction
    /\ RevokedIsSilent /\ ShownAsItIs /\ MemoryIsDurable /\ NeverRefused
=============================================================================
