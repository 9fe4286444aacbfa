--------------------------- MODULE OrderSubmission ---------------------------
(***************************************************************************)
(* Placing an order exactly once: services/order_submission.rs on top of   *)
(* the journal of storage/order_submissions.rs, for one account scope.     *)
(*                                                                         *)
(* Every command that touches the journal holds the write half of the      *)
(* account lifecycle lock from its first read to its last file operation,  *)
(* so at most one `task' runs; what interleaves with it is the exchange,   *)
(* failing file-system calls, a lost answer, and the end of the process    *)
(* between any two steps.  list_pending_order_submissions only reads and   *)
(* runs when no task does.  A command that ends in an early return and     *)
(* changes nothing is a stuttering step.                                   *)
(***************************************************************************)
EXTENDS FileSlots, Naturals

CONSTANTS Ids,          \* order link identities
          Requests,     \* order requests (without their link identity)
          ReduceOnly    \* the requests with reduce_only = Some(true)

Outcomes == {"pending", "accepted", "rejected"}

\* models/order_submission.rs StoredSubmission; the identity is the file name.
Record == [request : Requests, outcome : Outcomes, acknowledged : BOOLEAN]

ASSUME RequestAssumption == ReduceOnly \subseteq Requests
ASSUME MarkerAssumption  == Absent \notin Record \cup Ids \cup Requests /\ Damaged \notin Record

VARIABLES files,    \* the three paths of every identity's journal entry
          task,     \* the command that holds the lifecycle write lock
          wire,     \* create-order requests the exchange has not processed yet
          orders,   \* orders the exchange has opened, per link identity
          sent,     \* the request last posted under each identity
          told      \* what callers were told about the order with this identity

vars == <<files, task, wire, orders, sent, told>>

Idle == [op |-> "none", pc |-> "idle", id |-> Absent, rec |-> Absent,
         attempt |-> 0, answer |-> "none"]

Ops     == {"none", "submit", "reconcile", "acknowledge"}
Pcs     == {"idle", "write_intent", "dispatch", "await"} \cup SavePcs
Answers == {"none", "accepted", "refused", "stale_clock"}
Replies == {"accepted", "rejected", "unknown"}
Slot    == Record \cup {Absent, Damaged}
Tasks   == [op : Ops, pc : Pcs, id : Ids \cup {Absent}, rec : Record \cup {Absent},
            attempt : {0, 1, 2}, answer : Answers]

TypeOK ==
  /\ files  \in [Ids -> [ConfigSlots -> Slot]]
  /\ task   \in Tasks
  /\ wire   \in [Ids -> Nat]
  /\ orders \in [Ids -> Nat]
  /\ sent   \in [Ids -> Requests \cup {Absent}]
  /\ told   \in [Ids -> SUBSET Replies]

Init ==
  /\ files  = [id \in Ids |-> NoFile]
  /\ task   = Idle
  /\ wire   = [id \in Ids |-> 0]
  /\ orders = [id \in Ids |-> 0]
  /\ sent   = [id \in Ids |-> Absent]
  /\ told   = [id \in Ids |-> {}]

-----------------------------------------------------------------------------
(***************************************************************************)
(* Reading the journal.                                                    *)
(***************************************************************************)

\* Mutant of Journal: a damaged copy is skipped, as the configuration loader does.
Journal_SkipsDamaged(id) == LoadFirstValid(files[id])

\* OrderSubmissionStore::get: a record, Absent (Ok(None)) or Damaged (Err).
Journal(id) == LoadFirstExisting(files[id])

\* Mutant of IsPending: an accepted order counts as resolved without its receipt.
IsPending_IgnoresReceipt(rec) == rec.outcome = "pending"

IsPending(rec) == rec.outcome = "pending" \/ (rec.outcome = "accepted" /\ ~rec.acknowledged)

\* list_pending answers Err for the whole scope when one record is unreadable.
ListReadable == \A id \in Ids : Journal(id) # Damaged

ListPending == {id \in Ids : Readable(Journal(id)) /\ IsPending(Journal(id))}

\* The blocker test of submit_once: an opening order waits for every
\* unresolved order, a reduce-only order for the reduce-only ones.
Blocks(pending, request) ==
  request \notin ReduceOnly \/ Journal(pending).request \in ReduceOnly

-----------------------------------------------------------------------------
(***************************************************************************)
(* submit_once.                                                            *)
(***************************************************************************)
Tell(id, reply) == told' = [told EXCEPT ![id] = @ \cup {reply}]

\* The journal already knows this identity and this request.
AnswerFromJournal(id, request) ==
  /\ task = Idle
  /\ Readable(Journal(id))
  /\ Journal(id).request = request
  /\ Tell(id, IF Journal(id).outcome = "pending" THEN "unknown" ELSE Journal(id).outcome)
  /\ UNCHANGED <<files, task, wire, orders, sent>>

\* begin: create_new succeeded, the file is still empty.
CreateIntent(id, request) ==
  /\ task = Idle
  /\ Journal(id) = Absent
  /\ ListReadable
  /\ \A p \in ListPending : ~Blocks(p, request)
  /\ files' = [files EXCEPT ![id] = Put(@, "main", Damaged)]
  /\ task' = [Idle EXCEPT !.op = "submit", !.pc = "write_intent", !.id = id,
              !.rec = [request |-> request, outcome |-> "pending", acknowledged |-> FALSE]]
  /\ UNCHANGED <<wire, orders, sent, told>>

WriteIntent ==
  /\ task.pc = "write_intent"
  /\ files' = [files EXCEPT ![task.id] = Put(@, "main", task.rec)]
  /\ task' = [task EXCEPT !.pc = "dispatch"]
  /\ UNCHANGED <<wire, orders, sent, told>>

\* write_all or sync_all failed: the command ends, the file stays as it is.
FailIntent ==
  /\ task.pc = "write_intent"
  /\ \E contents \in {Damaged, task.rec} :
       files' = [files EXCEPT ![task.id] = Put(@, "main", contents)]
  /\ task' = Idle
  /\ UNCHANGED <<wire, orders, sent, told>>

\* finish / acknowledge: re-read the record, change it, and start to save it.
SaveAs(outcome, acknowledged) ==
  task' = [task EXCEPT !.pc = "open_temp",
           !.rec = [Journal(task.id) EXCEPT !.outcome = outcome, !.acknowledged = acknowledged]]

Finish(outcome) == SaveAs(outcome, Journal(task.id).acknowledged)

\* Mutant of GiveUp: the failed submission cleans up its intent.
GiveUp_DropsIntent ==
  /\ Tell(task.id, "unknown")
  /\ files' = [files EXCEPT ![task.id] = NoFile]
  /\ task' = Idle
  /\ UNCHANGED <<wire, orders, sent>>

\* Mutant of GiveUp: every submission error is reported as a rejection.
GiveUp_SaysRejected ==
  /\ Tell(task.id, "rejected")
  /\ task' = Idle
  /\ UNCHANGED <<files, wire, orders, sent>>

\* Ending the command with OrderSubmissionUnknown; the intent stays pending.
GiveUp ==
  /\ Tell(task.id, "unknown")
  /\ task' = Idle
  /\ UNCHANGED <<files, wire, orders, sent>>

\* A risk block, a failed preflight, a revoked admission or a missing
\* credential: an error definitely_not_accepted knows, nothing was sent.
RefuseUnsent ==
  /\ task.pc = "dispatch"
  /\ Finish("rejected")
  /\ UNCHANGED <<files, wire, orders, sent, told>>

\* ensure_time_sync failed before the request was built: a connection error,
\* which is not among the errors that prove the order was never sent.
FailUnsent ==
  /\ task.pc = "dispatch"
  /\ GiveUp

Post ==
  /\ task.pc = "dispatch"
  /\ wire' = [wire EXCEPT ![task.id] = @ + 1]
  /\ sent' = [sent EXCEPT ![task.id] = task.rec.request]
  /\ task' = [task EXCEPT !.pc = "await", !.attempt = 1, !.answer = "none"]
  /\ UNCHANGED <<files, orders, told>>

\* Mutant of RetryPost: the retry is not limited to one.
RetryPost_Unlimited ==
  /\ task.pc = "await" /\ task.answer = "stale_clock"
  /\ wire' = [wire EXCEPT ![task.id] = @ + 1]
  /\ task' = [task EXCEPT !.attempt = @ + 1, !.answer = "none"]
  /\ UNCHANGED <<files, orders, sent, told>>

\* private_post: force_time_sync, then the same body once more.
RetryPost ==
  /\ task.pc = "await" /\ task.answer = "stale_clock" /\ task.attempt = 1
  /\ wire' = [wire EXCEPT ![task.id] = @ + 1]
  /\ task' = [task EXCEPT !.attempt = 2, !.answer = "none"]
  /\ UNCHANGED <<files, orders, sent, told>>

\* Mutant of LoseAnswer: a lost answer is retried like a stale clock.
LoseAnswer_Resends ==
  /\ task.pc = "await" /\ task.attempt = 1
  /\ wire' = [wire EXCEPT ![task.id] = @ + 1]
  /\ task' = [task EXCEPT !.attempt = 2, !.answer = "none"]
  /\ UNCHANGED <<files, orders, sent, told>>

\* Mutant of LoseAnswer: a lost answer settles the record as rejected.
LoseAnswer_SettlesRejected ==
  /\ task.pc = "await"
  /\ Finish("rejected")
  /\ UNCHANGED <<files, wire, orders, sent, told>>

\* Mutant of LoseAnswer: the HTTP client has no request timeout.
LoseAnswer_NoTimeout ==
  /\ task.pc = "await" /\ task.answer # "none"
  /\ GiveUp

\* A timeout, a broken connection, an unreadable or ambiguous answer, a receipt
\* without an order id or with another link, or a failed force_time_sync.
LoseAnswer ==
  /\ task.pc = "await"
  /\ GiveUp

HandleAccepted ==
  /\ task.pc = "await" /\ task.answer = "accepted"
  /\ Finish("accepted")
  /\ UNCHANGED <<files, wire, orders, sent, told>>

HandleRefused ==
  /\ task.pc = "await"
  /\ task.answer = "refused" \/ (task.answer = "stale_clock" /\ task.attempt = 2)
  /\ Finish("rejected")
  /\ UNCHANGED <<files, wire, orders, sent, told>>

-----------------------------------------------------------------------------
(***************************************************************************)
(* reconcile and acknowledge.                                              *)
(***************************************************************************)

\* A record that is no longer pending is returned without asking the exchange.
ReconcileSettled(id) ==
  /\ task = Idle
  /\ Readable(Journal(id))
  /\ Journal(id).outcome # "pending"
  /\ Tell(id, Journal(id).outcome)
  /\ UNCHANGED <<files, task, wire, orders, sent>>

\* Not finding the order leaves the record pending: only a found order is
\* written to the journal.
ReconcileFound(id) ==
  /\ task = Idle
  /\ Readable(Journal(id))
  /\ Journal(id).outcome = "pending"
  /\ orders[id] > 0
  /\ task' = [Idle EXCEPT !.op = "reconcile", !.pc = "open_temp", !.id = id,
              !.rec = [Journal(id) EXCEPT !.outcome = "accepted"]]
  /\ UNCHANGED <<files, wire, orders, sent, told>>

Acknowledge(id) ==
  /\ task = Idle
  /\ Readable(Journal(id))
  /\ Journal(id).outcome = "accepted"
  /\ ~Journal(id).acknowledged
  /\ task' = [Idle EXCEPT !.op = "acknowledge", !.pc = "open_temp", !.id = id,
              !.rec = [Journal(id) EXCEPT !.acknowledged = TRUE]]
  /\ UNCHANGED <<files, wire, orders, sent, told>>

-----------------------------------------------------------------------------
(***************************************************************************)
(* config_persistence::save, one system call at a time, and what the       *)
(* command that saves answers when it ends.                                *)
(***************************************************************************)

\* A confirmed acceptance is reported even when it cannot be saved; a
\* rejection that cannot be saved is reported as unknown; the error of a
\* reconciliation or an acknowledgement says nothing about the order.
SaveReply(saved) ==
  IF task.op = "submit"
  THEN IF task.rec.outcome = "accepted" THEN {"accepted"}
       ELSE {IF saved THEN "rejected" ELSE "unknown"}
  ELSE IF task.op = "reconcile" /\ saved THEN {"accepted"} ELSE {}

SaveStep ==
  /\ task.pc \in SavePcs
  /\ \E step \in SaveSteps(task.pc, files[task.id], task.rec) :
       /\ files' = [files EXCEPT ![task.id] = step[2]]
       /\ IF step[1] \in SavePcs
          THEN task' = [task EXCEPT !.pc = step[1]] /\ UNCHANGED told
          ELSE /\ task' = Idle
               /\ told' = [told EXCEPT ![task.id] = @ \cup SaveReply(step[1] = "saved")]
  /\ UNCHANGED <<wire, orders, sent>>

-----------------------------------------------------------------------------
(***************************************************************************)
(* The exchange (external) and the end of the process.                     *)
(***************************************************************************)
Answered(id, answer) ==
  IF task.pc = "await" /\ task.id = id /\ task.answer = "none"
  THEN task' = [task EXCEPT !.answer = answer]
  ELSE UNCHANGED task

\* The exchange does not tell two requests with one link identity apart.
ExchangeAccepts(id) ==
  /\ wire[id] > 0
  /\ wire' = [wire EXCEPT ![id] = @ - 1]
  /\ orders' = [orders EXCEPT ![id] = @ + 1]
  /\ Answered(id, "accepted")
  /\ UNCHANGED <<files, sent, told>>

ExchangeRefuses(id, answer) ==
  /\ wire[id] > 0
  /\ wire' = [wire EXCEPT ![id] = @ - 1]
  /\ Answered(id, answer)
  /\ UNCHANGED <<files, orders, sent, told>>

\* The process ends; requests already sent may still reach the exchange.
Crash ==
  /\ task # Idle
  /\ task' = Idle
  /\ UNCHANGED <<files, wire, orders, sent, told>>

-----------------------------------------------------------------------------
TaskStep ==
  \/ WriteIntent \/ FailIntent
  \/ RefuseUnsent \/ FailUnsent \/ Post \/ RetryPost
  \/ LoseAnswer \/ HandleAccepted \/ HandleRefused
  \/ SaveStep

Command(id) ==
  \/ \E request \in Requests : AnswerFromJournal(id, request) \/ CreateIntent(id, request)
  \/ ReconcileSettled(id) \/ ReconcileFound(id) \/ Acknowledge(id)

Exchange(id) ==
  \/ ExchangeAccepts(id)
  \/ \E answer \in {"refused", "stale_clock"} : ExchangeRefuses(id, answer)

Next ==
  \/ TaskStep
  \/ \E id \in Ids : Command(id) \/ Exchange(id)
  \/ Crash

Spec == Init /\ [][Next]_vars

\* A started command is driven by the async runtime, and its one unbounded wait,
\* the answer of the exchange, by the total request timeout of the HTTP client.
FairSpec == Spec /\ WF_vars(TaskStep)

-----------------------------------------------------------------------------
(***************************************************************************)
(* What the journal promises.                                              *)
(***************************************************************************)

\* "A submission whose response was lost must be queried, never sent again":
\* whatever fails and whenever the process ends, the exchange opens at most one
\* order per link identity, requests still on the wire counted.
AtMostOneOrder == \A id \in Ids : wire[id] + orders[id] <= 1

\* From the moment a request may be on its way the identity's record is never
\* gone: at no step of a save, failed or cut short, are all three paths empty.
IntentOutlivesSend ==
  \A id \in Ids : wire[id] + orders[id] > 0 => Journal(id) # Absent

\* A settled record agrees with the exchange, late answers included, and a
\* readable record holds the request that was really sent.
JournalTruthful ==
  \A id \in Ids : Readable(Journal(id)) =>
    /\ Journal(id).outcome = "accepted" => orders[id] = 1
    /\ Journal(id).outcome = "rejected" => wire[id] + orders[id] = 0
    /\ sent[id] # Absent => Journal(id).request = sent[id]

\* A caller told that the order was accepted has exactly one order at the
\* exchange, and one told that it was rejected has none and never will.
ReplyTruthful ==
  \A id \in Ids :
    /\ "accepted" \in told[id] => orders[id] = 1
    /\ "rejected" \in told[id] => wire[id] + orders[id] = 0

\* An order that may exist and whose receipt is not confirmed on disk.
Exposed(id) ==
  /\ wire[id] + orders[id] > 0
  /\ Readable(Journal(id)) => ~Journal(id).acknowledged

\* Unconfirmed orders do not pile up: at most one opening order and one
\* reduce-only order are unconfirmed at any time (the emergency reduction of
\* submit_once), even when the record of one of them became unreadable.
ExposureBound ==
  \A a, b \in Ids : a # b /\ Exposed(a) /\ Exposed(b) =>
    (sent[a] \in ReduceOnly) # (sent[b] \in ReduceOnly)

\* The record readers find never goes back.  Readers wait for the lock, so what
\* counts is a record no running command is about to settle: its outcome stays
\* or becomes unreadable, and so does a confirmed receipt; a record left damaged
\* stays damaged (it blocks a retry), and no record ever disappears.
RecordNeverRegresses ==
  [][\A id \in Ids :
       /\ /\ Readable(Journal(id)) /\ Journal(id).outcome # "pending"
          /\ task.id = id => task.op = "acknowledge"
          => \/ Journal(id)' = Damaged
             \/ /\ Readable(Journal(id)')
                /\ Journal(id)'.outcome = Journal(id).outcome
                /\ task.id # id /\ Journal(id).acknowledged => Journal(id)'.acknowledged
       /\ task = Idle /\ Journal(id) = Damaged => Journal(id)' = Damaged
       /\ Journal(id) # Absent => Journal(id)' # Absent]_vars

\* A command never keeps the lifecycle lock for ever, whatever the exchange and
\* the file system do.
LockReleased == task # Idle ~> task = Idle
=============================================================================
