------------------------ MODULE OrderSubmissionProofs ------------------------
(***************************************************************************)
(* Proofs about OrderSubmission, for any sets of identities and requests.  *)
(***************************************************************************)
EXTENDS OrderSubmission, TLAPS

\* The command that may still send the order with this identity.
Sending(id) == task.id = id /\ task.pc \in {"write_intent", "dispatch", "await"}

\* What a record of this identity, wherever it is stored, says of the exchange.
Truthful(id, rec) ==
  /\ rec.outcome = "accepted" => orders[id] = 1
  /\ rec.outcome = "rejected" => wire[id] = 0 /\ orders[id] = 0 /\ ~Sending(id)
  /\ sent[id] # Absent => rec.request = sent[id]

\* What holds of every identity.  Every copy of its record is truthful, the
\* stale temporary and backup copies included: a later failure may turn any of
\* them into the record that is read.  An identity without a file was never sent
\* and is not being submitted.
EntryOK(id) ==
  /\ \A slot \in ConfigSlots : Readable(files[id][slot]) => Truthful(id, files[id][slot])
  /\ Journal(id) = Absent =>
       /\ wire[id] = 0 /\ orders[id] = 0 /\ sent[id] = Absent
       /\ task.id # id
       /\ told[id] \cap {"accepted", "rejected"} = {}
  /\ "accepted" \in told[id] => orders[id] = 1
  /\ "rejected" \in told[id] => wire[id] = 0 /\ orders[id] = 0 /\ ~Sending(id)
  /\ wire[id] + orders[id] <= 1

\* The files of an identity while its first and only intent is written and sent.
OnlyIntent(id, contents) ==
  /\ files[id]["main"] = contents
  /\ files[id]["tmp"] = Absent
  /\ files[id]["bak"] = Absent

\* What each step of the running command may rely on.
TaskShape ==
  /\ task.pc = "idle" => task = Idle
  /\ task.pc # "idle" => task.id \in Ids /\ task.rec \in Record
  /\ task.pc = "write_intent" =>
       /\ OnlyIntent(task.id, Damaged)
       /\ sent[task.id] = Absent /\ wire[task.id] = 0 /\ orders[task.id] = 0
  /\ task.pc = "dispatch" =>
       /\ OnlyIntent(task.id, task.rec)
       /\ sent[task.id] = Absent /\ wire[task.id] = 0 /\ orders[task.id] = 0
  /\ task.pc = "await" =>
       /\ OnlyIntent(task.id, task.rec)
       /\ sent[task.id] = task.rec.request
       /\ wire[task.id] = (IF task.answer = "none" THEN 1 ELSE 0)
       /\ orders[task.id] = (IF task.answer = "accepted" THEN 1 ELSE 0)
  /\ task.pc \in {"write_intent", "dispatch", "await"} =>
       task.op = "submit" /\ task.rec.outcome = "pending"
  /\ task.pc \in SavePcs =>
       /\ Truthful(task.id, task.rec)
       /\ task.rec.outcome # "pending"
       /\ task.op # "submit" => task.rec.outcome = "accepted"
  /\ task.pc \in {"replace_main", "demote_main", "promote_temp", "restore_main"} =>
       files[task.id]["tmp"] = task.rec

IInv ==
  /\ TypeOK
  /\ TaskShape
  /\ \A id \in Ids : EntryOK(id)

-----------------------------------------------------------------------------
(***************************************************************************)
(* One step of config_persistence::save moves, creates and removes copies  *)
(* but invents none, never leaves all three paths empty, and has written   *)
(* the new record before it touches the main file.                         *)
(***************************************************************************)
TempWritten == {"replace_main", "demote_main", "promote_temp", "restore_main"}

LEMMA SaveStepFacts ==
  ASSUME NEW pc \in SavePcs, NEW f \in [ConfigSlots -> Slot], NEW new \in Record,
         NEW step \in SaveSteps(pc, f, new),
         pc \in TempWritten => f["tmp"] = new,
         LoadFirstExisting(f) # Absent
  PROVE  /\ step[1] \in SavePcs \cup {"saved", "failed"}
         /\ step[2] \in [ConfigSlots -> Slot]
         /\ \A slot \in ConfigSlots :
              step[2][slot] \in {Absent, Damaged, new, f["main"], f["tmp"], f["bak"]}
         /\ LoadFirstExisting(step[2]) # Absent
         /\ step[1] \in TempWritten => step[2]["tmp"] = new
  <1> USE MarkerAssumption, SlotMarkers DEF ConfigSlots, Put, Remove, Rename, LoadFirstExisting, Slot, TempWritten
  <1>1. CASE pc = "open_temp"
    BY <1>1 DEF SavePcs, SaveSteps, OpenTemp
  <1>2. CASE pc = "write_temp"
    BY <1>2 DEF SavePcs, SaveSteps, WriteTemp
  <1>3. CASE pc = "replace_main"
    BY <1>3 DEF SavePcs, SaveSteps, ReplaceMain
  <1>4. CASE pc = "demote_main"
    BY <1>4 DEF SavePcs, SaveSteps, DemoteMain
  <1>5. CASE pc = "promote_temp"
    BY <1>5 DEF SavePcs, SaveSteps, PromoteTemp
  <1>6. CASE pc = "restore_main"
    BY <1>6 DEF SavePcs, SaveSteps, RestoreMain
  <1> QED BY <1>1, <1>2, <1>3, <1>4, <1>5, <1>6 DEF SavePcs

-----------------------------------------------------------------------------
LEMMA InitIInv == Init => IInv
  BY MarkerAssumption, SlotMarkers
  DEF Init, IInv, TypeOK, Tasks, TaskShape, EntryOK, Idle, NoFile, Ops, Pcs, SavePcs, Answers,
      Slot, ConfigSlots, Readable

LEMMA JournalFacts ==
  ASSUME NEW id \in Ids, TypeOK
  PROVE  /\ Journal(id) \in Slot
         /\ Readable(Journal(id)) => Journal(id) \in Record
  BY DEF TypeOK, Journal, LoadFirstExisting, Slot, ConfigSlots, Readable

LEMMA RecordFacts ==
  ASSUME NEW rec \in Record, NEW outcome \in Outcomes, NEW acknowledged \in BOOLEAN
  PROVE  /\ rec.request \in Requests
         /\ rec.outcome \in Outcomes
         /\ rec.acknowledged \in BOOLEAN
         /\ rec # Absent /\ rec # Damaged
         /\ [rec EXCEPT !.outcome = outcome, !.acknowledged = acknowledged] \in Record
         /\ [rec EXCEPT !.outcome = outcome, !.acknowledged = acknowledged].outcome = outcome
         /\ [rec EXCEPT !.outcome = outcome, !.acknowledged = acknowledged].request = rec.request
         /\ [rec EXCEPT !.outcome = outcome] \in Record
         /\ [rec EXCEPT !.acknowledged = acknowledged] \in Record
  BY MarkerAssumption DEF Record

\* The entries of the identities a step leaves alone.  The hypotheses say that
\* the step changes nothing of this identity and does not start to send its order.
LEMMA Frame ==
  ASSUME NEW id \in Ids, EntryOK(id),
         files'[id] = files[id], wire'[id] = wire[id], orders'[id] = orders[id],
         sent'[id] = sent[id], told'[id] = told[id],
         task'.id = id => task.id = id,
         Sending(id)' => Sending(id)
  PROVE  EntryOK(id)'
  BY DEF EntryOK, Truthful, Journal

-----------------------------------------------------------------------------
(***************************************************************************)
(* One lemma per action: it preserves the invariant.                       *)
(***************************************************************************)

LEMMA AnswerFromJournalIInv ==
  ASSUME IInv, NEW id \in Ids, NEW request \in Requests, AnswerFromJournal(id, request)
  PROVE  IInv'
  <1> USE MarkerAssumption, SlotMarkers
  <1>1. TypeOK'
    BY DEF IInv, AnswerFromJournal, Tell, Journal, LoadFirstExisting, Readable, TaskShape, TypeOK, Tasks, Ops, Pcs, SavePcs, Answers, Replies, Idle, ConfigSlots, Slot, Record, Outcomes
  <1>2. TaskShape'
    BY DEF IInv, AnswerFromJournal, Tell, TaskShape, OnlyIntent, Truthful, Sending, EntryOK, Truthful, Sending, Journal, LoadFirstExisting, Readable, ConfigSlots, TypeOK, Tasks, Ops, Pcs, SavePcs, Answers, Replies, Idle, ConfigSlots, Slot, Record, Outcomes
  <1>3. ASSUME NEW i \in Ids PROVE EntryOK(i)'
    <2>1. CASE i # id
      BY <2>1, Frame DEF IInv, AnswerFromJournal, Tell, TypeOK, Tasks, Idle, Sending
    <2>2. CASE i = id
      BY <2>2 DEF IInv, AnswerFromJournal, Tell, TaskShape, OnlyIntent, EntryOK, Truthful, Sending, Journal, LoadFirstExisting, Readable, ConfigSlots, TypeOK, Tasks, Ops, Pcs, SavePcs, Answers, Replies, Idle, ConfigSlots, Slot, Record, Outcomes
    <2> QED BY <2>1, <2>2
  <1> QED BY <1>1, <1>2, <1>3 DEF IInv

LEMMA CreateIntentIInv ==
  ASSUME IInv, NEW id \in Ids, NEW request \in Requests, CreateIntent(id, request)
  PROVE  IInv'
  <1> USE MarkerAssumption, SlotMarkers
  <1>1. TypeOK'
    BY DEF IInv, CreateIntent, Put, Journal, LoadFirstExisting, Readable, TaskShape, TypeOK, Tasks, Ops, Pcs, SavePcs, Answers, Replies, Idle, ConfigSlots, Slot, Record, Outcomes
  <1>2. TaskShape'
    BY DEF IInv, CreateIntent, Put, TaskShape, OnlyIntent, Truthful, Sending, EntryOK, Truthful, Sending, Journal, LoadFirstExisting, Readable, ConfigSlots, TypeOK, Tasks, Ops, Pcs, SavePcs, Answers, Replies, Idle, ConfigSlots, Slot, Record, Outcomes
  <1>3. ASSUME NEW i \in Ids PROVE EntryOK(i)'
    <2>1. CASE i # id
      BY <2>1, Frame DEF IInv, CreateIntent, Put, TypeOK, Tasks, Idle, Sending
    <2>2. CASE i = id
      BY <2>2 DEF IInv, CreateIntent, Put, TaskShape, OnlyIntent, EntryOK, Truthful, Sending, Journal, LoadFirstExisting, Readable, ConfigSlots, TypeOK, Tasks, Ops, Pcs, SavePcs, Answers, Replies, Idle, ConfigSlots, Slot, Record, Outcomes
    <2> QED BY <2>1, <2>2
  <1> QED BY <1>1, <1>2, <1>3 DEF IInv

LEMMA WriteIntentIInv ==
  ASSUME IInv, WriteIntent
  PROVE  IInv'
  <1> USE MarkerAssumption, SlotMarkers
  <1>1. TypeOK'
    BY DEF IInv, WriteIntent, Put, Journal, LoadFirstExisting, Readable, TaskShape, TypeOK, Tasks, Ops, Pcs, SavePcs, Answers, Replies, Idle, ConfigSlots, Slot, Record, Outcomes
  <1>2. TaskShape'
    BY DEF IInv, WriteIntent, Put, TaskShape, OnlyIntent, Truthful, Sending, EntryOK, Truthful, Sending, Journal, LoadFirstExisting, Readable, ConfigSlots, TypeOK, Tasks, Ops, Pcs, SavePcs, Answers, Replies, Idle, ConfigSlots, Slot, Record, Outcomes
  <1>3. ASSUME NEW i \in Ids PROVE EntryOK(i)'
    <2>1. CASE i # task.id
      BY <2>1, Frame DEF IInv, WriteIntent, Put, TypeOK, Tasks, Idle, Sending
    <2>2. CASE i = task.id
      BY <2>2 DEF IInv, WriteIntent, Put, TaskShape, OnlyIntent, EntryOK, Truthful, Sending, Journal, LoadFirstExisting, Readable, ConfigSlots, TypeOK, Tasks, Ops, Pcs, SavePcs, Answers, Replies, Idle, ConfigSlots, Slot, Record, Outcomes
    <2> QED BY <2>1, <2>2
  <1> QED BY <1>1, <1>2, <1>3 DEF IInv

LEMMA FailIntentIInv ==
  ASSUME IInv, FailIntent
  PROVE  IInv'
  <1> USE MarkerAssumption, SlotMarkers
  <1>1. TypeOK'
    BY DEF IInv, FailIntent, Put, Journal, LoadFirstExisting, Readable, TaskShape, TypeOK, Tasks, Ops, Pcs, SavePcs, Answers, Replies, Idle, ConfigSlots, Slot, Record, Outcomes
  <1>2. TaskShape'
    BY DEF IInv, FailIntent, Put, TaskShape, OnlyIntent, Truthful, Sending, EntryOK, Truthful, Sending, Journal, LoadFirstExisting, Readable, ConfigSlots, TypeOK, Tasks, Ops, Pcs, SavePcs, Answers, Replies, Idle, ConfigSlots, Slot, Record, Outcomes
  <1>3. ASSUME NEW i \in Ids PROVE EntryOK(i)'
    <2>1. CASE i # task.id
      BY <2>1, Frame DEF IInv, FailIntent, Put, TypeOK, Tasks, Idle, Sending
    <2>2. CASE i = task.id
      BY <2>2 DEF IInv, FailIntent, Put, TaskShape, OnlyIntent, EntryOK, Truthful, Sending, Journal, LoadFirstExisting, Readable, ConfigSlots, TypeOK, Tasks, Ops, Pcs, SavePcs, Answers, Replies, Idle, ConfigSlots, Slot, Record, Outcomes
    <2> QED BY <2>1, <2>2
  <1> QED BY <1>1, <1>2, <1>3 DEF IInv

LEMMA RefuseUnsentIInv ==
  ASSUME IInv, RefuseUnsent
  PROVE  IInv'
  <1> USE MarkerAssumption, SlotMarkers
  <1>1. TypeOK'
    <2> DEFINE old == Journal(task.id)
    <2>1. old \in Record /\ task \in Tasks
      BY JournalFacts, RecordFacts DEF IInv, RefuseUnsent, TaskShape, OnlyIntent, TypeOK, Journal, LoadFirstExisting
    <2>2. [old EXCEPT !.outcome = "rejected", !.acknowledged = old.acknowledged] \in Record
      BY <2>1 DEF Record, Outcomes
    <2>3. task' \in Tasks
      BY <2>1, <2>2 DEF RefuseUnsent, Finish, SaveAs, Tasks, Pcs, SavePcs
    <2> QED BY <2>3 DEF IInv, TypeOK, RefuseUnsent
  <1>2. TaskShape'
    BY DEF IInv, RefuseUnsent, Finish, SaveAs, TaskShape, OnlyIntent, Truthful, Sending, EntryOK, Truthful, Sending, Journal, LoadFirstExisting, Readable, ConfigSlots, TypeOK, Tasks, Ops, Pcs, SavePcs, Answers, Replies, Idle, ConfigSlots, Slot, Record, Outcomes
  <1>3. ASSUME NEW i \in Ids PROVE EntryOK(i)'
    <2>1. CASE i # task.id
      BY <2>1, Frame DEF IInv, RefuseUnsent, Finish, SaveAs, TypeOK, Tasks, Idle, Sending
    <2>2. CASE i = task.id
      BY <2>2 DEF IInv, RefuseUnsent, Finish, SaveAs, TaskShape, OnlyIntent, EntryOK, Truthful, Sending, Journal, LoadFirstExisting, Readable, ConfigSlots, TypeOK, Tasks, Ops, Pcs, SavePcs, Answers, Replies, Idle, ConfigSlots, Slot, Record, Outcomes
    <2> QED BY <2>1, <2>2
  <1> QED BY <1>1, <1>2, <1>3 DEF IInv

LEMMA FailUnsentIInv ==
  ASSUME IInv, FailUnsent
  PROVE  IInv'
  <1> USE MarkerAssumption, SlotMarkers
  <1>1. TypeOK'
    BY DEF IInv, FailUnsent, GiveUp, Tell, Journal, LoadFirstExisting, Readable, TaskShape, TypeOK, Tasks, Ops, Pcs, SavePcs, Answers, Replies, Idle, ConfigSlots, Slot, Record, Outcomes
  <1>2. TaskShape'
    BY DEF IInv, FailUnsent, GiveUp, Tell, TaskShape, OnlyIntent, Truthful, Sending, EntryOK, Truthful, Sending, Journal, LoadFirstExisting, Readable, ConfigSlots, TypeOK, Tasks, Ops, Pcs, SavePcs, Answers, Replies, Idle, ConfigSlots, Slot, Record, Outcomes
  <1>3. ASSUME NEW i \in Ids PROVE EntryOK(i)'
    <2>1. CASE i # task.id
      BY <2>1, Frame DEF IInv, FailUnsent, GiveUp, Tell, TypeOK, Tasks, Idle, Sending
    <2>2. CASE i = task.id
      BY <2>2 DEF IInv, FailUnsent, GiveUp, Tell, TaskShape, OnlyIntent, EntryOK, Truthful, Sending, Journal, LoadFirstExisting, Readable, ConfigSlots, TypeOK, Tasks, Ops, Pcs, SavePcs, Answers, Replies, Idle, ConfigSlots, Slot, Record, Outcomes
    <2> QED BY <2>1, <2>2
  <1> QED BY <1>1, <1>2, <1>3 DEF IInv

LEMMA PostIInv ==
  ASSUME IInv, Post
  PROVE  IInv'
  <1> USE MarkerAssumption, SlotMarkers
  <1>1. TypeOK'
    <2>1. task.id \in Ids /\ task.rec.request \in Requests
      BY RecordFacts DEF IInv, Post, TaskShape, Record
    <2>2. task' \in Tasks
      BY DEF IInv, TypeOK, Post, Tasks, Pcs, Answers
    <2> QED BY <2>1, <2>2 DEF IInv, TypeOK, Post
  <1>2. TaskShape'
    BY DEF IInv, Post, TaskShape, OnlyIntent, Truthful, Sending, EntryOK, Truthful, Sending, Journal, LoadFirstExisting, Readable, ConfigSlots, TypeOK, Tasks, Ops, Pcs, SavePcs, Answers, Replies, Idle, ConfigSlots, Slot, Record, Outcomes
  <1>3. ASSUME NEW i \in Ids PROVE EntryOK(i)'
    <2>1. CASE i # task.id
      BY <2>1, Frame DEF IInv, Post, TypeOK, Tasks, Idle, Sending
    <2>2. CASE i = task.id
      BY <2>2 DEF IInv, Post, TaskShape, OnlyIntent, EntryOK, Truthful, Sending, Journal, LoadFirstExisting, Readable, ConfigSlots, TypeOK, Tasks, Ops, Pcs, SavePcs, Answers, Replies, Idle, ConfigSlots, Slot, Record, Outcomes
    <2> QED BY <2>1, <2>2
  <1> QED BY <1>1, <1>2, <1>3 DEF IInv

LEMMA RetryPostIInv ==
  ASSUME IInv, RetryPost
  PROVE  IInv'
  <1> USE MarkerAssumption, SlotMarkers
  <1>1. TypeOK'
    <2>1. task' \in Tasks
      BY DEF IInv, TypeOK, RetryPost, Tasks, Answers
    <2> QED BY <2>1 DEF IInv, TypeOK, RetryPost, TaskShape
  <1>2. TaskShape'
    BY DEF IInv, RetryPost, TaskShape, OnlyIntent, Truthful, Sending, EntryOK, Truthful, Sending, Journal, LoadFirstExisting, Readable, ConfigSlots, TypeOK, Tasks, Ops, Pcs, SavePcs, Answers, Replies, Idle, ConfigSlots, Slot, Record, Outcomes
  <1>3. ASSUME NEW i \in Ids PROVE EntryOK(i)'
    <2>1. CASE i # task.id
      BY <2>1, Frame DEF IInv, RetryPost, TypeOK, Tasks, Idle, Sending
    <2>2. CASE i = task.id
      BY <2>2 DEF IInv, RetryPost, TaskShape, OnlyIntent, EntryOK, Truthful, Sending, Journal, LoadFirstExisting, Readable, ConfigSlots, TypeOK, Tasks, Ops, Pcs, SavePcs, Answers, Replies, Idle, ConfigSlots, Slot, Record, Outcomes
    <2> QED BY <2>1, <2>2
  <1> QED BY <1>1, <1>2, <1>3 DEF IInv

LEMMA LoseAnswerIInv ==
  ASSUME IInv, LoseAnswer
  PROVE  IInv'
  <1> USE MarkerAssumption, SlotMarkers
  <1>1. TypeOK'
    BY DEF IInv, LoseAnswer, GiveUp, Tell, Journal, LoadFirstExisting, Readable, TaskShape, TypeOK, Tasks, Ops, Pcs, SavePcs, Answers, Replies, Idle, ConfigSlots, Slot, Record, Outcomes
  <1>2. TaskShape'
    BY DEF IInv, LoseAnswer, GiveUp, Tell, TaskShape, OnlyIntent, Truthful, Sending, EntryOK, Truthful, Sending, Journal, LoadFirstExisting, Readable, ConfigSlots, TypeOK, Tasks, Ops, Pcs, SavePcs, Answers, Replies, Idle, ConfigSlots, Slot, Record, Outcomes
  <1>3. ASSUME NEW i \in Ids PROVE EntryOK(i)'
    <2>1. CASE i # task.id
      BY <2>1, Frame DEF IInv, LoseAnswer, GiveUp, Tell, TypeOK, Tasks, Idle, Sending
    <2>2. CASE i = task.id
      BY <2>2 DEF IInv, LoseAnswer, GiveUp, Tell, TaskShape, OnlyIntent, EntryOK, Truthful, Sending, Journal, LoadFirstExisting, Readable, ConfigSlots, TypeOK, Tasks, Ops, Pcs, SavePcs, Answers, Replies, Idle, ConfigSlots, Slot, Record, Outcomes
    <2> QED BY <2>1, <2>2
  <1> QED BY <1>1, <1>2, <1>3 DEF IInv

LEMMA HandleAcceptedIInv ==
  ASSUME IInv, HandleAccepted
  PROVE  IInv'
  <1> USE MarkerAssumption, SlotMarkers
  <1>1. TypeOK'
    <2> DEFINE old == Journal(task.id)
    <2>1. old \in Record /\ task \in Tasks
      BY JournalFacts, RecordFacts DEF IInv, HandleAccepted, TaskShape, OnlyIntent, TypeOK, Journal, LoadFirstExisting
    <2>2. [old EXCEPT !.outcome = "accepted", !.acknowledged = old.acknowledged] \in Record
      BY <2>1 DEF Record, Outcomes
    <2>3. task' \in Tasks
      BY <2>1, <2>2 DEF HandleAccepted, Finish, SaveAs, Tasks, Pcs, SavePcs
    <2> QED BY <2>3 DEF IInv, TypeOK, HandleAccepted
  <1>2. TaskShape'
    BY DEF IInv, HandleAccepted, Finish, SaveAs, TaskShape, OnlyIntent, Truthful, Sending, EntryOK, Truthful, Sending, Journal, LoadFirstExisting, Readable, ConfigSlots, TypeOK, Tasks, Ops, Pcs, SavePcs, Answers, Replies, Idle, ConfigSlots, Slot, Record, Outcomes
  <1>3. ASSUME NEW i \in Ids PROVE EntryOK(i)'
    <2>1. CASE i # task.id
      BY <2>1, Frame DEF IInv, HandleAccepted, Finish, SaveAs, TypeOK, Tasks, Idle, Sending
    <2>2. CASE i = task.id
      BY <2>2 DEF IInv, HandleAccepted, Finish, SaveAs, TaskShape, OnlyIntent, EntryOK, Truthful, Sending, Journal, LoadFirstExisting, Readable, ConfigSlots, TypeOK, Tasks, Ops, Pcs, SavePcs, Answers, Replies, Idle, ConfigSlots, Slot, Record, Outcomes
    <2> QED BY <2>1, <2>2
  <1> QED BY <1>1, <1>2, <1>3 DEF IInv

LEMMA HandleRefusedIInv ==
  ASSUME IInv, HandleRefused
  PROVE  IInv'
  <1> USE MarkerAssumption, SlotMarkers
  <1>1. TypeOK'
    <2> DEFINE old == Journal(task.id)
    <2>1. old \in Record /\ task \in Tasks
      BY JournalFacts, RecordFacts DEF IInv, HandleRefused, TaskShape, OnlyIntent, TypeOK, Journal, LoadFirstExisting
    <2>2. [old EXCEPT !.outcome = "rejected", !.acknowledged = old.acknowledged] \in Record
      BY <2>1 DEF Record, Outcomes
    <2>3. task' \in Tasks
      BY <2>1, <2>2 DEF HandleRefused, Finish, SaveAs, Tasks, Pcs, SavePcs
    <2> QED BY <2>3 DEF IInv, TypeOK, HandleRefused
  <1>2. TaskShape'
    BY DEF IInv, HandleRefused, Finish, SaveAs, TaskShape, OnlyIntent, Truthful, Sending, EntryOK, Truthful, Sending, Journal, LoadFirstExisting, Readable, ConfigSlots, TypeOK, Tasks, Ops, Pcs, SavePcs, Answers, Replies, Idle, ConfigSlots, Slot, Record, Outcomes
  <1>3. ASSUME NEW i \in Ids PROVE EntryOK(i)'
    <2>1. CASE i # task.id
      BY <2>1, Frame DEF IInv, HandleRefused, Finish, SaveAs, TypeOK, Tasks, Idle, Sending
    <2>2. CASE i = task.id
      BY <2>2 DEF IInv, HandleRefused, Finish, SaveAs, TaskShape, OnlyIntent, EntryOK, Truthful, Sending, Journal, LoadFirstExisting, Readable, ConfigSlots, TypeOK, Tasks, Ops, Pcs, SavePcs, Answers, Replies, Idle, ConfigSlots, Slot, Record, Outcomes
    <2> QED BY <2>1, <2>2
  <1> QED BY <1>1, <1>2, <1>3 DEF IInv

LEMMA ReconcileSettledIInv ==
  ASSUME IInv, NEW id \in Ids, ReconcileSettled(id)
  PROVE  IInv'
  <1> USE MarkerAssumption, SlotMarkers
  <1>1. TypeOK'
    BY DEF IInv, ReconcileSettled, Tell, Journal, LoadFirstExisting, Readable, TaskShape, TypeOK, Tasks, Ops, Pcs, SavePcs, Answers, Replies, Idle, ConfigSlots, Slot, Record, Outcomes
  <1>2. TaskShape'
    BY DEF IInv, ReconcileSettled, Tell, TaskShape, OnlyIntent, Truthful, Sending, EntryOK, Truthful, Sending, Journal, LoadFirstExisting, Readable, ConfigSlots, TypeOK, Tasks, Ops, Pcs, SavePcs, Answers, Replies, Idle, ConfigSlots, Slot, Record, Outcomes
  <1>3. ASSUME NEW i \in Ids PROVE EntryOK(i)'
    <2>1. CASE i # id
      BY <2>1, Frame DEF IInv, ReconcileSettled, Tell, TypeOK, Tasks, Idle, Sending
    <2>2. CASE i = id
      BY <2>2 DEF IInv, ReconcileSettled, Tell, TaskShape, OnlyIntent, EntryOK, Truthful, Sending, Journal, LoadFirstExisting, Readable, ConfigSlots, TypeOK, Tasks, Ops, Pcs, SavePcs, Answers, Replies, Idle, ConfigSlots, Slot, Record, Outcomes
    <2> QED BY <2>1, <2>2
  <1> QED BY <1>1, <1>2, <1>3 DEF IInv

LEMMA ReconcileFoundIInv ==
  ASSUME IInv, NEW id \in Ids, ReconcileFound(id)
  PROVE  IInv'
  <1> USE MarkerAssumption, SlotMarkers
  <1>1. TypeOK'
    <2>1. Journal(id) \in Record
      BY JournalFacts DEF IInv, ReconcileFound
    <2>2. [Journal(id) EXCEPT !.outcome = "accepted"] \in Record
      BY <2>1, RecordFacts DEF Outcomes
    <2>3. task' \in Tasks
      BY <2>2 DEF ReconcileFound, Tasks, Idle, Ops, Pcs, SavePcs, Answers
    <2> QED BY <2>3 DEF IInv, TypeOK, ReconcileFound
  <1>2. TaskShape'
    <2> DEFINE new == [Journal(id) EXCEPT !.outcome = "accepted"]
    <2>1. Journal(id) \in Record /\ Truthful(id, Journal(id))
      BY JournalFacts DEF IInv, ReconcileFound, EntryOK, Journal, LoadFirstExisting, ConfigSlots
    <2>2. new \in Record /\ new.outcome = "accepted" /\ new.request = Journal(id).request
      BY <2>1, RecordFacts DEF ReconcileFound, Record, Outcomes
    <2>3. orders[id] = 1
      <3>1. wire[id] \in Nat /\ orders[id] \in Nat
        BY DEF IInv, TypeOK
      <3>2. wire[id] + orders[id] <= 1 /\ orders[id] > 0
        BY DEF IInv, EntryOK, ReconcileFound
      <3> QED BY <3>1, <3>2
    <2>4. task'.pc = "open_temp" /\ task'.id = id /\ task'.rec = new
      BY DEF ReconcileFound, Idle
    <2>5. Truthful(task.id, task.rec)'
      BY <2>1, <2>2, <2>3, <2>4 DEF Truthful, ReconcileFound
    <2> QED BY <2>2, <2>4, <2>5 DEF TaskShape, SavePcs
  <1>3. ASSUME NEW i \in Ids PROVE EntryOK(i)'
    <2>1. CASE i # id
      BY <2>1, Frame DEF IInv, ReconcileFound, TypeOK, Tasks, Idle, Sending
    <2>2. CASE i = id
      BY <2>2 DEF IInv, ReconcileFound, TaskShape, OnlyIntent, EntryOK, Truthful, Sending, Journal, LoadFirstExisting, Readable, ConfigSlots, TypeOK, Tasks, Ops, Pcs, SavePcs, Answers, Replies, Idle, ConfigSlots, Slot, Record, Outcomes
    <2> QED BY <2>1, <2>2
  <1> QED BY <1>1, <1>2, <1>3 DEF IInv

LEMMA AcknowledgeIInv ==
  ASSUME IInv, NEW id \in Ids, Acknowledge(id)
  PROVE  IInv'
  <1> USE MarkerAssumption, SlotMarkers
  <1>1. TypeOK'
    <2>1. Journal(id) \in Record
      BY JournalFacts DEF IInv, Acknowledge
    <2>2. [Journal(id) EXCEPT !.acknowledged = TRUE] \in Record
      BY <2>1, RecordFacts DEF Outcomes
    <2>3. task' \in Tasks
      BY <2>2 DEF Acknowledge, Tasks, Idle, Ops, Pcs, SavePcs, Answers
    <2> QED BY <2>3 DEF IInv, TypeOK, Acknowledge
  <1>2. TaskShape'
    <2> DEFINE new == [Journal(id) EXCEPT !.acknowledged = TRUE]
    <2>1. Journal(id) \in Record /\ Truthful(id, Journal(id))
      BY JournalFacts DEF IInv, Acknowledge, EntryOK, Journal, LoadFirstExisting, ConfigSlots
    <2>2. new \in Record /\ new.outcome = "accepted" /\ new.request = Journal(id).request
      BY <2>1, RecordFacts DEF Acknowledge, Record, Outcomes
    <2>3. orders[id] = 1
      BY <2>1 DEF Acknowledge, Truthful
    <2>4. task'.pc = "open_temp" /\ task'.id = id /\ task'.rec = new
      BY DEF Acknowledge, Idle
    <2>5. Truthful(task.id, task.rec)'
      BY <2>1, <2>2, <2>3, <2>4 DEF Truthful, Acknowledge
    <2> QED BY <2>2, <2>4, <2>5 DEF TaskShape, SavePcs
  <1>3. ASSUME NEW i \in Ids PROVE EntryOK(i)'
    <2>1. CASE i # id
      BY <2>1, Frame DEF IInv, Acknowledge, TypeOK, Tasks, Idle, Sending
    <2>2. CASE i = id
      BY <2>2 DEF IInv, Acknowledge, TaskShape, OnlyIntent, EntryOK, Truthful, Sending, Journal, LoadFirstExisting, Readable, ConfigSlots, TypeOK, Tasks, Ops, Pcs, SavePcs, Answers, Replies, Idle, ConfigSlots, Slot, Record, Outcomes
    <2> QED BY <2>1, <2>2
  <1> QED BY <1>1, <1>2, <1>3 DEF IInv

\* While a request of the running command is on the wire, the command waits for
\* its answer: nothing else can be in progress for that identity.
LEMMA OnWireAwaited ==
  ASSUME IInv, NEW id \in Ids, wire[id] > 0
  PROVE  /\ wire[id] = 1 /\ orders[id] = 0
         /\ task.id = id => task.pc = "await" /\ task.answer = "none"
  <1>1. wire[id] \in Nat /\ orders[id] \in Nat /\ wire[id] + orders[id] <= 1
    BY DEF IInv, TypeOK, EntryOK
  <1>2. wire[id] = 1 /\ orders[id] = 0
    BY <1>1
  <1>3. ASSUME task.id = id PROVE task.pc = "await" /\ task.answer = "none"
    <2>1. task.pc # "idle"
      BY <1>3, MarkerAssumption DEF IInv, TaskShape, Idle
    <2>2. task.pc \notin SavePcs
      BY <1>2, <1>3, <2>1 DEF IInv, TaskShape, Truthful, Record, Outcomes
    <2>3. task.pc \notin {"write_intent", "dispatch"}
      BY <1>2, <1>3 DEF IInv, TaskShape
    <2>4. task.pc = "await"
      BY <2>1, <2>2, <2>3 DEF IInv, TypeOK, Tasks, Pcs
    <2> QED BY <1>2, <1>3, <2>4 DEF IInv, TaskShape
  <1> QED BY <1>2, <1>3

LEMMA ExchangeAcceptsIInv ==
  ASSUME IInv, NEW id \in Ids, ExchangeAccepts(id)
  PROVE  IInv'
  <1> USE MarkerAssumption, SlotMarkers
  <1>1. TypeOK'
    BY DEF IInv, ExchangeAccepts, Answered, Journal, LoadFirstExisting, Readable, TaskShape, TypeOK, Tasks, Ops, Pcs, SavePcs, Answers, Replies, Idle, ConfigSlots, Slot, Record, Outcomes
  <1>2. TaskShape'
    <2>1. wire[id] = 1 /\ orders[id] = 0 /\ (task.id = id => task.pc = "await" /\ task.answer = "none")
      BY OnWireAwaited DEF ExchangeAccepts
    <2>2. wire'[id] = 0 /\ orders'[id] = 1
      BY <2>1 DEF IInv, TypeOK, ExchangeAccepts
    <2>3. CASE task.id # id
      BY <2>3 DEF IInv, ExchangeAccepts, Answered, TaskShape, OnlyIntent, Truthful, Sending, TypeOK
    <2>4. CASE task.id = id
      <3>1. task' = [task EXCEPT !.answer = "accepted"]
        BY <2>1, <2>4 DEF ExchangeAccepts, Answered
      <3>2. /\ task'.op = task.op /\ task'.pc = "await" /\ task'.id = id /\ task'.rec = task.rec
            /\ task'.answer = "accepted"
        BY <2>1, <2>4, <3>1 DEF IInv, TypeOK, Tasks
      <3> QED
        BY <2>1, <2>2, <2>4, <3>2 DEF IInv, ExchangeAccepts, TaskShape, OnlyIntent, SavePcs
    <2> QED BY <2>3, <2>4
  <1>3. ASSUME NEW i \in Ids PROVE EntryOK(i)'
    <2>1. CASE i # id
      BY <2>1, Frame DEF IInv, ExchangeAccepts, Answered, TypeOK, Tasks, Idle, Sending
    <2>2. CASE i = id
      BY <2>2 DEF IInv, ExchangeAccepts, Answered, TaskShape, OnlyIntent, EntryOK, Truthful, Sending, Journal, LoadFirstExisting, Readable, ConfigSlots, TypeOK, Tasks, Ops, Pcs, SavePcs, Answers, Replies, Idle, ConfigSlots, Slot, Record, Outcomes
    <2> QED BY <2>1, <2>2
  <1> QED BY <1>1, <1>2, <1>3 DEF IInv

LEMMA ExchangeRefusesIInv ==
  ASSUME IInv, NEW id \in Ids, NEW answer \in {"refused", "stale_clock"}, ExchangeRefuses(id, answer)
  PROVE  IInv'
  <1> USE MarkerAssumption, SlotMarkers
  <1>1. TypeOK'
    BY DEF IInv, ExchangeRefuses, Answered, Journal, LoadFirstExisting, Readable, TaskShape, TypeOK, Tasks, Ops, Pcs, SavePcs, Answers, Replies, Idle, ConfigSlots, Slot, Record, Outcomes
  <1>2. TaskShape'
    <2>1. wire[id] = 1 /\ orders[id] = 0 /\ (task.id = id => task.pc = "await" /\ task.answer = "none")
      BY OnWireAwaited DEF ExchangeRefuses
    <2>2. wire'[id] = 0 /\ orders'[id] = 0
      BY <2>1 DEF IInv, TypeOK, ExchangeRefuses
    <2>3. CASE task.id # id
      BY <2>3 DEF IInv, ExchangeRefuses, Answered, TaskShape, OnlyIntent, Truthful, Sending, TypeOK
    <2>4. CASE task.id = id
      <3>1. task' = [task EXCEPT !.answer = answer]
        BY <2>1, <2>4 DEF ExchangeRefuses, Answered
      <3>2. /\ task'.op = task.op /\ task'.pc = "await" /\ task'.id = id /\ task'.rec = task.rec
            /\ task'.answer = answer
        BY <2>1, <2>4, <3>1 DEF IInv, TypeOK, Tasks
      <3> QED
        BY <2>1, <2>2, <2>4, <3>2 DEF IInv, ExchangeRefuses, TaskShape, OnlyIntent, SavePcs
    <2> QED BY <2>3, <2>4
  <1>3. ASSUME NEW i \in Ids PROVE EntryOK(i)'
    <2>1. CASE i # id
      BY <2>1, Frame DEF IInv, ExchangeRefuses, Answered, TypeOK, Tasks, Idle, Sending
    <2>2. CASE i = id
      BY <2>2 DEF IInv, ExchangeRefuses, Answered, TaskShape, OnlyIntent, EntryOK, Truthful, Sending, Journal, LoadFirstExisting, Readable, ConfigSlots, TypeOK, Tasks, Ops, Pcs, SavePcs, Answers, Replies, Idle, ConfigSlots, Slot, Record, Outcomes
    <2> QED BY <2>1, <2>2
  <1> QED BY <1>1, <1>2, <1>3 DEF IInv

LEMMA CrashIInv ==
  ASSUME IInv, Crash
  PROVE  IInv'
  <1> USE MarkerAssumption, SlotMarkers
  <1>1. TypeOK'
    BY DEF IInv, Crash, Journal, LoadFirstExisting, Readable, TaskShape, TypeOK, Tasks, Ops, Pcs, SavePcs, Answers, Replies, Idle, ConfigSlots, Slot, Record, Outcomes
  <1>2. TaskShape'
    BY DEF IInv, Crash, TaskShape, OnlyIntent, Truthful, Sending, EntryOK, Truthful, Sending, Journal, LoadFirstExisting, Readable, ConfigSlots, TypeOK, Tasks, Ops, Pcs, SavePcs, Answers, Replies, Idle, ConfigSlots, Slot, Record, Outcomes
  <1>3. ASSUME NEW i \in Ids PROVE EntryOK(i)'
    <2>1. CASE i # task.id
      BY <2>1, Frame DEF IInv, Crash, TypeOK, Tasks, Idle, Sending
    <2>2. CASE i = task.id
      BY <2>2 DEF IInv, Crash, TaskShape, OnlyIntent, EntryOK, Truthful, Sending, Journal, LoadFirstExisting, Readable, ConfigSlots, TypeOK, Tasks, Ops, Pcs, SavePcs, Answers, Replies, Idle, ConfigSlots, Slot, Record, Outcomes
    <2> QED BY <2>1, <2>2
  <1> QED BY <1>1, <1>2, <1>3 DEF IInv

LEMMA SaveStepIInv ==
  ASSUME IInv, SaveStep
  PROVE  IInv'
  <1> USE MarkerAssumption, SlotMarkers
  <1>1. task.id \in Ids /\ task.rec \in Record /\ task \in Tasks /\ task.pc \in SavePcs
    BY DEF IInv, TypeOK, TaskShape, SaveStep, SavePcs
  <1>2. files[task.id] \in [ConfigSlots -> Slot]
    BY <1>1 DEF IInv, TypeOK
  <1>3. LoadFirstExisting(files[task.id]) # Absent
    BY <1>1 DEF IInv, EntryOK, Journal
  <1>4. task.pc \in TempWritten => files[task.id]["tmp"] = task.rec
    BY DEF IInv, TaskShape, TempWritten
  <1>5. PICK step \in SaveSteps(task.pc, files[task.id], task.rec) :
          /\ files' = [files EXCEPT ![task.id] = step[2]]
          /\ IF step[1] \in SavePcs
             THEN task' = [task EXCEPT !.pc = step[1]] /\ UNCHANGED told
             ELSE /\ task' = Idle
                  /\ told' = [told EXCEPT ![task.id] = @ \cup SaveReply(step[1] = "saved")]
    BY DEF SaveStep
  <1>6. /\ step[2] \in [ConfigSlots -> Slot]
        /\ \A slot \in ConfigSlots :
             step[2][slot] \in {Absent, Damaged, task.rec, files[task.id]["main"],
                                files[task.id]["tmp"], files[task.id]["bak"]}
        /\ LoadFirstExisting(step[2]) # Absent
        /\ step[1] \in TempWritten => step[2]["tmp"] = task.rec
    BY <1>1, <1>2, <1>3, <1>4, SaveStepFacts
  <1>7. UNCHANGED <<wire, orders, sent>>
    BY DEF SaveStep
  <1>8. files'[task.id] = step[2] /\ \A i \in Ids : i # task.id => files'[i] = files[i]
    BY <1>1, <1>5 DEF IInv, TypeOK
  <1>9. /\ Truthful(task.id, task.rec)
        /\ task.rec.outcome \in {"accepted", "rejected"}
        /\ task.op # "submit" => task.rec.outcome = "accepted"
    BY <1>1 DEF IInv, TaskShape, Record, Outcomes
  \* Whatever the command answers is backed by the record it was saving.
  <1>10. /\ "accepted" \in SaveReply(step[1] = "saved") => orders[task.id] = 1
         /\ "rejected" \in SaveReply(step[1] = "saved") => wire[task.id] = 0 /\ orders[task.id] = 0
         /\ SaveReply(step[1] = "saved") \subseteq Replies
    BY <1>1, <1>9 DEF SaveReply, Truthful, Replies
  <1>11. TypeOK'
    <2>1. task' \in Tasks
      BY <1>1, <1>5 DEF Tasks, Idle, Ops, Pcs, Answers
    <2>2. files' \in [Ids -> [ConfigSlots -> Slot]]
      BY <1>1, <1>5, <1>6 DEF IInv, TypeOK
    <2>3. told' \in [Ids -> SUBSET Replies]
      BY <1>1, <1>5, <1>10 DEF IInv, TypeOK
    <2> QED BY <2>1, <2>2, <2>3, <1>7 DEF IInv, TypeOK
  <1>12. TaskShape'
    <2>1. CASE step[1] \notin SavePcs
      BY <2>1, <1>5 DEF TaskShape, Idle, SavePcs
    <2>2. CASE step[1] \in SavePcs
      <3>1. task'.pc = step[1] /\ task'.id = task.id /\ task'.rec = task.rec /\ task'.op = task.op
        BY <2>2, <1>1, <1>5 DEF Tasks
      <3>2. Truthful(task.id, task.rec)'
        BY <2>2, <1>7, <1>9, <3>1 DEF Truthful, Sending, SavePcs
      <3> QED BY <2>2, <1>1, <1>6, <1>8, <1>9, <3>1, <3>2 DEF TaskShape, SavePcs, TempWritten
    <2> QED BY <2>1, <2>2
  <1>13. ASSUME NEW i \in Ids PROVE EntryOK(i)'
    <2>1. ~Sending(i)' /\ (task'.id = i => task.id = i)
      BY <1>1, <1>5 DEF Sending, SavePcs, Idle, Tasks
    <2>2. CASE i # task.id
      BY <2>1, <2>2, <1>5, <1>7, <1>8, Frame DEF IInv, TypeOK
    <2>3. CASE i = task.id
      <3>1. ASSUME NEW slot \in ConfigSlots, Readable(files'[i][slot])
            PROVE  Truthful(i, files[i][slot])'
        <4>1. \/ files'[i][slot] = task.rec
              \/ \E s \in ConfigSlots : files'[i][slot] = files[i][s]
          BY <2>3, <3>1, <1>6, <1>8 DEF Readable, ConfigSlots
        <4>2. Truthful(i, files'[i][slot])
          BY <2>3, <3>1, <4>1, <1>9 DEF IInv, EntryOK
        <4> QED BY <4>2, <2>1, <1>7 DEF Truthful
      <3>2. Journal(i)' # Absent
        BY <2>3, <1>6, <1>8 DEF Journal
      <3>3. "accepted" \in told'[i] => orders'[i] = 1
        BY <2>3, <1>1, <1>5, <1>7, <1>10 DEF IInv, EntryOK, TypeOK
      <3>4. "rejected" \in told'[i] => wire'[i] = 0 /\ orders'[i] = 0
        BY <2>3, <1>1, <1>5, <1>7, <1>10 DEF IInv, EntryOK, TypeOK
      <3>5. wire'[i] + orders'[i] <= 1
        BY <1>7 DEF IInv, EntryOK
      <3> QED BY <2>1, <3>1, <3>2, <3>3, <3>4, <3>5 DEF EntryOK
    <2> QED BY <2>2, <2>3
  <1> QED BY <1>11, <1>12, <1>13 DEF IInv

-----------------------------------------------------------------------------
LEMMA NextIInv == IInv /\ [Next]_vars => IInv'
  <1> SUFFICES ASSUME IInv, [Next]_vars PROVE IInv'
    OBVIOUS
  <1>1. CASE TaskStep
    BY <1>1, WriteIntentIInv, FailIntentIInv, RefuseUnsentIInv, FailUnsentIInv, PostIInv,
       RetryPostIInv, LoseAnswerIInv, HandleAcceptedIInv, HandleRefusedIInv, SaveStepIInv
    DEF TaskStep
  <1>2. ASSUME NEW id \in Ids, Command(id) PROVE IInv'
    BY <1>2, AnswerFromJournalIInv, CreateIntentIInv, ReconcileSettledIInv, ReconcileFoundIInv,
       AcknowledgeIInv
    DEF Command
  <1>3. ASSUME NEW id \in Ids, Exchange(id) PROVE IInv'
    BY <1>3, ExchangeAcceptsIInv, ExchangeRefusesIInv DEF Exchange
  <1>4. CASE Crash
    BY <1>4, CrashIInv
  <1>5. CASE UNCHANGED vars
    BY <1>5 DEF vars, IInv, TypeOK, TaskShape, OnlyIntent, EntryOK, Truthful, Sending, Journal
  <1> QED BY <1>1, <1>2, <1>3, <1>4, <1>5 DEF Next

\* The inductive invariant holds in every reachable state.
THEOREM Invariance == Spec => []IInv
  BY InitIInv, NextIInv, PTL DEF Spec

\* Type correctness of the journal, the running command and the exchange.
THEOREM TypeCorrect == Spec => []TypeOK
  <1>1. IInv => TypeOK
    BY DEF IInv
  <1> QED BY <1>1, Invariance, PTL

\* submit_once, private_post and reconcile together never make the exchange open
\* two orders for one link identity.
THEOREM AtMostOnce == Spec => []AtMostOneOrder
  <1>1. IInv => AtMostOneOrder
    BY DEF IInv, EntryOK, AtMostOneOrder
  <1> QED BY <1>1, Invariance, PTL

\* No failure or crash inside begin, finish or acknowledge loses the intent of an
\* order that may exist.
THEOREM IntentDurable == Spec => []IntentOutlivesSend
  <1>1. IInv => IntentOutlivesSend
    BY DEF IInv, EntryOK, IntentOutlivesSend, TypeOK
  <1> QED BY <1>1, Invariance, PTL

\* The record read_record returns agrees with what the exchange did and with the
\* request that was sent.
THEOREM JournalCorrect == Spec => []JournalTruthful
  <1>1. IInv => JournalTruthful
    BY DEF IInv, EntryOK, Truthful, JournalTruthful, Journal, LoadFirstExisting, ConfigSlots, TypeOK
  <1> QED BY <1>1, Invariance, PTL

\* What submit_once and reconcile tell their callers of an order is true for ever.
THEOREM ReplyCorrect == Spec => []ReplyTruthful
  <1>1. IInv => ReplyTruthful
    BY DEF IInv, EntryOK, ReplyTruthful, TypeOK
  <1> QED BY <1>1, Invariance, PTL

-----------------------------------------------------------------------------
(***************************************************************************)
(* The exposure.  An identity is open while its order may exist without a  *)
(* confirmed receipt, or while a command works on it: such a command may   *)
(* still send its order, or bring an unconfirmed record back.              *)
(***************************************************************************)
Open(id) == Exposed(id) \/ task.id = id

RequestOf(id) == IF task.id = id THEN task.rec.request ELSE sent[id]

\* ExposureBound, of the identities that are open.
OpenBound ==
  \A a, b \in Ids : a # b /\ Open(a) /\ Open(b) =>
    (RequestOf(a) \in ReduceOnly) # (RequestOf(b) \in ReduceOnly)

\* What may be at the exchange was sent, and only an acceptance is confirmed.
ReceiptOK(id) ==
  /\ wire[id] + orders[id] > 0 => sent[id] # Absent
  /\ \A slot \in ConfigSlots : Readable(files[id][slot]) /\ files[id][slot].acknowledged
                                => files[id][slot].outcome = "accepted"

TaskReceiptOK == task.pc # "idle" /\ task.rec.acknowledged => task.rec.outcome = "accepted"

\* An acknowledgement saves over a record that is already accepted: whatever
\* of it is read later is accepted too.
Confirmed(contents) == Readable(contents) /\ contents.outcome = "accepted"

AckFiles(pc, f) ==
  /\ f["main"] # Absent => Confirmed(f["main"])
  /\ pc = "open_temp" => Confirmed(LoadFirstExisting(f))
  /\ pc = "write_temp" => f["tmp"] = Damaged
  /\ pc = "demote_main" => f["main"] # Absent
  /\ pc \in {"promote_temp", "restore_main"} => Confirmed(f["bak"])

AckShape == task.op = "acknowledge" => task.pc \in SavePcs /\ AckFiles(task.pc, files[task.id])

XInv ==
  /\ IInv
  /\ \A id \in Ids : ReceiptOK(id)
  /\ TaskReceiptOK
  /\ AckShape
  /\ OpenBound

LEMMA InitXInv == Init => XInv
  <1> SUFFICES ASSUME Init PROVE XInv
    OBVIOUS
  <1>1. IInv
    BY InitIInv
  <1>2. ASSUME NEW id \in Ids PROVE ReceiptOK(id) /\ ~Open(id)
    BY <1>2, MarkerAssumption DEF Init, ReceiptOK, Open, Exposed, Idle, NoFile, Readable
  <1>3. TaskReceiptOK /\ AckShape
    BY DEF Init, Idle, TaskReceiptOK, AckShape
  <1> QED BY <1>1, <1>2, <1>3 DEF XInv, OpenBound

\* The typing facts the steps below need.
LEMMA Shape ==
  ASSUME IInv
  PROVE  /\ task \in Tasks
         /\ task.pc = "idle" <=> task = Idle
         /\ task.pc # "idle" => task.id \in Ids /\ task.rec \in Record
         /\ task.pc # "idle" => task.id # Absent
         /\ \A id \in Ids : task.id = id => task.pc # "idle"
         /\ \A id \in Ids : wire[id] \in Nat /\ orders[id] \in Nat
         /\ \A id \in Ids : files[id] \in [ConfigSlots -> Slot]
  BY MarkerAssumption DEF IInv, TypeOK, TaskShape, Idle

\* A command whose order may be at the exchange holds the request that was sent.
LEMMA TaskRequest ==
  ASSUME IInv, task.pc # "idle", ReceiptOK(task.id), wire[task.id] + orders[task.id] > 0
  PROVE  task.rec.request = sent[task.id]
  <1>1. task.pc \in Pcs /\ task.id \in Ids
    BY Shape DEF Tasks
  <1>2. sent[task.id] # Absent
    BY DEF ReceiptOK
  <1>3. CASE task.pc \in SavePcs
    BY <1>2, <1>3 DEF IInv, TaskShape, Truthful
  <1>4. CASE task.pc \in {"write_intent", "dispatch", "await"}
    BY <1>4 DEF IInv, TaskShape
  <1> QED BY <1>1, <1>3, <1>4 DEF Pcs

\* A step that opens no identity and changes no open identity's request.
LEMMA OpenFrame ==
  ASSUME OpenBound,
         \A id \in Ids : Open(id)' => Open(id) /\ RequestOf(id)' = RequestOf(id)
  PROVE  OpenBound'
  BY DEF OpenBound

\* A command that ends: nothing but its own files may have changed, and its
\* order, if it may exist, is the one it was working on.
LEMMA EndOpen ==
  ASSUME IInv, OpenBound, \A id \in Ids : ReceiptOK(id), task.pc # "idle", task' = Idle,
         \A id \in Ids : id # task.id => files'[id] = files[id],
         UNCHANGED <<wire, orders, sent>>
  PROVE  OpenBound'
  <1>1. ASSUME NEW id \in Ids, Open(id)' PROVE Open(id) /\ RequestOf(id)' = RequestOf(id)
    <2>1. task'.id # id
      BY MarkerAssumption DEF Idle
    <2>2. Exposed(id)' /\ RequestOf(id)' = sent[id]
      BY <1>1, <2>1 DEF Open, RequestOf
    <2>3. CASE id # task.id
      BY <2>2, <2>3 DEF Open, RequestOf, Exposed, Journal
    <2>4. CASE id = task.id
      BY <2>2, <2>4, TaskRequest DEF Open, RequestOf, Exposed
    <2> QED BY <2>3, <2>4
  <1> QED BY <1>1, OpenFrame

\* A command that goes on with the same identity and the same request.
LEMMA GoOnOpen ==
  ASSUME IInv, OpenBound, task.pc # "idle",
         task'.id = task.id, task'.rec.request = task.rec.request,
         \A id \in Ids : id # task.id =>
           /\ files'[id] = files[id] /\ sent'[id] = sent[id]
           /\ wire'[id] = wire[id] /\ orders'[id] = orders[id]
  PROVE  OpenBound'
  <1>1. ASSUME NEW id \in Ids, Open(id)' PROVE Open(id) /\ RequestOf(id)' = RequestOf(id)
    BY <1>1 DEF Open, RequestOf, Exposed, Journal
  <1> QED BY <1>1, OpenFrame

\* A command that starts on an order that is already exposed.
LEMMA StartOpen ==
  ASSUME IInv, OpenBound, task = Idle, NEW id \in Ids, Exposed(id), sent[id] # Absent,
         task'.id = id, task'.rec.request = sent[id], UNCHANGED <<files, wire, orders, sent>>
  PROVE  OpenBound'
  <1>1. ASSUME NEW i \in Ids, Open(i)' PROVE Open(i) /\ RequestOf(i)' = RequestOf(i)
    BY <1>1, MarkerAssumption DEF Open, RequestOf, Exposed, Journal, Idle
  <1> QED BY <1>1, OpenFrame

\* One save step of an acknowledgement.
LEMMA AckStepFacts ==
  ASSUME NEW pc \in SavePcs, NEW f \in [ConfigSlots -> Slot], NEW new \in Record,
         NEW step \in SaveSteps(pc, f, new), new.outcome = "accepted",
         pc \in TempWritten => f["tmp"] = new,
         AckFiles(pc, f)
  PROVE  /\ step[1] \in SavePcs => AckFiles(step[1], step[2])
         /\ Readable(LoadFirstExisting(f)) =>
              /\ Confirmed(LoadFirstExisting(f))
              /\ LoadFirstExisting(step[2]) = Damaged \/ Confirmed(LoadFirstExisting(step[2]))
  <1>0. Confirmed(new)
    BY MarkerAssumption DEF Confirmed, Readable
  <1> USE <1>0, MarkerAssumption, SlotMarkers
      DEF ConfigSlots, Put, Remove, Rename, LoadFirstExisting, Slot, TempWritten, AckFiles, Confirmed, Readable
  <1>1. CASE pc = "open_temp"
    BY <1>1 DEF SavePcs, SaveSteps, OpenTemp
  <1>2. CASE pc = "write_temp"
    BY <1>2 DEF SavePcs, SaveSteps, WriteTemp
  <1>3. CASE pc = "replace_main"
    BY <1>3 DEF SavePcs, SaveSteps, ReplaceMain
  <1>4. CASE pc = "demote_main"
    BY <1>4 DEF SavePcs, SaveSteps, DemoteMain
  <1>5. CASE pc = "promote_temp"
    BY <1>5 DEF SavePcs, SaveSteps, PromoteTemp
  <1>6. CASE pc = "restore_main"
    BY <1>6 DEF SavePcs, SaveSteps, RestoreMain
  <1> QED BY <1>1, <1>2, <1>3, <1>4, <1>5, <1>6 DEF SavePcs

\* What the steps add to IInv.
Extra == (\A id \in Ids : ReceiptOK(id)) /\ TaskReceiptOK /\ AckShape /\ OpenBound

\* Commands that only answer, and steps of the environment that change nothing
\* these invariants look at.
LEMMA QuietExtra ==
  ASSUME XInv, UNCHANGED <<files, task, wire, orders, sent>>
  PROVE  Extra'
  BY DEF XInv, Extra, ReceiptOK, TaskReceiptOK, AckShape, OpenBound, Open, RequestOf, Exposed, Journal

\* An identity whose files and last request stay, and that is not posted.
LEMMA ReceiptFrame ==
  ASSUME NEW id \in Ids, ReceiptOK(id), files'[id] = files[id], sent'[id] = sent[id],
         wire'[id] + orders'[id] > 0 => wire[id] + orders[id] > 0
  PROVE  ReceiptOK(id)'
  BY DEF ReceiptOK

LEMMA CreateIntentExtra ==
  ASSUME XInv, NEW id \in Ids, NEW request \in Requests, CreateIntent(id, request)
  PROVE  Extra'
  <1> USE MarkerAssumption, SlotMarkers
  <1>1. /\ files'[id] = Put(files[id], "main", Damaged)
        /\ \A i \in Ids : i # id => files'[i] = files[i]
        /\ UNCHANGED <<wire, orders, sent>>
    BY DEF XInv, IInv, TypeOK, CreateIntent
  <1>2. /\ task'.op = "submit" /\ task'.id = id /\ task'.rec.request = request
        /\ task'.rec.acknowledged = FALSE
    BY DEF CreateIntent, Idle
  <1>3. wire[id] = 0 /\ orders[id] = 0
    BY DEF XInv, IInv, EntryOK, CreateIntent
  <1>4. ASSUME NEW i \in Ids PROVE ReceiptOK(i)'
    <2>1. CASE i # id
      BY <1>1, <2>1, ReceiptFrame DEF XInv
    <2>2. CASE i = id
      BY <1>1, <1>3, <2>2 DEF XInv, IInv, TypeOK, ReceiptOK, Put, ConfigSlots, Readable
    <2> QED BY <2>1, <2>2
  <1>5. TaskReceiptOK' /\ AckShape'
    BY <1>2 DEF TaskReceiptOK, AckShape
  \* An exposed order is pending in the journal, so it did not block this one.
  <1>6. ASSUME NEW a \in Ids, a # id, Exposed(a)
        PROVE  (sent[a] \in ReduceOnly) # (request \in ReduceOnly)
    <2>1. Journal(a) # Absent /\ Journal(a) # Damaged
      BY <1>6 DEF XInv, IInv, EntryOK, TypeOK, Exposed, CreateIntent, ListReadable
    <2>2. Journal(a) \in Record /\ Readable(Journal(a))
      BY <2>1, JournalFacts DEF XInv, IInv, Readable
    <2>3. Truthful(a, Journal(a))
      BY <2>2 DEF XInv, IInv, EntryOK, Journal, LoadFirstExisting, ConfigSlots
    <2>4. Journal(a).request = sent[a]
      BY <2>3, <1>6 DEF XInv, ReceiptOK, Truthful, Exposed
    <2>5. IsPending(Journal(a))
      <3>1. Journal(a).outcome # "rejected"
        BY <2>3, <1>6 DEF Truthful, Exposed, XInv, IInv, TypeOK
      <3>2. Journal(a).outcome \in Outcomes /\ ~Journal(a).acknowledged
        BY <2>2, <1>6 DEF Exposed, Record
      <3> QED BY <3>1, <3>2 DEF IsPending, Outcomes
    <2>6. a \in ListPending
      BY <2>2, <2>5 DEF ListPending
    <2>7. ~Blocks(a, request)
      BY <2>6 DEF CreateIntent
    <2> QED BY <2>4, <2>7 DEF Blocks
  <1>7. ASSUME NEW i \in Ids, i # id, Open(i)' PROVE Exposed(i) /\ RequestOf(i)' = sent[i]
    BY <1>1, <1>2, <1>7 DEF Open, RequestOf, Exposed, Journal
  <1>8. RequestOf(id)' = request
    BY <1>2 DEF RequestOf
  <1>9. \A i \in Ids : Open(i) /\ i # id => Exposed(i) /\ RequestOf(i) = sent[i]
    BY DEF CreateIntent, Open, RequestOf, Idle
  <1>10. \A i \in Ids : Exposed(i) => Open(i)
    BY DEF Open
  <1>11. ASSUME NEW a \in Ids, NEW b \in Ids, a # b, Open(a)', Open(b)'
         PROVE  (RequestOf(a)' \in ReduceOnly) # (RequestOf(b)' \in ReduceOnly)
    <2>1. CASE a = id
      BY <1>6, <1>7, <1>8, <1>11, <2>1
    <2>2. CASE b = id
      BY <1>6, <1>7, <1>8, <1>11, <2>2
    <2>3. CASE a # id /\ b # id
      BY <1>7, <1>9, <1>10, <1>11, <2>3 DEF XInv, OpenBound
    <2> QED BY <2>1, <2>2, <2>3
  <1>12. OpenBound'
    BY <1>11 DEF OpenBound
  <1> QED BY <1>4, <1>5, <1>12 DEF Extra

LEMMA WriteIntentExtra ==
  ASSUME XInv, WriteIntent
  PROVE  Extra'
  <1> USE MarkerAssumption, SlotMarkers
  <1>1. task \in Tasks /\ task.id \in Ids /\ task.rec \in Record /\ task.pc # "idle"
    BY Shape DEF XInv, WriteIntent
  <1>2. /\ files'[task.id] = Put(files[task.id], "main", task.rec)
        /\ \A i \in Ids : i # task.id => files'[i] = files[i]
        /\ UNCHANGED <<wire, orders, sent>>
    BY <1>1 DEF XInv, IInv, TypeOK, WriteIntent
  <1>3. task'.op = task.op /\ task'.id = task.id /\ task'.rec = task.rec /\ task'.pc = "dispatch"
    BY <1>1 DEF WriteIntent, Tasks
  <1>4. ASSUME NEW i \in Ids PROVE ReceiptOK(i)'
    <2>1. CASE i # task.id
      BY <1>2, <2>1, ReceiptFrame DEF XInv
    <2>2. CASE i = task.id
      <3>1. ASSUME NEW slot \in ConfigSlots, Readable(files'[i][slot]), files'[i][slot].acknowledged
            PROVE  files'[i][slot].outcome = "accepted"
        <4>1. CASE slot = "main"
          BY <1>1, <1>2, <2>2, <3>1, <4>1 DEF XInv, IInv, TypeOK, TaskReceiptOK, Put, ConfigSlots
        <4>2. CASE slot # "main"
          BY <1>1, <1>2, <2>2, <3>1, <4>2 DEF XInv, IInv, TypeOK, ReceiptOK, Put
        <4> QED BY <4>1, <4>2
      <3> QED BY <1>2, <2>2, <3>1 DEF XInv, ReceiptOK
    <2> QED BY <2>1, <2>2
  <1>5. TaskReceiptOK' /\ AckShape'
    BY <1>1, <1>3 DEF XInv, IInv, TaskShape, TaskReceiptOK, AckShape, WriteIntent
  <1>6. OpenBound'
    BY <1>1, <1>2, <1>3, GoOnOpen DEF XInv
  <1> QED BY <1>4, <1>5, <1>6 DEF Extra

LEMMA FailIntentExtra ==
  ASSUME XInv, FailIntent
  PROVE  Extra'
  <1> USE MarkerAssumption, SlotMarkers
  <1>1. task \in Tasks /\ task.id \in Ids /\ task.rec \in Record /\ task.pc # "idle"
    BY Shape DEF XInv, FailIntent
  <1>2. PICK contents \in {Damaged, task.rec} :
          files' = [files EXCEPT ![task.id] = Put(@, "main", contents)]
    BY DEF FailIntent
  <1>3. /\ files'[task.id] = Put(files[task.id], "main", contents)
        /\ \A i \in Ids : i # task.id => files'[i] = files[i]
        /\ UNCHANGED <<wire, orders, sent>>
    BY <1>1, <1>2 DEF XInv, IInv, TypeOK, FailIntent
  <1>4. ASSUME NEW i \in Ids PROVE ReceiptOK(i)'
    <2>1. CASE i # task.id
      BY <1>3, <2>1, ReceiptFrame DEF XInv
    <2>2. CASE i = task.id
      <3>1. ASSUME NEW slot \in ConfigSlots, Readable(files'[i][slot]), files'[i][slot].acknowledged
            PROVE  files'[i][slot].outcome = "accepted"
        <4>1. CASE slot = "main"
          <5>1. files'[i][slot] = contents
            BY <1>1, <1>3, <2>2, <4>1 DEF XInv, IInv, TypeOK, Put, ConfigSlots
          <5> QED BY <1>1, <3>1, <5>1 DEF XInv, TaskReceiptOK, Readable
        <4>2. CASE slot # "main"
          BY <1>1, <1>3, <2>2, <3>1, <4>2 DEF XInv, IInv, TypeOK, ReceiptOK, Put
        <4> QED BY <4>1, <4>2
      <3> QED BY <1>3, <2>2, <3>1 DEF XInv, ReceiptOK
    <2> QED BY <2>1, <2>2
  <1>5. task' = Idle
    BY DEF FailIntent
  <1>6. TaskReceiptOK' /\ AckShape'
    BY <1>5 DEF TaskReceiptOK, AckShape, Idle
  <1>7. OpenBound'
    BY <1>1, <1>3, <1>5, EndOpen DEF XInv
  <1> QED BY <1>4, <1>6, <1>7 DEF Extra

\* GiveUp and Crash: the command ends and every file stays as it is.
LEMMA EndExtra ==
  ASSUME XInv, task.pc # "idle", task' = Idle, UNCHANGED <<files, wire, orders, sent>>
  PROVE  Extra'
  <1>1. \A i \in Ids : ReceiptOK(i)'
    BY DEF XInv, ReceiptOK
  <1>2. TaskReceiptOK' /\ AckShape'
    BY DEF TaskReceiptOK, AckShape, Idle
  <1>3. OpenBound'
    BY EndOpen DEF XInv
  <1> QED BY <1>1, <1>2, <1>3 DEF Extra

\* RefuseUnsent, HandleAccepted and HandleRefused: the journal still holds the
\* intent of the command, which becomes the record to save.
LEMMA FinishExtra ==
  ASSUME XInv, task.pc \in {"dispatch", "await"}, NEW outcome \in {"accepted", "rejected"},
         Finish(outcome), UNCHANGED <<files, wire, orders, sent>>
  PROVE  Extra'
  <1> USE MarkerAssumption, SlotMarkers
  <1>1. task \in Tasks /\ task.id \in Ids /\ task.rec \in Record /\ task.pc # "idle"
    BY Shape DEF XInv
  <1>2. task.op = "submit" /\ task.rec.outcome = "pending" /\ Journal(task.id) = task.rec
    BY <1>1 DEF XInv, IInv, TaskShape, OnlyIntent, Journal, LoadFirstExisting
  <1>3. task.rec.acknowledged = FALSE
    BY <1>1, <1>2 DEF XInv, TaskReceiptOK, Record
  <1>4. /\ task'.op = "submit" /\ task'.id = task.id
        /\ task'.rec.request = task.rec.request /\ task'.rec.acknowledged = FALSE
    BY <1>1, <1>2, <1>3 DEF Finish, SaveAs, Tasks, Record
  <1>5. \A i \in Ids : ReceiptOK(i)'
    BY DEF XInv, ReceiptOK
  <1>6. TaskReceiptOK' /\ AckShape'
    BY <1>4 DEF TaskReceiptOK, AckShape
  <1>7. OpenBound'
    BY <1>1, <1>4, GoOnOpen DEF XInv
  <1> QED BY <1>5, <1>6, <1>7 DEF Extra

LEMMA PostExtra ==
  ASSUME XInv, Post \/ RetryPost
  PROVE  Extra'
  <1> USE MarkerAssumption
  <1>1. task \in Tasks /\ task.id \in Ids /\ task.rec \in Record /\ task.pc # "idle"
    BY Shape DEF XInv, Post, RetryPost
  <1>2. sent'[task.id] # Absent /\ \A i \in Ids : i # task.id => sent'[i] = sent[i]
    <2>1. task.rec.request \in Requests /\ task.rec.request # Absent
      BY <1>1 DEF Record
    <2>2. CASE Post
      BY <1>1, <2>1, <2>2 DEF XInv, IInv, TypeOK, Post
    <2>3. CASE RetryPost
      BY <1>1, <2>1, <2>3 DEF XInv, IInv, TaskShape, RetryPost
    <2> QED BY <2>2, <2>3
  <1>3. /\ files' = files /\ orders' = orders
        /\ \A i \in Ids : i # task.id => wire'[i] = wire[i]
    BY <1>1 DEF XInv, IInv, TypeOK, Post, RetryPost
  <1>4. /\ task'.op = task.op /\ task'.id = task.id /\ task'.rec = task.rec
        /\ task.op = "submit"
    BY <1>1 DEF XInv, IInv, TaskShape, Post, RetryPost, Tasks
  <1>5. ASSUME NEW i \in Ids PROVE ReceiptOK(i)'
    BY <1>2, <1>3 DEF XInv, ReceiptOK
  <1>6. TaskReceiptOK' /\ AckShape'
    BY <1>1, <1>4 DEF XInv, TaskReceiptOK, AckShape
  <1>7. OpenBound'
    BY <1>1, <1>2, <1>3, <1>4, GoOnOpen DEF XInv
  <1> QED BY <1>5, <1>6, <1>7 DEF Extra

LEMMA ReconcileFoundExtra ==
  ASSUME XInv, NEW id \in Ids, ReconcileFound(id)
  PROVE  Extra'
  <1> DEFINE old == Journal(id)
  <1>1. old \in Record /\ Readable(old) /\ Truthful(id, old)
    BY JournalFacts DEF XInv, IInv, EntryOK, ReconcileFound, Journal, LoadFirstExisting, ConfigSlots
  <1>2. old.acknowledged = FALSE
    <2>1. old.acknowledged => old.outcome = "accepted"
      BY <1>1 DEF XInv, ReceiptOK, Journal, LoadFirstExisting, ConfigSlots
    <2> QED BY <1>1, <2>1 DEF ReconcileFound, Record
  <1>3. wire[id] + orders[id] > 0
    BY DEF XInv, IInv, TypeOK, ReconcileFound
  <1>4. sent[id] # Absent /\ old.request = sent[id]
    BY <1>1, <1>3 DEF XInv, ReceiptOK, Truthful
  <1>5. Exposed(id)
    BY <1>2, <1>3 DEF Exposed
  <1>6. /\ task'.op = "reconcile" /\ task'.id = id
        /\ task'.rec.request = old.request /\ task'.rec.acknowledged = FALSE
    <2>1. task'.rec = [old EXCEPT !.outcome = "accepted"] /\ task'.op = "reconcile" /\ task'.id = id
      BY DEF ReconcileFound, Idle
    <2> HIDE DEF old
    <2> QED BY <1>1, <1>2, <2>1 DEF Record
  <1>7. \A i \in Ids : ReceiptOK(i)'
    BY DEF XInv, ReceiptOK, ReconcileFound
  <1>8. TaskReceiptOK' /\ AckShape'
    BY <1>6 DEF TaskReceiptOK, AckShape
  <1>9. OpenBound'
    BY <1>4, <1>5, <1>6, StartOpen DEF XInv, ReconcileFound
  <1> QED BY <1>7, <1>8, <1>9 DEF Extra

LEMMA AcknowledgeExtra ==
  ASSUME XInv, NEW id \in Ids, Acknowledge(id)
  PROVE  Extra'
  <1> DEFINE old == Journal(id)
  <1>1. old \in Record /\ Readable(old) /\ Truthful(id, old)
    BY JournalFacts DEF XInv, IInv, EntryOK, Acknowledge, Journal, LoadFirstExisting, ConfigSlots
  <1>2. old.acknowledged = FALSE /\ old.outcome = "accepted"
    BY <1>1 DEF Acknowledge, Record
  <1>3. wire[id] + orders[id] > 0
    BY <1>1, <1>2 DEF XInv, IInv, TypeOK, Truthful
  <1>4. sent[id] # Absent /\ old.request = sent[id]
    BY <1>1, <1>3 DEF XInv, ReceiptOK, Truthful
  <1>5. Exposed(id)
    BY <1>2, <1>3 DEF Exposed
  <1>6. /\ task'.op = "acknowledge" /\ task'.id = id /\ task'.pc = "open_temp"
        /\ task'.rec.request = old.request /\ task'.rec.outcome = "accepted"
    <2>1. /\ task'.rec = [old EXCEPT !.acknowledged = TRUE] /\ task'.op = "acknowledge"
          /\ task'.id = id /\ task'.pc = "open_temp"
      BY DEF Acknowledge, Idle
    <2> HIDE DEF old
    <2> QED BY <1>1, <1>2, <2>1 DEF Record
  <1>7. \A i \in Ids : ReceiptOK(i)'
    BY DEF XInv, ReceiptOK, Acknowledge
  <1>8. TaskReceiptOK'
    BY <1>6 DEF TaskReceiptOK
  <1>9. AckShape'
    <2>1. AckFiles("open_temp", files[id])
      BY <1>1, <1>2 DEF AckFiles, Confirmed, Journal, LoadFirstExisting
    <2> QED BY <1>6, <2>1 DEF AckShape, Acknowledge, SavePcs
  <1>10. OpenBound'
    BY <1>4, <1>5, <1>6, StartOpen DEF XInv, Acknowledge
  <1> QED BY <1>7, <1>8, <1>9, <1>10 DEF Extra

LEMMA ExchangeExtra ==
  ASSUME XInv, NEW id \in Ids, Exchange(id)
  PROVE  Extra'
  <1>1. /\ wire[id] > 0
        /\ wire' = [wire EXCEPT ![id] = @ - 1]
        /\ orders' = [orders EXCEPT ![id] = @ + 1] \/ orders' = orders
        /\ \/ task' = task
           \/ \E answer \in Answers : task' = [task EXCEPT !.answer = answer]
        /\ UNCHANGED <<files, sent>>
    BY DEF Exchange, ExchangeAccepts, ExchangeRefuses, Answered, Answers
  <1>2. \A i \in Ids : wire'[i] + orders'[i] > 0 => wire[i] + orders[i] > 0
    BY <1>1 DEF XInv, IInv, TypeOK
  <1>3. /\ task'.op = task.op /\ task'.pc = task.pc /\ task'.id = task.id /\ task'.rec = task.rec
    BY <1>1, Shape DEF XInv, Tasks
  <1>4. \A i \in Ids : ReceiptOK(i)'
    BY <1>1, <1>2, ReceiptFrame DEF XInv
  <1>5. TaskReceiptOK' /\ AckShape'
    BY <1>1, <1>3 DEF XInv, TaskReceiptOK, AckShape
  <1>6. ASSUME NEW i \in Ids, Open(i)' PROVE Open(i) /\ RequestOf(i)' = RequestOf(i)
    BY <1>1, <1>2, <1>3, <1>6 DEF Open, RequestOf, Exposed, Journal
  <1>7. OpenBound'
    BY <1>6, OpenFrame DEF XInv
  <1> QED BY <1>4, <1>5, <1>7 DEF Extra

\* One save step, as the steps of the last proofs use it: it changes only the
\* files of its identity, invents no copy, and an acknowledgement keeps what is
\* read accepted or leaves it damaged.
LEMMA SaveStepOf ==
  ASSUME XInv, SaveStep, NEW id, id = task.id
  PROVE  /\ task \in Tasks /\ task.id \in Ids /\ task.rec \in Record /\ task.pc \in SavePcs
         /\ \A i \in Ids : i # task.id => files'[i] = files[i]
         /\ \A slot \in ConfigSlots :
              files'[task.id][slot] \in {Absent, Damaged, task.rec, files[task.id]["main"],
                                         files[task.id]["tmp"], files[task.id]["bak"]}
         /\ Journal(id)' # Absent
         /\ UNCHANGED <<wire, orders, sent>>
         /\ \/ task' = Idle
            \/ /\ task' = [task EXCEPT !.pc = task'.pc] /\ task'.pc \in SavePcs
               /\ task.op = "acknowledge" => AckFiles(task'.pc, files'[task.id])
         /\ task.op = "acknowledge" /\ Readable(Journal(id)) =>
              /\ Confirmed(Journal(id))
              /\ Journal(id)' = Damaged \/ Confirmed(Journal(id)')
  <1>1. task \in Tasks /\ task.id \in Ids /\ task.rec \in Record /\ task.pc \in SavePcs
    BY Shape DEF XInv, SaveStep, SavePcs
  <1>2. files[task.id] \in [ConfigSlots -> Slot] /\ files \in [Ids -> [ConfigSlots -> Slot]]
    BY <1>1 DEF XInv, IInv, TypeOK
  <1>3. LoadFirstExisting(files[task.id]) # Absent
    BY <1>1 DEF XInv, IInv, EntryOK, Journal
  <1>4. task.pc \in TempWritten => files[task.id]["tmp"] = task.rec
    BY DEF XInv, IInv, TaskShape, TempWritten
  <1>5. PICK step \in SaveSteps(task.pc, files[task.id], task.rec) :
          /\ files' = [files EXCEPT ![task.id] = step[2]]
          /\ IF step[1] \in SavePcs
             THEN task' = [task EXCEPT !.pc = step[1]]
             ELSE task' = Idle
    BY DEF SaveStep
  <1>6. /\ step[2] \in [ConfigSlots -> Slot]
        /\ \A slot \in ConfigSlots :
             step[2][slot] \in {Absent, Damaged, task.rec, files[task.id]["main"],
                                files[task.id]["tmp"], files[task.id]["bak"]}
        /\ LoadFirstExisting(step[2]) # Absent
    BY <1>1, <1>2, <1>3, <1>4, SaveStepFacts
  <1>7. files'[task.id] = step[2] /\ \A i \in Ids : i # task.id => files'[i] = files[i]
    BY <1>1, <1>2, <1>5
  <1>8. ASSUME task.op = "acknowledge"
        PROVE  /\ step[1] \in SavePcs => AckFiles(step[1], step[2])
               /\ Readable(Journal(task.id)) =>
                    /\ Confirmed(Journal(task.id))
                    /\ LoadFirstExisting(step[2]) = Damaged \/ Confirmed(LoadFirstExisting(step[2]))
    <2>1. AckFiles(task.pc, files[task.id])
      BY <1>8 DEF XInv, AckShape
    <2>2. task.rec.outcome = "accepted"
      BY <1>1, <1>8 DEF XInv, IInv, TaskShape
    <2> QED BY <1>1, <1>2, <1>4, <2>1, <2>2, AckStepFacts DEF Journal
  <1>9. Journal(id)' = LoadFirstExisting(step[2]) /\ Journal(id) = Journal(task.id)
    BY <1>7 DEF Journal
  <1>10. \/ task' = Idle
         \/ /\ task' = [task EXCEPT !.pc = task'.pc] /\ task'.pc \in SavePcs
            /\ task.op = "acknowledge" => AckFiles(task'.pc, files'[task.id])
    BY <1>1, <1>5, <1>7, <1>8 DEF Tasks
  <1>11. UNCHANGED <<wire, orders, sent>>
    BY DEF SaveStep
  <1> QED BY <1>1, <1>6, <1>7, <1>8, <1>9, <1>10, <1>11

LEMMA SaveStepExtra ==
  ASSUME XInv, SaveStep
  PROVE  Extra'
  <1>1. PICK id : id = task.id
    OBVIOUS
  <1>2. /\ task \in Tasks /\ task.id \in Ids /\ task.rec \in Record /\ task.pc \in SavePcs
        /\ \A i \in Ids : i # task.id => files'[i] = files[i]
        /\ \A slot \in ConfigSlots :
             files'[task.id][slot] \in {Absent, Damaged, task.rec, files[task.id]["main"],
                                        files[task.id]["tmp"], files[task.id]["bak"]}
        /\ UNCHANGED <<wire, orders, sent>>
        /\ \/ task' = Idle
           \/ /\ task' = [task EXCEPT !.pc = task'.pc] /\ task'.pc \in SavePcs
              /\ task.op = "acknowledge" => AckFiles(task'.pc, files'[task.id])
    BY <1>1, SaveStepOf
  <1>3. task.pc # "idle"
    BY <1>2 DEF SavePcs
  <1>4. ASSUME NEW i \in Ids PROVE ReceiptOK(i)'
    <2>1. CASE i # task.id
      BY <1>2, <2>1, ReceiptFrame DEF XInv
    <2>2. CASE i = task.id
      <3>1. ASSUME NEW slot \in ConfigSlots, Readable(files'[i][slot]), files'[i][slot].acknowledged
            PROVE  files'[i][slot].outcome = "accepted"
        <4>1. \/ files'[i][slot] = task.rec
              \/ \E s \in ConfigSlots : files'[i][slot] = files[i][s]
          BY <1>2, <2>2, <3>1 DEF Readable, ConfigSlots
        <4> QED BY <1>3, <2>2, <3>1, <4>1 DEF XInv, TaskReceiptOK, ReceiptOK
      <3> QED BY <1>2, <2>2, <3>1 DEF XInv, ReceiptOK
    <2> QED BY <2>1, <2>2
  <1>5. CASE task' = Idle
    <2>1. TaskReceiptOK' /\ AckShape'
      BY <1>5 DEF TaskReceiptOK, AckShape, Idle
    <2>2. OpenBound'
      BY <1>2, <1>3, <1>5, EndOpen DEF XInv
    <2> QED BY <1>4, <2>1, <2>2 DEF Extra
  <1>6. CASE task' # Idle
    <2>1. /\ task'.op = task.op /\ task'.id = task.id /\ task'.rec = task.rec
          /\ task'.pc \in SavePcs
          /\ task.op = "acknowledge" => AckFiles(task'.pc, files'[task.id])
      BY <1>2, <1>6 DEF Tasks
    <2>2. TaskReceiptOK' /\ AckShape'
      BY <1>3, <2>1 DEF XInv, TaskReceiptOK, AckShape
    <2>3. OpenBound'
      BY <1>2, <1>3, <2>1, GoOnOpen DEF XInv
    <2> QED BY <1>4, <2>2, <2>3 DEF Extra
  <1> QED BY <1>5, <1>6

LEMMA NextExtra ==
  ASSUME XInv, [Next]_vars
  PROVE  Extra'
  <1>1. CASE TaskStep
    <2>1. CASE RefuseUnsent \/ HandleAccepted \/ HandleRefused
      BY <2>1, FinishExtra DEF RefuseUnsent, HandleAccepted, HandleRefused
    <2>2. CASE FailUnsent \/ LoseAnswer
      BY <2>2, EndExtra DEF FailUnsent, LoseAnswer, GiveUp
    <2> QED
      BY <1>1, <2>1, <2>2, WriteIntentExtra, FailIntentExtra, PostExtra, SaveStepExtra DEF TaskStep
  <1>2. ASSUME NEW id \in Ids, Command(id) PROVE Extra'
    <2>1. CASE ReconcileSettled(id) \/ \E request \in Requests : AnswerFromJournal(id, request)
      BY <2>1, QuietExtra DEF ReconcileSettled, AnswerFromJournal
    <2> QED BY <1>2, <2>1, CreateIntentExtra, ReconcileFoundExtra, AcknowledgeExtra DEF Command
  <1>3. ASSUME NEW id \in Ids, Exchange(id) PROVE Extra'
    BY <1>3, ExchangeExtra
  <1>4. CASE Crash
    <2>1. task.pc # "idle"
      BY <1>4, Shape DEF XInv, Crash
    <2> QED BY <1>4, <2>1, EndExtra DEF Crash
  <1>5. CASE UNCHANGED vars
    BY <1>5, QuietExtra DEF vars
  <1> QED BY <1>1, <1>2, <1>3, <1>4, <1>5 DEF Next

LEMMA NextXInv == XInv /\ [Next]_vars => XInv'
  <1>1. XInv <=> IInv /\ Extra
    BY DEF XInv, Extra
  <1>2. (IInv /\ Extra)' => XInv'
    BY DEF XInv, Extra
  <1> QED BY <1>1, <1>2, NextIInv, NextExtra

LEMMA ExposureInvariance == Spec => []XInv
  BY InitXInv, NextXInv, PTL DEF Spec

\* The blocker test of submit_once bounds the exposure: for any number of
\* identities at most one opening and one reduce-only order are unconfirmed,
\* whatever was lost, damaged or cut short before.
THEOREM ExposureCorrect == Spec => []ExposureBound
  <1>1. XInv => ExposureBound
    <2> SUFFICES ASSUME XInv, NEW a \in Ids, NEW b \in Ids, a # b, Exposed(a), Exposed(b)
                 PROVE  (sent[a] \in ReduceOnly) # (sent[b] \in ReduceOnly)
      BY DEF ExposureBound
    <2>1. ASSUME NEW id \in Ids, Exposed(id) PROVE RequestOf(id) = sent[id]
      BY <2>1, TaskRequest, Shape DEF XInv, RequestOf, Exposed
    <2> QED BY <2>1 DEF XInv, OpenBound, Open
  <1> QED BY <1>1, ExposureInvariance, PTL

-----------------------------------------------------------------------------
(***************************************************************************)
(* The record readers find never goes back.                                *)
(***************************************************************************)
NoRegress(id) ==
  /\ /\ Readable(Journal(id)) /\ Journal(id).outcome # "pending"
     /\ task.id = id => task.op = "acknowledge"
     => \/ Journal(id)' = Damaged
        \/ /\ Readable(Journal(id)')
           /\ Journal(id)'.outcome = Journal(id).outcome
           /\ task.id # id /\ Journal(id).acknowledged => Journal(id)'.acknowledged
  /\ task = Idle /\ Journal(id) = Damaged => Journal(id)' = Damaged
  /\ Journal(id) # Absent => Journal(id)' # Absent

\* A step that leaves every file as it is.
LEMMA SameFiles ==
  ASSUME UNCHANGED files, NEW id \in Ids
  PROVE  NoRegress(id)
  BY DEF NoRegress, Journal

\* A step that changes no file of this identity.
LEMMA OtherFiles ==
  ASSUME NEW id \in Ids, files'[id] = files[id]
  PROVE  NoRegress(id)
  BY DEF NoRegress, Journal

LEMMA WritesRegress ==
  ASSUME XInv, NEW id \in Ids, NEW request \in Requests, CreateIntent(id, request) \/ WriteIntent \/ FailIntent,
         NEW i \in Ids
  PROVE  NoRegress(i)
  <1> USE MarkerAssumption, SlotMarkers
  <1>1. CASE CreateIntent(id, request)
    <2>1. CASE i = id
      BY <1>1, <2>1 DEF CreateIntent, NoRegress, Put, Journal, LoadFirstExisting, Readable, XInv, IInv, TypeOK, ConfigSlots
    <2>2. CASE i # id
      BY <1>1, <2>2, OtherFiles DEF CreateIntent, XInv, IInv, TypeOK
    <2> QED BY <2>1, <2>2
  <1>2. CASE WriteIntent \/ FailIntent
    <2>1. task.id \in Ids /\ task.rec \in Record /\ task # Idle /\ task.op = "submit"
      BY <1>2, Shape DEF XInv, IInv, TaskShape, WriteIntent, FailIntent
    <2>2. PICK contents \in {Damaged, task.rec} :
            files' = [files EXCEPT ![task.id] = Put(@, "main", contents)]
      BY <1>2 DEF WriteIntent, FailIntent
    <2>3. contents # Absent
      BY <2>1
    <2>4. CASE i = task.id
      <3>1. Journal(i)' # Absent
        BY <2>1, <2>2, <2>3, <2>4 DEF Put, Journal, LoadFirstExisting, XInv, IInv, TypeOK, ConfigSlots
      <3> QED BY <2>1, <2>4, <3>1 DEF NoRegress
    <2>5. CASE i # task.id
      BY <2>2, <2>5, OtherFiles DEF XInv, IInv, TypeOK
    <2> QED BY <2>4, <2>5
  <1> QED BY <1>1, <1>2

LEMMA SaveStepRegress ==
  ASSUME XInv, SaveStep, NEW i \in Ids
  PROVE  NoRegress(i)
  <1>1. CASE i # task.id
    <2>1. files'[i] = files[i]
      BY <1>1, SaveStepOf
    <2> QED BY <2>1, OtherFiles
  <1>2. CASE i = task.id
    <2>1. /\ Journal(i)' # Absent
          /\ task.op = "acknowledge" /\ Readable(Journal(i)) =>
               /\ Confirmed(Journal(i))
               /\ Journal(i)' = Damaged \/ Confirmed(Journal(i)')
      BY <1>2, SaveStepOf
    <2>2. task # Idle
      BY DEF SaveStep, SavePcs, Idle
    <2> QED BY <1>2, <2>1, <2>2 DEF NoRegress, Confirmed
  <1> QED BY <1>1, <1>2

LEMMA NextRegress ==
  ASSUME XInv, [Next]_vars, NEW i \in Ids
  PROVE  NoRegress(i)
  <1>1. CASE TaskStep
    <2>1. CASE WriteIntent \/ FailIntent
      <3>1. task.rec.request \in Requests /\ task.id \in Ids
        BY <2>1, Shape DEF WriteIntent, FailIntent, XInv, Record
      <3> QED BY <2>1, <3>1, WritesRegress
    <2>2. CASE ~(WriteIntent \/ FailIntent \/ SaveStep)
      BY <1>1, <2>2, SameFiles
      DEF TaskStep, RefuseUnsent, FailUnsent, GiveUp, Post, RetryPost, LoseAnswer, HandleAccepted, HandleRefused
    <2> QED BY <2>1, <2>2, SaveStepRegress
  <1>2. ASSUME NEW id \in Ids, Command(id) PROVE NoRegress(i)
    <2>1. CASE \E request \in Requests : CreateIntent(id, request)
      BY <2>1, WritesRegress
    <2>2. CASE ~(\E request \in Requests : CreateIntent(id, request))
      BY <1>2, <2>2, SameFiles DEF Command, AnswerFromJournal, ReconcileSettled, ReconcileFound, Acknowledge
    <2> QED BY <2>1, <2>2
  <1>3. ASSUME NEW id \in Ids, Exchange(id) PROVE NoRegress(i)
    BY <1>3, SameFiles DEF Exchange, ExchangeAccepts, ExchangeRefuses
  <1>4. CASE Crash
    BY <1>4, SameFiles DEF Crash
  <1>5. CASE UNCHANGED vars
    BY <1>5, SameFiles DEF vars
  <1> QED BY <1>1, <1>2, <1>3, <1>4, <1>5 DEF Next

\* No command, failing save or crash takes a settled record back to pending,
\* changes its outcome, forgets a receipt another command confirmed, or removes a
\* record: a reader of the journal sees it settle once.
THEOREM NeverRegresses == Spec => RecordNeverRegresses
  <1>1. XInv /\ [Next]_vars => [\A id \in Ids : NoRegress(id)]_vars
    BY NextRegress
  <1> QED BY <1>1, ExposureInvariance, PTL DEF Spec, RecordNeverRegresses, NoRegress
=============================================================================
