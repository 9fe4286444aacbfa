---------------------------- MODULE SchedulerProofs ----------------------------
(***************************************************************************)
(* Proofs about the scheduler, for any number of callers, runners, tasks,  *)
(* generations and faults: the task state machine (TaskRuns), the locking  *)
(* and snapshots of the periodic tasks (SchedulerTasks), and the lifecycle *)
(* of the generations (SchedulerLifecycle).                                *)
(***************************************************************************)
EXTENDS TaskRuns, SchedulerTasks, SchedulerLifecycle, SequenceTheorems, TLAPS

(***************************************************************************)
(* TaskRuns                                                                *)
(***************************************************************************)
\* The caller that runs is the owner the state names, under the token of that
\* claim: Owns never fails for it, so every run is settled by its own owner.
Ownership ==
  /\ \A c \in Callers : call[c].pc = "running" <=> state.owner = c
  /\ \A c \in Callers : call[c].pc = "running" => state.token = call[c].token /\ call[c].token > 0
  /\ control.owners = IF InFlight THEN 1 ELSE 0

\* Who is in a list waits or has given up, a list of pending waiters comes with
\* the request for a rerun, and a forced run takes no such request.
Lists ==
  /\ \A c \in Waiters : call[c].pc \in {"waiting", "dropped"}
  /\ \A c \in Callers : call[c].pc = "waiting" => InFlight /\ c \in Waiters
  /\ state.pendingWaiters # {} => state.pending
  /\ state.forced => ~state.pending

\* A caller in the active list that did not join a forced run asked before the
\* execution under way started.
Freshness ==
  /\ \A c \in Callers : call[c].pc = "waiting" => call[c].asked <= started
  /\ \A c \in state.activeWaiters :
       call[c].pc = "waiting" /\ ~call[c].joined => call[c].asked < started

\* An owner that may still rerun has executed once so far.
Reruns == InFlight /\ ~state.forced /\ ~state.closed => started + 1 <= 2 * state.next

IInv ==
  /\ TypeOK /\ Ownership /\ Lists /\ Freshness
  /\ ForceIsFresh /\ AtMostOneRerun /\ Reruns

-----------------------------------------------------------------------------
RunState == [closed : BOOLEAN, owner : Callers \cup {None}, next : 0..MaxToken, token : 0..MaxToken,
             pending : BOOLEAN, forced : BOOLEAN,
             pendingWaiters : SUBSET Callers, activeWaiters : SUBSET Callers]

CallState == [pc : {"idle", "running", "waiting", "told", "dropped"}, token : 0..MaxToken,
              asked : Nat, joined : BOOLEAN, answer : Answers, answeredBy : Nat]

LEMMA Types ==
  TypeOK <=> /\ state \in RunState
             /\ control \in [cancelled : BOOLEAN, owners : Nat]
             /\ call \in [Callers -> CallState]
             /\ started \in Nat
  BY DEF TypeOK, RunState, CallState

\* What a told caller's entry is, and that it is well formed.
LEMMA ToldFacts ==
  ASSUME NEW c \in CallState, NEW answer \in Answers, NEW n \in Nat
  PROVE  /\ Told(c, answer, n) \in CallState
         /\ Told(c, answer, n).pc = "told"
         /\ Told(c, answer, n).answer = answer
         /\ Told(c, answer, n).answeredBy = n
         /\ Told(c, answer, n).token = c.token
         /\ Told(c, answer, n).asked = c.asked
         /\ Told(c, answer, n).joined = c.joined
  BY DEF Told, CallState

LEMMA InitIInv == Init => IInv
  <1> SUFFICES ASSUME Init PROVE IInv
    OBVIOUS
  <1> USE OwnerAssumption, TokenAssumption DEF Init, NoCall, InFlight, Waiters
  <1>1. TypeOK
    BY DEF TypeOK, Answers
  <1>2. Ownership /\ Lists /\ Freshness
    BY DEF Ownership, Lists, Freshness
  <1>3. ForceIsFresh /\ AtMostOneRerun /\ Reruns
    BY DEF ForceIsFresh, AtMostOneRerun, Reruns
  <1> QED BY <1>1, <1>2, <1>3 DEF IInv

\* An idle caller is turned away at once.
LEMMA TurnedAway ==
  ASSUME IInv, NEW c \in Callers, NEW answer \in {"cancelled", "skipped"}, call[c].pc = "idle",
         call' = [call EXCEPT ![c] = Told(@, answer, started)], UNCHANGED <<control, started>>,
         \/ UNCHANGED state
         \/ state' = [state EXCEPT !.closed = TRUE] /\ ~InFlight
  PROVE  IInv'
  <1>1. state \in RunState /\ call \in [Callers -> CallState] /\ started \in Nat
    BY Types DEF IInv
  <1>2. /\ state' \in RunState /\ state'.owner = state.owner /\ state'.token = state.token
        /\ state'.next = state.next /\ state'.pending = state.pending /\ state'.forced = state.forced
        /\ state'.pendingWaiters = state.pendingWaiters /\ state'.activeWaiters = state.activeWaiters
        /\ state'.closed = state.closed \/ ~InFlight
    BY <1>1 DEF RunState
  <1>3. /\ call' \in [Callers -> CallState]
        /\ call'[c].pc = "told" /\ call'[c].answer = answer
        /\ \A w \in Callers : w # c => call'[w] = call[w]
    <2>1. Told(call[c], answer, started) \in CallState /\ Told(call[c], answer, started).pc = "told"
          /\ Told(call[c], answer, started).answer = answer
      BY <1>1, ToldFacts DEF Answers
    <2> QED BY <1>1, <2>1
  <1>4. TypeOK'
    BY <1>2, <1>3, Types DEF IInv, TypeOK, RunState, CallState
  <1>5. Ownership'
    BY <1>1, <1>2, <1>3 DEF IInv, Ownership, InFlight
  <1>6. Lists'
    <2>1. state.pendingWaiters \subseteq Callers /\ state.activeWaiters \subseteq Callers
      BY <1>1 DEF RunState
    <2> QED BY <1>1, <1>2, <1>3, <2>1 DEF IInv, Lists, Waiters, InFlight
  <1>7. Freshness'
    <2>1. state.activeWaiters \subseteq Callers
      BY <1>1 DEF RunState
    <2> QED BY <1>1, <1>2, <1>3, <2>1 DEF IInv, Freshness
  <1>8. ForceIsFresh'
    BY <1>3 DEF IInv, ForceIsFresh
  <1>9. AtMostOneRerun' /\ Reruns'
    BY <1>2 DEF IInv, AtMostOneRerun, Reruns, InFlight
  <1> QED BY <1>4, <1>5, <1>6, <1>7, <1>8, <1>9 DEF IInv

LEMMA AwaitRerunInv ==
  ASSUME IInv, NEW c \in Callers, AwaitRerun(c)
  PROVE  IInv'
  <1>1. state \in RunState /\ call \in [Callers -> CallState] /\ started \in Nat
    BY Types DEF IInv
  <1>2. /\ state' \in RunState /\ state'.owner = state.owner /\ state'.token = state.token
        /\ state'.next = state.next /\ state'.forced = state.forced /\ state'.closed = state.closed
    BY <1>1 DEF RunState, AwaitRerun
  <1>3. /\ state.forced => /\ state'.activeWaiters = state.activeWaiters \cup {c}
                           /\ state'.pendingWaiters = state.pendingWaiters
                           /\ state'.pending = state.pending
        /\ ~state.forced => /\ state'.pendingWaiters = state.pendingWaiters \cup {c}
                            /\ state'.activeWaiters = state.activeWaiters
                            /\ state'.pending = TRUE
    BY <1>1 DEF RunState, AwaitRerun
  <1>4. /\ call' \in [Callers -> CallState]
        /\ call'[c].pc = "waiting" /\ call'[c].asked = started /\ call'[c].joined = state.forced
        /\ \A w \in Callers : w # c => call'[w] = call[w]
    <2> DEFINE new == [call[c] EXCEPT !.pc = "waiting", !.asked = started, !.joined = state.forced]
    <2>1. new \in CallState /\ new.pc = "waiting" /\ new.asked = started /\ new.joined = state.forced
      BY <1>1 DEF CallState, RunState
    <2>2. call' = [call EXCEPT ![c] = new]
      BY <1>1 DEF AwaitRerun, CallState
    <2> HIDE DEF new
    <2> QED BY <1>1, <2>1, <2>2
  <1>5. state.pendingWaiters \subseteq Callers /\ state.activeWaiters \subseteq Callers
    BY <1>1 DEF RunState
  <1>6. InFlight /\ call[c].pc = "idle" /\ c \notin Waiters
    BY DEF AwaitRerun, IInv, Lists
  <1>7. TypeOK'
    BY <1>2, <1>4, Types DEF IInv, TypeOK, RunState, CallState, AwaitRerun
  <1>8. Ownership'
    BY <1>1, <1>2, <1>4, <1>6 DEF IInv, Ownership, InFlight, AwaitRerun
  <1>9. Lists'
    BY <1>2, <1>3, <1>4, <1>5, <1>6 DEF IInv, Lists, Waiters, InFlight
  <1>10. Freshness'
    BY <1>1, <1>2, <1>3, <1>4, <1>5, <1>6 DEF IInv, Freshness, AwaitRerun, Waiters
  <1>11. ForceIsFresh'
    BY <1>4 DEF IInv, ForceIsFresh
  <1>12. AtMostOneRerun' /\ Reruns'
    BY <1>2 DEF IInv, AtMostOneRerun, Reruns, InFlight, AwaitRerun
  <1> QED BY <1>7, <1>8, <1>9, <1>10, <1>11, <1>12 DEF IInv

LEMMA BecomeOwnerInv ==
  ASSUME IInv, NEW c \in Callers, BecomeOwner(c), state.next < MaxToken
  PROVE  IInv'
  <1> USE OwnerAssumption, TokenAssumption
  <1>1. state \in RunState /\ call \in [Callers -> CallState] /\ started \in Nat
    BY Types DEF IInv
  <1>2. state.next \in Nat /\ state.next + 1 \in 0..MaxToken
    BY <1>1 DEF RunState
  <1>3. /\ state' \in RunState /\ state'.owner = c /\ state'.token = state.next + 1
        /\ state'.next = state.next + 1 /\ state'.forced = FALSE /\ state'.closed = state.closed
        /\ state'.pending = state.pending
        /\ state'.pendingWaiters = state.pendingWaiters /\ state'.activeWaiters = state.activeWaiters
    <2>1. state' = [state EXCEPT !.next = @ + 1, !.token = state.next + 1, !.owner = c, !.forced = FALSE]
      BY DEF BecomeOwner
    <2> QED BY <1>1, <1>2, <2>1 DEF RunState
  <1>4. /\ call' \in [Callers -> CallState]
        /\ call'[c].pc = "running" /\ call'[c].token = state.next + 1
        /\ \A w \in Callers : w # c => call'[w] = call[w]
    <2> DEFINE new == [call[c] EXCEPT !.pc = "running", !.token = state.next + 1]
    <2>1. new \in CallState /\ new.pc = "running" /\ new.token = state.next + 1
      BY <1>1, <1>2 DEF CallState
    <2>2. call' = [call EXCEPT ![c] = new]
      BY <1>1 DEF BecomeOwner, CallState
    <2> HIDE DEF new
    <2> QED BY <1>1, <2>1, <2>2
  <1>5. state.pendingWaiters \subseteq Callers /\ state.activeWaiters \subseteq Callers
    BY <1>1 DEF RunState
  <1>6. ~InFlight /\ call[c].pc = "idle" /\ c \notin Waiters
    BY DEF BecomeOwner, IInv, Lists
  <1>7. \A w \in Callers : call[w].pc \notin {"running", "waiting"}
    BY <1>6 DEF IInv, Ownership, Lists, InFlight
  <1>8. control' \in [cancelled : BOOLEAN, owners : Nat] /\ control'.owners = 1 /\ started' = started + 1
    BY <1>6 DEF BecomeOwner, IInv, TypeOK, Ownership
  <1>9. TypeOK'
    BY <1>1, <1>3, <1>4, <1>8, Types DEF TypeOK, RunState, CallState
  <1>10. Ownership'
    BY <1>2, <1>3, <1>4, <1>7, <1>8 DEF Ownership, InFlight
  <1>11. Lists'
    BY <1>3, <1>4, <1>5, <1>6, <1>7 DEF IInv, Lists, Waiters
  <1>12. Freshness'
    BY <1>3, <1>4, <1>5, <1>7 DEF Freshness
  <1>13. ForceIsFresh'
    BY <1>4 DEF IInv, ForceIsFresh
  <1>14. AtMostOneRerun' /\ Reruns'
    BY <1>1, <1>2, <1>3, <1>8 DEF IInv, AtMostOneRerun, Reruns
  <1> QED BY <1>9, <1>10, <1>11, <1>12, <1>13, <1>14 DEF IInv

\* The owner is done, one way or the other: everybody who waited was told, the
\* lists are empty and the drain counter is back to zero.
LEMMA EndRun ==
  ASSUME IInv, NEW c \in Callers, call[c].pc = "running",
         state' \in RunState, state'.owner = None, state'.next = state.next,
         state'.pending = FALSE, state'.forced = FALSE,
         state'.pendingWaiters = {}, state'.activeWaiters = {},
         control' = [control EXCEPT !.owners = @ - 1], UNCHANGED started,
         call' \in [Callers -> CallState],
         \A w \in Callers : IF w = c \/ call[w].pc = "waiting"
                            THEN call'[w].pc \in {"told", "dropped"} ELSE call'[w] = call[w],
         ForceIsFresh'
  PROVE  IInv'
  <1> USE OwnerAssumption
  <1>1. InFlight /\ control.owners = 1 /\ \A w \in Callers : call[w].pc = "running" => w = c
    BY DEF IInv, Ownership, InFlight
  <1>2. control' \in [cancelled : BOOLEAN, owners : Nat] /\ control'.owners = 0
    BY <1>1 DEF IInv, TypeOK
  <1>3. \A w \in Callers : call'[w].pc \notin {"running", "waiting"}
    BY <1>1
  <1>4. TypeOK'
    BY <1>2, Types DEF IInv, TypeOK, RunState, CallState
  <1>5. Ownership'
    BY <1>2, <1>3 DEF Ownership, InFlight
  <1>6. Lists' /\ Freshness'
    BY <1>3 DEF Lists, Freshness, Waiters
  <1>7. AtMostOneRerun' /\ Reruns'
    BY DEF IInv, AtMostOneRerun, Reruns, InFlight
  <1> QED BY <1>4, <1>5, <1>6, <1>7 DEF IInv

LEMMA ReleasedFacts ==
  ASSUME state \in RunState
  PROVE  /\ Released \in RunState /\ Released.owner = None /\ Released.next = state.next
         /\ Released.pending = FALSE /\ Released.forced = FALSE
         /\ Released.pendingWaiters = {} /\ Released.activeWaiters = {}
  <1>1. 0 \in 0..MaxToken /\ {} \in SUBSET Callers
    BY TokenAssumption
  <1>2. Released.owner = None /\ Released.next = state.next /\ Released.pending = FALSE
        /\ Released.forced = FALSE /\ Released.pendingWaiters = {} /\ Released.activeWaiters = {}
    BY DEF Released, RunState
  <1>3. Released \in RunState
    BY <1>1 DEF Released, RunState
  <1> QED BY <1>2, <1>3

LEMMA SettleCancelledInv ==
  ASSUME IInv, NEW c \in Callers, SettleCancelled(c)
  PROVE  IInv'
  <1>1. state \in RunState /\ call \in [Callers -> CallState] /\ started \in Nat
    BY Types DEF IInv
  <1>2. \A w \in Callers :
          call'[w] = IF w = c \/ call[w].pc = "waiting" THEN Told(call[w], "cancelled", started) ELSE call[w]
    BY DEF SettleCancelled, Deliver, IInv, Lists
  <1>3. \A w \in Callers : /\ Told(call[w], "cancelled", started) \in CallState
                           /\ Told(call[w], "cancelled", started).pc = "told"
                           /\ Told(call[w], "cancelled", started).answer = "cancelled"
    BY <1>1, ToldFacts DEF Answers
  <1>4. call' \in [Callers -> CallState]
    <2>1. \A w \in Callers : (IF w = c \/ (w \in Waiters /\ call[w].pc = "waiting")
                              THEN Told(call[w], "cancelled", started) ELSE call[w]) \in CallState
      BY <1>1, <1>3
    <2> QED BY <2>1 DEF SettleCancelled, Deliver
  <1>5. ForceIsFresh'
    BY <1>2, <1>3 DEF IInv, ForceIsFresh
  <1>6. \A w \in Callers : IF w = c \/ call[w].pc = "waiting"
                           THEN call'[w].pc \in {"told", "dropped"} ELSE call'[w] = call[w]
    BY <1>2, <1>3
  <1>7. call[c].pc = "running" /\ state' = Released /\ control' = [control EXCEPT !.owners = @ - 1] /\ UNCHANGED started
    BY DEF SettleCancelled
  <1> QED BY <1>1, <1>4, <1>5, <1>6, <1>7, ReleasedFacts, EndRun

LEMMA DropOwnerInv ==
  ASSUME IInv, NEW c \in Callers, DropOwner(c)
  PROVE  IInv'
  <1>1. state \in RunState /\ call \in [Callers -> CallState] /\ started \in Nat
    BY Types DEF IInv
  <1>2. call[c].pc = "running" /\ Owns(c)
    BY DEF DropOwner, Owns, IInv, Ownership
  <1>3. \A w \in Callers :
          call'[w] = IF w = c THEN [call[c] EXCEPT !.pc = "dropped"]
                     ELSE IF call[w].pc = "waiting" THEN Told(call[w], "cancelled", started) ELSE call[w]
    BY <1>2 DEF DropOwner, IInv, Lists
  <1>4. \A w \in Callers : /\ Told(call[w], "cancelled", started) \in CallState
                           /\ Told(call[w], "cancelled", started).pc = "told"
                           /\ Told(call[w], "cancelled", started).answer = "cancelled"
    BY <1>1, ToldFacts DEF Answers
  <1>5. [call[c] EXCEPT !.pc = "dropped"] \in CallState /\ [call[c] EXCEPT !.pc = "dropped"].pc = "dropped"
    BY <1>1 DEF CallState
  <1>6. call' \in [Callers -> CallState]
    <2>1. \A w \in Callers : (IF w = c THEN [call[c] EXCEPT !.pc = "dropped"]
                              ELSE IF w \in Waiters /\ call[w].pc = "waiting"
                              THEN Told(call[w], "cancelled", started) ELSE call[w]) \in CallState
      BY <1>1, <1>4, <1>5
    <2> QED BY <1>2, <2>1 DEF DropOwner
  <1>7. ForceIsFresh'
    BY <1>3, <1>4, <1>5 DEF IInv, ForceIsFresh
  <1>8. \A w \in Callers : IF w = c \/ call[w].pc = "waiting"
                           THEN call'[w].pc \in {"told", "dropped"} ELSE call'[w] = call[w]
    BY <1>3, <1>4, <1>5
  <1>9. state' = Released /\ control' = [control EXCEPT !.owners = @ - 1] /\ UNCHANGED started
    BY <1>2 DEF DropOwner
  <1> QED BY <1>1, <1>2, <1>6, <1>7, <1>8, <1>9, ReleasedFacts, EndRun

LEMMA SettleDoneInv ==
  ASSUME IInv, NEW c \in Callers, NEW result \in {"ok", "failed"}, SettleDone(c, result)
  PROVE  IInv'
  <1>1. state \in RunState /\ call \in [Callers -> CallState] /\ started \in Nat
    BY Types DEF IInv
  <1>2. call[c].pc = "running" /\ call[c].token > 0
    BY DEF SettleDone, IInv, Ownership
  \* Nobody is left in the pending list: its callers would have got a rerun.
  <1>3. state.pending = FALSE /\ state.pendingWaiters = {} /\ Waiters = state.activeWaiters
    BY <1>1 DEF SettleDone, IInv, Lists, Waiters, RunState
  <1>4. /\ state' \in RunState /\ state'.owner = None /\ state'.next = state.next
        /\ state'.pending = FALSE /\ state'.forced = FALSE
        /\ state'.pendingWaiters = {} /\ state'.activeWaiters = {}
    <2>1. 0 \in 0..MaxToken /\ {} \in SUBSET Callers
      BY TokenAssumption
    <2>2. state' = [state EXCEPT !.owner = None, !.token = 0, !.forced = FALSE, !.activeWaiters = {}]
      BY DEF SettleDone
    <2>3. state' \in RunState
      BY <1>1, <2>1, <2>2 DEF RunState
    <2> QED BY <1>1, <1>3, <2>2, <2>3 DEF RunState
  <1>5. \A w \in Callers :
          call'[w] = IF w = c \/ call[w].pc = "waiting" THEN Told(call[w], result, started) ELSE call[w]
    BY <1>3 DEF SettleDone, Deliver, IInv, Lists
  <1>6. \A w \in Callers : /\ Told(call[w], result, started) \in CallState
                           /\ Told(call[w], result, started).pc = "told"
                           /\ Told(call[w], result, started).token = call[w].token
                           /\ Told(call[w], result, started).joined = call[w].joined
                           /\ Told(call[w], result, started).asked = call[w].asked
                           /\ Told(call[w], result, started).answeredBy = started
    <2>1. result \in Answers
      BY DEF Answers
    <2> QED BY <1>1, <2>1, ToldFacts
  <1>7. call' \in [Callers -> CallState]
    <2>1. \A w \in Callers : (IF w = c \/ (w \in state.activeWaiters /\ call[w].pc = "waiting")
                              THEN Told(call[w], result, started) ELSE call[w]) \in CallState
      BY <1>1, <1>6
    <2> QED BY <2>1 DEF SettleDone, Deliver
  <1>8. ForceIsFresh'
    <2>1. \A w \in Callers : call[w].pc = "waiting" /\ ~call[w].joined => started > call[w].asked
      <3>1. \A w \in Callers : call[w].pc = "waiting" => w \in state.activeWaiters /\ call[w].asked \in Nat
        BY <1>1, <1>3 DEF IInv, Lists, CallState
      <3> QED BY <1>1, <3>1 DEF IInv, Freshness
    <2> QED BY <1>2, <1>5, <1>6, <2>1 DEF IInv, ForceIsFresh
  <1>9. \A w \in Callers : IF w = c \/ call[w].pc = "waiting"
                           THEN call'[w].pc \in {"told", "dropped"} ELSE call'[w] = call[w]
    BY <1>5, <1>6
  <1>10. control' = [control EXCEPT !.owners = @ - 1] /\ UNCHANGED started
    BY DEF SettleDone
  <1> QED BY <1>2, <1>4, <1>7, <1>8, <1>9, <1>10, EndRun

LEMMA RerunInv ==
  ASSUME IInv, NEW c \in Callers, Rerun(c)
  PROVE  IInv'
  <1>1. state \in RunState /\ call \in [Callers -> CallState] /\ started \in Nat
    BY Types DEF IInv
  <1>2. /\ state' \in RunState /\ state'.owner = state.owner /\ state'.token = state.token
        /\ state'.next = state.next /\ state'.forced = TRUE /\ state'.closed = state.closed
        /\ state'.pending = FALSE /\ state'.pendingWaiters = {} /\ state'.activeWaiters = Waiters
    BY <1>1 DEF Rerun, RunState, Waiters
  <1>3. started' = started + 1 /\ UNCHANGED <<control, call>>
    BY DEF Rerun
  <1>4. InFlight /\ ~state.forced /\ ~state.closed /\ state.next \in Nat
    BY <1>1, OwnerAssumption, TokenAssumption DEF Rerun, Owns, InFlight, RunState
  <1>5. TypeOK'
    BY <1>1, <1>2, <1>3, Types DEF IInv, TypeOK, RunState, CallState
  <1>6. Ownership' /\ Lists'
    BY <1>2, <1>3 DEF IInv, Ownership, Lists, Waiters, InFlight
  <1>7. Freshness'
    <2>1. Waiters \subseteq Callers
      BY <1>1 DEF Waiters, RunState
    <2>2. \A w \in Callers : call[w].pc = "waiting" => call[w].asked < started + 1
      BY <1>1 DEF IInv, Freshness, CallState
    <2> QED BY <1>1, <1>2, <1>3, <2>1, <2>2 DEF Freshness, CallState
  <1>8. ForceIsFresh'
    BY <1>3 DEF IInv, ForceIsFresh
  <1>9. AtMostOneRerun' /\ Reruns'
    BY <1>1, <1>2, <1>3, <1>4 DEF IInv, AtMostOneRerun, Reruns
  <1> QED BY <1>5, <1>6, <1>7, <1>8, <1>9 DEF IInv

\* DropWaiter and Return: the entry of one caller outside a run changes.
LEMMA LeaveInv ==
  ASSUME IInv, NEW c \in Callers, DropWaiter(c) \/ Return(c)
  PROVE  IInv'
  <1>1. state \in RunState /\ call \in [Callers -> CallState] /\ started \in Nat
    BY Types DEF IInv
  <1>2. /\ call' \in [Callers -> CallState] /\ \A w \in Callers : w # c => call'[w] = call[w]
        /\ call'[c].pc \in {"idle", "dropped"}
        /\ call'[c].pc = "idle" => call[c].pc = "told"
        /\ call[c].pc \in {"waiting", "told"}
    <2>1. CASE DropWaiter(c)
      <3>1. [call[c] EXCEPT !.pc = "dropped"] \in CallState /\ [call[c] EXCEPT !.pc = "dropped"].pc = "dropped"
        BY <1>1 DEF CallState
      <3>2. call' = [call EXCEPT ![c] = [call[c] EXCEPT !.pc = "dropped"]]
        BY <1>1, <2>1 DEF DropWaiter, CallState
      <3> QED BY <1>1, <2>1, <3>1, <3>2 DEF DropWaiter
    <2>2. CASE Return(c)
      <3>1. NoCall \in CallState /\ NoCall.pc = "idle"
        BY TokenAssumption DEF NoCall, CallState, Answers
      <3> QED BY <1>1, <2>2, <3>1 DEF Return
    <2> QED BY <2>1, <2>2
  <1>3. UNCHANGED <<state, control, started>>
    BY DEF DropWaiter, Return
  <1>4. state.pendingWaiters \subseteq Callers /\ state.activeWaiters \subseteq Callers
    BY <1>1 DEF RunState
  <1>5. TypeOK'
    BY <1>2, <1>3, Types DEF IInv, TypeOK, RunState, CallState
  <1>6. Ownership'
    BY <1>2, <1>3 DEF IInv, Ownership, InFlight
  <1>7. Lists'
    BY <1>2, <1>3, <1>4 DEF IInv, Lists, Waiters, InFlight
  <1>8. Freshness' /\ ForceIsFresh'
    BY <1>2, <1>3, <1>4 DEF IInv, Freshness, ForceIsFresh
  <1>9. AtMostOneRerun' /\ Reruns'
    BY <1>3 DEF IInv, AtMostOneRerun, Reruns, InFlight
  <1> QED BY <1>5, <1>6, <1>7, <1>8, <1>9 DEF IInv

LEMMA CancelInv ==
  ASSUME IInv, Cancel
  PROVE  IInv'
  <1>1. /\ control' \in [cancelled : BOOLEAN, owners : Nat] /\ control'.owners = control.owners
        /\ UNCHANGED <<state, call, started>>
    BY DEF Cancel, IInv, TypeOK
  <1> QED BY <1>1 DEF IInv, TypeOK, Ownership, Lists, Freshness, ForceIsFresh, AtMostOneRerun, Reruns,
                      InFlight, Waiters

LEMMA CancelRunStateInv ==
  ASSUME IInv, CancelRunState
  PROVE  IInv'
  <1>1. state \in RunState /\ call \in [Callers -> CallState] /\ started \in Nat
    BY Types DEF IInv
  <1>2. /\ state' \in RunState /\ state'.owner = state.owner /\ state'.token = state.token
        /\ state'.next = state.next /\ state'.closed = TRUE /\ state'.pending = FALSE
        /\ state'.forced = FALSE /\ state'.pendingWaiters = {} /\ state'.activeWaiters = {}
    BY <1>1 DEF CancelRunState, RunState
  <1>3. \A w \in Callers :
          call'[w] = IF call[w].pc = "waiting" THEN Told(call[w], "cancelled", started) ELSE call[w]
    BY DEF CancelRunState, IInv, Lists
  <1>4. \A w \in Callers : /\ Told(call[w], "cancelled", started) \in CallState
                           /\ Told(call[w], "cancelled", started).pc = "told"
                           /\ Told(call[w], "cancelled", started).answer = "cancelled"
    BY <1>1, ToldFacts DEF Answers
  <1>5. call' \in [Callers -> CallState]
    <2>1. \A w \in Callers : (IF w \in Waiters /\ call[w].pc = "waiting"
                              THEN Told(call[w], "cancelled", started) ELSE call[w]) \in CallState
      BY <1>1, <1>4
    <2> QED BY <2>1 DEF CancelRunState
  <1>6. UNCHANGED <<control, started>>
    BY DEF CancelRunState
  <1>7. TypeOK'
    BY <1>2, <1>5, <1>6, Types DEF IInv, TypeOK, RunState, CallState
  <1>8. Ownership'
    BY <1>2, <1>3, <1>4, <1>6 DEF IInv, Ownership, InFlight
  <1>9. Lists' /\ Freshness'
    BY <1>2, <1>3, <1>4 DEF Lists, Freshness, Waiters
  <1>10. ForceIsFresh'
    BY <1>3, <1>4 DEF IInv, ForceIsFresh
  <1>11. AtMostOneRerun' /\ Reruns'
    BY <1>2, <1>6 DEF IInv, AtMostOneRerun, Reruns
  <1> QED BY <1>7, <1>8, <1>9, <1>10, <1>11 DEF IInv

-----------------------------------------------------------------------------
LEMMA NextIInv == IInv /\ [Next]_vars => IInv'
  <1> SUFFICES ASSUME IInv, [Next]_vars PROVE IInv'
    OBVIOUS
  <1>1. ASSUME NEW c \in Callers, RefuseClosed(c) \/ SkipBusy(c) PROVE IInv'
    BY <1>1, TurnedAway DEF RefuseClosed, SkipBusy
  <1>2. ASSUME NEW c \in Callers, BecomeOwner(c) PROVE IInv'
    <2>1. CASE state.next < MaxToken
      BY <1>2, <2>1, BecomeOwnerInv
    <2>2. CASE ~(state.next < MaxToken)
      BY <1>2, <2>2, TurnedAway DEF BecomeOwner
    <2> QED BY <2>1, <2>2
  <1>3. ASSUME NEW c \in Callers, Settle(c) PROVE IInv'
    BY <1>3, SettleCancelledInv, RerunInv, SettleDoneInv DEF Settle
  <1>4. CASE UNCHANGED vars
    BY <1>4 DEF vars, IInv, TypeOK, Ownership, Lists, Freshness, ForceIsFresh, AtMostOneRerun, Reruns,
                InFlight, Waiters
  <1> QED
    BY <1>1, <1>2, <1>3, <1>4, AwaitRerunInv, DropOwnerInv, LeaveInv, CancelInv, CancelRunStateInv DEF Next

\* The inductive invariant of the runs of a task.
THEOREM Invariance == Spec => []IInv
  BY InitIInv, NextIInv, PTL DEF Spec

\* For any number of concurrent calls of run_scheduled_task: executions never
\* overlap and are counted by the drain, nobody waits for nobody, a forced call
\* gets a result that is fresh for it, and an owner reruns at most once.
THEOREM RunsCorrect == Spec => []RunsSafe
  <1>1. IInv => RunsSafe
    <2> SUFFICES ASSUME IInv PROVE RunsSafe
      OBVIOUS
    <2>1. OneRunCounted
      BY DEF IInv, Ownership, OneRunCounted
    <2>2. WaitersServed
      BY DEF IInv, Lists, Waiters, WaitersServed
    <2> QED BY <2>1, <2>2 DEF IInv, RunsSafe
  <1> QED BY <1>1, Invariance, PTL

-----------------------------------------------------------------------------
(***************************************************************************)
(* SchedulerTasks                                                          *)
(***************************************************************************)
\* The steps of a runner at which it holds the account lock, and at which it waits
\* for it.
Guarded == {"sync", "edge", "backfill", "quotes", "snapshot", "fetch", "recheck", "commit", "end"}
Queued  == {"queue", "requeue"}

\* Nobody is twice in the queue.
Once(q) == \A i, j \in 1..Len(q) : q[i] = q[j] => i = j

\* A runner is where its step says, and the writer is alone when it holds the lock.
Places ==
  /\ Once(lock.queue)
  /\ \A r \in Runners : r \in lock.holders <=> job[r].pc \in Guarded
  /\ \A r \in Runners : Contains(lock.queue, r) <=> job[r].pc \in Queued
  /\ \A r \in Runners : job[r].pc = "queue" => job[r].kind # "probe"
  /\ Writer \in lock.holders => lock.holders = {Writer} /\ ~Contains(lock.queue, Writer)

TasksInv == TasksTypeOK /\ Places /\ SnapshotCurrent /\ ProbeCurrent /\ EdgeNotLost

Parties == Runners \cup {Writer}

Locks == [holders : SUBSET Parties, queue : Seq(Parties)]

Jobs == [kind : Kinds, mode : {"periodic", "bootstrap"},
         pc : {"idle", "queue", "sync", "edge", "backfill", "quotes", "snapshot", "fetch",
               "probe", "ask", "requeue", "recheck", "commit", "end"},
         account : Accounts \cup {Nothing}, epoch : Nat, env : Envs \cup {Nothing}]

Edges == [prev : BOOLEAN, owner : Runners \cup {Nothing}, filled : BOOLEAN]

Sessions == [account : Accounts, epoch : Nat, up : BOOLEAN, former : Accounts \cup {Nothing}]

LEMMA TasksTypes ==
  TasksTypeOK <=> /\ session \in Sessions /\ url \in [Accounts -> Envs] /\ lock \in Locks
                  /\ job \in [Runners -> Jobs] /\ edge \in Edges /\ public \in BOOLEAN
                  /\ changes \in 0..MaxChanges /\ blips \in 0..MaxBlips
  BY DEF TasksTypeOK, Sessions, Locks, Jobs, Edges, Parties

\* The queue after an arrival, an admission and a departure.
LEMMA Arrival ==
  ASSUME NEW S, NEW q \in Seq(S), NEW x \in S, Once(q), ~Contains(q, x)
  PROVE  /\ Append(q, x) \in Seq(S) /\ Once(Append(q, x))
         /\ \A y : Contains(Append(q, x), y) <=> Contains(q, y) \/ y = x
  <1>1. /\ Append(q, x) \in Seq(S) /\ Len(Append(q, x)) = Len(q) + 1 /\ Len(q) \in Nat
        /\ \A i \in 1..Len(q) : Append(q, x)[i] = q[i]
        /\ Append(q, x)[Len(q) + 1] = x
    BY AppendProperties, LenProperties
  <1> QED BY <1>1 DEF Once, Contains

LEMMA Admission ==
  ASSUME NEW S, NEW q \in Seq(S), q # <<>>, Once(q)
  PROVE  /\ Head(q) \in S /\ Contains(q, Head(q))
         /\ Tail(q) \in Seq(S) /\ Once(Tail(q))
         /\ \A y : Contains(Tail(q), y) <=> Contains(q, y) /\ y # Head(q)
  <1>1. /\ Head(q) \in S /\ Head(q) = q[1] /\ Tail(q) \in Seq(S)
        /\ Len(q) \in Nat /\ Len(q) > 0 /\ Len(Tail(q)) = Len(q) - 1
        /\ \A i \in 1..Len(Tail(q)) : Tail(q)[i] = q[i + 1]
    BY HeadTailProperties, LenProperties, EmptySeq
  <1>2. Contains(q, Head(q)) /\ Once(Tail(q))
    BY <1>1 DEF Once, Contains
  <1>3. ASSUME NEW y, Contains(Tail(q), y) PROVE Contains(q, y) /\ y # Head(q)
    <2>1. PICK i \in 1..Len(Tail(q)) : q[i + 1] = y
      BY <1>1, <1>3 DEF Contains
    <2>2. i + 1 \in 1..Len(q) /\ i + 1 # 1
      BY <1>1, <2>1
    <2> QED BY <1>1, <2>1, <2>2 DEF Once, Contains
  <1>4. ASSUME NEW y, Contains(q, y), y # Head(q) PROVE Contains(Tail(q), y)
    <2>1. PICK i \in 1..Len(q) : q[i] = y
      BY <1>4 DEF Contains
    <2>2. i - 1 \in 1..Len(Tail(q)) /\ Tail(q)[i - 1] = q[i]
      BY <1>1, <1>4, <2>1
    <2> QED BY <2>1, <2>2 DEF Contains
  <1> QED BY <1>1, <1>2, <1>3, <1>4

LEMMA Departure ==
  ASSUME NEW S, NEW q \in Seq(S), NEW x, Once(q)
  PROVE  /\ RemoveFirst(q, x) \in Seq(S) /\ Once(RemoveFirst(q, x))
         /\ \A y : Contains(RemoveFirst(q, x), y) <=> Contains(q, y) /\ y # x
  <1>1. CASE ~Contains(q, x)
    <2>1. RemoveFirst(q, x) = q
      BY <1>1 DEF RemoveFirst, Contains
    <2> QED BY <1>1, <2>1 DEF Contains
  <1>2. CASE Contains(q, x)
    <2>1. PICK i \in 1..Len(q) : q[i] = x
      BY <1>2 DEF Contains
    <2>2. Len(q) \in Nat
      BY LenProperties
    <2>3. {j \in 1..Len(q) : q[j] = x} = {i}
      BY <2>1 DEF Once
    <2>4. SelectInSeq(q, LAMBDA v : v = x) = i
      BY <2>1, <2>2, <2>3 DEF SelectInSeq, Min
    <2>5. RemoveFirst(q, x) = SubSeq(q, 1, i - 1) \o SubSeq(q, i + 1, Len(q))
      BY <2>1, <2>4 DEF RemoveFirst, RemoveAt
    <2> DEFINE a == SubSeq(q, 1, i - 1)
               b == SubSeq(q, i + 1, Len(q))
    <2>6. /\ a \in Seq(S) /\ Len(a) = i - 1
          /\ \A j \in 1..(i - 1) : a[j] = q[j]
      BY <2>1, <2>2, SubSeqProperties
    <2>7. /\ b \in Seq(S) /\ Len(b) = Len(q) - i
          /\ \A j \in 1..(Len(q) - i) : b[j] = q[j + i]
      BY <2>1, <2>2, SubSeqProperties
    <2> HIDE DEF a, b
    <2>8. /\ a \o b \in Seq(S) /\ Len(a \o b) = Len(q) - 1
          /\ \A j \in 1..(Len(q) - 1) : (a \o b)[j] = IF j < i THEN q[j] ELSE q[j + 1]
      <3>1. /\ a \o b \in Seq(S) /\ Len(a \o b) = Len(a) + Len(b)
            /\ \A j \in 1..(Len(a) + Len(b)) : (a \o b)[j] = IF j <= Len(a) THEN a[j] ELSE b[j - Len(a)]
        BY <2>6, <2>7, ConcatProperties
      <3>2. ASSUME NEW j \in 1..(Len(q) - 1) PROVE (a \o b)[j] = IF j < i THEN q[j] ELSE q[j + 1]
        <4>1. CASE j < i
          BY <2>1, <2>2, <2>6, <2>7, <3>1, <4>1
        <4>2. CASE ~(j < i)
          <5>1. (a \o b)[j] = b[j - (i - 1)] /\ j - (i - 1) \in 1..(Len(q) - i)
            <6>1. /\ j \in 1..(Len(a) + Len(b)) /\ ~(j <= Len(a)) /\ Len(a) = i - 1
                  /\ j - (i - 1) \in 1..(Len(q) - i)
              BY <2>1, <2>2, <2>6, <2>7, <4>2
            <6> QED BY <3>1, <6>1
          <5>2. b[j - (i - 1)] = q[(j - (i - 1)) + i] /\ (j - (i - 1)) + i = j + 1
            BY <2>1, <2>2, <2>7, <5>1
          <5> QED BY <4>2, <5>1, <5>2
        <4> QED BY <4>1, <4>2
      <3> QED BY <2>1, <2>2, <2>6, <2>7, <3>1, <3>2
    <2> DEFINE d == a \o b
    <2>9. d \in Seq(S) /\ Len(d) = Len(q) - 1
          /\ \A j \in 1..(Len(q) - 1) : d[j] = IF j < i THEN q[j] ELSE q[j + 1]
      BY <2>8
    <2>10. RemoveFirst(q, x) = d
      BY <2>5 DEF a, b
    <2> HIDE DEF d
    <2>11. Once(d)
      <3> SUFFICES ASSUME NEW j \in 1..Len(d), NEW k \in 1..Len(d), d[j] = d[k] PROVE j = k
        BY DEF Once
      <3>1. PICK j1 \in 1..Len(q) : d[j] = q[j1] /\ j1 = IF j < i THEN j ELSE j + 1
        BY <2>1, <2>2, <2>9
      <3>2. PICK k1 \in 1..Len(q) : d[k] = q[k1] /\ k1 = IF k < i THEN k ELSE k + 1
        BY <2>1, <2>2, <2>9
      <3>3. j1 = k1
        BY <3>1, <3>2 DEF Once
      <3> QED BY <2>1, <2>2, <2>9, <3>1, <3>2, <3>3
    <2>12. ASSUME NEW y, Contains(d, y) PROVE Contains(q, y) /\ y # x
      <3>1. PICK j \in 1..Len(d) : d[j] = y
        BY <2>12 DEF Contains
      <3>2. PICK j1 \in 1..Len(q) : d[j] = q[j1] /\ j1 # i
        BY <2>1, <2>2, <2>9
      <3> QED BY <2>1, <3>1, <3>2 DEF Once, Contains
    <2>13. ASSUME NEW y, Contains(q, y), y # x PROVE Contains(d, y)
      <3>1. PICK j \in 1..Len(q) : q[j] = y /\ j # i
        BY <2>1, <2>13 DEF Contains
      <3>2. PICK k \in 1..Len(d) : d[k] = q[j]
        <4>1. CASE j < i
          BY <2>1, <2>2, <2>9, <3>1, <4>1
        <4>2. CASE j > i
          <5>1. j - 1 \in 1..Len(d) /\ (j - 1) + 1 = j /\ ~(j - 1 < i)
            BY <2>1, <2>2, <2>9, <3>1, <4>2
          <5> QED BY <2>1, <2>2, <2>9, <5>1
        <4> QED BY <2>1, <2>2, <3>1, <4>1, <4>2
      <3> QED BY <3>1, <3>2 DEF Contains
    <2> QED BY <2>9, <2>10, <2>11, <2>12, <2>13
  <1> QED BY <1>1, <1>2

-----------------------------------------------------------------------------
LEMMA NoJobFacts == NoJob \in Jobs /\ NoJob.pc = "idle"
  BY DEF NoJob, Jobs, Kinds

LEMMA TasksInitInv == TasksInit => TasksInv
  <1> SUFFICES ASSUME TasksInit PROVE TasksInv
    OBVIOUS
  <1>1. TasksTypeOK
    <2>1. (CHOOSE a \in Accounts : TRUE) \in Accounts /\ (CHOOSE e \in Envs : TRUE) \in Envs
      BY SessionAssumption
    <2>2. session \in Sessions /\ url \in [Accounts -> Envs]
      BY <2>1 DEF TasksInit, Sessions
    <2>3. lock \in Locks
      <3>1. <<>> \in Seq(Parties)
        BY EmptySeq
      <3> QED BY <3>1 DEF TasksInit, Locks
    <2>4. job \in [Runners -> Jobs] /\ edge \in Edges /\ public \in BOOLEAN
      BY NoJobFacts DEF TasksInit, Edges
    <2>5. changes \in 0..MaxChanges /\ blips \in 0..MaxBlips
      BY BoundAssumption DEF TasksInit
    <2> QED BY <2>2, <2>3, <2>4, <2>5, TasksTypes
  <1>2. Places
    BY DEF TasksInit, NoJob, Places, Once, Contains, Guarded, Queued
  <1>3. SnapshotCurrent /\ ProbeCurrent /\ EdgeNotLost
    BY NothingAssumption DEF TasksInit, NoJob, SnapshotCurrent, ProbeCurrent, EdgeNotLost
  <1> QED BY <1>1, <1>2, <1>3 DEF TasksInv

\* A step of runner r keeps the invariant when it leaves the others' places alone,
\* leaves r where its next step says, and captures nothing that is not in force.
LEMMA RunnerStep ==
  ASSUME TasksInv, NEW r \in Runners, NEW j \in Jobs,
         job' = [job EXCEPT ![r] = j], UNCHANGED World,
         lock' \in Locks, Once(lock'.queue),
         r \in lock'.holders <=> j.pc \in Guarded,
         Contains(lock'.queue, r) <=> j.pc \in Queued,
         j.pc = "queue" => j.kind # "probe",
         \A w \in Parties \ {r} : /\ w \in lock'.holders <=> w \in lock.holders
                                  /\ Contains(lock'.queue, w) <=> Contains(lock.queue, w),
         Writer \in lock.holders => r \notin lock'.holders,
         edge' \in Edges, edge'.prev => edge'.filled,
         j.pc = "backfill" <=> edge'.owner = r,
         \A w \in Runners \ {r} : edge'.owner = w <=> edge.owner = w,
         j.pc \in {"fetch", "commit"} => j.account = session.account /\ j.epoch = session.epoch,
         j.pc = "commit" => j.env = url[session.account]
  PROVE  TasksInv'
  <1>1. /\ session \in Sessions /\ url \in [Accounts -> Envs] /\ lock \in Locks
        /\ job \in [Runners -> Jobs] /\ edge \in Edges /\ public \in BOOLEAN
        /\ changes \in 0..MaxChanges /\ blips \in 0..MaxBlips
    BY TasksTypes DEF TasksInv
  <1>2. /\ job' \in [Runners -> Jobs] /\ job'[r] = j
        /\ \A w \in Runners \ {r} : job'[w] = job[w]
    BY <1>1
  <1>3. /\ session' = session /\ url' = url /\ public' = public
        /\ changes' = changes /\ blips' = blips
    BY DEF World
  <1>4. TasksTypeOK'
    BY <1>1, <1>2, <1>3 DEF TasksTypeOK, Sessions, Locks, Jobs, Edges, Parties
  <1>5. Places'
    <2>1. \A w \in Runners : w \in lock'.holders <=> job'[w].pc \in Guarded
      BY <1>2 DEF TasksInv, Places, Parties
    <2>2. \A w \in Runners : Contains(lock'.queue, w) <=> job'[w].pc \in Queued
      BY <1>2 DEF TasksInv, Places, Parties
    <2>3. ASSUME Writer \in lock'.holders PROVE lock'.holders = {Writer} /\ ~Contains(lock'.queue, Writer)
      <3>1. Writer # r /\ Writer \in Parties \ {r}
        BY WriterAssumption DEF Parties
      <3>2. Writer \in lock.holders /\ lock.holders = {Writer} /\ ~Contains(lock.queue, Writer)
        BY <2>3, <3>1 DEF TasksInv, Places
      <3>3. lock'.holders \subseteq Parties /\ r \notin lock'.holders
        BY <3>2 DEF Locks
      <3> QED BY <2>3, <3>1, <3>2, <3>3
    <2>4. \A w \in Runners : job'[w].pc = "queue" => job'[w].kind # "probe"
      BY <1>2 DEF TasksInv, Places
    <2> QED BY <2>1, <2>2, <2>3, <2>4 DEF Places
  <1>6. SnapshotCurrent'
    BY <1>2, <1>3 DEF TasksInv, SnapshotCurrent, InForce
  <1>7. ProbeCurrent'
    BY <1>2, <1>3 DEF TasksInv, ProbeCurrent, InForce
  <1>8. EdgeNotLost'
    BY <1>2 DEF TasksInv, EdgeNotLost
  <1> QED BY <1>4, <1>5, <1>6, <1>7, <1>8 DEF TasksInv

\* The same for a step that leaves the lock and the edge alone.
LEMMA QuietStep ==
  ASSUME TasksInv, NEW r \in Runners, NEW j \in Jobs,
         job' = [job EXCEPT ![r] = j], UNCHANGED <<lock, edge>>, UNCHANGED World,
         j.pc \in Guarded <=> job[r].pc \in Guarded,
         j.pc \in Queued <=> job[r].pc \in Queued, j.pc # "queue",
         j.pc # "backfill", job[r].pc # "backfill",
         j.pc \in {"fetch", "commit"} => j.account = session.account /\ j.epoch = session.epoch,
         j.pc = "commit" => j.env = url[session.account]
  PROVE  TasksInv'
  <1>1. lock \in Locks /\ edge \in Edges /\ lock' = lock /\ edge' = edge
    BY TasksTypes DEF TasksInv
  <1>2. Once(lock.queue) /\ (edge.prev => edge.filled) /\ edge.owner # r
    BY DEF TasksInv, Places, EdgeNotLost
  <1>3. (r \in lock.holders <=> j.pc \in Guarded) /\ (Contains(lock.queue, r) <=> j.pc \in Queued)
    BY DEF TasksInv, Places
  <1>4. Writer \in lock.holders => r \notin lock.holders
    BY WriterAssumption DEF TasksInv, Places
  <1> QED BY <1>1, <1>2, <1>3, <1>4, RunnerStep

\* What To does to a runner's job.
LEMMA ToFacts ==
  ASSUME job \in [Runners -> Jobs], NEW r \in Runners,
         NEW pc \in {"probe", "sync", "edge", "backfill", "quotes", "snapshot", "fetch", "recheck", "commit", "end"},
         To(r, pc)
  PROVE  \E j \in Jobs : /\ job' = [job EXCEPT ![r] = j] /\ j.pc = pc
                         /\ j.account = job[r].account /\ j.epoch = job[r].epoch /\ j.env = job[r].env
  <1> DEFINE j == [job[r] EXCEPT !.pc = pc]
  <1>1. job[r] \in Jobs
    OBVIOUS
  <1>2. j \in Jobs /\ j.pc = pc
        /\ j.account = job[r].account /\ j.epoch = job[r].epoch /\ j.env = job[r].env
    BY <1>1 DEF Jobs
  <1>3. job' = [job EXCEPT ![r] = j]
    BY DEF To
  <1> QED BY <1>2, <1>3

-----------------------------------------------------------------------------
\* Steps that touch neither the lock nor the edge.
LEMMA QuietActions ==
  ASSUME TasksInv, NEW r \in Runners,
         SyncEnds(r) \/ QuotesEnd(r) \/ SkipSnapshot(r) \/ SnapshotEnds(r)
  PROVE  TasksInv'
  <1>1. job \in [Runners -> Jobs]
    BY TasksTypes DEF TasksInv
  <1>2. \E pc \in {"edge", "end", "snapshot"} :
          /\ To(r, pc) /\ job[r].pc \in {"sync", "quotes", "snapshot", "fetch"}
          /\ UNCHANGED <<lock, edge>> /\ UNCHANGED World
    BY DEF SyncEnds, QuotesEnd, SkipSnapshot, SnapshotEnds
  <1>3. PICK pc \in {"edge", "end", "snapshot"} :
          /\ To(r, pc) /\ job[r].pc \in {"sync", "quotes", "snapshot", "fetch"}
          /\ UNCHANGED <<lock, edge>> /\ UNCHANGED World
    BY <1>2
  <1>4. PICK j \in Jobs : job' = [job EXCEPT ![r] = j] /\ j.pc = pc
    BY <1>1, <1>3, ToFacts
  <1> QED BY <1>3, <1>4, QuietStep DEF Guarded, Queued

LEMMA CaptureSnapshotInv ==
  ASSUME TasksInv, NEW r \in Runners, CaptureSnapshot(r)
  PROVE  TasksInv'
  <1> DEFINE j == [job[r] EXCEPT !.pc = "fetch", !.account = session.account, !.epoch = session.epoch]
  <1>1. job \in [Runners -> Jobs] /\ job[r] \in Jobs /\ session \in Sessions
    BY TasksTypes DEF TasksInv
  <1>2. j \in Jobs /\ j.pc = "fetch" /\ j.account = session.account /\ j.epoch = session.epoch
    BY <1>1 DEF Jobs, Sessions
  <1>3. job' = [job EXCEPT ![r] = j]
    BY <1>1 DEF CaptureSnapshot
  <1> HIDE DEF j
  <1>4. job[r].pc = "snapshot" /\ UNCHANGED <<lock, edge>> /\ UNCHANGED World
    BY DEF CaptureSnapshot
  <1> QED BY <1>2, <1>3, <1>4, QuietStep DEF Guarded, Queued

LEMMA ProbeReadsAccountInv ==
  ASSUME TasksInv, NEW r \in Runners, ProbeReadsAccount(r)
  PROVE  TasksInv'
  <1> DEFINE j == [job[r] EXCEPT !.pc = "ask", !.account = session.account, !.env = url[session.account]]
  <1>1. job \in [Runners -> Jobs] /\ job[r] \in Jobs /\ session \in Sessions /\ url \in [Accounts -> Envs]
    BY TasksTypes DEF TasksInv
  <1>2. j \in Jobs /\ j.pc = "ask"
    BY <1>1 DEF Jobs, Sessions
  <1>3. job' = [job EXCEPT ![r] = j]
    BY <1>1 DEF ProbeReadsAccount
  <1> HIDE DEF j
  <1>4. job[r].pc = "probe" /\ UNCHANGED <<lock, edge>> /\ UNCHANGED World
    BY DEF ProbeReadsAccount
  <1> QED BY <1>2, <1>3, <1>4, QuietStep DEF Guarded, Queued

-----------------------------------------------------------------------------
\* A runner joins the queue.
LEMMA JoinsQueue ==
  ASSUME TasksInv, NEW r \in Runners, NEW j \in Jobs,
         job[r].pc \in {"idle", "ask"}, j.pc \in Queued, j.pc = "queue" => j.kind # "probe",
         job' = [job EXCEPT ![r] = j], Enqueue(r), UNCHANGED edge, UNCHANGED World
  PROVE  TasksInv'
  <1>1. lock \in Locks /\ edge \in Edges /\ lock.queue \in Seq(Parties) /\ r \in Parties
    BY TasksTypes DEF TasksInv, Locks, Parties
  <1>2. Once(lock.queue) /\ ~Contains(lock.queue, r) /\ r \notin lock.holders
    BY DEF TasksInv, Places, Guarded, Queued
  <1>3. /\ Append(lock.queue, r) \in Seq(Parties) /\ Once(Append(lock.queue, r))
        /\ \A y : Contains(Append(lock.queue, r), y) <=> Contains(lock.queue, y) \/ y = r
    BY <1>1, <1>2, Arrival
  <1>4. lock' \in Locks /\ lock'.holders = lock.holders /\ lock'.queue = Append(lock.queue, r)
    BY <1>1, <1>3 DEF Enqueue, Locks
  <1>5. (edge.prev => edge.filled) /\ edge.owner # r /\ edge' = edge
    BY DEF TasksInv, EdgeNotLost
  <1>6. j.pc \notin Guarded /\ j.pc \notin {"backfill", "fetch", "commit"}
    BY DEF Guarded, Queued
  <1> QED BY <1>1, <1>2, <1>3, <1>4, <1>5, <1>6, RunnerStep

\* A runner that waits is admitted.
LEMMA Enters ==
  ASSUME TasksInv, NEW r \in Runners, NEW j \in Jobs,
         job[r].pc \in Queued, j.pc \in Guarded \ {"backfill", "fetch", "commit"},
         Admissible(r), Admit(r), job' = [job EXCEPT ![r] = j], UNCHANGED edge, UNCHANGED World
  PROVE  TasksInv'
  <1>1. lock \in Locks /\ edge \in Edges /\ lock.queue \in Seq(Parties) /\ r \in Parties
    BY TasksTypes DEF TasksInv, Locks, Parties
  <1>2. Once(lock.queue) /\ lock.queue # <<>> /\ Head(lock.queue) = r /\ Writer \notin lock.holders
    BY WriterAssumption DEF TasksInv, Places, Admissible
  <1>3. /\ Tail(lock.queue) \in Seq(Parties) /\ Once(Tail(lock.queue))
        /\ \A y : Contains(Tail(lock.queue), y) <=> Contains(lock.queue, y) /\ y # r
    BY <1>1, <1>2, Admission
  <1>4. lock' \in Locks /\ lock'.holders = lock.holders \cup {r} /\ lock'.queue = Tail(lock.queue)
    BY <1>1, <1>3 DEF Admit, Locks
  <1>5. (edge.prev => edge.filled) /\ edge.owner # r /\ edge' = edge
    BY DEF TasksInv, EdgeNotLost, Queued
  <1>6. j.pc \in Guarded /\ j.pc \notin Queued /\ j.pc # "queue" /\ j.pc # "backfill" /\ j.pc # "fetch" /\ j.pc # "commit"
    BY DEF Guarded, Queued
  <1>7. \A w \in Parties \ {r} : /\ w \in lock'.holders <=> w \in lock.holders
                                 /\ Contains(lock'.queue, w) <=> Contains(lock.queue, w)
    BY <1>3, <1>4
  <1>8. r \in lock'.holders /\ ~Contains(lock'.queue, r) /\ Once(lock'.queue)
    BY <1>3, <1>4
  <1> QED BY <1>1, <1>2, <1>4, <1>5, <1>6, <1>7, <1>8, RunnerStep

\* A runner that holds the lock gives it up.
LEMMA Leaves ==
  ASSUME TasksInv, NEW r \in Runners, NEW j \in Jobs,
         job[r].pc \in {"end", "recheck", "commit"}, j.pc \in {"idle", "probe"},
         Release(r), job' = [job EXCEPT ![r] = j], UNCHANGED edge, UNCHANGED World
  PROVE  TasksInv'
  <1>1. lock \in Locks /\ edge \in Edges
    BY TasksTypes DEF TasksInv
  <1>2. Once(lock.queue) /\ ~Contains(lock.queue, r)
    BY DEF TasksInv, Places, Queued
  <1>3. lock' \in Locks /\ lock'.holders = lock.holders \ {r} /\ lock'.queue = lock.queue
    BY <1>1 DEF Release, Locks
  <1>4. (edge.prev => edge.filled) /\ edge.owner # r /\ edge' = edge
    BY DEF TasksInv, EdgeNotLost
  <1>5. j.pc \notin Guarded /\ j.pc \notin Queued /\ j.pc \notin {"backfill", "fetch", "commit"}
    BY DEF Guarded, Queued
  <1> QED BY <1>1, <1>2, <1>3, <1>4, <1>5, RunnerStep

LEMMA QueueActions ==
  ASSUME TasksInv, NEW r \in Runners,
         \/ \E kind \in Kinds : Begin(r, kind)
         \/ EnterGuard(r) \/ LeaveGuard(r) \/ ProbeReadsEpoch(r) \/ ProbeEnters(r)
         \/ ProbeRechecks(r) \/ ProbeCommits(r)
  PROVE  TasksInv'
  <1>1. job \in [Runners -> Jobs] /\ job[r] \in Jobs /\ session \in Sessions
    BY TasksTypes DEF TasksInv
  <1>2. ASSUME NEW kind \in Kinds, Begin(r, kind) PROVE TasksInv'
    <2> DEFINE j == [NoJob EXCEPT !.kind = kind, !.mode = IF kind = "bootstrap" THEN "bootstrap" ELSE "periodic",
                                  !.pc = IF NeedsGuard(kind) THEN "queue" ELSE First(kind)]
    <2>1. First("probe") = "probe"
      BY DEF First
    <2>2. j \in Jobs /\ j.kind = kind /\ j.pc = (IF kind # "probe" THEN "queue" ELSE "probe")
      BY <2>1, NoJobFacts DEF Jobs, NeedsGuard
    <2>3. /\ job' = [job EXCEPT ![r] = j] /\ job[r].pc = "idle" /\ UNCHANGED edge /\ UNCHANGED World
          /\ IF kind # "probe" THEN Enqueue(r) ELSE UNCHANGED lock
      BY <1>2 DEF Begin, NeedsGuard
    <2> HIDE DEF j
    <2>4. CASE kind # "probe"
      BY <2>2, <2>3, <2>4, JoinsQueue DEF Queued
    <2>5. CASE kind = "probe"
      BY <2>2, <2>3, <2>5, QuietStep DEF Queued, Guarded
    <2> QED BY <2>4, <2>5
  <1>3. CASE EnterGuard(r)
    <2>1. job[r].kind # "probe" /\ job[r].pc = "queue"
      BY <1>3 DEF EnterGuard, TasksInv, Places
    <2>2. First(job[r].kind) \in {"sync", "edge", "snapshot"}
      BY <2>1 DEF First
    <2>3. PICK j \in Jobs : job' = [job EXCEPT ![r] = j] /\ j.pc = First(job[r].kind)
      BY <1>1, <1>3, <2>2, ToFacts DEF EnterGuard
    <2> QED BY <1>3, <2>1, <2>2, <2>3, Enters DEF EnterGuard, Guarded, Queued
  <1>4. CASE ProbeEnters(r)
    <2>1. PICK j \in Jobs : job' = [job EXCEPT ![r] = j] /\ j.pc = "recheck"
      BY <1>1, <1>4, ToFacts DEF ProbeEnters
    <2> QED BY <1>4, <2>1, Enters DEF ProbeEnters, Guarded, Queued
  <1>5. CASE LeaveGuard(r)
    <2>1. CASE job[r].kind = "bootstrap"
      <3>1. PICK j \in Jobs : job' = [job EXCEPT ![r] = j] /\ j.pc = "probe"
        BY <1>1, <1>5, <2>1, ToFacts DEF LeaveGuard
      <3> QED BY <1>5, <3>1, Leaves DEF LeaveGuard
    <2>2. CASE job[r].kind # "bootstrap"
      BY <1>5, <2>2, NoJobFacts, Leaves DEF LeaveGuard, End
    <2> QED BY <2>1, <2>2
  <1>6. CASE ProbeReadsEpoch(r)
    <2> DEFINE j == [job[r] EXCEPT !.pc = "requeue", !.epoch = session.epoch]
    <2>1. j \in Jobs /\ j.pc = "requeue"
      BY <1>1 DEF Jobs, Sessions
    <2>2. job' = [job EXCEPT ![r] = j]
      BY <1>1, <1>6 DEF ProbeReadsEpoch
    <2> HIDE DEF j
    <2> QED BY <1>6, <2>1, <2>2, JoinsQueue DEF ProbeReadsEpoch, Queued
  <1>7. CASE ProbeRechecks(r)
    <2>1. CASE Unchanged(r)
      <3>1. PICK j \in Jobs : /\ job' = [job EXCEPT ![r] = j] /\ j.pc = "commit"
                             /\ j.account = job[r].account /\ j.epoch = job[r].epoch /\ j.env = job[r].env
        BY <1>1, <1>7, <2>1, ToFacts DEF ProbeRechecks
      <3>2. /\ j.account = session.account /\ j.epoch = session.epoch /\ j.env = url[session.account]
            /\ job[r].pc = "recheck" /\ UNCHANGED <<lock, edge>> /\ UNCHANGED World
        BY <1>7, <2>1, <3>1 DEF ProbeRechecks, Unchanged, InForce
      <3> QED BY <3>1, <3>2, QuietStep DEF Guarded, Queued
    <2>2. CASE ~Unchanged(r)
      BY <1>7, <2>2, NoJobFacts, Leaves DEF ProbeRechecks, End
    <2> QED BY <2>1, <2>2
  <1>8. CASE ProbeCommits(r)
    BY <1>8, NoJobFacts, Leaves DEF ProbeCommits, End
  <1> QED BY <1>2, <1>3, <1>4, <1>5, <1>6, <1>7, <1>8

-----------------------------------------------------------------------------
\* The backfill's edge.
LEMMA MeetEdgeInv ==
  ASSUME TasksInv, NEW r \in Runners, MeetEdge(r)
  PROVE  TasksInv'
  <1>1. /\ job \in [Runners -> Jobs] /\ lock \in Locks /\ edge \in Edges /\ public \in BOOLEAN
        /\ lock' = lock /\ UNCHANGED World
    BY TasksTypes DEF TasksInv, MeetEdge
  <1>2. /\ Once(lock.queue) /\ r \in lock.holders /\ ~Contains(lock.queue, r) /\ Writer \notin lock.holders
        /\ edge.owner = Nothing /\ (edge.prev => edge.filled)
    BY WriterAssumption DEF TasksInv, Places, MeetEdge, EdgeNotLost, Guarded, Queued
  <1>3. CASE public /\ ~edge.prev
    <2>1. PICK j \in Jobs : job' = [job EXCEPT ![r] = j] /\ j.pc = "backfill"
      BY <1>1, <1>3, ToFacts DEF MeetEdge
    <2>2. edge' \in Edges /\ edge'.owner = r /\ ~edge'.prev
      BY <1>1, <1>3 DEF MeetEdge, Edges
    <2> QED BY <1>1, <1>2, <2>1, <2>2, NothingAssumption, RunnerStep DEF Guarded, Queued
  <1>4. CASE ~(public /\ ~edge.prev)
    <2>1. PICK j \in Jobs : job' = [job EXCEPT ![r] = j] /\ j.pc = "quotes"
      BY <1>1, <1>4, ToFacts DEF MeetEdge
    <2>2. edge' \in Edges /\ edge'.owner = Nothing /\ (edge'.prev => edge'.filled)
      BY <1>1, <1>2, <1>4 DEF MeetEdge, Edges
    <2> QED BY <1>1, <1>2, <2>1, <2>2, NothingAssumption, RunnerStep DEF Guarded, Queued
  <1> QED BY <1>3, <1>4

LEMMA BackfillEndsInv ==
  ASSUME TasksInv, NEW r \in Runners, BackfillEnds(r)
  PROVE  TasksInv'
  <1>1. /\ job \in [Runners -> Jobs] /\ lock \in Locks /\ edge \in Edges
        /\ lock' = lock /\ UNCHANGED World
    BY TasksTypes DEF TasksInv, BackfillEnds
  <1>2. /\ Once(lock.queue) /\ r \in lock.holders /\ ~Contains(lock.queue, r) /\ Writer \notin lock.holders
        /\ edge.owner = r
    BY WriterAssumption DEF TasksInv, Places, BackfillEnds, EdgeNotLost, Guarded, Queued
  <1>3. PICK j \in Jobs : job' = [job EXCEPT ![r] = j] /\ j.pc = "quotes"
    BY <1>1, ToFacts DEF BackfillEnds
  <1>4. edge' \in Edges /\ edge'.owner = Nothing /\ edge'.filled
    BY DEF BackfillEnds, Edges
  <1> QED BY <1>1, <1>2, <1>3, <1>4, NothingAssumption, RunnerStep DEF Guarded, Queued

LEMMA DropInv ==
  ASSUME TasksInv, NEW r \in Runners, Drop(r)
  PROVE  TasksInv'
  <1>1. lock \in Locks /\ edge \in Edges /\ lock.queue \in Seq(Parties) /\ Once(lock.queue)
    BY TasksTypes DEF TasksInv, Locks, Places
  <1>2. /\ RemoveFirst(lock.queue, r) \in Seq(Parties) /\ Once(RemoveFirst(lock.queue, r))
        /\ \A y : Contains(RemoveFirst(lock.queue, r), y) <=> Contains(lock.queue, y) /\ y # r
    BY <1>1, Departure
  <1>3. /\ lock' \in Locks /\ lock'.holders = lock.holders \ {r} /\ lock'.queue = RemoveFirst(lock.queue, r)
    BY <1>1, <1>2 DEF Drop, Locks
  <1>4. /\ edge' \in Edges /\ edge'.owner # r /\ (edge'.prev => edge'.filled)
        /\ \A w \in Runners \ {r} : edge'.owner = w <=> edge.owner = w
    BY <1>1, NothingAssumption DEF Drop, Edges, TasksInv, EdgeNotLost
  <1>5. job' = [job EXCEPT ![r] = NoJob] /\ UNCHANGED World
    BY DEF Drop, End
  <1>6. /\ r \notin lock'.holders /\ ~Contains(lock'.queue, r) /\ Once(lock'.queue)
        /\ \A w \in Parties \ {r} : /\ w \in lock'.holders <=> w \in lock.holders
                                    /\ Contains(lock'.queue, w) <=> Contains(lock.queue, w)
    BY <1>2, <1>3
  <1> QED BY <1>3, <1>4, <1>5, <1>6, NoJobFacts, RunnerStep DEF Guarded, Queued

-----------------------------------------------------------------------------
\* Account commands: the session changes only while no runner holds the lock.
LEMMA WriterStep ==
  ASSUME TasksInv, UNCHANGED <<job, edge>>, public' \in BOOLEAN,
         session' \in Sessions, url' \in [Accounts -> Envs],
         changes' \in 0..MaxChanges, blips' \in 0..MaxBlips,
         UNCHANGED <<session, url>> \/ Writer \in lock.holders,
         lock' \in Locks, Once(lock'.queue),
         lock'.holders \ {Writer} = lock.holders \ {Writer},
         \A r \in Runners : Contains(lock'.queue, r) <=> Contains(lock.queue, r),
         Writer \in lock'.holders => lock'.holders = {Writer} /\ ~Contains(lock'.queue, Writer)
  PROVE  TasksInv'
  <1>1. job \in [Runners -> Jobs] /\ edge \in Edges /\ job' = job /\ edge' = edge
    BY TasksTypes DEF TasksInv
  <1>2. TasksTypeOK'
    BY <1>1 DEF TasksTypeOK, Sessions, Locks, Jobs, Edges, Parties
  <1>3. Places'
    <2>1. \A r \in Runners : r \in lock'.holders <=> r \in lock.holders
      BY WriterAssumption
    <2> QED BY <1>1, <2>1 DEF TasksInv, Places
  <1>4. SnapshotCurrent' /\ ProbeCurrent'
    <2>1. CASE UNCHANGED <<session, url>>
      BY <1>1, <2>1 DEF TasksInv, SnapshotCurrent, ProbeCurrent, InForce
    <2>2. CASE Writer \in lock.holders
      <3>1. \A r \in Runners : job[r].pc \notin Guarded
        BY <2>2, WriterAssumption DEF TasksInv, Places
      <3> QED BY <1>1, <3>1 DEF SnapshotCurrent, ProbeCurrent, Guarded
    <2> QED BY <2>1, <2>2
  <1>5. EdgeNotLost'
    BY <1>1 DEF TasksInv, EdgeNotLost
  <1> QED BY <1>2, <1>3, <1>4, <1>5 DEF TasksInv

LEMMA WriterActions ==
  ASSUME TasksInv, MutationQueues \/ Mutation \/ Blip
  PROVE  TasksInv'
  <1>1. /\ session \in Sessions /\ url \in [Accounts -> Envs] /\ lock \in Locks /\ public \in BOOLEAN
        /\ changes \in 0..MaxChanges /\ blips \in 0..MaxBlips
        /\ lock.queue \in Seq(Parties) /\ lock.holders \in SUBSET Parties /\ Writer \in Parties
    BY TasksTypes DEF TasksInv, Locks, Parties
  <1>2. /\ Once(lock.queue)
        /\ Writer \in lock.holders => lock.holders = {Writer} /\ ~Contains(lock.queue, Writer)
    BY DEF TasksInv, Places
  <1>3. CASE MutationQueues
    <2>1. ~Contains(lock.queue, Writer) /\ Writer \notin lock.holders /\ Settled /\ UNCHANGED <<session, url>>
      BY <1>3 DEF MutationQueues
    <2>2. /\ Append(lock.queue, Writer) \in Seq(Parties) /\ Once(Append(lock.queue, Writer))
          /\ \A y : Contains(Append(lock.queue, Writer), y) <=> Contains(lock.queue, y) \/ y = Writer
      BY <1>1, <1>2, <2>1, Arrival
    <2>3. lock' \in Locks /\ lock'.holders = lock.holders /\ lock'.queue = Append(lock.queue, Writer)
      BY <1>1, <1>3, <2>2 DEF MutationQueues, Enqueue, Locks
    <2>4. changes' \in 0..MaxChanges
      BY <1>1, <1>3, BoundAssumption DEF MutationQueues
    <2> QED BY <1>1, <2>1, <2>2, <2>3, <2>4, WriterAssumption, WriterStep DEF Settled
  <1>4. CASE MutationEnters
    <2>1. /\ lock.queue # <<>> /\ Head(lock.queue) = Writer /\ lock.holders = {}
          /\ Settled /\ UNCHANGED <<session, url, changes>>
      BY <1>4 DEF MutationEnters, Admissible
    <2>2. /\ Tail(lock.queue) \in Seq(Parties) /\ Once(Tail(lock.queue))
          /\ \A y : Contains(Tail(lock.queue), y) <=> Contains(lock.queue, y) /\ y # Writer
      BY <1>1, <1>2, <2>1, Admission
    <2>3. lock' \in Locks /\ lock'.holders = {Writer} /\ lock'.queue = Tail(lock.queue)
      BY <1>1, <1>4, <2>1, <2>2 DEF MutationEnters, Admit, Locks
    <2> QED BY <1>1, <2>1, <2>2, <2>3, WriterAssumption, WriterStep DEF Settled
  <1>5. CASE SwitchReplaces
    <2>1. PICK a \in Accounts : session' = [session EXCEPT !.account = a, !.former = session.account]
      BY <1>5 DEF SwitchReplaces
    <2>2. session' \in Sessions
      BY <1>1, <2>1 DEF Sessions
    <2> QED BY <1>1, <1>2, <1>5, <2>2, WriterStep DEF SwitchReplaces, Settled
  <1>6. ASSUME Writer \in lock.holders, Release(Writer), Settled, UNCHANGED changes,
               session' \in Sessions, url' \in [Accounts -> Envs]
        PROVE  TasksInv'
    <2>1. lock' \in Locks /\ lock'.holders = lock.holders \ {Writer} /\ lock'.queue = lock.queue
      BY <1>1, <1>6 DEF Release, Locks
    <2> QED BY <1>1, <1>2, <1>6, <2>1, WriterStep DEF Settled
  <1>7. CASE SwitchEnds
    <2>1. PICK committed \in BOOLEAN :
            session' = IF committed THEN [session EXCEPT !.epoch = @ + 1, !.former = Nothing]
                       ELSE [session EXCEPT !.account = session.former, !.former = Nothing]
      BY <1>7 DEF SwitchEnds
    <2>2. session' \in Sessions
      <3>1. session.former \in Accounts
        BY <1>1, <1>7 DEF Sessions, SwitchEnds
      <3>2. CASE committed
        <4>1. session' = [session EXCEPT !.epoch = session.epoch + 1, !.former = Nothing]
          BY <2>1, <3>2
        <4>2. session.epoch + 1 \in Nat
          BY <1>1 DEF Sessions
        <4> QED BY <1>1, <4>1, <4>2 DEF Sessions
      <3>3. CASE ~committed
        BY <1>1, <2>1, <3>1, <3>3 DEF Sessions
      <3> QED BY <3>2, <3>3
    <2> QED BY <1>1, <1>6, <1>7, <2>2 DEF SwitchEnds
  <1>8. CASE CredentialSaved
    <2>1. session' \in Sessions /\ url' \in [Accounts -> Envs]
      <3>1. CASE \E a \in Accounts, e \in Envs : url' = [url EXCEPT ![a] = e] /\ UNCHANGED session
        BY <1>1, <3>1
      <3>2. CASE \E up \in BOOLEAN : session' = [session EXCEPT !.up = up] /\ UNCHANGED url
        BY <1>1, <3>2 DEF Sessions
      <3> QED BY <1>8, <3>1, <3>2 DEF CredentialSaved
    <2> QED BY <1>6, <1>8, <2>1 DEF CredentialSaved
  <1>9. CASE Blip
    <2>1. blips' \in 0..MaxBlips /\ public' \in BOOLEAN
      BY <1>1, <1>9, BoundAssumption DEF Blip
    <2> QED BY <1>1, <1>2, <1>9, <2>1, WriterStep DEF Blip
  <1> QED BY <1>3, <1>4, <1>5, <1>7, <1>8, <1>9 DEF Mutation

LEMMA TasksNextInv == TasksInv /\ [TasksNext]_tasksVars => TasksInv'
  <1> SUFFICES ASSUME TasksInv, [TasksNext]_tasksVars PROVE TasksInv'
    OBVIOUS
  <1>1. CASE UNCHANGED tasksVars
    <2>1. UNCHANGED <<session, url, lock, job, edge, public, changes, blips>>
      BY <1>1 DEF tasksVars
    <2> QED BY <2>1 DEF TasksInv, TasksTypeOK, Places, SnapshotCurrent, ProbeCurrent, EdgeNotLost, InForce
  <1>2. ASSUME NEW r \in Runners, Step(r) PROVE TasksInv'
    BY <1>2, QuietActions, CaptureSnapshotInv, ProbeReadsAccountInv, QueueActions, MeetEdgeInv,
       BackfillEndsInv DEF Step
  <1>3. ASSUME NEW r \in Runners, Drop(r) PROVE TasksInv'
    BY <1>3, DropInv
  <1>4. ASSUME NEW r \in Runners, NEW kind \in Kinds, Begin(r, kind) PROVE TasksInv'
    BY <1>4, QueueActions
  <1>5. CASE MutationQueues \/ Mutation \/ Blip
    BY <1>5, WriterActions
  <1> QED BY <1>1, <1>2, <1>3, <1>4, <1>5 DEF TasksNext

\* In every behaviour: a snapshot is emitted for the session in force, a probe is
\* published for the base URL in force, an edge is consumed by a finished backfill
\* only, and nobody waits for the account lock while holding it (execute_inner,
\* probe_environment, run_market_reconnect_backfill).
THEOREM TasksAreSafe == TasksSpec => []TasksSafe
  <1>1. TasksInv => TasksSafe
    <2>1. TasksInv => NoNestedGuard
      <3> SUFFICES ASSUME TasksInv, NEW who \in lock.holders PROVE ~Contains(lock.queue, who)
        BY DEF NoNestedGuard
      <3>1. who \in Parties
        BY TasksTypes DEF TasksInv, Locks
      <3>2. CASE who = Writer
        BY <3>2 DEF TasksInv, Places
      <3>3. CASE who \in Runners
        BY <3>3 DEF TasksInv, Places, Guarded, Queued
      <3> QED BY <3>1, <3>2, <3>3 DEF Parties
    <2> QED BY <2>1 DEF TasksInv, TasksSafe
  <1> QED BY <1>1, TasksInitInv, TasksNextInv, PTL DEF TasksSpec

-----------------------------------------------------------------------------
(***************************************************************************)
(* SchedulerLifecycle                                                      *)
(***************************************************************************)
\* Generations are counted up; only a stopped scheduler has none, and those to come
\* are untouched.
Counting ==
  /\ life.gen <= life.next
  /\ life.phase = "stopped" <=> life.gen = 0
  /\ \A g \in Gens : g > life.next => gen[g].clean = "none"

\* A cleanup that has begun is that of the current generation, which is stopping
\* until it is over; it alone cancels, and it carries the ticket of a recovery only
\* until it is launched.
Cleaning ==
  /\ \A g \in Gens : gen[g].clean \in {"begun", "stored", "working"} => g = life.gen /\ life.phase = "stopping"
  /\ \A g \in Gens : g = life.gen /\ life.phase \in {"starting", "running"} => gen[g].clean = "none"
  /\ \A g \in Gens : gen[g].cancelled => gen[g].clean \in {"working", "stored", "complete"}
  /\ \A g \in Gens : gen[g].ticket # NoTicket => gen[g].clean = "begun"

\* While a generation starts or runs, the loops it has registered live.
LoopsLive ==
  \A g \in Gens : g = life.gen /\ life.phase \in {"starting", "running"} =>
    \A t \in Tasks : life.loops[t] # "none" \/ gen[g].drive = "register" => gen[g].loop[t] = "alive"

\* A reserved recovery is for the run that is desired; nothing is reserved once the
\* scheduler is shut down or out of numbers; a start that waits has a token.
Wishes ==
  /\ life.pending # NoTicket => life.pending.token = life.desired
  /\ life.terminal \/ life.exhausted => life.pending = NoTicket
  /\ \A c \in Requesters : calls[c].pc = "await" => calls[c].token # 0 /\ calls[c].gen \in 1..life.next

LifeInv ==
  /\ LifeTypeOK /\ OneGeneration /\ RunningComplete /\ StopSticks /\ RecoveryNotLost
  /\ Counting /\ Cleaning /\ LoopsLive /\ Wishes

Drives == {"none", "prepare", "register", "install", "await", "finish", "commit", "result", "unwind", "done"}
SupStates == {"none", "boot", "ready", "approved", "ended"}
Cleans == {"none", "begun", "stored", "working", "complete"}
LoopStates == {"none", "booting", "ready", "approved"}

Lives == [phase : Phases, gen : 0..MaxGen, next : 0..MaxGen, exhausted : BOOLEAN,
          desired : 0..MaxTokens, attempt : Nat, pending : Tickets \cup {NoTicket},
          worker : Tickets \cup {NoTicket}, terminal : BOOLEAN, loops : [Tasks -> LoopStates]]

GenRecs == [cancelled : BOOLEAN, starter : BOOLEAN, drive : Drives,
            loop : [Tasks -> {"none", "alive", "ended"}], sup : [Tasks -> SupStates],
            said : [Tasks -> {"none", "yes", "no"}], committed : SUBSET Tasks,
            outcome : {"none", "yes", "no"}, installed : BOOLEAN, busy : BOOLEAN,
            clean : Cleans, ticket : Tickets \cup {NoTicket}]

WorkerRecs == [at : {"wait", "backoff", "drive"}, gen : 0..MaxGen]

CallRecs == [pc : {"idle", "await", "drive", "stop"}, token : 0..MaxTokens, gen : 0..MaxGen,
             worker : Tickets \cup {NoTicket}]

WorkersOK == \A w \in DOMAIN workers : w \in Tickets /\ workers[w] \in WorkerRecs

LEMMA LifeTypes ==
  LifeTypeOK <=> /\ life \in Lives /\ gen \in [Gens -> GenRecs] /\ WorkersOK
                 /\ calls \in [Requesters -> CallRecs] /\ tokens \in 0..MaxTokens /\ faults \in 0..MaxFaults
  BY DEF LifeTypeOK, Lives, GenRecs, WorkersOK, WorkerRecs, CallRecs, Drives, SupStates, Cleans, LoopStates

LEMMA GensFacts == Gens \subseteq Nat /\ 0 \notin Gens /\ \A g \in Gens : g \in 1..MaxGen
  BY LifeAssumption DEF Gens

LEMMA TicketFacts ==
  ASSUME NEW w \in Tickets
  PROVE  w # NoTicket /\ w.token \in 1..MaxTokens /\ w.token # 0 /\ w.failed \in Gens /\ w.attempt \in Nat
  BY TicketAssumption, LifeAssumption DEF Tickets

LEMMA LifeInitInv == LifeInit => LifeInv
  <1> SUFFICES ASSUME LifeInit PROVE LifeInv
    OBVIOUS
  <1>1. Fresh \in GenRecs
    BY DEF Fresh, GenRecs, Drives, SupStates, Cleans
  <1>2. NoRequest \in CallRecs
    BY LifeAssumption DEF NoRequest, CallRecs
  <1>3. LifeTypeOK
    <2>1. life \in Lives
      BY LifeAssumption DEF LifeInit, Lives, Phases, LoopStates
    <2>2. gen \in [Gens -> GenRecs] /\ calls \in [Requesters -> CallRecs] /\ WorkersOK
      BY <1>1, <1>2 DEF LifeInit, WorkersOK
    <2>3. tokens \in 0..MaxTokens /\ faults \in 0..MaxFaults
      BY LifeAssumption DEF LifeInit
    <2> QED BY <2>1, <2>2, <2>3, LifeTypes
  <1>4. \A g \in Gens : ~Owned(g)
    BY DEF LifeInit, Owned, Fresh
  <1>5. OneGeneration /\ RunningComplete /\ StopSticks /\ RecoveryNotLost
    BY <1>4 DEF OneGeneration, RunningComplete, StopSticks, RecoveryNotLost, LifeInit
  <1>6. Counting /\ Cleaning /\ LoopsLive /\ Wishes
    BY GensFacts DEF Counting, Cleaning, LoopsLive, Wishes, LifeInit, Fresh, NoRequest
  <1> QED BY <1>3, <1>5, <1>6 DEF LifeInv

-----------------------------------------------------------------------------
\* What a step may make of a generation's entry without owning more than before:
\* r is new, o is old.
Shrinks(r, o) ==
  /\ r.starter => o.starter
  /\ r.busy => o.busy
  /\ \A t \in Tasks : r.loop[t] = "alive" => o.loop[t] = "alive"
  /\ \A t \in Tasks : r.sup[t] \in {"boot", "ready", "approved"} => o.sup[t] \in {"boot", "ready", "approved"}

\* The part of an entry that cleanup and recovery look at is untouched.
SameCleanup(r, o) == r.clean = o.clean /\ r.cancelled = o.cancelled /\ r.ticket = o.ticket

\* A generation a cleanup can begin for.
Tearing(g) == life.gen = g /\ life.phase \in {"starting", "running"}

\* A step that changes the entry of one generation only.
LEMMA EntryStep ==
  ASSUME LifeInv, NEW g \in Gens, NEW r \in GenRecs, gen' = [gen EXCEPT ![g] = r],
         UNCHANGED <<life, workers, calls, tokens>>, faults' \in 0..MaxFaults,
         SameCleanup(r, gen[g]), Shrinks(r, gen[g]) \/ life.gen = g,
         Tearing(g) => \A t \in Tasks : gen[g].loop[t] = "alive" => r.loop[t] = "alive",
         r.drive = "register" => \/ r.drive = gen[g].drive
                                \/ \A t \in Tasks : r.loop[t] = "alive"
  PROVE  LifeInv'
  <1>1. /\ life \in Lives /\ gen \in [Gens -> GenRecs] /\ WorkersOK
        /\ calls \in [Requesters -> CallRecs] /\ tokens \in 0..MaxTokens
    BY LifeTypes DEF LifeInv
  <1>2. /\ gen' \in [Gens -> GenRecs] /\ gen'[g] = r /\ \A h \in Gens : h # g => gen'[h] = gen[h]
    BY <1>1
  <1>3. life' = life /\ workers' = workers /\ calls' = calls /\ tokens' = tokens
    OBVIOUS
  <1>4. LifeTypeOK'
    <2>1. WorkersOK'
      BY <1>1, <1>3 DEF WorkersOK
    <2>2. life' \in Lives /\ calls' \in [Requesters -> CallRecs] /\ tokens' \in 0..MaxTokens
      BY <1>1, <1>3
    <2> QED BY <1>2, <2>1, <2>2 DEF LifeTypeOK, Lives, GenRecs, WorkersOK, WorkerRecs, CallRecs, Drives, SupStates, Cleans, LoopStates
  <1>5. OneGeneration'
    <2> SUFFICES ASSUME NEW h \in Gens, Owned(h)' PROVE h = life.gen
      BY <1>3 DEF OneGeneration
    <2>1. CASE h # g
      <3>1. Owned(h)
        BY <1>2, <2>1 DEF Owned
      <3> QED BY <3>1 DEF LifeInv, OneGeneration
    <2>2. CASE h = g /\ Shrinks(r, gen[g])
      <3>1. Owned(g)
        BY <1>2, <2>2 DEF Owned, Shrinks
      <3> QED BY <2>2, <3>1 DEF LifeInv, OneGeneration
    <2> QED BY <2>1, <2>2
  <1>6. RunningComplete'
    BY <1>2, <1>3, GensFacts DEF LifeInv, RunningComplete, Counting, Tearing
  <1>7. StopSticks'
    BY <1>3 DEF LifeInv, StopSticks
  <1>8. RecoveryNotLost'
    BY <1>2, <1>3 DEF LifeInv, RecoveryNotLost, SameCleanup
  <1>9. Counting' /\ Cleaning'
    BY <1>2, <1>3 DEF LifeInv, Counting, Cleaning, SameCleanup
  <1>10. LoopsLive'
    BY <1>2, <1>3 DEF LifeInv, LoopsLive, Tearing
  <1>11. Wishes'
    BY <1>3 DEF LifeInv, Wishes
  <1> QED BY <1>4, <1>5, <1>6, <1>7, <1>8, <1>9, <1>10, <1>11 DEF LifeInv

-----------------------------------------------------------------------------
\* The driver of a start.
LEMMA DriveActions ==
  ASSUME LifeInv, NEW g \in Gens,
         \/ DrivePrepare(g) \/ DriveInstall(g) \/ DriveAwait(g) \/ DriveFinish(g) \/ DriveCommit(g)
         \/ DriveAbandon(g) \/ DropStart(g) \/ ClaimActivity(g) \/ ActivityEnds(g)
  PROVE  LifeInv'
  <1>1. gen \in [Gens -> GenRecs] /\ gen[g] \in GenRecs /\ faults \in 0..MaxFaults
    BY LifeTypes DEF LifeInv
  <1>2. CASE DrivePrepare(g)
    <2> DEFINE r == [gen[g] EXCEPT !.drive = "register", !.loop = [t \in Tasks |-> "alive"]]
    <2>1. r \in GenRecs /\ SameCleanup(r, gen[g]) /\ \A t \in Tasks : r.loop[t] = "alive"
      BY <1>1 DEF GenRecs, SameCleanup, Drives
    <2>2. gen' = [gen EXCEPT ![g] = r] /\ UNCHANGED <<life, workers, calls, tokens, faults>> /\ life.gen = g
      BY <1>1, <1>2 DEF DrivePrepare, Starting
    <2> HIDE DEF r
    <2> QED BY <1>1, <2>1, <2>2, EntryStep
  <1>3. ASSUME NEW r \in GenRecs, gen' = [gen EXCEPT ![g] = r],
               UNCHANGED <<life, workers, calls, tokens>>, faults' \in 0..MaxFaults,
               SameCleanup(r, gen[g]), r.drive # "register",
               r.loop = gen[g].loop, r.sup = gen[g].sup, r.starter = gen[g].starter,
               r.busy = gen[g].busy
        PROVE  LifeInv'
    <2>1. Shrinks(r, gen[g])
      BY <1>3 DEF Shrinks
    <2> QED BY <1>3, <2>1, EntryStep
  <1>4. ASSUME NEW d \in Drives \ {"register"}, gen' = [gen EXCEPT ![g].drive = d],
               UNCHANGED <<life, workers, calls, tokens>>, faults' \in 0..MaxFaults
        PROVE  LifeInv'
    <2> DEFINE r == [gen[g] EXCEPT !.drive = d]
    <2>1. /\ r \in GenRecs /\ SameCleanup(r, gen[g]) /\ r.drive = d
          /\ r.loop = gen[g].loop /\ r.sup = gen[g].sup /\ r.starter = gen[g].starter /\ r.busy = gen[g].busy
      BY <1>1 DEF GenRecs, SameCleanup
    <2>2. gen' = [gen EXCEPT ![g] = r]
      BY <1>4
    <2> HIDE DEF r
    <2> QED BY <1>3, <1>4, <2>1, <2>2
  <1>5. CASE DriveInstall(g)
    <2> DEFINE r == [gen[g] EXCEPT !.drive = "await", !.installed = TRUE]
    <2>1. /\ r \in GenRecs /\ SameCleanup(r, gen[g]) /\ r.drive = "await"
          /\ r.loop = gen[g].loop /\ r.sup = gen[g].sup /\ r.starter = gen[g].starter /\ r.busy = gen[g].busy
      BY <1>1 DEF GenRecs, SameCleanup, Drives
    <2>2. gen' = [gen EXCEPT ![g] = r] /\ UNCHANGED <<life, workers, calls, tokens, faults>>
      BY <1>1, <1>5 DEF DriveInstall
    <2> HIDE DEF r
    <2> QED BY <1>1, <1>3, <2>1, <2>2
  <1>6. CASE DriveAwait(g) \/ DriveFinish(g) \/ DriveAbandon(g)
    BY <1>1, <1>4, <1>6 DEF DriveAwait, DriveFinish, DriveAbandon, Drives
  <1>7. CASE DropStart(g)
    <2>1. faults' \in 0..MaxFaults
      BY <1>1, <1>7, LifeAssumption DEF DropStart
    <2> QED BY <1>4, <1>7, <2>1 DEF DropStart, Drives
  <1>8. CASE DriveCommit(g)
    <2>1. PICK d \in {"result", "unwind"}, told \in SUBSET Tasks :
            /\ gen' = [gen EXCEPT ![g].drive = d, ![g].committed = told]
            /\ UNCHANGED <<life, workers, calls, tokens, faults>>
      BY <1>8 DEF DriveCommit
    <2> DEFINE r == [gen[g] EXCEPT !.drive = d, !.committed = told]
    <2>2. /\ r \in GenRecs /\ SameCleanup(r, gen[g]) /\ r.drive = d
          /\ r.loop = gen[g].loop /\ r.sup = gen[g].sup /\ r.starter = gen[g].starter /\ r.busy = gen[g].busy
      BY <1>1 DEF GenRecs, SameCleanup, Drives
    <2>3. gen' = [gen EXCEPT ![g] = r]
      BY <1>1, <2>1
    <2> HIDE DEF r
    <2> QED BY <1>1, <1>3, <2>1, <2>2, <2>3
  <1>9. CASE ClaimActivity(g) \/ ActivityEnds(g)
    <2>1. PICK b \in BOOLEAN : /\ gen' = [gen EXCEPT ![g].busy = b]
                               /\ UNCHANGED <<life, workers, calls, tokens, faults>>
                               /\ b => life.gen = g
      BY <1>9 DEF ClaimActivity, ActivityEnds
    <2> DEFINE r == [gen[g] EXCEPT !.busy = b]
    <2>2. /\ r \in GenRecs /\ SameCleanup(r, gen[g]) /\ r.drive = gen[g].drive
          /\ r.loop = gen[g].loop /\ r.sup = gen[g].sup /\ r.starter = gen[g].starter /\ r.busy = b
      BY <1>1 DEF GenRecs, SameCleanup
    <2>3. gen' = [gen EXCEPT ![g] = r]
      BY <1>1, <2>1
    <2>4. Shrinks(r, gen[g]) \/ life.gen = g
      BY <2>1, <2>2 DEF Shrinks
    <2> HIDE DEF r
    <2>5. faults' \in 0..MaxFaults /\ UNCHANGED <<life, workers, calls, tokens>>
      BY <1>1, <2>1
    <2> QED BY <2>2, <2>3, <2>4, <2>5, EntryStep
  <1> QED BY <1>2, <1>5, <1>6, <1>7, <1>8, <1>9

-----------------------------------------------------------------------------
LEMMA ReservedFacts ==
  ASSUME LifeInv, NEW failed \in Gens
  PROVE  LET ticket == ReservedTicket(life, failed)
         IN  /\ ticket \in Tickets \cup {NoTicket}
             /\ ticket # NoTicket => /\ ticket.token = life.desired /\ ticket.attempt \in Nat
                                     /\ ~life.terminal /\ ~life.exhausted
  <1>1. life \in Lives
    BY LifeTypes DEF LifeInv
  <1>2. /\ life.desired \in 0..MaxTokens /\ life.attempt \in Nat
    BY <1>1 DEF Lives
  <1>3. CASE ReservedTicket(life, failed) = NoTicket
    BY <1>3
  <1>4. CASE ReservedTicket(life, failed) # NoTicket
    <2>1. /\ ~life.terminal /\ ~life.exhausted /\ life.desired # 0
          /\ ReservedTicket(life, failed) = [failed |-> failed, attempt |-> life.attempt + 1, token |-> life.desired]
      BY <1>4 DEF ReservedTicket
    <2>2. life.desired \in 1..MaxTokens /\ life.attempt + 1 \in Nat
      BY <1>2, <2>1, LifeAssumption
    <2> QED BY <2>1, <2>2 DEF Tickets
  <1> QED BY <1>3, <1>4

\* A lifecycle on which a ticket is reserved, or none.
LEMMA ReserveFacts ==
  ASSUME NEW l \in Lives, NEW ticket \in Tickets \cup {NoTicket}
  PROVE  /\ Reserve(l, ticket) \in Lives
         /\ Reserve(l, ticket).pending = IF ticket = NoTicket THEN l.pending ELSE ticket
         /\ Reserve(l, ticket).phase = l.phase /\ Reserve(l, ticket).gen = l.gen
         /\ Reserve(l, ticket).next = l.next /\ Reserve(l, ticket).exhausted = l.exhausted
         /\ Reserve(l, ticket).desired = l.desired /\ Reserve(l, ticket).terminal = l.terminal
         /\ Reserve(l, ticket).loops = l.loops
  <1>1. ticket # NoTicket => ticket.attempt \in Nat
    BY TicketFacts
  <1> QED BY <1>1 DEF Reserve, Lives

\* A lifecycle that differs in what a cleanup changes.
Torn(l, ticket) ==
  /\ l \in Lives /\ l.phase = "stopping" /\ l.gen = life.gen /\ l.next = life.next
  /\ l.exhausted = life.exhausted /\ l.desired = life.desired /\ l.terminal = life.terminal
  /\ l.pending = IF ticket = NoTicket THEN life.pending ELSE ticket
  /\ ticket \in Tickets \cup {NoTicket}
  /\ ticket # NoTicket => ticket.token = life.desired /\ ~life.terminal /\ ~life.exhausted

LEMMA BeginCleanupFacts ==
  ASSUME LifeInv, NEW g \in Gens
  PROVE  LET q == BeginCleanup(life, g, FALSE)
         IN  IF Tearing(g) THEN q.begun /\ Torn(q.life, q.ticket)
             ELSE q = [life |-> life, begun |-> FALSE, ticket |-> NoTicket]
  <1>1. life \in Lives
    BY LifeTypes DEF LifeInv
  <1>2. CASE ~Tearing(g)
    BY <1>2 DEF BeginCleanup, Tearing
  <1>3. CASE Tearing(g)
    <2> DEFINE ticket == ReservedTicket(life, g)
               l == Reserve(life, ticket)
    <2>1. BeginCleanup(life, g, FALSE) = [life |-> [l EXCEPT !.phase = "stopping"], begun |-> TRUE, ticket |-> ticket]
      BY <1>3 DEF BeginCleanup, Tearing
    <2>2. /\ ticket \in Tickets \cup {NoTicket}
          /\ ticket # NoTicket => ticket.token = life.desired /\ ~life.terminal /\ ~life.exhausted
      BY ReservedFacts
    <2> HIDE DEF ticket
    <2>3. /\ l \in Lives /\ l.pending = IF ticket = NoTicket THEN life.pending ELSE ticket
          /\ l.gen = life.gen /\ l.next = life.next /\ l.exhausted = life.exhausted
          /\ l.desired = life.desired /\ l.terminal = life.terminal
      BY <1>1, <2>2, ReserveFacts
    <2> HIDE DEF l
    <2> DEFINE m == [l EXCEPT !.phase = "stopping"]
    <2>4. /\ m \in Lives /\ m.phase = "stopping" /\ m.pending = l.pending /\ m.gen = l.gen
          /\ m.next = l.next /\ m.exhausted = l.exhausted /\ m.desired = l.desired /\ m.terminal = l.terminal
      BY <2>3 DEF Lives, Phases
    <2>5. BeginCleanup(life, g, FALSE) = [life |-> m, begun |-> TRUE, ticket |-> ticket]
      BY <2>1 DEF l
    <2> HIDE DEF m
    <2>6. Torn(m, ticket)
      BY <2>2, <2>3, <2>4 DEF Torn
    <2> DEFINE q == BeginCleanup(life, g, FALSE)
    <2>7. q = [life |-> m, begun |-> TRUE, ticket |-> ticket]
      BY <2>5
    <2> HIDE DEF q
    <2>8. q.life = m /\ q.ticket = ticket
      BY <2>7
    <2>9. q.begun = TRUE
      BY <2>7
    <2>10. q.begun /\ Torn(q.life, q.ticket)
      BY <2>6, <2>8, <2>9
    <2> QED BY <1>3, <2>10 DEF q
  <1> QED BY <1>2, <1>3

\* Generation g is told to end, in a step that makes r of its entry.
LEMMA CleanupBegins ==
  ASSUME LifeInv, NEW g \in Gens, NEW r \in GenRecs,
         life' = BeginCleanup(life, g, FALSE).life,
         gen' = [gen EXCEPT ![g] = Begun(r, BeginCleanup(life, g, FALSE))],
         UNCHANGED <<workers, calls, tokens>>, faults' \in 0..MaxFaults,
         SameCleanup(r, gen[g]), Shrinks(r, gen[g]),
         r.drive = "register" => gen[g].drive = "register"
  PROVE  LifeInv'
  <1> DEFINE q == BeginCleanup(life, g, FALSE)
  <1>1. /\ life \in Lives /\ gen \in [Gens -> GenRecs] /\ WorkersOK
        /\ calls \in [Requesters -> CallRecs] /\ tokens \in 0..MaxTokens
    BY LifeTypes DEF LifeInv
  <1>2. IF Tearing(g) THEN q.begun /\ Torn(q.life, q.ticket)
        ELSE q = [life |-> life, begun |-> FALSE, ticket |-> NoTicket]
    BY BeginCleanupFacts
  <1> HIDE DEF q
  <1>3. CASE ~Tearing(g)
    <2>1. Begun(r, q) = r /\ q.life = life
      BY <1>2, <1>3 DEF Begun
    <2>2. gen' = [gen EXCEPT ![g] = r] /\ life' = life
      BY <2>1 DEF q
    <2> QED BY <1>3, <2>2, EntryStep
  <1>4. CASE Tearing(g)
    <2>1. Begun(r, q) = [r EXCEPT !.clean = "begun", !.ticket = q.ticket] /\ Torn(q.life, q.ticket)
      BY <1>2, <1>4 DEF Begun
    <2> DEFINE e == [r EXCEPT !.clean = "begun", !.ticket = q.ticket]
    <2>2. gen' = [gen EXCEPT ![g] = e] /\ Torn(life', q.ticket)
      BY <2>1 DEF q
    <2>3. /\ e \in GenRecs /\ e.clean = "begun" /\ e.ticket = q.ticket /\ Shrinks(e, gen[g])
          /\ e.cancelled = gen[g].cancelled
      <3>1. q.ticket \in Tickets \cup {NoTicket}
        BY <2>1 DEF Torn
      <3>2. /\ e \in GenRecs /\ e.clean = "begun" /\ e.ticket = q.ticket /\ e.cancelled = r.cancelled
            /\ e.starter = r.starter /\ e.busy = r.busy /\ e.loop = r.loop /\ e.sup = r.sup
        BY <3>1 DEF GenRecs, Cleans
      <3> QED BY <3>2 DEF Shrinks, SameCleanup
    <2> HIDE DEF e
    <2>4. /\ gen' \in [Gens -> GenRecs] /\ gen'[g] = e /\ \A h \in Gens : h # g => gen'[h] = gen[h]
      BY <1>1, <2>2, <2>3
    <2>5. LifeTypeOK'
      <3>1. life' \in Lives
        BY <2>2 DEF Torn
      <3>2. WorkersOK' /\ calls' \in [Requesters -> CallRecs] /\ tokens' \in 0..MaxTokens
        BY <1>1 DEF WorkersOK
      <3> QED BY <2>4, <3>1, <3>2 DEF LifeTypeOK, Lives, GenRecs, WorkersOK, WorkerRecs, CallRecs, Drives, SupStates, Cleans, LoopStates
    <2>6. OneGeneration'
      <3> SUFFICES ASSUME NEW h \in Gens, Owned(h)' PROVE h = life.gen
        BY <2>2 DEF OneGeneration, Torn
      <3>1. Owned(h)
        <4>1. CASE h = g
          <5>1. gen'[h] = e
            BY <2>4, <4>1
          <5> QED BY <2>3, <4>1, <5>1 DEF Owned, Shrinks
        <4>2. CASE h # g
          <5>1. gen'[h] = gen[h]
            BY <2>4, <4>2
          <5> QED BY <5>1 DEF Owned
        <4> QED BY <4>1, <4>2
      <3> QED BY <3>1 DEF LifeInv, OneGeneration
    <2>7. RunningComplete' /\ StopSticks' /\ LoopsLive'
      BY <2>2 DEF Torn, RunningComplete, StopSticks, LoopsLive
    <2>8. RecoveryNotLost'
      <3>1. CASE q.ticket = NoTicket
        <4>1. life'.pending = life.pending
          BY <2>2, <3>1 DEF Torn
        <4>2. gen[g].ticket = NoTicket
          BY <1>4 DEF LifeInv, Cleaning, Tearing
        <4> QED BY <2>4, <4>1, <4>2 DEF LifeInv, RecoveryNotLost
      <3>2. CASE q.ticket # NoTicket
        BY <2>2, <2>3, <2>4, <3>2 DEF RecoveryNotLost, Torn
      <3> QED BY <3>1, <3>2
    <2>. /\ life'.phase = "stopping" /\ life'.gen = g /\ life.gen = g /\ life'.next = life.next
         /\ life.gen # 0 /\ life.gen <= life.next
      BY <1>4, <2>2, GensFacts DEF Torn, Tearing, LifeInv, Counting
    <2>9. Counting'
      <3>1. \A h \in Gens : h > life.next => h # g
        BY GensFacts, <1>1 DEF Lives
      <3> QED BY <2>4, <3>1 DEF LifeInv, Counting
    <2>10. Cleaning'
      <3>1. gen[g].clean = "none" /\ ~gen[g].cancelled
        BY <1>4 DEF LifeInv, Cleaning, Tearing
      <3>2. \A h \in Gens : gen'[h].clean \in {"begun", "stored", "working"} => h = g
        BY <2>4 DEF LifeInv, Cleaning
      <3>3. \A h \in Gens : gen'[h].cancelled => gen'[h].clean \in {"working", "stored", "complete"}
        BY <2>3, <2>4, <3>1 DEF LifeInv, Cleaning
      <3>4. \A h \in Gens : gen'[h].ticket # NoTicket => gen'[h].clean = "begun"
        BY <2>3, <2>4 DEF LifeInv, Cleaning
      <3> QED BY <3>2, <3>3, <3>4 DEF Cleaning
    <2>11. Wishes'
      <3>1. /\ life'.next = life.next /\ calls' = calls /\ life'.terminal = life.terminal
            /\ life'.exhausted = life.exhausted /\ life'.desired = life.desired
        BY <2>2 DEF Torn
      <3> QED BY <2>2, <3>1 DEF LifeInv, Wishes, Torn
    <2> QED BY <2>5, <2>6, <2>7, <2>8, <2>9, <2>10, <2>11 DEF LifeInv
  <1> QED BY <1>3, <1>4

\* FailLoop is such a step: a cancelled generation is no longer starting or running.
LEMMA FailLoopInv ==
  ASSUME LifeInv, NEW g \in Gens, NEW r \in GenRecs, FailLoop(g, r),
         UNCHANGED <<workers, calls, tokens>>, faults' \in 0..MaxFaults,
         SameCleanup(r, gen[g]), Shrinks(r, gen[g]), r.drive = gen[g].drive
  PROVE  LifeInv'
  <1>1. gen[g].cancelled => BeginCleanup(life, g, FALSE) = [life |-> life, begun |-> FALSE, ticket |-> NoTicket]
    <2> SUFFICES ASSUME gen[g].cancelled PROVE ~Tearing(g)
      BY BeginCleanupFacts
    <2> QED BY DEF LifeInv, Cleaning, Tearing
  <1>2. /\ life' = BeginCleanup(life, g, FALSE).life
        /\ gen' = [gen EXCEPT ![g] = Begun(r, BeginCleanup(life, g, FALSE))]
    BY <1>1 DEF FailLoop
  <1> QED BY <1>2, CleanupBegins

-----------------------------------------------------------------------------
\* A step of a starting generation that registers, approves or publishes loops.
LEMMA LoopStep ==
  ASSUME LifeInv, NEW g \in Gens, NEW r \in GenRecs, gen' = [gen EXCEPT ![g] = r], Starting(g),
         UNCHANGED <<workers, calls, tokens, faults>>,
         life' \in Lives, life'.phase \in {"starting", "running"},
         life'.gen = life.gen, life'.next = life.next, life'.exhausted = life.exhausted,
         life'.desired = life.desired, life'.pending = life.pending, life'.terminal = life.terminal,
         life'.phase = "running" => \A t \in Tasks : life'.loops[t] = "approved",
         \A t \in Tasks : life'.loops[t] # "none" => gen[g].loop[t] = "alive",
         SameCleanup(r, gen[g]), r.loop = gen[g].loop, r.drive = "register" => gen[g].drive = "register"
  PROVE  LifeInv'
  <1>1. /\ life \in Lives /\ gen \in [Gens -> GenRecs] /\ WorkersOK
        /\ calls \in [Requesters -> CallRecs] /\ tokens \in 0..MaxTokens /\ faults \in 0..MaxFaults
    BY LifeTypes DEF LifeInv
  <1>2. /\ gen' \in [Gens -> GenRecs] /\ gen'[g] = r /\ \A h \in Gens : h # g => gen'[h] = gen[h]
    BY <1>1
  <1>3. workers' = workers /\ calls' = calls /\ life.gen = g /\ life.phase = "starting"
    BY DEF Starting
  <1>4. LifeTypeOK'
    <2>1. WorkersOK' /\ calls' \in [Requesters -> CallRecs] /\ tokens' \in 0..MaxTokens /\ faults' \in 0..MaxFaults
      BY <1>1 DEF WorkersOK
    <2> QED BY <1>2, <2>1 DEF LifeTypeOK, Lives, GenRecs, WorkersOK, WorkerRecs, CallRecs, Drives, SupStates, Cleans, LoopStates
  <1>5. OneGeneration'
    <2> SUFFICES ASSUME NEW h \in Gens, Owned(h)', h # g PROVE FALSE
      BY <1>3 DEF OneGeneration
    <2>1. gen'[h] = gen[h]
      BY <1>2
    <2>2. Owned(h)
      BY <2>1 DEF Owned
    <2> QED BY <1>3, <2>2 DEF LifeInv, OneGeneration
  <1>6. LoopsLive'
    BY <1>2, <1>3 DEF LifeInv, LoopsLive
  <1>7. RunningComplete'
    BY <1>2, <1>3 DEF RunningComplete
  <1>8. StopSticks'
    BY <1>3 DEF LifeInv, StopSticks
  <1>9. RecoveryNotLost'
    BY <1>2, <1>3 DEF LifeInv, RecoveryNotLost, SameCleanup
  <1>10. Counting'
    BY <1>2, <1>3, GensFacts DEF LifeInv, Counting, SameCleanup
  <1>11. Cleaning'
    BY <1>2, <1>3 DEF LifeInv, Cleaning, SameCleanup
  <1>12. Wishes'
    BY <1>3 DEF LifeInv, Wishes
  <1> QED BY <1>4, <1>5, <1>6, <1>7, <1>8, <1>9, <1>10, <1>11, <1>12 DEF LifeInv

LEMMA DriveRegisterInv ==
  ASSUME LifeInv, NEW g \in Gens, DriveRegister(g)
  PROVE  LifeInv'
  <1> DEFINE r == [gen[g] EXCEPT !.drive = "install", !.sup = [t \in Tasks |-> "boot"]]
  <1>1. life \in Lives /\ gen \in [Gens -> GenRecs] /\ gen[g] \in GenRecs
    BY LifeTypes DEF LifeInv
  <1>2. r \in GenRecs /\ SameCleanup(r, gen[g]) /\ r.loop = gen[g].loop /\ r.drive = "install"
    BY <1>1 DEF GenRecs, SameCleanup, Drives, SupStates
  <1>3. gen' = [gen EXCEPT ![g] = r]
    BY <1>1 DEF DriveRegister
  <1> HIDE DEF r
  <1>4. /\ life' \in Lives /\ life'.phase = life.phase
        /\ life'.gen = life.gen /\ life'.next = life.next /\ life'.exhausted = life.exhausted
        /\ life'.desired = life.desired /\ life'.pending = life.pending /\ life'.terminal = life.terminal
    BY <1>1 DEF DriveRegister, Lives, LoopStates
  <1>5. Starting(g) /\ life.phase = "starting" /\ UNCHANGED <<workers, calls, tokens, faults>>
    BY DEF DriveRegister, Starting
  <1>6. \A t \in Tasks : gen[g].loop[t] = "alive"
    BY <1>5 DEF DriveRegister, LifeInv, LoopsLive, Starting
  <1> QED BY <1>2, <1>3, <1>4, <1>5, <1>6, LoopStep

\* Changes of one task's loop, supervisor or report within an entry.
SupSet(r, t, x) == [r EXCEPT !.sup[t] = x]

LEMMA SupFacts ==
  ASSUME NEW r \in GenRecs, NEW t \in Tasks, NEW x \in SupStates
  PROVE  /\ SupSet(r, t, x) \in GenRecs
         /\ SupSet(r, t, x).sup = [r.sup EXCEPT ![t] = x]
         /\ SupSet(r, t, x).loop = r.loop /\ SupSet(r, t, x).drive = r.drive
         /\ SupSet(r, t, x).starter = r.starter /\ SupSet(r, t, x).busy = r.busy
         /\ SameCleanup(SupSet(r, t, x), r)
  <1>1. SupSet(r, t, x) = [r EXCEPT !.sup = [r.sup EXCEPT ![t] = x]]
    BY DEF SupSet, GenRecs
  <1>2. [r.sup EXCEPT ![t] = x] \in [Tasks -> SupStates]
    BY DEF GenRecs
  <1> QED BY <1>1, <1>2 DEF GenRecs, SameCleanup

LEMMA SupEnds ==
  ASSUME NEW r \in GenRecs, NEW t \in Tasks
  PROVE  Shrinks(SupSet(r, t, "ended"), r)
  <1>1. /\ SupSet(r, t, "ended").sup = [r.sup EXCEPT ![t] = "ended"]
        /\ SupSet(r, t, "ended").loop = r.loop
        /\ SupSet(r, t, "ended").starter = r.starter /\ SupSet(r, t, "ended").busy = r.busy
    BY SupFacts DEF SupStates
  <1>2. r.sup \in [Tasks -> SupStates]
    BY DEF GenRecs
  <1> QED BY <1>1, <1>2 DEF Shrinks

LEMMA SaidFacts ==
  ASSUME NEW r \in GenRecs, NEW t \in Tasks, NEW x \in {"none", "yes", "no"}
  PROVE  /\ [r EXCEPT !.said[t] = x] \in GenRecs
         /\ [r EXCEPT !.said[t] = x].sup = r.sup
         /\ [r EXCEPT !.said[t] = x].loop = r.loop /\ [r EXCEPT !.said[t] = x].drive = r.drive
         /\ [r EXCEPT !.said[t] = x].starter = r.starter /\ [r EXCEPT !.said[t] = x].busy = r.busy
         /\ SameCleanup([r EXCEPT !.said[t] = x], r)
  <1>1. [r EXCEPT !.said[t] = x] = [r EXCEPT !.said = [r.said EXCEPT ![t] = x]]
    BY DEF GenRecs
  <1>2. [r.said EXCEPT ![t] = x] \in [Tasks -> {"none", "yes", "no"}]
    BY DEF GenRecs
  <1> QED BY <1>1, <1>2 DEF GenRecs, SameCleanup

LEMMA LoopEnds ==
  ASSUME NEW r \in GenRecs, NEW t \in Tasks
  PROVE  /\ [r EXCEPT !.loop[t] = "ended"] \in GenRecs
         /\ [r EXCEPT !.loop[t] = "ended"].drive = r.drive
         /\ SameCleanup([r EXCEPT !.loop[t] = "ended"], r)
         /\ Shrinks([r EXCEPT !.loop[t] = "ended"], r)
  <1>1. [r EXCEPT !.loop[t] = "ended"] = [r EXCEPT !.loop = [r.loop EXCEPT ![t] = "ended"]]
    BY DEF GenRecs
  <1>2. /\ [r.loop EXCEPT ![t] = "ended"] \in [Tasks -> {"none", "alive", "ended"}]
        /\ \A u \in Tasks : [r.loop EXCEPT ![t] = "ended"][u] = "alive" => r.loop[u] = "alive"
    BY DEF GenRecs
  <1> QED BY <1>1, <1>2 DEF GenRecs, SameCleanup, Shrinks

\* A supervisor's entry with its report, and with the outcome of the start.
SupSaid(r, t, x, y) == [r EXCEPT !.sup[t] = x, !.said[t] = y]
SupOut(r, t, x, y)  == [r EXCEPT !.sup[t] = x, !.outcome = y]

LEMMA SupSaidFacts ==
  ASSUME NEW r \in GenRecs, NEW t \in Tasks, NEW x \in SupStates, NEW y \in {"none", "yes", "no"}
  PROVE  /\ SupSaid(r, t, x, y) \in GenRecs /\ SameCleanup(SupSaid(r, t, x, y), r)
         /\ SupSaid(r, t, x, y).loop = r.loop /\ SupSaid(r, t, x, y).drive = r.drive
         /\ x = "ended" => Shrinks(SupSaid(r, t, x, y), r)
  <1> DEFINE s == SupSet(r, t, x)
             e == [s EXCEPT !.said[t] = y]
  <1>1. SupSaid(r, t, x, y) = e
    BY DEF SupSaid, SupSet
  <1>2. /\ s \in GenRecs /\ s.loop = r.loop /\ s.drive = r.drive /\ SameCleanup(s, r)
        /\ x = "ended" => Shrinks(s, r)
    BY SupFacts, SupEnds
  <1> HIDE DEF s
  <1>3. /\ e \in GenRecs /\ SameCleanup(e, s) /\ e.loop = s.loop /\ e.drive = s.drive
        /\ e.sup = s.sup /\ e.starter = s.starter /\ e.busy = s.busy
    BY <1>2, SaidFacts
  <1> HIDE DEF e
  <1>4. SameCleanup(e, r) /\ (x = "ended" => Shrinks(e, r))
    BY <1>2, <1>3 DEF SameCleanup, Shrinks
  <1> QED BY <1>1, <1>2, <1>3, <1>4

LEMMA SupOutFacts ==
  ASSUME NEW r \in GenRecs, NEW t \in Tasks, NEW x \in SupStates, NEW y \in {"none", "yes", "no"}
  PROVE  /\ SupOut(r, t, x, y) \in GenRecs /\ SameCleanup(SupOut(r, t, x, y), r)
         /\ SupOut(r, t, x, y).loop = r.loop /\ SupOut(r, t, x, y).drive = r.drive
         /\ x = "ended" => Shrinks(SupOut(r, t, x, y), r)
  <1> DEFINE s == SupSet(r, t, x)
             e == [s EXCEPT !.outcome = y]
  <1>1. SupOut(r, t, x, y) = e
    BY DEF SupOut, SupSet
  <1>2. /\ s \in GenRecs /\ s.loop = r.loop /\ s.drive = r.drive /\ SameCleanup(s, r)
        /\ x = "ended" => Shrinks(s, r)
    BY SupFacts, SupEnds
  <1> HIDE DEF s
  <1>3. /\ e \in GenRecs /\ SameCleanup(e, s) /\ e.loop = s.loop /\ e.drive = s.drive
        /\ e.sup = s.sup /\ e.starter = s.starter /\ e.busy = s.busy
    BY <1>2 DEF GenRecs, SameCleanup
  <1> HIDE DEF e
  <1>4. SameCleanup(e, r) /\ (x = "ended" => Shrinks(e, r))
    BY <1>2, <1>3 DEF SameCleanup, Shrinks
  <1> QED BY <1>1, <1>2, <1>3, <1>4

\* A loop ends, by itself or aborted.
LEMMA LoopActions ==
  ASSUME LifeInv, NEW g \in Gens, NEW t \in Tasks, LoopExits(g, t) \/ LoopAborted(g, t)
  PROVE  LifeInv'
  <1> DEFINE r == [gen[g] EXCEPT !.loop[t] = "ended"]
  <1>1. gen[g] \in GenRecs /\ faults \in 0..MaxFaults
    BY LifeTypes DEF LifeInv
  <1>2. r \in GenRecs /\ r.drive = gen[g].drive /\ SameCleanup(r, gen[g]) /\ Shrinks(r, gen[g])
    BY <1>1, LoopEnds
  <1>3. FailLoop(g, r) /\ UNCHANGED <<workers, calls, tokens>>
    BY DEF LoopExits, LoopAborted
  <1>4. faults' \in 0..MaxFaults
    BY <1>1, LifeAssumption DEF LoopExits, LoopAborted
  <1> HIDE DEF r
  <1> QED BY <1>2, <1>3, <1>4, FailLoopInv

\* The lifecycle with the loop of one task set.
LEMMA LoopsSet ==
  ASSUME life \in Lives, NEW t \in Tasks, NEW x \in LoopStates, NEW l, l = [life EXCEPT !.loops[t] = x]
  PROVE  /\ l \in Lives /\ l.phase = life.phase
         /\ l.gen = life.gen /\ l.next = life.next /\ l.exhausted = life.exhausted
         /\ l.desired = life.desired /\ l.pending = life.pending /\ l.terminal = life.terminal
         /\ \A u \in Tasks : l.loops[u] = IF u = t THEN x ELSE life.loops[u]
  <1>1. l = [life EXCEPT !.loops = [life.loops EXCEPT ![t] = x]]
    BY DEF Lives
  <1>2. /\ [life.loops EXCEPT ![t] = x] \in [Tasks -> LoopStates]
        /\ \A u \in Tasks : [life.loops EXCEPT ![t] = x][u] = IF u = t THEN x ELSE life.loops[u]
    BY DEF Lives
  <1> QED BY <1>1, <1>2 DEF Lives

LEMMA SupervisorBootsInv ==
  ASSUME LifeInv, NEW g \in Gens, NEW t \in Tasks, SupervisorBoots(g, t)
  PROVE  LifeInv'
  <1>1. life \in Lives /\ gen \in [Gens -> GenRecs] /\ gen[g] \in GenRecs /\ faults \in 0..MaxFaults
    BY LifeTypes DEF LifeInv
  <1>2. UNCHANGED <<workers, calls, tokens, faults>> /\ faults' \in 0..MaxFaults
    BY <1>1 DEF SupervisorBoots
  <1>3. CASE FailLoop(g, [gen[g] EXCEPT !.sup[t] = "ended", !.said[t] = "no"])
    <2>1. FailLoop(g, SupSaid(gen[g], t, "ended", "no"))
      BY <1>3 DEF SupSaid
    <2>2. LET r == SupSaid(gen[g], t, "ended", "no")
          IN  r \in GenRecs /\ SameCleanup(r, gen[g]) /\ Shrinks(r, gen[g]) /\ r.drive = gen[g].drive
      BY <1>1, SupSaidFacts DEF SupStates
    <2> QED BY <1>2, <2>1, <2>2, FailLoopInv
  <1>4. CASE /\ Starting(g) /\ life.loops[t] = "booting"
             /\ life' = [life EXCEPT !.loops[t] = "ready"]
             /\ gen' = [gen EXCEPT ![g].sup[t] = "ready", ![g].said[t] = "yes"]
    <2> DEFINE r == SupSaid(gen[g], t, "ready", "yes")
    <2>1. gen' = [gen EXCEPT ![g] = r]
      BY <1>1, <1>4 DEF SupSaid
    <2>2. r \in GenRecs /\ SameCleanup(r, gen[g]) /\ r.loop = gen[g].loop /\ r.drive = gen[g].drive
      BY <1>1, SupSaidFacts DEF SupStates
    <2> HIDE DEF r
    <2>3. /\ life' \in Lives /\ life'.phase = life.phase
          /\ life'.gen = life.gen /\ life'.next = life.next /\ life'.exhausted = life.exhausted
          /\ life'.desired = life.desired /\ life'.pending = life.pending /\ life'.terminal = life.terminal
          /\ \A u \in Tasks : life'.loops[u] = IF u = t THEN "ready" ELSE life.loops[u]
      BY <1>1, <1>4, LoopsSet DEF LoopStates
    <2>4. life.phase = "starting" /\ life.gen = g
      BY <1>4 DEF Starting
    <2>5. \A u \in Tasks : life'.loops[u] # "none" => gen[g].loop[u] = "alive"
      BY <1>4, <2>3, <2>4 DEF LifeInv, LoopsLive
    <2> QED BY <1>2, <1>4, <2>1, <2>2, <2>3, <2>4, <2>5, LoopStep
  <1>5. CASE UNCHANGED life /\ gen' = [gen EXCEPT ![g].sup[t] = "ended", ![g].said[t] = "no"]
    <2> DEFINE r == SupSaid(gen[g], t, "ended", "no")
    <2>1. gen' = [gen EXCEPT ![g] = r]
      BY <1>1, <1>5 DEF SupSaid
    <2>2. /\ r \in GenRecs /\ SameCleanup(r, gen[g]) /\ r.loop = gen[g].loop /\ r.drive = gen[g].drive
          /\ Shrinks(r, gen[g])
      BY <1>1, SupSaidFacts DEF SupStates
    <2> HIDE DEF r
    <2> QED BY <1>2, <1>5, <2>1, <2>2, EntryStep
  <1> QED BY <1>3, <1>4, <1>5 DEF SupervisorBoots

LEMMA SupervisorEnds ==
  ASSUME LifeInv, NEW g \in Gens, NEW t \in Tasks,
         \/ SupervisorSeesExit(g, t) \/ SupervisorCancelled(g, t) \/ SupervisorUncommitted(g, t)
         \/ SupervisorAborted(g, t)
  PROVE  LifeInv'
  <1>1. life \in Lives /\ gen \in [Gens -> GenRecs] /\ gen[g] \in GenRecs /\ faults \in 0..MaxFaults
    BY LifeTypes DEF LifeInv
  <1>2. UNCHANGED <<workers, calls, tokens, faults>> /\ faults' \in 0..MaxFaults
    BY <1>1 DEF SupervisorSeesExit, SupervisorCancelled, SupervisorUncommitted, SupervisorAborted
  <1> DEFINE r == SupSet(gen[g], t, "ended")
  <1>3. /\ r \in GenRecs /\ SameCleanup(r, gen[g]) /\ r.loop = gen[g].loop /\ r.drive = gen[g].drive
        /\ Shrinks(r, gen[g])
    BY <1>1, SupFacts, SupEnds DEF SupStates
  <1>4. CASE SupervisorSeesExit(g, t) \/ SupervisorUncommitted(g, t)
    <2>1. FailLoop(g, r)
      BY <1>4 DEF SupervisorSeesExit, SupervisorUncommitted, SupSet
    <2> HIDE DEF r
    <2> QED BY <1>2, <1>3, <2>1, FailLoopInv
  <1>5. CASE SupervisorCancelled(g, t)
    <2>1. gen' = [gen EXCEPT ![g] = r] /\ UNCHANGED life
      BY <1>1, <1>5 DEF SupervisorCancelled, SupSet
    <2> HIDE DEF r
    <2> QED BY <1>2, <1>3, <2>1, EntryStep
  <1>6. CASE SupervisorAborted(g, t)
    <2> DEFINE y == IF gen[g].sup[t] = "boot" THEN "no" ELSE gen[g].said[t]
               e == SupSaid(gen[g], t, "ended", y)
    <2>1. y \in {"none", "yes", "no"}
      BY <1>1 DEF GenRecs
    <2>2. gen' = [gen EXCEPT ![g] = e] /\ UNCHANGED life
      BY <1>1, <1>6 DEF SupervisorAborted, SupSaid
    <2> HIDE DEF y
    <2>3. /\ e \in GenRecs /\ SameCleanup(e, gen[g]) /\ e.loop = gen[g].loop /\ e.drive = gen[g].drive
          /\ Shrinks(e, gen[g])
      BY <1>1, <2>1, SupSaidFacts DEF SupStates
    <2> HIDE DEF e
    <2> QED BY <1>2, <2>2, <2>3, EntryStep
  <1> QED BY <1>4, <1>5, <1>6

LEMMA SupervisorCommitsInv ==
  ASSUME LifeInv, NEW g \in Gens, NEW t \in Tasks, SupervisorCommits(g, t)
  PROVE  LifeInv'
  <1> DEFINE approved == [life EXCEPT !.loops[t] = "approved"]
             last == \A u \in Tasks : approved.loops[u] = "approved"
  <1>1. life \in Lives /\ gen \in [Gens -> GenRecs] /\ gen[g] \in GenRecs /\ faults \in 0..MaxFaults
    BY LifeTypes DEF LifeInv
  <1>2. UNCHANGED <<workers, calls, tokens, faults>> /\ faults' \in 0..MaxFaults
    BY <1>1 DEF SupervisorCommits
  <1>3. /\ approved \in Lives /\ approved.phase = life.phase
        /\ approved.gen = life.gen /\ approved.next = life.next /\ approved.exhausted = life.exhausted
        /\ approved.desired = life.desired /\ approved.pending = life.pending /\ approved.terminal = life.terminal
        /\ \A u \in Tasks : approved.loops[u] = IF u = t THEN "approved" ELSE life.loops[u]
    BY <1>1, LoopsSet DEF LoopStates
  <1> DEFINE published == [approved EXCEPT !.phase = "running"]
  <1>4. \/ /\ Starting(g) /\ life.loops[t] = "ready"
           /\ life' = approved /\ gen' = [gen EXCEPT ![g].sup[t] = "approved"]
        \/ /\ Starting(g) /\ life.loops[t] = "ready" /\ last
           /\ life' = published
           /\ gen' = [gen EXCEPT ![g].sup[t] = "approved", ![g].outcome = "yes"]
        \/ /\ \/ life' = life
              \/ life' = approved /\ Starting(g) /\ life.loops[t] = "ready"
           /\ gen' = [gen EXCEPT ![g].sup[t] = "ended", ![g].outcome = "no"]
    BY DEF SupervisorCommits
  <1> HIDE DEF approved
  <1>5. /\ published \in Lives /\ published.phase = "running" /\ published.loops = approved.loops
        /\ published.gen = approved.gen /\ published.next = approved.next /\ published.exhausted = approved.exhausted
        /\ published.desired = approved.desired /\ published.pending = approved.pending
        /\ published.terminal = approved.terminal
    BY <1>3 DEF Lives, Phases
  <1> HIDE DEF published
  <1>6. Starting(g) /\ life.loops[t] = "ready" =>
          /\ \A u \in Tasks : approved.loops[u] # "none" => gen[g].loop[u] = "alive"
          /\ life.phase = "starting"
    BY <1>3 DEF LifeInv, LoopsLive, Starting
  <1>7. CASE /\ Starting(g) /\ life.loops[t] = "ready"
             /\ life' = approved /\ gen' = [gen EXCEPT ![g].sup[t] = "approved"]
    <2> DEFINE r == SupSet(gen[g], t, "approved")
    <2>1. gen' = [gen EXCEPT ![g] = r]
      BY <1>1, <1>7 DEF SupSet
    <2>2. r \in GenRecs /\ SameCleanup(r, gen[g]) /\ r.loop = gen[g].loop /\ r.drive = gen[g].drive
      BY <1>1, SupFacts DEF SupStates
    <2> HIDE DEF r
    <2> QED BY <1>2, <1>3, <1>6, <1>7, <2>1, <2>2, LoopStep
  <1>8. CASE /\ Starting(g) /\ life.loops[t] = "ready" /\ last
             /\ life' = published
             /\ gen' = [gen EXCEPT ![g].sup[t] = "approved", ![g].outcome = "yes"]
    <2> DEFINE r == SupOut(gen[g], t, "approved", "yes")
    <2>1. gen' = [gen EXCEPT ![g] = r]
      BY <1>1, <1>8 DEF SupOut
    <2>2. r \in GenRecs /\ SameCleanup(r, gen[g]) /\ r.loop = gen[g].loop /\ r.drive = gen[g].drive
      BY <1>1, SupOutFacts DEF SupStates
    <2> HIDE DEF r
    <2>3. /\ life' \in Lives /\ life'.phase = "running"
          /\ life'.gen = life.gen /\ life'.next = life.next /\ life'.exhausted = life.exhausted
          /\ life'.desired = life.desired /\ life'.pending = life.pending /\ life'.terminal = life.terminal
          /\ life'.loops = approved.loops
      BY <1>3, <1>5, <1>8
    <2>4. \A u \in Tasks : life'.loops[u] = "approved" /\ gen[g].loop[u] = "alive"
      BY <1>6, <1>8, <2>3
    <2> HIDE DEF last
    <2> QED BY <1>2, <1>8, <2>1, <2>2, <2>3, <2>4, LoopStep
  <1>9. CASE /\ \/ life' = life
                \/ life' = approved /\ Starting(g) /\ life.loops[t] = "ready"
             /\ gen' = [gen EXCEPT ![g].sup[t] = "ended", ![g].outcome = "no"]
    <2> DEFINE r == SupOut(gen[g], t, "ended", "no")
    <2>1. gen' = [gen EXCEPT ![g] = r]
      BY <1>1, <1>9 DEF SupOut
    <2>2. /\ r \in GenRecs /\ SameCleanup(r, gen[g]) /\ r.loop = gen[g].loop /\ r.drive = gen[g].drive
          /\ Shrinks(r, gen[g])
      BY <1>1, SupOutFacts DEF SupStates
    <2> HIDE DEF r
    <2>3. CASE life' = life
      BY <1>2, <2>1, <2>2, <2>3, EntryStep
    <2>4. CASE life' = approved /\ Starting(g) /\ life.loops[t] = "ready"
      BY <1>2, <1>3, <1>6, <2>1, <2>2, <2>4, LoopStep
    <2> QED BY <1>9, <2>3, <2>4
  <1> QED BY <1>4, <1>7, <1>8, <1>9

LEMMA DriveUnwindInv ==
  ASSUME LifeInv, NEW g \in Gens, DriveUnwind(g)
  PROVE  LifeInv'
  <1> DEFINE r == [gen[g] EXCEPT !.drive = "done", !.starter = FALSE]
  <1>1. gen \in [Gens -> GenRecs] /\ gen[g] \in GenRecs /\ faults \in 0..MaxFaults
    BY LifeTypes DEF LifeInv
  <1>2. /\ r \in GenRecs /\ SameCleanup(r, gen[g]) /\ r.drive = "done" /\ ~r.starter
        /\ r.loop = gen[g].loop /\ r.sup = gen[g].sup /\ r.busy = gen[g].busy
    BY <1>1 DEF GenRecs, Drives, SameCleanup
  <1>3. /\ life' = BeginCleanup(life, g, FALSE).life
        /\ gen' = [gen EXCEPT ![g] = Begun(r, BeginCleanup(life, g, FALSE))]
        /\ UNCHANGED <<workers, calls, tokens, faults>>
    BY <1>1 DEF DriveUnwind
  <1> HIDE DEF r
  <1>4. Shrinks(r, gen[g])
    BY <1>2 DEF Shrinks
  <1> QED BY <1>1, <1>2, <1>3, <1>4, CleanupBegins

-----------------------------------------------------------------------------
\* What wishes, tickets and calls change leaves the generations as they are.
Calm(r, o) ==
  SameCleanup(r, o) /\ Shrinks(r, o) /\ r.loop = o.loop /\ (r.drive = "register" => o.drive = "register")

WaitingCalls == \A c \in Requesters : calls[c].pc = "await" => calls[c].token # 0 /\ calls[c].gen \in 1..life.next

WishOK == life.pending # NoTicket => life.pending.token = life.desired /\ ~life.terminal /\ ~life.exhausted

LEMMA WishStep ==
  ASSUME LifeInv, life' \in Lives, gen' \in [Gens -> GenRecs], WorkersOK',
         calls' \in [Requesters -> CallRecs], tokens' \in 0..MaxTokens, faults' \in 0..MaxFaults,
         life'.phase = life.phase, life'.gen = life.gen, life'.next = life.next, life'.loops = life.loops,
         \A h \in Gens : Calm(gen'[h], gen[h]),
         StopSticks', RecoveryNotLost', WaitingCalls', WishOK'
  PROVE  LifeInv'
  <1>1. LifeTypeOK'
    BY DEF LifeTypeOK, Lives, GenRecs, WorkersOK, WorkerRecs, CallRecs, Drives, SupStates, Cleans, LoopStates
  <1>2. OneGeneration'
    <2> SUFFICES ASSUME NEW h \in Gens, Owned(h)' PROVE h = life.gen
      BY DEF OneGeneration
    <2>1. Owned(h)
      BY DEF Owned, Calm, Shrinks
    <2> QED BY <2>1 DEF LifeInv, OneGeneration
  <1>3. RunningComplete'
    <2>1. life.phase = "running" => life.gen \in Gens
      <3>1. life \in Lives
        BY LifeTypes DEF LifeInv
      <3>2. life.gen \in 0..MaxGen /\ (life.phase = "running" => life.gen # 0)
        BY <3>1 DEF LifeInv, Counting, Lives
      <3> QED BY <3>2, LifeAssumption DEF Gens
    <2> QED BY <2>1 DEF LifeInv, RunningComplete, Calm
  <1>4. Counting' /\ Cleaning'
    BY DEF LifeInv, Counting, Cleaning, Calm, SameCleanup
  <1>5. LoopsLive'
    BY DEF LifeInv, LoopsLive, Calm
  <1>6. Wishes'
    BY DEF Wishes, WaitingCalls, WishOK
  <1> QED BY <1>1, <1>2, <1>3, <1>4, <1>5, <1>6 DEF LifeInv

\* A state of the invariant satisfies what WishStep asks of the next one.
LEMMA WishNow == LifeInv => StopSticks /\ RecoveryNotLost /\ WaitingCalls /\ WishOK
  BY DEF LifeInv, Wishes, WaitingCalls, WishOK

LEMMA CalmSame == ASSUME NEW r PROVE Calm(r, r)
  BY DEF Calm, SameCleanup, Shrinks

\* DriveCommitted, and the returns of calls and workers that change neither wish nor owner.
LEMMA ReturnActions ==
  ASSUME LifeInv,
         \/ \E g \in Gens : DriveCommitted(g)
         \/ \E c \in Requesters : StartReturns(c) \/ StopReturns(c)
         \/ \E w \in DOMAIN workers : RecoveryWakes(w)
  PROVE  LifeInv'
  <1>1. /\ life \in Lives /\ gen \in [Gens -> GenRecs] /\ WorkersOK
        /\ calls \in [Requesters -> CallRecs] /\ tokens \in 0..MaxTokens /\ faults \in 0..MaxFaults
    BY LifeTypes DEF LifeInv
  <1>2. StopSticks /\ RecoveryNotLost /\ WaitingCalls /\ WishOK
    BY WishNow
  <1>3. CASE \E g \in Gens : DriveCommitted(g)
    <2>1. PICK g \in Gens : DriveCommitted(g)
      BY <1>3
    <2> DEFINE r == [gen[g] EXCEPT !.drive = "done", !.starter = FALSE]
    <2>a. gen[g] \in GenRecs
      BY <1>1
    <2>2. /\ r \in GenRecs /\ SameCleanup(r, gen[g]) /\ r.drive = "done" /\ ~r.starter
          /\ r.loop = gen[g].loop /\ r.sup = gen[g].sup /\ r.busy = gen[g].busy
      BY <2>a DEF GenRecs, Drives, SameCleanup
    <2>3. gen' = [gen EXCEPT ![g] = r]
      BY <1>1, <2>1 DEF DriveCommitted
    <2> HIDE DEF r
    <2>4. Calm(r, gen[g])
      BY <2>2 DEF Calm, Shrinks
    <2>5. gen' \in [Gens -> GenRecs] /\ \A h \in Gens : Calm(gen'[h], gen[h])
      BY <1>1, <2>2, <2>3, <2>4, CalmSame
    <2>6. life' = StartCommitted(life, g) /\ UNCHANGED <<workers, calls, tokens, faults>>
      BY <2>1 DEF DriveCommitted
    <2>7. /\ life' \in Lives /\ life'.phase = life.phase /\ life'.gen = life.gen /\ life'.next = life.next
          /\ life'.loops = life.loops /\ life'.desired = life.desired /\ life'.terminal = life.terminal
          /\ life'.exhausted = life.exhausted /\ life'.pending \in {life.pending, NoTicket}
      BY <1>1, <2>6 DEF StartCommitted, Lives
    <2>8. WorkersOK' /\ WaitingCalls' /\ WishOK' /\ StopSticks'
      BY <1>1, <1>2, <2>6, <2>7 DEF WorkersOK, WaitingCalls, WishOK, StopSticks
    <2>9. RecoveryNotLost'
      BY <1>2, <2>5, <2>6, <2>7 DEF RecoveryNotLost, Calm, SameCleanup
    <2> QED BY <1>1, <2>5, <2>6, <2>7, <2>8, <2>9, WishStep
  <1>4. ASSUME UNCHANGED <<life, gen>>, WorkersOK', DOMAIN workers \subseteq DOMAIN workers',
               calls' \in [Requesters -> CallRecs], WaitingCalls', UNCHANGED <<tokens, faults>>
        PROVE  LifeInv'
    <2>1. WishOK' /\ StopSticks' /\ RecoveryNotLost'
      BY <1>2, <1>4 DEF WishOK, StopSticks, RecoveryNotLost
    <2>2. \A h \in Gens : Calm(gen'[h], gen[h])
      BY <1>4, CalmSame
    <2>3. /\ life' \in Lives /\ gen' \in [Gens -> GenRecs] /\ tokens' \in 0..MaxTokens /\ faults' \in 0..MaxFaults
          /\ life'.phase = life.phase /\ life'.gen = life.gen /\ life'.next = life.next /\ life'.loops = life.loops
      BY <1>1, <1>4
    <2> QED BY <1>4, <2>1, <2>2, <2>3, WishStep
  <1>5. CASE \E c \in Requesters : StartReturns(c) \/ StopReturns(c)
    <2>1. PICK c \in Requesters : StartReturns(c) \/ StopReturns(c)
      BY <1>5
    <2>2. /\ UNCHANGED <<life, gen>> /\ workers' = workers /\ UNCHANGED <<tokens, faults>>
          /\ calls' = [calls EXCEPT ![c] = NoRequest]
      BY <2>1 DEF StartReturns, StopReturns
    <2>3. NoRequest \in CallRecs /\ NoRequest.pc = "idle"
      BY LifeAssumption DEF NoRequest, CallRecs
    <2>4. calls' \in [Requesters -> CallRecs] /\ WaitingCalls'
      BY <1>1, <1>2, <2>2, <2>3 DEF WaitingCalls
    <2>5. WorkersOK' /\ DOMAIN workers \subseteq DOMAIN workers'
      BY <1>1, <2>2 DEF WorkersOK
    <2> QED BY <1>4, <2>2, <2>4, <2>5
  <1>6. CASE \E w \in DOMAIN workers : RecoveryWakes(w)
    <2>1. PICK w \in DOMAIN workers : RecoveryWakes(w)
      BY <1>6
    <2>2. UNCHANGED <<life, gen>> /\ calls' = calls /\ UNCHANGED <<tokens, faults>>
          /\ workers' = [workers EXCEPT ![w].at = "backoff"]
      BY <2>1 DEF RecoveryWakes
    <2> DEFINE e == [workers[w] EXCEPT !.at = "backoff"]
    <2>3. e \in WorkerRecs
      BY <1>1 DEF WorkersOK, WorkerRecs
    <2>4. workers' = [workers EXCEPT ![w] = e]
      BY <2>2
    <2> HIDE DEF e
    <2>5. WorkersOK' /\ DOMAIN workers \subseteq DOMAIN workers'
      BY <1>1, <2>3, <2>4 DEF WorkersOK
    <2>6. calls' \in [Requesters -> CallRecs] /\ WaitingCalls'
      BY <1>1, <1>2, <2>2 DEF WaitingCalls
    <2> QED BY <1>4, <2>2, <2>5, <2>6
  <1> QED BY <1>3, <1>5, <1>6

-----------------------------------------------------------------------------
\* A recovery worker is launched for a ticket only while it is the one pending.
WorkerMap(ws) == \A w \in DOMAIN ws : w \in Tickets /\ ws[w] \in WorkerRecs

LEMMA WorkerMapIs == WorkersOK <=> WorkerMap(workers)
  BY DEF WorkersOK, WorkerMap

LEMMA LaunchFacts ==
  ASSUME NEW ws, NEW l \in Lives, NEW ticket \in Tickets \cup {NoTicket}, WorkerMap(ws)
  PROVE  /\ WorkerMap(Launch(ws, l, ticket))
         /\ DOMAIN ws \subseteq DOMAIN Launch(ws, l, ticket)
         /\ ticket # NoTicket /\ l.pending = ticket /\ l.desired = ticket.token => ticket \in DOMAIN Launch(ws, l, ticket)
         /\ Latest(l, ticket) \in Lives
         /\ Latest(l, ticket).phase = l.phase /\ Latest(l, ticket).gen = l.gen
         /\ Latest(l, ticket).next = l.next /\ Latest(l, ticket).exhausted = l.exhausted
         /\ Latest(l, ticket).desired = l.desired /\ Latest(l, ticket).pending = l.pending
         /\ Latest(l, ticket).terminal = l.terminal /\ Latest(l, ticket).loops = l.loops
  <1> DEFINE go == ticket # NoTicket /\ l.pending = ticket /\ l.desired = ticket.token
  <1>1. /\ Latest(l, ticket) \in Lives
        /\ Latest(l, ticket).phase = l.phase /\ Latest(l, ticket).gen = l.gen
        /\ Latest(l, ticket).next = l.next /\ Latest(l, ticket).exhausted = l.exhausted
        /\ Latest(l, ticket).desired = l.desired /\ Latest(l, ticket).pending = l.pending
        /\ Latest(l, ticket).terminal = l.terminal /\ Latest(l, ticket).loops = l.loops
    BY DEF Latest, Lives
  <1>2. CASE go
    <2>1. Launch(ws, l, ticket) = [w \in DOMAIN ws \cup {ticket} |-> IF w = ticket THEN Waiting ELSE ws[w]]
      BY <1>2 DEF Launch
    <2>2. Waiting \in WorkerRecs /\ ticket \in Tickets
      BY <1>2, LifeAssumption DEF Waiting, WorkerRecs
    <2>3. DOMAIN Launch(ws, l, ticket) = DOMAIN ws \cup {ticket}
      BY <2>1
    <2>4. WorkerMap(Launch(ws, l, ticket))
      BY <2>1, <2>2 DEF WorkerMap
    <2> QED BY <1>1, <2>3, <2>4
  <1>3. CASE ~go
    <2>1. Launch(ws, l, ticket) = ws
      BY <1>3 DEF Launch
    <2> QED BY <1>1, <1>3, <2>1
  <1> QED BY <1>2, <1>3

\* A cleanup under way: launched, interrupted or launched again.
LEMMA CleanStep ==
  ASSUME LifeInv, NEW g \in Gens, NEW r \in GenRecs, gen' = [gen EXCEPT ![g] = r],
         gen[g].clean \in {"begun", "stored", "working"}, r.clean \in {"stored", "working"}, r.ticket = NoTicket,
         Shrinks(r, gen[g]), life' \in Lives, WorkersOK', calls' = calls, tokens' = tokens, faults' \in 0..MaxFaults,
         life'.phase = life.phase, life'.gen = life.gen, life'.next = life.next,
         life'.desired = life.desired, life'.terminal = life.terminal, life'.exhausted = life.exhausted,
         life'.pending = life.pending, RecoveryNotLost'
  PROVE  LifeInv'
  <1>1. /\ life \in Lives /\ gen \in [Gens -> GenRecs] /\ calls' \in [Requesters -> CallRecs] /\ tokens' \in 0..MaxTokens
    BY LifeTypes DEF LifeInv
  <1>2. /\ gen' \in [Gens -> GenRecs] /\ gen'[g] = r /\ \A h \in Gens : h # g => gen'[h] = gen[h]
    BY <1>1
  <1>3. life.phase = "stopping" /\ life.gen = g
    BY DEF LifeInv, Cleaning
  <1>4. LifeTypeOK'
    BY <1>1, <1>2 DEF LifeTypeOK, Lives, GenRecs, WorkersOK, WorkerRecs, CallRecs, Drives, SupStates, Cleans, LoopStates
  <1>5. OneGeneration'
    <2> SUFFICES ASSUME NEW h \in Gens, Owned(h)', h # g PROVE FALSE
      BY <1>3 DEF OneGeneration
    <2>1. gen'[h] = gen[h]
      BY <1>2
    <2>2. Owned(h)
      BY <2>1 DEF Owned
    <2> QED BY <1>3, <2>2 DEF LifeInv, OneGeneration
  <1>6. RunningComplete' /\ StopSticks' /\ LoopsLive'
    BY <1>3 DEF RunningComplete, StopSticks, LoopsLive
  <1>7. Counting'
    <2>1. \A h \in Gens : h > life.next => h # g
      BY <1>1, <1>3, GensFacts DEF LifeInv, Counting, Lives
    <2> QED BY <1>2, <1>3, <2>1 DEF LifeInv, Counting
  <1>8. Cleaning'
    BY <1>2, <1>3 DEF LifeInv, Cleaning
  <1>9. Wishes'
    BY DEF LifeInv, Wishes
  <1> QED BY <1>4, <1>5, <1>6, <1>7, <1>8, <1>9 DEF LifeInv

LEMMA CleanupActions ==
  ASSUME LifeInv, NEW g \in Gens, LaunchCleanup(g) \/ CleanupWorkerDies(g) \/ RelaunchCleanup(g)
  PROVE  LifeInv'
  <1>1. /\ life \in Lives /\ gen \in [Gens -> GenRecs] /\ gen[g] \in GenRecs /\ WorkersOK /\ faults \in 0..MaxFaults
    BY LifeTypes DEF LifeInv
  <1>2. CASE LaunchCleanup(g)
    <2> DEFINE r == [gen[g] EXCEPT !.cancelled = TRUE, !.clean = "working", !.ticket = NoTicket]
               ticket == gen[g].ticket
    <2>1. /\ gen[g].clean = "begun" /\ gen' = [gen EXCEPT ![g] = r]
          /\ workers' = Launch(workers, life, ticket) /\ life' = Latest(life, ticket)
          /\ UNCHANGED <<calls, tokens, faults>>
      BY <1>1, <1>2 DEF LaunchCleanup
    <2>2. /\ r \in GenRecs /\ r.clean = "working" /\ r.ticket = NoTicket
          /\ r.starter = gen[g].starter /\ r.busy = gen[g].busy /\ r.loop = gen[g].loop /\ r.sup = gen[g].sup
      BY <1>1 DEF GenRecs, Cleans
    <2> HIDE DEF r
    <2>3. Shrinks(r, gen[g])
      BY <2>2 DEF Shrinks
    <2>4. ticket \in Tickets \cup {NoTicket} /\ WorkerMap(workers)
      BY <1>1, WorkerMapIs DEF GenRecs
    <2>b. ticket = gen[g].ticket
      OBVIOUS
    <2> HIDE DEF ticket
    <2>5. /\ WorkerMap(workers') /\ DOMAIN workers \subseteq DOMAIN workers'
          /\ (ticket # NoTicket /\ life.pending = ticket /\ life.desired = ticket.token => ticket \in DOMAIN workers')
          /\ life' \in Lives
          /\ life'.phase = life.phase /\ life'.gen = life.gen /\ life'.next = life.next
          /\ life'.desired = life.desired /\ life'.terminal = life.terminal /\ life'.exhausted = life.exhausted
          /\ life'.pending = life.pending
      BY <1>1, <2>1, <2>4, LaunchFacts
    <2>6. WorkersOK'
      BY <2>5 DEF WorkersOK, WorkerMap
    <2>7. RecoveryNotLost'
      <3> SUFFICES ASSUME life.pending # NoTicket, life.pending \notin DOMAIN workers'
                   PROVE  \E h \in Gens : gen'[h].ticket = life.pending
        BY <2>5 DEF RecoveryNotLost
      <3>1. PICK h \in Gens : gen[h].ticket = life.pending
        BY <2>5 DEF LifeInv, RecoveryNotLost
      <3>2. life.pending.token = life.desired
        BY DEF LifeInv, Wishes
      <3>3. h # g
        BY <2>5, <2>b, <3>1, <3>2
      <3> QED BY <1>1, <2>1, <3>1, <3>3
    <2> QED BY <1>1, <2>1, <2>2, <2>3, <2>5, <2>6, <2>7, CleanStep
  <1>3. CASE CleanupWorkerDies(g) \/ RelaunchCleanup(g)
    <2>1. PICK x \in {"stored", "working"} :
            /\ gen' = [gen EXCEPT ![g].clean = x] /\ UNCHANGED <<life, workers, calls, tokens>>
            /\ gen[g].clean \in {"stored", "working"} /\ faults' \in 0..MaxFaults
      BY <1>1, <1>3, LifeAssumption DEF CleanupWorkerDies, RelaunchCleanup
    <2> DEFINE r == [gen[g] EXCEPT !.clean = x]
    <2>2. /\ r \in GenRecs /\ r.clean = x /\ r.ticket = gen[g].ticket
          /\ r.starter = gen[g].starter /\ r.busy = gen[g].busy /\ r.loop = gen[g].loop /\ r.sup = gen[g].sup
      BY <1>1 DEF GenRecs, Cleans
    <2>3. gen' = [gen EXCEPT ![g] = r]
      BY <1>1, <2>1
    <2> HIDE DEF r
    <2>4. Shrinks(r, gen[g])
      BY <2>2 DEF Shrinks
    <2>5. gen[g].ticket = NoTicket
      BY <2>1 DEF LifeInv, Cleaning
    <2>6. RecoveryNotLost'
      BY <1>1, <2>1, <2>2, <2>3, <2>5 DEF LifeInv, RecoveryNotLost
    <2>7. WorkersOK' /\ life' \in Lives
      BY <1>1, <2>1 DEF WorkersOK
    <2> QED BY <2>1, <2>2, <2>3, <2>4, <2>5, <2>6, <2>7, CleanStep
  <1> QED BY <1>2, <1>3

LEMMA FinishCleanupInv ==
  ASSUME LifeInv, NEW g \in Gens, FinishCleanup(g)
  PROVE  LifeInv'
  <1>1. /\ life \in Lives /\ gen \in [Gens -> GenRecs] /\ gen[g] \in GenRecs /\ WorkersOK
        /\ calls \in [Requesters -> CallRecs] /\ tokens \in 0..MaxTokens /\ faults \in 0..MaxFaults
    BY LifeTypes DEF LifeInv
  <1> DEFINE r == [gen[g] EXCEPT !.clean = "complete"]
  <1>2. /\ r \in GenRecs /\ r.clean = "complete" /\ r.ticket = gen[g].ticket /\ r.cancelled = gen[g].cancelled
        /\ r.starter = gen[g].starter /\ r.busy = gen[g].busy /\ r.loop = gen[g].loop /\ r.sup = gen[g].sup
    BY <1>1 DEF GenRecs, Cleans
  <1>3. gen' = [gen EXCEPT ![g] = r]
    BY <1>1 DEF FinishCleanup
  <1> HIDE DEF r
  <1>4. /\ gen' \in [Gens -> GenRecs] /\ gen'[g] = r /\ \A h \in Gens : h # g => gen'[h] = gen[h]
    BY <1>1, <1>2, <1>3
  <1>5. gen[g].clean = "working" /\ Drained(g) /\ UNCHANGED <<workers, calls, tokens, faults>>
    BY DEF FinishCleanup
  <1>6. life.phase = "stopping" /\ life.gen = g /\ gen[g].ticket = NoTicket
    BY <1>5 DEF LifeInv, Cleaning
  <1>7. /\ life' \in Lives /\ life'.phase = "stopped" /\ life'.gen = 0 /\ life'.next = life.next
        /\ life'.desired = life.desired /\ life'.terminal = life.terminal /\ life'.exhausted = life.exhausted
        /\ life'.pending = life.pending
    <2> DEFINE none == [t \in Tasks |-> "none"]
    <2>1. none \in [Tasks -> LoopStates] /\ 0 \in 0..MaxGen /\ "stopped" \in Phases
      BY LifeAssumption DEF LoopStates, Phases
    <2>2. life' = [life EXCEPT !.phase = "stopped", !.gen = 0, !.loops = none]
      BY DEF FinishCleanup
    <2> HIDE DEF none
    <2> QED BY <1>1, <2>1, <2>2 DEF Lives
  <1>8. LifeTypeOK'
    <2>1. WorkersOK' /\ calls' \in [Requesters -> CallRecs] /\ tokens' \in 0..MaxTokens /\ faults' \in 0..MaxFaults
      BY <1>1, <1>5 DEF WorkersOK
    <2> QED BY <1>4, <1>7, <2>1 DEF LifeTypeOK, Lives, GenRecs, WorkersOK, WorkerRecs, CallRecs, Drives, SupStates, Cleans, LoopStates
  <1>9. OneGeneration'
    <2> SUFFICES ASSUME NEW h \in Gens, Owned(h)' PROVE FALSE
      BY DEF OneGeneration
    <2>1. CASE h = g
      <3>1. gen'[h] = r
        BY <1>4, <2>1
      <3> QED BY <1>2, <1>5, <2>1, <3>1 DEF Owned, Drained
    <2>2. CASE h # g
      <3>1. gen'[h] = gen[h]
        BY <1>4, <2>2
      <3>2. Owned(h)
        BY <3>1 DEF Owned
      <3> QED BY <1>6, <2>2, <3>2 DEF LifeInv, OneGeneration
    <2> QED BY <2>1, <2>2
  <1>10. RunningComplete' /\ StopSticks' /\ LoopsLive'
    BY <1>7 DEF RunningComplete, StopSticks, LoopsLive
  <1>11. RecoveryNotLost'
    <2> SUFFICES ASSUME life.pending # NoTicket, life.pending \notin DOMAIN workers
                 PROVE  \E h \in Gens : gen'[h].ticket = life.pending
      BY <1>5, <1>7 DEF RecoveryNotLost
    <2>1. PICK h \in Gens : gen[h].ticket = life.pending
      BY DEF LifeInv, RecoveryNotLost
    <2> QED BY <1>4, <1>6, <2>1
  <1>12. Counting'
    <2>1. \A h \in Gens : h > life.next => h # g
      BY <1>1, <1>6, GensFacts DEF LifeInv, Counting, Lives
    <2>2. 0 <= life.next
      BY <1>1 DEF Lives
    <2> QED BY <1>4, <1>7, <2>1, <2>2 DEF LifeInv, Counting
  <1>13. Cleaning'
    <2>1. \A h \in Gens : h # g => gen[h].clean \notin {"begun", "stored", "working"}
      BY <1>6 DEF LifeInv, Cleaning
    <2>2. \A h \in Gens : gen'[h].clean \notin {"begun", "stored", "working"}
      BY <1>2, <1>4, <2>1
    <2>3. \A h \in Gens : gen'[h].cancelled => gen'[h].clean \in {"working", "stored", "complete"}
      BY <1>2, <1>4 DEF LifeInv, Cleaning
    <2>4. \A h \in Gens : gen'[h].ticket # NoTicket => gen'[h].clean = "begun"
      BY <1>2, <1>4, <1>6 DEF LifeInv, Cleaning
    <2> QED BY <1>7, <2>2, <2>3, <2>4 DEF Cleaning
  <1>14. Wishes'
    BY <1>5, <1>7 DEF LifeInv, Wishes
  <1> QED BY <1>8, <1>9, <1>10, <1>11, <1>12, <1>13, <1>14 DEF LifeInv

-----------------------------------------------------------------------------
\* Out of numbers: the wish is gone, the generations are as they were.
LEMMA ExhaustedFacts ==
  ASSUME NEW l \in Lives
  PROVE  /\ Exhausted(l) \in Lives /\ Exhausted(l).phase = l.phase /\ Exhausted(l).gen = l.gen
         /\ Exhausted(l).next = l.next /\ Exhausted(l).loops = l.loops /\ Exhausted(l).pending = NoTicket
  <1>1. 0 \in 0..MaxTokens
    BY LifeAssumption
  <1> DEFINE a == [l EXCEPT !.exhausted = TRUE, !.desired = 0]
  <1>2. Exhausted(l) = [a EXCEPT !.pending = NoTicket, !.attempt = 0]
    BY DEF Exhausted
  <1>3. a \in Lives /\ a.phase = l.phase /\ a.gen = l.gen /\ a.next = l.next /\ a.loops = l.loops
    BY <1>1 DEF Lives
  <1> HIDE DEF a
  <1> DEFINE b == [a EXCEPT !.pending = NoTicket, !.attempt = 0]
  <1>4. b \in Lives
    BY <1>3 DEF Lives
  <1>5. b.phase = a.phase /\ b.gen = a.gen /\ b.next = a.next /\ b.loops = a.loops /\ b.pending = NoTicket
    BY <1>3 DEF Lives
  <1> HIDE DEF b
  <1>6. Exhausted(l) = b
    BY <1>2 DEF b
  <1> QED BY <1>3, <1>4, <1>5, <1>6

\* A start begins: from a stopped lifecycle, with the wish that l carries.
LEMMA StartStep ==
  ASSUME LifeInv, NEW l \in Lives, life.phase = "stopped", l.phase = "stopped", l.gen = life.gen,
         l.next = life.next, l.loops = life.loops, ~l.terminal, l.desired # 0,
         l.pending # NoTicket => l.pending.token = l.desired /\ ~l.exhausted,
         l.pending # NoTicket => l.pending \in DOMAIN workers' \/ \E h \in Gens : gen[h].ticket = l.pending,
         life' = BeginStart(l), gen' = Claimed(BeginStart(l)), WorkersOK', WaitingCalls',
         calls' \in [Requesters -> CallRecs], tokens' \in 0..MaxTokens, faults' \in 0..MaxFaults
  PROVE  LifeInv'
  <1>1. life \in Lives /\ gen \in [Gens -> GenRecs]
    BY LifeTypes DEF LifeInv
  <1>2. CASE l.next = MaxGen
    <2>1. life' = Exhausted(l)
      BY <1>2 DEF BeginStart
    <2>2. /\ life' \in Lives /\ life'.phase = "stopped" /\ life'.gen = l.gen /\ life'.next = l.next
          /\ life'.loops = l.loops /\ life'.pending = NoTicket
      BY <2>1, ExhaustedFacts
    <2>3. gen' = gen
      BY <2>2 DEF Claimed
    <2>4. StopSticks' /\ RecoveryNotLost' /\ WishOK'
      BY <2>2 DEF StopSticks, RecoveryNotLost, WishOK
    <2>5. gen' \in [Gens -> GenRecs] /\ \A h \in Gens : Calm(gen'[h], gen[h])
      BY <1>1, <2>3, CalmSame
    <2> QED BY <2>2, <2>4, <2>5, WishStep
  <1>3. CASE l.next # MaxGen
    <2> DEFINE g == l.next + 1
               none == [t \in Tasks |-> "none"]
    <2>1. life' = [l EXCEPT !.phase = "starting", !.gen = g, !.next = g, !.loops = none]
      BY <1>3 DEF BeginStart
    <2>2. g \in Gens /\ g \in 0..MaxGen /\ g > life.next /\ none \in [Tasks -> LoopStates] /\ \A t \in Tasks : none[t] = "none"
      BY LifeAssumption, <1>3 DEF Gens, Lives, LoopStates
    <2> HIDE DEF none, g
    <2>3. /\ life' \in Lives /\ life'.phase = "starting" /\ life'.gen = g /\ life'.next = g /\ life'.loops = none
          /\ life'.desired = l.desired /\ life'.pending = l.pending /\ life'.terminal = l.terminal
          /\ life'.exhausted = l.exhausted
      BY <2>1, <2>2 DEF Lives, Phases
    <2> DEFINE r == [gen[g] EXCEPT !.starter = TRUE, !.drive = "prepare"]
    <2>4. gen' = [gen EXCEPT ![g] = r]
      <3>1. gen' = [gen EXCEPT ![g].starter = TRUE, ![g].drive = "prepare"]
        BY <2>3 DEF Claimed
      <3> QED BY <1>1, <2>2, <3>1
    <2>5. gen[g] \in GenRecs
      BY <1>1, <2>2
    <2>6. r \in GenRecs /\ SameCleanup(r, gen[g]) /\ r.drive = "prepare"
      BY <2>5 DEF GenRecs, SameCleanup, Drives
    <2> HIDE DEF r
    <2>7. /\ gen' \in [Gens -> GenRecs] /\ gen'[g] = r /\ \A h \in Gens : h # g => gen'[h] = gen[h]
      BY <1>1, <2>2, <2>4, <2>6
    <2>8. life.gen = 0 /\ gen[g].clean = "none"
      BY <2>2 DEF LifeInv, Counting
    <2>9. LifeTypeOK'
      BY <2>3, <2>7 DEF LifeTypeOK, Lives, GenRecs, WorkersOK, WorkerRecs, CallRecs, Drives, SupStates, Cleans, LoopStates
    <2>10. OneGeneration'
      <3> SUFFICES ASSUME NEW h \in Gens, Owned(h)', h # g PROVE FALSE
        BY <2>3 DEF OneGeneration
      <3>1. gen'[h] = gen[h]
        BY <2>7
      <3>2. Owned(h)
        BY <3>1 DEF Owned
      <3> QED BY <2>8, <3>2, GensFacts DEF LifeInv, OneGeneration
    <2>11. RunningComplete' /\ StopSticks'
      BY <2>3 DEF RunningComplete, StopSticks
    <2>12. RecoveryNotLost'
      BY <2>3, <2>6, <2>7 DEF RecoveryNotLost, SameCleanup
    <2>13. Counting'
      <3>1. \A h \in Gens : h > g => gen'[h].clean = "none"
        <4> SUFFICES ASSUME NEW h \in Gens, h > g PROVE gen[h].clean = "none"
          BY <2>2, <2>7, GensFacts
        <4>1. h > life.next
          BY <1>1, <2>2, GensFacts DEF Lives
        <4> QED BY <4>1 DEF LifeInv, Counting
      <3> QED BY <2>2, <2>3, <3>1, GensFacts DEF Counting
    <2>14. Cleaning'
      <3>1. \A h \in Gens : gen[h].clean \notin {"begun", "stored", "working"}
        BY DEF LifeInv, Cleaning
      <3>2. \A h \in Gens : gen'[h].clean = gen[h].clean /\ gen'[h].cancelled = gen[h].cancelled /\ gen'[h].ticket = gen[h].ticket
        BY <2>6, <2>7 DEF SameCleanup
      <3> QED BY <2>3, <2>8, <3>1, <3>2 DEF LifeInv, Cleaning
    <2>15. LoopsLive'
      BY <2>2, <2>3, <2>6, <2>7 DEF LoopsLive
    <2>16. Wishes'
      BY <2>3 DEF Wishes, WaitingCalls
    <2> QED BY <2>9, <2>10, <2>11, <2>12, <2>13, <2>14, <2>15, <2>16 DEF LifeInv
  <1> QED BY <1>2, <1>3

LEMMA BeginStartFacts ==
  ASSUME NEW l \in Lives, l.phase = "stopped"
  PROVE  /\ BeginStart(l).next >= l.next /\ BeginStart(l).next \in 0..MaxGen
         /\ BeginStart(l).gen \in 0..MaxGen
  <1>1. l.next \in 0..MaxGen /\ l.gen \in 0..MaxGen
    BY DEF Lives
  <1>2. CASE l.next = MaxGen
    BY <1>1, <1>2, LifeAssumption DEF BeginStart, Exhausted, Lives
  <1>3. CASE l.next # MaxGen
    <2>1. BeginStart(l).next = l.next + 1 /\ BeginStart(l).gen = l.next + 1
      BY <1>3 DEF BeginStart, Lives
    <2> QED BY <1>1, <1>3, <2>1, LifeAssumption
  <1> QED BY <1>2, <1>3

LEMMA DecideInv ==
  ASSUME LifeInv, NEW c \in Requesters, NEW l \in Lives, NEW token \in 0..MaxTokens, token # 0,
         l.phase = life.phase, l.gen = life.gen, l.next = life.next, l.loops = life.loops,
         l.pending # NoTicket => l.pending.token = l.desired /\ ~l.terminal /\ ~l.exhausted,
         l.pending \in {life.pending, NoTicket},
         l.phase \in {"starting", "running"} => l.desired # 0 /\ ~l.terminal,
         Decide(c, l, token), workers' = workers, tokens' \in 0..MaxTokens, faults' \in 0..MaxFaults
  PROVE  LifeInv'
  <1>1. /\ life \in Lives /\ gen \in [Gens -> GenRecs] /\ WorkersOK /\ calls \in [Requesters -> CallRecs]
    BY LifeTypes DEF LifeInv
  <1>2. RecoveryNotLost /\ WaitingCalls
    BY WishNow
  <1>3. WorkersOK'
    BY <1>1 DEF WorkersOK
  <1>4. ASSUME NEW k \in CallRecs, calls' = [calls EXCEPT ![c] = k],
               k.pc = "await" => k.token # 0 /\ k.gen \in 1..life'.next,
               life'.next >= life.next, life'.next \in 0..MaxGen
        PROVE  calls' \in [Requesters -> CallRecs] /\ WaitingCalls'
    <2>1. \A b \in Requesters : b # c => calls'[b] = calls[b]
      BY <1>1, <1>4
    <2>2. calls' \in [Requesters -> CallRecs] /\ calls'[c] = k
      BY <1>1, <1>4
    <2>3. 1..life.next \subseteq 1..life'.next
      BY <1>1, <1>4, LifeAssumption DEF Lives
    <2> QED BY <1>2, <1>4, <2>1, <2>2, <2>3 DEF WaitingCalls
  <1>5. NoRequest \in CallRecs /\ NoRequest.pc = "idle"
    BY LifeAssumption DEF NoRequest, CallRecs
  <1>6. ASSUME life' = l, gen' = gen, NEW k \in CallRecs, calls' = [calls EXCEPT ![c] = k],
               k.pc = "await" => k.token # 0 /\ k.gen \in 1..life.next
        PROVE  LifeInv'
    <2>1. calls' \in [Requesters -> CallRecs] /\ WaitingCalls'
      <3>1. life'.next = life.next /\ life.next \in 0..MaxGen /\ life.next >= life.next
        BY <1>1, <1>6, LifeAssumption DEF Lives
      <3> QED BY <1>4, <1>6, <3>1
    <2>2. StopSticks' /\ WishOK'
      BY <1>6 DEF StopSticks, WishOK
    <2>3. RecoveryNotLost'
      BY <1>2, <1>6 DEF RecoveryNotLost
    <2>4. \A h \in Gens : Calm(gen'[h], gen[h])
      BY <1>6, CalmSame
    <2> QED BY <1>1, <1>3, <1>6, <2>1, <2>2, <2>3, <2>4, WishStep
  <1>7. CASE life' = l /\ calls' = [calls EXCEPT ![c] = NoRequest] /\ UNCHANGED gen
    BY <1>5, <1>6, <1>7
  <1>8. CASE /\ l.phase = "stopping" /\ life' = l /\ UNCHANGED gen
             /\ calls' = [calls EXCEPT ![c] = [NoRequest EXCEPT !.pc = "await", !.token = token, !.gen = l.gen]]
    <2> DEFINE k == [NoRequest EXCEPT !.pc = "await", !.token = token, !.gen = l.gen]
    <2>1. k \in CallRecs /\ k.token = token /\ k.gen = life.gen
      BY <1>5 DEF CallRecs, Lives
    <2>2. life.gen \in 1..life.next
      BY <1>1, <1>8 DEF LifeInv, Counting, Lives
    <2> HIDE DEF k
    <2>3. calls' = [calls EXCEPT ![c] = k]
      BY <1>8 DEF k
    <2> QED BY <1>6, <1>8, <2>1, <2>2, <2>3
  <1>9. CASE /\ ~l.terminal /\ ~l.exhausted /\ l.desired = token /\ l.phase = "stopped"
             /\ life' = BeginStart(l) /\ gen' = Claimed(BeginStart(l))
             /\ calls' = [calls EXCEPT ![c] =
                   IF BeginStart(l).phase = "starting"
                   THEN [NoRequest EXCEPT !.pc = "drive", !.token = token, !.gen = BeginStart(l).gen] ELSE NoRequest]
    <2> DEFINE d == [NoRequest EXCEPT !.pc = "drive", !.token = token, !.gen = BeginStart(l).gen]
    <2>1. life'.next >= life.next /\ life'.next \in 0..MaxGen /\ BeginStart(l).gen \in 0..MaxGen
      BY <1>9, BeginStartFacts
    <2>2. d \in CallRecs /\ d.pc = "drive"
      BY <1>5, <2>1 DEF CallRecs
    <2> HIDE DEF d
    <2>3. calls' = [calls EXCEPT ![c] = d] \/ calls' = [calls EXCEPT ![c] = NoRequest]
      BY <1>9 DEF d
    <2>4. calls' \in [Requesters -> CallRecs] /\ WaitingCalls'
      <3>1. CASE calls' = [calls EXCEPT ![c] = d]
        BY <1>4, <2>1, <2>2, <3>1
      <3>2. CASE calls' = [calls EXCEPT ![c] = NoRequest]
        BY <1>4, <1>5, <2>1, <3>2
      <3> QED BY <2>3, <3>1, <3>2
    <2>5. l.pending # NoTicket => l.pending \in DOMAIN workers' \/ \E h \in Gens : gen[h].ticket = l.pending
      BY <1>2 DEF RecoveryNotLost
    <2> QED BY <1>3, <1>9, <2>4, <2>5, StartStep
  <1> QED BY <1>7, <1>8, <1>9 DEF Decide

LEMMA StartActions ==
  ASSUME LifeInv, NEW c \in Requesters, StartExplicit(c) \/ StartRefresh(c)
  PROVE  LifeInv'
  <1>1. life \in Lives /\ calls[c] \in CallRecs /\ tokens \in 0..MaxTokens /\ faults \in 0..MaxFaults
    BY LifeTypes DEF LifeInv
  <1>2. CASE StartExplicit(c)
    <2> DEFINE l == [life EXCEPT !.desired = tokens + 1, !.pending = NoTicket, !.attempt = 0]
    <2>1. /\ tokens' = tokens + 1 /\ Decide(c, l, tokens + 1) /\ workers' = workers /\ faults' = faults
          /\ tokens < MaxTokens /\ ~life.terminal
      BY <1>2 DEF StartExplicit
    <2>2. tokens + 1 \in 0..MaxTokens /\ tokens + 1 # 0
      BY <1>1, <2>1, LifeAssumption
    <2>3. /\ l \in Lives /\ l.phase = life.phase /\ l.gen = life.gen /\ l.next = life.next /\ l.loops = life.loops
          /\ l.pending = NoTicket /\ l.desired = tokens + 1 /\ l.terminal = life.terminal
      BY <1>1, <2>2 DEF Lives
    <2> HIDE DEF l
    <2> QED BY <1>1, <2>1, <2>2, <2>3, DecideInv
  <1>3. CASE StartRefresh(c)
    <2>1. calls[c].token \in 0..MaxTokens /\ calls[c].token # 0
      BY <1>1, <1>3 DEF StartRefresh, LifeInv, Wishes, CallRecs
    <2>2. WishOK /\ StopSticks
      BY WishNow
    <2> QED BY <1>1, <1>3, <2>1, <2>2, DecideInv DEF StartRefresh, WishOK, StopSticks
  <1> QED BY <1>2, <1>3

-----------------------------------------------------------------------------
\* Recovery workers.
LEMMA WithoutFacts ==
  ASSUME NEW ws, NEW w, WorkerMap(ws)
  PROVE  WorkerMap(Without(ws, w)) /\ DOMAIN Without(ws, w) = DOMAIN ws \ {w}
  BY DEF Without, WorkerMap

\* A worker that is gone takes its ticket with it only when the ticket is stale.
LEMMA ReconcileInv ==
  ASSUME LifeInv, NEW w \in DOMAIN workers, Reconcile(w),
         gen' \in [Gens -> GenRecs], \A h \in Gens : Calm(gen'[h], gen[h]),
         calls' \in [Requesters -> CallRecs], \A c \in Requesters : calls'[c].pc = "await" => calls'[c] = calls[c],
         tokens' \in 0..MaxTokens, faults' \in 0..MaxFaults
  PROVE  LifeInv'
  <1>1. life \in Lives /\ WorkerMap(workers) /\ w \in Tickets
    BY LifeTypes, WorkerMapIs DEF LifeInv, WorkersOK
  <1>2. StopSticks /\ RecoveryNotLost /\ WaitingCalls /\ WishOK
    BY WishNow
  <1>3. WorkerMap(Without(workers, w)) /\ DOMAIN Without(workers, w) = DOMAIN workers \ {w}
    BY <1>1, WithoutFacts
  <1>4. CASE ~life.terminal /\ ~life.exhausted /\ life.pending = w /\ life.desired = w.token
    <2> DEFINE ticket == [w EXCEPT !.attempt = life.attempt + 1]
               l == Reserve(life, ticket)
    <2>1. life' = Latest(l, ticket) /\ workers' = Launch(Without(workers, w), l, ticket)
      BY <1>4 DEF Reconcile
    <2>2. ticket \in Tickets /\ ticket.token = w.token
      BY <1>1 DEF Tickets, Lives
    <2>3. ticket # NoTicket
      BY <2>2, TicketFacts
    <2> HIDE DEF ticket
    <2>4. /\ l \in Lives /\ l.pending = ticket /\ l.phase = life.phase /\ l.gen = life.gen /\ l.next = life.next
          /\ l.exhausted = life.exhausted /\ l.desired = life.desired /\ l.terminal = life.terminal
          /\ l.loops = life.loops
      BY <1>1, <2>2, <2>3, ReserveFacts
    <2> HIDE DEF l
    <2>5. /\ WorkerMap(workers') /\ ticket \in DOMAIN workers'
          /\ life' \in Lives /\ life'.phase = l.phase /\ life'.gen = l.gen /\ life'.next = l.next
          /\ life'.exhausted = l.exhausted /\ life'.desired = l.desired /\ life'.pending = l.pending
          /\ life'.terminal = l.terminal /\ life'.loops = l.loops
      <3> DEFINE ws == Without(workers, w)
                 m == Launch(ws, l, ticket)
                 k == Latest(l, ticket)
      <3>1. WorkerMap(ws) /\ l \in Lives /\ ticket \in Tickets \cup {NoTicket}
        BY <1>3, <2>2, <2>4
      <3>2. workers' = m /\ life' = k
        BY <2>1
      <3> HIDE DEF ws
      <3>3. /\ WorkerMap(m) /\ DOMAIN ws \subseteq DOMAIN m
            /\ (ticket # NoTicket /\ l.pending = ticket /\ l.desired = ticket.token => ticket \in DOMAIN m)
            /\ k \in Lives /\ k.phase = l.phase /\ k.gen = l.gen /\ k.next = l.next
            /\ k.exhausted = l.exhausted /\ k.desired = l.desired /\ k.pending = l.pending
            /\ k.terminal = l.terminal /\ k.loops = l.loops
        BY <3>1, LaunchFacts
      <3> HIDE DEF m, k
      <3> QED BY <1>4, <2>2, <2>3, <2>4, <3>2, <3>3
    <2>6. WorkersOK'
      BY <2>5 DEF WorkersOK, WorkerMap
    <2>7. RecoveryNotLost' /\ WishOK' /\ StopSticks' /\ WaitingCalls'
      BY <1>2, <1>4, <2>2, <2>4, <2>5 DEF RecoveryNotLost, WishOK, StopSticks, WaitingCalls
    <2> QED BY <2>4, <2>5, <2>6, <2>7, WishStep
  <1>5. CASE ~(~life.terminal /\ ~life.exhausted /\ life.pending = w /\ life.desired = w.token)
    <2>1. life' = life /\ workers' = Without(workers, w)
      BY <1>5 DEF Reconcile
    <2>2. life.pending # NoTicket => life.pending # w
      BY <1>2, <1>5 DEF WishOK
    <2>3. WorkersOK' /\ DOMAIN workers' = DOMAIN workers \ {w}
      BY <1>3, <2>1 DEF WorkersOK, WorkerMap
    <2>4. RecoveryNotLost'
      BY <1>2, <2>1, <2>2, <2>3 DEF RecoveryNotLost, Calm, SameCleanup
    <2>5. WishOK' /\ StopSticks' /\ WaitingCalls'
      BY <1>2, <2>1 DEF WishOK, StopSticks, WaitingCalls
    <2>6. /\ life' \in Lives /\ life'.phase = life.phase /\ life'.gen = life.gen /\ life'.next = life.next
          /\ life'.loops = life.loops
      BY <1>1, <2>1
    <2> QED BY <2>3, <2>4, <2>5, <2>6, WishStep
  <1> QED BY <1>4, <1>5

LEMMA RecoveryEnds ==
  ASSUME LifeInv, NEW w \in DOMAIN workers, Reconcile(w), UNCHANGED <<gen, calls, tokens>>, faults' \in 0..MaxFaults
  PROVE  LifeInv'
  <1>1. /\ gen' \in [Gens -> GenRecs] /\ calls' \in [Requesters -> CallRecs] /\ tokens' \in 0..MaxTokens
    BY LifeTypes DEF LifeInv
  <1>2. \A h \in Gens : Calm(gen'[h], gen[h])
    BY CalmSame
  <1>3. \A c \in Requesters : calls'[c].pc = "await" => calls'[c] = calls[c]
    OBVIOUS
  <1> QED BY <1>1, <1>2, <1>3, ReconcileInv

LEMMA RecoveryActions ==
  ASSUME LifeInv, NEW w \in DOMAIN workers, RecoveryStarts(w) \/ RecoveryReturns(w) \/ RecoveryDies(w)
  PROVE  LifeInv'
  <1>1. /\ life \in Lives /\ gen \in [Gens -> GenRecs] /\ WorkerMap(workers) /\ w \in Tickets
        /\ calls \in [Requesters -> CallRecs] /\ tokens \in 0..MaxTokens /\ faults \in 0..MaxFaults
    BY LifeTypes, WorkerMapIs DEF LifeInv, WorkersOK
  <1>2. CASE RecoveryReturns(w) \/ RecoveryDies(w) \/ (RecoveryStarts(w) /\ ~RecoveryMayStart(life, w))
    <2>1. Reconcile(w) /\ UNCHANGED <<gen, calls, tokens>>
      BY <1>2 DEF RecoveryReturns, RecoveryDies, RecoveryStarts
    <2>2. faults' \in 0..MaxFaults
      BY <1>1, <1>2, LifeAssumption DEF RecoveryReturns, RecoveryDies, RecoveryStarts
    <2> QED BY <2>1, <2>2, RecoveryEnds
  <1>3. CASE RecoveryStarts(w) /\ RecoveryMayStart(life, w)
    <2> DEFINE begun == BeginStart(life)
               e == [at |-> "drive", gen |-> begun.gen]
    <2>1. /\ life' = begun /\ gen' = Claimed(begun) /\ UNCHANGED <<calls, tokens, faults>>
          /\ workers' = IF begun.phase = "starting" THEN [workers EXCEPT ![w] = e] ELSE Without(workers, w)
      BY <1>3 DEF RecoveryStarts
    <2>2. /\ life.phase = "stopped" /\ ~life.terminal /\ ~life.exhausted /\ life.desired = w.token /\ w.token # 0
      BY <1>1, <1>3, TicketFacts DEF RecoveryMayStart
    <2>3. begun.next >= life.next /\ begun.next \in 0..MaxGen /\ begun.gen \in 0..MaxGen
      BY <1>1, <2>2, BeginStartFacts
    <2>4. e \in WorkerRecs
      BY <2>3 DEF WorkerRecs
    <2>5. RecoveryNotLost /\ WaitingCalls /\ WishOK
      BY WishNow
    <2>6. WaitingCalls'
      <3>1. 1..life.next \subseteq 1..begun.next
        BY <1>1, <2>3, LifeAssumption DEF Lives
      <3> QED BY <2>1, <2>5, <3>1 DEF WaitingCalls
    <2>7. calls' \in [Requesters -> CallRecs] /\ tokens' \in 0..MaxTokens /\ faults' \in 0..MaxFaults
      BY <1>1, <2>1
    <2>8. CASE life.next = MaxGen
      <3>1. begun = Exhausted(life)
        BY <2>8 DEF BeginStart
      <3>2. /\ begun \in Lives /\ begun.phase = "stopped" /\ begun.gen = life.gen /\ begun.next = life.next
            /\ begun.loops = life.loops /\ begun.pending = NoTicket
        BY <1>1, <2>2, <3>1, ExhaustedFacts
      <3> HIDE DEF begun
      <3>3. workers' = Without(workers, w)
        BY <2>1, <3>2
      <3>4. WorkersOK'
        BY <1>1, <3>3, WithoutFacts DEF WorkersOK, WorkerMap
      <3>5. gen' = gen
        BY <2>1, <3>2 DEF Claimed
      <3>6. StopSticks' /\ RecoveryNotLost' /\ WishOK'
        BY <2>1, <3>2 DEF StopSticks, RecoveryNotLost, WishOK
      <3>7. gen' \in [Gens -> GenRecs] /\ \A h \in Gens : Calm(gen'[h], gen[h])
        BY <1>1, <3>5, CalmSame
      <3> QED BY <2>1, <2>2, <2>6, <2>7, <3>2, <3>4, <3>6, <3>7, WishStep
    <2>9. CASE life.next # MaxGen
      <3>1. begun.phase = "starting"
        BY <1>1, <2>9 DEF BeginStart, Lives
      <3>2. workers' = [workers EXCEPT ![w] = e]
        BY <2>1, <3>1
      <3> HIDE DEF e
      <3>3. WorkersOK' /\ DOMAIN workers' = DOMAIN workers
        BY <1>1, <2>4, <3>2 DEF WorkersOK, WorkerMap
      <3>4. life.pending # NoTicket => life.pending \in DOMAIN workers' \/ \E h \in Gens : gen[h].ticket = life.pending
        BY <2>5, <3>3 DEF RecoveryNotLost
      <3>5. life.pending # NoTicket => life.pending.token = life.desired /\ ~life.exhausted
        BY <2>5 DEF WishOK
      <3> QED BY <1>1, <2>1, <2>2, <2>6, <2>7, <3>3, <3>4, <3>5, StartStep
    <2> QED BY <2>8, <2>9
  <1> QED BY <1>2, <1>3

\* A start that waits for a cleanup is dropped.
LEMMA DropWaitingStartInv ==
  ASSUME LifeInv, NEW c \in Requesters, DropWaitingStart(c)
  PROVE  LifeInv'
  <1>1. /\ life \in Lives /\ gen \in [Gens -> GenRecs] /\ WorkerMap(workers)
        /\ calls \in [Requesters -> CallRecs] /\ tokens \in 0..MaxTokens /\ faults \in 0..MaxFaults
    BY LifeTypes, WorkerMapIs DEF LifeInv
  <1>2. StopSticks /\ RecoveryNotLost /\ WaitingCalls /\ WishOK
    BY WishNow
  <1> DEFINE failed == IF life.phase = "stopped" THEN life.next ELSE life.gen
             ticket == IF life.desired = calls[c].token THEN ReservedTicket(life, failed) ELSE NoTicket
             l == Reserve(life, ticket)
  <1>3. /\ calls[c].pc = "await" /\ life' = Latest(l, ticket) /\ workers' = Launch(workers, l, ticket)
        /\ calls' = [calls EXCEPT ![c] = NoRequest] /\ UNCHANGED <<gen, tokens, faults>>
    BY DEF DropWaitingStart
  <1>4. failed \in Gens
    <2>1. calls[c].gen \in 1..life.next
      BY <1>2, <1>3 DEF WaitingCalls
    <2>2. life.next \in 0..MaxGen /\ life.gen \in 0..MaxGen
      BY <1>1 DEF Lives
    <2>3. life.next # 0
      BY <2>1, <2>2
    <2>4. life.phase # "stopped" => life.gen # 0
      BY DEF LifeInv, Counting
    <2> QED BY <2>2, <2>3, <2>4 DEF Gens
  <1> HIDE DEF failed
  <1>5. /\ ticket \in Tickets \cup {NoTicket}
        /\ ticket # NoTicket => ticket.token = life.desired /\ ~life.terminal /\ ~life.exhausted
    BY <1>4, ReservedFacts
  <1> HIDE DEF ticket
  <1>6. /\ l \in Lives /\ l.pending = (IF ticket = NoTicket THEN life.pending ELSE ticket)
        /\ l.phase = life.phase /\ l.gen = life.gen /\ l.next = life.next
        /\ l.exhausted = life.exhausted /\ l.desired = life.desired /\ l.terminal = life.terminal
        /\ l.loops = life.loops
    BY <1>1, <1>5, ReserveFacts
  <1> HIDE DEF l
  <1>7. /\ WorkerMap(workers') /\ DOMAIN workers \subseteq DOMAIN workers'
        /\ (ticket # NoTicket /\ l.pending = ticket /\ l.desired = ticket.token => ticket \in DOMAIN workers')
        /\ life' \in Lives /\ life'.phase = l.phase /\ life'.gen = l.gen /\ life'.next = l.next
        /\ life'.exhausted = l.exhausted /\ life'.desired = l.desired /\ life'.pending = l.pending
        /\ life'.terminal = l.terminal /\ life'.loops = l.loops
    <2> DEFINE ws == workers
               m == Launch(ws, l, ticket)
               k == Latest(l, ticket)
    <2>1. WorkerMap(ws) /\ l \in Lives /\ ticket \in Tickets \cup {NoTicket}
      BY <1>1, <1>5, <1>6
    <2>2. workers' = m /\ life' = k
      BY <1>3
    <2> HIDE DEF ws
    <2>3. /\ WorkerMap(m) /\ DOMAIN ws \subseteq DOMAIN m
          /\ (ticket # NoTicket /\ l.pending = ticket /\ l.desired = ticket.token => ticket \in DOMAIN m)
          /\ k \in Lives /\ k.phase = l.phase /\ k.gen = l.gen /\ k.next = l.next
          /\ k.exhausted = l.exhausted /\ k.desired = l.desired /\ k.pending = l.pending
          /\ k.terminal = l.terminal /\ k.loops = l.loops
      BY <2>1, LaunchFacts
    <2> HIDE DEF m, k
    <2> QED BY <2>2, <2>3 DEF ws
  <1>8. WorkersOK'
    BY <1>7 DEF WorkersOK, WorkerMap
  <1>9. RecoveryNotLost'
    <2>1. CASE ticket = NoTicket
      BY <1>2, <1>3, <1>6, <1>7, <2>1 DEF RecoveryNotLost
    <2>2. CASE ticket # NoTicket
      BY <1>5, <1>6, <1>7, <2>2 DEF RecoveryNotLost
    <2> QED BY <2>1, <2>2
  <1>10. WishOK' /\ StopSticks'
    BY <1>2, <1>5, <1>6, <1>7 DEF WishOK, StopSticks
  <1>11. calls' \in [Requesters -> CallRecs] /\ WaitingCalls'
    <2>1. NoRequest \in CallRecs /\ NoRequest.pc = "idle"
      BY LifeAssumption DEF NoRequest, CallRecs
    <2>2. calls' \in [Requesters -> CallRecs] /\ calls'[c] = NoRequest /\ \A b \in Requesters : b # c => calls'[b] = calls[b]
      BY <1>1, <1>3, <2>1
    <2>3. life'.next = life.next
      BY <1>6, <1>7
    <2> QED BY <1>2, <2>1, <2>2, <2>3 DEF WaitingCalls
  <1>12. gen' \in [Gens -> GenRecs] /\ \A h \in Gens : Calm(gen'[h], gen[h])
    BY <1>1, <1>3, CalmSame
  <1> QED BY <1>1, <1>3, <1>6, <1>7, <1>8, <1>9, <1>10, <1>11, <1>12, WishStep

-----------------------------------------------------------------------------
\* Stopping.

\* A lifecycle after stop took the wish away: phase x is what it had, or stopping.
Disabled(l, x) ==
  /\ l \in Lives /\ l.phase = x /\ l.gen = life.gen /\ l.next = life.next /\ l.loops = life.loops
  /\ l.pending = NoTicket

LEMMA StopFacts ==
  ASSUME LifeInv, NEW c, NEW terminal \in BOOLEAN, Stop(c, terminal)
  PROVE  \/ /\ life.phase \notin {"starting", "running"} /\ Disabled(life', life.phase) /\ gen' = gen
         \/ /\ life.phase \in {"starting", "running"} /\ Disabled(life', "stopping")
            /\ gen' = [gen EXCEPT ![life.gen] = [gen[life.gen] EXCEPT !.clean = "begun", !.ticket = NoTicket]]
  <1> DEFINE a == DisableDesired(life)
             d == [a EXCEPT !.terminal = life.terminal \/ terminal]
             q == BeginCleanup(d, life.gen, TRUE)
  <1>1. life \in Lives /\ gen \in [Gens -> GenRecs]
    BY LifeTypes DEF LifeInv
  <1>2. /\ life' = [q.life EXCEPT !.worker = NoTicket]
        /\ gen' = IF q.begun THEN [gen EXCEPT ![life.gen] = Begun(gen[life.gen], q)] ELSE gen
    <2>1. /\ life' = [q.life EXCEPT !.worker = NoTicket]
          /\ gen' = IF q.begun THEN [gen EXCEPT ![life.gen] = Begun(@, q)] ELSE gen
      BY DEF Stop
    <2> QED BY <2>1
  <1>3. Disabled(a, life.phase)
    <2>1. 0 \in 0..MaxTokens
      BY LifeAssumption
    <2>2. a = [life EXCEPT !.desired = 0, !.pending = NoTicket, !.attempt = 0]
      BY DEF DisableDesired
    <2> HIDE DEF a
    <2>3. a \in Lives
      BY <1>1, <2>1, <2>2 DEF Lives
    <2>4. /\ a.phase = life.phase /\ a.gen = life.gen /\ a.next = life.next /\ a.loops = life.loops
          /\ a.pending = NoTicket
      BY <1>1, <2>2 DEF Lives
    <2> QED BY <2>3, <2>4 DEF Disabled
  <1> HIDE DEF a
  <1>4. Disabled(d, life.phase)
    <2>1. (life.terminal \/ terminal) \in BOOLEAN
      BY <1>1 DEF Lives
    <2>2. d \in Lives
      BY <1>3, <2>1 DEF Disabled, Lives
    <2>3. d.phase = a.phase /\ d.gen = a.gen /\ d.next = a.next /\ d.loops = a.loops /\ d.pending = a.pending
      BY <1>3 DEF Disabled, Lives
    <2> QED BY <1>3, <2>2, <2>3 DEF Disabled
  <1> HIDE DEF d
  <1>5. CASE life.phase \notin {"starting", "running"}
    <2>1. q.life = d /\ ~q.begun
      BY <1>4, <1>5 DEF BeginCleanup, Disabled
    <2> HIDE DEF q
    <2>2. gen' = gen /\ life' = [d EXCEPT !.worker = NoTicket]
      BY <1>2, <2>1
    <2>3. Disabled(life', life.phase)
      BY <1>4, <2>2 DEF Disabled, Lives
    <2> QED BY <1>5, <2>2, <2>3
  <1>6. CASE life.phase \in {"starting", "running"}
    <2> DEFINE m == [d EXCEPT !.phase = "stopping"]
    <2>1. q = [life |-> m, begun |-> TRUE, ticket |-> NoTicket]
      <3>1. ~(d.gen # life.gen \/ d.phase \notin {"starting", "running"})
        BY <1>4, <1>6 DEF Disabled
      <3> QED BY <3>1 DEF BeginCleanup, Reserve
    <2>2. Disabled(m, "stopping")
      BY <1>4 DEF Disabled, Lives, Phases
    <2> HIDE DEF m, q
    <2>3. q.life = m /\ q.ticket = NoTicket
      BY <2>1
    <2>4. q.begun
      BY <2>1
    <2>5. life' = [m EXCEPT !.worker = NoTicket]
      BY <1>2, <2>3
    <2>6. Disabled(life', "stopping")
      BY <2>2, <2>5 DEF Disabled, Lives
    <2>7. gen' = [gen EXCEPT ![life.gen] = [gen[life.gen] EXCEPT !.clean = "begun", !.ticket = NoTicket]]
      BY <1>2, <2>3, <2>4 DEF Begun
    <2> QED BY <1>6, <2>6, <2>7
  <1> QED BY <1>5, <1>6

LEMMA StopInv ==
  ASSUME LifeInv, NEW c \in Requesters, NEW terminal \in BOOLEAN, Stop(c, terminal)
  PROVE  LifeInv'
  <1>1. /\ life \in Lives /\ gen \in [Gens -> GenRecs] /\ WorkersOK
        /\ calls \in [Requesters -> CallRecs] /\ tokens \in 0..MaxTokens /\ faults \in 0..MaxFaults
    BY LifeTypes DEF LifeInv
  <1> DEFINE k == [pc |-> "stop", token |-> 0, gen |-> life.gen, worker |-> life.worker]
  <1>2. UNCHANGED <<workers, tokens, faults>> /\ calls' = [calls EXCEPT ![c] = k]
    BY DEF Stop
  <1>3. k \in CallRecs /\ k.pc = "stop"
    BY <1>1, LifeAssumption DEF CallRecs, Lives
  <1> HIDE DEF k
  <1>4. /\ calls' \in [Requesters -> CallRecs] /\ calls'[c] = k /\ \A b \in Requesters : b # c => calls'[b] = calls[b]
        /\ tokens' \in 0..MaxTokens /\ faults' \in 0..MaxFaults
    BY <1>1, <1>2, <1>3
  <1>5. WorkersOK'
    BY <1>1, <1>2 DEF WorkersOK
  <1>6. life'.next = life.next /\ life'.pending = NoTicket /\ life' \in Lives /\ life'.gen = life.gen
    BY StopFacts DEF Disabled
  <1>7. WaitingCalls'
    BY <1>3, <1>4, <1>6, WishNow DEF WaitingCalls
  <1>8. RecoveryNotLost' /\ WishOK'
    BY <1>6 DEF RecoveryNotLost, WishOK
  <1>9. CASE /\ life.phase \notin {"starting", "running"} /\ Disabled(life', life.phase) /\ gen' = gen
    <2>1. StopSticks' /\ life'.phase = life.phase /\ life'.loops = life.loops
      BY <1>9 DEF StopSticks, Disabled
    <2>2. gen' \in [Gens -> GenRecs] /\ \A h \in Gens : Calm(gen'[h], gen[h])
      BY <1>1, <1>9, CalmSame
    <2> QED BY <1>4, <1>5, <1>6, <1>7, <1>8, <2>1, <2>2, WishStep
  <1>10. CASE /\ life.phase \in {"starting", "running"} /\ Disabled(life', "stopping")
              /\ gen' = [gen EXCEPT ![life.gen] = [gen[life.gen] EXCEPT !.clean = "begun", !.ticket = NoTicket]]
    <2> DEFINE g == life.gen
               r == [gen[g] EXCEPT !.clean = "begun", !.ticket = NoTicket]
    <2>1. g \in Gens
      <3>1. life.gen \in 0..MaxGen /\ life.gen # 0
        BY <1>1, <1>10 DEF LifeInv, Counting, Lives
      <3> QED BY <3>1, LifeAssumption DEF Gens
    <2>2. gen[g] \in GenRecs
      BY <1>1, <2>1
    <2>3. /\ r \in GenRecs /\ r.clean = "begun" /\ r.ticket = NoTicket /\ r.cancelled = gen[g].cancelled
          /\ r.starter = gen[g].starter /\ r.busy = gen[g].busy /\ r.loop = gen[g].loop /\ r.sup = gen[g].sup
      BY <2>2 DEF GenRecs, Cleans
    <2>4. gen' = [gen EXCEPT ![g] = r]
      BY <1>10
    <2> HIDE DEF r
    <2>5. gen' \in [Gens -> GenRecs] /\ gen'[g] = r /\ \A h \in Gens : h # g => gen'[h] = gen[h]
      BY <1>1, <2>1, <2>3, <2>4
    <2>6. life'.phase = "stopping" /\ life'.gen = g
      BY <1>10 DEF Disabled
    <2>7. LifeTypeOK'
      BY <1>4, <1>5, <1>6, <2>5 DEF LifeTypeOK, Lives, GenRecs, WorkersOK, WorkerRecs, CallRecs, Drives, SupStates, Cleans, LoopStates
    <2>8. OneGeneration'
      <3> SUFFICES ASSUME NEW h \in Gens, Owned(h)', h # g PROVE FALSE
        BY <2>6 DEF OneGeneration
      <3>1. gen'[h] = gen[h]
        BY <2>5
      <3>2. Owned(h)
        BY <3>1 DEF Owned
      <3> QED BY <3>2 DEF LifeInv, OneGeneration
    <2>9. RunningComplete' /\ StopSticks' /\ LoopsLive'
      BY <2>6 DEF RunningComplete, StopSticks, LoopsLive
    <2>10. Counting'
      <3>1. \A h \in Gens : h > life.next => h # g
        BY <1>1, <2>1, GensFacts DEF LifeInv, Counting, Lives
      <3>2. g # 0 /\ g <= life.next
        BY <2>1, GensFacts DEF LifeInv, Counting
      <3> QED BY <1>6, <2>5, <2>6, <3>1, <3>2 DEF LifeInv, Counting
    <2>11. Cleaning'
      <3>1. gen[g].clean = "none" /\ ~gen[g].cancelled
        BY <1>10, <2>1 DEF LifeInv, Cleaning
      <3>2. \A h \in Gens : gen'[h].clean \in {"begun", "stored", "working"} => h = g
        BY <2>5 DEF LifeInv, Cleaning
      <3>3. \A h \in Gens : gen'[h].cancelled => gen'[h].clean \in {"working", "stored", "complete"}
        BY <2>3, <2>5, <3>1 DEF LifeInv, Cleaning
      <3>4. \A h \in Gens : gen'[h].ticket # NoTicket => gen'[h].clean = "begun"
        BY <2>3, <2>5 DEF LifeInv, Cleaning
      <3> QED BY <2>6, <3>2, <3>3, <3>4 DEF Cleaning
    <2>12. Wishes'
      BY <1>6, <1>7 DEF Wishes, WaitingCalls
    <2> QED BY <1>8, <2>7, <2>8, <2>9, <2>10, <2>11, <2>12 DEF LifeInv
  <1> QED BY <1>9, <1>10, StopFacts

LEMMA StopAbortsInv ==
  ASSUME LifeInv, NEW c \in Requesters, StopAborts(c)
  PROVE  LifeInv'
  <1>1. /\ life \in Lives /\ gen \in [Gens -> GenRecs] /\ WorkersOK
        /\ calls \in [Requesters -> CallRecs] /\ tokens \in 0..MaxTokens /\ faults \in 0..MaxFaults
    BY LifeTypes DEF LifeInv
  <1> DEFINE w == calls[c].worker
             g == workers[w].gen
             k == [calls[c] EXCEPT !.worker = NoTicket]
  <1>2. /\ calls[c].pc = "stop" /\ w \in DOMAIN workers /\ Reconcile(w) /\ UNCHANGED <<tokens, faults>>
        /\ gen' = gen \/ gen' = [gen EXCEPT ![g].drive = "unwind"]
        /\ calls' = [calls EXCEPT ![c] = k]
    BY DEF StopAborts
  <1>3. k \in CallRecs /\ k.pc = "stop"
    BY <1>1, <1>2 DEF CallRecs
  <1> HIDE DEF k
  <1>4. /\ calls' \in [Requesters -> CallRecs]
        /\ \A b \in Requesters : calls'[b].pc = "await" => calls'[b] = calls[b]
        /\ tokens' \in 0..MaxTokens /\ faults' \in 0..MaxFaults
    BY <1>1, <1>2, <1>3
  <1>5. gen' \in [Gens -> GenRecs] /\ \A h \in Gens : Calm(gen'[h], gen[h])
    <2>1. CASE gen' = gen \/ g \notin Gens
      <3>1. gen' = gen
        BY <1>1, <1>2, <2>1
      <3> QED BY <1>1, <3>1, CalmSame
    <2>2. CASE gen' = [gen EXCEPT ![g].drive = "unwind"] /\ g \in Gens
      <3> DEFINE r == [gen[g] EXCEPT !.drive = "unwind"]
      <3>1. gen[g] \in GenRecs
        BY <1>1, <2>2
      <3>2. /\ r \in GenRecs /\ SameCleanup(r, gen[g]) /\ r.drive = "unwind" /\ r.starter = gen[g].starter
            /\ r.loop = gen[g].loop /\ r.sup = gen[g].sup /\ r.busy = gen[g].busy
        BY <3>1 DEF GenRecs, Drives, SameCleanup
      <3>3. gen' = [gen EXCEPT ![g] = r]
        BY <2>2
      <3> HIDE DEF r
      <3>4. Calm(r, gen[g])
        BY <3>2 DEF Calm, Shrinks
      <3> HIDE DEF g
      <3> QED BY <1>1, <2>2, <3>2, <3>3, <3>4, CalmSame
    <2> QED BY <1>2, <2>1, <2>2
  <1> QED BY <1>2, <1>4, <1>5, ReconcileInv

-----------------------------------------------------------------------------
LEMMA LifeNextInv == LifeInv /\ [LifeNext]_lifeVars => LifeInv'
  <1> SUFFICES ASSUME LifeInv, [LifeNext]_lifeVars PROVE LifeInv'
    OBVIOUS
  <1>1. CASE UNCHANGED lifeVars
    BY <1>1 DEF lifeVars, LifeInv, LifeTypeOK, OneGeneration, Owned, RunningComplete, StopSticks, RecoveryNotLost,
                Counting, Cleaning, LoopsLive, Wishes
  <1>2. CASE Work
    <2>1. ASSUME NEW g \in Gens, DriveStart(g) PROVE LifeInv'
      BY <2>1, DriveActions, DriveRegisterInv, ReturnActions, DriveUnwindInv DEF DriveStart
    <2>2. ASSUME NEW g \in Gens, Cleanup(g) PROVE LifeInv'
      BY <2>2, CleanupActions, FinishCleanupInv DEF Cleanup
    <2>3. ASSUME NEW g \in Gens, NEW t \in Tasks, Supervise(g, t) PROVE LifeInv'
      BY <2>3, LoopActions, SupervisorBootsInv, SupervisorEnds, SupervisorCommitsInv DEF Supervise
    <2>4. ASSUME NEW w \in DOMAIN workers, Recover(w) PROVE LifeInv'
      BY <2>4, ReturnActions, RecoveryActions DEF Recover
    <2> QED BY <1>2, <2>1, <2>2, <2>3, <2>4 DEF Work
  <1>3. CASE \E g \in Gens : ClaimActivity(g) \/ ActivityEnds(g)
    BY <1>3, DriveActions
  <1>4. CASE \E c \in Requesters : Serve(c)
    BY <1>4, StartActions, ReturnActions, StopAbortsInv DEF Serve
  <1>5. CASE \E c \in Starters : StartExplicit(c) \/ DropWaitingStart(c)
    BY <1>5, StartActions, DropWaitingStartInv DEF Requesters
  <1>6. CASE \E c \in Stoppers, terminal \in BOOLEAN : Stop(c, terminal)
    BY <1>6, StopInv DEF Requesters
  <1>7. CASE Fault
    BY <1>7, DriveActions, LoopActions, CleanupActions, RecoveryActions DEF Fault
  <1> QED BY <1>1, <1>2, <1>3, <1>4, <1>5, <1>6, <1>7 DEF LifeNext

\* In every behaviour of start, stop, cleanup and recovery: only the current
\* generation owns loops, supervisors or activities (finish_cleanup), Running means
\* that every required loop is approved and alive, nothing runs after a stop or a
\* shutdown, and a reserved recovery is never dropped (reserve_recovery,
\* reconcile_abandoned_recovery).
THEOREM LifecycleIsSafe == LifeSpec => []LifecycleSafe
  <1>1. LifeInv => LifecycleSafe
    BY DEF LifeInv, LifecycleSafe
  <1> QED BY <1>1, LifeInitInv, LifeNextInv, PTL DEF LifeSpec
=============================================================================
