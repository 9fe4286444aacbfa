-------------------------- MODULE StrategyRunsProofs --------------------------
(***************************************************************************)
(* Proofs about StrategyRuns, for any runs, accounts, kinds of actions and  *)
(* bounds.  They follow an action from the document to the exchange and     *)
(* back: what is on disk covers what may have been handed over, memory and  *)
(* disk agree while the store works, and the operation gate keeps a start,  *)
(* a worker's action and a reconciliation apart.                            *)
(*                                                                         *)
(* Most of the invariant is about one run: m is its record in memory, f the *)
(* one on disk, dn whether the store failed, w its worker, x, j and h its    *)
(* orders, journal and reservations, c what it has handed over.              *)
(***************************************************************************)
EXTENDS StrategyRuns, FiniteSetTheorems, TLAPS

Busy == {"prepared", "queued", "sent", "ack"}
Carrying == {"prepared", "queued", "sent"}

\* There is a slot for the order that is open and not owned yet.
Room(d) == IsPlace(d.pend) /\ d.pend.seq \notin d.owned => Cardinality(d.owned) < d.acts

\* What the file holds is a record the store accepts, or the first one.
Disk(f) ==
    /\ ValidRun(f) /\ Room(f)
    /\ f.st = "absent" => f = NewRun
    /\ f.pend.kind = "none" => f.pend = NoAction

Alike(d, e) ==
    /\ e.pend = d.pend /\ e.seq = d.seq /\ e.acts = d.acts /\ e.total = d.total
    /\ e.owned = d.owned /\ e.asked = d.asked /\ e.acct = d.acct /\ e.unknown = d.unknown

\* Memory is the same as the file while the store works, and shut after it failed.
Memory(m, f, dn) ==
    /\ m.st = "absent" => m = NewRun
    /\ dn => m.st \in {"absent", "faulted", "recovery"}
    /\ ~dn => Alike(m, f) /\ (m.st = "absent" <=> f.st = "absent")

Carried(f, w) == w.step \in Carrying => f.pend = w.act /\ w.act # NoAction /\ f.st # "absent"

\* Where the worker stands, and what the document says of it.
Work(m, f, dn, w) ==
    /\ w.step # "off" => m.st # "absent"
    /\ Carried(f, w)
    /\ w.step = "ack" => IsPlace(w.act) /\ w.act.seq \in Seqs
    /\ w.step = "ack" /\ ~dn => m.pend = w.act /\ w.act.seq \in m.owned /\ ~m.unknown
    /\ w.step \in {"loop", "computing"} /\ ~dn => m.pend = NoAction
    /\ w.step = "ending" /\ w.intent = 0 => m.st # "running"

There(x, s) == x[s].st \notin {"none", "rejected"}

\* What the exchange and the journal hold of the action with number s.
Placed(f, x, j) ==
    \A s \in Seqs :
        /\ There(x, s) => s \in f.owned \/ (IsPlace(f.pend) /\ f.pend.seq = s)
        /\ x[s].st # "none" => s <= f.seq
        /\ x[s].by <= f.seq
        /\ j[s] = "rejected" /\ There(x, s) => s \in f.owned
        /\ j[s] = "accepted" => x[s].st # "none"
        /\ s \in f.owned => x[s].st # "none"

Reserved(x, h) ==
    \A s \in Seqs : (x[s].st # "none" => s \in h) /\ (x[s].by # 0 => x[s].by \in h)

\* An action on its way is not at the exchange, and has its record and reservation.
Unsent(w, x, j, h) ==
    w.step \in Carrying =>
        /\ x[w.act.seq].st = "none"
        /\ \A s \in Seqs : x[s].by # w.act.seq
        /\ w.step # "prepared" /\ w.act.kind # "cancel" => w.act.seq \in h
        /\ w.step # "prepared" /\ IsPlace(w.act) => j[w.act.seq] = "pending"

\* What was handed over is counted; an action not handed over yet is counted besides.
Counted(f, w, c) ==
    /\ c.acts <= f.acts /\ c.qty <= f.total /\ ~c.late
    /\ w.step \in {"prepared", "queued"} =>
         /\ c.acts < f.acts
         /\ w.act.kind # "cancel" => c.qty < f.total

RunOK(m, f, dn, w, x, j, h, c) ==
    /\ Disk(f) /\ Memory(m, f, dn) /\ Work(m, f, dn, w)
    /\ Placed(f, x, j) /\ Reserved(x, h) /\ Unsent(w, x, j, h) /\ Counted(f, w, c)

EveryRun ==
    \A r \in Runs : RunOK(doc[r], file.doc[r], down, live[r], exchange[r], journal[r], held[r], sent[r])
-----------------------------------------------------------------------------
Failure == (down => faults > 0) /\ (file.bad => down)

AtStart ==
    /\ start.step # "idle" => start.run \in Runs
    /\ start.step = "saved" =>
         /\ ~IsLive(start.run) /\ ~down
         /\ doc[start.run].st = "running" /\ doc[start.run].pend = NoAction

AtRecovery ==
    recovery.step # "idle" =>
        /\ recovery.run \in Runs /\ ~IsLive(recovery.run)
        /\ doc[recovery.run].st # "absent"
        /\ ~down /\ recovery.step = "ack" =>
             /\ IsPlace(doc[recovery.run].pend)
             /\ doc[recovery.run].pend.seq \in doc[recovery.run].owned
             /\ ~doc[recovery.run].unknown

\* Who holds the operation gate.
Gate ==
    /\ start.step = "saved" <=> gate = "start"
    /\ recovery.step # "idle" <=> gate = "recovery"
    /\ \A r \in Runs : live[r].step \in Busy => gate = "worker"
    /\ \A r, q \in Runs : live[r].step \in Busy /\ live[q].step \in Busy => r = q

\* One run of an account is live, starting or unresolved.
Active(r) == IsLive(r) \/ (start.step = "saved" /\ start.run = r) \/ ~Settled(doc, r)

OneActive ==
    ~down => \A r, q \in Runs : r # q /\ doc[r].acct = doc[q].acct => ~Active(r) \/ ~Active(q)

\* A control that is being recorded has revoked its runs.
Controls ==
    /\ control.step = "idle" => control.runs = {}
    /\ control.step = "record" => control.intent \in {1, 2}
    /\ \A r \in control.runs : IsLive(r) => live[r].intent > 0 \/ r \in overtaken

Revoked ==
    \A r \in Runs : /\ IsLive(r) => live[r].adm >= revoked[r] \/ live[r].intent > 0
                    /\ revoked[r] <= admission

IInv ==
    /\ TypeOK /\ EveryRun /\ Failure /\ AtStart /\ AtRecovery /\ Gate
    /\ OneOpenAction /\ OneActive /\ ShownAsItIs /\ Controls /\ Revoked
-----------------------------------------------------------------------------
Order == [st : {"none", "open", "done", "rejected"}, by : 0..MaxSeq]
Entry == {"none", "pending", "accepted", "rejected"}
Count == [acts : Nat, qty : Nat, late : BOOLEAN]

Fallen(n) ==
    IF n.st = "absent" THEN n
    ELSE [n EXCEPT !.st = IF n.pend = NoAction THEN "faulted" ELSE "recovery"]

\* What a save of n, with the worker v, makes of one run.
Outcome(n, v, dn, f, dn2, m2, f2, w2) ==
    \/ ~dn /\ ~dn2 /\ m2 = n /\ f2 = n /\ w2 = v
    \/ dn2 /\ m2 = Fallen(n) /\ w2 = Revoke(v, 1) /\ (f2 = f \/ (~dn /\ f2 = n))

LEMMA NewRunFacts ==
    /\ NoAction \in Action /\ NoAction.kind = "none" /\ NoAction.seq = 0
    /\ NewRun \in Run /\ NewRun.pend = NoAction /\ NewRun.st = "absent"
    /\ NewRun.owned = {} /\ NewRun.asked = {} /\ NewRun.seq = 0 /\ NewRun.acts = 0
    /\ NewRun.total = 0 /\ NewRun.unknown = FALSE /\ NewRun.acct = 0
    /\ Off \in Worker /\ Off.step = "off" /\ Off.intent = 0 /\ Off.act = NoAction
    /\ NoTicket \in Ticket
  <1>1. 0 \in 0..MaxSeq /\ 0 \in 0..MaxActions /\ 0 \in 0..MaxTotal
    BY BoundAssumption
  <1>2. NoAction \in Action /\ NoAction.kind = "none" /\ NoAction.seq = 0
    BY <1>1 DEF NoAction, Action
  <1>3. NewRun \in Run
    BY <1>1, <1>2 DEF NewRun, Run, Status
  <1>4. Off \in Worker /\ NoTicket \in Ticket
    BY <1>2 DEF Off, Worker, NoTicket, Ticket
  <1> QED BY <1>2, <1>3, <1>4 DEF NewRun, Off

LEMMA NewRunDisk == Disk(NewRun)
  <1>1. Cardinality({}) = 0
    BY FS_EmptySet
  <1> QED BY <1>1, NewRunFacts, BoundAssumption DEF Disk, ValidRun, ValidView, Room, IsPlace

LEMMA RevokeFacts ==
  ASSUME NEW v \in Worker, NEW i \in 1..2
  PROVE  /\ Revoke(v, i) \in Worker /\ Revoke(v, i).step = v.step /\ Revoke(v, i).act = v.act
         /\ Revoke(v, i).adm = v.adm /\ Revoke(v, i).epoch = v.epoch /\ Revoke(v, i).sess = v.sess
         /\ Revoke(v, i).intent >= v.intent
         /\ v.step # "off" => Revoke(v, i).intent > 0
  <1>1. v.intent \in 0..2
    BY DEF Worker
  <1>2. CASE v.step = "off" \/ v.intent >= i
    BY <1>1, <1>2 DEF Revoke
  <1>3. CASE ~(v.step = "off" \/ v.intent >= i)
    <2>1. Revoke(v, i) = [v EXCEPT !.intent = i] /\ i \in 0..2
      BY <1>3 DEF Revoke
    <2>2. [v EXCEPT !.intent = i] \in Worker
      BY <2>1 DEF Worker
    <2>3. /\ [v EXCEPT !.intent = i].step = v.step /\ [v EXCEPT !.intent = i].act = v.act
          /\ [v EXCEPT !.intent = i].adm = v.adm /\ [v EXCEPT !.intent = i].epoch = v.epoch
          /\ [v EXCEPT !.intent = i].sess = v.sess /\ [v EXCEPT !.intent = i].intent = i
      BY DEF Worker
    <2> QED BY <1>1, <1>3, <2>1, <2>2, <2>3
  <1> QED BY <1>2, <1>3

LEMMA FallenFacts ==
  ASSUME NEW n \in Run
  PROVE  /\ Fallen(n) \in Run /\ Alike(n, Fallen(n))
         /\ Fallen(n).st = "absent" <=> n.st = "absent"
         /\ Fallen(n).st \in {"absent", "faulted", "recovery"}
         /\ n.st = "absent" => Fallen(n) = n
  <1>1. CASE n.st = "absent"
    BY <1>1 DEF Fallen, Alike
  <1>2. CASE n.st # "absent"
    <2> DEFINE s == IF n.pend = NoAction THEN "faulted" ELSE "recovery"
    <2>1. Fallen(n) = [n EXCEPT !.st = s] /\ s \in {"faulted", "recovery"}
      BY <1>2 DEF Fallen
    <2> HIDE DEF s
    <2>2. [n EXCEPT !.st = s] \in Run /\ [n EXCEPT !.st = s].st = s
      BY <2>1 DEF Run, Status
    <2>3. Alike(n, [n EXCEPT !.st = s])
      BY DEF Alike, Run
    <2> QED BY <1>2, <2>1, <2>2, <2>3
  <1> QED BY <1>1, <1>2

LEMMA SaveOutcome ==
  ASSUME TypeOK, Failure,
         NEW next \in [Runs -> Run], NEW lv \in [Runs -> Worker], NEW tk \in Ticket,
         SaveWith(next, lv, tk), down \/ ValidDocument(next)
  PROVE  /\ \A r \in Runs : Outcome(next[r], lv[r], down, file.doc[r], down', doc'[r], file'.doc[r], live'[r])
         /\ doc' \in [Runs -> Run] /\ file' \in [doc : [Runs -> Run], bad : BOOLEAN]
         /\ live' \in [Runs -> Worker] /\ ticket' \in Ticket
         /\ down' \in BOOLEAN /\ faults' \in 0..MaxFaults
         /\ Failure'
         /\ down => down' /\ file' = file
         /\ file'.doc = file.doc \/ (file'.doc = next /\ ~down)
         /\ ~down' => ~down /\ doc' = next /\ live' = lv /\ file'.doc = next
         /\ down' => doc' = [r \in Runs |-> Fallen(next[r])] /\ live' = [r \in Runs |-> Revoke(lv[r], 1)]
  <1>0. /\ file \in [doc : [Runs -> Run], bad : BOOLEAN] /\ down \in BOOLEAN /\ faults \in 0..MaxFaults
        /\ MaxFaults \in Nat
    BY BoundAssumption DEF TypeOK
  <1>1. CASE /\ ~down /\ down' = FALSE
             /\ doc' = next /\ file' = [doc |-> next, bad |-> FALSE] /\ live' = lv /\ ticket' = tk
             /\ faults' = faults
    BY <1>0, <1>1 DEF Outcome, Failure
  <1>2. CASE /\ down' = TRUE /\ ticket' = NoTicket /\ doc' = Degraded(next)
             /\ live' = [r \in Runs |-> Revoke(lv[r], 1)]
             /\ down \/ faults < MaxFaults
             /\ faults' = IF down THEN faults ELSE faults + 1
             /\ file' \in IF down THEN {file}
                          ELSE {file, [doc |-> next, bad |-> FALSE], [file EXCEPT !.bad = TRUE]}
    <2>1. doc' = [r \in Runs |-> Fallen(next[r])]
      BY <1>2 DEF Degraded, Fallen, Settled
    <2>2. doc' \in [Runs -> Run] /\ \A r \in Runs : doc'[r] = Fallen(next[r])
      BY <2>1, FallenFacts
    <2>3. live' \in [Runs -> Worker] /\ \A r \in Runs : live'[r] = Revoke(lv[r], 1)
      <3>1. 1 \in 1..2
        OBVIOUS
      <3> QED BY <1>2, <3>1, RevokeFacts
    <2>4. /\ file' \in [doc : [Runs -> Run], bad : BOOLEAN]
          /\ file'.doc = file.doc \/ (file'.doc = next /\ ~down)
          /\ down => file' = file
      <3>1. [file EXCEPT !.bad = TRUE] \in [doc : [Runs -> Run], bad : BOOLEAN]
            /\ [file EXCEPT !.bad = TRUE].doc = file.doc
        BY <1>0
      <3>2. CASE file' = file
        BY <1>0, <3>2
      <3>3. CASE ~down /\ file' = [doc |-> next, bad |-> FALSE]
        BY <3>3
      <3>4. CASE ~down /\ file' = [file EXCEPT !.bad = TRUE]
        BY <3>1, <3>4
      <3> QED BY <1>0, <1>2, <3>2, <3>3, <3>4
    <2>5. faults' \in 0..MaxFaults /\ faults' > 0
      BY <1>0, <1>2 DEF Failure
    <2> QED BY <1>0, <1>2, <2>1, <2>2, <2>3, <2>4, <2>5, NewRunFacts DEF Outcome, Failure
  <1>3. ASSUME NEW unwritten \in {down \/ ~ValidDocument(next)}
        PROVE  unwritten = down
    BY <1>0
  <1> QED BY <1>0, <1>1, <1>2, <1>3 DEF SaveWith

\* A save leaves a run in order when the record it wrote, and the old one where
\* the save may have failed, fit the worker and the exchange.
LEMMA SavedRun ==
  ASSUME NEW f \in Run, NEW dn \in BOOLEAN, NEW n \in Run, NEW v \in Worker,
         NEW dn2 \in BOOLEAN, NEW m2, NEW f2, NEW w2, NEW x, NEW j, NEW h, NEW c,
         Outcome(n, v, dn, f, dn2, m2, f2, w2),
         Disk(f), ~dn => Disk(n), n.st = "absent" => n = NewRun,
         ~dn2 => Work(n, n, FALSE, v),
         v.step # "off" => n.st # "absent", v.step = "ack" => IsPlace(v.act) /\ v.act.seq \in Seqs,
         dn2 => Carried(f, v) /\ Placed(f, x, j) /\ Counted(f, v, c),
         ~dn => Carried(n, v) /\ Placed(n, x, j) /\ Counted(n, v, c),
         Reserved(x, h), Unsent(v, x, j, h)
  PROVE  RunOK(m2, f2, dn2, w2, x, j, h, c)
  <1>1. CASE ~dn /\ ~dn2 /\ m2 = n /\ f2 = n /\ w2 = v
    BY <1>1 DEF RunOK, Memory, Alike, Work
  <1>2. CASE dn2 /\ m2 = Fallen(n) /\ w2 = Revoke(v, 1) /\ (f2 = f \/ (~dn /\ f2 = n))
    <2>1. /\ m2.st \in {"absent", "faulted", "recovery"} /\ (m2.st = "absent" <=> n.st = "absent")
          /\ n.st = "absent" => m2 = n
      BY <1>2, FallenFacts
    <2>2. w2.step = v.step /\ w2.act = v.act
      BY <1>2, RevokeFacts
    <2>3. Disk(f2) /\ Carried(f2, v) /\ Placed(f2, x, j) /\ Counted(f2, v, c)
      BY <1>2
    <2>4. Memory(m2, f2, dn2)
      BY <1>2, <2>1 DEF Memory
    <2>5. Work(m2, f2, dn2, w2)
      BY <1>2, <2>1, <2>2, <2>3 DEF Work, Carried
    <2>6. Unsent(w2, x, j, h) /\ Counted(f2, w2, c)
      BY <2>2, <2>3 DEF Unsent, Counted
    <2> QED BY <2>3, <2>4, <2>5, <2>6 DEF RunOK
  <1> QED BY <1>1, <1>2 DEF Outcome

\* The worker v has nothing under way that w had not.
Quieter(w, v, n) ==
    /\ v.step \in Busy => v.step = w.step /\ v.act = w.act
    /\ v.step \in {"loop", "computing"} => w.step \in {"loop", "computing"} \/ n.pend = NoAction
    /\ v.step # "off" => n.st # "absent"
    /\ v.step = "ending" /\ v.intent = 0 => n.st # "running"

\* Only the status changes, or a callback is counted.
Restated(m, n) ==
    /\ n.pend = m.pend /\ n.acts = m.acts /\ n.total = m.total
    /\ n.owned = m.owned /\ n.asked = m.asked /\ n.unknown = m.unknown
    /\ n.seq = m.seq \/ (n.seq > m.seq /\ m.pend = NoAction)
    /\ n.st = "absent" => n = m

LEMMA StatusRun ==
  ASSUME NEW m \in Run, NEW f \in Run, NEW dn \in BOOLEAN, NEW w \in Worker, NEW n \in Run, NEW v \in Worker,
         NEW dn2 \in BOOLEAN, NEW m2, NEW f2, NEW w2,
         NEW x \in [Seqs -> Order], NEW j, NEW h, NEW c,
         RunOK(m, f, dn, w, x, j, h, c), Outcome(n, v, dn, f, dn2, m2, f2, w2),
         Restated(m, n), Quieter(w, v, n)
  PROVE  RunOK(m2, f2, dn2, w2, x, j, h, c)
  <1>1. /\ Disk(f) /\ Memory(m, f, dn) /\ Work(m, f, dn, w)
        /\ Placed(f, x, j) /\ Reserved(x, h) /\ Unsent(w, x, j, h) /\ Counted(f, w, c)
    BY DEF RunOK
  <1>2. n.st = "absent" => n = NewRun
    BY <1>1 DEF Restated, Memory
  <1>3. dn => dn2
    BY DEF Outcome
  <1>4. ~dn => /\ n.pend = f.pend /\ n.acts = f.acts /\ n.total = f.total /\ n.owned = f.owned
               /\ n.asked = f.asked /\ n.unknown = f.unknown
               /\ n.seq = f.seq \/ (n.seq > f.seq /\ f.pend = NoAction)
               /\ Alike(m, f)
    BY <1>1 DEF Memory, Alike, Restated
  <1>5. f.seq \in Nat /\ n.seq \in Nat /\ f.acts \in Nat
    BY DEF Run
  <1>6. ~dn => Disk(n)
    BY <1>1, <1>2, <1>4, <1>5 DEF Disk, ValidRun, ValidView, Room
  <1>7. Unsent(v, x, j, h)
    BY <1>1 DEF Unsent, Quieter, Carrying, Busy
  <1>8. Carried(f, v) /\ Placed(f, x, j) /\ Counted(f, v, c)
    BY <1>1 DEF Carried, Counted, Quieter, Carrying, Busy, Work
  <1>9. ASSUME ~dn PROVE Carried(n, v) /\ Placed(n, x, j) /\ Counted(n, v, c)
    <2>1. Carried(n, v) /\ Counted(n, v, c)
      BY <1>4, <1>8, <1>9 DEF Carried, Counted, Quieter, Carrying
    <2>2. \A s \in Seqs : s \in Nat /\ x[s].by \in Nat
      BY BoundAssumption DEF Seqs, Order
    <2>3. Placed(n, x, j)
      BY <1>4, <1>5, <1>8, <1>9, <2>2 DEF Placed
    <2> QED BY <2>1, <2>3
  <1>10. v.step = "ack" => IsPlace(v.act) /\ v.act.seq \in Seqs
    BY <1>1 DEF Work, Quieter, Busy
  <1>11. ASSUME ~dn2 PROVE Work(n, n, FALSE, v)
    <2>1. ~dn
      BY <1>3, <1>11
    <2>2. v.step = "ack" => n.pend = v.act /\ v.act.seq \in n.owned /\ ~n.unknown
      BY <1>1, <2>1 DEF Work, Quieter, Busy, Restated
    <2>3. v.step \in {"loop", "computing"} => n.pend = NoAction
      BY <1>1, <2>1 DEF Work, Quieter, Restated
    <2> QED BY <1>9, <1>10, <2>1, <2>2, <2>3 DEF Work, Quieter
  <1>12. v.step # "off" => n.st # "absent"
    BY DEF Quieter
  <1> HIDE DEF Outcome
  <1> QED BY <1>1, <1>2, <1>6, <1>7, <1>8, <1>9, <1>10, <1>11, <1>12, SavedRun

\* The same when nothing is saved.
LEMMA QuietRun ==
  ASSUME NEW m \in Run, NEW f, NEW dn \in BOOLEAN, NEW w \in Worker, NEW v \in Worker,
         NEW x, NEW j, NEW h, NEW c,
         RunOK(m, f, dn, w, x, j, h, c), Quieter(w, v, m)
  PROVE  RunOK(m, f, dn, v, x, j, h, c)
  <1>1. /\ Disk(f) /\ Memory(m, f, dn) /\ Work(m, f, dn, w)
        /\ Placed(f, x, j) /\ Reserved(x, h) /\ Unsent(w, x, j, h) /\ Counted(f, w, c)
    BY DEF RunOK
  <1>2. Unsent(v, x, j, h)
    BY <1>1 DEF Unsent, Quieter, Carrying, Busy
  <1>3. Carried(f, v) /\ Counted(f, v, c)
    BY <1>1 DEF Carried, Counted, Quieter, Carrying, Busy, Work
  <1>4. Work(m, f, dn, v)
    BY <1>1, <1>3 DEF Work, Quieter, Busy
  <1> QED BY <1>1, <1>2, <1>3, <1>4 DEF RunOK
-----------------------------------------------------------------------------
\* The parts of the invariant for one run, with its types.
LEMMA OneRun ==
  ASSUME TypeOK, EveryRun, NEW r \in Runs
  PROVE  /\ doc[r] \in Run /\ file.doc[r] \in Run /\ live[r] \in Worker /\ down \in BOOLEAN
         /\ exchange[r] \in [Seqs -> Order] /\ journal[r] \in [Seqs -> Entry]
         /\ held[r] \in SUBSET Seqs /\ sent[r] \in Count
         /\ Disk(file.doc[r]) /\ Memory(doc[r], file.doc[r], down)
         /\ Work(doc[r], file.doc[r], down, live[r])
         /\ Placed(file.doc[r], exchange[r], journal[r]) /\ Reserved(exchange[r], held[r])
         /\ Unsent(live[r], exchange[r], journal[r], held[r])
         /\ Counted(file.doc[r], live[r], sent[r])
         /\ ~down => Disk(doc[r])
  <1>1. /\ doc[r] \in Run /\ live[r] \in Worker /\ down \in BOOLEAN
        /\ file.doc[r] \in Run
    BY DEF TypeOK
  <1>2. /\ exchange[r] \in [Seqs -> Order] /\ journal[r] \in [Seqs -> Entry]
        /\ held[r] \in SUBSET Seqs /\ sent[r] \in Count
    BY DEF TypeOK, Order, Entry, Count
  <1>3. RunOK(doc[r], file.doc[r], down, live[r], exchange[r], journal[r], held[r], sent[r])
    BY DEF EveryRun
  <1>4. ASSUME ~down PROVE Disk(doc[r])
    <2>1. /\ Alike(doc[r], file.doc[r]) /\ Disk(file.doc[r])
          /\ doc[r].st = "absent" => doc[r] = NewRun
      BY <1>3, <1>4 DEF RunOK, Memory
    <2> QED BY <2>1 DEF Disk, Alike, ValidRun, ValidView, Room
  <1> QED BY <1>1, <1>2, <1>3, <1>4 DEF RunOK

\* A save that changes the record n and the worker v of one run.
LEMMA SaveOne ==
  ASSUME IInv, NEW r \in Runs, NEW n \in Run, NEW v \in Worker, NEW tk \in Ticket,
         SaveWith([doc EXCEPT ![r] = n], [live EXCEPT ![r] = v], tk),
         down \/ Disk(n),
         \A q \in Runs \ {r} : /\ exchange'[q] = exchange[q] /\ journal'[q] = journal[q]
                               /\ held'[q] = held[q] /\ sent'[q] = sent[q]
  PROVE  /\ doc' \in [Runs -> Run] /\ file' \in [doc : [Runs -> Run], bad : BOOLEAN]
         /\ live' \in [Runs -> Worker] /\ ticket' \in Ticket
         /\ down' \in BOOLEAN /\ faults' \in 0..MaxFaults
         /\ Failure'
         /\ Outcome(n, v, down, file.doc[r], down', doc'[r], file'.doc[r], live'[r])
         /\ \A q \in Runs \ {r} :
              /\ RunOK(doc'[q], file'.doc[q], down', live'[q], exchange'[q], journal'[q], held'[q], sent'[q])
              /\ live'[q].step = live[q].step /\ live'[q].adm = live[q].adm /\ live'[q].intent >= live[q].intent
              /\ doc'[q].st = "absent" <=> doc[q].st = "absent"
              /\ ~down' => doc'[q] = doc[q] /\ live'[q] = live[q]
         /\ live'[r].step = v.step /\ live'[r].adm = v.adm /\ live'[r].intent >= v.intent
         /\ doc'[r].st = "absent" <=> n.st = "absent"
         /\ ~down' => doc'[r] = n /\ live'[r] = v
         /\ down' => \A q \in Runs : doc'[q].st \in {"absent", "faulted", "recovery"}
         /\ down => down'
         /\ file'.doc = file.doc \/ (file'.doc = [doc EXCEPT ![r] = n] /\ ~down)
  <1>0. TypeOK /\ EveryRun /\ Failure /\ doc \in [Runs -> Run] /\ live \in [Runs -> Worker] /\ down \in BOOLEAN
    BY DEF IInv, TypeOK
  <1> DEFINE next == [doc EXCEPT ![r] = n]
             lv == [live EXCEPT ![r] = v]
  <1>1. /\ next \in [Runs -> Run] /\ lv \in [Runs -> Worker]
        /\ next[r] = n /\ lv[r] = v
        /\ \A q \in Runs \ {r} : next[q] = doc[q] /\ lv[q] = live[q]
    BY <1>0
  <1>2. down \/ ValidDocument(next)
    <2>1. ASSUME ~down PROVE \A q \in Runs : ValidRun(next[q])
      BY <1>0, <1>1, <2>1, OneRun DEF Disk
    <2> QED BY <2>1 DEF ValidDocument
  <1> HIDE DEF next, lv
  <1>3. SaveWith(next, lv, tk)
    BY DEF next, lv
  <1>4. /\ \A q \in Runs : Outcome(next[q], lv[q], down, file.doc[q], down', doc'[q], file'.doc[q], live'[q])
        /\ doc' \in [Runs -> Run] /\ file' \in [doc : [Runs -> Run], bad : BOOLEAN]
        /\ live' \in [Runs -> Worker] /\ ticket' \in Ticket
        /\ down' \in BOOLEAN /\ faults' \in 0..MaxFaults
        /\ Failure'
        /\ down => down'
        /\ file'.doc = file.doc \/ (file'.doc = next /\ ~down)
    BY <1>0, <1>1, <1>2, <1>3, SaveOutcome
  <1>5. ASSUME NEW q \in Runs
        PROVE  /\ live'[q].step = lv[q].step /\ live'[q].adm = lv[q].adm /\ live'[q].intent >= lv[q].intent
               /\ doc'[q].st = "absent" <=> next[q].st = "absent"
               /\ ~down' => doc'[q] = next[q] /\ live'[q] = lv[q]
               /\ down' => doc'[q].st \in {"absent", "faulted", "recovery"}
    <2>1. Outcome(next[q], lv[q], down, file.doc[q], down', doc'[q], file'.doc[q], live'[q])
      BY <1>4
    <2>2. next[q] \in Run /\ lv[q] \in Worker /\ lv[q].intent \in Nat
      BY <1>1 DEF Worker
    <2>3. CASE ~down' /\ doc'[q] = next[q] /\ live'[q] = lv[q]
      BY <2>2, <2>3
    <2>4. CASE down' /\ doc'[q] = Fallen(next[q]) /\ live'[q] = Revoke(lv[q], 1)
      BY <2>2, <2>4, FallenFacts, RevokeFacts
    <2> QED BY <2>1, <2>3, <2>4 DEF Outcome
  <1>6. ASSUME NEW q \in Runs \ {r}
        PROVE  RunOK(doc'[q], file'.doc[q], down', live'[q], exchange'[q], journal'[q], held'[q], sent'[q])
    <2>1. /\ RunOK(doc[q], file.doc[q], down, live[q], exchange[q], journal[q], held[q], sent[q])
          /\ Work(doc[q], file.doc[q], down, live[q])
          /\ doc[q] \in Run /\ file.doc[q] \in Run /\ live[q] \in Worker /\ exchange[q] \in [Seqs -> Order]
      BY <1>0, OneRun DEF EveryRun
    <2>2. Outcome(doc[q], live[q], down, file.doc[q], down', doc'[q], file'.doc[q], live'[q])
      BY <1>1, <1>4
    <2>3. Restated(doc[q], doc[q])
      BY DEF Restated
    <2>4. Quieter(live[q], live[q], doc[q])
      BY <2>1 DEF Quieter, Work
    <2>5. /\ exchange'[q] = exchange[q] /\ journal'[q] = journal[q]
          /\ held'[q] = held[q] /\ sent'[q] = sent[q]
      OBVIOUS
    <2>6. RunOK(doc'[q], file'.doc[q], down', live'[q], exchange[q], journal[q], held[q], sent[q])
      <3>1. down \in BOOLEAN /\ down' \in BOOLEAN
        BY <1>0, <1>4
      <3> QED BY <2>1, <2>2, <2>3, <2>4, <3>1, StatusRun
    <2> QED BY <2>5, <2>6
  <1>7. Outcome(n, v, down, file.doc[r], down', doc'[r], file'.doc[r], live'[r])
    BY <1>1, <1>4
  <1> QED BY <1>1, <1>4, <1>5, <1>6, <1>7 DEF next

\* Only an active run has an open action, so two runs of an account never have.
LEMMA OneOpenKept ==
  ASSUME IInv, NEW next \in [Runs -> Run],
         \A q \in Runs : next[q].acct = doc[q].acct /\ (next[q].pend # NoAction => Active(q)),
         file'.doc = file.doc \/ (file'.doc = next /\ ~down)
  PROVE  OneOpenAction'
  <1>1. CASE file'.doc = file.doc
    BY <1>1 DEF IInv, OneOpenAction, Settled
  <1>2. CASE file'.doc = next /\ ~down
    <2> SUFFICES ASSUME NEW r \in Runs, NEW q \in Runs, r # q, next[r].acct = next[q].acct
                 PROVE  next[r].pend = NoAction \/ next[q].pend = NoAction
      BY <1>2 DEF OneOpenAction, Settled
    <2>1. ~Active(r) \/ ~Active(q)
      BY <1>2 DEF IInv, OneActive
    <2> QED BY <2>1
  <1> QED BY <1>1, <1>2

\* No run comes to life, and none that was revoked is released.
Tamer(q) ==
    live'[q].step # "off" =>
        live[q].step # "off" /\ live'[q].adm = live[q].adm /\ live'[q].intent >= live[q].intent

LEMMA Tamed ==
  ASSUME IInv, live' \in [Runs -> Worker], \A q \in Runs : Tamer(q),
         UNCHANGED <<admission, revoked>>, overtaken \subseteq overtaken'
  PROVE  Revoked' /\ (control' = control => Controls')
  <1>0. /\ live \in [Runs -> Worker] /\ Controls /\ Revoked /\ control.runs \subseteq Runs
    BY DEF IInv, TypeOK
  <1>1. \A q \in Runs : live'[q].step # "off" /\ live[q].intent > 0 => live'[q].intent > 0
    <2> SUFFICES ASSUME NEW q \in Runs, live'[q].step # "off", live[q].intent > 0
                 PROVE  live'[q].intent > 0
      OBVIOUS
    <2>1. live[q].intent \in 0..2 /\ live'[q].intent \in 0..2
      <3>1. live[q] \in Worker /\ live'[q] \in Worker
        BY <1>0
      <3> QED BY <3>1 DEF Worker
    <2>2. live'[q].intent >= live[q].intent
      BY DEF Tamer
    <2> QED BY <2>1, <2>2
  <1>2. Revoked'
    BY <1>0, <1>1 DEF Revoked, IsLive, Tamer
  <1>3. control' = control => Controls'
    BY <1>0, <1>1 DEF Controls, IsLive, Tamer
  <1> QED BY <1>2, <1>3

\* A save of the worker of r.
LEMMA WorkerSave ==
  ASSUME IInv, NEW r \in Runs, NEW n \in Run, NEW v \in Worker,
         IsLive(r), Unlocked, Save([doc EXCEPT ![r] = n], [live EXCEPT ![r] = v]),
         down \/ Disk(n), n.st # "absent", n.acct = doc[r].acct,
         v.step # "off" => v.intent = live[r].intent /\ v.adm = live[r].adm,
         n.st = "running" => v.step # "off",
         n.st = "stopping" => doc[r].st = "stopping" /\ (v.step # "off" \/ live[r].intent = 0),
         UNCHANGED workerRest, gate' \in {"free", "start", "worker", "recovery"},
         \/ v.step \in Busy /\ gate' = "worker" /\ (gate = "free" \/ live[r].step \in Busy)
         \/ v.step \notin Busy /\ live[r].step \in Busy /\ gate' = "free"
         \/ v.step \notin Busy /\ live[r].step \notin Busy /\ gate' = gate,
         exchange' \in [Runs -> [Seqs -> Order]], journal' \in [Runs -> [Seqs -> Entry]],
         held' \in [Runs -> SUBSET Seqs], sent' \in [Runs -> Count],
         \A q \in Runs \ {r} : /\ exchange'[q] = exchange[q] /\ journal'[q] = journal[q]
                               /\ held'[q] = held[q] /\ sent'[q] = sent[q],
         Outcome(n, v, down, file.doc[r], down', doc'[r], file'.doc[r], live'[r]) =>
            RunOK(doc'[r], file'.doc[r], down', live'[r], exchange'[r], journal'[r], held'[r], sent'[r])
  PROVE  IInv'
  <1>0. /\ TypeOK /\ EveryRun /\ Failure /\ AtStart /\ AtRecovery /\ Gate
        /\ OneOpenAction /\ OneActive /\ ShownAsItIs /\ Controls /\ Revoked
        /\ doc \in [Runs -> Run] /\ live \in [Runs -> Worker] /\ ticket \in Ticket
    BY DEF IInv, TypeOK
  <1>1. /\ start' = start /\ control' = control /\ recovery' = recovery
        /\ UNCHANGED <<admission, closed, epoch, session, revoked, overtaken>>
    BY DEF workerRest, request
  <1>2. /\ doc' \in [Runs -> Run] /\ file' \in [doc : [Runs -> Run], bad : BOOLEAN]
        /\ live' \in [Runs -> Worker] /\ ticket' \in Ticket
        /\ down' \in BOOLEAN /\ faults' \in 0..MaxFaults
        /\ Failure'
        /\ Outcome(n, v, down, file.doc[r], down', doc'[r], file'.doc[r], live'[r])
        /\ \A q \in Runs \ {r} :
             /\ RunOK(doc'[q], file'.doc[q], down', live'[q], exchange'[q], journal'[q], held'[q], sent'[q])
             /\ live'[q].step = live[q].step /\ live'[q].adm = live[q].adm /\ live'[q].intent >= live[q].intent
             /\ doc'[q].st = "absent" <=> doc[q].st = "absent"
             /\ ~down' => doc'[q] = doc[q] /\ live'[q] = live[q]
        /\ live'[r].step = v.step /\ live'[r].adm = v.adm /\ live'[r].intent >= v.intent
        /\ doc'[r].st = "absent" <=> n.st = "absent"
        /\ ~down' => doc'[r] = n /\ live'[r] = v
        /\ down' => \A q \in Runs : doc'[q].st \in {"absent", "faulted", "recovery"}
        /\ down => down'
        /\ file'.doc = file.doc \/ (file'.doc = [doc EXCEPT ![r] = n] /\ ~down)
    BY <1>0, SaveOne DEF Save
  <1>3. TypeOK'
    BY <1>0, <1>1, <1>2 DEF TypeOK, Order, Entry, Count
  <1>4. EveryRun'
    BY <1>2 DEF EveryRun
  <1>5. AtStart'
    BY <1>0, <1>1 DEF AtStart, Unlocked
  <1>6. AtRecovery'
    <2> SUFFICES ASSUME recovery.step # "idle" PROVE AtRecovery'
      BY <1>1 DEF AtRecovery
    <2>1. recovery.run \in Runs \ {r}
      BY <1>0 DEF AtRecovery
    <2> QED BY <1>0, <1>1, <1>2, <2>1 DEF AtRecovery, IsLive
  <1>7. Gate'
    <2>1. start'.step # "saved" /\ gate # "start"
      BY <1>0, <1>1 DEF Gate, Unlocked
    <2>2. \A q \in Runs \ {r} : live'[q].step \in Busy <=> live[q].step \in Busy
      BY <1>2
    <2>3. live'[r].step \in Busy <=> v.step \in Busy
      BY <1>2
    <2> QED BY <1>0, <1>1, <2>1, <2>2, <2>3 DEF Gate
  <1>8. OneOpenAction'
    <2> DEFINE next == [doc EXCEPT ![r] = n]
    <2>1. next \in [Runs -> Run] /\ next[r] = n /\ \A q \in Runs \ {r} : next[q] = doc[q]
      BY <1>0
    <2>2. \A q \in Runs : next[q].acct = doc[q].acct /\ (next[q].pend # NoAction => Active(q))
      BY <2>1 DEF Active, Settled
    <2>3. file'.doc = file.doc \/ (file'.doc = next /\ ~down)
      BY <1>2
    <2> HIDE DEF next
    <2> QED BY <2>1, <2>2, <2>3, OneOpenKept
  <1>9. OneActive'
    <2> SUFFICES ASSUME ~down' PROVE OneActive'
      BY DEF OneActive
    <2>1. ~down
      BY <1>2
    <2>2. \A q \in Runs : doc'[q].acct = doc[q].acct /\ (Active(q)' => Active(q))
      BY <1>1, <1>2 DEF Active, IsLive, Settled
    <2> QED BY <1>0, <2>1, <2>2 DEF OneActive
  <1>10. ShownAsItIs'
    <2>1. CASE down'
      BY <1>2, <2>1 DEF ShownAsItIs
    <2>2. CASE ~down'
      <3> SUFFICES ASSUME NEW q \in Runs
                   PROVE  /\ doc'[q].st = "running" => IsLive(q)' \/ (start'.step = "saved" /\ start'.run = q)
                          /\ doc'[q].st = "stopping" => (IsLive(q)' /\ live'[q].intent > 0) \/ q \in overtaken'
        BY DEF ShownAsItIs
      <3>1. CASE q # r
        BY <1>0, <1>1, <1>2, <2>2, <3>1 DEF ShownAsItIs, IsLive
      <3>2. CASE q = r
        BY <1>0, <1>1, <1>2, <2>2, <3>2 DEF ShownAsItIs, IsLive
      <3> QED BY <3>1, <3>2
    <2> QED BY <1>2, <2>1, <2>2
  <1>11. \A q \in Runs : Tamer(q)
    BY <1>2 DEF IsLive, Tamer
  <1>12. Controls' /\ Revoked'
    BY <1>1, <1>2, <1>11, Tamed
  <1> QED BY <1>2, <1>3, <1>4, <1>5, <1>6, <1>7, <1>8, <1>9, <1>10, <1>12 DEF IInv

\* A step of the worker of r that saves nothing.
LEMMA WorkerMove ==
  ASSUME IInv, NEW r \in Runs, NEW v \in Worker,
         IsLive(r), live' = [live EXCEPT ![r] = v],
         UNCHANGED <<doc, file, down, ticket, faults, workerRest>>,
         v.step # "off" => v.intent = live[r].intent /\ v.adm = live[r].adm,
         v.step = "off" => down,
         gate' = gate, v.step \in Busy <=> live[r].step \in Busy,
         exchange' \in [Runs -> [Seqs -> Order]], journal' \in [Runs -> [Seqs -> Entry]],
         held' \in [Runs -> SUBSET Seqs], sent' \in [Runs -> Count],
         \A q \in Runs \ {r} : /\ exchange'[q] = exchange[q] /\ journal'[q] = journal[q]
                               /\ held'[q] = held[q] /\ sent'[q] = sent[q],
         RunOK(doc[r], file.doc[r], down, v, exchange'[r], journal'[r], held'[r], sent'[r])
  PROVE  IInv'
  <1>0. /\ TypeOK /\ EveryRun /\ Failure /\ AtStart /\ AtRecovery /\ Gate
        /\ OneOpenAction /\ OneActive /\ ShownAsItIs /\ Controls /\ Revoked
        /\ live \in [Runs -> Worker]
    BY DEF IInv, TypeOK
  <1>1. /\ start' = start /\ control' = control /\ recovery' = recovery
        /\ UNCHANGED <<doc, file, down, ticket, faults, admission, closed, epoch, session, revoked, overtaken>>
    BY DEF workerRest, request
  <1>2. live' \in [Runs -> Worker] /\ live'[r] = v /\ \A q \in Runs \ {r} : live'[q] = live[q]
    BY <1>0
  <1>3. TypeOK'
    BY <1>0, <1>1, <1>2 DEF TypeOK, Order, Entry, Count
  <1>4. EveryRun'
    BY <1>0, <1>1, <1>2 DEF EveryRun
  <1>5. \A q \in Runs : live'[q].step # "off" =>
            live[q].step # "off" /\ live'[q].adm = live[q].adm /\ live'[q].intent = live[q].intent
    BY <1>2 DEF IsLive
  <1>6. AtStart' /\ AtRecovery'
    BY <1>0, <1>1, <1>5 DEF AtStart, AtRecovery, IsLive
  <1>7. Gate'
    BY <1>0, <1>1, <1>2 DEF Gate
  <1>8. OneOpenAction' /\ Failure'
    BY <1>0, <1>1 DEF OneOpenAction, Settled, Failure
  <1>9. OneActive'
    <2>1. \A q \in Runs : Active(q)' => Active(q)
      BY <1>1, <1>5 DEF Active, IsLive, Settled
    <2> QED BY <1>0, <1>1, <2>1 DEF OneActive
  <1>10. ShownAsItIs'
    <2>1. CASE v.step = "off"
      <3>1. \A q \in Runs : doc[q].st \in {"absent", "faulted", "recovery"}
        BY <1>0, <2>1, OneRun DEF Memory
      <3> QED BY <1>1, <3>1 DEF ShownAsItIs
    <2>2. CASE v.step # "off"
      <3>1. \A q \in Runs : live'[q].step # "off" <=> live[q].step # "off"
        BY <1>2, <2>2 DEF IsLive
      <3> QED BY <1>0, <1>1, <1>5, <3>1 DEF ShownAsItIs, IsLive
    <2> QED BY <2>1, <2>2
  <1>11. Controls'
    <2>1. control.runs \subseteq Runs
      BY <1>0 DEF TypeOK
    <2> QED BY <1>0, <1>1, <1>5, <2>1 DEF Controls, IsLive
  <1>12. Revoked'
    BY <1>0, <1>1, <1>5 DEF Revoked, IsLive
  <1> QED BY <1>3, <1>4, <1>6, <1>7, <1>8, <1>9, <1>10, <1>11, <1>12 DEF IInv

LEMMA StatusSet ==
  ASSUME NEW d \in Run, NEW s \in Status
  PROVE  /\ [d EXCEPT !.st = s] \in Run /\ [d EXCEPT !.st = s].st = s
         /\ Alike(d, [d EXCEPT !.st = s])
         /\ s # "absent" => Restated(d, [d EXCEPT !.st = s])
  <1>1. [d EXCEPT !.st = s] \in Run /\ [d EXCEPT !.st = s].st = s
    BY DEF Run
  <1>2. Alike(d, [d EXCEPT !.st = s])
    BY DEF Run, Alike
  <1> HIDE DEF Alike
  <1>3. s # "absent" => Restated(d, [d EXCEPT !.st = s])
    BY <1>1, <1>2 DEF Restated, Alike
  <1> QED BY <1>1, <1>2, <1>3

WorkerSteps == {"off", "loop", "computing", "prepared", "queued", "sent", "ack", "ending"}

LEMMA StepSet ==
  ASSUME NEW w \in Worker, NEW s \in WorkerSteps
  PROVE  /\ [w EXCEPT !.step = s] \in Worker /\ [w EXCEPT !.step = s].step = s
         /\ [w EXCEPT !.step = s].act = w.act
         /\ [w EXCEPT !.step = s].intent = w.intent /\ [w EXCEPT !.step = s].adm = w.adm
  <1>1. [w EXCEPT !.step = s] \in Worker
    BY DEF Worker, WorkerSteps
  <1> QED BY <1>1 DEF Worker

At(w, s, a) == [w EXCEPT !.step = s, !.act = a]

LEMMA IdleSet ==
  ASSUME NEW w \in Worker, NEW s \in WorkerSteps, NEW a \in Action
  PROVE  /\ At(w, s, a) \in Worker /\ At(w, s, a).step = s /\ At(w, s, a).act = a
         /\ At(w, s, a).intent = w.intent /\ At(w, s, a).adm = w.adm
  <1> DEFINE v == At(w, s, a)
  <1>0. v = [w EXCEPT !.step = s, !.act = a]
    BY DEF At
  <1> HIDE DEF v
  <1>1. v \in Worker
    BY <1>0 DEF Worker, WorkerSteps
  <1>2. v.step = s /\ v.act = a /\ v.intent = w.intent /\ v.adm = w.adm
    BY <1>0 DEF Worker
  <1> QED BY <1>1, <1>2 DEF v

\* A save of the worker of r that changes a status or counts a callback.
LEMMA WorkerStatus ==
  ASSUME IInv, NEW r \in Runs, NEW n \in Run, NEW v \in Worker,
         IsLive(r), Unlocked, Save([doc EXCEPT ![r] = n], [live EXCEPT ![r] = v]),
         Restated(doc[r], n), Quieter(live[r], v, n), n.st # "absent", n.acct = doc[r].acct,
         v.step # "off" => v.intent = live[r].intent /\ v.adm = live[r].adm,
         n.st = "running" => v.step # "off",
         n.st = "stopping" => doc[r].st = "stopping" /\ (v.step # "off" \/ live[r].intent = 0),
         UNCHANGED <<workerRest, outside>>, v.step \notin Busy,
         \/ live[r].step \in Busy /\ gate' = "free"
         \/ live[r].step \notin Busy /\ gate' = gate
  PROVE  IInv'
  <1>0. TypeOK /\ EveryRun
    BY DEF IInv
  <1>1. /\ doc[r] \in Run /\ file.doc[r] \in Run /\ live[r] \in Worker /\ down \in BOOLEAN
        /\ exchange[r] \in [Seqs -> Order]
        /\ ~down => Disk(doc[r])
        /\ RunOK(doc[r], file.doc[r], down, live[r], exchange[r], journal[r], held[r], sent[r])
    BY <1>0, OneRun DEF EveryRun
  <1>2. down \/ Disk(n)
    <2>1. doc[r].seq \in Nat /\ n.seq \in Nat /\ doc[r].acts \in Nat
      BY <1>1 DEF Run
    <2> QED BY <1>1, <2>1 DEF Disk, ValidRun, ValidView, Room, Restated
  <1>3. exchange' = exchange /\ journal' = journal /\ held' = held /\ sent' = sent
    BY DEF outside
  <1>4. /\ exchange' \in [Runs -> [Seqs -> Order]] /\ journal' \in [Runs -> [Seqs -> Entry]]
        /\ held' \in [Runs -> SUBSET Seqs] /\ sent' \in [Runs -> Count]
        /\ gate \in {"free", "start", "worker", "recovery"}
    BY <1>0, <1>3 DEF TypeOK, Order, Entry, Count
  <1>5. down' \in BOOLEAN
    BY <1>0 DEF TypeOK, Save, SaveWith
  <1>6. Outcome(n, v, down, file.doc[r], down', doc'[r], file'.doc[r], live'[r]) =>
            RunOK(doc'[r], file'.doc[r], down', live'[r], exchange[r], journal[r], held[r], sent[r])
    BY <1>1, <1>5, StatusRun
  <1>7. UNCHANGED workerRest
    OBVIOUS
  <1> QED BY <1>2, <1>3, <1>4, <1>6, <1>7, WorkerSave
-----------------------------------------------------------------------------
LEMMA Shapes ==
  ASSUME TypeOK, NEW r \in Runs, NEW s
  PROVE  /\ Step(r, s) = [live EXCEPT ![r] = [live[r] EXCEPT !.step = s]]
         /\ Idle(r, s) = [live EXCEPT ![r] = At(live[r], s, NoAction)]
         /\ [doc EXCEPT ![r].st = s] = [doc EXCEPT ![r] = [doc[r] EXCEPT !.st = s]]
         /\ [doc EXCEPT ![r].pend = s] = [doc EXCEPT ![r] = [doc[r] EXCEPT !.pend = s]]
  BY DEF TypeOK, Step, Idle, At

\* What the worker's actions start from.
LEMMA Working ==
  ASSUME IInv, NEW r \in Runs
  PROVE  /\ TypeOK /\ EveryRun
         /\ doc[r] \in Run /\ file.doc[r] \in Run /\ live[r] \in Worker /\ down \in BOOLEAN
         /\ exchange[r] \in [Seqs -> Order] /\ journal[r] \in [Seqs -> Entry]
         /\ held[r] \in SUBSET Seqs /\ sent[r] \in Count
         /\ exchange \in [Runs -> [Seqs -> Order]] /\ journal \in [Runs -> [Seqs -> Entry]]
         /\ held \in [Runs -> SUBSET Seqs] /\ sent \in [Runs -> Count]
         /\ gate \in {"free", "start", "worker", "recovery"}
         /\ RunOK(doc[r], file.doc[r], down, live[r], exchange[r], journal[r], held[r], sent[r])
         /\ Work(doc[r], file.doc[r], down, live[r])
         /\ NoAction \in Action
         /\ live[r].intent \in 0..2 /\ live[r].act \in Action
         /\ live[r].step \in Busy => gate = "worker"
  <1>1. TypeOK /\ EveryRun /\ Gate
    BY DEF IInv
  <1>2. live[r].intent \in 0..2 /\ live[r].act \in Action
    <2>1. live[r] \in Worker
      BY <1>1, OneRun
    <2> QED BY <2>1 DEF Worker
  <1> QED BY <1>1, <1>2, OneRun, NewRunFacts DEF EveryRun, Gate, TypeOK, Order, Entry, Count

LEMMA CallInv ==
  ASSUME IInv, NEW r \in Runs, Call(r) \/ Returns(r)
  PROVE  IInv'
  <1>0. PICK s \in {"computing", "ending"} :
            /\ live' = Step(r, s) /\ live[r].step \in {"loop", "computing"}
            /\ s = "ending" => live[r].intent # 0
            /\ UNCHANGED <<doc, file, down, ticket, faults, workerRest, gate, outside>>
    BY DEF Call, Returns, Clear
  <1>1. s \in WorkerSteps
    BY DEF WorkerSteps
  <1> DEFINE v == [live[r] EXCEPT !.step = s]
  <1>2. live' = [live EXCEPT ![r] = v]
    BY <1>0, Working, Shapes
  <1>3. v \in Worker /\ v.step = s /\ v.intent = live[r].intent /\ v.adm = live[r].adm
    BY <1>1, Working, StepSet
  <1> HIDE DEF v
  <1>4. Quieter(live[r], v, doc[r])
    BY <1>0, <1>3, Working DEF Quieter, Busy, Work
  <1>5. RunOK(doc[r], file.doc[r], down, v, exchange[r], journal[r], held[r], sent[r])
    BY <1>3, <1>4, Working, QuietRun
  <1>6. exchange' = exchange /\ journal' = journal /\ held' = held /\ sent' = sent /\ gate' = gate
    BY <1>0 DEF outside
  <1>7. IsLive(r) /\ v.step # "off" /\ (v.step \in Busy <=> live[r].step \in Busy)
    BY <1>0, <1>3 DEF IsLive, Busy
  <1>8. UNCHANGED <<doc, file, down, ticket, faults, workerRest>>
    BY <1>0
  <1> QED BY <1>2, <1>3, <1>5, <1>6, <1>7, <1>8, Working, WorkerMove

LEMMA FailsInv ==
  ASSUME IInv, NEW r \in Runs, NEW st \in {"paused", "faulted", "completed"}, Fails(r, st)
  PROVE  IInv'
  <1> DEFINE n == [doc[r] EXCEPT !.st = st]
             v == [live[r] EXCEPT !.step = "ending"]
  <1>1. Save([doc EXCEPT ![r] = n], [live EXCEPT ![r] = v])
    BY Working, Shapes DEF Fails
  <1>2. "ending" \in WorkerSteps /\ st \in Status /\ st # "absent"
    BY DEF WorkerSteps, Status
  <1>3. v \in Worker /\ v.step = "ending" /\ v.intent = live[r].intent /\ v.adm = live[r].adm
    BY <1>2, Working, StepSet
  <1>4. n \in Run /\ n.st = st /\ n.acct = doc[r].acct /\ Restated(doc[r], n)
    BY <1>2, Working, StatusSet DEF Alike
  <1> HIDE DEF n, v
  <1>5. /\ live[r].step \in {"loop", "computing"} /\ Unlocked
        /\ UNCHANGED <<workerRest, outside>> /\ gate' = gate
    BY DEF Fails
  <1>6. Quieter(live[r], v, n) /\ v.step \notin Busy /\ live[r].step \notin Busy /\ IsLive(r)
    BY <1>2, <1>3, <1>4, <1>5 DEF Quieter, Busy, IsLive
  <1>7. n.st # "running" /\ n.st # "stopping" /\ n.st # "absent"
    BY <1>4
  <1> QED BY <1>1, <1>3, <1>4, <1>5, <1>6, <1>7, WorkerStatus

LEMMA AcknowledgeFailsInv ==
  ASSUME IInv, NEW r \in Runs, AcknowledgeFails(r)
  PROVE  IInv'
  <1> DEFINE n == [doc[r] EXCEPT !.st = "recovery"]
             v == [live[r] EXCEPT !.step = "ending"]
  <1>1. Save([doc EXCEPT ![r] = n], [live EXCEPT ![r] = v])
    BY Working, Shapes DEF AcknowledgeFails
  <1>2. "ending" \in WorkerSteps /\ "recovery" \in Status
    BY DEF WorkerSteps, Status
  <1>3. v \in Worker /\ v.step = "ending" /\ v.intent = live[r].intent /\ v.adm = live[r].adm
    BY <1>2, Working, StepSet
  <1>4. n \in Run /\ n.st = "recovery" /\ n.acct = doc[r].acct /\ Restated(doc[r], n)
    BY <1>2, Working, StatusSet DEF Alike
  <1> HIDE DEF n, v
  <1>5. /\ live[r].step = "ack" /\ Unlocked
        /\ UNCHANGED <<workerRest, outside>> /\ gate' = "free"
    BY DEF AcknowledgeFails
  <1>6. Quieter(live[r], v, n) /\ v.step \notin Busy /\ live[r].step \in Busy /\ IsLive(r)
    BY <1>2, <1>3, <1>4, <1>5 DEF Quieter, Busy, IsLive
  <1>7. n.st # "running" /\ n.st # "stopping" /\ n.st # "absent"
    BY <1>4
  <1> QED BY <1>1, <1>3, <1>4, <1>5, <1>6, <1>7, WorkerStatus

LEMMA RestInv ==
  ASSUME IInv, NEW r \in Runs, NEW stop \in BOOLEAN, Rest(r, stop)
  PROVE  IInv'
  <1> DEFINE st == IF stop THEN "completed" ELSE doc[r].st
             s == IF stop THEN "ending" ELSE "loop"
             n == [doc[r] EXCEPT !.seq = doc[r].seq + 1, !.st = st]
             v == [live[r] EXCEPT !.step = s]
  <1>0. /\ live[r].step = "computing" /\ Unlocked /\ ~down /\ doc[r].seq < MaxSeq
        /\ UNCHANGED <<workerRest, outside>> /\ gate' = gate
    BY DEF Rest, Decides
  <1>1. Save([doc EXCEPT ![r] = n], [live EXCEPT ![r] = v])
    <2>1. [doc EXCEPT ![r].seq = @ + 1, ![r].st = IF stop THEN "completed" ELSE @] = [doc EXCEPT ![r] = n]
      BY Working DEF TypeOK
    <2> QED BY <2>1, Working, Shapes DEF Rest
  <1>2. /\ s \in WorkerSteps /\ s # "off" /\ s \notin Busy /\ (s = "ending" => st = "completed")
        /\ doc[r].pend = NoAction /\ doc[r].st # "absent"
        /\ st \in Status /\ st # "absent"
        /\ doc[r].seq \in 0..MaxSeq /\ doc[r].seq + 1 \in 0..MaxSeq
    BY <1>0, Working, BoundAssumption DEF WorkerSteps, Status, Work, Run, Busy
  <1>3. /\ st = "running" => doc[r].st = "running"
        /\ st = "stopping" => doc[r].st = "stopping"
        /\ s \in {"loop", "ending"}
    OBVIOUS
  <1> HIDE DEF st, s
  <1>4. v \in Worker /\ v.step = s /\ v.intent = live[r].intent /\ v.adm = live[r].adm
    BY <1>2, Working, StepSet
  <1>5. /\ n \in Run /\ n.st = st /\ n.acct = doc[r].acct /\ n.seq = doc[r].seq + 1
        /\ n.pend = doc[r].pend /\ n.acts = doc[r].acts /\ n.total = doc[r].total
        /\ n.owned = doc[r].owned /\ n.asked = doc[r].asked /\ n.unknown = doc[r].unknown
    BY <1>2, Working DEF Run
  <1> HIDE DEF n, v
  <1>6. Restated(doc[r], n)
    BY <1>2, <1>5 DEF Restated
  <1>7. Quieter(live[r], v, n) /\ v.step \notin Busy /\ live[r].step \notin Busy /\ IsLive(r)
    BY <1>0, <1>2, <1>4, <1>5 DEF Quieter, Busy, IsLive
  <1> QED BY <1>0, <1>1, <1>2, <1>3, <1>4, <1>5, <1>6, <1>7, WorkerStatus

LEMMA FinishInv ==
  ASSUME IInv, NEW r \in Runs, Finish(r)
  PROVE  IInv'
  <1>0. /\ live[r].step = "ending" /\ Unlocked
        /\ UNCHANGED <<workerRest, gate, outside>>
    BY DEF Finish
  <1>1. IsLive(r) /\ live[r].step \notin Busy /\ Off.step \notin Busy
    BY <1>0, NewRunFacts DEF IsLive, Busy
  <1>2. CASE down
    <2>1. live' = [live EXCEPT ![r] = Off] /\ UNCHANGED <<doc, file, down, ticket, faults, workerRest>>
      BY <1>2 DEF Finish
    <2>2. Quieter(live[r], Off, doc[r])
      BY NewRunFacts DEF Quieter, Busy
    <2>3. RunOK(doc[r], file.doc[r], down, Off, exchange[r], journal[r], held[r], sent[r])
      BY <2>2, Working, NewRunFacts, QuietRun
    <2>4. exchange' = exchange /\ journal' = journal /\ held' = held /\ sent' = sent /\ gate' = gate
      BY <1>0 DEF outside
    <2> QED BY <1>1, <1>2, <2>1, <2>3, <2>4, Working, NewRunFacts, WorkerMove
  <1>3. CASE ~down
    <2> DEFINE n == Finished(doc[r], live[r].intent)
    <2>1. Save([doc EXCEPT ![r] = n], [live EXCEPT ![r] = Off])
      BY <1>3, Working DEF Finish, TypeOK
    <2>2. doc[r].st # "absent" /\ (live[r].intent = 0 => doc[r].st # "running") /\ live[r].intent \in 0..2
      BY <1>0, Working DEF Work
    <2>3. /\ n \in Run /\ Restated(doc[r], n) /\ n.acct = doc[r].acct
          /\ n.st # "absent" /\ n.st # "running"
          /\ n.st = "stopping" => doc[r].st = "stopping" /\ live[r].intent = 0
      <3>1. CASE n = doc[r] /\ (live[r].intent = 0 \/ doc[r].st \in {"faulted", "completed"})
        BY <2>2, <3>1, Working DEF Restated
      <3>2. CASE \E s \in {"recovery", "stopped", "paused"} : n = [doc[r] EXCEPT !.st = s]
        <4>1. PICK s \in {"recovery", "stopped", "paused"} : n = [doc[r] EXCEPT !.st = s]
          BY <3>2
        <4>2. s \in Status /\ s # "absent" /\ s # "running" /\ s # "stopping"
          BY DEF Status
        <4> HIDE DEF n
        <4> QED BY <4>1, <4>2, Working, StatusSet DEF Alike
      <3> QED BY <2>2, <3>1, <3>2 DEF Finished
    <2> HIDE DEF n
    <2>4. Quieter(live[r], Off, n)
      BY NewRunFacts DEF Quieter, Busy
    <2> QED BY <1>0, <1>1, <2>1, <2>3, <2>4, Working, NewRunFacts, WorkerStatus
  <1> QED BY <1>2, <1>3, Working

\* A finite set of sequence numbers can be counted.
LEMMA CountOwned ==
  ASSUME NEW o \in SUBSET Seqs, NEW s \in Seqs
  PROVE  /\ Cardinality(o) \in Nat
         /\ Cardinality(o \cup {s}) = IF s \in o THEN Cardinality(o) ELSE Cardinality(o) + 1
  <1>1. IsFiniteSet(Seqs)
    BY BoundAssumption, FS_Interval DEF Seqs
  <1>2. IsFiniteSet(o)
    BY <1>1, FS_Subset
  <1> QED BY <1>2, FS_CardinalityType, FS_AddElement

LEMMA ActionsTyped ==
  ASSUME NEW a \in Actions
  PROVE  a \in Action /\ a # NoAction /\ a.kind \in {"place", "protect", "cancel", "amend"} /\ a.seq \in Seqs
  <1>1. a.kind \in {"place", "protect", "cancel", "amend"} /\ a.seq \in Seqs /\ a.target \in {0} \cup Seqs
    BY DEF Actions
  <1>2. Seqs \subseteq 0..MaxSeq /\ 0 \in 0..MaxSeq
    BY BoundAssumption DEF Seqs
  <1>3. a \in Action
    BY <1>2 DEF Actions, Action
  <1> QED BY <1>1, <1>3, NewRunFacts

LEMMA PreparedFacts ==
  ASSUME NEW d \in Run, NEW a \in Actions, Disk(d), d.pend = NoAction, d.st # "absent",
         d.seq < MaxSeq, a.seq = d.seq + 1, Valid(d, a)
  PROVE  /\ Prepared(d, a) \in Run /\ Disk(Prepared(d, a))
         /\ Prepared(d, a).st = d.st /\ Prepared(d, a).pend = a /\ Prepared(d, a).acct = d.acct
         /\ Prepared(d, a).seq = d.seq + 1 /\ Prepared(d, a).acts = d.acts + 1
         /\ Prepared(d, a).owned = d.owned /\ d.asked \subseteq Prepared(d, a).asked
         /\ Prepared(d, a).total = IF a.kind = "cancel" THEN d.total ELSE d.total + 1
         /\ Prepared(d, a).unknown = d.unknown
  <1> DEFINE n == Prepared(d, a)
             total == IF a.kind = "cancel" THEN d.total ELSE d.total + 1
             asked == IF a.kind = "cancel" THEN d.asked \cup {a.target} ELSE d.asked
  <1>1. /\ d.seq \in 0..MaxSeq /\ d.acts \in 0..MaxActions /\ d.total \in 0..MaxTotal
        /\ d.owned \in SUBSET Seqs /\ d.asked \in SUBSET Seqs
        /\ MaxSeq \in Nat /\ MaxActions \in Nat /\ MaxTotal \in Nat
    BY BoundAssumption DEF Run
  <1>2. /\ d.acts < MaxActions /\ (a.kind # "cancel" => d.total < MaxTotal)
        /\ a.kind \in {"cancel", "amend"} => a.target \in d.owned \ d.asked
    BY DEF Valid, WithinTotal, OwnedAndUncancelled, IsPlace
  <1>3. n = [d EXCEPT !.seq = a.seq, !.acts = d.acts + 1, !.pend = a, !.total = total, !.asked = asked]
    BY DEF Prepared
  <1>4. /\ a.seq \in 0..MaxSeq /\ d.acts + 1 \in 0..MaxActions /\ total \in 0..MaxTotal
        /\ asked \in SUBSET Seqs /\ a \in Action
    BY <1>1, <1>2, ActionsTyped
  <1> HIDE DEF n, total, asked
  <1>5. /\ n \in Run /\ n.st = d.st /\ n.pend = a /\ n.acct = d.acct /\ n.seq = a.seq /\ n.acts = d.acts + 1
        /\ n.owned = d.owned /\ n.asked = asked /\ n.total = total /\ n.unknown = d.unknown
    BY <1>3, <1>4 DEF Run
  <1>6. Cardinality(d.owned) \in Nat /\ Cardinality(d.owned) <= d.acts /\ d.acts <= d.seq
    <2>1. a.seq \in Seqs
      BY ActionsTyped
    <2> QED BY <1>1, <2>1, CountOwned DEF Disk, ValidRun, ValidView
  <1>7. total \in Nat /\ (a.kind # "cancel" => total > 0)
    BY <1>1 DEF total
  <1>8. ValidView(n)
    BY <1>1, <1>2, <1>4, <1>5, <1>6, <1>7 DEF ValidView
  <1>9. Room(n) /\ Cardinality(n.owned) <= n.acts
    BY <1>1, <1>5, <1>6 DEF Room
  <1>10. n.pend # NoAction /\ n.pend.seq = n.seq /\ n.acts > 0
    BY <1>1, <1>5, ActionsTyped
  <1>11. /\ n.pend.kind # "cancel" => n.total > 0
         /\ n.pend.kind = "cancel" => n.pend.target \in n.owned
         /\ n.pend.kind = "amend" => n.pend.target \in n.owned \ n.asked
    BY <1>2, <1>5, <1>7 DEF asked
  <1>12. Disk(n)
    BY <1>5, <1>8, <1>9, <1>10, <1>11, ActionsTyped DEF Disk, ValidRun
  <1>13. d.asked \subseteq n.asked /\ n.seq = d.seq + 1
    BY <1>5 DEF asked
  <1> QED BY <1>5, <1>12, <1>13 DEF n, total

LEMMA PrepareInv ==
  ASSUME IInv, NEW r \in Runs, NEW a \in Actions, Prepare(r, a)
  PROVE  IInv'
  <1>0. /\ live[r].step = "computing" /\ gate = "free" /\ Unlocked /\ ~down /\ doc[r].seq < MaxSeq
        /\ a.seq = doc[r].seq + 1 /\ Valid(doc[r], a)
        /\ gate' = IF down' THEN "free" ELSE "worker"
        /\ UNCHANGED <<workerRest, outside>>
    BY DEF Prepare, Decides
  <1> DEFINE f == file.doc[r]
             n == Prepared(doc[r], a)
             s == IF down' THEN "ending" ELSE "prepared"
             v == At(live[r], s, a)
             x == exchange[r]
             j == journal[r]
             h == held[r]
             c == sent[r]
  <1>1. Save([doc EXCEPT ![r] = n], [live EXCEPT ![r] = v])
    <2>1. [live EXCEPT ![r].step = IF down' THEN "ending" ELSE "prepared", ![r].act = a] = [live EXCEPT ![r] = v]
      BY Working DEF TypeOK, At
    <2> QED BY <2>1 DEF Prepare
  <1>2. /\ doc[r].pend = NoAction /\ doc[r].st # "absent" /\ Disk(doc[r]) /\ Alike(doc[r], f)
        /\ Disk(f) /\ Placed(f, x, j) /\ Reserved(x, h) /\ Counted(f, live[r], c)
    BY <1>0, Working, OneRun DEF Work, Memory
  <1>3. /\ n \in Run /\ Disk(n) /\ n.st = doc[r].st /\ n.pend = a /\ n.acct = doc[r].acct
        /\ n.seq = doc[r].seq + 1 /\ n.acts = doc[r].acts + 1 /\ n.owned = doc[r].owned
        /\ n.total = IF a.kind = "cancel" THEN doc[r].total ELSE doc[r].total + 1
    BY <1>0, <1>2, Working, PreparedFacts
  <1>4. s \in WorkerSteps /\ (s = "prepared" <=> ~down') /\ s \in {"ending", "prepared"}
    BY DEF WorkerSteps
  <1>5. a \in Action /\ a # NoAction /\ a.seq \in Seqs
    BY ActionsTyped
  <1> HIDE DEF n, s
  <1>6. v \in Worker /\ v.step = s /\ v.act = a /\ v.intent = live[r].intent /\ v.adm = live[r].adm
    BY <1>4, <1>5, Working, IdleSet
  <1> HIDE DEF v
  <1>7. /\ f \in Run /\ f.seq \in Nat /\ f.acts \in Nat /\ f.total \in Nat
        /\ c.acts \in Nat /\ c.qty \in Nat
        /\ f.seq = doc[r].seq /\ f.acts = doc[r].acts /\ f.total = doc[r].total /\ f.owned = doc[r].owned
        /\ f.pend = NoAction
        /\ \A i \in Seqs : i \in Nat /\ x[i].by \in Nat
    <2>1. f \in Run /\ c \in Count /\ x \in [Seqs -> Order]
      BY Working
    <2>2. f.seq \in Nat /\ f.acts \in Nat /\ f.total \in Nat /\ c.acts \in Nat /\ c.qty \in Nat
      BY <2>1, BoundAssumption DEF Run, Count
    <2>3. \A i \in Seqs : i \in Nat /\ x[i].by \in Nat
      BY <2>1, BoundAssumption DEF Seqs, Order
    <2> QED BY <1>2, <2>1, <2>2, <2>3 DEF Alike
  <1>8. Unsent(v, x, j, h)
    BY <1>0, <1>2, <1>4, <1>5, <1>6, <1>7 DEF Unsent, Placed, Carrying
  <1>9. Carried(n, v) /\ Placed(n, x, j) /\ Counted(n, v, c)
    <2>1. Carried(n, v)
      BY <1>2, <1>3, <1>5, <1>6 DEF Carried
    <2>2. Placed(n, x, j)
      BY <1>2, <1>3, <1>7, NewRunFacts DEF Placed, IsPlace
    <2>3. Counted(n, v, c)
      BY <1>2, <1>3, <1>6, <1>7 DEF Counted
    <2> QED BY <2>1, <2>2, <2>3
  <1>10. down' => Carried(f, v) /\ Placed(f, x, j) /\ Counted(f, v, c)
    BY <1>2, <1>4, <1>6 DEF Carried, Counted, Carrying
  <1>11. ~down' => Work(n, n, FALSE, v)
    BY <1>2, <1>3, <1>4, <1>6, <1>9 DEF Work
  <1>12. down' \in BOOLEAN
    BY <1>0 DEF Prepare, Save, SaveWith
  <1>13. v.step # "off" /\ v.step # "ack" /\ n.st # "absent"
    BY <1>2, <1>3, <1>4, <1>6
  <1>14. ASSUME Outcome(n, v, down, f, down', doc'[r], file'.doc[r], live'[r])
         PROVE  RunOK(doc'[r], file'.doc[r], down', live'[r], x, j, h, c)
    <2>1. down \in BOOLEAN /\ f \in Run
      BY Working
    <2> HIDE DEF Outcome, f, x, j, h, c
    <2> QED BY <1>0, <1>2, <1>3, <1>6, <1>8, <1>9, <1>10, <1>11, <1>12, <1>13, <1>14, <2>1, SavedRun
  <1>15. exchange' = exchange /\ journal' = journal /\ held' = held /\ sent' = sent
    BY <1>0 DEF outside
  <1>16. /\ IsLive(r) /\ gate' \in {"free", "start", "worker", "recovery"}
         /\ \/ v.step \in Busy /\ gate' = "worker" /\ gate = "free"
            \/ v.step \notin Busy /\ live[r].step \notin Busy /\ gate' = gate
    BY <1>0, <1>4, <1>6 DEF IsLive, Busy
  <1>17. /\ n.st = "stopping" => doc[r].st = "stopping"
    BY <1>3
  <1>18. UNCHANGED workerRest /\ Unlocked
    BY <1>0
  <1> HIDE DEF Outcome
  <1> QED BY <1>1, <1>3, <1>6, <1>13, <1>14, <1>15, <1>16, <1>17, <1>18, Working, WorkerSave

\* The action on its way is the one the document has open.
LEMMA CarriedFacts ==
  ASSUME IInv, NEW r \in Runs, live[r].step \in Carrying
  PROVE  /\ live[r].act.seq \in Seqs /\ live[r].act # NoAction
         /\ file.doc[r].pend = live[r].act /\ file.doc[r].seq = live[r].act.seq
         /\ file.doc[r].acts > 0 /\ file.doc[r].st # "absent"
         /\ IsPlace(live[r].act) \/ live[r].act.kind \in {"cancel", "amend"}
         /\ ~IsPlace(live[r].act) => live[r].act.target \in file.doc[r].owned
         /\ ~down => doc[r].pend = live[r].act
  <1> DEFINE f == file.doc[r]
             a == live[r].act
  <1>1. /\ f.pend = a /\ a # NoAction /\ ValidRun(f) /\ f \in Run /\ f.st # "absent" /\ a \in Action
        /\ a.kind # "none"
    BY Working, OneRun DEF Work, Carried, Disk
  <1>2. /\ a.seq = f.seq /\ f.acts > 0 /\ f.acts <= f.seq
        /\ a.kind = "cancel" => a.target \in f.owned
        /\ a.kind = "amend" => a.target \in f.owned
    BY <1>1 DEF ValidRun, ValidView
  <1>3. f.seq \in 0..MaxSeq /\ f.acts \in Nat /\ MaxSeq \in Nat
    BY <1>1, BoundAssumption DEF Run
  <1>4. a.seq \in Seqs
    BY <1>2, <1>3 DEF Seqs
  <1>5. a.kind \in {"place", "protect", "cancel", "amend"}
    BY <1>1 DEF Action
  <1>6. ~down => doc[r].pend = f.pend
    BY Working, OneRun DEF Memory, Alike
  <1> QED BY <1>1, <1>2, <1>4, <1>5, <1>6 DEF IsPlace

LEMMA QueueInv ==
  ASSUME IInv, NEW r \in Runs, Queue(r)
  PROVE  IInv'
  <1>0. /\ live[r].step = "prepared" /\ live' = Step(r, "queued")
        /\ journal' = IF IsPlace(live[r].act) THEN [journal EXCEPT ![r][live[r].act.seq] = "pending"] ELSE journal
        /\ held' = IF live[r].act.kind = "cancel" THEN held ELSE [held EXCEPT ![r] = @ \cup {live[r].act.seq}]
        /\ UNCHANGED <<doc, file, down, ticket, faults, workerRest, gate, exchange, sent>>
    BY DEF Queue
  <1> DEFINE v == [live[r] EXCEPT !.step = "queued"]
             a == live[r].act
             x == exchange[r]
             j == journal[r]
             h == held[r]
  <1>1. live' = [live EXCEPT ![r] = v]
    BY <1>0, Working, Shapes
  <1>2. v \in Worker /\ v.step = "queued" /\ v.act = a /\ v.intent = live[r].intent /\ v.adm = live[r].adm
    <2>1. "queued" \in WorkerSteps
      BY DEF WorkerSteps
    <2> QED BY <2>1, Working, StepSet
  <1> HIDE DEF v
  <1>3. /\ Disk(file.doc[r]) /\ Memory(doc[r], file.doc[r], down) /\ Work(doc[r], file.doc[r], down, live[r])
        /\ Placed(file.doc[r], x, j) /\ Reserved(x, h) /\ Unsent(live[r], x, j, h)
        /\ Counted(file.doc[r], live[r], sent[r])
        /\ j \in [Seqs -> Entry] /\ h \in SUBSET Seqs
    BY Working, OneRun
  <1>4. a.seq \in Seqs
    BY <1>0, CarriedFacts DEF Carrying
  <1>5. /\ journal' \in [Runs -> [Seqs -> Entry]] /\ held' \in [Runs -> SUBSET Seqs]
        /\ \A q \in Runs \ {r} : journal'[q] = journal[q] /\ held'[q] = held[q]
        /\ journal'[r] = IF IsPlace(a) THEN [j EXCEPT ![a.seq] = "pending"] ELSE j
        /\ held'[r] = IF a.kind = "cancel" THEN h ELSE h \cup {a.seq}
    <2>1. journal \in [Runs -> [Seqs -> Entry]] /\ held \in [Runs -> SUBSET Seqs] /\ "pending" \in Entry
      BY Working DEF Entry
    <2>2. /\ journal' \in [Runs -> [Seqs -> Entry]]
          /\ \A q \in Runs \ {r} : journal'[q] = journal[q]
          /\ journal'[r] = IF IsPlace(a) THEN [j EXCEPT ![a.seq] = "pending"] ELSE j
      BY <1>0, <1>4, <2>1
    <2>3. /\ held' \in [Runs -> SUBSET Seqs]
          /\ \A q \in Runs \ {r} : held'[q] = held[q]
          /\ held'[r] = IF a.kind = "cancel" THEN h ELSE h \cup {a.seq}
      BY <1>0, <1>4, <2>1
    <2> QED BY <2>2, <2>3
  <1>6. RunOK(doc[r], file.doc[r], down, v, x, journal'[r], held'[r], sent[r])
    <2>1. Work(doc[r], file.doc[r], down, v)
      BY <1>0, <1>2, <1>3 DEF Work, Carried, Carrying
    <2>2. Placed(file.doc[r], x, journal'[r])
      BY <1>3, <1>4, <1>5 DEF Placed
    <2>3. Reserved(x, held'[r])
      BY <1>3, <1>5 DEF Reserved
    <2>4. Unsent(v, x, journal'[r], held'[r])
      BY <1>0, <1>2, <1>3, <1>4, <1>5 DEF Unsent, Carrying
    <2>5. Counted(file.doc[r], v, sent[r])
      BY <1>0, <1>2, <1>3 DEF Counted
    <2> QED BY <1>3, <2>1, <2>2, <2>3, <2>4, <2>5 DEF RunOK
  <1>7. IsLive(r) /\ v.step # "off" /\ (v.step \in Busy <=> live[r].step \in Busy)
    BY <1>0, <1>2 DEF IsLive, Busy
  <1>8. UNCHANGED <<doc, file, down, ticket, faults, workerRest>> /\ gate' = gate
        /\ exchange' = exchange /\ sent' = sent
    BY <1>0
  <1> QED BY <1>1, <1>2, <1>5, <1>6, <1>7, <1>8, Working, WorkerMove

LEMMA HandOverInv ==
  ASSUME IInv, NEW r \in Runs, HandOver(r)
  PROVE  IInv'
  <1>0. /\ live[r].step = "queued" /\ live' = Step(r, "sent") /\ live[r].intent = 0
        /\ sent' = [sent EXCEPT ![r].acts = @ + 1,
                                ![r].qty = IF live[r].act.kind = "cancel" THEN @ ELSE @ + 1,
                                ![r].late = @ \/ live[r].intent > 0]
        /\ UNCHANGED <<doc, file, down, ticket, faults, workerRest, gate, journal, exchange, held>>
    BY DEF HandOver, MayDispatch, Clear
  <1> DEFINE v == [live[r] EXCEPT !.step = "sent"]
             a == live[r].act
             c == sent[r]
             f == file.doc[r]
             qty == IF a.kind = "cancel" THEN c.qty ELSE c.qty + 1
  <1>1. live' = [live EXCEPT ![r] = v]
    BY <1>0, Working, Shapes
  <1>2. v \in Worker /\ v.step = "sent" /\ v.act = a /\ v.intent = live[r].intent /\ v.adm = live[r].adm
    <2>1. "sent" \in WorkerSteps
      BY DEF WorkerSteps
    <2> QED BY <2>1, Working, StepSet
  <1> HIDE DEF v
  <1>3. /\ Disk(f) /\ Memory(doc[r], f, down) /\ Work(doc[r], f, down, live[r])
        /\ Placed(f, exchange[r], journal[r]) /\ Reserved(exchange[r], held[r])
        /\ Unsent(live[r], exchange[r], journal[r], held[r])
        /\ Counted(f, live[r], c)
    BY Working, OneRun
  <1>4. sent \in [Runs -> Count] /\ c \in Count /\ f \in Run
    BY Working
  <1>5. c.acts \in Nat /\ c.qty \in Nat /\ qty \in Nat /\ c.late = FALSE /\ f.acts \in Nat /\ f.total \in Nat
    BY <1>3, <1>4, BoundAssumption DEF Count, Counted, Run
  <1> DEFINE k == c.acts + 1
             c2 == [c EXCEPT !.acts = k, !.qty = qty, !.late = FALSE]
  <1>6. sent' = [sent EXCEPT ![r] = c2]
    <2>1. sent' = [sent EXCEPT ![r] = [c EXCEPT !.acts = c.acts + 1, !.qty = qty,
                                               !.late = c.late \/ live[r].intent > 0]]
      BY <1>0, <1>4
    <2>2. (c.late \/ live[r].intent > 0) = FALSE
      BY <1>0, <1>5
    <2> QED BY <2>1, <2>2
  <1>7. c2 \in Count /\ c2.acts = c.acts + 1 /\ c2.qty = qty /\ c2.late = FALSE
    <2>0. c \in Count /\ k \in Nat /\ qty \in Nat
      BY <1>4, <1>5
    <2> HIDE DEF qty, c, k
    <2>1. c2 \in Count
      BY <2>0 DEF Count
    <2>2. c2.acts = k /\ c2.qty = qty /\ c2.late = FALSE
      BY <2>0 DEF Count
    <2> QED BY <2>1, <2>2 DEF k
  <1> HIDE DEF c2
  <1>8. /\ sent' \in [Runs -> Count] /\ sent'[r] = c2
        /\ \A q \in Runs \ {r} : sent'[q] = sent[q]
    BY <1>4, <1>6, <1>7
  <1>9. RunOK(doc[r], f, down, v, exchange[r], journal[r], held[r], sent'[r])
    <2>1. Work(doc[r], f, down, v)
      BY <1>0, <1>2, <1>3 DEF Work, Carried, Carrying
    <2>2. Unsent(v, exchange[r], journal[r], held[r])
      BY <1>0, <1>2, <1>3 DEF Unsent, Carrying
    <2>3. c.acts < f.acts /\ (a.kind # "cancel" => c.qty < f.total) /\ c.qty <= f.total
      BY <1>0, <1>3 DEF Counted
    <2>4. c.acts + 1 <= f.acts /\ qty <= f.total
      BY <1>5, <2>3
    <2>5. Counted(f, v, sent'[r])
      BY <1>2, <1>7, <1>8, <2>4 DEF Counted
    <2> QED BY <1>3, <2>1, <2>2, <2>5 DEF RunOK
  <1>10. IsLive(r) /\ v.step # "off" /\ (v.step \in Busy <=> live[r].step \in Busy)
    BY <1>0, <1>2 DEF IsLive, Busy
  <1>11. UNCHANGED <<doc, file, down, ticket, faults, workerRest>> /\ gate' = gate
         /\ exchange' = exchange /\ journal' = journal /\ held' = held
    BY <1>0
  <1> QED BY <1>1, <1>2, <1>8, <1>9, <1>10, <1>11, Working, WorkerMove

\* What a receipt makes of a record; a rejection and an outcome that is unknown.
LEMMA AccountedFacts ==
  ASSUME NEW d \in Run, NEW a \in Action, a.seq \in Seqs, d.st # "absent",
         NEW e \in {"accepted", "rejected", "unknown"}
  PROVE  /\ Accounted(d, a, e) \in Run
         /\ Accounted(d, a, e).seq = d.seq /\ Accounted(d, a, e).acts = d.acts
         /\ Accounted(d, a, e).total = d.total /\ Accounted(d, a, e).asked = d.asked
         /\ Accounted(d, a, e).acct = d.acct
         /\ Accounted(d, a, e).unknown = (e = "unknown")
         /\ Accounted(d, a, e).owned = IF e = "accepted" /\ IsPlace(a) THEN d.owned \cup {a.seq} ELSE d.owned
         /\ Accounted(d, a, e).pend = IF e = "rejected" \/ (e = "accepted" /\ ~IsPlace(a)) THEN NoAction ELSE d.pend
         /\ Accounted(d, a, e).st = IF e = "unknown" THEN "recovery" ELSE d.st
  <1> DEFINE n == Accounted(d, a, e)
             unknown == (e = "unknown")
             owned == IF e = "accepted" /\ IsPlace(a) THEN d.owned \cup {a.seq} ELSE d.owned
             pend == IF e = "rejected" \/ (e = "accepted" /\ ~IsPlace(a)) THEN NoAction ELSE d.pend
             st == IF e = "unknown" THEN "recovery" ELSE d.st
  <1>1. n = [d EXCEPT !.unknown = unknown, !.owned = owned, !.pend = pend, !.st = st]
    BY DEF Accounted
  <1>2. unknown \in BOOLEAN /\ owned \in SUBSET Seqs /\ pend \in Action /\ st \in Status
    BY NewRunFacts DEF Run, Status
  <1> HIDE DEF n, unknown, owned, pend, st
  <1>3. /\ n \in Run /\ n.unknown = unknown /\ n.owned = owned /\ n.pend = pend /\ n.st = st
        /\ n.seq = d.seq /\ n.acts = d.acts /\ n.total = d.total /\ n.asked = d.asked /\ n.acct = d.acct
    BY <1>1, <1>2 DEF Run
  <1> QED BY <1>3 DEF n, unknown, owned, pend, st

LEMMA AccountedDisk ==
  ASSUME NEW d \in Run, NEW a \in Action, a.seq \in Seqs, d.st # "absent",
         NEW e \in {"accepted", "rejected", "unknown"}, Disk(d), d.pend = a, a # NoAction
  PROVE  Disk(Accounted(d, a, e))
  <1> DEFINE n == Accounted(d, a, e)
  <1>1. /\ n \in Run
        /\ n.seq = d.seq /\ n.acts = d.acts /\ n.total = d.total /\ n.asked = d.asked
        /\ n.unknown = (e = "unknown")
        /\ n.owned = IF e = "accepted" /\ IsPlace(a) THEN d.owned \cup {a.seq} ELSE d.owned
        /\ n.pend = IF e = "rejected" \/ (e = "accepted" /\ ~IsPlace(a)) THEN NoAction ELSE d.pend
        /\ n.st # "absent"
    BY AccountedFacts
  <1> HIDE DEF n
  <1>2. ValidRun(d) /\ Room(d)
    BY DEF Disk
  <1>3. ValidView(n)
    BY <1>1, <1>2 DEF ValidRun, ValidView
  <1>4. d.acts \in Nat /\ Cardinality(d.owned) \in Nat /\ Cardinality(d.owned) <= d.acts
        /\ Cardinality(d.owned \cup {a.seq}) = IF a.seq \in d.owned THEN Cardinality(d.owned)
                                               ELSE Cardinality(d.owned) + 1
    <2>1. d.owned \in SUBSET Seqs /\ d.acts \in Nat
      BY BoundAssumption DEF Run
    <2> QED BY <1>2, <2>1, CountOwned DEF ValidRun
  <1>5. Cardinality(n.owned) <= n.acts /\ Room(n)
    <2>1. CASE e = "accepted" /\ IsPlace(a)
      BY <1>1, <1>2, <1>4, <2>1 DEF Room
    <2>2. CASE ~(e = "accepted" /\ IsPlace(a))
      BY <1>1, <1>2, <1>4, <2>2, NewRunFacts DEF Room, IsPlace
    <2> QED BY <2>1, <2>2
  <1>6. ValidRun(n)
    BY <1>1, <1>2, <1>3, <1>5 DEF ValidRun, IsPlace
  <1>7. n.pend.kind = "none" => n.pend = NoAction
    BY <1>1 DEF Disk
  <1> QED BY <1>1, <1>5, <1>6, <1>7 DEF Disk, n

\* The record of an outcome, and what is given back, for the run r alone.
LEMMA NotedFacts ==
  ASSUME TypeOK, NEW r \in Runs, NEW a \in Action, a.seq \in Seqs, NEW e \in {"accepted", "rejected", "unknown"}
  PROVE  /\ Noted(r, a, e) \in [Runs -> [Seqs -> Entry]]
         /\ \A q \in Runs \ {r} : Noted(r, a, e)[q] = journal[q]
         /\ \A s \in Seqs : Noted(r, a, e)[r][s] =
                IF IsPlace(a) /\ e # "unknown" /\ s = a.seq THEN e ELSE journal[r][s]
  <1>1. journal \in [Runs -> [Seqs -> Entry]]
    BY DEF TypeOK, Entry
  <1>2. CASE IsPlace(a) /\ e # "unknown"
    <2>1. Noted(r, a, e) = [journal EXCEPT ![r] = [journal[r] EXCEPT ![a.seq] = e]] /\ e \in Entry
      BY <1>1, <1>2 DEF Noted, Entry
    <2> QED BY <1>1, <1>2, <2>1
  <1>3. CASE ~(IsPlace(a) /\ e # "unknown")
    BY <1>1, <1>3 DEF Noted
  <1> QED BY <1>2, <1>3

LEMMA DenyInv ==
  ASSUME IInv, NEW r \in Runs, Deny(r)
  PROVE  IInv'
  <1> DEFINE a == live[r].act
             f == file.doc[r]
             n == Accounted(doc[r], a, "rejected")
             v == At(live[r], "loop", NoAction)
             x == exchange[r]
             j == journal[r]
             h == held[r]
             c == sent[r]
             j2 == journal'[r]
             h2 == held'[r]
  <1>0. /\ live[r].step \in {"prepared", "queued"} /\ Unlocked
        /\ journal' = IF live[r].step = "queued" THEN Noted(r, a, "rejected") ELSE journal
        /\ held' = Release(r, a, "rejected")
        /\ Save([doc EXCEPT ![r] = Accounted(@, a, "rejected")], Idle(r, "loop"))
        /\ gate' = "free" /\ UNCHANGED <<workerRest, exchange, sent>>
    BY DEF Deny
  <1>1. Save([doc EXCEPT ![r] = n], [live EXCEPT ![r] = v])
    <2>1. [doc EXCEPT ![r] = Accounted(@, a, "rejected")] = [doc EXCEPT ![r] = n]
      BY Working DEF TypeOK
    <2> QED BY <1>0, <2>1, Working, Shapes
  <1>2. /\ a.seq \in Seqs /\ a # NoAction /\ a \in Action /\ f.pend = a
        /\ ~down => doc[r].pend = a
    BY <1>0, Working, CarriedFacts DEF Carrying
  <1>3. /\ Disk(f) /\ Work(doc[r], f, down, live[r]) /\ doc[r].st # "absent" /\ doc[r] \in Run
        /\ ~down => Disk(doc[r]) /\ Alike(doc[r], f)
        /\ Placed(f, x, j) /\ Reserved(x, h) /\ Unsent(live[r], x, j, h) /\ Counted(f, live[r], c)
    BY <1>0, Working, OneRun DEF Memory, Work
  <1>4. /\ n \in Run /\ n.st = doc[r].st /\ n.pend = NoAction /\ n.acct = doc[r].acct
        /\ n.seq = doc[r].seq /\ n.acts = doc[r].acts /\ n.total = doc[r].total /\ n.owned = doc[r].owned
    BY <1>2, <1>3, AccountedFacts
  <1>5. ~down => Disk(n)
    BY <1>2, <1>3, AccountedDisk
  <1>6. v \in Worker /\ v.step = "loop" /\ v.act = NoAction /\ v.intent = live[r].intent /\ v.adm = live[r].adm
    <2>1. "loop" \in WorkerSteps
      BY DEF WorkerSteps
    <2> QED BY <2>1, Working, IdleSet
  <1> HIDE DEF n, v
  <1>7. /\ journal' \in [Runs -> [Seqs -> Entry]] /\ held' \in [Runs -> SUBSET Seqs]
        /\ \A q \in Runs \ {r} : journal'[q] = journal[q] /\ held'[q] = held[q]
        /\ \A s \in Seqs : j2[s] = j[s] \/ (s = a.seq /\ j2[s] = "rejected")
        /\ h2 = h \ {a.seq}
    <2>0. TypeOK /\ journal \in [Runs -> [Seqs -> Entry]]
      BY Working
    <2>1. /\ Noted(r, a, "rejected") \in [Runs -> [Seqs -> Entry]]
          /\ \A q \in Runs \ {r} : Noted(r, a, "rejected")[q] = journal[q]
          /\ \A s \in Seqs : Noted(r, a, "rejected")[r][s] =
                IF IsPlace(a) /\ s = a.seq THEN "rejected" ELSE journal[r][s]
      BY <1>2, <2>0, NotedFacts
    <2>2. /\ held' \in [Runs -> SUBSET Seqs]
          /\ \A q \in Runs \ {r} : held'[q] = held[q]
          /\ h2 = h \ {a.seq}
      <3>1. held' = Release(r, a, "rejected")
        BY <1>0
      <3>2. held \in [Runs -> SUBSET Seqs]
        BY Working
      <3> QED BY <3>1, <3>2 DEF Release
    <2>3. journal' = Noted(r, a, "rejected") \/ journal' = journal
      BY <1>0
    <2> QED BY <2>0, <2>1, <2>2, <2>3
  <1>8. x[a.seq].st = "none" /\ \A s \in Seqs : x[s].by # a.seq
    BY <1>0, <1>3 DEF Unsent, Carrying
  <1> HIDE DEF h2, j2
  <1>9. Placed(f, x, j2)
    BY <1>3, <1>7, <1>8 DEF Placed, There
  <1>10. Reserved(x, h2)
    BY <1>3, <1>7, <1>8 DEF Reserved
  <1>11. Carried(f, v) /\ Counted(f, v, c) /\ Unsent(v, x, j2, h2) /\ Carried(n, v)
    BY <1>3, <1>6 DEF Carried, Counted, Unsent, Carrying
  <1>12. ~down => Placed(n, x, j2) /\ Counted(n, v, c)
    <2> SUFFICES ASSUME ~down PROVE Placed(n, x, j2) /\ Counted(n, v, c)
      OBVIOUS
    <2>1. n.seq = f.seq /\ n.acts = f.acts /\ n.total = f.total /\ n.owned = f.owned
      BY <1>3, <1>4 DEF Alike
    <2>2. Placed(n, x, j2)
      BY <1>2, <1>4, <1>8, <1>9, <2>1 DEF Placed, There
    <2>3. Counted(n, v, c)
      BY <1>6, <1>11, <2>1 DEF Counted
    <2> QED BY <2>2, <2>3
  <1>13. Work(n, n, FALSE, v) /\ n.st # "absent"
    BY <1>3, <1>4, <1>6, <1>11 DEF Work
  <1>14. down' \in BOOLEAN /\ f \in Run /\ down \in BOOLEAN
    BY <1>0, Working DEF Save, SaveWith, TypeOK
  <1>15. v.step # "ack" /\ v.step \notin Busy /\ v.step # "off" /\ live[r].step \in Busy /\ IsLive(r)
    BY <1>0, <1>6 DEF Busy, IsLive
  <1>16. ASSUME Outcome(n, v, down, f, down', doc'[r], file'.doc[r], live'[r])
         PROVE  RunOK(doc'[r], file'.doc[r], down', live'[r], x, j2, h2, c)
    <2>1. Disk(f) /\ (~down => Disk(n)) /\ n \in Run /\ v \in Worker
      BY <1>3, <1>4, <1>5, <1>6
    <2>2. down' => Carried(f, v) /\ Placed(f, x, j2) /\ Counted(f, v, c)
      BY <1>9, <1>11
    <2>3. ~down => Carried(n, v) /\ Placed(n, x, j2) /\ Counted(n, v, c)
      BY <1>11, <1>12
    <2> HIDE DEF Outcome, f, x, j, h, c
    <2> QED BY <1>10, <1>11, <1>13, <1>14, <1>15, <1>16, <2>1, <2>2, <2>3, SavedRun
  <1>17. exchange' = exchange /\ sent' = sent /\ UNCHANGED workerRest /\ Unlocked /\ gate' = "free"
    BY <1>0
  <1>18. Outcome(n, v, down, file.doc[r], down', doc'[r], file'.doc[r], live'[r]) =>
            RunOK(doc'[r], file'.doc[r], down', live'[r], exchange'[r], journal'[r], held'[r], sent'[r])
    BY <1>16, <1>17 DEF j2, h2
  <1>19. n.st = "stopping" => doc[r].st = "stopping"
    BY <1>4
  <1> HIDE DEF Outcome
  <1> QED BY <1>1, <1>4, <1>5, <1>6, <1>7, <1>13, <1>15, <1>17, <1>18, <1>19, Working, WorkerSave

\* The action a that the record f has open may be taken by the exchange.
Takeable(f, x, j, h, a) ==
    /\ f \in Run /\ x \in [Seqs -> Order] /\ a \in Action /\ a.seq \in Seqs
    /\ f.pend = a /\ f.seq = a.seq
    /\ IsPlace(a) \/ a.kind \in {"cancel", "amend"}
    /\ ~IsPlace(a) => a.target \in f.owned
    /\ Placed(f, x, j) /\ Reserved(x, h)
    /\ a.kind # "cancel" => a.seq \in h
    /\ IsPlace(a) => j[a.seq] # "rejected"

LEMMA TakenFacts ==
  ASSUME NEW f, NEW x, NEW j, NEW h, NEW a, Takeable(f, x, j, h, a)
  PROVE  /\ Taken(x, a) \in [Seqs -> Order] /\ Placed(f, Taken(x, a), j) /\ Reserved(Taken(x, a), h)
         /\ \A s \in Seqs : x[s].st # "none" => Taken(x, a)[s].st # "none"
         /\ IsPlace(a) => Taken(x, a)[a.seq].st = "open"
  <1> DEFINE x2 == Taken(x, a)
  <1>0. /\ f \in Run /\ x \in [Seqs -> Order] /\ a \in Action /\ a.seq \in Seqs
        /\ f.pend = a /\ f.seq = a.seq
        /\ IsPlace(a) \/ a.kind \in {"cancel", "amend"}
        /\ ~IsPlace(a) => a.target \in f.owned
        /\ Placed(f, x, j) /\ Reserved(x, h)
        /\ a.kind # "cancel" => a.seq \in h
        /\ IsPlace(a) => j[a.seq] # "rejected"
        /\ x2 = Taken(x, a)
    BY DEF Takeable
  <1> HIDE DEF x2
  <1>1. /\ f.owned \subseteq Seqs /\ a.seq \in 0..MaxSeq
        /\ \A s \in Seqs : s \in Nat /\ x[s] \in Order
        /\ a.seq \in Nat
    BY <1>0, BoundAssumption DEF Run, Seqs
  <1>2. CASE IsPlace(a)
    <2>1. x2 = [x EXCEPT ![a.seq] = [st |-> "open", by |-> a.seq]]
      BY <1>0, <1>2 DEF Taken
    <2>2. [st |-> "open", by |-> a.seq] \in Order
      BY <1>0, <1>1 DEF Order
    <2>3. /\ x2 \in [Seqs -> Order] /\ x2[a.seq].st = "open" /\ x2[a.seq].by = a.seq
          /\ \A s \in Seqs \ {a.seq} : x2[s] = x[s]
      BY <1>0, <2>1, <2>2
    <2>4. a.kind # "cancel"
      BY <1>0, <1>2 DEF IsPlace
    <2>5. Placed(f, x2, j)
      BY <1>0, <1>1, <1>2, <2>3 DEF Placed, There
    <2>6. Reserved(x2, h)
      BY <1>0, <2>3, <2>4 DEF Reserved
    <2> QED BY <1>0, <2>3, <2>5, <2>6
  <1>3. CASE ~IsPlace(a) /\ a.kind = "cancel"
    <2>1. x2 = [x EXCEPT ![a.target] = [x[a.target] EXCEPT !.st = "done"]] /\ a.target \in f.owned /\ a.target \in Seqs
      BY <1>0, <1>1, <1>3 DEF Taken
    <2>2. /\ [x[a.target] EXCEPT !.st = "done"] \in Order
          /\ [x[a.target] EXCEPT !.st = "done"].st = "done"
          /\ [x[a.target] EXCEPT !.st = "done"].by = x[a.target].by
      BY <1>0, <1>1, <2>1 DEF Order
    <2>3. /\ x2 \in [Seqs -> Order] /\ x2[a.target].st = "done" /\ x2[a.target].by = x[a.target].by
          /\ \A s \in Seqs \ {a.target} : x2[s] = x[s]
      BY <1>0, <2>1, <2>2
    <2>4. x[a.target].st # "none"
      BY <1>0, <2>1 DEF Placed
    <2>5. Placed(f, x2, j)
      BY <1>0, <2>1, <2>3, <2>4 DEF Placed, There
    <2>6. Reserved(x2, h)
      BY <1>0, <2>1, <2>3, <2>4 DEF Reserved
    <2> QED BY <1>0, <1>3, <2>3, <2>5, <2>6
  <1>4. CASE ~IsPlace(a) /\ a.kind # "cancel"
    <2>1. x2 = [x EXCEPT ![a.target] = [x[a.target] EXCEPT !.by = a.seq]] /\ a.target \in f.owned /\ a.target \in Seqs
      BY <1>0, <1>1, <1>4 DEF Taken
    <2>2. /\ [x[a.target] EXCEPT !.by = a.seq] \in Order
          /\ [x[a.target] EXCEPT !.by = a.seq].st = x[a.target].st
          /\ [x[a.target] EXCEPT !.by = a.seq].by = a.seq
      BY <1>0, <1>1, <2>1 DEF Order
    <2>3. /\ x2 \in [Seqs -> Order] /\ x2[a.target].st = x[a.target].st /\ x2[a.target].by = a.seq
          /\ \A s \in Seqs \ {a.target} : x2[s] = x[s]
      BY <1>0, <2>1, <2>2
    <2>4. Placed(f, x2, j)
      BY <1>0, <1>1, <2>1, <2>3 DEF Placed, There
    <2>5. Reserved(x2, h)
      BY <1>0, <1>4, <2>1, <2>3 DEF Reserved
    <2> QED BY <1>0, <1>4, <2>3, <2>4, <2>5
  <1> QED BY <1>2, <1>3, <1>4 DEF x2

\* The receipt `known' for the action a that is open, for one run.
Answered(m, f, dn, c, a, known, x2, j2, h2, v, dn2) ==
    /\ m \in Run /\ f \in Run /\ dn \in BOOLEAN /\ v \in Worker /\ dn2 \in BOOLEAN
    /\ Disk(f) /\ Memory(m, f, dn) /\ m.st # "absent" /\ Counted(f, v, c)
    /\ a \in Action /\ a.seq \in Seqs /\ a # NoAction
    /\ f.pend = a
    /\ ~dn => m.pend = a
    /\ known \in {"accepted", "rejected", "unknown"}
    /\ Placed(f, x2, j2) /\ Reserved(x2, h2)
    /\ known = "accepted" /\ IsPlace(a) => x2[a.seq].st # "none"
    /\ known = "rejected" /\ There(x2, a.seq) => a.seq \in f.owned
    /\ \/ v.step = "off"
       \/ v.step = "ending" /\ (known = "unknown" \/ dn2)
       \/ v.step = "ack" /\ v.act = a /\ known = "accepted" /\ IsPlace(a)
       \/ v.step = "loop" /\ (known = "rejected" \/ (known = "accepted" /\ ~IsPlace(a)))

LEMMA AnswerRun ==
  ASSUME NEW m, NEW f, NEW dn, NEW c, NEW a, NEW known, NEW x2, NEW j2, NEW h2, NEW v,
         NEW dn2, NEW m2, NEW f2, NEW w2,
         Answered(m, f, dn, c, a, known, x2, j2, h2, v, dn2),
         Outcome(Accounted(m, a, known), v, dn, f, dn2, m2, f2, w2)
  PROVE  RunOK(m2, f2, dn2, w2, x2, j2, h2, c)
  <1>0. /\ m \in Run /\ f \in Run /\ dn \in BOOLEAN /\ v \in Worker /\ dn2 \in BOOLEAN
        /\ Disk(f) /\ Memory(m, f, dn) /\ m.st # "absent" /\ Counted(f, v, c)
        /\ a \in Action /\ a.seq \in Seqs /\ a # NoAction
        /\ f.pend = a
        /\ ~dn => m.pend = a
        /\ known \in {"accepted", "rejected", "unknown"}
        /\ Placed(f, x2, j2) /\ Reserved(x2, h2)
        /\ known = "accepted" /\ IsPlace(a) => x2[a.seq].st # "none"
        /\ known = "rejected" /\ There(x2, a.seq) => a.seq \in f.owned
        /\ \/ v.step = "off"
           \/ v.step = "ending" /\ (known = "unknown" \/ dn2)
           \/ v.step = "ack" /\ v.act = a /\ known = "accepted" /\ IsPlace(a)
           \/ v.step = "loop" /\ (known = "rejected" \/ (known = "accepted" /\ ~IsPlace(a)))
    BY DEF Answered
  <1> DEFINE n == Accounted(m, a, known)
  <1>1. Disk(f) /\ Memory(m, f, dn) /\ m.st # "absent"
    BY <1>0
  <1>2. /\ n \in Run /\ n.seq = m.seq /\ n.acts = m.acts /\ n.total = m.total /\ n.asked = m.asked
        /\ n.acct = m.acct /\ n.unknown = (known = "unknown")
        /\ n.owned = IF known = "accepted" /\ IsPlace(a) THEN m.owned \cup {a.seq} ELSE m.owned
        /\ n.pend = IF known = "rejected" \/ (known = "accepted" /\ ~IsPlace(a)) THEN NoAction ELSE m.pend
        /\ n.st = IF known = "unknown" THEN "recovery" ELSE m.st
        /\ n.st # "absent"
    BY <1>0, <1>1, AccountedFacts
  <1>3. ~dn => Alike(m, f) /\ Disk(m)
    BY <1>0, <1>1 DEF Memory, Disk, Alike, ValidRun, ValidView, Room
  <1>4. ~dn => Disk(n)
    BY <1>0, <1>1, <1>3, AccountedDisk
  <1> HIDE DEF n
  <1>5. Carried(f, v) /\ Counted(f, v, c) /\ Unsent(v, x2, j2, h2) /\ Carried(n, v)
    BY <1>0, <1>1 DEF Carried, Counted, Unsent, Carrying
  <1>6. ~dn => Placed(n, x2, j2) /\ Counted(n, v, c)
    <2> SUFFICES ASSUME ~dn PROVE Placed(n, x2, j2) /\ Counted(n, v, c)
      OBVIOUS
    <2>1. /\ n.seq = f.seq /\ n.acts = f.acts /\ n.total = f.total
          /\ n.owned = IF known = "accepted" /\ IsPlace(a) THEN f.owned \cup {a.seq} ELSE f.owned
          /\ n.pend = IF known = "rejected" \/ (known = "accepted" /\ ~IsPlace(a)) THEN NoAction ELSE a
      BY <1>0, <1>2, <1>3 DEF Alike
    <2>2. Counted(n, v, c)
      BY <1>0, <1>5, <2>1 DEF Counted
    <2>3. Placed(n, x2, j2)
      <3>1. CASE known = "rejected"
        BY <1>0, <2>1, <3>1 DEF Placed, There
      <3>2. CASE known = "accepted"
        BY <1>0, <2>1, <3>2 DEF Placed, There
      <3>3. CASE known = "unknown"
        BY <1>0, <2>1, <3>3 DEF Placed, There
      <3> QED BY <1>0, <3>1, <3>2, <3>3
    <2> QED BY <1>0, <2>2, <2>3
  <1>7. ~dn2 => Work(n, n, FALSE, v)
    <2> SUFFICES ASSUME ~dn2 PROVE Work(n, n, FALSE, v)
      OBVIOUS
    <2>1. ~dn
      BY <1>0 DEF Outcome
    <2> QED BY <1>0, <1>2, <1>5, <2>1 DEF Work
  <1>8. v.step = "ack" => IsPlace(v.act) /\ v.act.seq \in Seqs
    BY <1>0
  <1>9. Outcome(n, v, dn, f, dn2, m2, f2, w2)
    BY <1>0 DEF n
  <1> HIDE DEF Outcome
  <1>10. ~dn => Carried(n, v) /\ Placed(n, x2, j2) /\ Counted(n, v, c)
    BY <1>0, <1>5, <1>6
  <1>11. dn2 => Carried(f, v) /\ Placed(f, x2, j2) /\ Counted(f, v, c)
    BY <1>0, <1>5
  <1>12. Disk(f) /\ n \in Run /\ n.st # "absent"
    BY <1>0, <1>1, <1>2
  <1> QED BY <1>0, <1>4, <1>5, <1>7, <1>8, <1>9, <1>10, <1>11, <1>12, SavedRun

\* A save may revoke a worker and never moves it.
LEMMA SavedStep ==
  ASSUME TypeOK, NEW r \in Runs, NEW next, NEW v \in Worker,
         Save(next, [live EXCEPT ![r] = v])
  PROVE  live'[r].step = v.step /\ down' \in BOOLEAN
  <1>1. live \in [Runs -> Worker] /\ down \in BOOLEAN /\ 1 \in 1..2
    BY DEF TypeOK
  <1>2. [live EXCEPT ![r] = v][r] = v
    BY <1>1
  <1>3. live'[r] = v \/ live'[r] = Revoke(v, 1)
    BY <1>1, <1>2 DEF Save, SaveWith
  <1>4. down' \in BOOLEAN
    BY <1>1 DEF Save, SaveWith
  <1> QED BY <1>1, <1>3, <1>4, RevokeFacts

LEMMA AnswerInv ==
  ASSUME IInv, NEW r \in Runs, NEW taken \in BOOLEAN, NEW noted \in BOOLEAN,
         NEW status \in {"accepted", "rejected", "unknown"}, Answer(r, taken, status, noted)
  PROVE  IInv'
  <1> DEFINE a == live[r].act
             f == file.doc[r]
             x == exchange[r]
             j == journal[r]
             h == held[r]
             c == sent[r]
             known == IF status = "rejected" /\ ~noted THEN "unknown" ELSE status
             n == Accounted(doc[r], a, known)
             v == IF known = "unknown" \/ down' THEN [live[r] EXCEPT !.step = "ending"]
                  ELSE IF known = "accepted" /\ IsPlace(a) THEN [live[r] EXCEPT !.step = "ack"]
                  ELSE At(live[r], "loop", NoAction)
             x2 == exchange'[r]
             j2 == journal'[r]
             h2 == held'[r]
  <1>0. /\ live[r].step = "sent" /\ Unlocked
        /\ status = "rejected" => ~taken
        /\ status = "accepted" /\ a.kind # "cancel" => taken
        /\ ~noted => IsPlace(a) /\ status # "unknown"
        /\ exchange' = IF taken THEN [exchange EXCEPT ![r] = Taken(@, a)] ELSE exchange
        /\ journal' = IF noted THEN Noted(r, a, status) ELSE journal
        /\ held' = Release(r, a, status)
        /\ gate' = IF live'[r].step = "ack" THEN gate ELSE "free"
        /\ UNCHANGED <<workerRest, sent>>
    BY DEF Answer
  <1>1. Save([doc EXCEPT ![r] = n], [live EXCEPT ![r] = v])
    <2>1. Save([doc EXCEPT ![r] = Accounted(@, a, known)],
               IF known = "unknown" \/ down' THEN Step(r, "ending")
               ELSE IF known = "accepted" /\ IsPlace(a) THEN Step(r, "ack") ELSE Idle(r, "loop"))
      BY DEF Answer
    <2>2. [doc EXCEPT ![r] = Accounted(@, a, known)] = [doc EXCEPT ![r] = n]
      BY Working DEF TypeOK
    <2>3. /\ Step(r, "ending") = [live EXCEPT ![r] = [live[r] EXCEPT !.step = "ending"]]
          /\ Step(r, "ack") = [live EXCEPT ![r] = [live[r] EXCEPT !.step = "ack"]]
          /\ Idle(r, "loop") = [live EXCEPT ![r] = At(live[r], "loop", NoAction)]
      BY Working, Shapes
    <2>4. (IF known = "unknown" \/ down' THEN Step(r, "ending")
           ELSE IF known = "accepted" /\ IsPlace(a) THEN Step(r, "ack") ELSE Idle(r, "loop"))
             = [live EXCEPT ![r] = v]
      BY <2>3
    <2> QED BY <2>1, <2>2, <2>4
  <1>2. /\ a.seq \in Seqs /\ a # NoAction /\ a \in Action /\ f.pend = a /\ f.seq = a.seq
        /\ IsPlace(a) \/ a.kind \in {"cancel", "amend"}
        /\ ~IsPlace(a) => a.target \in f.owned
        /\ ~down => doc[r].pend = a
    BY <1>0, Working, CarriedFacts DEF Carrying
  <1>3. /\ Disk(f) /\ doc[r].st # "absent" /\ doc[r] \in Run /\ f \in Run /\ live[r] \in Worker
        /\ ~down => Disk(doc[r])
        /\ Placed(f, x, j) /\ Reserved(x, h) /\ Unsent(live[r], x, j, h)
        /\ x \in [Seqs -> Order] /\ down \in BOOLEAN
    BY <1>0, Working, OneRun DEF Work
  <1>4. /\ known \in {"accepted", "rejected", "unknown"}
        /\ known = "accepted" <=> status = "accepted"
        /\ known = "rejected" => status = "rejected"
    OBVIOUS
  <1>5. /\ v \in Worker /\ v.intent = live[r].intent /\ v.adm = live[r].adm
        /\ \/ v.step = "ending" /\ (known = "unknown" \/ down')
           \/ v.step = "ack" /\ v.act = a /\ known = "accepted" /\ IsPlace(a)
           \/ v.step = "loop" /\ (known = "rejected" \/ (known = "accepted" /\ ~IsPlace(a)))
    <2> HIDE DEF known
    <2>1. "ending" \in WorkerSteps /\ "ack" \in WorkerSteps /\ "loop" \in WorkerSteps /\ NoAction \in Action
      BY NewRunFacts DEF WorkerSteps
    <2>2. CASE known = "unknown" \/ down'
      <3>1. v = [live[r] EXCEPT !.step = "ending"]
        BY <2>2
      <3> HIDE DEF v
      <3> QED BY <1>3, <2>1, <2>2, <3>1, StepSet
    <2>3. CASE ~(known = "unknown" \/ down') /\ known = "accepted" /\ IsPlace(a)
      <3>1. v = [live[r] EXCEPT !.step = "ack"]
        BY <2>3
      <3> HIDE DEF v
      <3> QED BY <1>3, <2>1, <2>3, <3>1, StepSet
    <2>4. CASE ~(known = "unknown" \/ down') /\ ~(known = "accepted" /\ IsPlace(a))
      <3>1. v = At(live[r], "loop", NoAction)
        BY <2>4
      <3> HIDE DEF v
      <3> QED BY <1>3, <1>4, <2>1, <2>4, <3>1, IdleSet
    <2> QED BY <2>2, <2>3, <2>4
  <1>6. n \in Run /\ n.st # "absent" /\ n.acct = doc[r].acct /\ n.st \in {doc[r].st, "recovery"} /\ (~down => Disk(n))
    <2> HIDE DEF known
    <2>1. n \in Run /\ n.acct = doc[r].acct /\ n.st = IF known = "unknown" THEN "recovery" ELSE doc[r].st
      BY <1>2, <1>3, <1>4, AccountedFacts
    <2>2. ~down => Disk(n)
      BY <1>2, <1>3, <1>4, AccountedDisk
    <2> HIDE DEF n
    <2> QED BY <1>3, <2>1, <2>2
  <1> HIDE DEF n, v, known
  <1>7. /\ journal' \in [Runs -> [Seqs -> Entry]] /\ held' \in [Runs -> SUBSET Seqs]
        /\ \A q \in Runs \ {r} : journal'[q] = journal[q] /\ held'[q] = held[q]
        /\ \A s \in Seqs : j2[s] = j[s] \/ (s = a.seq /\ j2[s] = status /\ IsPlace(a))
        /\ h2 = IF status = "rejected" THEN h \ {a.seq} ELSE h
    <2>0. TypeOK /\ journal \in [Runs -> [Seqs -> Entry]]
      BY Working
    <2>1. /\ Noted(r, a, status) \in [Runs -> [Seqs -> Entry]]
          /\ \A q \in Runs \ {r} : Noted(r, a, status)[q] = journal[q]
          /\ \A s \in Seqs : Noted(r, a, status)[r][s] =
                IF IsPlace(a) /\ status # "unknown" /\ s = a.seq THEN status ELSE journal[r][s]
      BY <1>2, <2>0, NotedFacts
    <2>2. /\ held' \in [Runs -> SUBSET Seqs]
          /\ \A q \in Runs \ {r} : held'[q] = held[q]
          /\ h2 = IF status = "rejected" THEN h \ {a.seq} ELSE h
      <3>1. held' = Release(r, a, status)
        BY <1>0
      <3>2. held \in [Runs -> SUBSET Seqs]
        BY Working
      <3> QED BY <3>1, <3>2 DEF Release
    <2>3. journal' = Noted(r, a, status) \/ journal' = journal
      BY <1>0
    <2> QED BY <2>0, <2>1, <2>2, <2>3
  <1>8. /\ x[a.seq].st = "none" /\ \A s \in Seqs : x[s].by # a.seq
        /\ a.kind # "cancel" => a.seq \in h
        /\ IsPlace(a) => j[a.seq] # "rejected"
    BY <1>0, <1>3 DEF Unsent, Carrying
  <1>9. /\ exchange' \in [Runs -> [Seqs -> Order]] /\ \A q \in Runs \ {r} : exchange'[q] = exchange[q]
        /\ x2 = IF taken THEN Taken(x, a) ELSE x
        /\ Placed(f, x2, j) /\ Reserved(x2, h)
        /\ taken /\ IsPlace(a) => x2[a.seq].st = "open"
    <2>0. exchange \in [Runs -> [Seqs -> Order]]
      BY Working
    <2>1. CASE taken
      <3>1. exchange' = [exchange EXCEPT ![r] = Taken(x, a)]
        BY <1>0, <2>1
      <3>2. x2 = Taken(x, a)
        BY <2>0, <3>1
      <3>3. x2 \in [Seqs -> Order] /\ Placed(f, x2, j) /\ Reserved(x2, h) /\ (IsPlace(a) => x2[a.seq].st = "open")
        <4>1. Takeable(f, x, j, h, a)
          BY <1>2, <1>3, <1>8 DEF Takeable
        <4> QED BY <3>2, <4>1, TakenFacts
      <3> QED BY <2>0, <2>1, <3>1, <3>2, <3>3
    <2>2. CASE ~taken
      BY <1>0, <1>3, <2>0, <2>2
    <2> QED BY <2>1, <2>2
  <1> HIDE DEF x2, j2, h2
  <1>10. IsPlace(a) => a.kind # "cancel"
    BY DEF IsPlace
  <1>11. Placed(f, x2, j2)
    <2>1. j2[a.seq] = "accepted" => j[a.seq] = "accepted" \/ x2[a.seq].st # "none"
      BY <1>0, <1>2, <1>7, <1>9, <1>10
    <2>2. j2[a.seq] = "rejected" => j[a.seq] = "rejected" \/ x2[a.seq].st = "none"
      BY <1>0, <1>2, <1>7, <1>8, <1>9
    <2> QED BY <1>7, <1>9, <2>1, <2>2 DEF Placed, There
  <1>12. Reserved(x2, h2)
    BY <1>0, <1>7, <1>8, <1>9 DEF Reserved
  <1>13. /\ known = "accepted" /\ IsPlace(a) => x2[a.seq].st # "none"
         /\ known = "rejected" => x2[a.seq].st = "none"
    BY <1>0, <1>4, <1>8, <1>9, <1>10
  <1>14. live'[r].step = v.step /\ down' \in BOOLEAN
    BY <1>1, <1>5, Working, SavedStep
  <1>15. RunOK(doc[r], f, down, live[r], x, j, h, c)
    BY Working
  <1>16. ASSUME Outcome(n, v, down, f, down', doc'[r], file'.doc[r], live'[r])
         PROVE  RunOK(doc'[r], file'.doc[r], down', live'[r], x2, j2, h2, c)
    <2>1. Outcome(Accounted(doc[r], a, known), v, down, f, down', doc'[r], file'.doc[r], live'[r])
      BY <1>16 DEF n
    <2>2. Counted(f, v, c) /\ Memory(doc[r], f, down)
      BY <1>5, <1>15 DEF RunOK, Counted
    <2>3. known = "rejected" => ~There(x2, a.seq)
      BY <1>13 DEF There
    <2>4. Answered(doc[r], f, down, c, a, known, x2, j2, h2, v, down')
      BY <1>2, <1>3, <1>4, <1>5, <1>11, <1>12, <1>13, <1>14, <2>2, <2>3 DEF Answered
    <2> HIDE DEF Outcome
    <2> QED BY <2>1, <2>4, AnswerRun
  <1>17. sent' = sent /\ UNCHANGED workerRest /\ Unlocked /\ IsLive(r) /\ live[r].step \in Busy /\ v.step # "off"
    BY <1>0, <1>5 DEF IsLive, Busy
  <1>18. /\ gate' \in {"free", "start", "worker", "recovery"}
         /\ \/ v.step \in Busy /\ gate' = "worker" /\ live[r].step \in Busy
            \/ v.step \notin Busy /\ live[r].step \in Busy /\ gate' = "free"
    <2>1. gate = "worker"
      BY <1>17, Working
    <2> QED BY <1>0, <1>5, <1>14, <1>17, <2>1 DEF Busy
  <1>19. Outcome(n, v, down, file.doc[r], down', doc'[r], file'.doc[r], live'[r]) =>
            RunOK(doc'[r], file'.doc[r], down', live'[r], exchange'[r], journal'[r], held'[r], sent'[r])
    BY <1>16, <1>17 DEF x2, j2, h2
  <1>20. n.st = "stopping" => doc[r].st = "stopping"
    BY <1>6
  <1> HIDE DEF Outcome
  <1> QED BY <1>1, <1>5, <1>6, <1>7, <1>9, <1>17, <1>18, <1>19, <1>20, Working, WorkerSave

Closed(d) == [d EXCEPT !.pend = NoAction]

LEMMA ClosedFacts ==
  ASSUME NEW d \in Run
  PROVE  /\ Closed(d) \in Run /\ Closed(d).pend = NoAction /\ Closed(d).st = d.st /\ Closed(d).seq = d.seq
         /\ Closed(d).acts = d.acts /\ Closed(d).total = d.total /\ Closed(d).owned = d.owned
         /\ Closed(d).asked = d.asked /\ Closed(d).acct = d.acct /\ Closed(d).unknown = d.unknown
         /\ Disk(d) /\ d.st # "absent" /\ ~d.unknown => Disk(Closed(d))
  <1> DEFINE n == Closed(d)
  <1>0. n = [d EXCEPT !.pend = NoAction] /\ NoAction \in Action
    BY NewRunFacts DEF Closed
  <1> HIDE DEF n
  <1>1. /\ n \in Run /\ n.pend = NoAction /\ n.st = d.st /\ n.seq = d.seq
        /\ n.acts = d.acts /\ n.total = d.total /\ n.owned = d.owned
        /\ n.asked = d.asked /\ n.acct = d.acct /\ n.unknown = d.unknown
    BY <1>0 DEF Run
  <1>2. Disk(d) /\ d.st # "absent" /\ ~d.unknown => Disk(n)
    BY <1>1, NewRunFacts DEF Disk, ValidRun, ValidView, Room, IsPlace
  <1> QED BY <1>1, <1>2 DEF n

LEMMA AcknowledgeInv ==
  ASSUME IInv, NEW r \in Runs, Acknowledge(r)
  PROVE  IInv'
  <1> DEFINE a == live[r].act
             f == file.doc[r]
             s == IF down' THEN "ending" ELSE "loop"
             n == Closed(doc[r])
             v == At(live[r], s, NoAction)
             x == exchange[r]
             j == journal[r]
             h == held[r]
             c == sent[r]
             j2 == journal'[r]
  <1>0. /\ live[r].step = "ack" /\ Unlocked /\ Acknowledgeable(r, a.seq)
        /\ journal' = Noted(r, a, "accepted")
        /\ gate' = "free" /\ UNCHANGED <<workerRest, exchange, held, sent>>
    BY DEF Acknowledge
  <1>1. Save([doc EXCEPT ![r] = n], [live EXCEPT ![r] = v])
    <2>1. [doc EXCEPT ![r].pend = NoAction] = [doc EXCEPT ![r] = n]
      BY Working, Shapes DEF Closed
    <2>2. Idle(r, s) = [live EXCEPT ![r] = v]
      BY Working, Shapes
    <2>3. Save([doc EXCEPT ![r].pend = NoAction], Idle(r, s))
      BY DEF Acknowledge
    <2> QED BY <2>1, <2>2, <2>3
  <1>2. s \in WorkerSteps /\ s \in {"ending", "loop"} /\ (s = "ending" => down')
    BY DEF WorkerSteps
  <1> HIDE DEF s
  <1>3. v \in Worker /\ v.step = s /\ v.act = NoAction /\ v.intent = live[r].intent /\ v.adm = live[r].adm
    BY <1>2, Working, IdleSet
  <1>4. /\ Disk(f) /\ doc[r].st # "absent" /\ doc[r] \in Run /\ f \in Run /\ a \in Action /\ a.seq \in Seqs /\ IsPlace(a)
        /\ ~down => Disk(doc[r]) /\ Alike(doc[r], f) /\ doc[r].pend = a /\ a.seq \in doc[r].owned /\ ~doc[r].unknown
        /\ Placed(f, x, j) /\ Reserved(x, h) /\ Counted(f, live[r], c) /\ down \in BOOLEAN
    BY <1>0, Working, OneRun DEF Work, Memory
  <1>5. /\ n \in Run /\ n.pend = NoAction /\ n.st = doc[r].st /\ n.seq = doc[r].seq
        /\ n.acts = doc[r].acts /\ n.total = doc[r].total /\ n.owned = doc[r].owned /\ n.acct = doc[r].acct
        /\ ~down => Disk(n)
    BY <1>4, ClosedFacts
  <1> HIDE DEF n, v
  <1>6. /\ journal' \in [Runs -> [Seqs -> Entry]]
        /\ \A q \in Runs \ {r} : journal'[q] = journal[q]
        /\ \A i \in Seqs : j2[i] = j[i] \/ (i = a.seq /\ j2[i] = "accepted")
    <2>0. TypeOK
      BY Working
    <2>1. /\ Noted(r, a, "accepted") \in [Runs -> [Seqs -> Entry]]
          /\ \A q \in Runs \ {r} : Noted(r, a, "accepted")[q] = journal[q]
          /\ \A i \in Seqs : Noted(r, a, "accepted")[r][i] =
                IF IsPlace(a) /\ i = a.seq THEN "accepted" ELSE journal[r][i]
      BY <1>4, <2>0, NotedFacts
    <2>2. journal' = Noted(r, a, "accepted")
      BY <1>0
    <2> QED BY <2>1, <2>2
  <1>7. x[a.seq].st # "none"
    BY <1>0, <1>4 DEF Acknowledgeable, Found, Placed
  <1> HIDE DEF j2
  <1>8. Placed(f, x, j2)
    BY <1>4, <1>6, <1>7 DEF Placed
  <1>9. Carried(f, v) /\ Counted(f, v, c) /\ Unsent(v, x, j2, h) /\ Carried(n, v)
    BY <1>2, <1>3, <1>4 DEF Carried, Counted, Unsent, Carrying
  <1>10. ~down => Carried(n, v) /\ Placed(n, x, j2) /\ Counted(n, v, c)
    <2> SUFFICES ASSUME ~down PROVE Placed(n, x, j2) /\ Counted(n, v, c)
      BY <1>9
    <2>1. /\ n.seq = f.seq /\ n.acts = f.acts /\ n.total = f.total /\ n.owned = f.owned /\ f.pend = a
          /\ a.seq \in f.owned
      BY <1>4, <1>5 DEF Alike
    <2>2. Placed(n, x, j2)
      BY <1>5, <1>8, <2>1 DEF Placed
    <2>3. Counted(n, v, c)
      BY <1>9, <2>1 DEF Counted
    <2> QED BY <2>2, <2>3
  <1>11. ~down' => Work(n, n, FALSE, v)
    BY <1>2, <1>3, <1>4, <1>5, <1>9 DEF Work
  <1>12. down' \in BOOLEAN
    BY <1>1, <1>3, Working, SavedStep
  <1>13. v.step # "ack" /\ v.step \notin Busy /\ v.step # "off" /\ live[r].step \in Busy /\ IsLive(r)
    BY <1>0, <1>2, <1>3 DEF Busy, IsLive
  <1>14. ASSUME Outcome(n, v, down, f, down', doc'[r], file'.doc[r], live'[r])
         PROVE  RunOK(doc'[r], file'.doc[r], down', live'[r], x, j2, h, c)
    <2>1. Disk(f) /\ (~down => Disk(n)) /\ n \in Run /\ v \in Worker /\ n.st # "absent" /\ f \in Run
      BY <1>3, <1>4, <1>5
    <2>2. down' => Carried(f, v) /\ Placed(f, x, j2) /\ Counted(f, v, c)
      BY <1>8, <1>9
    <2>3. Reserved(x, h) /\ Unsent(v, x, j2, h) /\ down \in BOOLEAN
      BY <1>4, <1>9
    <2> HIDE DEF Outcome, f, x, j, h, c
    <2> QED BY <1>10, <1>11, <1>12, <1>13, <1>14, <2>1, <2>2, <2>3, SavedRun
  <1>15. exchange' = exchange /\ held' = held /\ sent' = sent /\ UNCHANGED workerRest /\ Unlocked /\ gate' = "free"
    BY <1>0
  <1>16. Outcome(n, v, down, file.doc[r], down', doc'[r], file'.doc[r], live'[r]) =>
            RunOK(doc'[r], file'.doc[r], down', live'[r], exchange'[r], journal'[r], held'[r], sent'[r])
    BY <1>14, <1>15 DEF j2
  <1>17. (n.st = "stopping" => doc[r].st = "stopping") /\ n.st # "absent"
    BY <1>4, <1>5
  <1> HIDE DEF Outcome
  <1> QED BY <1>1, <1>3, <1>5, <1>6, <1>13, <1>15, <1>16, <1>17, Working, WorkerSave
-----------------------------------------------------------------------------

\* Steps that leave the runs and the outside alone.
LEMMA AsideInv ==
  ASSUME IInv,
         UNCHANGED <<doc, file, down, live, faults, control, recovery, admission, closed, gate, outside,
                     revoked, overtaken>>,
         ticket' \in Ticket, epoch' \in 0..MaxEpoch, session' \in 1..Len(AccountOf),
         start' \in [step : {"idle", "taken", "saved"}, run : Runs \cup {0}, t : Ticket],
         \/ start' = start
         \/ /\ start.step # "saved" /\ start'.step # "saved"
            /\ start'.step # "idle" => start'.run \in Runs
  PROVE  IInv'
  <1>0. /\ TypeOK /\ EveryRun /\ Failure /\ AtStart /\ AtRecovery /\ Gate
        /\ OneOpenAction /\ OneActive /\ ShownAsItIs /\ Controls /\ Revoked
    BY DEF IInv
  <1>1. exchange' = exchange /\ journal' = journal /\ held' = held /\ sent' = sent
    BY DEF outside
  <1>2. TypeOK'
    BY <1>0, <1>1 DEF TypeOK
  <1>3. EveryRun' /\ Failure'
    BY <1>0, <1>1 DEF EveryRun, Failure
  <1>4. AtStart' /\ AtRecovery'
    BY <1>0 DEF AtStart, AtRecovery, IsLive
  <1>5. Gate'
    BY <1>0 DEF Gate
  <1>6. OneOpenAction' /\ OneActive'
    BY <1>0 DEF OneOpenAction, OneActive, Active, Settled, IsLive
  <1>7. ShownAsItIs'
    BY <1>0 DEF ShownAsItIs, IsLive
  <1>8. Controls' /\ Revoked'
    BY <1>0 DEF Controls, Revoked, IsLive
  <1> QED BY <1>2, <1>3, <1>4, <1>5, <1>6, <1>7, <1>8 DEF IInv

LEMMA AccessInv ==
  ASSUME IInv, Access \/ StartRefused \/ BumpEpoch \/ SwitchSession \/ \E r \in Runs : TakeTicket(r)
  PROVE  IInv'
  <1>0. /\ ticket \in Ticket /\ epoch \in 0..MaxEpoch /\ session \in 1..Len(AccountOf)
        /\ admission \in 0..MaxAdmission
        /\ start \in [step : {"idle", "taken", "saved"}, run : Runs \cup {0}, t : Ticket]
    BY DEF IInv, TypeOK
  <1>1. Len(AccountOf) \in Nat /\ MaxEpoch \in Nat /\ MaxAdmission \in Nat
    BY AccountAssumption, BoundAssumption
  <1>2. NoStart \in [step : {"idle", "taken", "saved"}, run : Runs \cup {0}, t : Ticket] /\ NoStart.step = "idle"
    BY NewRunFacts DEF NoStart
  <1>3. CASE Access
    <2>1. ticket' \in Ticket
      BY <1>0, <1>1, <1>3 DEF Access, Ticket
    <2>2. /\ UNCHANGED <<doc, file, down, live, faults, request, admission, closed, gate, outside,
                         revoked, overtaken>>
          /\ epoch' = epoch /\ session' = session
      BY <1>3 DEF Access
    <2> QED BY <1>0, <2>1, <2>2, AsideInv DEF request
  <1>4. CASE StartRefused
    <2>1. /\ UNCHANGED <<durable, control, recovery, admission, closed, epoch, session, gate, outside,
                         revoked, overtaken>>
          /\ start' = NoStart /\ start.step = "taken"
      BY <1>4 DEF StartRefused
    <2> QED BY <1>0, <1>2, <2>1, AsideInv DEF durable
  <1>5. CASE BumpEpoch
    <2>1. epoch' \in 0..MaxEpoch
      BY <1>0, <1>1, <1>5 DEF BumpEpoch
    <2>2. UNCHANGED <<durable, request, admission, closed, session, gate, outside, revoked, overtaken>>
      BY <1>5 DEF BumpEpoch
    <2> QED BY <1>0, <2>1, <2>2, AsideInv DEF durable, request
  <1>6. CASE SwitchSession
    <2>1. session' \in 1..Len(AccountOf)
      BY <1>0, <1>1, <1>6 DEF SwitchSession
    <2>2. UNCHANGED <<durable, request, admission, closed, epoch, gate, outside, revoked, overtaken>>
      BY <1>6 DEF SwitchSession
    <2> QED BY <1>0, <2>1, <2>2, AsideInv DEF durable, request
  <1>7. CASE \E r \in Runs : TakeTicket(r)
    <2>1. PICK r \in Runs : TakeTicket(r)
      BY <1>7
    <2>2. /\ start.step = "idle" /\ start' = [step |-> "taken", run |-> r, t |-> ticket] /\ ticket' = NoTicket
          /\ UNCHANGED <<doc, file, down, live, faults, control, recovery, admission, closed, epoch,
                         session, gate, outside, revoked, overtaken>>
      BY <2>1 DEF TakeTicket
    <2>3. /\ start' \in [step : {"idle", "taken", "saved"}, run : Runs \cup {0}, t : Ticket]
          /\ start'.step = "taken" /\ start'.run \in Runs
      BY <1>0, <2>2
    <2> QED BY <1>0, <2>2, <2>3, AsideInv, NewRunFacts
  <1> QED BY <1>3, <1>4, <1>5, <1>6, <1>7

\* A control or the exit revokes the runs R.
LEMMA RevokeRuns ==
  ASSUME IInv, NEW R \in SUBSET Runs, NEW i \in 1..2, admission < MaxAdmission,
         admission' = admission + 1, closed' \in BOOLEAN,
         live' = [r \in Runs |-> IF r \in R THEN Revoke(live[r], i) ELSE live[r]],
         revoked' = [r \in Runs |-> IF r \in R THEN admission + 1 ELSE revoked[r]],
         \/ control' = control
         \/ control' = [step |-> "record", runs |-> R, intent |-> i],
         UNCHANGED <<doc, file, down, ticket, faults, start, recovery, epoch, session, gate, outside, overtaken>>
  PROVE  IInv'
  <1>0. /\ TypeOK /\ EveryRun /\ Failure /\ AtStart /\ AtRecovery /\ Gate
        /\ OneOpenAction /\ OneActive /\ ShownAsItIs /\ Controls /\ Revoked
        /\ live \in [Runs -> Worker] /\ admission \in 0..MaxAdmission /\ MaxAdmission \in Nat
        /\ revoked \in [Runs -> Nat] /\ control.runs \subseteq Runs
    BY BoundAssumption DEF IInv, TypeOK
  <1>1. exchange' = exchange /\ journal' = journal /\ held' = held /\ sent' = sent
    BY DEF outside
  <1>2. ASSUME NEW q \in Runs
        PROVE  /\ live'[q] \in Worker /\ live'[q].step = live[q].step /\ live'[q].act = live[q].act
               /\ live'[q].adm = live[q].adm
               /\ live[q].intent \in 0..2 /\ live'[q].intent \in 0..2 /\ live'[q].intent >= live[q].intent
               /\ q \in R /\ live[q].step # "off" => live'[q].intent > 0
    <2>1. live[q] \in Worker
      BY <1>0
    <2>2. CASE q \in R
      <3>1. live'[q] = Revoke(live[q], i)
        BY <2>2
      <3> QED BY <2>1, <2>2, <3>1, RevokeFacts DEF Worker
    <2>3. CASE q \notin R
      <3>1. live'[q] = live[q]
        BY <2>3
      <3> QED BY <2>1, <2>3, <3>1 DEF Worker
    <2> QED BY <2>2, <2>3
  <1>3. TypeOK'
    <2>1. live' \in [Runs -> Worker] /\ revoked' \in [Runs -> Nat] /\ admission' \in 0..MaxAdmission
      BY <1>0, <1>2
    <2>2. control' \in [step : {"idle", "record"}, runs : SUBSET Runs, intent : 0..2]
      BY <1>0 DEF TypeOK
    <2> QED BY <1>0, <1>1, <2>1, <2>2 DEF TypeOK
  <1>4. EveryRun'
    <2> SUFFICES ASSUME NEW q \in Runs
                 PROVE  RunOK(doc[q], file.doc[q], down, live'[q], exchange[q], journal[q], held[q], sent[q])
      BY <1>1 DEF EveryRun
    <2>1. /\ RunOK(doc[q], file.doc[q], down, live[q], exchange[q], journal[q], held[q], sent[q])
          /\ doc[q] \in Run /\ live[q] \in Worker /\ down \in BOOLEAN /\ Work(doc[q], file.doc[q], down, live[q])
      BY <1>0, OneRun DEF EveryRun
    <2>2. Quieter(live[q], live'[q], doc[q])
      BY <1>2, <2>1 DEF Quieter, Work
    <2> QED BY <1>2, <2>1, <2>2, QuietRun
  <1>5. AtStart' /\ AtRecovery'
    BY <1>0, <1>2 DEF AtStart, AtRecovery, IsLive
  <1>6. Gate' /\ Failure'
    BY <1>0, <1>2 DEF Gate, Failure
  <1>7. OneOpenAction' /\ OneActive'
    BY <1>0, <1>2 DEF OneOpenAction, OneActive, Active, Settled, IsLive
  <1>8. ShownAsItIs'
    BY <1>0, <1>2 DEF ShownAsItIs, IsLive
  <1>9. Controls'
    BY <1>0, <1>2 DEF Controls, IsLive
  <1>10. Revoked'
    <2> SUFFICES ASSUME NEW q \in Runs
                 PROVE  /\ live'[q].step # "off" => live'[q].adm >= revoked'[q] \/ live'[q].intent > 0
                        /\ revoked'[q] <= admission + 1
      BY DEF Revoked, IsLive
    <2>1. revoked[q] \in Nat /\ revoked[q] <= admission
          /\ (live[q].step # "off" => live[q].adm >= revoked[q] \/ live[q].intent > 0)
      BY <1>0 DEF Revoked, IsLive
    <2> QED BY <1>0, <1>2, <2>1
  <1> QED BY <1>3, <1>4, <1>5, <1>6, <1>7, <1>8, <1>9, <1>10 DEF IInv

LEMMA RevokeInv ==
  ASSUME IInv, Exit \/ RevokeIntent(Runs, 2) \/ \E i \in {1, 2} : \E r \in Runs : RevokeIntent({r}, i)
  PROVE  IInv'
  <1>0. closed \in BOOLEAN
    BY DEF IInv, TypeOK
  <1>1. ASSUME NEW R \in SUBSET Runs, NEW i \in {1, 2}, RevokeIntent(R, i)
        PROVE  IInv'
    <2>1. i \in 1..2
      OBVIOUS
    <2> QED BY <1>0, <1>1, <2>1, RevokeRuns DEF RevokeIntent
  <1>2. CASE Exit
    <2>1. 2 \in 1..2 /\ Runs \in SUBSET Runs
      OBVIOUS
    <2>2. /\ live' = [r \in Runs |-> IF r \in Runs THEN Revoke(live[r], 2) ELSE live[r]]
          /\ revoked' = [r \in Runs |-> IF r \in Runs THEN admission + 1 ELSE revoked[r]]
      BY <1>2 DEF Exit
    <2>3. /\ admission < MaxAdmission /\ admission' = admission + 1 /\ closed' \in BOOLEAN
          /\ control' = control
          /\ UNCHANGED <<doc, file, down, ticket, faults, start, recovery, epoch, session, gate, outside, overtaken>>
      BY <1>2 DEF Exit, request
    <2> QED BY <2>1, <2>2, <2>3, RevokeRuns
  <1> QED BY <1>1, <1>2
-----------------------------------------------------------------------------
\* A save that leaves the workers where they are.
LEMMA StillSaved ==
  ASSUME IInv, NEW r \in Runs, NEW n \in Run, Save([doc EXCEPT ![r] = n], live), down \/ Disk(n),
         \A q \in Runs \ {r} : /\ exchange'[q] = exchange[q] /\ journal'[q] = journal[q]
                               /\ held'[q] = held[q] /\ sent'[q] = sent[q]
  PROVE  /\ doc' \in [Runs -> Run] /\ file' \in [doc : [Runs -> Run], bad : BOOLEAN]
         /\ live' \in [Runs -> Worker] /\ ticket' \in Ticket
         /\ down' \in BOOLEAN /\ faults' \in 0..MaxFaults
         /\ Failure'
         /\ Outcome(n, live[r], down, file.doc[r], down', doc'[r], file'.doc[r], live'[r])
         /\ \A q \in Runs \ {r} :
              /\ RunOK(doc'[q], file'.doc[q], down', live'[q], exchange'[q], journal'[q], held'[q], sent'[q])
              /\ doc'[q].st = "absent" <=> doc[q].st = "absent"
              /\ ~down' => doc'[q] = doc[q] /\ live'[q] = live[q]
         /\ \A q \in Runs : /\ live'[q].step = live[q].step /\ live'[q].adm = live[q].adm
                              /\ live'[q].intent >= live[q].intent
         /\ doc'[r].st = "absent" <=> n.st = "absent"
         /\ ~down' => doc'[r] = n /\ live'[r] = live[r]
         /\ down' => \A q \in Runs : doc'[q].st \in {"absent", "faulted", "recovery"}
         /\ down => down'
         /\ file'.doc = file.doc \/ (file'.doc = [doc EXCEPT ![r] = n] /\ ~down)
  <1> DEFINE v == live[r]
  <1>0. live \in [Runs -> Worker] /\ ticket \in Ticket /\ v \in Worker
    BY DEF IInv, TypeOK
  <1>1. SaveWith([doc EXCEPT ![r] = n], [live EXCEPT ![r] = v], ticket)
    <2>1. [live EXCEPT ![r] = v] = live
      BY <1>0
    <2> QED BY <2>1 DEF Save
  <1> HIDE DEF v
  <1>2. /\ doc' \in [Runs -> Run] /\ file' \in [doc : [Runs -> Run], bad : BOOLEAN]
        /\ live' \in [Runs -> Worker] /\ ticket' \in Ticket
        /\ down' \in BOOLEAN /\ faults' \in 0..MaxFaults
        /\ Failure'
        /\ Outcome(n, v, down, file.doc[r], down', doc'[r], file'.doc[r], live'[r])
        /\ \A q \in Runs \ {r} :
             /\ RunOK(doc'[q], file'.doc[q], down', live'[q], exchange'[q], journal'[q], held'[q], sent'[q])
             /\ live'[q].step = live[q].step /\ live'[q].adm = live[q].adm /\ live'[q].intent >= live[q].intent
             /\ doc'[q].st = "absent" <=> doc[q].st = "absent"
             /\ ~down' => doc'[q] = doc[q] /\ live'[q] = live[q]
        /\ live'[r].step = v.step /\ live'[r].adm = v.adm /\ live'[r].intent >= v.intent
        /\ doc'[r].st = "absent" <=> n.st = "absent"
        /\ ~down' => doc'[r] = n /\ live'[r] = v
        /\ down' => \A q \in Runs : doc'[q].st \in {"absent", "faulted", "recovery"}
        /\ down => down'
        /\ file'.doc = file.doc \/ (file'.doc = [doc EXCEPT ![r] = n] /\ ~down)
    BY <1>0, <1>1, SaveOne
  <1> QED BY <1>2 DEF v

\* A save, by a start or a reconciliation, of a run that has no worker.
LEMMA OffSave ==
  ASSUME IInv, NEW r \in Runs, ~IsLive(r), NEW n \in Run, Save([doc EXCEPT ![r] = n], live),
         down \/ Disk(n), n.st # "absent", n.acct = doc[r].acct, n.pend # NoAction => Active(r),
         n.st # "running", n.st = "stopping" => doc[r].st = "stopping",
         start.step = "saved" => start.run = r,
         start' \in [step : {"idle", "taken", "saved"}, run : Runs \cup {0}, t : Ticket], start'.step # "saved",
         start'.step # "idle" => start'.run \in Runs,
         recovery' \in [step : {"idle", "ack", "mark"}, run : Runs \cup {0}],
         recovery'.step # "idle" =>
            /\ recovery'.run = r
            /\ ~down' /\ recovery'.step = "ack" => IsPlace(n.pend) /\ n.pend.seq \in n.owned /\ ~n.unknown,
         gate # "worker", gate' \in {"free", "recovery"}, gate' = "recovery" <=> recovery'.step # "idle",
         UNCHANGED <<control, admission, closed, epoch, session, revoked, overtaken>>,
         exchange' \in [Runs -> [Seqs -> Order]], journal' \in [Runs -> [Seqs -> Entry]],
         held' \in [Runs -> SUBSET Seqs], sent' \in [Runs -> Count],
         \A q \in Runs \ {r} : /\ exchange'[q] = exchange[q] /\ journal'[q] = journal[q]
                               /\ held'[q] = held[q] /\ sent'[q] = sent[q],
         Outcome(n, live[r], down, file.doc[r], down', doc'[r], file'.doc[r], live'[r]) =>
            RunOK(doc'[r], file'.doc[r], down', live'[r], exchange'[r], journal'[r], held'[r], sent'[r])
  PROVE  IInv'
  <1>0. /\ TypeOK /\ EveryRun /\ Failure /\ AtStart /\ AtRecovery /\ Gate
        /\ OneOpenAction /\ OneActive /\ ShownAsItIs /\ Controls /\ Revoked
        /\ doc \in [Runs -> Run] /\ live \in [Runs -> Worker] /\ ticket \in Ticket /\ live[r] \in Worker
    BY DEF IInv, TypeOK
  <1>2. live[r].step = "off"
    BY DEF IsLive
  <1>3. /\ doc' \in [Runs -> Run] /\ file' \in [doc : [Runs -> Run], bad : BOOLEAN]
        /\ live' \in [Runs -> Worker] /\ ticket' \in Ticket
        /\ down' \in BOOLEAN /\ faults' \in 0..MaxFaults
        /\ Failure'
        /\ Outcome(n, live[r], down, file.doc[r], down', doc'[r], file'.doc[r], live'[r])
        /\ \A q \in Runs \ {r} :
             /\ RunOK(doc'[q], file'.doc[q], down', live'[q], exchange'[q], journal'[q], held'[q], sent'[q])
             /\ doc'[q].st = "absent" <=> doc[q].st = "absent"
             /\ ~down' => doc'[q] = doc[q] /\ live'[q] = live[q]
        /\ \A q \in Runs : /\ live'[q].step = live[q].step /\ live'[q].adm = live[q].adm
                             /\ live'[q].intent >= live[q].intent
        /\ doc'[r].st = "absent" <=> n.st = "absent"
        /\ ~down' => doc'[r] = n /\ live'[r] = live[r]
        /\ down' => \A q \in Runs : doc'[q].st \in {"absent", "faulted", "recovery"}
        /\ down => down'
        /\ file'.doc = file.doc \/ (file'.doc = [doc EXCEPT ![r] = n] /\ ~down)
    BY StillSaved
  <1>4. TypeOK'
    BY <1>0, <1>3 DEF TypeOK, Order, Entry, Count
  <1>5. EveryRun'
    BY <1>3 DEF EveryRun
  <1>6. AtStart'
    BY DEF AtStart
  <1>7. AtRecovery'
    <2> SUFFICES ASSUME recovery'.step # "idle" PROVE AtRecovery'
      BY DEF AtRecovery
    <2>1. recovery'.run = r /\ live'[r].step = "off" /\ doc'[r].st # "absent"
      BY <1>2, <1>3
    <2> QED BY <1>3, <2>1 DEF AtRecovery, IsLive
  <1>8. Gate'
    <2>1. \A q \in Runs : live'[q].step = live[q].step
      BY <1>3
    <2>2. \A q \in Runs : live[q].step \notin Busy
      BY <1>0 DEF Gate
    <2> QED BY <2>1, <2>2 DEF Gate
  <1>9. OneOpenAction'
    <2> DEFINE next == [doc EXCEPT ![r] = n]
    <2>1. next \in [Runs -> Run] /\ next[r] = n /\ \A q \in Runs \ {r} : next[q] = doc[q]
      BY <1>0
    <2>2. \A q \in Runs : next[q].acct = doc[q].acct /\ (next[q].pend # NoAction => Active(q))
      BY <2>1 DEF Active, Settled
    <2>3. file'.doc = file.doc \/ (file'.doc = next /\ ~down)
      BY <1>3
    <2> HIDE DEF next
    <2> QED BY <2>1, <2>2, <2>3, OneOpenKept
  <1>10. OneActive'
    <2> SUFFICES ASSUME ~down' PROVE OneActive'
      BY DEF OneActive
    <2>1. ~down
      BY <1>3
    <2>2. doc'[r].acct = doc[r].acct /\ (Active(r)' => Active(r))
      BY <1>2, <1>3 DEF Active, IsLive, Settled
    <2>3. \A q \in Runs \ {r} : doc'[q].acct = doc[q].acct /\ (Active(q)' => Active(q))
      BY <1>3 DEF Active, IsLive, Settled
    <2> QED BY <1>0, <2>1, <2>2, <2>3 DEF OneActive
  <1>11. ShownAsItIs'
    <2>1. CASE down'
      BY <1>3, <2>1 DEF ShownAsItIs
    <2>2. CASE ~down'
      <3> SUFFICES ASSUME NEW q \in Runs
                   PROVE  /\ doc'[q].st = "running" => IsLive(q)' \/ (start'.step = "saved" /\ start'.run = q)
                          /\ doc'[q].st = "stopping" => (IsLive(q)' /\ live'[q].intent > 0) \/ q \in overtaken'
        BY DEF ShownAsItIs
      <3>1. CASE q # r
        BY <1>0, <1>3, <2>2, <3>1 DEF ShownAsItIs, IsLive
      <3>2. CASE q = r
        BY <1>0, <1>3, <2>2, <3>2 DEF ShownAsItIs, IsLive
      <3> QED BY <3>1, <3>2
    <2> QED BY <1>3, <2>1, <2>2
  <1>12. \A q \in Runs : Tamer(q)
    BY <1>2, <1>3 DEF Tamer
  <1>13. Controls' /\ Revoked'
    BY <1>3, <1>12, Tamed
  <1> QED BY <1>3, <1>4, <1>5, <1>6, <1>7, <1>8, <1>9, <1>10, <1>11, <1>13 DEF IInv

\* The same where only the status changes.
LEMMA OffStatus ==
  ASSUME IInv, NEW r \in Runs, ~IsLive(r), NEW st \in {"stopped", "paused", "recovery"}, doc[r].st # "absent",
         Save([doc EXCEPT ![r] = [doc[r] EXCEPT !.st = st]], live),
         start.step = "saved" => start.run = r,
         start' \in [step : {"idle", "taken", "saved"}, run : Runs \cup {0}, t : Ticket], start'.step # "saved",
         start'.step # "idle" => start'.run \in Runs,
         recovery' \in [step : {"idle", "ack", "mark"}, run : Runs \cup {0}], recovery'.step = "idle",
         gate # "worker", gate' = "free",
         UNCHANGED <<control, admission, closed, epoch, session, outside, revoked, overtaken>>
  PROVE  IInv'
  <1> DEFINE n == [doc[r] EXCEPT !.st = st]
  <1>0. TypeOK /\ EveryRun /\ ticket \in Ticket
    BY DEF IInv, TypeOK
  <1>1. /\ doc[r] \in Run /\ file.doc[r] \in Run /\ live[r] \in Worker /\ down \in BOOLEAN
        /\ exchange[r] \in [Seqs -> Order]
        /\ ~down => Disk(doc[r])
        /\ RunOK(doc[r], file.doc[r], down, live[r], exchange[r], journal[r], held[r], sent[r])
        /\ exchange \in [Runs -> [Seqs -> Order]] /\ journal \in [Runs -> [Seqs -> Entry]]
        /\ held \in [Runs -> SUBSET Seqs] /\ sent \in [Runs -> Count]
    BY <1>0, Working, OneRun
  <1>2. st \in Status /\ st # "absent" /\ st # "running" /\ st # "stopping"
    BY DEF Status
  <1>3. n \in Run /\ n.st = st /\ Alike(doc[r], n) /\ Restated(doc[r], n)
    BY <1>1, <1>2, StatusSet
  <1>4. Save([doc EXCEPT ![r] = n], live)
    OBVIOUS
  <1> HIDE DEF n
  <1>5. down \/ Disk(n)
    BY <1>1, <1>2, <1>3 DEF Disk, ValidRun, ValidView, Room, Alike
  <1>6. n.acct = doc[r].acct /\ (n.pend # NoAction => Active(r))
    BY <1>3 DEF Alike, Active, Settled
  <1>7. exchange' = exchange /\ journal' = journal /\ held' = held /\ sent' = sent
    BY DEF outside
  <1>8. Quieter(live[r], live[r], n)
    BY DEF Quieter, IsLive, Busy
  <1>9. down' \in BOOLEAN
    BY <1>1, <1>4 DEF Save, SaveWith
  <1>10. Outcome(n, live[r], down, file.doc[r], down', doc'[r], file'.doc[r], live'[r]) =>
            RunOK(doc'[r], file'.doc[r], down', live'[r], exchange[r], journal[r], held[r], sent[r])
    BY <1>1, <1>3, <1>8, <1>9, StatusRun
  <1> HIDE DEF Outcome
  <1>11. n.st # "absent" /\ n.st # "running" /\ n.st # "stopping"
    BY <1>2, <1>3
  <1> QED BY <1>1, <1>3, <1>4, <1>5, <1>6, <1>7, <1>10, <1>11, OffSave

LEMMA StartTypes ==
  /\ NoStart \in [step : {"idle", "taken", "saved"}, run : Runs \cup {0}, t : Ticket] /\ NoStart.step = "idle"
  /\ NoRecovery \in [step : {"idle", "ack", "mark"}, run : Runs \cup {0}] /\ NoRecovery.step = "idle"
  BY NewRunFacts DEF NoStart, NoRecovery

LEMMA StartedFacts ==
  ASSUME NEW d \in Run, Disk(d), d.pend = NoAction, Account \in Nat
  PROVE  /\ Started(d) \in Run /\ Started(d).st = "running" /\ Started(d).acct = Account
         /\ Started(d).pend = NoAction /\ Disk(Started(d)) /\ Restated(d, Started(d))
  <1> DEFINE n == Started(d)
  <1>0. n = [d EXCEPT !.st = "running", !.acct = Account] /\ "running" \in Status
    BY DEF Started, Status
  <1> HIDE DEF n
  <1>1. /\ n \in Run /\ n.st = "running" /\ n.acct = Account /\ n.pend = d.pend /\ n.seq = d.seq
        /\ n.acts = d.acts /\ n.total = d.total /\ n.owned = d.owned
        /\ n.asked = d.asked /\ n.unknown = d.unknown
    BY <1>0 DEF Run
  <1>2. Disk(n)
    BY <1>1 DEF Disk, ValidRun, ValidView, Room
  <1>3. Restated(d, n)
    BY <1>1 DEF Restated
  <1> QED BY <1>1, <1>2, <1>3 DEF n

LEMMA StartSaveInv ==
  ASSUME IInv, StartSave
  PROVE  IInv'
  <1> DEFINE r == start.run
             n == Started(doc[r])
  <1>0. /\ start.step = "taken" /\ gate = "free" /\ ~down /\ AccountFree
        /\ doc[r].st = "absent" \/ Resumable(doc[r])
        /\ start' = IF down' THEN NoStart ELSE [start EXCEPT !.step = "saved"]
        /\ gate' = IF down' THEN "free" ELSE "start"
        /\ UNCHANGED <<control, recovery, admission, closed, epoch, session, outside, revoked, overtaken>>
    BY DEF StartSave, StartAllowed
  <1>1. /\ TypeOK /\ EveryRun /\ Failure /\ AtStart /\ AtRecovery /\ Gate
        /\ OneOpenAction /\ OneActive /\ ShownAsItIs /\ Controls /\ Revoked
        /\ doc \in [Runs -> Run] /\ live \in [Runs -> Worker]
        /\ start \in [step : {"idle", "taken", "saved"}, run : Runs \cup {0}, t : Ticket]
        /\ session \in 1..Len(AccountOf)
    BY DEF IInv, TypeOK
  <1>2. r \in Runs
    BY <1>0, <1>1 DEF AtStart
  <1>3. Save([doc EXCEPT ![r] = n], live)
    BY <1>1, <1>2 DEF StartSave
  <1>4. /\ doc[r] \in Run /\ Disk(doc[r]) /\ Memory(doc[r], file.doc[r], down)
        /\ Work(doc[r], file.doc[r], down, live[r])
        /\ file.doc[r] \in Run /\ live[r] \in Worker /\ down \in BOOLEAN /\ exchange[r] \in [Seqs -> Order]
        /\ RunOK(doc[r], file.doc[r], down, live[r], exchange[r], journal[r], held[r], sent[r])
    BY <1>0, <1>1, <1>2, OneRun, Working
  <1>5. doc[r].pend = NoAction /\ live[r].step = "off"
    <2>1. CASE doc[r].st = "absent"
      BY <1>4, <2>1, NewRunFacts DEF Memory, Work
    <2>2. CASE Resumable(doc[r])
      BY <1>0, <1>2, <2>2 DEF Resumable, AccountFree, IsLive
    <2> QED BY <1>0, <2>1, <2>2
  <1>6. Account \in Nat
    BY <1>1, AccountAssumption DEF Account
  <1>7. n \in Run /\ n.st = "running" /\ n.acct = Account /\ n.pend = NoAction /\ Disk(n) /\ Restated(doc[r], n)
    BY <1>4, <1>5, <1>6, StartedFacts
  <1> HIDE DEF n
  <1>8. exchange' = exchange /\ journal' = journal /\ held' = held /\ sent' = sent
    BY <1>0 DEF outside
  <1>9. /\ doc' \in [Runs -> Run] /\ file' \in [doc : [Runs -> Run], bad : BOOLEAN]
        /\ live' \in [Runs -> Worker] /\ ticket' \in Ticket
        /\ down' \in BOOLEAN /\ faults' \in 0..MaxFaults
        /\ Failure'
        /\ Outcome(n, live[r], down, file.doc[r], down', doc'[r], file'.doc[r], live'[r])
        /\ \A q \in Runs \ {r} :
             /\ RunOK(doc'[q], file'.doc[q], down', live'[q], exchange'[q], journal'[q], held'[q], sent'[q])
             /\ ~down' => doc'[q] = doc[q] /\ live'[q] = live[q]
        /\ \A q \in Runs : /\ live'[q].step = live[q].step /\ live'[q].adm = live[q].adm
                           /\ live'[q].intent >= live[q].intent
        /\ ~down' => doc'[r] = n /\ live'[r] = live[r]
        /\ down' => \A q \in Runs : doc'[q].st \in {"absent", "faulted", "recovery"}
        /\ file'.doc = file.doc \/ file'.doc = [doc EXCEPT ![r] = n]
    BY <1>2, <1>3, <1>7, <1>8, StillSaved
  <1>10. start' \in [step : {"idle", "taken", "saved"}, run : Runs \cup {0}, t : Ticket]
         /\ (start'.step = "saved" <=> ~down') /\ (start'.step # "idle" => ~down' /\ start'.run = r)
    <2>1. CASE down'
      BY <1>0, <2>1, StartTypes
    <2>2. CASE ~down'
      BY <1>0, <1>1, <2>2
    <2> QED BY <1>9, <2>1, <2>2
  <1>11. TypeOK'
    BY <1>0, <1>1, <1>8, <1>9, <1>10 DEF TypeOK
  <1>12. EveryRun'
    <2>1. Quieter(live[r], live[r], n)
      BY <1>5 DEF Quieter, Busy
    <2>2. RunOK(doc'[r], file'.doc[r], down', live'[r], exchange[r], journal[r], held[r], sent[r])
      <3> HIDE DEF r
      <3>1. Outcome(n, live[r], down, file.doc[r], down', doc'[r], file'.doc[r], live'[r])
        BY <1>9
      <3>2. down' \in BOOLEAN
        BY <1>9
      <3> HIDE DEF Outcome
      <3> QED BY <1>4, <1>7, <2>1, <3>1, <3>2, StatusRun
    <2> QED BY <1>8, <1>9, <2>2 DEF EveryRun
  <1>13. AtStart'
    BY <1>2, <1>5, <1>7, <1>9, <1>10 DEF AtStart, IsLive
  <1>14. AtRecovery' /\ recovery.step = "idle"
    BY <1>0, <1>1 DEF AtRecovery, Gate
  <1>15. Gate'
    BY <1>0, <1>1, <1>9, <1>10, <1>14 DEF Gate
  <1> DEFINE next == [doc EXCEPT ![r] = n]
  <1>16. next[r] = n /\ \A q \in Runs \ {r} : next[q] = doc[q]
    BY <1>1, <1>2
  <1>17. OneOpenAction'
    <2>1. CASE file'.doc = file.doc
      BY <1>1, <2>1 DEF OneOpenAction, Settled
    <2>2. CASE file'.doc = next
      <3> HIDE DEF next
      <3> SUFFICES ASSUME NEW p \in Runs, NEW q \in Runs, p # q, next[p].acct = next[q].acct
                   PROVE  next[p].pend = NoAction \/ next[q].pend = NoAction
        BY <2>2 DEF OneOpenAction, Settled
      <3>1. CASE p = r \/ q = r
        BY <1>7, <1>16, <3>1
      <3>2. CASE p # r /\ q # r
        BY <1>0, <1>1, <1>16, <3>2 DEF OneActive, Active, Settled
      <3> QED BY <3>1, <3>2
    <2> QED BY <1>9, <2>1, <2>2
  <1>18. OneActive'
    <2> SUFFICES ASSUME ~down', NEW p \in Runs, NEW q \in Runs, p # q, doc'[p].acct = doc'[q].acct
                 PROVE  ~Active(p)' \/ ~Active(q)'
      BY DEF OneActive
    <2>1. start'.run = r
      BY <1>10
    <2>2. \A o \in Runs \ {r} : Active(o)' => Active(o)
      BY <1>9, <2>1 DEF Active, IsLive, Settled
    <2>3. \A o \in Runs \ {r} : doc'[o].acct = Account => ~Active(o)
      BY <1>0, <1>9 DEF AccountFree, Active
    <2>4. doc'[r].acct = Account
      BY <1>7, <1>9
    <2>5. CASE p # r /\ q # r
      BY <1>0, <1>1, <1>9, <2>2, <2>5 DEF OneActive
    <2>6. CASE p = r \/ q = r
      BY <2>2, <2>3, <2>4, <2>6
    <2> QED BY <2>5, <2>6
  <1>19. ShownAsItIs'
    <2>1. CASE down'
      BY <1>9, <2>1 DEF ShownAsItIs
    <2>2. CASE ~down'
      <3> SUFFICES ASSUME NEW q \in Runs
                   PROVE  /\ doc'[q].st = "running" => IsLive(q)' \/ (start'.step = "saved" /\ start'.run = q)
                          /\ doc'[q].st = "stopping" => (IsLive(q)' /\ live'[q].intent > 0) \/ q \in overtaken'
        BY DEF ShownAsItIs
      <3>1. CASE q # r
        BY <1>0, <1>1, <1>9, <2>2, <3>1 DEF ShownAsItIs, IsLive
      <3>2. CASE q = r
        BY <1>7, <1>9, <1>10, <2>2, <3>2
      <3> QED BY <3>1, <3>2
    <2> QED BY <1>9, <2>1, <2>2
  <1>20. \A q \in Runs : Tamer(q)
    BY <1>9 DEF Tamer
  <1>21. Controls' /\ Revoked'
    BY <1>0, <1>9, <1>20, Tamed
  <1> QED BY <1>9, <1>11, <1>12, <1>13, <1>14, <1>15, <1>17, <1>18, <1>19, <1>21 DEF IInv

LEMMA StartAdmitInv ==
  ASSUME IInv, StartAdmit
  PROVE  IInv'
  <1> DEFINE r == start.run
  <1>0. /\ start.step = "saved" /\ start' = NoStart /\ gate' = "free"
        /\ UNCHANGED <<control, recovery, admission, closed, epoch, session, outside, revoked>>
    BY DEF StartAdmit
  <1>1. /\ TypeOK /\ EveryRun /\ Failure /\ AtStart /\ AtRecovery /\ Gate
        /\ OneOpenAction /\ OneActive /\ ShownAsItIs /\ Controls /\ Revoked
        /\ doc \in [Runs -> Run] /\ live \in [Runs -> Worker]
        /\ start \in [step : {"idle", "taken", "saved"}, run : Runs \cup {0}, t : Ticket]
        /\ admission \in 0..MaxAdmission /\ overtaken \subseteq Runs
        /\ recovery \in [step : {"idle", "ack", "mark"}, run : Runs \cup {0}]
    BY DEF IInv, TypeOK
  <1>2. /\ r \in Runs /\ ~IsLive(r) /\ ~down /\ doc[r].st = "running" /\ doc[r].pend = NoAction
        /\ gate = "start" /\ recovery.step = "idle"
    BY <1>0, <1>1 DEF AtStart, Gate
  <1>3. CASE Admitted(start.t)
    <2> DEFINE v == [Off EXCEPT !.step = "loop", !.adm = start.t.adm, !.epoch = start.t.epoch,
                                !.sess = start.t.sess]
    <2>0. /\ live' = [live EXCEPT ![r] = v]
          /\ overtaken' = IF r \in control.runs THEN overtaken \cup {r} ELSE overtaken
          /\ UNCHANGED <<doc, file, down, ticket, faults>>
      BY <1>3 DEF StartAdmit
    <2>1. start.t \in Ticket /\ start.t.adm = admission
      BY <1>1, <1>3 DEF Admitted
    <2>2. v \in Worker /\ v.step = "loop" /\ v.adm = admission /\ v.intent = 0
      <3>1. Off \in Worker /\ start.t.adm \in Nat /\ start.t.epoch \in Nat /\ start.t.sess \in Nat
        BY <2>1, NewRunFacts DEF Ticket
      <3>2. v \in Worker
        BY <3>1 DEF Worker
      <3> QED BY <2>1, <3>1, <3>2, NewRunFacts DEF Worker, Off
    <2> HIDE DEF v
    <2>3. live' \in [Runs -> Worker] /\ live'[r] = v /\ \A q \in Runs \ {r} : live'[q] = live[q]
      BY <1>1, <1>2, <2>0, <2>2
    <2>4. exchange' = exchange /\ journal' = journal /\ held' = held /\ sent' = sent
      BY <1>0 DEF outside
    <2>5. TypeOK'
      BY <1>0, <1>1, <1>2, <2>0, <2>3, <2>4, StartTypes DEF TypeOK
    <2>6. EveryRun'
      <3>1. /\ RunOK(doc[r], file.doc[r], down, live[r], exchange[r], journal[r], held[r], sent[r])
            /\ doc[r] \in Run /\ live[r] \in Worker /\ down \in BOOLEAN
        BY <1>2, Working
      <3>2. Quieter(live[r], v, doc[r])
        BY <1>2, <2>2 DEF Quieter, Busy
      <3>3. RunOK(doc[r], file.doc[r], down, v, exchange[r], journal[r], held[r], sent[r])
        <4> HIDE DEF r
        <4> QED BY <2>2, <3>1, <3>2, QuietRun
      <3> QED BY <1>1, <2>0, <2>3, <2>4, <3>3 DEF EveryRun
    <2>7. AtStart' /\ AtRecovery' /\ Failure'
      BY <1>0, <1>1, <1>2, <2>0, StartTypes DEF AtStart, AtRecovery, Failure
    <2>8. Gate'
      <3>1. \A q \in Runs : live[q].step \notin Busy
        BY <1>1, <1>2 DEF Gate
      <3>2. \A q \in Runs : live'[q].step \notin Busy
        BY <2>2, <2>3, <3>1 DEF Busy
      <3> QED BY <1>0, <1>2, <3>2, StartTypes DEF Gate
    <2>9. OneOpenAction'
      BY <1>1, <2>0 DEF OneOpenAction, Settled
    <2>10. OneActive'
      <3>1. \A q \in Runs : Active(q)' => Active(q)
        BY <1>0, <1>2, <2>0, <2>3, StartTypes DEF Active, IsLive, Settled
      <3> QED BY <1>1, <2>0, <3>1 DEF OneActive
    <2>11. ShownAsItIs'
      <3> SUFFICES ASSUME NEW q \in Runs
                   PROVE  /\ doc[q].st = "running" => live'[q].step # "off"
                          /\ doc[q].st = "stopping" => (live'[q].step # "off" /\ live'[q].intent > 0) \/ q \in overtaken'
        BY <2>0 DEF ShownAsItIs, IsLive
      <3>1. CASE q # r
        BY <1>1, <2>0, <2>3, <3>1 DEF ShownAsItIs, IsLive
      <3>2. CASE q = r
        BY <1>2, <2>2, <2>3, <3>2
      <3> QED BY <3>1, <3>2
    <2>12. Controls'
      BY <1>0, <1>1, <2>0, <2>3 DEF Controls, IsLive
    <2>13. Revoked'
      BY <1>0, <1>1, <2>2, <2>3 DEF Revoked, IsLive
    <2> QED BY <2>5, <2>6, <2>7, <2>8, <2>9, <2>10, <2>11, <2>12, <2>13 DEF IInv
  <1>4. CASE ~Admitted(start.t)
    <2>1. Save([doc EXCEPT ![r] = [doc[r] EXCEPT !.st = "stopped"]], live) /\ overtaken' = overtaken
      <3>1. Save([doc EXCEPT ![r].st = "stopped"], live) /\ overtaken' = overtaken
        BY <1>4 DEF StartAdmit
      <3> QED BY <1>1, <1>2, <3>1, Shapes
    <2>2. recovery' \in [step : {"idle", "ack", "mark"}, run : Runs \cup {0}] /\ recovery'.step = "idle"
      BY <1>0, <1>1, <1>2
    <2> QED BY <1>0, <1>2, <2>1, <2>2, OffStatus, StartTypes
  <1> QED BY <1>3, <1>4

\* The action that the record d has open.
LEMMA OpenFacts ==
  ASSUME NEW d \in Run, Disk(d), d.pend # NoAction
  PROVE  /\ d.pend \in Action /\ d.pend.seq \in Seqs /\ d.st # "absent"
         /\ IsPlace(d.pend) \/ d.pend.kind \in {"cancel", "amend"}
  <1>1. /\ d.pend.seq = d.seq /\ d.acts > 0 /\ d.acts <= d.seq /\ d.pend.kind # "none"
        /\ d.pend \in Action /\ d.seq \in 0..MaxSeq /\ d.acts \in Nat /\ MaxSeq \in Nat
    BY BoundAssumption DEF Disk, ValidRun, ValidView, Run
  <1>2. d.pend.seq \in Seqs
    BY <1>1 DEF Seqs
  <1>3. d.st # "absent"
    BY NewRunFacts DEF Disk
  <1> QED BY <1>1, <1>2, <1>3 DEF Action, IsPlace

LEMMA ReconcileInv ==
  ASSUME IInv, NEW r \in Runs, Reconcile(r)
  PROVE  IInv'
  <1> DEFINE a == doc[r].pend
             e == Evidence(r, a)
             f == file.doc[r]
             n == Accounted(doc[r], a, e)
             x == exchange[r]
             j == journal[r]
             h == held[r]
             c == sent[r]
             j2 == journal'[r]
  <1>0. /\ gate = "free" /\ ~down /\ Unlocked /\ recovery.step = "idle"
        /\ ~IsLive(r) /\ a # NoAction /\ e # "nothing"
        /\ journal' = Noted(r, a, e)
        /\ recovery' = IF down' THEN NoRecovery
                       ELSE [step |-> IF IsPlace(a) /\ e = "accepted" THEN "ack" ELSE "mark", run |-> r]
        /\ gate' = IF down' THEN "free" ELSE "recovery"
        /\ UNCHANGED <<start, control, admission, closed, epoch, session, exchange, held, sent, revoked, overtaken>>
    BY DEF Reconcile, Settled
  <1>1. Save([doc EXCEPT ![r] = n], live)
    BY Working DEF Reconcile, TypeOK
  <1>2. /\ TypeOK /\ doc[r] \in Run /\ f \in Run /\ live[r] \in Worker /\ down \in BOOLEAN /\ down = FALSE
        /\ Disk(doc[r]) /\ Disk(f) /\ Memory(doc[r], f, down) /\ Alike(doc[r], f)
        /\ Placed(f, x, j) /\ Reserved(x, h) /\ Counted(f, live[r], c)
        /\ f.pend = a /\ live[r].step = "off"
    BY <1>0, Working, OneRun DEF Memory, Alike, IsLive
  <1>3. a \in Action /\ a.seq \in Seqs /\ doc[r].st # "absent" /\ (IsPlace(a) \/ a.kind \in {"cancel", "amend"})
    BY <1>0, <1>2, OpenFacts
  <1>4. /\ e \in {"accepted", "rejected"}
        /\ e = "accepted" /\ IsPlace(a) => x[a.seq].st # "none"
        /\ e = "rejected" => IsPlace(a) /\ (There(x, a.seq) => a.seq \in f.owned)
    <2>1. CASE a.kind = "place"
      <3>1. e = EvidencePlaced(r, a.seq)
        BY <2>1 DEF Evidence
      <3>2. j[a.seq] = "accepted" => x[a.seq].st # "none"
        BY <1>2, <1>3 DEF Placed
      <3>3. j[a.seq] = "rejected" /\ There(x, a.seq) => a.seq \in f.owned
        BY <1>2, <1>3 DEF Placed
      <3>4. j[a.seq] \in {"none", "rejected", "accepted", "pending"}
        BY <1>3, Working DEF Entry
      <3> QED BY <1>0, <2>1, <3>1, <3>2, <3>3, <3>4 DEF EvidencePlaced, Found, There, IsPlace
    <2>2. CASE a.kind = "protect"
      <3>1. e = EvidenceProtected(r, a.seq)
        BY <2>2 DEF Evidence
      <3> QED BY <1>0, <2>2, <3>1 DEF EvidenceProtected, Found
    <2>3. CASE ~IsPlace(a)
      <3>1. e \in {"accepted", "nothing"}
        BY <1>3, <2>3 DEF Evidence, EvidenceAmended, IsPlace
      <3> QED BY <1>0, <2>3, <3>1
    <2> QED BY <2>1, <2>2, <2>3 DEF IsPlace
  <1> HIDE DEF e
  <1>5. /\ n \in Run /\ n.st = doc[r].st /\ n.acct = doc[r].acct /\ Disk(n) /\ ~n.unknown
        /\ n.owned = IF e = "accepted" /\ IsPlace(a) THEN doc[r].owned \cup {a.seq} ELSE doc[r].owned
        /\ n.pend = IF e = "rejected" \/ (e = "accepted" /\ ~IsPlace(a)) THEN NoAction ELSE a
    <2>1. e \in {"accepted", "rejected", "unknown"} /\ e # "unknown"
      BY <1>4
    <2>2. /\ n \in Run /\ n.acct = doc[r].acct /\ n.unknown = (e = "unknown")
          /\ n.owned = IF e = "accepted" /\ IsPlace(a) THEN doc[r].owned \cup {a.seq} ELSE doc[r].owned
          /\ n.pend = IF e = "rejected" \/ (e = "accepted" /\ ~IsPlace(a)) THEN NoAction ELSE a
          /\ n.st = IF e = "unknown" THEN "recovery" ELSE doc[r].st
      BY <1>2, <1>3, <2>1, AccountedFacts
    <2>3. Disk(n)
      BY <1>0, <1>2, <1>3, <2>1, AccountedDisk
    <2> HIDE DEF n
    <2> QED BY <2>1, <2>2, <2>3
  <1>6. /\ journal' \in [Runs -> [Seqs -> Entry]]
        /\ \A q \in Runs \ {r} : journal'[q] = journal[q]
        /\ \A i \in Seqs : j2[i] = IF IsPlace(a) /\ i = a.seq THEN e ELSE j[i]
    <2>1. e \in {"accepted", "rejected", "unknown"} /\ e # "unknown" /\ journal' = Noted(r, a, e)
      BY <1>0, <1>4
    <2> QED BY <1>2, <1>3, <2>1, NotedFacts
  <1>7. Placed(f, x, j2)
    <2> HIDE DEF j2
    <2> QED BY <1>2, <1>4, <1>6 DEF Placed
  <1>8. down' \in BOOLEAN
    BY <1>0, <1>1 DEF Save, SaveWith
  <1>9. Outcome(n, live[r], down, f, down', doc'[r], file'.doc[r], live'[r]) =>
            RunOK(doc'[r], file'.doc[r], down', live'[r], x, j2, h, c)
    <2>1. Answered(doc[r], f, down, c, a, e, x, j2, h, live[r], down')
      BY <1>0, <1>2, <1>3, <1>4, <1>7, <1>8 DEF Answered
    <2> HIDE DEF Outcome
    <2> QED BY <2>1, AnswerRun
  <1>10. /\ exchange \in [Runs -> [Seqs -> Order]] /\ held \in [Runs -> SUBSET Seqs] /\ sent \in [Runs -> Count]
         /\ start \in [step : {"idle", "taken", "saved"}, run : Runs \cup {0}, t : Ticket]
         /\ start.step # "saved" /\ (start.step # "idle" => start.run \in Runs)
    BY <1>0, Working DEF IInv, AtStart, TypeOK, Unlocked
  <1>11. /\ recovery' \in [step : {"idle", "ack", "mark"}, run : Runs \cup {0}]
         /\ recovery'.step # "idle" => ~down' /\ recovery'.run = r
         /\ recovery'.step = "ack" => IsPlace(a) /\ e = "accepted"
         /\ down' => recovery'.step = "idle"
         /\ ~down' => recovery'.step # "idle"
    BY <1>0, StartTypes
  <1>12. recovery'.step = "ack" => IsPlace(n.pend) /\ n.pend.seq \in n.owned
    <2>1. recovery'.step = "ack" => IsPlace(a) /\ e = "accepted"
      BY <1>11
    <2>2. e = "accepted" /\ IsPlace(a) => n.pend = a /\ a.seq \in n.owned
      BY <1>5
    <2> HIDE DEF n
    <2> QED BY <2>1, <2>2
  <1>13. n.pend # NoAction => Active(r)
    BY <1>0 DEF Active, Settled
  <1>14. n.st # "absent" /\ n.st # "running" /\ (n.st = "stopping" => doc[r].st = "stopping")
    <2>1. doc[r].st # "running"
      BY <1>0, <1>2 DEF IInv, ShownAsItIs, Unlocked, IsLive
    <2> QED BY <1>3, <1>5, <2>1
  <1>15. gate # "worker" /\ gate' \in {"free", "recovery"} /\ (gate' = "recovery" <=> recovery'.step # "idle")
    BY <1>0, <1>11
  <1>16. start' = start /\ exchange' = exchange /\ held' = held /\ sent' = sent /\ ~IsLive(r)
         /\ UNCHANGED <<control, admission, closed, epoch, session, revoked, overtaken>>
    BY <1>0
  <1> HIDE DEF n, Outcome
  <1> QED BY <1>1, <1>5, <1>6, <1>9, <1>10, <1>11, <1>12, <1>13, <1>14, <1>15, <1>16, OffSave

LEMMA ReconcileAckInv ==
  ASSUME IInv, ReconcileAck
  PROVE  IInv'
  <1> DEFINE r == recovery.run
             f == file.doc[r]
             x == exchange[r]
             j == journal[r]
             h == held[r]
             c == sent[r]
  <1>0. /\ recovery.step = "ack" /\ Unlocked
        /\ gate' = IF recovery'.step = "mark" THEN gate ELSE "free"
        /\ UNCHANGED <<start, control, admission, closed, epoch, session, outside, revoked, overtaken>>
    BY DEF ReconcileAck
  <1>1. PICK ok \in BOOLEAN :
          /\ Save([doc EXCEPT ![r] = IF ok THEN [@ EXCEPT !.pend = NoAction]
                                     ELSE [@ EXCEPT !.st = "recovery"]], live)
          /\ recovery' = IF down' \/ ~ok THEN NoRecovery ELSE [recovery EXCEPT !.step = "mark"]
    BY DEF ReconcileAck
  <1>2. /\ r \in Runs /\ ~IsLive(r) /\ doc[r].st # "absent" /\ gate = "recovery"
        /\ ~down => IsPlace(doc[r].pend) /\ doc[r].pend.seq \in doc[r].owned /\ ~doc[r].unknown
        /\ recovery \in [step : {"idle", "ack", "mark"}, run : Runs \cup {0}]
    BY <1>0 DEF IInv, AtRecovery, Gate, TypeOK
  <1>3. /\ TypeOK /\ doc \in [Runs -> Run] /\ doc[r] \in Run /\ f \in Run /\ live[r] \in Worker /\ down \in BOOLEAN
        /\ Disk(f) /\ (~down => Disk(doc[r]) /\ Alike(doc[r], f))
        /\ Placed(f, x, j) /\ Reserved(x, h) /\ Counted(f, live[r], c)
        /\ live[r].step = "off" /\ doc[r].st # "running"
    <2>1. doc[r].st # "running"
      BY <1>0, <1>2 DEF IInv, ShownAsItIs, Unlocked
    <2> QED BY <1>2, <2>1, Working, OneRun DEF Memory, IsLive, TypeOK
  <1>4. /\ exchange \in [Runs -> [Seqs -> Order]] /\ held \in [Runs -> SUBSET Seqs] /\ sent \in [Runs -> Count]
        /\ journal \in [Runs -> [Seqs -> Entry]]
        /\ start \in [step : {"idle", "taken", "saved"}, run : Runs \cup {0}, t : Ticket]
        /\ start.step # "saved" /\ (start.step # "idle" => start.run \in Runs)
    BY <1>0, <1>2, Working DEF IInv, AtStart, TypeOK, Unlocked
  <1>5. CASE ~ok
    <2>1. Save([doc EXCEPT ![r] = [doc[r] EXCEPT !.st = "recovery"]], live) /\ recovery' = NoRecovery
      BY <1>1, <1>2, <1>3, <1>5
    <2>2. gate' = "free" /\ gate # "worker" /\ start' = start
          /\ UNCHANGED <<control, admission, closed, epoch, session, outside, revoked, overtaken>>
      BY <1>0, <1>2, <2>1, StartTypes
    <2> QED BY <1>2, <1>4, <2>1, <2>2, OffStatus, StartTypes
  <1>6. CASE ok
    <2> DEFINE n == Closed(doc[r])
    <2>1. Save([doc EXCEPT ![r] = n], live)
      BY <1>1, <1>2, <1>3, <1>6 DEF Closed
    <2>2. /\ n \in Run /\ n.pend = NoAction /\ n.st = doc[r].st /\ n.seq = doc[r].seq
          /\ n.acts = doc[r].acts /\ n.total = doc[r].total /\ n.owned = doc[r].owned /\ n.acct = doc[r].acct
          /\ ~down => Disk(n)
      BY <1>2, <1>3, ClosedFacts
    <2> HIDE DEF n
    <2>3. ~down => Carried(n, live[r]) /\ Placed(n, x, j) /\ Counted(n, live[r], c)
      <3> SUFFICES ASSUME ~down PROVE Carried(n, live[r]) /\ Placed(n, x, j) /\ Counted(n, live[r], c)
        OBVIOUS
      <3>1. /\ n.seq = f.seq /\ n.acts = f.acts /\ n.total = f.total /\ n.owned = f.owned
            /\ f.pend.seq \in f.owned
        BY <1>2, <1>3, <2>2 DEF Alike
      <3>2. Placed(n, x, j)
        BY <1>3, <3>1 DEF Placed
      <3>3. Carried(n, live[r]) /\ Counted(n, live[r], c)
        BY <1>3, <3>1 DEF Carried, Carrying, Counted
      <3> QED BY <3>2, <3>3
    <2>4. Carried(f, live[r]) /\ Unsent(live[r], x, j, h) /\ Work(n, n, FALSE, live[r])
      BY <1>3 DEF Carried, Unsent, Carrying, Work
    <2>5. down' \in BOOLEAN
      BY <1>3, <2>1 DEF Save, SaveWith
    <2>6. n.st # "absent" /\ n.st # "running" /\ (n.st = "stopping" => doc[r].st = "stopping")
      BY <1>2, <1>3, <2>2
    <2>7. Outcome(n, live[r], down, f, down', doc'[r], file'.doc[r], live'[r]) =>
            RunOK(doc'[r], file'.doc[r], down', live'[r], x, j, h, c)
      <3>1. live[r].step # "ack"
        BY <1>3
      <3>2. Disk(f) /\ n \in Run /\ live[r] \in Worker /\ f \in Run /\ down \in BOOLEAN /\ (~down => Disk(n))
        BY <1>3, <2>2
      <3>3. down' => Carried(f, live[r]) /\ Placed(f, x, j) /\ Counted(f, live[r], c)
        BY <1>3, <2>4
      <3>4. Reserved(x, h)
        BY <1>3
      <3> HIDE DEF Outcome, f, x, j, h, c, r
      <3> QED BY <2>3, <2>4, <2>5, <2>6, <3>1, <3>2, <3>3, <3>4, SavedRun
    <2>8. /\ recovery' \in [step : {"idle", "ack", "mark"}, run : Runs \cup {0}]
          /\ recovery'.step # "idle" => recovery'.run = r
          /\ recovery'.step # "ack" /\ (recovery'.step = "idle" \/ recovery'.step = "mark")
      BY <1>1, <1>2, <1>6, StartTypes
    <2>9. gate # "worker" /\ gate' \in {"free", "recovery"} /\ (gate' = "recovery" <=> recovery'.step # "idle")
      BY <1>0, <1>2, <2>8
    <2>10. exchange' = exchange /\ journal' = journal /\ held' = held /\ sent' = sent /\ start' = start
           /\ UNCHANGED <<control, admission, closed, epoch, session, revoked, overtaken>>
      BY <1>0 DEF outside
    <2> HIDE DEF Outcome
    <2> QED BY <1>2, <1>4, <2>1, <2>2, <2>6, <2>7, <2>8, <2>9, <2>10, OffSave
  <1> QED BY <1>5, <1>6

LEMMA ReconcileMarkInv ==
  ASSUME IInv, ReconcileMark
  PROVE  IInv'
  <1> DEFINE r == recovery.run
  <1>0. /\ recovery.step = "mark" /\ Unlocked /\ recovery' = NoRecovery /\ gate' = "free"
        /\ UNCHANGED <<start, control, admission, closed, epoch, session, outside, revoked, overtaken>>
        /\ Save([doc EXCEPT ![r].st = "paused"], live)
    BY DEF ReconcileMark
  <1>1. /\ r \in Runs /\ ~IsLive(r) /\ doc[r].st # "absent" /\ gate = "recovery" /\ TypeOK
    BY <1>0 DEF IInv, AtRecovery, Gate
  <1>2. Save([doc EXCEPT ![r] = [doc[r] EXCEPT !.st = "paused"]], live)
    BY <1>0, <1>1, Shapes
  <1>3. /\ start' \in [step : {"idle", "taken", "saved"}, run : Runs \cup {0}, t : Ticket]
        /\ start.step # "saved" /\ start'.step # "saved" /\ (start'.step # "idle" => start'.run \in Runs)
    BY <1>0 DEF IInv, AtStart, TypeOK, Unlocked
  <1> QED BY <1>0, <1>1, <1>2, <1>3, OffStatus, StartTypes

\* What a control makes of a record.
LEMMA ControlledFacts ==
  ASSUME IInv, NEW q \in Runs, control.step = "record", Unlocked
  PROVE  /\ Controlled(q, doc[q]) \in Run
         /\ Restated(doc[q], Controlled(q, doc[q])) /\ Alike(doc[q], Controlled(q, doc[q]))
         /\ Controlled(q, doc[q]).st = "absent" <=> doc[q].st = "absent"
         /\ Controlled(q, doc[q]).st # "running"
         /\ Controlled(q, doc[q]).st = "stopping" => IsLive(q)
  <1> DEFINE n == Controlled(q, doc[q])
  <1>0. doc[q] \in Run /\ control.intent \in {1, 2} /\ Work(doc[q], file.doc[q], down, live[q])
    BY Working DEF IInv, Controls
  <1>1. CASE \E s \in {"stopping", "recovery", "stopped", "paused"} :
                n = [doc[q] EXCEPT !.st = s] /\ (s = "stopping" => IsLive(q)) /\ doc[q].st # "absent"
    <2>1. PICK s \in {"stopping", "recovery", "stopped", "paused"} :
                n = [doc[q] EXCEPT !.st = s] /\ (s = "stopping" => IsLive(q)) /\ doc[q].st # "absent"
      BY <1>1
    <2>2. s \in Status /\ s # "absent" /\ s # "running"
      BY DEF Status
    <2> HIDE DEF n
    <2>3. n \in Run /\ n.st = s /\ Restated(doc[q], n) /\ Alike(doc[q], n)
      BY <1>0, <2>1, <2>2, StatusSet
    <2> QED BY <2>1, <2>2, <2>3 DEF n
  <1>2. CASE n = doc[q] /\ (doc[q].st = "absent" \/ doc[q].st = "completed")
    <2>1. Restated(doc[q], doc[q]) /\ Alike(doc[q], doc[q])
      BY DEF Restated, Alike
    <2> HIDE DEF n
    <2> QED BY <1>0, <1>2, <2>1 DEF n
  <1> QED BY <1>1, <1>2 DEF Controlled

LEMMA RecordControlInv ==
  ASSUME IInv, RecordControl
  PROVE  IInv'
  <1>0. /\ control.step = "record" /\ Unlocked /\ control' = NoControl
        /\ overtaken' = {r \in overtaken : r \in control.runs => IsLive(r) /\ Clear(r)}
        /\ UNCHANGED <<start, recovery, admission, closed, epoch, session, gate, outside, revoked>>
    BY DEF RecordControl
  <1>1. /\ TypeOK /\ EveryRun /\ Failure /\ AtStart /\ AtRecovery /\ Gate
        /\ OneOpenAction /\ OneActive /\ ShownAsItIs /\ Controls /\ Revoked
        /\ doc \in [Runs -> Run] /\ live \in [Runs -> Worker] /\ overtaken \subseteq Runs
        /\ control.runs \subseteq Runs /\ down \in BOOLEAN
    BY DEF IInv, TypeOK
  <1>2. exchange' = exchange /\ journal' = journal /\ held' = held /\ sent' = sent
    BY <1>0 DEF outside
  <1>3. NoControl \in [step : {"idle", "record"}, runs : SUBSET Runs, intent : 0..2]
        /\ NoControl.step = "idle" /\ NoControl.runs = {}
    BY DEF NoControl
  <1>4. overtaken' \subseteq overtaken /\ \A q \in overtaken : q \notin control.runs => q \in overtaken'
    BY <1>0
  <1>5. CASE /\ \A r \in control.runs : doc[r].st = "absent"
             /\ ticket' = NoTicket /\ UNCHANGED <<doc, file, down, live, faults>>
    <2>1. TypeOK'
      BY <1>0, <1>1, <1>2, <1>3, <1>4, <1>5, NewRunFacts DEF TypeOK
    <2>2. EveryRun' /\ Failure'
      BY <1>1, <1>2, <1>5 DEF EveryRun, Failure
    <2>3. AtStart' /\ AtRecovery' /\ Gate'
      BY <1>0, <1>1, <1>5 DEF AtStart, AtRecovery, Gate, IsLive
    <2>4. OneOpenAction' /\ OneActive'
      BY <1>0, <1>1, <1>5 DEF OneOpenAction, OneActive, Active, Settled, IsLive
    <2>5. ShownAsItIs'
      BY <1>0, <1>1, <1>4, <1>5 DEF ShownAsItIs, IsLive
    <2>6. Controls' /\ Revoked'
      BY <1>0, <1>1, <1>3, <1>5 DEF Controls, Revoked, IsLive
    <2> QED BY <2>1, <2>2, <2>3, <2>4, <2>5, <2>6 DEF IInv
  <1> DEFINE next == [r \in Runs |-> IF r \in control.runs THEN Controlled(r, doc[r]) ELSE doc[r]]
  <1>6. CASE SaveWith(next, live, NoTicket)
    <2>1. ASSUME NEW q \in Runs
          PROVE  /\ next[q] \in Run /\ Restated(doc[q], next[q]) /\ Alike(doc[q], next[q])
                 /\ next[q].st = "absent" <=> doc[q].st = "absent"
                 /\ next[q].st = "running" => doc[q].st = "running" /\ q \notin control.runs
                 /\ next[q].st = "stopping" => IF q \in control.runs THEN IsLive(q) ELSE doc[q].st = "stopping"
      <3>1. CASE q \in control.runs
        <4>1. next[q] = Controlled(q, doc[q])
          BY <3>1
        <4> HIDE DEF next
        <4> QED BY <1>0, <3>1, <4>1, ControlledFacts
      <3>2. CASE q \notin control.runs
        <4>1. next[q] = doc[q] /\ doc[q] \in Run
          BY <1>1, <3>2
        <4>2. Restated(doc[q], doc[q]) /\ Alike(doc[q], doc[q])
          BY DEF Restated, Alike
        <4> HIDE DEF next
        <4> QED BY <3>2, <4>1, <4>2
      <3> QED BY <3>1, <3>2
    <2>2. next \in [Runs -> Run]
      BY <2>1
    <2> HIDE DEF next
    <2>3. down \/ ValidDocument(next)
      <3> SUFFICES ASSUME ~down, NEW q \in Runs PROVE ValidRun(next[q])
        BY <1>1 DEF ValidDocument
      <3>1. Disk(doc[q])
        BY <1>1, OneRun
      <3> QED BY <2>1, <3>1 DEF Disk, ValidRun, ValidView, Alike
    <2>4. /\ \A r \in Runs : Outcome(next[r], live[r], down, file.doc[r], down', doc'[r], file'.doc[r], live'[r])
          /\ doc' \in [Runs -> Run] /\ file' \in [doc : [Runs -> Run], bad : BOOLEAN]
          /\ live' \in [Runs -> Worker] /\ ticket' \in Ticket
          /\ down' \in BOOLEAN /\ faults' \in 0..MaxFaults
          /\ Failure'
          /\ file'.doc = file.doc \/ (file'.doc = next /\ ~down)
          /\ ~down' => ~down /\ doc' = next /\ live' = live
          /\ down' => doc' = [r \in Runs |-> Fallen(next[r])] /\ live' = [r \in Runs |-> Revoke(live[r], 1)]
      BY <1>1, <1>6, <2>2, <2>3, NewRunFacts, SaveOutcome
    <2>5. ASSUME NEW q \in Runs
          PROVE  /\ live'[q].step = live[q].step /\ live'[q].adm = live[q].adm
                 /\ live'[q].intent >= live[q].intent
                 /\ Alike(doc[q], doc'[q])
                 /\ doc'[q].st = "absent" <=> doc[q].st = "absent"
                 /\ doc'[q].st = "running" => doc[q].st = "running"
                 /\ doc'[q].st = "stopping" => IF q \in control.runs THEN IsLive(q) ELSE doc[q].st = "stopping"
      <3>1. live[q] \in Worker /\ live[q].intent \in 0..2 /\ 1 \in 1..2
        BY <1>1 DEF Worker
      <3>2. CASE ~down'
        BY <2>1, <2>4, <3>1, <3>2
      <3>3. CASE down'
        <4>1. doc'[q] = Fallen(next[q]) /\ live'[q] = Revoke(live[q], 1)
          BY <2>4, <3>3
        <4>2. /\ Alike(next[q], doc'[q]) /\ (doc'[q].st = "absent" <=> next[q].st = "absent")
              /\ doc'[q].st \in {"absent", "faulted", "recovery"}
          BY <2>1, <4>1, FallenFacts
        <4>3. Alike(doc[q], doc'[q])
          BY <2>1, <4>2 DEF Alike
        <4>4. live'[q].step = live[q].step /\ live'[q].adm = live[q].adm /\ live'[q].intent >= live[q].intent
          BY <3>1, <4>1, RevokeFacts
        <4> QED BY <2>1, <4>2, <4>3, <4>4
      <3> QED BY <2>4, <3>2, <3>3
    <2>6. TypeOK'
      BY <1>0, <1>1, <1>2, <1>3, <1>4, <2>4 DEF TypeOK
    <2>7. EveryRun'
      <3> SUFFICES ASSUME NEW q \in Runs
                   PROVE  RunOK(doc'[q], file'.doc[q], down', live'[q], exchange[q], journal[q], held[q], sent[q])
        BY <1>2 DEF EveryRun
      <3>1. /\ RunOK(doc[q], file.doc[q], down, live[q], exchange[q], journal[q], held[q], sent[q])
            /\ Work(doc[q], file.doc[q], down, live[q])
            /\ doc[q] \in Run /\ file.doc[q] \in Run /\ live[q] \in Worker /\ exchange[q] \in [Seqs -> Order]
        BY Working
      <3>2. Outcome(next[q], live[q], down, file.doc[q], down', doc'[q], file'.doc[q], live'[q])
        BY <2>4
      <3>3. next[q] \in Run /\ Restated(doc[q], next[q]) /\ Quieter(live[q], live[q], next[q])
        BY <2>1, <3>1 DEF Quieter, Work
      <3>4. down \in BOOLEAN /\ down' \in BOOLEAN
        BY <1>1, <2>4
      <3> HIDE DEF Outcome
      <3> QED BY <3>1, <3>2, <3>3, <3>4, StatusRun
    <2>8. AtStart' /\ Gate'
      BY <1>0, <1>1, <2>5 DEF AtStart, Gate, Unlocked
    <2>9. AtRecovery'
      <3> SUFFICES ASSUME recovery.step # "idle" PROVE AtRecovery'
        BY <1>0 DEF AtRecovery
      <3>1. recovery.run \in Runs
        BY <1>1 DEF AtRecovery
      <3>2. ~down' => ~down
        BY <2>4
      <3> QED BY <1>0, <1>1, <2>5, <3>1, <3>2 DEF AtRecovery, IsLive, Alike
    <2>10. OneOpenAction'
      <3>1. \A q \in Runs : next[q].acct = doc[q].acct /\ (next[q].pend # NoAction => Active(q))
        BY <2>1 DEF Alike, Active, Settled
      <3> QED BY <2>2, <2>4, <3>1, OneOpenKept
    <2>11. OneActive'
      <3>1. \A q \in Runs : doc'[q].acct = doc[q].acct /\ (Active(q)' => Active(q))
        BY <1>0, <2>5 DEF Alike, Active, Settled, IsLive
      <3> QED BY <1>1, <2>4, <3>1 DEF OneActive
    <2>13. ShownAsItIs'
      <3> SUFFICES ASSUME NEW q \in Runs
                   PROVE  /\ doc'[q].st = "running" => IsLive(q)'
                          /\ doc'[q].st = "stopping" => (IsLive(q)' /\ live'[q].intent > 0) \/ q \in overtaken'
        BY DEF ShownAsItIs
      <3>1. doc'[q].st = "running" => IsLive(q)'
        BY <1>0, <1>1, <2>5 DEF ShownAsItIs, IsLive, Unlocked
      <3>2. live[q].intent \in 0..2 /\ live'[q].intent \in 0..2 /\ live'[q].intent >= live[q].intent
        <4>1. live[q] \in Worker /\ live'[q] \in Worker
          BY <1>1, <2>4
        <4> QED BY <2>5, <4>1 DEF Worker
      <3>3. ASSUME doc'[q].st = "stopping", q \in control.runs
            PROVE  (IsLive(q)' /\ live'[q].intent > 0) \/ q \in overtaken'
        <4>1. live[q].step # "off" /\ live'[q].step # "off" /\ (live[q].intent > 0 \/ q \in overtaken)
          BY <1>1, <2>5, <3>3 DEF Controls, IsLive
        <4>2. CASE live[q].intent > 0
          BY <3>2, <4>1, <4>2 DEF IsLive
        <4>3. CASE ~(live[q].intent > 0)
          <5>1. live[q].intent = 0 /\ q \in overtaken
            BY <3>2, <4>1, <4>3
          <5> QED BY <1>0, <4>1, <5>1 DEF IsLive, Clear
        <4> QED BY <4>2, <4>3
      <3>4. ASSUME doc'[q].st = "stopping", q \notin control.runs
            PROVE  (IsLive(q)' /\ live'[q].intent > 0) \/ q \in overtaken'
        <4>1. (live[q].step # "off" /\ live[q].intent > 0) \/ q \in overtaken
          BY <1>1, <2>5, <3>4 DEF ShownAsItIs, IsLive
        <4> QED BY <1>4, <2>5, <3>2, <3>4, <4>1 DEF IsLive
      <3> QED BY <3>1, <3>3, <3>4
    <2>14. Controls'
      BY <1>0, <1>3 DEF Controls
    <2>15. Revoked'
      <3> SUFFICES ASSUME NEW q \in Runs
                   PROVE  /\ live'[q].step # "off" => live'[q].adm >= revoked[q] \/ live'[q].intent > 0
                          /\ revoked[q] <= admission
        BY <1>0 DEF Revoked, IsLive
      <3>1. live[q].intent \in 0..2 /\ live'[q].intent \in 0..2
        <4>1. live[q] \in Worker /\ live'[q] \in Worker
          BY <1>1, <2>4
        <4> QED BY <4>1 DEF Worker
      <3> QED BY <1>1, <2>5, <3>1 DEF Revoked, IsLive
    <2> QED BY <2>4, <2>6, <2>7, <2>8, <2>9, <2>10, <2>11, <2>13, <2>14, <2>15 DEF IInv
  <1> QED BY <1>5, <1>6 DEF RecordControl
-----------------------------------------------------------------------------
\* An order ends at the exchange.
LEMMA EndsInv ==
  ASSUME IInv, NEW r \in Runs, NEW s \in Seqs, NEW st \in {"done", "rejected"}, Ends(r, s, st)
  PROVE  IInv'
  <1> DEFINE x == exchange[r]
             o == [x[s] EXCEPT !.st = st]
             x2 == exchange'[r]
  <1>0. /\ exchange[r][s].st = "open" /\ exchange' = [exchange EXCEPT ![r][s].st = st]
        /\ UNCHANGED <<durable, workerRest, gate, journal, held, sent>>
    BY DEF Ends
  <1>1. /\ TypeOK /\ EveryRun /\ Failure /\ AtStart /\ AtRecovery /\ Gate
        /\ OneOpenAction /\ OneActive /\ ShownAsItIs /\ Controls /\ Revoked
        /\ exchange \in [Runs -> [Seqs -> Order]]
    BY DEF IInv, TypeOK, Order
  <1>2. /\ doc' = doc /\ file' = file /\ down' = down /\ ticket' = ticket /\ live' = live /\ faults' = faults
        /\ start' = start /\ control' = control /\ recovery' = recovery /\ admission' = admission
        /\ closed' = closed /\ epoch' = epoch /\ session' = session /\ gate' = gate
        /\ journal' = journal /\ held' = held /\ sent' = sent /\ revoked' = revoked /\ overtaken' = overtaken
    BY <1>0 DEF durable, workerRest, request
  <1>3. x \in [Seqs -> Order] /\ x[s] \in Order
    BY <1>1
  <1>4. o \in Order /\ o.st = st /\ o.by = x[s].by
    BY <1>3 DEF Order
  <1> HIDE DEF o
  <1>5. /\ exchange' \in [Runs -> [Seqs -> Order]] /\ x2 = [x EXCEPT ![s] = o]
        /\ \A q \in Runs \ {r} : exchange'[q] = exchange[q]
    <2>1. exchange' = [exchange EXCEPT ![r] = [x EXCEPT ![s] = o]]
      BY <1>0, <1>1, <1>3 DEF o
    <2>2. [x EXCEPT ![s] = o] \in [Seqs -> Order]
      BY <1>3, <1>4
    <2> QED BY <1>1, <2>1, <2>2
  <1>6. /\ x2[s] = o /\ \A i \in Seqs \ {s} : x2[i] = x[i]
    BY <1>3, <1>5
  <1> HIDE DEF x2
  <1>7. TypeOK'
    <2>1. exchange' \in [Runs -> [Seqs -> [st : {"none", "open", "done", "rejected"}, by : 0..MaxSeq]]]
      BY <1>5 DEF Order
    <2>2. TypeOK
      BY <1>1
    <2>3. /\ doc' \in [Runs -> Run] /\ file' \in [doc : [Runs -> Run], bad : BOOLEAN]
          /\ live' \in [Runs -> Worker] /\ ticket' \in Ticket
          /\ start' \in [step : {"idle", "taken", "saved"}, run : Runs \cup {0}, t : Ticket]
          /\ control' \in [step : {"idle", "record"}, runs : SUBSET Runs, intent : 0..2]
          /\ recovery' \in [step : {"idle", "ack", "mark"}, run : Runs \cup {0}]
      BY <1>2, <2>2 DEF TypeOK
    <2>4. /\ gate' \in {"free", "start", "worker", "recovery"}
          /\ down' \in BOOLEAN /\ closed' \in BOOLEAN
          /\ faults' \in 0..MaxFaults /\ admission' \in 0..MaxAdmission
          /\ epoch' \in 0..MaxEpoch /\ session' \in 1..Len(AccountOf)
      BY <1>2, <2>2 DEF TypeOK
    <2>5. /\ journal' \in [Runs -> [Seqs -> {"none", "pending", "accepted", "rejected"}]]
          /\ held' \in [Runs -> SUBSET Seqs]
          /\ sent' \in [Runs -> [acts : Nat, qty : Nat, late : BOOLEAN]]
          /\ revoked' \in [Runs -> Nat] /\ overtaken' \subseteq Runs
      BY <1>2, <2>2 DEF TypeOK
    <2> QED BY <2>1, <2>3, <2>4, <2>5 DEF TypeOK
  <1>8. EveryRun'
    <2> SUFFICES ASSUME NEW q \in Runs
                 PROVE  RunOK(doc[q], file.doc[q], down, live[q], exchange'[q], journal[q], held[q], sent[q])
      BY <1>2 DEF EveryRun
    <2>1. /\ Disk(file.doc[q]) /\ Memory(doc[q], file.doc[q], down)
          /\ Work(doc[q], file.doc[q], down, live[q])
          /\ Placed(file.doc[q], exchange[q], journal[q]) /\ Reserved(exchange[q], held[q])
          /\ Unsent(live[q], exchange[q], journal[q], held[q])
          /\ Counted(file.doc[q], live[q], sent[q])
      BY <1>1, OneRun
    <2>2. CASE q # r
      BY <1>5, <2>1, <2>2 DEF RunOK
    <2>3. CASE q = r
      <3>1. Placed(file.doc[r], x2, journal[r])
        BY <1>0, <1>4, <1>6, <2>1, <2>3 DEF Placed, There
      <3>2. Reserved(x2, held[r])
        BY <1>0, <1>4, <1>6, <2>1, <2>3 DEF Reserved
      <3>3. Unsent(live[r], x2, journal[r], held[r])
        <4> SUFFICES ASSUME live[r].step \in Carrying PROVE Unsent(live[r], x2, journal[r], held[r])
          BY DEF Unsent
        <4>1. live[r].act.seq \in Seqs
          BY CarriedFacts
        <4> QED BY <1>0, <1>4, <1>6, <2>1, <2>3, <4>1 DEF Unsent
      <3> QED BY <2>1, <2>3, <3>1, <3>2, <3>3 DEF RunOK, x2
    <2> QED BY <2>2, <2>3
  <1>9. Failure' /\ AtStart' /\ AtRecovery' /\ Gate'
    BY <1>1, <1>2 DEF Failure, AtStart, AtRecovery, Gate, IsLive
  <1>10. OneOpenAction' /\ OneActive' /\ ShownAsItIs'
    BY <1>1, <1>2 DEF OneOpenAction, OneActive, Active, Settled, ShownAsItIs, IsLive
  <1>11. Controls' /\ Revoked'
    BY <1>1, <1>2 DEF Controls, Revoked, IsLive
  <1> QED BY <1>7, <1>8, <1>9, <1>10, <1>11 DEF IInv
-----------------------------------------------------------------------------
\* What a new process makes of one record of the file.
Resumed(f) ==
    IF f.pend # NoAction THEN [f EXCEPT !.st = "recovery"]
    ELSE IF f.st \in {"running", "stopping", "recovery"} THEN [f EXCEPT !.st = "paused"]
    ELSE f

LEMMA ResumedFacts ==
  ASSUME NEW f \in Run, Disk(f)
  PROVE  /\ Resumed(f) \in Run /\ Alike(f, Resumed(f))
         /\ Resumed(f).st \notin {"running", "stopping"}
         /\ Resumed(f).st = "absent" <=> f.st = "absent"
         /\ Resumed(f).st = "absent" => Resumed(f) = NewRun
  <1>1. ASSUME NEW s \in {"recovery", "paused"}
        PROVE  [f EXCEPT !.st = s] \in Run /\ [f EXCEPT !.st = s].st = s /\ Alike(f, [f EXCEPT !.st = s])
    BY DEF Run, Status, Alike
  <1>2. f.st = "absent" => f = NewRun /\ f.pend = NoAction
    BY NewRunFacts DEF Disk
  <1>3. CASE f.pend # NoAction
    BY <1>1, <1>2, <1>3 DEF Resumed
  <1>4. CASE f.pend = NoAction /\ f.st \in {"running", "stopping", "recovery"}
    BY <1>1, <1>4 DEF Resumed
  <1>5. CASE f.pend = NoAction /\ f.st \notin {"running", "stopping", "recovery"}
    BY <1>2, <1>5 DEF Resumed, Alike
  <1> QED BY <1>3, <1>4, <1>5

\* A request under way when the process stops can be taken.
LEMMA SentTakeable ==
  ASSUME IInv, NEW r \in Runs, live[r].step = "sent"
  PROVE  Takeable(file.doc[r], exchange[r], journal[r], held[r], live[r].act)
  <1>1. live[r].step \in Carrying /\ live[r].step # "prepared"
    BY DEF Carrying
  <1>2. /\ live[r].act.seq \in Seqs /\ file.doc[r].pend = live[r].act /\ file.doc[r].seq = live[r].act.seq
        /\ IsPlace(live[r].act) \/ live[r].act.kind \in {"cancel", "amend"}
        /\ ~IsPlace(live[r].act) => live[r].act.target \in file.doc[r].owned
    BY <1>1, CarriedFacts
  <1>3. /\ file.doc[r] \in Run /\ exchange[r] \in [Seqs -> Order] /\ live[r] \in Worker
        /\ Placed(file.doc[r], exchange[r], journal[r]) /\ Reserved(exchange[r], held[r])
        /\ Unsent(live[r], exchange[r], journal[r], held[r])
    BY Working, OneRun
  <1>4. live[r].act \in Action
    BY <1>3 DEF Worker
  <1>5. /\ live[r].act.kind # "cancel" => live[r].act.seq \in held[r]
        /\ IsPlace(live[r].act) => journal[r][live[r].act.seq] # "rejected"
    BY <1>1, <1>3 DEF Unsent
  <1> QED BY <1>2, <1>3, <1>4, <1>5 DEF Takeable

\* The exchange and the journal of one run after a stop.
LEMMA StoppedRun ==
  ASSUME IInv, NEW r \in Runs, NEW x2, NEW j2,
         \/ x2 = exchange[r] /\ j2 = journal[r]
         \/ /\ live[r].step = "sent" /\ x2 = Taken(exchange[r], live[r].act)
            /\ \/ j2 = journal[r]
               \/ IsPlace(live[r].act) /\ j2 = [journal[r] EXCEPT ![live[r].act.seq] = "accepted"]
  PROVE  /\ x2 \in [Seqs -> Order] /\ j2 \in [Seqs -> Entry]
         /\ Placed(file.doc[r], x2, j2) /\ Reserved(x2, held[r])
  <1> DEFINE f == file.doc[r]
             a == live[r].act
             j == journal[r]
  <1>1. /\ exchange[r] \in [Seqs -> Order] /\ j \in [Seqs -> Entry]
        /\ Placed(f, exchange[r], j) /\ Reserved(exchange[r], held[r])
    BY Working, OneRun
  <1>2. CASE live[r].step = "sent" /\ x2 = Taken(exchange[r], a) /\ j2 = j
    BY <1>1, <1>2, SentTakeable, TakenFacts
  <1>3. CASE /\ live[r].step = "sent" /\ x2 = Taken(exchange[r], a)
             /\ IsPlace(a) /\ j2 = [j EXCEPT ![a.seq] = "accepted"]
    <2>1. /\ x2 \in [Seqs -> Order] /\ Placed(f, x2, j) /\ Reserved(x2, held[r]) /\ x2[a.seq].st = "open"
      BY <1>3, SentTakeable, TakenFacts
    <2>2. j2 \in [Seqs -> Entry] /\ \A s \in Seqs : j2[s] = j[s] \/ (s = a.seq /\ j2[s] = "accepted")
      BY <1>1, <1>3 DEF Entry
    <2>3. Placed(f, x2, j2)
      BY <2>1, <2>2 DEF Placed
    <2> QED BY <2>1, <2>2, <2>3
  <1> QED BY <1>1, <1>2, <1>3

LEMMA RestartInv ==
  ASSUME IInv, Restart
  PROVE  IInv'
  <1>0. /\ faults < MaxFaults /\ faults' = faults + 1
        /\ doc' = IF file.bad THEN [r \in Runs |-> NewRun] ELSE Loaded(file.doc)
        /\ down' = file.bad
        /\ ticket' = NoTicket /\ live' = [r \in Runs |-> Off]
        /\ start' = NoStart /\ control' = NoControl /\ recovery' = NoRecovery
        /\ admission' = 0 /\ closed' = FALSE /\ gate' = "free"
        /\ revoked' = [r \in Runs |-> 0] /\ overtaken' = {}
        /\ file' = file /\ epoch' = epoch /\ session' = session /\ held' = held /\ sent' = sent
    BY DEF Restart
  <1>1. /\ TypeOK /\ EveryRun /\ OneOpenAction
        /\ file \in [doc : [Runs -> Run], bad : BOOLEAN] /\ faults \in 0..MaxFaults
        /\ MaxFaults \in Nat /\ MaxAdmission \in Nat
    BY BoundAssumption DEF IInv, TypeOK
  <1>2. PICK taken \in [{r \in Runs : live[r].step = "sent"} -> BOOLEAN], noted \in BOOLEAN :
            /\ exchange' = [r \in Runs |-> IF r \in DOMAIN taken /\ taken[r]
                                           THEN Taken(exchange[r], live[r].act) ELSE exchange[r]]
            /\ journal' = [r \in Runs |-> IF r \in DOMAIN taken /\ taken[r] /\ noted /\ IsPlace(live[r].act)
                                          THEN [journal[r] EXCEPT ![live[r].act.seq] = "accepted"]
                                          ELSE journal[r]]
    BY DEF Restart
  <1>3. ASSUME NEW r \in Runs
        PROVE  /\ exchange'[r] \in [Seqs -> Order] /\ journal'[r] \in [Seqs -> Entry]
               /\ Placed(file.doc[r], exchange'[r], journal'[r]) /\ Reserved(exchange'[r], held[r])
    <2>1. r \in DOMAIN taken => live[r].step = "sent"
      OBVIOUS
    <2>2. CASE r \in DOMAIN taken /\ taken[r]
      <3>1. exchange'[r] = Taken(exchange[r], live[r].act)
        BY <1>2, <2>2
      <3>2. \/ journal'[r] = journal[r]
            \/ IsPlace(live[r].act) /\ journal'[r] = [journal[r] EXCEPT ![live[r].act.seq] = "accepted"]
        BY <1>2
      <3> QED BY <2>1, <2>2, <3>1, <3>2, StoppedRun
    <2>3. CASE ~(r \in DOMAIN taken /\ taken[r])
      <3>1. exchange'[r] = exchange[r] /\ journal'[r] = journal[r]
        BY <1>2, <2>3
      <3> QED BY <3>1, StoppedRun
    <2> QED BY <2>2, <2>3
  <1>4. exchange' \in [Runs -> [Seqs -> Order]] /\ journal' \in [Runs -> [Seqs -> Entry]]
    <2>1. /\ exchange' = [r \in Runs |-> exchange'[r]] /\ journal' = [r \in Runs |-> journal'[r]]
      BY <1>2
    <2> QED BY <1>3, <2>1
  <1>5. ASSUME NEW r \in Runs
        PROVE  /\ doc'[r] \in Run /\ doc'[r].st \notin {"running", "stopping"}
               /\ doc'[r].st = "absent" => doc'[r] = NewRun
               /\ file.bad => doc'[r] = NewRun
               /\ ~file.bad => Alike(doc'[r], file.doc[r]) /\ (doc'[r].st = "absent" <=> file.doc[r].st = "absent")
    <2>1. file.doc[r] \in Run /\ Disk(file.doc[r])
      BY <1>1, OneRun
    <2>2. CASE file.bad
      BY <1>0, <2>2, NewRunFacts
    <2>3. CASE ~file.bad
      <3>1. doc'[r] = Resumed(file.doc[r])
        BY <1>0, <2>3 DEF Loaded, Resumed
      <3>2. /\ Resumed(file.doc[r]) \in Run /\ Alike(file.doc[r], Resumed(file.doc[r]))
            /\ Resumed(file.doc[r]).st \notin {"running", "stopping"}
            /\ Resumed(file.doc[r]).st = "absent" <=> file.doc[r].st = "absent"
            /\ Resumed(file.doc[r]).st = "absent" => Resumed(file.doc[r]) = NewRun
        BY <2>1, ResumedFacts
      <3>3. Alike(doc'[r], file.doc[r])
        BY <3>1, <3>2 DEF Alike
      <3> QED BY <2>3, <3>1, <3>2, <3>3
    <2> QED BY <2>2, <2>3
  <1>6. doc' \in [Runs -> Run]
    <2>1. doc' = [r \in Runs |-> doc'[r]]
      BY <1>0 DEF Loaded
    <2> QED BY <1>5, <2>1
  <1>7. \A r \in Runs : live'[r] = Off /\ revoked'[r] = 0
    BY <1>0
  <1>8. /\ NoStart \in [step : {"idle", "taken", "saved"}, run : Runs \cup {0}, t : Ticket] /\ NoStart.step = "idle"
        /\ NoControl \in [step : {"idle", "record"}, runs : SUBSET Runs, intent : 0..2]
        /\ NoControl.step = "idle" /\ NoControl.runs = {}
        /\ NoRecovery \in [step : {"idle", "ack", "mark"}, run : Runs \cup {0}] /\ NoRecovery.step = "idle"
    BY NewRunFacts DEF NoStart, NoControl, NoRecovery
  <1>9. TypeOK'
    <2>1. live' \in [Runs -> Worker] /\ revoked' \in [Runs -> Nat] /\ ticket' \in Ticket
      BY <1>0, NewRunFacts
    <2>2. exchange' \in [Runs -> [Seqs -> [st : {"none", "open", "done", "rejected"}, by : 0..MaxSeq]]]
      BY <1>4 DEF Order
    <2>3. journal' \in [Runs -> [Seqs -> {"none", "pending", "accepted", "rejected"}]]
      BY <1>4 DEF Entry
    <2>4. faults' \in 0..MaxFaults /\ admission' \in 0..MaxAdmission /\ down' \in BOOLEAN
      BY <1>0, <1>1
    <2>5. /\ file' \in [doc : [Runs -> Run], bad : BOOLEAN] /\ epoch' \in 0..MaxEpoch
          /\ session' \in 1..Len(AccountOf) /\ held' \in [Runs -> SUBSET Seqs]
          /\ sent' \in [Runs -> [acts : Nat, qty : Nat, late : BOOLEAN]]
      BY <1>0, <1>1 DEF TypeOK
    <2> QED BY <1>0, <1>6, <1>8, <2>1, <2>2, <2>3, <2>4, <2>5 DEF TypeOK
  <1>10. EveryRun'
    <2> SUFFICES ASSUME NEW r \in Runs
                 PROVE  RunOK(doc'[r], file.doc[r], file.bad, Off, exchange'[r], journal'[r], held[r], sent[r])
      BY <1>0, <1>7 DEF EveryRun
    <2>1. Disk(file.doc[r]) /\ Counted(file.doc[r], live[r], sent[r])
      BY <1>1, OneRun
    <2>2. Memory(doc'[r], file.doc[r], file.bad)
      BY <1>5, NewRunFacts DEF Memory
    <2>3. /\ Work(doc'[r], file.doc[r], file.bad, Off) /\ Unsent(Off, exchange'[r], journal'[r], held[r])
          /\ Counted(file.doc[r], Off, sent[r])
      BY <2>1, NewRunFacts DEF Work, Carried, Carrying, Unsent, Counted
    <2> QED BY <1>3, <2>1, <2>2, <2>3 DEF RunOK
  <1>11. Failure'
    BY <1>0, <1>1 DEF Failure
  <1>12. AtStart' /\ AtRecovery' /\ Gate'
    BY <1>0, <1>7, <1>8, NewRunFacts DEF AtStart, AtRecovery, Gate, Busy
  <1>13. OneOpenAction'
    BY <1>0, <1>1 DEF OneOpenAction, Settled
  <1>14. OneActive'
    <2> SUFFICES ASSUME ~file.bad, NEW r \in Runs, NEW q \in Runs, r # q, doc'[r].acct = doc'[q].acct
                 PROVE  ~Active(r)' \/ ~Active(q)'
      BY <1>0 DEF OneActive
    <2>1. \A p \in Runs : Active(p)' => doc'[p].pend # NoAction
      BY <1>0, <1>7, <1>8, NewRunFacts DEF Active, IsLive, Settled
    <2>2. \A p \in Runs : doc'[p].pend = file.doc[p].pend /\ doc'[p].acct = file.doc[p].acct
      BY <1>5 DEF Alike
    <2> QED BY <1>1, <2>1, <2>2 DEF OneOpenAction, Settled
  <1>15. ShownAsItIs'
    BY <1>5 DEF ShownAsItIs
  <1>16. Controls' /\ Revoked'
    BY <1>0, <1>7, <1>8, NewRunFacts DEF Controls, Revoked, IsLive
  <1> QED BY <1>9, <1>10, <1>11, <1>12, <1>13, <1>14, <1>15, <1>16 DEF IInv
-----------------------------------------------------------------------------
LEMMA InitInv ==
  ASSUME Init
  PROVE  IInv
  <1>0. /\ doc = [r \in Runs |-> NewRun] /\ file = [doc |-> doc, bad |-> FALSE]
        /\ down = FALSE /\ ticket = NoTicket /\ live = [r \in Runs |-> Off] /\ faults = 0
        /\ start = NoStart /\ control = NoControl /\ recovery = NoRecovery
        /\ admission = 0 /\ closed = FALSE /\ epoch = 0 /\ session = 1 /\ gate = "free"
        /\ journal = [r \in Runs |-> [s \in Seqs |-> "none"]]
        /\ exchange = [r \in Runs |-> [s \in Seqs |-> [st |-> "none", by |-> 0]]]
        /\ held = [r \in Runs |-> {}]
        /\ sent = [r \in Runs |-> [acts |-> 0, qty |-> 0, late |-> FALSE]]
        /\ revoked = [r \in Runs |-> 0] /\ overtaken = {}
    BY DEF Init
  <1>1. \A r \in Runs : /\ doc[r] = NewRun /\ file.doc[r] = NewRun /\ live[r] = Off /\ revoked[r] = 0
                        /\ exchange[r] = [s \in Seqs |-> [st |-> "none", by |-> 0]]
                        /\ journal[r] = [s \in Seqs |-> "none"] /\ held[r] = {}
                        /\ sent[r] = [acts |-> 0, qty |-> 0, late |-> FALSE]
    BY <1>0
  <1>2. /\ NoStart \in [step : {"idle", "taken", "saved"}, run : Runs \cup {0}, t : Ticket] /\ NoStart.step = "idle"
        /\ NoControl \in [step : {"idle", "record"}, runs : SUBSET Runs, intent : 0..2]
        /\ NoControl.step = "idle" /\ NoControl.runs = {}
        /\ NoRecovery \in [step : {"idle", "ack", "mark"}, run : Runs \cup {0}] /\ NoRecovery.step = "idle"
    BY NewRunFacts DEF NoStart, NoControl, NoRecovery
  <1>3. TypeOK
    <2>1. /\ doc \in [Runs -> Run] /\ file \in [doc : [Runs -> Run], bad : BOOLEAN]
          /\ live \in [Runs -> Worker] /\ ticket \in Ticket
      BY <1>0, NewRunFacts
    <2>2. /\ faults \in 0..MaxFaults /\ admission \in 0..MaxAdmission
          /\ epoch \in 0..MaxEpoch /\ session \in 1..Len(AccountOf)
      BY <1>0, BoundAssumption, AccountAssumption
    <2>3. exchange \in [Runs -> [Seqs -> [st : {"none", "open", "done", "rejected"}, by : 0..MaxSeq]]]
      BY <1>0, BoundAssumption
    <2>4. /\ journal \in [Runs -> [Seqs -> {"none", "pending", "accepted", "rejected"}]]
          /\ held \in [Runs -> SUBSET Seqs] /\ sent \in [Runs -> [acts : Nat, qty : Nat, late : BOOLEAN]]
          /\ revoked \in [Runs -> Nat] /\ overtaken \subseteq Runs
      BY <1>0
    <2> QED BY <1>0, <1>2, <2>1, <2>2, <2>3, <2>4 DEF TypeOK
  <1>4. EveryRun
    <2> DEFINE x == [s \in Seqs |-> [st |-> "none", by |-> 0]]
               j == [s \in Seqs |-> "none"]
               c == [acts |-> 0, qty |-> 0, late |-> FALSE]
    <2>1. Disk(NewRun) /\ Memory(NewRun, NewRun, FALSE) /\ Work(NewRun, NewRun, FALSE, Off)
      BY NewRunFacts, NewRunDisk DEF Memory, Alike, Work, Carried, Carrying
    <2>2. Placed(NewRun, x, j)
      BY NewRunFacts DEF Placed, There
    <2>3. Reserved(x, {}) /\ Unsent(Off, x, j, {}) /\ Counted(NewRun, Off, c)
      BY NewRunFacts DEF Reserved, Unsent, Counted, Carrying
    <2> QED BY <1>0, <1>1, <2>1, <2>2, <2>3 DEF EveryRun, RunOK
  <1>5. Failure /\ AtStart /\ AtRecovery /\ Gate
    BY <1>0, <1>1, <1>2, NewRunFacts DEF Failure, AtStart, AtRecovery, Gate, Busy
  <1>6. OneOpenAction /\ OneActive /\ ShownAsItIs
    BY <1>0, <1>1, <1>2, NewRunFacts DEF OneOpenAction, OneActive, Active, Settled, ShownAsItIs, IsLive
  <1>7. Controls /\ Revoked
    BY <1>0, <1>1, <1>2, NewRunFacts DEF Controls, Revoked, IsLive
  <1> QED BY <1>3, <1>4, <1>5, <1>6, <1>7 DEF IInv

\* The steps of one run.
WorkerStep(r) ==
    \/ TakeTicket(r) \/ Call(r) \/ Returns(r) \/ Queue(r) \/ Deny(r) \/ HandOver(r)
    \/ Acknowledge(r) \/ AcknowledgeFails(r) \/ Finish(r) \/ Reconcile(r)
    \/ \E st \in {"paused", "faulted", "completed"} : Fails(r, st)
    \/ \E stop \in BOOLEAN : Rest(r, stop)
    \/ \E a \in Actions : Prepare(r, a)
    \/ \E taken, noted \in BOOLEAN, status \in {"accepted", "rejected", "unknown"} :
          Answer(r, taken, status, noted)
    \/ \E s \in Seqs, st \in {"done", "rejected"} : Ends(r, s, st)

LEMMA WorkerStepInv ==
  ASSUME IInv, NEW r \in Runs, WorkerStep(r)
  PROVE  IInv'
  <1>1. CASE TakeTicket(r)
    BY <1>1, AccessInv
  <1>2. CASE Call(r) \/ Returns(r)
    BY <1>2, CallInv
  <1>3. CASE Queue(r)
    BY <1>3, QueueInv
  <1>4. CASE Deny(r)
    BY <1>4, DenyInv
  <1>5. CASE HandOver(r)
    BY <1>5, HandOverInv
  <1>6. CASE Acknowledge(r)
    BY <1>6, AcknowledgeInv
  <1>7. CASE AcknowledgeFails(r)
    BY <1>7, AcknowledgeFailsInv
  <1>8. CASE Finish(r)
    BY <1>8, FinishInv
  <1>9. CASE Reconcile(r)
    BY <1>9, ReconcileInv
  <1>10. CASE \E st \in {"paused", "faulted", "completed"} : Fails(r, st)
    BY <1>10, FailsInv
  <1>11. CASE \E stop \in BOOLEAN : Rest(r, stop)
    BY <1>11, RestInv
  <1>12. CASE \E a \in Actions : Prepare(r, a)
    BY <1>12, PrepareInv
  <1>13. CASE \E taken, noted \in BOOLEAN, status \in {"accepted", "rejected", "unknown"} :
                 Answer(r, taken, status, noted)
    BY <1>13, AnswerInv
  <1>14. CASE \E s \in Seqs, st \in {"done", "rejected"} : Ends(r, s, st)
    BY <1>14, EndsInv
  <1> QED BY <1>1, <1>2, <1>3, <1>4, <1>5, <1>6, <1>7, <1>8, <1>9, <1>10, <1>11, <1>12, <1>13, <1>14
          DEF WorkerStep

LEMMA NextInv ==
  ASSUME IInv, [Next]_vars
  PROVE  IInv'
  <1>1. CASE Access \/ StartRefused \/ BumpEpoch \/ SwitchSession
    BY <1>1, AccessInv
  <1>2. CASE StartSave
    BY <1>2, StartSaveInv
  <1>3. CASE StartAdmit
    BY <1>3, StartAdmitInv
  <1>4. CASE RecordControl
    BY <1>4, RecordControlInv
  <1>5. CASE Exit \/ RevokeIntent(Runs, 2) \/ \E i \in {1, 2} : \E r \in Runs : RevokeIntent({r}, i)
    BY <1>5, RevokeInv
  <1>6. CASE ReconcileAck
    BY <1>6, ReconcileAckInv
  <1>7. CASE ReconcileMark
    BY <1>7, ReconcileMarkInv
  <1>8. CASE Restart
    BY <1>8, RestartInv
  <1>9. CASE \E r \in Runs : WorkerStep(r)
    BY <1>9, WorkerStepInv
  <1>10. CASE UNCHANGED vars
    <2>1. /\ ticket \in Ticket /\ epoch \in 0..MaxEpoch /\ session \in 1..Len(AccountOf)
          /\ start \in [step : {"idle", "taken", "saved"}, run : Runs \cup {0}, t : Ticket]
      BY DEF IInv, TypeOK
    <2>2. /\ UNCHANGED <<doc, file, down, live, faults, control, recovery, admission, closed, gate, outside,
                         revoked, overtaken>>
          /\ ticket' = ticket /\ epoch' = epoch /\ session' = session /\ start' = start
      BY <1>10 DEF vars, durable, request
    <2> QED BY <2>1, <2>2, AsideInv
  <1>11. Next => \/ Access \/ StartRefused \/ BumpEpoch \/ SwitchSession
                 \/ StartSave \/ StartAdmit \/ RecordControl \/ ReconcileAck \/ ReconcileMark \/ Restart
                 \/ Exit \/ RevokeIntent(Runs, 2) \/ \E i \in {1, 2} : \E r \in Runs : RevokeIntent({r}, i)
                 \/ \E r \in Runs : WorkerStep(r)
    BY Zenon DEF Next, WorkerStep
  <1> QED BY <1>1, <1>2, <1>3, <1>4, <1>5, <1>6, <1>7, <1>8, <1>9, <1>10, <1>11

(* The inductive invariant: for every run, what is on disk covers what the  *)
(* worker carries, the exchange holds and the risk rules reserved, and       *)
(* memory agrees with it while the store works; the operation gate, the      *)
(* controls and the requests under way are as the supervisor left them       *)
(* (plugin/strategy/supervisor.rs, Inner and Live).                          *)
THEOREM Invariance == Spec => []IInv
  <1>1. Init => IInv
    BY InitInv
  <1>2. IInv /\ [Next]_vars => IInv'
    BY NextInv
  <1> QED BY <1>1, <1>2, PTL DEF Spec

LEMMA Safety ==
  ASSUME IInv
  PROVE  StrategySafe
  <1>0. /\ TypeOK /\ EveryRun /\ Failure /\ OneOpenAction /\ ShownAsItIs /\ Revoked
    BY DEF IInv
  <1>1. NoOrphan
    <2> SUFFICES ASSUME NEW r \in Runs, NEW s \in Seqs, Found(r, s)
                 PROVE  s \in file.doc[r].owned \/ file.doc[r].pend.seq = s
      BY DEF NoOrphan
    <2>1. Placed(file.doc[r], exchange[r], journal[r])
      BY <1>0, OneRun
    <2> QED BY <2>1 DEF Placed, There, Found
  <1>2. CapsHold
    <2> SUFFICES ASSUME NEW r \in Runs
                 PROVE  /\ sent[r].acts <= file.doc[r].acts /\ file.doc[r].acts <= MaxActions
                        /\ sent[r].qty <= file.doc[r].total /\ file.doc[r].total <= MaxTotal
      BY DEF CapsHold
    <2>1. Counted(file.doc[r], live[r], sent[r]) /\ file.doc[r] \in Run
      BY <1>0, OneRun
    <2>2. file.doc[r].acts \in 0..MaxActions /\ file.doc[r].total \in 0..MaxTotal
      BY <2>1 DEF Run
    <2> QED BY <2>1, <2>2, BoundAssumption DEF Counted
  <1>3. ReservationKept
    <2>1. \A r \in Runs : Reserved(exchange[r], held[r])
      BY <1>0, OneRun
    <2> QED BY <2>1 DEF ReservationKept, Reserved
  <1>4. RevokedIsSilent
    <2>1. \A r \in Runs : Counted(file.doc[r], live[r], sent[r])
      BY <1>0, OneRun
    <2> QED BY <1>0, <2>1 DEF RevokedIsSilent, Revoked, Counted
  <1>5. MemoryIsDurable
    <2> SUFFICES ASSUME ~down, NEW r \in Runs
                 PROVE  [doc[r] EXCEPT !.st = "any"] = [file.doc[r] EXCEPT !.st = "any"]
      BY DEF MemoryIsDurable
    <2>1. doc[r] \in Run /\ file.doc[r] \in Run /\ Alike(doc[r], file.doc[r])
      BY <1>0, OneRun DEF Memory
    <2> QED BY <2>1 DEF Alike, Run
  <1>6. NeverRefused
    BY <1>0 DEF NeverRefused, Failure
  <1> QED BY <1>0, <1>1, <1>2, <1>3, <1>4, <1>5, <1>6 DEF StrategySafe

(* Automatic trading, for any number of runs, accounts and faults: every    *)
(* order at the exchange is on disk as owned or open, what was handed over   *)
(* is counted within the caps and has its reservation, an account has one    *)
(* open action, a revoked run sends nothing, memory agrees with the disk,    *)
(* and the supervisor never builds a document its store refuses              *)
(* (plugin/strategy/supervisor.rs, execution.rs, recovery.rs, store.rs).     *)
THEOREM StrategyCorrect == Spec => []StrategySafe
  <1>1. IInv => StrategySafe
    BY Safety
  <1> QED BY <1>1, Invariance, PTL
-----------------------------------------------------------------------------
\* The record n has forgotten nothing of d.
Grown(d, n) ==
    /\ n.acts >= d.acts /\ n.total >= d.total /\ n.seq >= d.seq
    /\ d.owned \subseteq n.owned /\ d.asked \subseteq n.asked

\* The same numbers and orders.
Same(d, n) ==
    /\ n.acts = d.acts /\ n.total = d.total /\ n.seq = d.seq
    /\ n.owned = d.owned /\ n.asked = d.asked

LEMMA SameGrown ==
  ASSUME NEW d \in Run, NEW n, Same(d, n)
  PROVE  Grown(d, n)
  <1>1. d.acts \in Nat /\ d.total \in Nat /\ d.seq \in Nat
    BY DEF Run
  <1> QED BY <1>1 DEF Same, Grown

LEMMA FileSame ==
  ASSUME IInv, file' = file
  PROVE  SpentKept
  <1> SUFFICES ASSUME NEW r \in Runs PROVE Grown(file.doc[r], file'.doc[r])
    BY DEF SpentKept, Grown
  <1>1. file.doc[r] \in Run
    BY OneRun DEF IInv
  <1>2. Same(file.doc[r], file'.doc[r])
    BY DEF Same
  <1> QED BY <1>1, <1>2, SameGrown

\* A save, however it ends, forgets nothing when the new document does not.
LEMMA SavedGrows ==
  ASSUME IInv, NEW next, NEW lv, NEW tk, SaveWith(next, lv, tk),
         \A r \in Runs : Grown(doc[r], next[r])
  PROVE  SpentKept
  <1>1. file \in [doc : [Runs -> Run], bad : BOOLEAN] /\ down \in BOOLEAN
    BY DEF IInv, TypeOK
  <1>2. file' = file \/ file'.doc = file.doc \/ (~down /\ file'.doc = next)
    <2>1. [file EXCEPT !.bad = TRUE].doc = file.doc
      BY <1>1
    <2> QED BY <1>1, <2>1 DEF SaveWith
  <1>3. CASE file'.doc = file.doc
    <2> SUFFICES ASSUME NEW r \in Runs PROVE Grown(file.doc[r], file'.doc[r])
      BY DEF SpentKept, Grown
    <2>1. file.doc[r] \in Run /\ Same(file.doc[r], file'.doc[r])
      BY <1>1, <1>3 DEF Same
    <2> QED BY <2>1, SameGrown
  <1>4. CASE ~down /\ file'.doc = next
    <2> SUFFICES ASSUME NEW r \in Runs PROVE Grown(file.doc[r], next[r])
      BY <1>4 DEF SpentKept, Grown
    <2>1. Memory(doc[r], file.doc[r], down)
      BY OneRun DEF IInv
    <2> QED BY <1>4, <2>1 DEF Memory, Alike, Grown
  <1> QED BY <1>2, <1>3, <1>4

\* A save that changes the record of one run.
LEMMA OneGrows ==
  ASSUME IInv, NEW r \in Runs, NEW n, NEW lv, NEW tk, SaveWith([doc EXCEPT ![r] = n], lv, tk),
         Grown(doc[r], n)
  PROVE  SpentKept
  <1>1. doc \in [Runs -> Run]
    BY DEF IInv, TypeOK
  <1> DEFINE next == [doc EXCEPT ![r] = n]
  <1>2. ASSUME NEW q \in Runs PROVE Grown(doc[q], next[q])
    <2>1. CASE q = r
      BY <1>1, <2>1
    <2>2. CASE q # r
      <3>1. doc[q] \in Run /\ Same(doc[q], next[q])
        BY <1>1, <2>2 DEF Same
      <3> QED BY <3>1, SameGrown
    <2> QED BY <2>1, <2>2
  <1>3. SaveWith(next, lv, tk)
    OBVIOUS
  <1> HIDE DEF next
  <1> QED BY <1>2, <1>3, SavedGrows

LEMMA StatusGrows ==
  ASSUME IInv, NEW r \in Runs, NEW st, NEW lv, Save([doc EXCEPT ![r].st = st], lv)
  PROVE  SpentKept
  <1>1. doc \in [Runs -> Run] /\ doc[r] \in Run
    BY DEF IInv, TypeOK
  <1> DEFINE n == [doc[r] EXCEPT !.st = st]
  <1>2. [doc EXCEPT ![r].st = st] = [doc EXCEPT ![r] = n]
    BY <1>1
  <1>3. Same(doc[r], n)
    BY <1>1 DEF Same, Run
  <1>4. SaveWith([doc EXCEPT ![r] = n], lv, ticket)
    BY <1>2 DEF Save
  <1> HIDE DEF n
  <1> QED BY <1>1, <1>3, <1>4, SameGrown, OneGrows

LEMMA AccountedGrown ==
  ASSUME NEW d \in Run, NEW a, NEW status
  PROVE  Grown(d, Accounted(d, a, status))
  <1> DEFINE n == Accounted(d, a, status)
  <1>1. n.acts = d.acts /\ n.total = d.total /\ n.seq = d.seq /\ n.asked = d.asked
    BY DEF Accounted, Run
  <1>2. n.owned = IF status = "accepted" /\ IsPlace(a) THEN d.owned \cup {a.seq} ELSE d.owned
    BY DEF Accounted, Run
  <1>3. d.acts \in Nat /\ d.total \in Nat /\ d.seq \in Nat
    BY DEF Run
  <1> HIDE DEF n
  <1> QED BY <1>1, <1>2, <1>3 DEF Grown, n

LEMMA AccountedGrows ==
  ASSUME IInv, NEW r \in Runs, NEW a, NEW status, NEW lv, Save([doc EXCEPT ![r] = Accounted(@, a, status)], lv)
  PROVE  SpentKept
  <1>1. doc \in [Runs -> Run] /\ doc[r] \in Run
    BY DEF IInv, TypeOK
  <1>2. SaveWith([doc EXCEPT ![r] = Accounted(doc[r], a, status)], lv, ticket)
    BY <1>1 DEF Save
  <1> QED BY <1>1, <1>2, AccountedGrown, OneGrows

LEMMA ClosedGrows ==
  ASSUME IInv, NEW r \in Runs, NEW lv, Save([doc EXCEPT ![r] = Closed(doc[r])], lv)
  PROVE  SpentKept
  <1>1. doc[r] \in Run
    BY DEF IInv, TypeOK
  <1>2. Same(doc[r], Closed(doc[r]))
    BY <1>1, ClosedFacts DEF Same
  <1> QED BY <1>1, <1>2, SameGrown, OneGrows DEF Save

LEMMA WorkerSpent ==
  ASSUME IInv, NEW r \in Runs, WorkerStep(r)
  PROVE  SpentKept
  <1>0. doc \in [Runs -> Run] /\ doc[r] \in Run /\ down \in BOOLEAN
    BY DEF IInv, TypeOK
  <1>1. CASE TakeTicket(r) \/ Call(r) \/ Returns(r) \/ Queue(r) \/ HandOver(r)
    <2>1. file' = file
      BY <1>1 DEF TakeTicket, Call, Returns, Queue, HandOver
    <2> QED BY <2>1, FileSame
  <1>2. CASE Deny(r)
    BY <1>2, AccountedGrows DEF Deny
  <1>3. CASE Acknowledge(r)
    <2>1. [doc EXCEPT ![r].pend = NoAction] = [doc EXCEPT ![r] = Closed(doc[r])]
      BY <1>0 DEF Closed
    <2>2. PICK lv : Save([doc EXCEPT ![r].pend = NoAction], lv)
      BY <1>3 DEF Acknowledge
    <2> QED BY <2>1, <2>2, ClosedGrows
  <1>4. CASE AcknowledgeFails(r)
    BY <1>4, StatusGrows DEF AcknowledgeFails
  <1>5. CASE Finish(r)
    <2>1. CASE down
      BY <1>5, <2>1, FileSame DEF Finish
    <2>2. CASE ~down
      <3> DEFINE n == Finished(doc[r], live[r].intent)
      <3>1. Same(doc[r], n)
        BY <1>0 DEF Same, Finished, Run
      <3>2. PICK lv : SaveWith([doc EXCEPT ![r] = n], lv, ticket)
        BY <1>0, <1>5, <2>2 DEF Finish, Save
      <3> HIDE DEF n
      <3> QED BY <1>0, <3>1, <3>2, SameGrown, OneGrows
    <2> QED BY <2>1, <2>2
  <1>6. CASE Reconcile(r)
    BY <1>6, AccountedGrows DEF Reconcile
  <1>7. ASSUME NEW st \in {"paused", "faulted", "completed"}, Fails(r, st) PROVE SpentKept
    BY <1>7, StatusGrows DEF Fails
  <1>8. ASSUME NEW stop \in BOOLEAN, Rest(r, stop) PROVE SpentKept
    <2> DEFINE st == IF stop THEN "completed" ELSE doc[r].st
               n == [doc[r] EXCEPT !.seq = @ + 1, !.st = st]
    <2>1. [doc EXCEPT ![r].seq = @ + 1, ![r].st = IF stop THEN "completed" ELSE @] = [doc EXCEPT ![r] = n]
      BY <1>0 DEF Run
    <2>2. PICK lv : SaveWith([doc EXCEPT ![r].seq = @ + 1, ![r].st = IF stop THEN "completed" ELSE @], lv, ticket)
      BY <1>8 DEF Rest, Save
    <2> HIDE DEF st
    <2>3. /\ n.seq = doc[r].seq + 1 /\ n.acts = doc[r].acts /\ n.total = doc[r].total
          /\ n.owned = doc[r].owned /\ n.asked = doc[r].asked
      BY <1>0 DEF Run
    <2>4. doc[r].acts \in Nat /\ doc[r].total \in Nat /\ doc[r].seq \in Nat
      BY <1>0 DEF Run
    <2>5. SaveWith([doc EXCEPT ![r] = n], lv, ticket)
      BY <2>1, <2>2
    <2> HIDE DEF n
    <2>6. Grown(doc[r], n)
      BY <2>3, <2>4 DEF Grown
    <2> QED BY <2>5, <2>6, OneGrows
  <1>9. ASSUME NEW a \in Actions, Prepare(r, a) PROVE SpentKept
    <2>1. PICK lv : SaveWith([doc EXCEPT ![r] = Prepared(doc[r], a)], lv, ticket)
      BY <1>9 DEF Prepare, Save
    <2>2. live[r].step = "computing" /\ ~down /\ doc[r].seq < MaxSeq /\ a.seq = doc[r].seq + 1 /\ Valid(doc[r], a)
      BY <1>9 DEF Prepare, Decides
    <2>3. Disk(doc[r]) /\ Work(doc[r], file.doc[r], down, live[r])
      BY <2>2, OneRun DEF IInv
    <2>4. doc[r].pend = NoAction /\ doc[r].st # "absent"
      BY <2>2, <2>3 DEF Work
    <2>5. /\ Prepared(doc[r], a).seq = doc[r].seq + 1 /\ Prepared(doc[r], a).acts = doc[r].acts + 1
          /\ Prepared(doc[r], a).owned = doc[r].owned /\ doc[r].asked \subseteq Prepared(doc[r], a).asked
          /\ Prepared(doc[r], a).total = IF a.kind = "cancel" THEN doc[r].total ELSE doc[r].total + 1
      BY <1>0, <2>2, <2>3, <2>4, PreparedFacts
    <2>6. doc[r].acts \in Nat /\ doc[r].total \in Nat /\ doc[r].seq \in Nat
      BY <1>0 DEF Run
    <2>7. Grown(doc[r], Prepared(doc[r], a))
      BY <2>5, <2>6 DEF Grown
    <2> QED BY <2>1, <2>7, OneGrows
  <1>10. ASSUME NEW taken \in BOOLEAN, NEW noted \in BOOLEAN, NEW status \in {"accepted", "rejected", "unknown"},
                Answer(r, taken, status, noted)
         PROVE  SpentKept
    BY <1>10, AccountedGrows DEF Answer
  <1>11. CASE \E s \in Seqs, st \in {"done", "rejected"} : Ends(r, s, st)
    <2>1. file' = file
      BY <1>11 DEF Ends, durable
    <2> QED BY <2>1, FileSame
  <1> QED BY <1>1, <1>2, <1>3, <1>4, <1>5, <1>6, <1>7, <1>8, <1>9, <1>10, <1>11 DEF WorkerStep

LEMMA NextSpent ==
  ASSUME IInv, [Next]_vars
  PROVE  SpentKept
  <1>0. doc \in [Runs -> Run]
    BY DEF IInv, TypeOK
  <1>1. CASE Access \/ StartRefused \/ BumpEpoch \/ SwitchSession \/ Exit \/ RevokeIntent(Runs, 2)
             \/ \E i \in {1, 2} : \E r \in Runs : RevokeIntent({r}, i)
    <2>1. file' = file
      BY <1>1 DEF Access, StartRefused, BumpEpoch, SwitchSession, Exit, RevokeIntent, durable
    <2> QED BY <2>1, FileSame
  <1>2. CASE StartSave
    <2>1. start.run \in Runs /\ doc[start.run] \in Run
      BY <1>0, <1>2 DEF StartSave, IInv, AtStart
    <2>2. SaveWith([doc EXCEPT ![start.run] = Started(doc[start.run])], live, ticket)
      BY <1>0, <1>2 DEF StartSave, Save
    <2>3. Same(doc[start.run], Started(doc[start.run]))
      BY <2>1 DEF Same, Started, Run
    <2> QED BY <2>1, <2>2, <2>3, SameGrown, OneGrows
  <1>3. CASE StartAdmit
    <2>1. start.run \in Runs
      BY <1>3 DEF StartAdmit, IInv, AtStart
    <2>2. file' = file \/ Save([doc EXCEPT ![start.run].st = "stopped"], live)
      BY <1>3 DEF StartAdmit
    <2> QED BY <2>1, <2>2, FileSame, StatusGrows
  <1>4. CASE RecordControl
    <2> DEFINE next == [r \in Runs |-> IF r \in control.runs THEN Controlled(r, doc[r]) ELSE doc[r]]
    <2>1. ASSUME NEW q \in Runs PROVE Grown(doc[q], next[q])
      <3>1. doc[q] \in Run
        BY <1>0
      <3>2. Same(doc[q], next[q])
        BY <3>1 DEF Same, Controlled, Run
      <3> HIDE DEF next
      <3> QED BY <3>1, <3>2, SameGrown
    <2>2. file' = file \/ SaveWith(next, live, NoTicket)
      BY <1>4 DEF RecordControl
    <2> HIDE DEF next
    <2> QED BY <2>1, <2>2, FileSame, SavedGrows
  <1>5. CASE ReconcileAck
    <2> DEFINE r == recovery.run
    <2>1. r \in Runs /\ doc[r] \in Run
      BY <1>0, <1>5 DEF ReconcileAck, IInv, AtRecovery
    <2>2. PICK ok \in BOOLEAN :
              Save([doc EXCEPT ![r] = IF ok THEN [@ EXCEPT !.pend = NoAction] ELSE [@ EXCEPT !.st = "recovery"]], live)
      BY <1>5 DEF ReconcileAck
    <2>3. CASE ok
      <3>1. Save([doc EXCEPT ![r] = Closed(doc[r])], live)
        BY <1>0, <2>1, <2>2, <2>3 DEF Closed
      <3> QED BY <2>1, <3>1, ClosedGrows
    <2>4. CASE ~ok
      <3>1. Save([doc EXCEPT ![r].st = "recovery"], live)
        BY <1>0, <2>1, <2>2, <2>4
      <3> QED BY <2>1, <3>1, StatusGrows
    <2> QED BY <2>3, <2>4
  <1>6. CASE ReconcileMark
    <2>1. recovery.run \in Runs
      BY <1>6 DEF ReconcileMark, IInv, AtRecovery
    <2> QED BY <1>6, <2>1, StatusGrows DEF ReconcileMark
  <1>7. CASE Restart
    BY <1>7, FileSame DEF Restart
  <1>8. CASE \E r \in Runs : WorkerStep(r)
    BY <1>8, WorkerSpent
  <1>9. CASE UNCHANGED vars
    BY <1>9, FileSame DEF vars, durable
  <1>10. Next => \/ Access \/ StartRefused \/ BumpEpoch \/ SwitchSession
                 \/ StartSave \/ StartAdmit \/ RecordControl \/ ReconcileAck \/ ReconcileMark \/ Restart
                 \/ Exit \/ RevokeIntent(Runs, 2) \/ \E i \in {1, 2} : \E r \in Runs : RevokeIntent({r}, i)
                 \/ \E r \in Runs : WorkerStep(r)
    BY Zenon DEF Next, WorkerStep
  <1> QED BY <1>1, <1>2, <1>3, <1>4, <1>5, <1>6, <1>7, <1>8, <1>9, <1>10

(* What a run has spent is on disk for good: no step of a worker, a start,  *)
(* a control, a reconciliation, a failing save or a restart lowers its       *)
(* actions, quantity or callback number or forgets an order it owns or       *)
(* asked to cancel (plugin/strategy/supervisor.rs, start_owned and new).     *)
THEOREM SpentCorrect == Spec => SpentStaysSpent
  <1>1. IInv /\ [Next]_vars => [SpentKept]_vars
    BY NextSpent
  <1> QED BY <1>1, Invariance, PTL DEF Spec, SpentStaysSpent
=============================================================================
