--------------------------- MODULE RiskLedgerProofs ---------------------------
(***************************************************************************)
(* Proofs about RiskLedger, for any instants, limits and offsets.  What    *)
(* the ledger counts too much is explained for any timezones; that it      *)
(* never counts too little is proved for one timezone, and is false for    *)
(* two (the run risk_ledger_zones).                                        *)
(***************************************************************************)
EXTENDS RiskLedger, TLAPS

\* The trading-day timezone is not changed.
OneZone == \A y, z \in Zones : y = z

TempWritten == {"replace_main", "demote_main", "promote_temp", "restore_main"}

\* The copies a load may still answer from, at this step: the backup only
\* while this very save may put it back.
Live == {"main", "tmp"} \cup (IF task.pc \in {"promote_temp", "restore_main"} THEN {"bak"} ELSE {})

\* What each step of an order relies on: memory, main file and reservation
\* are one when the order leaves.
TaskShape ==
  /\ task.pc = "idle" => task = Idle
  /\ task.pc # "idle" => task.next \in Usage /\ task.op \in {"reserve", "release"}
  /\ task.pc \in TempWritten => files["tmp"] = task.next
  /\ task.pc = "dispatch" =>
       /\ task.op = "reserve"
       /\ usage = task.next
       /\ files["main"] = task.next
       /\ files["tmp"] = Absent

Reserved(key) == IF task.pc # "idle" /\ key = KeyOf(task.next) THEN 1 ELSE 0

Explained(u) == u.count <= placed[KeyOf(u)] + slack[KeyOf(u)] + Reserved(KeyOf(u))

\* OvercountExplained of every copy of the ledger that may come into force.
Overcount ==
  /\ usage # Absent => Explained(usage)
  /\ \A slot \in Live : Readable(files[slot]) => Explained(files[slot])
  /\ task.op = "reserve" => Explained(task.next)
  /\ task.op = "release" =>
       task.next.count <= placed[KeyOf(task.next)] + slack[KeyOf(task.next)]

\* No order is counted for a day that has not begun.
NotAhead ==
  /\ \A key \in Keys : key.day > TradingDay(now, key.zone) => placed[key] = 0
  /\ task.pc # "idle" => task.next.day <= TradingDay(now, task.next.zone)

Covers(u) == CountIn(u) >= placed[CurrentKey]

\* Every copy of the ledger that may come into force counts the orders of the
\* day, and the reservation under way counts one more.
Counted ==
  /\ cfg.enabled /\ ~loadError => Covers(usage)
  /\ \A slot \in Live : Readable(files[slot]) => Covers(files[slot])
  /\ LoadUsage(files) = Absent => placed[CurrentKey] = 0
  /\ task.pc # "idle" => Covers(task.next)
  /\ task.op = "reserve" =>
       placed[KeyOf(task.next)] < task.next.count /\ task.next.count <= cfg.max

IInv == TypeOK /\ TaskShape /\ Overcount

QInv == IInv /\ NotAhead /\ Counted

-----------------------------------------------------------------------------
LEMMA DayFacts ==
  ASSUME NEW s \in Times, NEW t \in Times, NEW zone \in Zones
  PROVE  /\ TradingDay(s, zone) \in Nat
         /\ TradingDay(s, zone) \in Days
         /\ s <= t => TradingDay(s, zone) <= TradingDay(t, zone)
  <1>1. s \in Nat /\ t \in Nat /\ Offset[zone] \in Nat
    BY ZoneAssumption
  <1>2. ASSUME NEW a \in Nat, NEW b \in Nat, a <= b
        PROVE  a \div 24 \in Nat /\ a \div 24 <= b \div 24
    BY <1>2
  <1>3. s <= t => s + Offset[zone] <= t + Offset[zone]
    BY <1>1
  <1> QED BY <1>1, <1>2, <1>3 DEF TradingDay, Days

LEMMA KeyFacts ==
  ASSUME TypeOK
  PROVE  /\ CurrentKey \in Keys
         /\ \A u \in Usage : KeyOf(u) \in Keys /\ u.count \in Nat /\ u.day \in Nat /\ u.zone \in Zones
         /\ \A u \in Usage : u # Absent /\ u # Damaged
         /\ \A u \in Usage \cup {Absent} : CountIn(u) \in Nat
  <1>1. cfg.zone \in Zones /\ now \in Times
    BY DEF TypeOK, Config
  <1>2. CurrentKey \in Keys
    BY <1>1, DayFacts DEF CurrentKey, Keys
  <1>3. Days \subseteq Nat
    BY DayFacts DEF Days
  <1> QED BY <1>2, <1>3, LedgerAssumption DEF Usage, Keys, KeyOf, CountIn

LEMMA ChargeFacts ==
  ASSUME NEW ledger \in [Keys -> Nat], NEW key \in Keys
  PROVE  /\ Charge(ledger, key) \in [Keys -> Nat]
         /\ Charge(ledger, key)[key] = ledger[key] + 1
         /\ \A k \in Keys : k # key => Charge(ledger, key)[k] = ledger[k]
  BY DEF Charge

LEMMA UsageStepFacts ==
  ASSUME NEW pc \in SavePcs, NEW f \in [ConfigSlots -> Usage \cup {Absent, Damaged}],
         NEW new \in Usage, NEW step \in UsageSteps(pc, f, new),
         pc \in TempWritten => f["tmp"] = new
  PROVE  /\ step[1] \in SavePcs \cup {"saved", "failed"}
         /\ step[1] # "open_temp"
         /\ step[2] \in [ConfigSlots -> Usage \cup {Absent, Damaged}]
         /\ step[1] \in TempWritten => step[2]["tmp"] = new
         /\ step[1] = "saved" => step[2]["main"] = new /\ step[2]["tmp"] = Absent
         /\ step[2]["main"] \in {Absent, new, f["main"]}
              \/ (pc = "restore_main" /\ step[2]["main"] = f["bak"])
         /\ step[2]["tmp"] \in {Absent, Damaged, new, f["tmp"]}
         /\ step[1] = "promote_temp" => step[2]["bak"] \in {Absent, f["main"]}
         /\ step[1] = "restore_main" => pc = "promote_temp" /\ step[2]["bak"] = f["bak"]
         /\ LoadUsage(step[2]) = Absent => LoadUsage(f) = Absent
  <1> USE LedgerAssumption, SlotMarkers
      DEF ConfigSlots, Put, Remove, Rename, LoadUsage, TempWritten
  <1>1. CASE pc = "open_temp"
    BY <1>1 DEF SavePcs, UsageSteps, OpenTemp
  <1>2. CASE pc = "write_temp"
    BY <1>2 DEF SavePcs, UsageSteps, WriteTemp
  <1>3. CASE pc = "replace_main"
    BY <1>3 DEF SavePcs, UsageSteps, ReplaceUsage
  <1>4. CASE pc = "demote_main"
    BY <1>4 DEF SavePcs, UsageSteps, DemoteMain
  <1>5. CASE pc = "promote_temp"
    BY <1>5 DEF SavePcs, UsageSteps, PromoteUsage
  <1>6. CASE pc = "restore_main"
    BY <1>6 DEF SavePcs, UsageSteps, RestoreMain
  <1> QED BY <1>1, <1>2, <1>3, <1>4, <1>5, <1>6 DEF SavePcs

\* What a step of the running save leaves in the copies that may come into force.
LiveFrom(step) ==
  /\ step[1] \in SavePcs \cup {"saved", "failed"}
  /\ step[2] \in [ConfigSlots -> Usage \cup {Absent, Damaged}]
  /\ step[1] = "saved" => step[2]["main"] = task.next /\ step[2]["tmp"] = Absent
  /\ \/ step[2]["main"] \in {Absent, task.next, files["main"]}
     \/ task.pc = "restore_main" /\ step[2]["main"] = files["bak"]
  /\ step[2]["tmp"] \in {Absent, Damaged, task.next, files["tmp"]}
  /\ step[1] = "promote_temp" => step[2]["bak"] \in {Absent, files["main"]}
  /\ step[1] = "restore_main" => task.pc = "promote_temp" /\ step[2]["bak"] = files["bak"]
  /\ LoadUsage(step[2]) = Absent => LoadUsage(files) = Absent

-----------------------------------------------------------------------------
(***************************************************************************)
(* IInv: the types, the shape of the task and the overcount.               *)
(***************************************************************************)
LEMMA InitIInv == Init => IInv
  <1> SUFFICES ASSUME Init PROVE IInv
    OBVIOUS
  <1>1. TypeOK
    BY DEF Init, TypeOK, Idle, NoFile, ConfigSlots
  <1>2. TaskShape
    BY DEF Init, TaskShape, Idle, TempWritten
  <1>3. Overcount
    BY DEF Init, Overcount, Live, Idle, NoFile, Readable, ConfigSlots
  <1> QED BY <1>1, <1>2, <1>3 DEF IInv

LEMMA TypeStep ==
  ASSUME TypeOK, TaskShape, [Next]_vars
  PROVE  TypeOK'
  <1> USE DEF TypeOK
  <1>1. CASE Reserve
    BY <1>1, KeyFacts DEF Reserve, Idle, Keys, Usage, SavePcs
  <1>2. CASE SaveStep
    <2> PICK step \in UsageSteps(task.pc, files, task.next) :
          /\ files' = step[2]
          /\ IF step[1] \in SavePcs
             THEN task' = [task EXCEPT !.pc = step[1]] /\ UNCHANGED <<usage, slack>>
             ELSE SaveEnd(step[1] = "saved")
      BY <1>2 DEF SaveStep
    <2>1. task.pc \in SavePcs /\ task.next \in Usage
      BY <1>2 DEF SaveStep, TaskShape, SavePcs
    <2>2. step[2] \in [ConfigSlots -> Usage \cup {Absent, Damaged}]
      BY <2>1, UsageStepFacts DEF TaskShape
    <2> QED BY <1>2, <2>1, <2>2 DEF SaveStep, SaveEnd, Idle, Charge
  <1>3. CASE OrderPlaced
    BY <1>3, KeyFacts, ChargeFacts DEF OrderPlaced, Idle, TaskShape
  <1>4. CASE OrderLost
    BY <1>4, KeyFacts, ChargeFacts DEF OrderLost, Idle, TaskShape
  <1>5. CASE OrderRefused
    <2>1. ASSUME usage \in Usage
          PROVE  [usage EXCEPT !.count = IF @ = 0 THEN 0 ELSE @ - 1] \in Usage
      BY <2>1 DEF Usage
    <2> QED BY <1>5, <2>1 DEF OrderRefused, Idle, SavePcs
  <1>6. ASSUME NEW next \in Config, UpdateConfig(next) PROVE TypeOK'
    BY <1>6, SlotMarkers DEF UpdateConfig, ForgetLedger, LoadLedger, LoadUsage, ConfigSlots
  <1>7. ASSUME NEW next \in Config, FailUpdateConfig(next) PROVE TypeOK'
    BY <1>7 DEF FailUpdateConfig
  <1>8. ASSUME NEW time \in Times, Tick(time) PROVE TypeOK'
    BY <1>8 DEF Tick
  <1>9. CASE Restart
    <2>1. slack' \in [Keys -> Nat]
      BY <1>9, KeyFacts, ChargeFacts DEF Restart, TaskShape
    <2>2. usage' \in Usage \cup {Absent} /\ loadError' \in BOOLEAN
      BY <1>9, SlotMarkers DEF Restart, ForgetLedger, LoadLedger, LoadUsage, ConfigSlots
    <2> QED BY <1>9, <2>1, <2>2 DEF Restart, Idle
  <1>10. CASE UNCHANGED vars
    BY <1>10 DEF vars
  <1> QED BY <1>1, <1>2, <1>3, <1>4, <1>5, <1>6, <1>7, <1>8, <1>9, <1>10 DEF Next

LEMMA ShapeStep ==
  ASSUME TypeOK, TaskShape, [Next]_vars
  PROVE  TaskShape'
  <1> USE DEF TaskShape
  <1>1. CASE Reserve
    BY <1>1, KeyFacts DEF Reserve, TypeOK, Keys, Usage, TempWritten
  <1>2. CASE SaveStep
    <2> PICK step \in UsageSteps(task.pc, files, task.next) :
          /\ files' = step[2]
          /\ IF step[1] \in SavePcs
             THEN task' = [task EXCEPT !.pc = step[1]] /\ UNCHANGED <<usage, slack>>
             ELSE SaveEnd(step[1] = "saved")
      BY <1>2 DEF SaveStep
    <2>1. task.pc \in SavePcs /\ task.next \in Usage
      BY <1>2 DEF SaveStep, SavePcs
    <2>2. /\ step[1] \in TempWritten => step[2]["tmp"] = task.next
          /\ step[1] = "saved" => step[2]["main"] = task.next /\ step[2]["tmp"] = Absent
      BY <2>1, UsageStepFacts DEF TypeOK
    <2> QED BY <1>2, <2>1, <2>2 DEF SaveStep, SaveEnd, Idle, SavePcs, TempWritten, TypeOK
  <1>3. CASE OrderPlaced
    BY <1>3 DEF OrderPlaced, Idle, TempWritten
  <1>4. CASE OrderLost
    BY <1>4 DEF OrderLost, Idle, TempWritten
  <1>5. CASE OrderRefused
    <2>1. ASSUME usage \in Usage
          PROVE  [usage EXCEPT !.count = IF @ = 0 THEN 0 ELSE @ - 1] \in Usage
      BY <2>1 DEF Usage
    <2> QED BY <1>5, <2>1 DEF OrderRefused, Idle, TempWritten, TypeOK
  <1>6. ASSUME NEW next \in Config, UpdateConfig(next) PROVE TaskShape'
    BY <1>6 DEF UpdateConfig, Idle, TempWritten
  <1>7. ASSUME NEW next \in Config, FailUpdateConfig(next) PROVE TaskShape'
    BY <1>7 DEF FailUpdateConfig
  <1>8. ASSUME NEW time \in Times, Tick(time) PROVE TaskShape'
    BY <1>8 DEF Tick
  <1>9. CASE Restart
    BY <1>9 DEF Restart, Idle, TempWritten
  <1>10. CASE UNCHANGED vars
    BY <1>10 DEF vars
  <1> QED BY <1>1, <1>2, <1>3, <1>4, <1>5, <1>6, <1>7, <1>8, <1>9, <1>10 DEF Next

\* A reservation that is given up, or whose order is sent, is charged to its key.
LEMMA ChargeExplains ==
  ASSUME IInv, NEW u \in Usage, Explained(u), task.pc # "idle", task'.pc = "idle",
         \/ slack' = Charge(slack, KeyOf(task.next)) /\ placed' = placed
         \/ placed' = Charge(placed, KeyOf(task.next)) /\ slack' = slack
  PROVE  Explained(u)'
  <1>1. KeyOf(task.next) \in Keys /\ KeyOf(u) \in Keys /\ u.count \in Nat
    BY KeyFacts DEF IInv, TaskShape
  <1>2. placed \in [Keys -> Nat] /\ slack \in [Keys -> Nat]
    BY DEF IInv, TypeOK
  <1> QED BY <1>1, <1>2, ChargeFacts DEF Explained, Reserved, KeyOf

LEMMA OvercountStep ==
  ASSUME IInv, TypeOK', TaskShape', [Next]_vars
  PROVE  Overcount'
  <1>a. /\ TypeOK /\ TaskShape /\ Overcount
        /\ placed \in [Keys -> Nat] /\ slack \in [Keys -> Nat]
        /\ \A slot \in ConfigSlots : Readable(files[slot]) => files[slot] \in Usage
    BY DEF IInv, TypeOK, Readable
  <1>1. CASE Reserve
    <2>1. CountIn(usage) # 0 => usage \in Usage /\ usage.count = CountIn(usage)
                                  /\ KeyOf(usage) = CurrentKey
      BY <1>a DEF CountIn, TypeOK
    <2>2. KeyOf(task'.next) = CurrentKey /\ task'.next.count = CountIn(usage) + 1
      BY <1>1 DEF Reserve, KeyOf, CurrentKey
    <2>3. Explained(task.next)'
      BY <1>1, <1>a, <2>1, <2>2, KeyFacts DEF Reserve, Overcount, Explained, Reserved, Idle
    <2>4. \A u \in Usage : Explained(u) => Explained(u)'
      BY <1>1, <1>a, KeyFacts DEF Reserve, Explained, Reserved, Idle, KeyOf
    <2> QED BY <1>1, <1>a, <2>3, <2>4 DEF Reserve, Overcount, Live, Idle, ConfigSlots, TypeOK
  <1>2. CASE SaveStep
    <2> PICK step \in UsageSteps(task.pc, files, task.next) :
          /\ files' = step[2]
          /\ IF step[1] \in SavePcs
             THEN task' = [task EXCEPT !.pc = step[1]] /\ UNCHANGED <<usage, slack>>
             ELSE SaveEnd(step[1] = "saved")
      BY <1>2 DEF SaveStep
    <2>1. /\ task.pc \in SavePcs /\ task.pc # "idle" /\ task.next \in Usage
          /\ task.op \in {"reserve", "release"} /\ UNCHANGED placed
      BY <1>2, <1>a DEF SaveStep, TaskShape, SavePcs
    <2>2. LiveFrom(step)
      BY <1>a, <2>1, UsageStepFacts DEF LiveFrom, TypeOK, TaskShape
    <2>3. Explained(task.next)
      BY <1>a, <2>1, KeyFacts DEF Overcount, Explained, Reserved
    <2>4. \A slot \in Live' : Readable(files'[slot]) =>
            files'[slot] \in Usage /\ Explained(files'[slot])
      BY <1>a, <2>1, <2>2, <2>3 DEF LiveFrom, Live, Overcount, ConfigSlots, Readable, SaveEnd, Idle, TypeOK
    <2>5. CASE step[1] \in SavePcs
      <3>1. \A u \in Usage : Explained(u) => Explained(u)'
        BY <1>2, <2>1, <2>5, <1>a DEF SaveStep, Explained, Reserved, TypeOK, SavePcs
      <3> QED BY <1>2, <2>1, <2>3, <2>4, <2>5, <3>1, <1>a DEF SaveStep, Overcount, TypeOK
    <2>6. CASE step[1] = "saved"
      <3>1. /\ usage' = task.next
            /\ \A slot \in Live' : Readable(files'[slot]) => files'[slot] = task.next
        BY <1>2, <2>1, <2>2, <2>6, <1>a
        DEF SaveStep, SaveEnd, LiveFrom, Live, Readable, SavePcs, Idle, TypeOK
      <3>2. CASE task.op = "reserve"
        <4>1. task' = [task EXCEPT !.pc = "dispatch"] /\ UNCHANGED slack
          BY <1>2, <2>6, <3>2 DEF SaveStep, SaveEnd, SavePcs
        <4>2. \A u \in Usage : Explained(u) => Explained(u)'
          BY <2>1, <4>1, <1>a DEF Explained, Reserved, TypeOK
        <4>3. task'.next = task.next /\ task'.op = "reserve"
          BY <3>2, <4>1, <1>a DEF TypeOK
        <4> QED BY <2>1, <2>3, <3>1, <4>2, <4>3 DEF Overcount
      <3>3. CASE task.op = "release"
        <4>1. task' = Idle /\ UNCHANGED slack
          BY <1>2, <2>6, <3>3 DEF SaveStep, SaveEnd, SavePcs
        <4>2. \A u \in Usage : u = task.next => Explained(u)'
          BY <2>1, <3>3, <4>1, <1>a, KeyFacts DEF Explained, Reserved, Idle, Overcount
        <4> QED BY <2>1, <3>1, <4>1, <4>2 DEF Overcount, Idle
      <3> QED BY <2>1, <3>2, <3>3
    <2>7. CASE step[1] = "failed"
      <3>1. \A u \in Usage : Explained(u) => Explained(u)'
        BY <1>2, <2>1, <2>7, ChargeExplains DEF SaveStep, SaveEnd, Idle, SavePcs
      <3> QED BY <1>2, <2>1, <2>4, <2>7, <3>1, <1>a
              DEF SaveStep, SaveEnd, Overcount, Idle, SavePcs, TypeOK
    <2> QED BY <2>2, <2>5, <2>6, <2>7 DEF LiveFrom
  <1>3. CASE OrderPlaced
    BY <1>3, <1>a, ChargeExplains DEF OrderPlaced, Idle, Overcount, Live, ConfigSlots, TypeOK, IInv
  <1>4. CASE OrderLost
    BY <1>4, <1>a, ChargeExplains DEF OrderLost, Idle, Overcount, Live, ConfigSlots, TypeOK, IInv
  <1>5. CASE OrderRefused
    <2>0. usage \in Usage /\ usage = task.next /\ usage # Absent /\ task.pc = "dispatch"
      BY <1>5, <1>a, KeyFacts DEF OrderRefused, TaskShape
    <2>1. /\ task'.pc = "open_temp" /\ task'.op = "release"
          /\ KeyOf(task'.next) = KeyOf(usage)
          /\ task'.next.count = IF usage.count = 0 THEN 0 ELSE usage.count - 1
      BY <1>5, <2>0 DEF OrderRefused, KeyOf, Usage
    <2>2. \A u \in Usage : Explained(u) => Explained(u)'
      BY <1>5, <1>a, <2>0, <2>1 DEF OrderRefused, Explained, Reserved
    <2>3. Explained(usage)
      BY <1>a, <2>0 DEF Overcount
    <2>4. task'.next.count <= placed[KeyOf(task'.next)] + slack[KeyOf(task'.next)]
      BY <1>a, <2>0, <2>1, <2>3, KeyFacts DEF Explained, Reserved
    <2> QED BY <1>5, <1>a, <2>0, <2>1, <2>2, <2>4 DEF OrderRefused, Overcount, Live, ConfigSlots
  <1>6. ASSUME NEW next \in Config, UpdateConfig(next) PROVE Overcount'
    BY <1>6, <1>a DEF UpdateConfig, ForgetLedger, LoadLedger, LoadUsage, Readable, Overcount, Live,
         Explained, Reserved, Idle, KeyOf
  <1>7. ASSUME NEW next \in Config, FailUpdateConfig(next) PROVE Overcount'
    BY <1>7, <1>a DEF FailUpdateConfig, Overcount, Live, Explained, Reserved
  <1>8. ASSUME NEW time \in Times, Tick(time) PROVE Overcount'
    BY <1>8, <1>a DEF Tick, Overcount, Live, Explained, Reserved
  <1>9. CASE Restart
    <2>1. \A u \in Usage : Explained(u) => Explained(u)'
      BY <1>9, <1>a, ChargeExplains DEF Restart, Explained, Reserved, Idle, KeyOf, TaskShape, IInv
    <2> QED BY <1>9, <1>a, <2>1 DEF Restart, ForgetLedger, LoadLedger, LoadUsage, Readable, Overcount,
              Live, Idle, ConfigSlots
  <1>10. CASE UNCHANGED vars
    BY <1>10, <1>a DEF vars, Overcount, Live, Explained, Reserved
  <1> QED BY <1>1, <1>2, <1>3, <1>4, <1>5, <1>6, <1>7, <1>8, <1>9, <1>10 DEF Next

LEMMA IInvStep == IInv /\ [Next]_vars => IInv'
  BY TypeStep, ShapeStep, OvercountStep DEF IInv

-----------------------------------------------------------------------------
(***************************************************************************)
(* QInv: with one timezone the ledger never counts too little.             *)
(***************************************************************************)

\* While no order is sent, what covers the orders of the day still covers
\* them later, on the same day or on the next.
LEMMA CoversFrame ==
  ASSUME OneZone, TypeOK, TypeOK', NotAhead, now <= now', placed' = placed
  PROVE  /\ \A u \in Usage \cup {Absent} : Covers(u) => Covers(u)'
         /\ placed[CurrentKey] = 0 => placed'[CurrentKey'] = 0
  <1>1. cfg'.zone = cfg.zone /\ cfg.zone \in Zones /\ now \in Times /\ now' \in Times
    BY DEF OneZone, TypeOK, Config
  <1>2. CurrentKey' \in Keys /\ placed \in [Keys -> Nat]
    BY <1>1, DayFacts DEF CurrentKey, Keys, TypeOK
  <1>3. CASE CurrentKey' = CurrentKey
    BY <1>3 DEF Covers, CountIn
  <1>4. CASE CurrentKey' # CurrentKey
    <2>1. TradingDay(now, cfg.zone) <= TradingDay(now', cfg.zone)
      BY <1>1, DayFacts
    <2>2. TradingDay(now, cfg.zone) # TradingDay(now', cfg.zone)
      BY <1>1, <1>4 DEF CurrentKey
    <2>3. TradingDay(now, cfg.zone) \in Nat /\ TradingDay(now', cfg.zone) \in Nat
      BY <1>1, DayFacts
    <2>4. CurrentKey'.day > TradingDay(now, CurrentKey'.zone)
      BY <1>1, <2>1, <2>2, <2>3 DEF CurrentKey
    <2>5. placed[CurrentKey'] = 0
      BY <1>2, <2>4 DEF NotAhead
    <2>6. \A u \in Usage \cup {Absent} : (CountIn(u))' \in Nat
      BY LedgerAssumption DEF CountIn, Usage
    <2> QED BY <2>5, <2>6 DEF Covers
  <1> QED BY <1>3, <1>4

\* What the next start would read counts the orders of the day.
LEMMA LoadedCovers ==
  ASSUME TypeOK, Counted, LoadUsage(files) # Damaged
  PROVE  LoadUsage(files) \in Usage \cup {Absent} /\ Covers(LoadUsage(files))
  <1>1. LoadUsage(files) # Absent => LoadUsage(files) \in Usage /\ Covers(LoadUsage(files))
    BY DEF TypeOK, LoadUsage, Counted, Live, Readable, ConfigSlots
  <1>2. LoadUsage(files) = Absent => Covers(LoadUsage(files))
    BY KeyFacts DEF Counted, Covers, CountIn
  <1> QED BY <1>1, <1>2

LEMMA ClockForward ==
  ASSUME TypeOK, [Next]_vars
  PROVE  /\ now <= now'
         /\ ~OrderPlaced => placed' = placed
  BY ZoneAssumption DEF TypeOK, Next, vars, Reserve, SaveStep, OrderPlaced, OrderLost, OrderRefused,
     UpdateConfig, FailUpdateConfig, Tick, Restart

LEMMA NotAheadStep ==
  ASSUME IInv, IInv', NotAhead, [Next]_vars
  PROVE  NotAhead'
  <1>a. /\ placed \in [Keys -> Nat] /\ now \in Times /\ now' \in Times
        /\ \A key \in Keys : key.zone \in Zones /\ key.day \in Nat
        /\ task.pc # "idle" => task.next \in Usage
        /\ task'.pc # "idle" => task'.next \in Usage
    <2>1. Days \subseteq Nat
      BY DayFacts DEF Days
    <2> QED BY <2>1 DEF IInv, TypeOK, TaskShape, Keys
  <1>b. \A zone \in Zones : /\ TradingDay(now, zone) \in Nat /\ TradingDay(now', zone) \in Nat
                             /\ TradingDay(now, zone) <= TradingDay(now', zone)
    BY <1>a, ClockForward, DayFacts DEF IInv
  <1>c. \A u \in Usage : u.zone \in Zones /\ u.day \in Nat /\ KeyOf(u) \in Keys
    BY KeyFacts DEF IInv
  <1>1. \A key \in Keys : key.day > TradingDay(now', key.zone) => placed'[key] = 0
    <2>1. CASE OrderPlaced
      <3>1. \A key \in Keys : key.day > TradingDay(now, key.zone) => key # KeyOf(task.next)
        BY <1>a, <1>b, <1>c, <2>1 DEF OrderPlaced, NotAhead, KeyOf
      <3> QED BY <1>a, <1>b, <1>c, <2>1, <3>1, ChargeFacts DEF OrderPlaced, NotAhead
    <2>2. CASE ~OrderPlaced
      BY <1>a, <1>b, <2>2, ClockForward DEF NotAhead, IInv
    <2> QED BY <2>1, <2>2
  <1>2. task'.pc # "idle" => task'.next.day <= TradingDay(now, task'.next.zone)
    <2>1. CASE Reserve
      BY <2>1, <1>b, KeyFacts DEF Reserve, CurrentKey, IInv, TypeOK, Config
    <2>2. CASE OrderRefused
      BY <2>2, <1>a, <1>c DEF OrderRefused, NotAhead, IInv, TaskShape, Idle, KeyOf, Usage
    <2>3. CASE ~Reserve /\ ~OrderRefused
      <3>1. task'.pc # "idle" => task.pc # "idle" /\ task'.next = task.next
        BY <2>3 DEF Next, vars, SaveStep, SaveEnd, SavePcs, OrderPlaced, OrderLost, UpdateConfig,
           FailUpdateConfig, Tick, Restart, Idle, IInv, TypeOK
      <3> QED BY <3>1 DEF NotAhead
    <2> QED BY <2>1, <2>2, <2>3
  <1> QED BY <1>a, <1>b, <1>c, <1>1, <1>2 DEF NotAhead

LEMMA CountedStep ==
  ASSUME OneZone, IInv, IInv', NotAhead, Counted, [Next]_vars
  PROVE  Counted'
  <1>a. /\ TypeOK /\ TypeOK' /\ TaskShape /\ placed \in [Keys -> Nat] /\ CurrentKey \in Keys
        /\ usage \in Usage \cup {Absent}
        /\ \A slot \in ConfigSlots : Readable(files[slot]) => files[slot] \in Usage
        /\ \A u \in Usage : KeyOf(u) \in Keys /\ u.count \in Nat /\ u # Absent /\ u # Damaged
        /\ \A u \in Usage \cup {Absent} : CountIn(u) \in Nat
    BY KeyFacts DEF IInv, TypeOK, Readable
  <1>b. ~OrderPlaced => /\ \A u \in Usage \cup {Absent} : Covers(u) => Covers(u)'
                        /\ placed[CurrentKey] = 0 => placed'[CurrentKey'] = 0
                        /\ placed' = placed
    BY <1>a, ClockForward, CoversFrame
  <1>1. CASE Reserve
    <2>1. /\ task'.next = [zone |-> CurrentKey.zone, day |-> CurrentKey.day, count |-> CountIn(usage) + 1]
          /\ task'.op = "reserve" /\ task'.pc = "open_temp" /\ task = Idle
          /\ cfg.enabled /\ ~loadError /\ CountIn(usage) < cfg.max
          /\ UNCHANGED <<files, usage, loadError, cfg, now, placed>>
      BY <1>1 DEF Reserve
    <2>2. Covers(usage)
      BY <2>1 DEF Counted
    <2>3. KeyOf(task'.next) = CurrentKey /\ task'.next \in Usage /\ CurrentKey' = CurrentKey
      BY <1>a, <2>1 DEF KeyOf, CurrentKey, Keys, Usage
    <2>4. (CountIn(task.next))' = CountIn(usage) + 1
      BY <1>a, <2>1, <2>3 DEF CountIn
    <2>5. cfg.max \in Nat
      BY <1>a, LimitAssumption DEF TypeOK, Config
    <2> QED BY <1>a, <1>b, <2>1, <2>2, <2>3, <2>4, <2>5
            DEF Counted, Covers, CountIn, Live, Idle, ConfigSlots
  <1>2. CASE SaveStep
    <2> PICK step \in UsageSteps(task.pc, files, task.next) :
          /\ files' = step[2]
          /\ IF step[1] \in SavePcs
             THEN task' = [task EXCEPT !.pc = step[1]] /\ UNCHANGED <<usage, slack>>
             ELSE SaveEnd(step[1] = "saved")
      BY <1>2 DEF SaveStep
    <2>1. /\ task.pc \in SavePcs /\ task.pc # "idle" /\ task.next \in Usage
          /\ task.op \in {"reserve", "release"} /\ UNCHANGED <<placed, cfg, loadError, now>>
      BY <1>2, <1>a DEF SaveStep, TaskShape, SavePcs
    <2>2. LiveFrom(step)
      BY <1>a, <2>1, UsageStepFacts DEF LiveFrom, TypeOK, TaskShape
    <2>3. Covers(task.next)
      BY <2>1 DEF Counted
    <2>4. \A u \in Usage \cup {Absent} : Covers(u) => Covers(u)'
      BY <2>1 DEF Covers, CountIn, CurrentKey
    <2>5. \A slot \in Live' : Readable(files'[slot]) => Covers(files'[slot]) /\ files'[slot] \in Usage
      BY <1>a, <2>1, <2>2, <2>3 DEF LiveFrom, Live, Counted, ConfigSlots, Readable, SaveEnd, Idle, TypeOK
    <2>6. LoadUsage(files') = Absent => placed'[CurrentKey'] = 0
      BY <2>1, <2>2 DEF LiveFrom, Counted, CurrentKey
    <2>7. usage' \in {usage, task.next} /\ (task' = Idle \/ (task'.next = task.next /\ task'.op = task.op))
      BY <1>a, <2>1 DEF SaveEnd, TypeOK
    <2> QED BY <1>a, <2>1, <2>3, <2>4, <2>5, <2>6, <2>7 DEF Counted, Idle
  <1>3. CASE OrderPlaced
    <2>1. /\ task.next \in Usage /\ usage = task.next /\ task.op = "reserve"
          /\ files["main"] = task.next /\ files["tmp"] = Absent /\ task' = Idle
          /\ placed' = Charge(placed, KeyOf(task.next))
          /\ UNCHANGED <<files, usage, loadError, cfg, now>>
      BY <1>3, <1>a DEF OrderPlaced, TaskShape
    <2>2. placed[KeyOf(task.next)] < task.next.count /\ Covers(task.next)
      BY <1>3, <2>1 DEF Counted, OrderPlaced
    <2>3. CountIn(task.next) >= placed'[CurrentKey]
      BY <1>a, <2>1, <2>2, ChargeFacts DEF Covers, CountIn
    <2>4. \A u \in Usage : u = task.next => Covers(u)'
      BY <2>1, <2>3 DEF Covers, CountIn, CurrentKey
    <2>5. LoadUsage(files') # Absent
      BY <1>a, <2>1 DEF LoadUsage
    <2> QED BY <1>a, <2>1, <2>4, <2>5 DEF Counted, Live, Idle, Readable
  <1>4. CASE OrderLost
    <2>1. task' = Idle /\ task.pc = "dispatch" /\ UNCHANGED <<files, usage, loadError, cfg, now, placed>>
      BY <1>4 DEF OrderLost
    <2> QED BY <2>1 DEF Counted, Live, Idle, Covers, CountIn, CurrentKey
  <1>5. CASE OrderRefused
    <2>0. usage \in Usage /\ usage = task.next /\ usage # Absent /\ task.pc = "dispatch"
      BY <1>5, <1>a DEF OrderRefused, TaskShape
    <2>1. /\ task'.pc = "open_temp" /\ task'.op = "release"
          /\ KeyOf(task'.next) = KeyOf(usage)
          /\ task'.next.count = IF usage.count = 0 THEN 0 ELSE usage.count - 1
          /\ UNCHANGED <<files, usage, loadError, cfg, now, placed>>
      BY <1>5, <2>0 DEF OrderRefused, KeyOf, Usage
    <2>2. task'.next \in Usage
      BY <2>1 DEF IInv, TaskShape
    <2>3. placed[KeyOf(usage)] < usage.count /\ Covers(usage)
      BY <2>0, <1>a DEF Counted, TaskShape
    <2>4. Covers(task.next)'
      BY <1>a, <2>0, <2>1, <2>2, <2>3 DEF Covers, CountIn, CurrentKey
    <2> QED BY <1>a, <2>0, <2>1, <2>4, <1>b, <1>5 DEF Counted, Live, ConfigSlots, OrderRefused, Covers, CountIn, CurrentKey
  <1>6. ASSUME NEW next \in Config, UpdateConfig(next) PROVE Counted'
    <2>1. ~OrderPlaced /\ task.pc = "idle" /\ UNCHANGED <<files, task>>
      BY <1>6 DEF UpdateConfig, OrderPlaced, Idle
    <2>2. cfg'.enabled /\ ~loadError' =>
             \/ usage' = usage /\ cfg.enabled /\ ~loadError
             \/ usage' = LoadUsage(files) /\ LoadUsage(files) # Damaged
      BY <1>6 DEF UpdateConfig, ForgetLedger, LoadLedger
    <2> QED BY <1>a, <1>b, <2>1, <2>2, LoadedCovers DEF Counted, Live, ConfigSlots, TaskShape, Idle
  <1>7. ASSUME NEW next \in Config, FailUpdateConfig(next) PROVE Counted'
    BY <1>7 DEF FailUpdateConfig, Counted, Live, Covers, CountIn, CurrentKey
  <1>8. ASSUME NEW time \in Times, Tick(time) PROVE Counted'
    <2>1. ~OrderPlaced /\ UNCHANGED <<files, usage, loadError, cfg, task, placed>>
      BY <1>8, <1>a, ZoneAssumption DEF Tick, OrderPlaced, TypeOK
    <2> QED BY <1>a, <1>b, <2>1 DEF Counted, Live, ConfigSlots, TaskShape
  <1>9. CASE Restart
    <2>1. task' = Idle /\ UNCHANGED <<files, placed>>
      BY <1>9 DEF Restart
    <2>2. cfg'.enabled /\ ~loadError' => usage' = LoadUsage(files) /\ LoadUsage(files) # Damaged
      BY <1>9 DEF Restart, ForgetLedger, LoadLedger
    <2>3. /\ \A u \in Usage \cup {Absent} : Covers(u) => Covers(u)'
          /\ placed[CurrentKey] = 0 => placed'[CurrentKey'] = 0
      BY <1>a, <2>1, ClockForward, CoversFrame
    <2> QED BY <1>a, <2>1, <2>2, <2>3, LoadedCovers DEF Counted, Live, ConfigSlots, Idle
  <1>10. CASE UNCHANGED vars
    BY <1>10 DEF vars, Counted, Live, Covers, CountIn, CurrentKey
  <1> QED BY <1>1, <1>2, <1>3, <1>4, <1>5, <1>6, <1>7, <1>8, <1>9, <1>10 DEF Next

-----------------------------------------------------------------------------
(***************************************************************************)
(* What services/risk.rs promises.                                         *)
(***************************************************************************)

\* Every variable stays within its type, for any timezones, limits and instants.
THEOREM TypeCorrect == Spec => []TypeOK
  <1>1. IInv => TypeOK
    BY DEF IInv
  <1> QED BY <1>1, InitIInv, IInvStep, PTL DEF Spec

\* The quota of a day is never lost but to outcomes that are unknown and to
\* saves that failed or were cut short, for any timezones (release_reservation,
\* is_certain_submission_failure).
THEOREM OvercountCorrect == Spec => []OvercountExplained
  <1>1. IInv => OvercountExplained
    <2> SUFFICES ASSUME IInv, task = Idle, usage # Absent
                 PROVE  usage.count <= placed[KeyOf(usage)] + slack[KeyOf(usage)]
      BY DEF OvercountExplained
    <2>1. usage \in Usage /\ Explained(usage) /\ placed \in [Keys -> Nat] /\ slack \in [Keys -> Nat]
      BY DEF IInv, TypeOK, Overcount
    <2> QED BY <2>1, KeyFacts DEF Explained, Reserved, Idle, IInv
  <1> QED BY <1>1, InitIInv, IInvStep, PTL DEF Spec

LEMMA InitQInv == Init => QInv
  <1> SUFFICES ASSUME Init PROVE QInv
    OBVIOUS
  <1>1. IInv
    BY InitIInv
  <1>2. CurrentKey \in Keys
    BY <1>1, KeyFacts DEF IInv
  <1>3. NotAhead
    BY DEF Init, NotAhead, Idle
  <1>4. Counted
    BY <1>2 DEF Init, Counted, Covers, CountIn, Live, Idle, NoFile, Readable, ConfigSlots
  <1> QED BY <1>1, <1>3, <1>4 DEF QInv

LEMMA QInvStep ==
  ASSUME OneZone
  PROVE  QInv /\ [Next]_vars => QInv'
  BY IInvStep, NotAheadStep, CountedStep DEF QInv

\* The orders sent on a trading day stay counted in memory, over failing saves,
\* restarts and switching the control off and on, as long as the timezone stays
\* (RiskService::reserve_order, load_usage).
THEOREM CountCorrect == OneZone => (Spec => []OrdersStayCounted)
  <1> SUFFICES ASSUME OneZone PROVE Spec => []OrdersStayCounted
    OBVIOUS
  <1>1. QInv => OrdersStayCounted
    BY DEF QInv, Counted, Covers, OrdersStayCounted
  <1> QED BY <1>1, InitQInv, QInvStep, PTL DEF Spec

\* The ledger file never counts less than the orders sent that day, at any step
\* of a save, or it is refused (RiskUsageStore::save and load).
THEOREM RestartCorrect == OneZone => (Spec => []RestartKeepsCount)
  <1> SUFFICES ASSUME OneZone PROVE Spec => []RestartKeepsCount
    OBVIOUS
  <1>1. QInv => RestartKeepsCount
    BY LoadedCovers DEF QInv, IInv, Covers, RestartKeepsCount
  <1> QED BY <1>1, InitQInv, QInvStep, PTL DEF Spec

\* No order leaves beyond the limit in force for its trading day
\* (RiskService::reserve_order).
THEOREM QuotaCorrect == OneZone => (Spec => QuotaHeld)
  <1> SUFFICES ASSUME OneZone PROVE Spec => QuotaHeld
    OBVIOUS
  <1> DEFINE Within == \A key \in Keys : placed'[key] > placed[key] => placed'[key] <= cfg.max
  <1>1. QInv /\ [Next]_vars => [Within]_vars
    <2> SUFFICES ASSUME QInv, Next PROVE Within
      OBVIOUS
    <2>1. placed \in [Keys -> Nat] /\ cfg.max \in Nat
      BY LimitAssumption DEF QInv, IInv, TypeOK, Config
    <2>2. CASE OrderPlaced
      <3>1. /\ task.next \in Usage /\ KeyOf(task.next) \in Keys /\ task.next.count \in Nat
            /\ placed[KeyOf(task.next)] < task.next.count /\ task.next.count <= cfg.max
        BY <2>2, KeyFacts DEF OrderPlaced, QInv, IInv, TaskShape, Counted
      <3> QED BY <2>1, <2>2, <3>1, ChargeFacts DEF OrderPlaced
    <2>3. CASE ~OrderPlaced
      BY <2>1, <2>3, ClockForward DEF QInv, IInv
    <2> QED BY <2>2, <2>3
  <1> QED BY <1>1, InitQInv, QInvStep, PTL DEF Spec, QuotaHeld
=============================================================================
