------------------------------ MODULE RiskLedger ------------------------------
(***************************************************************************)
(* The daily order quota: services/risk.rs on top of the ledger file of    *)
(* storage/risk_usage.rs, as services/trading.rs and commands/risk.rs use  *)
(* them.                                                                   *)
(*                                                                         *)
(* Placing an order and changing the risk settings both hold the account   *)
(* lifecycle lock, so one `task' runs at a time; what interleaves with it  *)
(* is the clock, failing file-system calls, and the end of the process.    *)
(* An order that is blocked, is reduce-only or is placed while the risk    *)
(* control is off does not touch the ledger and is not an action.          *)
(***************************************************************************)
EXTENDS FileSlots, Naturals

CONSTANTS Zones,      \* configurable trading-day timezones
          Offset,     \* hours each of them is ahead of UTC
          Times,      \* instants (hours since the epoch) at which the clock is read
          Limits,     \* values of max_daily_orders
          MaxOrders   \* bound on the orders tried per trading day

\* services/time.rs trading_day_key, for zones without daylight saving.
TradingDay(time, zone) == (time + Offset[zone]) \div 24

Days   == {TradingDay(time, zone) : time \in Times, zone \in Zones}
Keys   == [zone : Zones, day : Days]
Usage  == [zone : Zones, day : Days, count : Nat]
Config == [enabled : BOOLEAN, max : Limits, zone : Zones]

ASSUME ZoneAssumption   == Offset \in [Zones -> Nat] /\ Times \subseteq Nat
ASSUME LimitAssumption  == Limits \subseteq Nat \ {0} /\ MaxOrders \in Nat
ASSUME LedgerAssumption == Absent \notin Usage \cup Keys /\ Damaged \notin Usage \cup {Absent}

VARIABLES files,      \* risk_usage.toml and its .tmp and .bak
          usage,      \* RiskUsageState.usage
          loadError,  \* RiskUsageState.load_error.is_some()
          cfg,        \* the risk settings in force
          diskCfg,    \* the risk settings the next start would load
          now,        \* the clock
          task,       \* the order being placed
          placed,     \* orders that may exist at the exchange, per reservation key
          slack       \* reservations kept although no order is known to exist

vars == <<files, usage, loadError, cfg, diskCfg, now, task, placed, slack>>

Idle == [op |-> "none", pc |-> "idle", next |-> Absent]

KeyOf(u) == [zone |-> u.zone, day |-> u.day]

CurrentKey == [zone |-> cfg.zone, day |-> TradingDay(now, cfg.zone)]

\* The orders a ledger holds against the current quota.
CountIn(u) == IF u # Absent /\ KeyOf(u) = CurrentKey THEN u.count ELSE 0

TypeOK ==
  /\ files \in [ConfigSlots -> Usage \cup {Absent, Damaged}]
  /\ usage \in Usage \cup {Absent}
  /\ loadError \in BOOLEAN
  /\ cfg \in Config /\ diskCfg \in Config
  /\ now \in Times
  /\ task \in [op : {"none", "reserve", "release"}, pc : {"idle", "dispatch"} \cup SavePcs,
               next : Usage \cup {Absent}]
  /\ placed \in [Keys -> Nat] /\ slack \in [Keys -> Nat]

Init ==
  /\ files = NoFile
  /\ usage = Absent /\ loadError = FALSE
  /\ cfg \in {c \in Config : c.enabled} /\ diskCfg = cfg
  /\ now \in {t \in Times : \A u \in Times : t <= u}
  /\ task = Idle
  /\ placed = [key \in Keys |-> 0] /\ slack = [key \in Keys |-> 0]

Charge(ledger, key) == [ledger EXCEPT ![key] = @ + 1]

-----------------------------------------------------------------------------
(***************************************************************************)
(* reserve_order, the submission, and release_reservation.                 *)
(***************************************************************************)
Reserve ==
  /\ task = Idle
  /\ cfg.enabled /\ ~loadError
  /\ CountIn(usage) < cfg.max
  /\ placed[CurrentKey] + slack[CurrentKey] < MaxOrders
  /\ task' = [op |-> "reserve", pc |-> "open_temp",
              next |-> [zone |-> CurrentKey.zone, day |-> CurrentKey.day,
                        count |-> CountIn(usage) + 1]]
  /\ UNCHANGED <<files, usage, loadError, cfg, diskCfg, now, placed, slack>>

\* Mutant of SaveEnd: the reservation stands although it could not be saved.
SaveEnd_IgnoresError(saved) ==
  /\ usage' = task.next
  /\ task' = IF task.op = "reserve" THEN [task EXCEPT !.pc = "dispatch"] ELSE Idle
  /\ UNCHANGED slack

\* Memory follows the file only when the save succeeded.  A reservation that
\* could not be saved blocks the order, one that could not be returned is kept.
SaveEnd(saved) ==
  IF saved
  THEN /\ usage' = task.next
       /\ task' = IF task.op = "reserve" THEN [task EXCEPT !.pc = "dispatch"] ELSE Idle
       /\ UNCHANGED slack
  ELSE /\ task' = Idle
       /\ slack' = Charge(slack, KeyOf(task.next))
       /\ UNCHANGED usage

SaveStep ==
  /\ task.pc \in SavePcs
  /\ \E step \in UsageSteps(task.pc, files, task.next) :
       /\ files' = step[2]
       /\ IF step[1] \in SavePcs
          THEN task' = [task EXCEPT !.pc = step[1]] /\ UNCHANGED <<usage, slack>>
          ELSE SaveEnd(step[1] = "saved")
  /\ UNCHANGED <<loadError, cfg, diskCfg, now, placed>>

\* The exchange accepted the order, or the outcome is unknown.
OrderPlaced ==
  /\ task.pc = "dispatch"
  /\ placed' = Charge(placed, KeyOf(task.next))
  /\ task' = Idle
  /\ UNCHANGED <<files, usage, loadError, cfg, diskCfg, now, slack>>

\* An unknown outcome of a request that in fact never arrived: the same
\* branch of the code, which keeps the reservation.
OrderLost ==
  /\ task.pc = "dispatch"
  /\ slack' = Charge(slack, KeyOf(task.next))
  /\ task' = Idle
  /\ UNCHANGED <<files, usage, loadError, cfg, diskCfg, now, placed>>

\* Mutant of OrderRefused: a refusal keeps its reservation.
OrderRefused_KeepsReservation ==
  /\ task.pc = "dispatch"
  /\ task' = Idle
  /\ UNCHANGED <<files, usage, loadError, cfg, diskCfg, now, placed, slack>>

\* Mutant of OrderRefused: the reservation is returned twice, by the failed
\* preparation and again by the failed submission.
OrderRefused_ReturnsTwice ==
  /\ task.pc = "dispatch"
  /\ task' = [op |-> "release", pc |-> "open_temp",
              next |-> [usage EXCEPT !.count = IF @ > 2 THEN @ - 2 ELSE 0]]
  /\ UNCHANGED <<files, usage, loadError, cfg, diskCfg, now, placed, slack>>

\* is_certain_submission_failure, a failed preparation or a revoked admission:
\* the reservation is returned to the ledger it was taken from, if it is still
\* the one in memory.
OrderRefused ==
  /\ task.pc = "dispatch"
  /\ task' = IF usage # Absent /\ KeyOf(usage) = KeyOf(task.next)
             THEN [op |-> "release", pc |-> "open_temp",
                   next |-> [usage EXCEPT !.count = IF @ = 0 THEN 0 ELSE @ - 1]]
             ELSE Idle
  /\ UNCHANGED <<files, usage, loadError, cfg, diskCfg, now, placed, slack>>

-----------------------------------------------------------------------------
(***************************************************************************)
(* Settings, the clock, and the end of the process.                        *)
(***************************************************************************)

\* Mutant of LoadLedger: a ledger that cannot be read is taken as it is.
LoadLedger_KeepsError ==
  /\ usage' = LoadUsage(files)
  /\ loadError' = FALSE

\* load_usage: (usage, load_error).
LoadLedger ==
  /\ usage' = IF LoadUsage(files) = Damaged THEN Absent ELSE LoadUsage(files)
  /\ loadError' = (LoadUsage(files) = Damaged)

ForgetLedger == usage' = Absent /\ loadError' = FALSE

\* Mutant of UpdateConfig: switching the risk control on starts a new ledger.
UpdateConfig_StartsFresh(next) ==
  /\ task = Idle
  /\ cfg' = next /\ diskCfg' = next
  /\ IF ~next.enabled \/ ~cfg.enabled THEN ForgetLedger ELSE UNCHANGED <<usage, loadError>>
  /\ UNCHANGED <<files, now, task, placed, slack>>

\* apply_risk_config_update: the settings are saved, then put into force.
UpdateConfig(next) ==
  /\ task = Idle
  /\ cfg' = next /\ diskCfg' = next
  /\ IF ~next.enabled THEN ForgetLedger
     ELSE IF ~cfg.enabled THEN LoadLedger
     ELSE UNCHANGED <<usage, loadError>>
  /\ UNCHANGED <<files, now, task, placed, slack>>

\* A failed save leaves the settings in force as they are; the next start may
\* find any of them (RecoverableDocument).
FailUpdateConfig(next) ==
  /\ task = Idle
  /\ diskCfg' \in {diskCfg, cfg, next}
  /\ UNCHANGED <<files, usage, loadError, cfg, now, task, placed, slack>>

Tick(time) ==
  /\ time > now
  /\ now' = time
  /\ UNCHANGED <<files, usage, loadError, cfg, diskCfg, task, placed, slack>>

\* RiskService::with_store at the next start.  A reservation under way stays
\* counted if its save got far enough.
Restart ==
  /\ task' = Idle
  /\ cfg' = diskCfg
  /\ IF diskCfg.enabled THEN LoadLedger ELSE ForgetLedger
  /\ slack' = IF task = Idle THEN slack ELSE Charge(slack, KeyOf(task.next))
  /\ UNCHANGED <<files, diskCfg, now, placed>>

Next ==
  \/ Reserve \/ SaveStep \/ OrderPlaced \/ OrderLost \/ OrderRefused
  \/ \E next \in Config : UpdateConfig(next) \/ FailUpdateConfig(next)
  \/ \E time \in Times : Tick(time)
  \/ Restart

Spec == Init /\ [][Next]_vars

-----------------------------------------------------------------------------
\* Every order sent on the current trading day is held against the quota of
\* that day, whatever failed in between: in memory while the process runs, ...
OrdersStayCounted ==
  cfg.enabled /\ ~loadError => CountIn(usage) >= placed[CurrentKey]

\* ... and in the ledger the next start would load, at every step of a save
\* that fails or is cut short: it counts them or it refuses to load.
RestartKeepsCount ==
  LoadUsage(files) # Damaged => CountIn(LoadUsage(files)) >= placed[CurrentKey]

\* No order leaves the client beyond the limit in force for its trading day,
\* restarts and switching the risk control off and on included.
QuotaHeld ==
  [][\A key \in Keys : placed'[key] > placed[key] => placed'[key] <= cfg.max]_vars

\* The quota is not lost either: what the ledger counts beyond the orders sent
\* are reservations whose outcome is unknown or could not be saved.  A refused
\* order gives its reservation back.
OvercountExplained ==
  task = Idle /\ usage # Absent => usage.count <= placed[KeyOf(usage)] + slack[KeyOf(usage)]
=============================================================================
