------------------------------ MODULE OrderStream ------------------------------
(***************************************************************************)
(* ws/manager.rs and OrderNotificationObserver of services/trading.rs: live *)
(* order messages of the private stream and order lists of REST calls reach *)
(* the notification center through one gate.  Until the first list of a     *)
(* session has been applied, live messages wait in the gate's buffer.        *)
(*                                                                         *)
(* The gate's mutex is held over a whole replay, and a list is fetched and   *)
(* applied under the account read guard, which a change of session excludes. *)
(* A notification center (an order is "open" or "final") stands for          *)
(* observe_order of NotificationCenter.                                      *)
(***************************************************************************)
EXTENDS Integers, Sequences

CONSTANTS
    Orders,
    MaxEpoch,   \* bound: sessions
    MaxStarts,  \* bound: restarts of the stream within a session
    MaxFails    \* bound: saves of the notification file that fail

ASSUME StreamAssumption == MaxEpoch \in Nat \ {0} /\ MaxStarts \in Nat /\ MaxFails \in Nat

VARIABLES
    streamEpoch, \* AccountLifecycleCoordinator.current_session_epoch
    start,      \* WsManager::start: where a start of the stream stands
    link,       \* the private session: off, dialling or up
    wire,       \* live messages sent and not yet handled
    gate,       \* OrderObservationBuffer
    seeded,     \* order_snapshot_seeded
    fresh,      \* an order message came since the stream connected
    exchange,   \* the orders as the exchange has them
    seed,       \* the scheduler's first list
    replay,     \* what is left of it and of the messages held back to apply
    manual,     \* a list the user or the chart asked for
    track,      \* what the notification center knows of an order
    notices,    \* history: notices of an order
    live,       \* history: what came live of an order since the stream started
    excused,    \* history: orders a list showed final first, or whose save failed
    starts,     \* restarts of the stream
    fails       \* failed saves

gates == <<gate, seeded>>
known == <<track, notices, excused, fails>>
streamVars == <<streamEpoch, start, link, wire, gates, fresh, exchange, seed, replay, manual,
                known, live, starts>>

NoList == [step |-> "idle", ctx |-> 0, list |-> {}]
NoReplay == [base |-> {}, queue |-> <<>>, late |-> {}]

(* An order as an item of a message or a list.                              *)
Seen(o, st, origin) == [o |-> o, st |-> st, origin |-> origin]

OpenGate(ctx) == [ctx |-> ctx, seeded |-> FALSE, pending |-> <<>>]

(* The live messages held back show the order open and then final.          *)
LivePair(pending, o) ==
    \E i, j \in 1..Len(pending) :
        i < j /\ pending[i].o = o /\ pending[j].o = o
        /\ pending[i].st = "open" /\ pending[j].st = "final"

\* Mutant: every order of the list is applied before the live messages.
Plan_ListFirst(list, pending) == [base |-> list, queue |-> pending, late |-> {}]

(* seed_snapshot_then_replay: the list, the live messages, and last what of *)
(* the list the live messages already led up to.                             *)
Plan(list, pending) ==
    [base  |-> {s \in list : ~LivePair(pending, s.o)},
     queue |-> pending,
     late  |-> {s \in list : LivePair(pending, s.o)}]

(* What may be applied next, and what is left then.                         *)
Upcoming(p) ==
    IF p.base # {} THEN p.base ELSE IF p.queue # <<>> THEN {Head(p.queue)} ELSE p.late

Without(p, s) ==
    IF p.base # {} THEN [p EXCEPT !.base = @ \ {s}]
    ELSE IF p.queue # <<>> THEN [p EXCEPT !.queue = Tail(@)]
    ELSE [p EXCEPT !.late = @ \ {s}]

(* observe_order: a final state follows an open one live to be announced.   *)
Announces(t, s) == s.st = "final" /\ ~t.notified /\ s.origin = "live" /\ t.st = "open"

Noted(t, s) ==
    IF t.st = "final" /\ s.st # "final" THEN t
    ELSE [st |-> s.st, notified |-> t.notified \/ Announces(t, s)]

(* An item is applied; ok is whether the file could be saved.               *)
Apply(s, ok) ==
    IF Announces(track[s.o], s) /\ ~ok
    THEN /\ fails' = fails + 1 /\ fails < MaxFails
         /\ UNCHANGED <<track, notices>>
    ELSE /\ track' = [track EXCEPT ![s.o] = Noted(@, s)]
         /\ notices' = [notices EXCEPT ![s.o] = @ + IF Announces(track[s.o], s) THEN 1 ELSE 0]
         /\ UNCHANGED fails

(* The list shows an order final that was not known to be.                  *)
Forestalls(s) == s.origin = "list" /\ s.st = "final" /\ track[s.o].st # "final"

(* The orders as a REST list of this moment.                                *)
Listed == {Seen(o, exchange[o], "list") : o \in {x \in Orders : exchange[x] # "none"}}
-----------------------------------------------------------------------------
(* The exchange: an order is placed, then ends; it tells a subscriber.      *)
Trade(o) ==
    /\ exchange[o] # "final"
    /\ exchange' = [exchange EXCEPT ![o] = IF @ = "none" THEN "open" ELSE "final"]
    /\ wire' = IF link = "up" THEN Append(wire, Seen(o, exchange'[o], "live")) ELSE wire
    /\ UNCHANGED <<streamEpoch, start, link, gates, fresh, seed, replay, manual, known, live, starts>>

(* run_private_loop: connect, authenticate, subscribe; or fail and retry.   *)
Dial ==
    /\ start = "running" /\ link = "off"
    /\ link' = "dial"
    /\ UNCHANGED <<streamEpoch, start, wire, gates, fresh, exchange, seed, replay, manual, known, live, starts>>

DialFails ==
    /\ link = "dial"
    /\ link' = "off"
    /\ UNCHANGED <<streamEpoch, start, wire, gates, fresh, exchange, seed, replay, manual, known, live, starts>>

Authenticate ==
    /\ link = "dial"
    /\ link' = "up"
    /\ UNCHANGED <<streamEpoch, start, wire, gates, fresh, exchange, seed, replay, manual, known, live, starts>>

(* The session ends: what was under way is lost, freshness is reset.        *)
Break ==
    /\ link = "up"
    /\ link' = "off"
    /\ wire' = <<>>
    /\ fresh' = FALSE
    /\ UNCHANGED <<streamEpoch, start, gates, exchange, seed, replay, manual, known, live, starts>>

GateFree == seed.step # "replay"

(* handle_message and observe_private_orders: the message waits for the     *)
(* read guard and the gate; it is held back until the gate has its list.    *)
Receive ==
    /\ link = "up" /\ wire # <<>> /\ GateFree /\ start = "running"
    /\ LET s == Head(wire)
       IN  /\ wire' = Tail(wire)
           /\ fresh' = TRUE
           /\ live' = [live EXCEPT ![s.o] = IF s.st = "open" THEN "open"
                                            ELSE IF @ = "open" THEN "pair" ELSE @]
           /\ \/ /\ gate.ctx = streamEpoch /\ ~gate.seeded
                 /\ gate' = [gate EXCEPT !.pending = Append(@, s)]
                 /\ UNCHANGED known
              \/ /\ gate.ctx = streamEpoch /\ gate.seeded
                 /\ \E ok \in BOOLEAN :
                      /\ ok \/ Announces(track[s.o], s)
                      /\ Apply(s, ok)
                      /\ excused' = IF ok THEN excused ELSE excused \cup {s.o}
                 /\ UNCHANGED gate
    /\ UNCHANGED <<streamEpoch, start, link, seeded, exchange, seed, replay, manual, starts>>

(* The scheduler fetches the first list under the read guard,                *)
FetchSeed ==
    /\ seed.step = "idle" /\ start = "running" /\ ~gate.seeded
    /\ seed' = [step |-> "fetched", ctx |-> streamEpoch, list |-> Listed]
    /\ UNCHANGED <<streamEpoch, start, link, wire, gates, fresh, exchange, replay, manual, known, live, starts>>

(* then seed_order_gate takes the gate and what it holds back.              *)
BeginSeed ==
    /\ seed.step = "fetched"
    /\ IF gate.ctx # seed.ctx \/ gate.seeded
       THEN seed' = NoList /\ UNCHANGED replay
       ELSE /\ seed' = [seed EXCEPT !.step = "replay"]
            /\ replay' = Plan(seed.list, gate.pending)
    /\ UNCHANGED <<streamEpoch, start, link, wire, gates, fresh, exchange, manual, known, live, starts>>

(* An item of the replay.  One whose notice cannot be saved ends the        *)
(* attempt; what the gate holds back is kept for the next.                  *)
ReplayItem ==
    /\ seed.step = "replay"
    /\ \E s \in Upcoming(replay), ok \in BOOLEAN :
         /\ ok \/ Announces(track[s.o], s)
         /\ Apply(s, ok)
         /\ excused' = IF Forestalls(s) /\ ~LivePair(gate.pending, s.o)
                       THEN excused \cup {s.o} ELSE excused
         /\ seed' = IF ok THEN seed ELSE NoList
         /\ replay' = IF ok THEN Without(replay, s) ELSE NoReplay
    /\ UNCHANGED <<streamEpoch, start, link, wire, gates, fresh, exchange, manual, live, starts>>

(* finish_seed.                                                             *)
FinishSeed ==
    /\ seed.step = "replay" /\ replay = NoReplay
    /\ gate' = [gate EXCEPT !.seeded = TRUE, !.pending = <<>>]
    /\ seeded' = TRUE
    /\ seed' = NoList
    /\ UNCHANGED <<streamEpoch, start, link, wire, fresh, exchange, replay, manual, known, live, starts>>

(* A list the user asked for, fetched under the read guard and applied when *)
(* the gate has had its first one (observe_manual_order_snapshots).         *)
FetchManual ==
    /\ manual.step = "idle" /\ start = "running"
    /\ manual' = [step |-> "fetched", ctx |-> streamEpoch, list |-> Listed]
    /\ UNCHANGED <<streamEpoch, start, link, wire, gates, fresh, exchange, seed, replay, known, live, starts>>

ObserveManual ==
    /\ manual.step = "fetched" /\ GateFree
    /\ IF gate.ctx = manual.ctx /\ gate.seeded
       THEN LET listed(o) == {s \in manual.list : s.o = o}
            IN  /\ track' = [o \in Orders |-> IF listed(o) = {} THEN track[o]
                                              ELSE Noted(track[o], CHOOSE s \in listed(o) : TRUE)]
                /\ excused' = excused \cup {o \in Orders : \E s \in listed(o) : Forestalls(s)}
                /\ UNCHANGED <<notices, fails>>
       ELSE UNCHANGED known
    /\ manual' = NoList
    /\ UNCHANGED <<streamEpoch, start, link, wire, gates, fresh, exchange, seed, replay, live, starts>>

NoReader == seed.step = "idle" /\ manual.step = "idle"

(* WsManager::start, by a new session or a new subscription, under the      *)
(* account write guard.  stop ends the tasks and waits for them,             *)
StopStream(next) ==
    /\ start = "running" /\ NoReader
    /\ starts < MaxStarts \/ next # streamEpoch
    /\ start' = "stopped"
    /\ streamEpoch' = next
    /\ starts' = IF next = streamEpoch THEN starts + 1 ELSE starts
    /\ link' = "off" /\ wire' = <<>> /\ fresh' = FALSE
    /\ UNCHANGED <<gates, exchange, seed, replay, manual, known, live>>

(* then the gate is reset,                                                   *)
ResetGate ==
    /\ start = "stopped"
    /\ start' = "reset"
    /\ gate' = OpenGate(streamEpoch)
    /\ live' = [o \in Orders |-> "none"]
    /\ UNCHANGED <<streamEpoch, link, wire, seeded, fresh, exchange, seed, replay, manual, known, starts>>

(* then its flag, and the tasks run.                                         *)
RunStream ==
    /\ start = "reset"
    /\ start' = "running"
    /\ seeded' = FALSE
    /\ UNCHANGED <<streamEpoch, link, wire, gate, fresh, exchange, seed, replay, manual, known, live, starts>>
-----------------------------------------------------------------------------
StreamInit ==
    /\ streamEpoch = 1 /\ start = "stopped" /\ link = "off" /\ wire = <<>>
    /\ gate = OpenGate(0) /\ seeded = FALSE /\ fresh = FALSE
    /\ exchange = [o \in Orders |-> "none"]
    /\ seed = NoList /\ replay = NoReplay /\ manual = NoList
    /\ track = [o \in Orders |-> [st |-> "none", notified |-> FALSE]]
    /\ notices = [o \in Orders |-> 0]
    /\ live = [o \in Orders |-> "none"]
    /\ excused = {} /\ starts = 0 /\ fails = 0

StreamNext ==
    \/ \E o \in Orders : Trade(o)
    \/ Dial \/ DialFails \/ Authenticate \/ Break \/ Receive
    \/ FetchSeed \/ BeginSeed \/ ReplayItem \/ FinishSeed
    \/ FetchManual \/ ObserveManual
    \/ \E next \in streamEpoch..MaxEpoch : next \in {streamEpoch, streamEpoch + 1} /\ StopStream(next)
    \/ ResetGate \/ RunStream

StreamSpec == StreamInit /\ [][StreamNext]_streamVars
-----------------------------------------------------------------------------
(* is_private_panels_healthy: the scheduler then stops polling the lists.   *)
Healthy == seeded /\ link = "up" /\ fresh

Items(origins) == [o : Orders, st : {"open", "final"}, origin : origins]
Lists == [step : {"idle", "fetched", "replay"}, ctx : Nat, list : SUBSET Items({"list"})]

StreamTypeOK ==
    /\ streamEpoch \in 1..MaxEpoch
    /\ start \in {"running", "stopped", "reset"}
    /\ link \in {"off", "dial", "up"}
    /\ wire \in Seq(Items({"live"}))
    /\ gate \in [ctx : Nat, seeded : BOOLEAN, pending : Seq(Items({"live"}))]
    /\ seeded \in BOOLEAN /\ fresh \in BOOLEAN
    /\ exchange \in [Orders -> {"none", "open", "final"}]
    /\ seed \in Lists /\ manual \in Lists
    /\ replay \in [base : SUBSET Items({"list"}), queue : Seq(Items({"live"})),
                   late : SUBSET Items({"list"})]
    /\ track \in [Orders -> [st : {"none", "open", "final"}, notified : BOOLEAN]]
    /\ notices \in [Orders -> Nat]
    /\ live \in [Orders -> {"none", "open", "pair"}]
    /\ excused \subseteq Orders
    /\ starts \in 0..MaxStarts /\ fails \in 0..MaxFails

(* An order that came live open and then final is announced, whenever the   *)
(* list was fetched, unless a list had shown it final before the stream did. *)
PairsAnnounced ==
    gate.seeded /\ start = "running" =>
        \A o \in Orders : live[o] = "pair" => track[o].notified \/ o \in excused

(* An order is announced once, over reconnects and repeated replays.        *)
AnnouncedOnce == \A o \in Orders : notices[o] <= 1 /\ (track[o].notified <=> notices[o] = 1)

(* The lists are left to the stream only after this session's list.         *)
HealthyIsSeeded == Healthy => gate.seeded /\ gate.ctx = streamEpoch

(***************************************************************************)
(* An order that came live open and then final is announced, and once,      *)
(* whenever the list of orders was fetched and however often its replay was *)
(* repeated; the stream counts as healthy only after this session's list    *)
(* (OrderObservationBuffer, seed_snapshot_then_replay).                     *)
(***************************************************************************)
OrdersAnnounced == StreamTypeOK /\ PairsAnnounced /\ AnnouncedOnce /\ HealthyIsSeeded
=============================================================================
