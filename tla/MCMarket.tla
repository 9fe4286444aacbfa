------------------------------- MODULE MCMarket -------------------------------
(***************************************************************************)
(* Market data and the streams, checked side by side: `part' picks the      *)
(* module, or the instance of it, that moves; the others stay in their      *)
(* initial state.                                                           *)
(***************************************************************************)
EXTENDS ApiSession, OrderStream, ChartScreen

VARIABLES part,
          series, disk, flush, batch, faults, damaged           \* CandleStore

storeVars == <<series, disk, flush, batch, faults, damaged>>
suiteVars == <<part, storeVars, marketVars, streamVars, workspaceVars, vars>>

Bar(t, v) == [t |-> t, v |-> v]
KeyA == [sym |-> "a", itv |-> 1]
KeyB == [sym |-> "b", itv |-> 1]
D(r, b) == [rev |-> r, body |-> b]
Want(v, p) == [view |-> v, preferences |-> p]

ChartKeys == {KeyA, KeyB}
Arrivals  == {Bar(1, 1), Bar(1, 2), Bar(3, 1)}
Workspaces == {Want(D(1, 1), D(0, 0)), Want(D(1, 2), D(1, 1)), Want(D(2, 1), D(0, 0)),
               Want(D(0, 0), D(2, 1))}

\* Two candles fit, a third pushes the oldest out; one fault of the disk or the process.
S == INSTANCE CandleStore WITH Bars <- {Bar(1, 1), Bar(2, 1), Bar(2, 2), Bar(3, 1)},
       Batches <- {1}, MaxBars <- 2, CompactAt <- 2, MaxRevision <- 3, MaxFaults <- 1
\* Two faults: a failure and a stop, or two stops.
S2 == INSTANCE CandleStore WITH Bars <- {Bar(1, 1), Bar(2, 1), Bar(2, 2)},
       Batches <- {1, 2}, MaxBars <- 2, CompactAt <- 1, MaxRevision <- 2, MaxFaults <- 2

\* Two publications of one key.
Candles2 == chart' = NoChart /\ UNCHANGED prices
\* The chart changes between two keys while one job brings one candle.
Chart1 ==
  /\ job'[2] = NoJob /\ job'[1].bars \in {<<>>, <<Bar(1, 1)>>}
  /\ UNCHANGED prices
\* Prices and funding rates of one symbol.
Prices2 == UNCHANGED <<candles, screen>>

SuiteInit ==
  /\ part \in {"store", "crashes", "candles", "chart", "quotes", "orders", "sessions", "workspace"}
  /\ S!Init /\ WorkspaceInit /\ Init /\ StreamInit
  /\ MarketInit /\ (part # "chart" => context = KeyA)

Elsewhere1 == UNCHANGED <<part, marketVars, streamVars, vars, workspaceVars>>
Elsewhere2 == UNCHANGED <<part, storeVars, streamVars, vars, workspaceVars>>
Elsewhere3 == UNCHANGED <<part, storeVars, marketVars, vars, workspaceVars>>
Elsewhere4 == UNCHANGED <<part, storeVars, marketVars, streamVars, workspaceVars>>
Elsewhere5 == UNCHANGED <<part, storeVars, marketVars, streamVars, vars>>

SuiteNext ==
  \/ part = "store" /\ S!Next /\ Elsewhere1
  \/ part = "crashes" /\ S2!Next /\ Elsewhere1
  \/ part = "candles" /\ MarketNext /\ Candles2 /\ Elsewhere2
  \/ part = "chart" /\ MarketNext /\ Chart1 /\ Elsewhere2
  \/ part = "quotes" /\ MarketNext /\ Prices2 /\ Elsewhere2
  \/ part = "orders" /\ StreamNext /\ Elsewhere3
  \/ part = "sessions" /\ Next /\ Elsewhere4
  \/ part = "workspace" /\ WorkspaceNext /\ Elsewhere5

SuiteSpec == SuiteInit /\ [][SuiteNext]_suiteVars
---------------------------------------------------------------------------
(***************************************************************************)
(* A candle that no longer waits to be written reads the same after a stop  *)
(* at this very moment, in the middle of an append or a compaction too,     *)
(* and one that changed while a flush wrote still waits; the known ways to  *)
(* lose a line are recorded in `damaged' (flush_key, compact_batch).        *)
(***************************************************************************)
CandlesSurvive ==
  CASE part = "store" -> S!Safe
    [] part = "crashes" -> S2!Safe
    [] OTHER -> TRUE
=============================================================================
