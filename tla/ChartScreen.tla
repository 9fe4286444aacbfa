------------------------------ MODULE ChartScreen ------------------------------
(***************************************************************************)
(* What the user sees of a chart: the candles, the key and the prices that  *)
(* services/market.rs publishes, and the workspace that                     *)
(* services/chart_workspace.rs saves.  The two share no state.              *)
(***************************************************************************)
EXTENDS MarketData, ChartWorkspace

ScreenSpec == MarketSpec /\ WorkspaceSpec

(***************************************************************************)
(* The chart shows what the store holds once no publication is under way,   *)
(* whichever task was stopped, unless two ran into each other; settings,    *)
(* chart and stream agree on the key; a price keeps the funding rate; and a *)
(* workspace a window was told is saved is never taken back by a held-up    *)
(* save (MarketService, update_chart_context, ChartWorkspaceService::save). *)
(***************************************************************************)
ChartCurrent == MarketSafe /\ WorkspaceSafe
=============================================================================
