------------------------------ MODULE MarketData ------------------------------
(***************************************************************************)
(* services/market.rs and commands/market.rs: candles and tickers of the    *)
(* stream and of REST answers are merged by tasks of several threads, and   *)
(* the chart shows what was last published of a key; the key on screen is   *)
(* changed by one command at a time.                                         *)
(*                                                                         *)
(* A publication is three steps: merge into the store, read the display,    *)
(* publish.  Each takes and drops its own lock.                              *)
(***************************************************************************)
EXTENDS CandleSeries

CONSTANTS
    Keys,       \* charts: [sym, itv]
    Bars,       \* the candles that arrive
    Jobs,       \* candle jobs that may run at once
    Display,    \* MAX_DISPLAY_KLINES
    Quotes,     \* ticker jobs that may run at once
    Rates,      \* funding rates the server may quote, 0 for a missing one
    Switches,   \* keys the user may change the chart to
    MaxRevision \* bound: merges of a key that change something

ASSUME ChartKeysAssumption == Keys # {} /\ Switches \subseteq Keys
ASSUME CandlesAssumption == \A b \in Bars : b.t \in Int

VARIABLES
    store,      \* KlineStore.entries
    shown,      \* the candles last published of a key, or Hidden
    job,        \* the candle jobs
    due,        \* keys whose backfill is scheduled
    context,    \* MarketService.chart_context
    saved,      \* active_symbol and kline_interval of the settings
    streamed,   \* the key the public stream is subscribed to
    chart,      \* the command that changes the chart
    overlapped, \* history: keys of which two publications ran into each other
    ticker,     \* CacheStore.tickers of the symbol
    quote,      \* the ticker jobs
    rate,       \* history: the funding rate last accepted
    raced       \* history: a rate was accepted inside another job's read and write

candles    == <<store, shown, job, due, overlapped>>
screen     == <<context, saved, streamed, chart>>
prices     == <<ticker, quote, rate, raced>>
marketVars == <<candles, screen, prices>>

Hidden == [t \in {0} |-> 0]
AnyKey == CHOOSE k \in Keys : TRUE

Job(kind, k, step, bars) ==
            [kind |-> kind, key |-> k, step |-> step, bars |-> bars, display |-> <<>>,
             changed |-> FALSE]
NoJob    == Job("none", AnyKey, "idle", <<>>)
NoChart  == [step |-> "idle", next |-> AnyKey, local |-> <<>>]
NoTicker == [known |-> FALSE, rate |-> 0, error |-> FALSE]
NoQuote  == [kind |-> "none", step |-> "idle", rate |-> 0, read |-> NoTicker]

DisplayOf(k) == LoadRange(store[k], 0, 9, Display)

(* A publication of the key has merged or read and not yet published, by    *)
(* one of the jobs or by the command.                                        *)
JobPublishing(k, J) == \E i \in J : job[i].key = k /\ job[i].step \in {"load", "publish"}
ChartPublishing(k)  == chart.next = k /\ chart.step \in {"persist", "commit", "publish"}
Publishing(k)       == JobPublishing(k, Jobs) \/ ChartPublishing(k)
-----------------------------------------------------------------------------
(* Candles.                                                                 *)

(* merge_and_emit_klines, from the stream of the subscribed key.            *)
StreamBars(j) ==
    /\ job[j].step = "idle"
    /\ \A i \in Jobs : job[i].kind # "stream"
    /\ \E b \in Bars :
         job' = [job EXCEPT ![j] = Job("stream", streamed, "merge", <<b>>)]
    /\ UNCHANGED <<store, shown, due, overlapped, screen, prices>>

(* run_kline_backfill, fetch_klines, refresh_klines: a task of its own.     *)
StartFetch(j, k) ==
    /\ job[j].step = "idle"
    /\ due' = due \ {k}
    /\ job' = [job EXCEPT ![j] = Job("detached", k, "fetch", <<>>)]
    /\ UNCHANGED <<store, shown, overlapped, screen, prices>>

(* run_kline_backfill_under_account_guard, refresh_klines_under_account_guard:*)
(* a task of a scheduler generation.                                         *)
StartOwnedFetch(j) ==
    /\ job[j].step = "idle"
    /\ job' = [job EXCEPT ![j] = Job("owned", context, "fetch", <<>>)]
    /\ UNCHANGED <<store, shown, due, overlapped, screen, prices>>

(* PublicApi::klines answers or fails.                                      *)
Fetched(j) ==
    /\ job[j].step = "fetch"
    /\ \E b \in Bars : job' = [job EXCEPT ![j].step = "merge", ![j].bars = <<b>>]
    /\ UNCHANGED <<store, shown, due, overlapped, screen, prices>>

FetchFails(j) ==
    /\ job[j].step = "fetch"
    /\ job' = [job EXCEPT ![j] = NoJob]
    /\ UNCHANGED <<store, shown, due, overlapped, screen, prices>>

\* Mutant: the generation awaits between its merge and its publication.
AbortOwned_Anywhere(j) ==
    /\ job[j].kind = "owned"
    /\ job' = [job EXCEPT ![j] = NoJob]
    /\ UNCHANGED <<store, shown, due, overlapped, screen, prices>>

(* The generation is stopped; its commit has no await a stop could take     *)
(* effect at (run_generation_owned_kline_storage).                          *)
AbortOwned(j) ==
    /\ job[j].kind = "owned"
    /\ job[j].step = "fetch"
    /\ job' = [job EXCEPT ![j] = NoJob]
    /\ UNCHANGED <<store, shown, due, overlapped, screen, prices>>

(* buffer_display_klines: upsert_bars,                                       *)
Merge(j) ==
    /\ job[j].step = "merge"
    /\ LET k == job[j].key
           changed == Changed(store[k], job[j].bars)
       IN  /\ store' = [store EXCEPT ![k] = Upsert(@, job[j].bars)]
           /\ store'[k].rev <= MaxRevision
           /\ job' = [job EXCEPT ![j].step = "load", ![j].changed = changed]
           /\ overlapped' = IF changed /\ Publishing(k) THEN overlapped \cup {k} ELSE overlapped
    /\ UNCHANGED <<shown, due, screen, prices>>

(* then load_range; the stream also looks for gaps.                          *)
LoadDisplay(j) ==
    /\ job[j].step = "load"
    /\ job' = [job EXCEPT ![j].step = "publish", ![j].display = DisplayOf(job[j].key)]
    /\ UNCHANGED <<store, shown, due, overlapped, screen, prices>>

(* The cache and the event, when something changed; a gap the stream saw    *)
(* schedules a backfill.                                                     *)
Publish(j) ==
    /\ job[j].step = "publish"
    /\ LET k == job[j].key
       IN  /\ shown' = IF job[j].changed THEN [shown EXCEPT ![k] = job[j].display] ELSE shown
           /\ due' = IF job[j].kind = "stream" /\ HasGap(job[j].display, 1)
                     THEN due \cup {k} ELSE due
           /\ job' = [job EXCEPT ![j] = NoJob]
           /\ overlapped' = IF /\ shown'[k] = DisplayOf(k)
                               /\ ~JobPublishing(k, Jobs \ {j}) /\ ~ChartPublishing(k)
                            THEN overlapped \ {k} ELSE overlapped
    /\ UNCHANGED <<store, screen, prices>>
-----------------------------------------------------------------------------
(* The chart on screen: update_chart_context, one at a time by              *)
(* context_mutation.                                                         *)
SetChartContext(next) ==
    /\ chart.step = "idle"
    /\ next # context
    /\ chart' = [step |-> "load", next |-> next, local |-> <<>>]
    /\ UNCHANGED <<candles, context, saved, streamed, prices>>

(* The old key is flushed, the candles of the new one are read.             *)
LoadLocal ==
    /\ chart.step = "load"
    /\ chart' = [chart EXCEPT !.step = "persist", !.local = DisplayOf(chart.next)]
    /\ UNCHANGED <<candles, context, saved, streamed, prices>>

(* persist_market_config_update: the settings,                               *)
PersistContext ==
    /\ chart.step = "persist"
    /\ saved' = chart.next
    /\ chart' = [chart EXCEPT !.step = "commit"]
    /\ UNCHANGED <<candles, context, streamed, prices>>

(* then, still under the account lock, the runtime context and the          *)
(* subscription.  The stream's task has ended before the new one starts.    *)
CommitContext ==
    /\ chart.step = "commit"
    /\ \A i \in Jobs : job[i].kind # "stream"
    /\ context' = chart.next
    /\ streamed' = chart.next
    /\ chart' = [chart EXCEPT !.step = "publish"]
    /\ UNCHANGED <<candles, saved, prices>>

PersistFails ==
    /\ chart.step \in {"load", "persist"}
    /\ chart' = NoChart
    /\ UNCHANGED <<candles, context, saved, streamed, prices>>

(* publish_local_klines, whether or not anything changed since the read;     *)
(* then schedule_chart_context_refresh.                                      *)
PublishLocal ==
    /\ chart.step = "publish"
    /\ shown' = [shown EXCEPT ![chart.next] = chart.local]
    /\ due' = due \cup {chart.next}
    /\ chart' = NoChart
    /\ overlapped' = IF /\ chart.local = DisplayOf(chart.next)
                        /\ ~JobPublishing(chart.next, Jobs)
                     THEN overlapped \ {chart.next} ELSE overlapped
    /\ UNCHANGED <<store, job, context, saved, streamed, prices>>

(* The process stops; the next start reads the settings and restores the    *)
(* candles of their key (restore_klines).                                    *)
RestartMarket ==
    /\ chart.step # "idle"
    /\ context' = saved
    /\ streamed' = saved
    /\ chart' = NoChart
    /\ shown' = [k \in Keys |-> IF k = saved /\ store[k].bars # <<>> THEN DisplayOf(k) ELSE Hidden]
    /\ job' = [j \in Jobs |-> NoJob]
    /\ due' = {}
    /\ overlapped' = {}
    /\ ticker' = NoTicker /\ rate' = 0 /\ raced' = FALSE
    /\ quote' = [q \in Quotes |-> NoQuote]
    /\ UNCHANGED <<store, saved>>
-----------------------------------------------------------------------------
(* The ticker.  A price comes by the stream (merge_and_emit_ticker) or by   *)
(* REST (fetch_ticker) and keeps the rate of the ticker it read; a rate     *)
(* comes by refresh_funding_rate.                                            *)
StartQuote(q, kind, r) ==
    /\ quote[q].step = "idle"
    /\ quote' = [quote EXCEPT ![q] = [kind |-> kind, step |-> "read", rate |-> r, read |-> NoTicker]]
    /\ UNCHANGED <<candles, screen, ticker, rate, raced>>

ReadTicker(q) ==
    /\ quote[q].step = "read"
    /\ quote' = [quote EXCEPT ![q].step = "write", ![q].read = ticker]
    /\ UNCHANGED <<candles, screen, ticker, rate, raced>>

(* The ticker a price makes of the one it read.                             *)
Priced(read, r) == IF read.known THEN read ELSE [known |-> TRUE, rate |-> r, error |-> r = 0]

(* The ticker a rate makes of it: a missing one only leaves an error.       *)
Funded(read, r) ==
    IF r # 0 THEN [known |-> TRUE, rate |-> r, error |-> FALSE]
    ELSE IF read.known THEN [read EXCEPT !.error = TRUE] ELSE ticker

WriteTicker(q) ==
    /\ quote[q].step = "write"
    /\ LET w == quote[q]
           accepts == IF w.kind = "funding" THEN w.rate # 0 ELSE ~w.read.known
           others == \E p \in Quotes \ {q} : quote[p].step = "write"
       IN  /\ ticker' = IF w.kind = "funding" THEN Funded(w.read, w.rate) ELSE Priced(w.read, w.rate)
           /\ rate' = IF accepts THEN w.rate ELSE rate
           /\ raced' = IF accepts THEN others ELSE raced
           /\ quote' = [quote EXCEPT ![q] = NoQuote]
    /\ UNCHANGED <<candles, screen>>
-----------------------------------------------------------------------------
MarketInit ==
    /\ context \in Switches
    /\ saved = context /\ streamed = context
    /\ store = [k \in Keys |-> [Fresh EXCEPT !.loaded = TRUE]]
    /\ shown = [k \in Keys |-> Hidden]
    /\ job = [j \in Jobs |-> NoJob]
    /\ due = {}
    /\ chart = NoChart
    /\ overlapped = {}
    /\ ticker = NoTicker
    /\ quote = [q \in Quotes |-> NoQuote]
    /\ rate = 0 /\ raced = FALSE

MarketNext ==
    \/ \E j \in Jobs :
         \/ StreamBars(j) \/ StartOwnedFetch(j) \/ Fetched(j) \/ FetchFails(j) \/ AbortOwned(j)
         \/ Merge(j) \/ LoadDisplay(j) \/ Publish(j)
         \/ \E k \in due : StartFetch(j, k)
    \/ \E k \in Switches : SetChartContext(k)
    \/ LoadLocal \/ PersistContext \/ CommitContext \/ PersistFails \/ PublishLocal \/ RestartMarket
    \/ \E q \in Quotes :
         \/ \E kind \in {"price", "funding"}, r \in Rates : StartQuote(q, kind, r)
         \/ ReadTicker(q) \/ WriteTicker(q)

MarketSpec == MarketInit /\ [][MarketNext]_marketVars
-----------------------------------------------------------------------------
MarketTypeOK ==
    /\ due \subseteq Keys /\ overlapped \subseteq Keys
    /\ {context, saved, streamed} \subseteq Keys
    /\ chart.step \in {"idle", "load", "persist", "commit", "publish"}
    /\ ticker \in [known : BOOLEAN, rate : Rates \cup {0}, error : BOOLEAN]

(* Once the publications of a key are over, the chart shows what the store  *)
(* holds of it, whoever was stopped on the way, unless two of them ran into *)
(* each other.                                                               *)
ShownIsStored ==
    \A k \in Keys :
        shown[k] # Hidden /\ ~Publishing(k) /\ k \notin overlapped => shown[k] = DisplayOf(k)

(* The settings, the chart and the stream name one key, and a restart comes *)
(* back to it.                                                               *)
ContextAgrees ==
    /\ chart.step \in {"idle", "load", "persist", "publish"} => context = saved /\ streamed = saved
    /\ chart.step = "commit" => context # saved

(* A price never changes the funding rate of the ticker it updates.         *)
RateKept == ~raced /\ ticker.known => ticker.rate = rate

MarketSafe == MarketTypeOK /\ ShownIsStored /\ ContextAgrees /\ RateKept
=============================================================================
