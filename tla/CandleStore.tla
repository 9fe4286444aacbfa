------------------------------ MODULE CandleStore ------------------------------
(***************************************************************************)
(* One series of storage/kline_store.rs and its three files.  Candles are   *)
(* merged at any time under the lock of the series; flushes of the          *)
(* scheduler, of a chart that is left and of a saved workspace exclude each *)
(* other by flush_lock but not the merges.  The process may stop between    *)
(* any two effects on the disk.                                              *)
(***************************************************************************)
EXTENDS CandleSeries

CONSTANTS
    Bars,        \* the candles that arrive
    Batches,     \* how many of them arrive at once
    MaxRevision, \* bound: merges that change something, per start
    MaxFaults    \* bound: failures of the disk and stops of the process

VARIABLES
    series,   \* BufferedKeyState.series
    disk,     \* the .jsonl file, its .tmp and its .bak
    flush,    \* where the flush stands
    batch,    \* FlushBatch of the flush
    faults,   \* failures and stops so far
    damaged   \* history: times whose line the disk lost by one of the known ways

vars == <<series, disk, flush, batch, faults, damaged>>

NoBatch == [entries |-> <<>>, snapshot |-> <<>>, written |-> 0, rev |-> 0, compact |-> FALSE]

Times == {b.t : b \in Bars}

Fault == faults < MaxFaults /\ faults' = faults + 1

Loaded == Ensure(series, disk)

Differ(file) == {t \in Times : \/ t \in DOMAIN Loaded.bars /\ t \notin DOMAIN Read(file)
                               \/ /\ t \in DOMAIN Loaded.bars \cap DOMAIN Read(file)
                                  /\ Loaded.bars[t] # Read(file)[t]}
-----------------------------------------------------------------------------
(* upsert_bars with a batch of the stream or of a REST answer.              *)
UpsertBars ==
    \E n \in Batches : \E bars \in [1..n -> Bars] :
        /\ series' = Upsert(Loaded, bars)
        /\ series'.rev <= MaxRevision
        /\ damaged' = IF series.loaded THEN damaged ELSE {}
        /\ UNCHANGED <<disk, flush, batch, faults>>

(* flush_key takes the flush lock and the batch; nothing to do ends it.     *)
StartFlush ==
    /\ flush = "idle"
    /\ Dirty(Loaded)
    /\ series' = Loaded
    /\ damaged' = IF series.loaded THEN damaged ELSE {}
    /\ batch' = PrepareFlush(Loaded)
    /\ flush' = IF batch'.compact THEN "create" ELSE "append"
    /\ UNCHANGED <<disk, faults>>

(* append_batch writes one entry after the other.                           *)
AppendEntry ==
    /\ flush = "append"
    /\ batch.written < Len(batch.entries)
    /\ LET e == batch.entries[batch.written + 1]
           lost == IF disk.main # <<>> /\ ~disk.main[Len(disk.main)].nl
                   THEN {e.t, disk.main[Len(disk.main)].t} \ {0} ELSE {}
       IN  /\ disk' = [disk EXCEPT !.main = WriteLine(@, [t |-> e.t, v |-> e.v, nl |-> TRUE])]
           /\ damaged' = (damaged \ {e.t}) \cup lost
    /\ batch' = [batch EXCEPT !.written = @ + 1]
    /\ UNCHANGED <<series, flush, faults>>

(* The write of an entry fails or the process stops in it: part of the line *)
(* may be in the file, or all of it but the newline.                        *)
AppendFails ==
    /\ flush = "append"
    /\ Fault
    /\ \E how \in {"none", "part", "no newline"} :
         /\ batch.written < Len(batch.entries) \/ how = "none"
         /\ LET e == batch.entries[batch.written + 1]
                line == IF how = "part" THEN Broken(FALSE) ELSE [t |-> e.t, v |-> e.v, nl |-> FALSE]
                lost == IF disk.main # <<>> /\ ~disk.main[Len(disk.main)].nl
                        THEN {disk.main[Len(disk.main)].t} \ {0} ELSE {}
            IN  IF how = "none" THEN UNCHANGED <<disk, damaged>>
                ELSE /\ disk' = [disk EXCEPT !.main = WriteLine(@, line)]
                     /\ damaged' = damaged \cup lost
    /\ flush' = "idle"
    /\ batch' = NoBatch
    /\ UNCHANGED series

(* compact_batch: the temporary file is truncated and written.  While there *)
(* is no main file, a start would read the part that is written, or the     *)
(* backup, where it read a whole copy before.                                *)
CreateTmp ==
    /\ flush = "create"
    /\ \E n \in 0..Len(batch.snapshot) :
         /\ n < Len(batch.snapshot) \/ n = 0
         /\ disk' = [disk EXCEPT !.tmp = SubSeq(batch.snapshot, 1, n)]
    /\ damaged' = IF disk.main = <<>> THEN damaged \cup Differ(LoadFromDisk(disk')) ELSE damaged
    /\ flush' = "write"
    /\ UNCHANGED <<series, batch, faults>>

WriteTmp ==
    /\ flush = "write"
    /\ disk' = [disk EXCEPT !.tmp = batch.snapshot]
    /\ flush' = "aside"
    /\ UNCHANGED <<series, batch, faults, damaged>>

(* A main file that parses becomes the backup; one that does not is removed.*)
MoveAside ==
    /\ flush = "aside"
    /\ disk' = [disk EXCEPT !.main = <<>>, !.bak = IF Parseable(disk.main) THEN disk.main ELSE @]
    /\ flush' = IF Parseable(disk.main) THEN "promote backed" ELSE "promote"
    /\ UNCHANGED <<series, batch, faults, damaged>>

(* The backup is gone but the main file did not move.                       *)
MoveAsideFails ==
    /\ flush = "aside"
    /\ Fault
    /\ disk' = IF Parseable(disk.main) THEN [disk EXCEPT !.bak = <<>>] ELSE disk
    /\ flush' = "idle"
    /\ batch' = NoBatch
    /\ UNCHANGED <<series, damaged>>

Promote ==
    /\ flush \in {"promote", "promote backed"}
    /\ disk' = [disk EXCEPT !.main = disk.tmp, !.tmp = <<>>]
    /\ flush' = "done"
    /\ damaged' = {}
    /\ UNCHANGED <<series, batch, faults>>

(* The rename fails: a backup just made is copied back, wholly or not.      *)
PromoteFails ==
    /\ flush \in {"promote", "promote backed"}
    /\ Fault
    /\ \E n \in 0..Len(disk.bak) :
         /\ flush = "promote" => n = 0
         /\ disk' = [disk EXCEPT !.main = SubSeq(disk.bak, 1, n)]
         /\ damaged' = IF n \in 1..(Len(disk.bak) - 1)
                       THEN damaged \cup Differ(disk'.main) ELSE damaged
    /\ flush' = "idle"
    /\ batch' = NoBatch
    /\ UNCHANGED series

WriteFails ==
    /\ flush \in {"create", "write"}
    /\ Fault
    /\ flush' = "idle"
    /\ batch' = NoBatch
    /\ UNCHANGED <<series, disk, damaged>>

AcknowledgeFlush ==
    /\ flush = "done" \/ (flush = "append" /\ batch.written = Len(batch.entries))
    /\ series' = Acknowledge(series, batch)
    /\ flush' = "idle"
    /\ batch' = NoBatch
    /\ UNCHANGED <<disk, faults, damaged>>

(* The process stops and starts again; the memory is gone.                  *)
Restart ==
    /\ Fault
    /\ series' = Fresh
    /\ flush' = "idle"
    /\ batch' = NoBatch
    /\ UNCHANGED <<disk, damaged>>
-----------------------------------------------------------------------------
Init ==
    /\ series = Fresh
    /\ disk = [main |-> <<>>, tmp |-> <<>>, bak |-> <<>>]
    /\ flush = "idle"
    /\ batch = NoBatch
    /\ faults = 0
    /\ damaged = {}

Next ==
    \/ UpsertBars \/ StartFlush \/ AppendEntry \/ AppendFails
    \/ CreateTmp \/ WriteTmp \/ MoveAside \/ MoveAsideFails \/ Promote \/ PromoteFails
    \/ WriteFails \/ AcknowledgeFlush \/ Restart

Spec == Init /\ [][Next]_vars
-----------------------------------------------------------------------------
TypeOK ==
    /\ DOMAIN series.bars \subseteq Times /\ Cardinality(DOMAIN series.bars) <= MaxBars
    /\ flush \in {"idle", "append", "create", "write", "aside", "promote", "promote backed", "done"}
    /\ faults \in 0..MaxFaults
    /\ damaged \subseteq Times

(* What waits is the latest of what is held, and is not yet counted written.*)
PendingLatest ==
    \A t \in DOMAIN series.pending :
        /\ t \in DOMAIN series.bars
        /\ series.pending[t].v = series.bars[t]
        /\ series.pending[t].rev <= series.rev

(* A candle that no longer waits reads the same after a stop of the process *)
(* at this very moment, in the middle of a compaction too.                   *)
Durable ==
    series.loaded =>
        \A t \in DOMAIN series.bars \ (DOMAIN series.pending \cup damaged) :
            LET reload == Crop(Read(LoadFromDisk(disk)))
            IN  t \in DOMAIN reload /\ reload[t] = series.bars[t]

(* The three together.                                                      *)
Safe == TypeOK /\ PendingLatest /\ Durable
=============================================================================
