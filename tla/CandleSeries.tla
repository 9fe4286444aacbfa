------------------------------ MODULE CandleSeries ------------------------------
(***************************************************************************)
(* The candles of one chart (storage/kline_store.rs): what is held in       *)
(* memory, what waits to be written, and what a file of lines reads as.     *)
(* A candle is an opening time with a value; a line of a file is a candle,  *)
(* or one that does not parse (time 0), and ends in a newline or not.       *)
(***************************************************************************)
EXTENDS Integers, Sequences, FiniteSets, SequencesExt

CONSTANTS
    MaxBars,    \* MAX_STORED_BARS
    CompactAt   \* COMPACT_PHYSICAL_RECORDS

ASSUME StoredBarsAssumption == MaxBars \in Nat \ {0}

NoRevision == -1

With(f, t, x) == [u \in DOMAIN f \cup {t} |-> IF u = t THEN x ELSE f[u]]

Keep(f, S) == [t \in DOMAIN f \cap S |-> f[t]]

Newest(S, n) == {t \in S : Cardinality({u \in S : u > t}) < n}

ByTime(S) == SetToSortSeq(S, LAMBDA a, b : a < b)

(* crop_bars.                                                               *)
Crop(bars) == Keep(bars, Newest(DOMAIN bars, MaxBars))

(* BufferedSeries::default.                                                 *)
Fresh == [loaded |-> FALSE, bars |-> <<>>, pending |-> <<>>, rev |-> 0, phys |-> 0,
          compact |-> NoRevision]

(* One candle of upsert_bars: skipped when its time is not positive or when *)
(* it is already held.                                                       *)
Insert(s, b) ==
    IF b.t <= 0 \/ (b.t \in DOMAIN s.bars /\ s.bars[b.t] = b.v)
    THEN s
    ELSE [s EXCEPT !.rev = @ + 1,
                   !.bars = With(@, b.t, b.v),
                   !.pending = With(@, b.t, [v |-> b.v, rev |-> s.rev + 1])]

(* The oldest candles leave, with what waited to be written of them.        *)
Evict(s) ==
    IF Cardinality(DOMAIN s.bars) <= MaxBars THEN s
    ELSE [s EXCEPT !.compact = s.rev, !.bars = Crop(@),
                   !.pending = Keep(@, Newest(DOMAIN s.bars, MaxBars))]

InsertAll(s, batch) ==
    LET after[i \in 0..Len(batch)] == IF i = 0 THEN s ELSE Insert(after[i - 1], batch[i])
    IN  after[Len(batch)]

Upsert(s, batch) == Evict(InsertAll(s, batch))

(* KlineMergeResult.changed.                                                *)
Changed(s, batch) == InsertAll(s, batch).rev # s.rev

(* load_range, clamped to at least one candle.                              *)
LoadRange(s, from, to, limit) ==
    Keep(s.bars, Newest({t \in DOMAIN s.bars : from <= t /\ t <= to},
                        IF limit < 1 THEN 1 ELSE IF limit > MaxBars THEN MaxBars ELSE limit))

(* detect_gaps finds one.                                                   *)
HasGap(bars, step) ==
    \E t \in DOMAIN bars :
        /\ \E u \in DOMAIN bars : u > t
        /\ \A u \in DOMAIN bars : u > t => u > t + step

Dirty(s) == s.pending # <<>> \/ s.compact # NoRevision

(* prepare_flush.                                                           *)
PrepareFlush(s) ==
    [entries |-> [i \in 1..Cardinality(DOMAIN s.pending) |->
                    [t |-> ByTime(DOMAIN s.pending)[i],
                     v |-> s.pending[ByTime(DOMAIN s.pending)[i]].v]],
     snapshot |-> [i \in 1..Cardinality(DOMAIN s.bars) |->
                     [t |-> ByTime(DOMAIN s.bars)[i], v |-> s.bars[ByTime(DOMAIN s.bars)[i]],
                      nl |-> TRUE]],
     written |-> 0,
     rev |-> s.rev,
     compact |-> \/ s.compact # NoRevision
                 \/ s.phys + Cardinality(DOMAIN s.pending) > CompactAt]

\* Mutant: everything that waits counts as written.
Acknowledge_All(s, batch) ==
    [s EXCEPT !.pending = <<>>,
              !.phys = IF batch.compact THEN Len(batch.snapshot) ELSE @ + Len(batch.entries),
              !.compact = IF batch.compact THEN NoRevision ELSE @]

(* acknowledge_flush: what changed after the batch was taken still waits.   *)
Acknowledge(s, batch) ==
    [s EXCEPT !.pending = Keep(@, {t \in DOMAIN s.pending : s.pending[t].rev > batch.rev}),
              !.phys = IF batch.compact THEN Len(batch.snapshot) ELSE @ + Len(batch.entries),
              !.compact = IF batch.compact /\ @ <= batch.rev THEN NoRevision ELSE @]

(* A line that does not parse.                                              *)
Broken(nl) == [t |-> 0, v |-> 0, nl |-> nl]

(* A line written behind one that has no newline becomes one line with it.  *)
WriteLine(file, line) ==
    IF file # <<>> /\ ~Last(file).nl
    THEN Append(Front(file), Broken(line.nl))
    ELSE Append(file, line)

Read(file) == FoldLeft(LAMBDA bars, l : IF l.t > 0 THEN With(bars, l.t, l.v) ELSE bars, <<>>, file)

(* parse_fallback_file, is_fully_parseable_file: every line parses.         *)
Parseable(file) == file # <<>> /\ \A i \in 1..Len(file) : file[i].t > 0

(* load_from_disk: the file, else a complete copy of it.                    *)
Source(disk) ==
    IF disk.main # <<>> THEN "main"
    ELSE IF Parseable(disk.tmp) THEN "tmp"
    ELSE IF Parseable(disk.bak) THEN "bak" ELSE "none"

LoadFromDisk(disk) == IF Source(disk) = "none" THEN <<>> ELSE disk[Source(disk)]

(* ensure_loaded.                                                           *)
Ensure(s, disk) ==
    IF s.loaded THEN s
    ELSE [s EXCEPT !.loaded = TRUE,
                   !.bars = Crop(Read(LoadFromDisk(disk))),
                   !.phys = Len(LoadFromDisk(disk)),
                   !.compact = IF \/ Source(disk) \in {"tmp", "bak"}
                                  \/ Len(LoadFromDisk(disk)) > CompactAt
                               THEN s.rev ELSE @]
=============================================================================
