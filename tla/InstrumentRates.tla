---------------------------- MODULE InstrumentRates ----------------------------
(***************************************************************************)
(* scripts/research/base_rates_phase1.py: one run loads the bars of every  *)
(* monitored symbol from a local directory, a cache or a vendor, computes  *)
(* brackets and regimes, judges the continuity of the series, and writes   *)
(* one report.  A run may stop anywhere; the cache files it wrote stay.    *)
(***************************************************************************)
EXTENDS PriceMath, FiniteSets, SequencesExt

CONSTANTS Monitor,     \* the symbols of monitor.yaml, in order
          Kind,        \* symbol -> [crypto, equity, listed]
          Series,      \* name of a series -> [first, bars]
          Answers,     \* <<symbol, vendor>> -> the series the vendor may have
          Local,       \* symbol -> the series in the bars directory, or None
          None,
          MinBars, SmaFast, SmaSlow, AtrPeriod,
          StopR, TargetR, BracketBars,
          Cost,        \* <<numerator, denominator>> of the entry price
          ShiftWindow, ShiftRatio,
          FlagPercent, \* a one-bar move that is flagged
          MaxRuns      \* bound: runs

VARIABLES pc,       \* "idle" or the step of the run under way
          refresh, offline,
          vendor,   \* <<symbol, vendor>> -> the series it has, or None
          cache,    \* symbol -> None, "torn", or <<source, series>>
          bars,     \* <<source, series>> of the symbol at hand, or None
          results,  \* rows [symbol, route, source, series], in order
          report,   \* rows of the last report written
          answered, \* <<symbol, source, series>> a vendor ever answered (history)
          runs

vars == <<pc, refresh, offline, vendor, cache, bars, results, report, answered, runs>>

Symbols == {Monitor[i] : i \in 1..Len(Monitor)}
Vendors == {"hyperliquid", "coingecko", "polygon"}
Now == Monitor[Len(results) + 1]

-----------------------------------------------------------------------------
(* check_bar_continuity: rule A, rule B and the flag of rule C.            *)
Median2(s, a, b) ==
    LET q == SortSeq([t \in 1..b - a + 1 |-> s[a + t - 1].close], LAMBDA x, y : x < y)
        n == Len(q)
    IN  q[(n + 1) \div 2] + q[n \div 2 + 1]

LevelShift(s) ==
    \E i \in ShiftWindow + 1..Len(s) - ShiftWindow :
       LET before == Median2(s, i - ShiftWindow, i - 1)
           after == Median2(s, i + 1, i + ShiftWindow)
       IN  after >= ShiftRatio * before \/ ShiftRatio * after <= before

TooEarly(symbol, series) ==
    /\ Kind[symbol].listed > 0
    /\ Series[series].first < Kind[symbol].listed

Move(s, t) == Larger({s[t].close - s[t - 1].close, s[t - 1].close - s[t].close})

Extreme(s) == \E t \in 2..Len(s) : 100 * Move(s, t) >= FlagPercent * s[t - 1].close

-----------------------------------------------------------------------------
(* evaluate_long_bracket, evaluate_short_bracket: the first bar that       *)
(* touches decides.  Prices are scaled by the denominators of ATR and cost.*)
Outcome(s, i, side, net) ==
    LET atr == Atr(s, AtrPeriod)[i]
        scale == atr[2] * Cost[2]
        cost == IF net THEN s[i].close * Cost[1] * atr[2] ELSE 0
        entry == s[i].close * scale
        stop == entry - side * (StopR * atr[1] * Cost[2] - cost)
        target == entry + side * (TargetR * atr[1] * Cost[2] - cost)
        HitTarget(t) == IF side = 1 THEN s[t].high * scale >= target ELSE s[t].low * scale <= target
        HitStop(t) == IF side = 1 THEN s[t].low * scale <= stop ELSE s[t].high * scale >= stop
        hits == {t \in i + 1..Len(s) : t <= i + BracketBars /\ (HitTarget(t) \/ HitStop(t))}
        t == CHOOSE x \in hits : \A y \in hits : x <= y
    IN  IF hits = {} THEN "timeout"
        ELSE IF HitTarget(t) /\ HitStop(t) THEN "tie"
        ELSE IF HitTarget(t) THEN "target" ELSE "stop"

(* The bars a bracket starts at, and the regime of a bar.                  *)
Trials(s) == {i \in AtrPeriod + 1..Len(s) - 1 : Atr(s, AtrPeriod)[i][1] > 0}

Regime(s, i) ==
    IF i < SmaSlow \/ i <= SmaFast THEN "none"
    ELSE LET above == s[i].close * SmaSlow > Sma(s, SmaSlow, i)
             slope == Sma(s, SmaFast, i) - Sma(s, SmaFast, i - 1)
         IN  IF above /\ slope > 0 THEN "trend-up"
             ELSE IF ~above /\ slope < 0 THEN "trend-down" ELSE "chop"

-----------------------------------------------------------------------------
(* What the tables say of a row.                                           *)
BarsOf(r) == IF r.series = None THEN <<>> ELSE Series[r.series].bars
IsEquity(r) == r.source = "polygon" \/ (Kind[r.symbol].equity /\ ~Kind[r.symbol].crypto)
Void(r) == /\ BarsOf(r) # <<>> /\ IsEquity(r)
           /\ TooEarly(r.symbol, r.series) \/ LevelShift(BarsOf(r))
Flag(r) == /\ BarsOf(r) # <<>> /\ IsEquity(r) /\ ~Void(r) /\ Extreme(BarsOf(r))
HasCompute(r) == Len(BarsOf(r)) >= MinBars
(* Mutant: a flag takes a series out of the pool.                          *)
ExclusionOfFlagged(r) == Void(r) \/ Flag(r) \/ ~HasCompute(r)

Exclusion(r) == Void(r) \/ ~HasCompute(r)

Status(r) == IF Void(r) THEN "void" ELSE IF Exclusion(r) THEN "excluded" ELSE "computed"

FullPool(rows) == {i \in 1..Len(rows) : HasCompute(rows[i])}
VoidExcludedPool(rows) == {i \in 1..Len(rows) : ~Exclusion(rows[i])}

-----------------------------------------------------------------------------
Rows == [symbol : Symbols, route : {"bars-dir", "cache", "live", "none"},
         source : Vendors \cup {"file", None}, series : DOMAIN Series \cup {None}]

TypeOK ==
    /\ pc \in {"idle", "load", "hyperliquid", "coingecko", "polygon", "write", "compute"}
    /\ \A s \in Symbols : cache[s] \in {None, <<"torn">>} \cup (Vendors \X DOMAIN Series)
    /\ results \in Seq(Rows) /\ report \in Seq(Rows)
    /\ runs \in 0..MaxRuns

Init ==
    /\ pc = "idle" /\ refresh = FALSE /\ offline = FALSE
    /\ vendor = [k \in Symbols \X Vendors |-> None]
    /\ cache = [s \in Symbols |-> None]
    /\ bars = None /\ results = <<>> /\ report = <<>> /\ answered = {}
    /\ runs = 0

Start(fresh, off) ==
    /\ pc = "idle" /\ runs < MaxRuns
    /\ pc' = "load" /\ refresh' = fresh /\ offline' = off
    /\ bars' = None /\ results' = <<>> /\ runs' = runs + 1
    /\ UNCHANGED <<vendor, cache, report, answered>>

(* The row of the symbol at hand; the report after the last symbol.        *)
Done(route, source, series) ==
    LET rows == Append(results, [symbol |-> Now, route |-> route, source |-> source, series |-> series])
        last == Len(rows) = Len(Monitor)
    IN  /\ results' = (IF last THEN <<>> ELSE rows)
        /\ report' = (IF last THEN rows ELSE report)
        /\ pc' = (IF last THEN "idle" ELSE "load")
        /\ bars' = None

(* load_or_fetch_bars: the local file, the cache unless the run refreshes, *)
(* nothing offline; else the vendors that suit the symbol.  A cache file   *)
(* that does not parse ends the run with no report.                        *)
Load ==
    /\ pc = "load"
    /\ LET cached == Local[Now] = None /\ ~refresh /\ cache[Now] # None IN
       \/ Local[Now] # None /\ Done("bars-dir", "file", Local[Now])
       \/ cached /\ cache[Now] # <<"torn">> /\ Done("cache", cache[Now][1], cache[Now][2])
       \/ cached /\ cache[Now] = <<"torn">> /\ pc' = "idle" /\ results' = <<>> /\ UNCHANGED <<bars, report>>
       \/ Local[Now] = None /\ ~cached /\ offline /\ Done("none", None, None)
       \/ /\ Local[Now] = None /\ ~cached /\ ~offline
          /\ pc' = IF Kind[Now].crypto THEN "hyperliquid" ELSE "polygon"
          /\ UNCHANGED <<bars, results, report>>
    /\ UNCHANGED <<refresh, offline, vendor, cache, answered, runs>>

(* The next source to ask when a vendor gave no bars.                      *)
After(source) == CASE source = "hyperliquid" -> "coingecko"
                   [] source = "coingecko" -> IF Kind[Now].equity THEN "polygon" ELSE "compute"
                   [] source = "polygon" -> "compute"

(* One vendor: its series, or none (an error counts as none).              *)
Ask(source, answers) ==
    /\ pc = source
    /\ LET series == vendor[<<Now, source>>] IN
       IF answers /\ series # None
       THEN /\ bars' = <<source, series>> /\ pc' = "write"
            /\ answered' = answered \cup {<<Now, source, series>>}
       ELSE pc' = After(source) /\ UNCHANGED <<bars, answered>>
    /\ UNCHANGED <<refresh, offline, vendor, cache, results, report, runs>>

Write ==
    /\ pc = "write"
    /\ cache' = [cache EXCEPT ![Now] = bars]
    /\ pc' = "compute"
    /\ UNCHANGED <<refresh, offline, vendor, bars, results, report, answered, runs>>

Compute ==
    /\ pc = "compute"
    /\ IF bars = None THEN Done("none", None, None) ELSE Done("live", bars[1], bars[2])
    /\ UNCHANGED <<refresh, offline, vendor, cache, answered, runs>>

(* The process stops; within the write the file is left half written.      *)
Crash ==
    /\ pc # "idle"
    /\ pc' = "idle" /\ bars' = None /\ results' = <<>>
    /\ cache' = (IF pc = "write" THEN [cache EXCEPT ![Now] = <<"torn">>] ELSE cache)
    /\ UNCHANGED <<refresh, offline, vendor, report, answered, runs>>

(* A vendor gets, loses or revises its series, between runs.               *)
Revise(k, v) ==
    /\ pc = "idle" /\ v \in Answers[k] /\ v # vendor[k]
    /\ vendor' = [vendor EXCEPT ![k] = v]
    /\ UNCHANGED <<pc, refresh, offline, cache, bars, results, report, answered, runs>>

Next ==
    \/ \E fresh, off \in BOOLEAN : Start(fresh, off)
    \/ Load \/ Write \/ Compute \/ Crash
    \/ \E source \in Vendors, answers \in BOOLEAN : Ask(source, answers)
    \/ \E k \in Symbols \X Vendors : \E v \in Answers[k] : Revise(k, v)

Spec == Init /\ [][Next]_vars

-----------------------------------------------------------------------------
(* Silent drops: 0.  A report has every monitored symbol once, each void,  *)
(* computed or excluded; a void series is in no clean pool; the clean pool *)
(* is the full one without the voids, so a flag alone removes nothing.     *)
ReportIsWhole ==
    report # <<>> =>
        /\ [i \in 1..Len(report) |-> report[i].symbol] = Monitor
        /\ VoidExcludedPool(report) = {i \in FullPool(report) : Status(report[i]) # "void"}
        /\ \A i \in 1..Len(report) :
              Flag(report[i]) /\ HasCompute(report[i]) => i \in VoidExcludedPool(report)

(* No row is invented: its series was answered by the source it names, or  *)
(* lay in the bars directory; a half-written file is never a row.          *)
NothingIsInvented ==
    \A i \in 1..Len(report) :
       LET r == report[i] IN
       \/ r.series = None /\ Status(r) = "excluded"
       \/ r.route = "bars-dir" /\ r.series = Local[r.symbol]
       \/ r.route \in {"cache", "live"} /\ <<r.symbol, r.source, r.series>> \in answered

(* Offline asks nobody, a refresh reads no cache.                          *)
ModeIsKept ==
    /\ offline => pc \in {"idle", "load"}
    /\ refresh => \A i \in 1..Len(results) : results[i].route # "cache"

(* Costs bring both edges nearer: a trial that ended in time gross ends in *)
(* time net, and one that was stopped gross is never a timeout net.        *)
NetEndsSooner ==
    \A i \in FullPool(report) :
       LET s == BarsOf(report[i]) IN
       \A t \in Trials(s), side \in {1, -1} :
          /\ Outcome(s, t, side, TRUE) = "timeout" => Outcome(s, t, side, FALSE) = "timeout"
          /\ Regime(s, t) # "none" => t >= SmaSlow

RatesAreSound == ReportIsWhole /\ NothingIsInvented /\ ModeIsKept /\ NetEndsSooner
=============================================================================
