----------------------------- MODULE EventTouches -----------------------------
(***************************************************************************)
(* The unconditional base rates of mm_quant.base_rates and the rows that   *)
(* mm_memory keeps of them.  Bars of one instrument arrive in the order    *)
(* they become known; a run looks at the bars known at its watermark, finds*)
(* the touches of three event classes, summarises each class and stores    *)
(* one row for each class and watermark.  Prices are small integers.       *)
(***************************************************************************)
EXTENDS PriceMath, FiniteSets

CONSTANTS Bars,       \* records [low, high, close] a bar may be
          SmaPeriod, EmaPeriod, AtrPeriod,
          BaseBars,   \* bars of a consolidation
          MaxHeight, Tolerance,  \* of a consolidation and of its edges, in ATR: <<n, d>>
          Lookback,   \* bars a breakout exceeds
          Horizon,    \* bars from a touch to its outcome
          NMin,       \* outcomes a claim needs
          MaxBars,    \* bound: bars known
          MaxRuns     \* bound: runs

VARIABLES bars,    \* the bars known, in order
          stored,  \* <<class, watermark>> -> the summary stored
          runs

vars == <<bars, stored, runs>>

Classes == {"dip_touch", "zone_boundary_touch", "pullback_ema_touch"}

-----------------------------------------------------------------------------
(* An event is <<trigger, side>>.                                          *)
Earliest(S) == {t \in S : \A u \in S : t <= u}

(* A bar that reaches down to a rising average, from a bar all above it.   *)
IsDip(bar, before, sma, smaBefore) ==
    /\ sma > smaBefore
    /\ before.close * SmaPeriod > smaBefore
    /\ before.low * SmaPeriod > smaBefore
    /\ bar.low * SmaPeriod <= sma

Dips(s) ==
    {<<t, 1>> : t \in {u \in SmaPeriod + 1..Len(s) :
        IsDip(s[u], s[u - 1], Sma(s, SmaPeriod, u), Sma(s, SmaPeriod, u - 1))}}

(* x <= y + factor * atr                                                   *)
AtMost(x, y, factor, atr) ==
    (x - y) * factor[2] * atr[2] <= factor[1] * atr[1]

(* The bars that end a consolidation: no higher than MaxHeight ATRs, and   *)
(* none overlaps the one before it.                                        *)
Within(height, atr) == atr[1] > 0 /\ AtMost(height, 0, MaxHeight, atr)

Quiet(s, t) ==
    /\ t >= BaseBars /\ t > AtrPeriod
    /\ Within(High(s, t - BaseBars + 1, t) - Low(s, t - BaseBars + 1, t), Atr(s, AtrPeriod)[t])

Zones(s) ==
    LET ends[t \in 0..Len(s)] ==
            IF t = 0 THEN {}
            ELSE ends[t - 1] \cup
                 {u \in {t} : Quiet(s, t) /\ \A e \in ends[t - 1] : e + BaseBars <= t}
    IN  ends[Len(s)]

(* The first touch of either edge of each zone, a bar serving one zone;    *)
(* the nearer edge when a bar touches both.                                *)
Demand(bar, low, atr) ==
    AtMost(bar.low, low, Tolerance, atr) /\ AtMost(low, bar.high, Tolerance, atr)
Supply(bar, high, atr) ==
    AtMost(high, bar.high, Tolerance, atr) /\ AtMost(bar.low, high, Tolerance, atr)

Distance(x, y) == IF x < y THEN y - x ELSE x - y

Side(bar, low, high, atr) ==
    IF /\ Supply(bar, high, atr)
       /\ ~Demand(bar, low, atr) \/ Distance(bar.high, high) < Distance(bar.low, low)
    THEN -1 ELSE 1

FirstTouch(s, t, low, high, served) ==
    LET atr == Atr(s, AtrPeriod)[t]
    IN  {<<u, Side(s[u], low, high, atr)>> : u \in Earliest(
            {v \in t + 1..Len(s) : /\ Demand(s[v], low, atr) \/ Supply(s[v], high, atr)
                                   /\ \A e \in served : e[1] # v})}

ZoneTouches(s) ==
    LET zones == Zones(s)
        found[t \in 0..Len(s)] ==
            IF t = 0 THEN {}
            ELSE found[t - 1] \cup
                 (IF t \notin zones THEN {}
                  ELSE FirstTouch(s, t, Low(s, t - BaseBars + 1, t), High(s, t - BaseBars + 1, t),
                                  found[t - 1]))
    IN  found[Len(s)]

(* From each breakout the first touch of the EMA before the breakout bar's *)
(* extreme is taken out; the scan goes on after the touch, or after the    *)
(* breakout when there is none.                                            *)
Breakout(s, i) ==
    IF s[i].close > High(s, i - Lookback, i - 1) THEN 1
    ELSE IF s[i].close < Low(s, i - Lookback, i - 1) THEN -1 ELSE 0

TakenOut(s, i, u, side) == IF side = 1 THEN s[u].low < s[i].low ELSE s[u].high > s[i].high

Reaches(bar, ema, side) ==
    IF side = 1 THEN bar.low * ema[2] <= ema[1] ELSE bar.high * ema[2] >= ema[1]

Pullback(s, i, side) ==
    {<<u, side>> : u \in Earliest(
        {v \in i + 1..Len(s) : /\ v >= EmaPeriod /\ side # 0
                               /\ Reaches(s[v], Ema(s, EmaPeriod)[v], side)
                               /\ \A w \in i + 1..v :
                                     w >= EmaPeriod => ~TakenOut(s, i, w, side)})}

Pullbacks(s) ==
    LET found[i \in Lookback..Len(s)] ==
            IF i = Lookback THEN {}
            ELSE found[i - 1] \cup {e \in Pullback(s, i, Breakout(s, i)) :
                                        \A d \in found[i - 1] : d[1] < i}
    IN  found[Len(s)]

(* The bars a detector needs before it looks at all.                       *)
Need == [dip_touch |-> SmaPeriod + 2,
         zone_boundary_touch |-> Larger({BaseBars, AtrPeriod + 1}) + 1,
         pullback_ema_touch |-> Larger({EmaPeriod, Lookback, AtrPeriod + 1}) + 1]

Events(class, s) ==
    IF Len(s) < Need[class] THEN {}
    ELSE CASE class = "dip_touch" -> Dips(s)
           [] class = "zone_boundary_touch" -> ZoneTouches(s)
           [] class = "pullback_ema_touch" -> Pullbacks(s)

-----------------------------------------------------------------------------
(* An outcome needs the bar Horizon bars later; without it the event is    *)
(* censored.  A class with fewer than NMin outcomes claims no rate.        *)
Complete(s, e) == e[1] + Horizon <= Len(s)
Hit(s, e) == e[2] * (s[e[1] + Horizon].close - s[e[1]].close) > 0

Rated(s, events) ==
    LET done == {e \in events : Complete(s, e)}
        n == Cardinality(done)
    IN  [n |-> n, censored |-> Cardinality(events \ done), claimed |-> n >= NMin,
         hits |-> IF n >= NMin THEN Cardinality({e \in done : Hit(s, e)}) ELSE 0]

Summary(class, s) == Rated(s, Events(class, s))

Visible(watermark) == SubSeq(bars, 1, watermark)

-----------------------------------------------------------------------------
TypeOK ==
    /\ bars \in Seq(Bars) /\ Len(bars) <= MaxBars
    /\ DOMAIN stored \subseteq Classes \X (1..Len(bars))
    /\ \A k \in DOMAIN stored :
          /\ stored[k].hits <= stored[k].n
          /\ stored[k].n + stored[k].censored <= k[2]
    /\ runs \in 0..MaxRuns

Init == bars = <<>> /\ stored = [k \in {} |-> 0] /\ runs = 0

Known(bar) ==
    /\ Len(bars) < MaxBars
    /\ bars' = Append(bars, bar)
    /\ UNCHANGED <<stored, runs>>

(* A run at any watermark, a replayed one too; a stored row is kept.       *)
Run(watermark) ==
    /\ runs < MaxRuns
    /\ LET keys == Classes \X {watermark}
       IN  stored' = [k \in DOMAIN stored \cup keys |->
                         IF k \in DOMAIN stored THEN stored[k] ELSE Summary(k[1], Visible(k[2]))]
    /\ runs' = runs + 1
    /\ UNCHANGED bars

Next ==
    \/ \E bar \in Bars : Known(bar)
    \/ \E watermark \in 1..Len(bars) : Run(watermark)

Spec == Init /\ [][Next]_vars

-----------------------------------------------------------------------------
(* Later bars change nothing that was found: the events a run found at a   *)
(* watermark are the events a later run finds up to it, with the outcomes  *)
(* they had.  A run with fewer bars than the class needs finds nothing.    *)
Agree(then, now, watermark) ==
    /\ then = {e \in now : e[1] <= watermark}
    /\ \A e \in then : Complete(Visible(watermark), e) =>
           Hit(Visible(watermark), e) = Hit(bars, e)

SettledAt(class, watermark) ==
    watermark >= Need[class] =>
        Agree(Events(class, Visible(watermark)), Events(class, bars), watermark)

(* Dips and zones are settled; a row says the same whenever it is computed *)
(* again; a claim stands on enough outcomes, and once a class has them at  *)
(* a watermark it has them at every later one.                             *)
RatesAreSettled ==
    /\ \A class \in Classes \ {"pullback_ema_touch"}, w \in 1..Len(bars) : SettledAt(class, w)
    /\ \A k \in DOMAIN stored : stored[k] = Summary(k[1], Visible(k[2]))
    /\ \A k, l \in DOMAIN stored :
          k[1] = l[1] /\ k[1] # "pullback_ema_touch" /\ k[2] <= l[2] =>
              stored[k].n <= stored[l].n /\ stored[k].hits <= stored[l].hits

(* A pullback stands after a breakout whose extreme nothing before it took *)
(* out, and no other event lies between the two.                           *)
FirstOf(events) ==
    \A e \in events :
       \E i \in Lookback + 1..e[1] - 1 :
          /\ Breakout(bars, i) = e[2]
          /\ \A v \in i + 1..e[1] : v >= EmaPeriod => ~TakenOut(bars, i, v, e[2])
          /\ \A d \in events : d[1] <= i \/ d[1] >= e[1]

PullbackIsFirst == FirstOf(Events("pullback_ema_touch", bars))

RatesAreHonest == RatesAreSettled /\ PullbackIsFirst
=============================================================================
