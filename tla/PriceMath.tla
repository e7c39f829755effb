------------------------------- MODULE PriceMath -------------------------------
(***************************************************************************)
(* Averages over a sequence of bars [low, high, close], the series of      *)
(* mm_quant.mathutil (and the copies in scripts/research).  Prices are     *)
(* integers; a quotient is <<numerator, denominator>>.                     *)
(***************************************************************************)
EXTENDS Naturals, Integers, Sequences, FiniteSetsExt

Larger(S) == CHOOSE x \in S : \A y \in S : y <= x
High(s, a, b) == Larger({s[t].high : t \in a..b})
Low(s, a, b) == -Larger({-s[t].low : t \in a..b})
Total(s, a, b) == MapThenSumSet(LAMBDA t : s[t].close, a..b)

(* The simple average of the period bars to t, times period.               *)
Sma(s, period, t) == Total(s, t - period + 1, t)

(* EMA with k = 2/(period+1), seeded by the simple average.                *)
Ema(s, period) ==
    LET e[t \in period..Len(s)] ==
            IF t = period THEN <<Total(s, 1, t), period>>
            ELSE LET p == e[t - 1]
                 IN  << 2 * s[t].close * p[2] + (period - 1) * p[1], (period + 1) * p[2] >>
    IN  e

TrueRange(s, t) == Larger({s[t].high, s[t - 1].close}) + Larger({-s[t].low, -s[t - 1].close})

(* Wilder's ATR, defined from period + 1 on.                               *)
Atr(s, period) ==
    LET a[t \in period + 1..Len(s)] ==
            IF t = period + 1
            THEN << MapThenSumSet(LAMBDA u : TrueRange(s, u), 2..t), period >>
            ELSE LET p == a[t - 1]
                 IN  << p[1] * (period - 1) + TrueRange(s, t) * p[2], p[2] * period >>
    IN  a
=============================================================================
