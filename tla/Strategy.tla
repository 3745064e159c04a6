------------------------------- MODULE Strategy -------------------------------
(***************************************************************************)
(* The strategies of the backtest and the signal driver, as functions of a *)
(* series of closes: blended momentum with hysteresis, the volatility      *)
(* target with its band, and the two sticky regime gates.  Bar 0 of the    *)
(* code is bar 1 here.                                                     *)
(*                                                                         *)
(* Numbers are integers.  A return is in units of 1/Scale, exact for the   *)
(* closes of the instance; volatility is that of two returns (the shortest *)
(* window the code accepts), |a - b| without the common factor of stdev    *)
(* and annualization; multipliers are in percent, risk-off in halves; a    *)
(* position is a product of these, of FullSize at most.                    *)
(***************************************************************************)
EXTENDS Integers, Sequences, FiniteSets, SequencesExt, Ranks

CONSTANTS
  Closes,      \* the prices a bar may close at
  Scale,       \* a multiple of each, so that returns are integers
  Lookbacks,   \* momentum windows (30, 60, 90, 180)
  TargetVol,   \* the volatility aimed at, in units of a return
  Baseline,    \* window of the ratio gate's median (180)
  LongBaseline,\* window of the percentile gate (1825)
  MinSamples,  \* volatilities the percentile needs (90)
  Sticky       \* bars the gates stay risk-off (20)

ASSUME ClosesAssumption ==
  /\ Closes \subseteq Nat \ {0}
  /\ Scale \in Nat \ {0}
  /\ \A c \in Closes : Scale % c = 0

ASSUME WindowsAssumption ==
  /\ Lookbacks \subseteq Nat \ {0}
  /\ \E longest \in Lookbacks : \A l \in Lookbacks : l <= longest
  /\ {TargetVol, Baseline, LongBaseline, MinSamples, Sticky} \subseteq Nat \ {0}

EnterAt == 25      \* hundredths: long above this mean of signs
ExitAt == -10      \* flat below this one
Band == 15         \* percent the volatility target must move by
Ratio == 150       \* percent of the median that is risk-off
Percentile == 80
VolLookback == 2

FullSize == 200    \* the position 1.0
RiskOn == 2
RiskOff == 1

-------------------------------------------------------------------------------
(* Momentum. *)

Rets(closes) ==
  [i \in 1..Len(closes) - 1 |->
     (Scale * (closes[i + 1] - closes[i])) \div closes[i]]

Sign(x) == IF x > 0 THEN 1 ELSE IF x < 0 THEN -1 ELSE 0

\* The sign of the return over L bars; none where the window has no variance.
LookbackSign(closes, t, L) ==
  LET rets == Rets(closes)
      varies == \E i \in t - L..t - 1 : rets[i] # rets[t - L]
  IN  IF varies THEN Sign(closes[t] - closes[t - L]) ELSE 0

\* tsmom_signal, as the sum of the signs instead of their mean.
Signal(closes) ==
  LET Votes(t, sign) ==
        Cardinality({L \in Lookbacks : LookbackSign(closes, t, L) = sign})
  IN  [t \in 1..Len(closes) |->
         IF t <= Max(Lookbacks) THEN 0 ELSE Votes(t, 1) - Votes(t, -1)]

\* Flat (0) until the signal is above one threshold, long (1) until below another.
NextPosition(pos, r) ==
  LET n == Cardinality(Lookbacks)
  IN  IF pos = 0 /\ 100 * r > EnterAt * n THEN 1
      ELSE IF pos = 1 /\ 100 * r < ExitAt * n THEN 0 ELSE pos

\* hysteresis_positions, from flat.
Hysteresis(signal) ==
  LET pos[t \in 0..Len(signal)] == IF t = 0 THEN 0 ELSE NextPosition(pos[t - 1], signal[t])
  IN  [t \in 1..Len(signal) |-> pos[t]]

Momentum(closes) == Hysteresis(Signal(closes))

-------------------------------------------------------------------------------
(* Volatility, its target, and the gates. *)

Distance(a, b) == IF a < b THEN b - a ELSE a - b

RealizedVol(rets) ==
  [i \in DOMAIN rets |-> IF i < VolLookback THEN 0 ELSE Distance(rets[i], rets[i - 1])]

\* A bug: each bar is given the volatility that the next one ends.
VolAtNextBar(closes) == RealizedVol(Rets(closes)) \o <<0>>

\* The first bar has no return.
VolAtBar(closes) == <<0>> \o RealizedVol(Rets(closes))

\* The multiplier that aims at the target moves only by more than the band.
NextMultiplier(mult, vol) ==
  LET goal == IF vol = 0 THEN 0 ELSE Min({100, (100 * TargetVol) \div vol})
  IN  IF Distance(goal, mult) > Band THEN goal ELSE mult

\* vol_target_multipliers.
VolTarget(closes) ==
  LET vol == VolAtBar(closes)
      mult[i \in 0..Len(vol)] == IF i = 0 THEN 0 ELSE NextMultiplier(mult[i - 1], vol[i])
  IN  [i \in 1..Len(vol) |-> mult[i]]

\* The values above zero of a window, by bar.
Positive(series, first, last) ==
  LET at == {j \in first..last : series[j] > 0} IN [j \in at |-> series[j]]

\* _rolling_median, doubled; 0 while the window is not full or all zero.
RollingMedian(series, window) ==
  [i \in DOMAIN series |->
     LET value == Positive(series, i - window + 1, i)
         n == Cardinality(DOMAIN value)
     IN  IF i < window \/ n = 0 THEN 0
         ELSE Kth(value, (n + 1) \div 2) + Kth(value, n \div 2 + 1)]

\* _rolling_percentile_threshold: 0 with fewer than MinSamples.
RollingPercentile(series) ==
  [i \in DOMAIN series |->
     LET value == Positive(series, Max({1, i - LongBaseline + 1}), i)
         n == Cardinality(DOMAIN value)
     IN  IF n < MinSamples THEN 0
         ELSE Kth(value, (Percentile * (n - 1)) \div 100 + 1)]

\* A bug: one bar less than Sticky is enough.
HeldTooShort(i, since, cool) == i - since < Sticky - 1 \/ ~cool

\* In the regime, bar i ends it only if cool, and Sticky bars after it began.
Held(i, since, cool) == i - since < Sticky \/ ~cool

\* Whether bar i, with an estimate, is risk-off; the regime began at bar since,
\* or there is none.
RiskOffAt(i, since, hot, cool) == IF since = 0 THEN hot[i] ELSE Held(i, since, cool[i])

\* A bar without an estimate leaves the regime as it is.
NextSince(i, since, known, hot, cool) ==
  IF ~known[i] THEN since
  ELSE IF ~RiskOffAt(i, since, hot, cool) THEN 0
  ELSE IF since = 0 THEN i ELSE since

\* The loop both gates share; a bar without an estimate is risk-on.
StickyGate(known, hot, cool) ==
  LET n == Len(known)
      since[i \in 0..n] == IF i = 0 THEN 0 ELSE NextSince(i, since[i - 1], known, hot, cool)
  IN  [i \in 1..n |->
         IF known[i] /\ RiskOffAt(i, since[i - 1], hot, cool) THEN RiskOff ELSE RiskOn]

\* What a gate compares at each bar: volatility against a level.
RatioLevels(closes) ==
  LET vol == VolAtBar(closes)
      base == <<0>> \o RollingMedian(RealizedVol(Rets(closes)), Baseline)
  IN  [known |-> [i \in DOMAIN vol |-> base[i] > 0],
       hot |-> [i \in DOMAIN vol |-> 200 * vol[i] > Ratio * base[i]],
       cool |-> [i \in DOMAIN vol |-> 200 * vol[i] < Ratio * base[i]]]

PercentileLevels(closes) ==
  LET vol == VolAtBar(closes)
      level == RollingPercentile(vol)
  IN  [known |-> [i \in DOMAIN vol |-> level[i] > 0 /\ vol[i] > 0],
       hot |-> [i \in DOMAIN vol |-> vol[i] >= level[i]],
       cool |-> [i \in DOMAIN vol |-> vol[i] < level[i]]]

\* regime_gate_multipliers and regime_gate_percentile_multipliers.
RatioGate(closes) ==
  LET l == RatioLevels(closes) IN StickyGate(l.known, l.hot, l.cool)
PercentileGate(closes) ==
  LET l == PercentileLevels(closes) IN StickyGate(l.known, l.hot, l.cool)

-------------------------------------------------------------------------------
(* The strategies of the command line that follow from the closes. *)

Tsmom(closes) ==
  LET m == Momentum(closes) IN [i \in DOMAIN m |-> m[i] * FullSize]

TsmomVoltarget(closes) ==
  LET m == Momentum(closes)
      v == VolTarget(closes)
  IN  [i \in DOMAIN m |-> m[i] * v[i] * RiskOn]

TsmomFull(closes) ==
  LET m == Momentum(closes)
      v == VolTarget(closes)
      g == RatioGate(closes)
  IN  [i \in DOMAIN m |-> m[i] * v[i] * g[i]]

TsmomFullV2(closes) ==
  LET m == Momentum(closes)
      v == VolTarget(closes)
      g == PercentileGate(closes)
  IN  [i \in DOMAIN m |-> m[i] * v[i] * g[i]]

BuyAndHold(closes) == [i \in DOMAIN closes |-> FullSize]
Flat(closes) == [i \in DOMAIN closes |-> 0]

TrendStrategies == {"tsmom", "tsmom_voltarget", "tsmom_full", "tsmom_full_v2"}
PlainStrategies == {"buy_and_hold", "flat"}

Decided(strategy, closes) ==
  CASE strategy = "tsmom" -> Tsmom(closes)
    [] strategy = "tsmom_voltarget" -> TsmomVoltarget(closes)
    [] strategy = "tsmom_full" -> TsmomFull(closes)
    [] strategy = "tsmom_full_v2" -> TsmomFullV2(closes)
    [] strategy = "buy_and_hold" -> BuyAndHold(closes)
    [] strategy = "flat" -> Flat(closes)
===============================================================================
