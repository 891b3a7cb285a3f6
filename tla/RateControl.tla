----------------------------- MODULE RateControl -----------------------------
(***************************************************************************)
(* The two Timely rate estimators of the experiments: eRPC's, and its      *)
(* rewrite.  Both turn a round trip time into a sending rate: faster below *)
(* a low mark, slower above a high one, by the gradient of the round trip  *)
(* times in between.  Rates are in units of 10 kB/s, times in microseconds *)
(* and factors in hundredths, cut to whole numbers.                        *)
(***************************************************************************)
EXTENDS Integers, FiniteSetsExt

CONSTANTS
  Links,     \* link bandwidths
  Sessions,  \* sessions that run already
  Rtts,      \* samples
  Gaps,      \* times between samples
  Updates    \* bound on samples

ASSUME RateAssumption ==
  /\ Links \subseteq Nat \ {0} /\ Sessions \subseteq Nat
  /\ Rtts \subseteq Nat \ {0} /\ Gaps \subseteq Nat /\ Updates \in Nat

VARIABLES
  code,      \* "erpc" or "redux"
  link,
  rate,      \* the rate last answered
  prevRtt,
  avgDiff,   \* smoothed difference of round trip times, in hundredths
  since,     \* time since the last sample that counted, up to the code's cap
  updates,
  sample     \* the last sample: its time, and whether it counted

rateVars == <<code, link, rate, prevRtt, avgDiff, since, updates, sample>>

Min2(a, b) == Min({a, b})
Max2(a, b) == Max({a, b})

\* constants of eRPC's Timely and of the rewrite
kMinRate == 1500
kAddRate == 500
kMinRTT == 2
kTLow == 50
kTHigh == 1000
kBeta == 26
kEwmaAlpha == 46

d_alpha == 20
d_beta == 80
d_delta == 125
d_minRttUs == 10
d_maxRttUs == 1000
d_minSampleUs == 1

RateInit ==
  /\ code \in {"erpc", "redux"} /\ link \in Links
  /\ IF code = "erpc" THEN rate = link /\ prevRtt = kMinRTT
     ELSE prevRtt = d_minSampleUs /\ \E n \in Sessions : rate = link \div (n + 1)
  /\ avgDiff = 0 /\ since = 0 /\ updates = 0
  /\ sample = [rtt |-> 0, counted |-> FALSE]

\* w(): how much of the decrease applies, by a gradient in hundredths
Weight(gradient) == Max2(0, Min2(100, 2 * gradient + 50))

\* share of rate, with both factors in hundredths
Scaled(x, delta, factor) == (x * delta * factor) \div 10000

Decreased(beta, delta, high, rtt) ==
  rate - (Scaled(rate, delta, beta) * (rtt - high)) \div rtt

ByGradient(beta, add, delta, weight, error) ==
  rate - (((Scaled(rate, delta, beta) * weight) \div 100) * error) \div 100 + Scaled(add, delta, 100 - weight)

Smoothed(alpha, rtt) == ((100 - alpha) * avgDiff + alpha * 100 * (rtt - prevRtt)) \div 100

MutantErpcRate(rtt, delta) ==
  IF rtt < kTLow THEN rate + Scaled(kAddRate, delta, 100)
  ELSE IF rtt <= kTHigh
       THEN ByGradient(kBeta, kAddRate, delta, Weight(Smoothed(kEwmaAlpha, rtt) \div kMinRTT),
                       ((rtt - kTLow) * 100) \div kTLow)
       ELSE Decreased(kBeta, delta, rtt, kTHigh)

\* the new rate of update_rate, before its bounds
ErpcRate(rtt, delta) ==
  IF rtt < kTLow THEN rate + Scaled(kAddRate, delta, 100)
  ELSE IF rtt <= kTHigh
       THEN ByGradient(kBeta, kAddRate, delta, Weight(Smoothed(kEwmaAlpha, rtt) \div kMinRTT),
                       ((rtt - kTLow) * 100) \div kTLow)
       ELSE Decreased(kBeta, delta, kTHigh, rtt)

ErpcBounded(new) == Max2(kMinRate, Min2(link, Max2(new, rate \div 2)))

\* a sample below the smallest possible time does not count: nothing is updated,
\* not even the time of the last update
UpdateRate(rtt, gap) ==
  LET elapsed == Min2(since + gap, kMinRTT)
      delta == (elapsed * 100) \div kMinRTT
      counts == rtt >= kMinRTT
  IN /\ code = "erpc"
     /\ sample' = [rtt |-> rtt, counted |-> counts]
     /\ IF counts
        THEN /\ rate' = ErpcBounded(ErpcRate(rtt, delta))
             /\ avgDiff' = Smoothed(kEwmaAlpha, rtt)
             /\ prevRtt' = rtt /\ since' = 0
        ELSE since' = elapsed /\ UNCHANGED <<rate, avgDiff, prevRtt>>

\* the new rate of update, before its bounds
ReduxRate(rtt, delta) ==
  IF rtt < d_minRttUs THEN rate + Scaled(d_delta, delta, 100)
  ELSE IF rtt > d_maxRttUs THEN Decreased(d_beta, delta, d_maxRttUs, rtt)
  ELSE ByGradient(d_beta, d_delta, delta, Weight(Smoothed(d_alpha, rtt) \div d_minSampleUs),
                  ((rtt - d_minRttUs) * 100) \div d_minRttUs)

\* the lower bound is d_maxRateBps, which is the bandwidth of the link again, where
\* the header has a smallest rate (d_minRateBps, line 86)
ReduxBounded(new) == Max2(link, Min2(new, link))

\* a sample too soon after the last one does not count
Update(rtt, gap) ==
  LET elapsed == Min2(since + gap, d_minRttUs)
      delta == (elapsed * 100) \div d_minRttUs
      counts == elapsed > d_minSampleUs
  IN /\ code = "redux"
     /\ gap > 0
     /\ sample' = [rtt |-> rtt, counted |-> counts]
     /\ IF counts
        THEN /\ rate' = ReduxBounded(ReduxRate(rtt, delta))
             /\ avgDiff' = Smoothed(d_alpha, rtt)
             /\ prevRtt' = rtt /\ since' = 0
        ELSE since' = elapsed /\ UNCHANGED <<rate, avgDiff, prevRtt>>

RateNext ==
  /\ updates < Updates
  /\ updates' = updates + 1
  /\ \E rtt \in Rtts, gap \in Gaps : UpdateRate(rtt, gap) \/ Update(rtt, gap)
  /\ UNCHANGED <<code, link>>

RateSpec == RateInit /\ [][RateNext]_rateVars

----------------------------------------------------------------------------
(* Properties.                                                             *)

\* eRPC's rate answers to the sample, whatever came before.  A time below the low
\* mark never makes it slower and one above the high mark never faster, save for
\* the smallest rate, which holds even on a slower link; no sample more than
\* halves it, and one that does not count leaves it alone.
ErpcRateReacts ==
  [][code = "erpc" =>
       /\ rate' <= Max2(link, kMinRate)
       /\ 2 * rate' >= rate - 1
       /\ sample'.rtt < kTLow => rate' >= rate
       /\ sample'.rtt > kTHigh => rate' <= Max2(rate, kMinRate)
       /\ ~sample'.counted => rate' = rate]_rateVars
=============================================================================
