------------------------------ MODULE Scoring ------------------------------
(***************************************************************************)
(* The arithmetic of the credit-score contract                             *)
(* (src/contracts/credit-score/src/score.rs and metrics.rs): six           *)
(* sub-scores between 0 and 900 and the weighted composite between         *)
(* SCORE_MIN and SCORE_MAX.  \div is the truncating division of the code:  *)
(* every operand is non-negative.                                          *)
(***************************************************************************)
EXTENDS Integers, Sequences, FiniteSets

SCORE_MIN == 300
SCORE_MAX == 900

SubScores == 0..900

Least(a, b) == IF a <= b THEN a ELSE b

Clamp(n, low, high) == IF n < low THEN low ELSE IF n > high THEN high ELSE n

-----------------------------------------------------------------------------
(***************************************************************************)
(* The tier tables: <<from, sub-score>> in increasing order.  The tier of  *)
(* a quantity is the last one it reaches, so its index is the number of    *)
(* tiers reached.                                                          *)
(***************************************************************************)

Tier(table, n) ==
  table[Cardinality({k \in DOMAIN table : table[k][1] <= n})][2]

VolumeTable ==
  << <<0, 0>>, <<1, 150>>, <<5, 300>>, <<20, 500>>, <<50, 650>>,
     <<100, 750>>, <<250, 820>>, <<500, 900>> >>

LongevityTable ==
  << <<0, 0>>, <<1, 100>>, <<30, 250>>, <<90, 400>>, <<180, 550>>,
     <<365, 700>>, <<730, 800>>, <<1095, 900>> >>

DiversityTable ==
  << <<0, 0>>, <<1, 200>>, <<2, 400>>, <<3, 600>>, <<4, 750>>, <<5, 900>> >>

CrossBorderTable ==
  << <<0, 0>>, <<1, 200>>, <<5, 400>>, <<15, 600>>, <<30, 750>>, <<60, 900>> >>

CredentialsTable ==
  << <<0, 0>>, <<1, 300>>, <<2, 500>>, <<3, 650>>, <<4, 800>>, <<5, 900>> >>

SecondsPerDay == 86400

AgeInDays(created, now) ==
  IF now > created THEN (now - created) \div SecondsPerDay ELSE 0

-----------------------------------------------------------------------------
(***************************************************************************)
(* The payment history sub-score of a PaymentHistory summary.              *)
(***************************************************************************)

\* 400 points scaled by the share of late repayments, in basis points
LatePenalty(ph) ==
  IF ph.total_repayments = 0 THEN 0
  ELSE LET on_time_bps ==
             (ph.on_time_repayments * 10000) \div ph.total_repayments
       IN (400 * (10000 - on_time_bps)) \div 10000

DefaultPenalty(ph) == Least(150 * ph.total_defaults, 600)

PaymentSubscore(ph) ==
  IF ph.total_repayments = 0 /\ ph.total_defaults = 0 THEN 500
  ELSE Clamp(900 - LatePenalty(ph) - DefaultPenalty(ph), 0, 900)

-----------------------------------------------------------------------------

ScoreComponents ==
  [payment_history : SubScores, transaction_volume : SubScores,
   account_longevity : SubScores, asset_diversity : SubScores,
   cross_border_activity : SubScores, credential_completeness : SubScores]

\* the weighted mean of the sub-scores, in 0..900
RawComposite(c) ==
  (c.payment_history * 35 + c.transaction_volume * 20
     + c.account_longevity * 15 + c.asset_diversity * 10
     + c.cross_border_activity * 10 + c.credential_completeness * 10) \div 100

Composite(c) ==
  Clamp(SCORE_MIN + (RawComposite(c) * (SCORE_MAX - SCORE_MIN)) \div 900,
        SCORE_MIN, SCORE_MAX)

=============================================================================
