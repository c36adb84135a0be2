--------------------------- MODULE MCCreditScore ---------------------------
(***************************************************************************)
(* Instances of CreditScore for TLC.                                       *)
(***************************************************************************)
EXTENDS CreditScore

\* a month after the first transaction crosses two tiers of the longevity
\* table, which begin at 1 and at 30 days
Month == {30 * SecondsPerDay}

Second == {1}

\* Either many payment events and nothing else, or at most one repayment and
\* one default besides the transactions and the scores.
Focused ==
  \A s \in Subjects :
    \/ metrics[s] = NoMetrics /\ history[s] = <<>>
    \/ Len(repayments[s]) <= 1 /\ Len(defaults[s]) <= 1

=============================================================================
