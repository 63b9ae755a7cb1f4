----------------------------- MODULE MCDelivery -----------------------------
EXTENDS DeliveryRefinement, TLC

MCDeliveries == 1 .. N

Symmetry == Permutations(Workers) \cup Permutations(Recoverers)

\* One answer of each class: flood control with and without a wait, a server
\* error, and a refusal.
Answer(code, wait) ==
    [status |-> code, errorCode |-> Missing, retryAfter |-> wait,
     wording |-> "other"]

MCAnswers == {Answer(429, 3), Answer(429, 0), Answer(502, Missing),
              Answer(403, Missing)}
=============================================================================
