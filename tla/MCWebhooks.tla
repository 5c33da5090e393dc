------------------------------ MODULE MCWebhooks ------------------------------
EXTENDS Webhooks, TLC

CONSTANTS h1, h2, d1, d2

\* Both events go to h1, one of them to h2 also.
WantsOne == h1 :> {d1, d2} @@ h2 :> {d1}
=============================================================================
