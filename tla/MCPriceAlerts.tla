---------------------------- MODULE MCPriceAlerts ----------------------------
EXTENDS PriceAlerts

CONSTANTS p1, p2, shoes, phone

Targets == [w \in Watch |-> IF w = 1 THEN 20 ELSE 10]
=============================================================================
