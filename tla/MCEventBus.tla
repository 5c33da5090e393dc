------------------------------ MODULE MCEventBus ------------------------------
EXTENDS EventBus

CONSTANTS h1, h2, price

\* h1 hears one type, h2 that type and, as a wildcard handler, every event.
PairsThree == {<<price, h1>>, <<price, h2>>, <<All, h2>>}
=============================================================================
