----------------------------- MODULE MCPriceCache -----------------------------
EXTENDS PriceCache

CONSTANTS c1, c2, shoes, phone
=============================================================================
