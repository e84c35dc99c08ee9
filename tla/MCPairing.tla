----------------------------- MODULE MCPairing -----------------------------
EXTENDS Pairing, TLC

CONSTANTS Home, Work

Each == {<<Home, 1>>, <<Work, 1>>}
=============================================================================
