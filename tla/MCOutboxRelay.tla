--------------------------- MODULE MCOutboxRelay ---------------------------
EXTENDS OutboxRelay, TLC
CONSTANTS a, b
=============================================================================
