--------------------------- MODULE MCSessionService ---------------------------
EXTENDS SessionService

CONSTANTS c1, c2
=============================================================================
