--------------------------- MODULE MCSSHSessions ---------------------------
EXTENDS SSHSessions

CONSTANTS p1, p2, s1, s2
=============================================================================
