--------------------------- MODULE MCDeviceGateway ---------------------------
EXTENDS DeviceGateway

CONSTANTS c1, c2, m1, m2, u1, qq, tg

(* The machines of one user may take a gateway over from each other.       *)
MCUserOf == [m \in Machines |-> u1]

MCMaxClaims == [p \in Platforms |-> IF p = qq THEN 2 ELSE 1]
=============================================================================
