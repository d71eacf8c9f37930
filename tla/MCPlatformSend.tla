--------------------------- MODULE MCPlatformSend ---------------------------
(* Small instances of PlatformSend.                                          *)
EXTENDS PlatformSend

CONSTANTS a1, a2, t1, t2, s1, s2, b1, b2, m1, m2
=============================================================================
