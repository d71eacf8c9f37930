------------------------- MODULE MCGmailMailboxSync -------------------------
EXTENDS GmailMailboxSync, TLC

CONSTANTS r1, r2

MCOwners == {r1, r2}

RunSymmetry == Permutations(MCOwners)
=============================================================================
