----------------------------- MODULE MCUserList -----------------------------
EXTENDS UserList

CONSTANTS me, u1, u2
=============================================================================
