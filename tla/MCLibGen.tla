------------------------------ MODULE MCLibGen ------------------------------
EXTENDS LibGen

CONSTANTS gl, li, r1, r2

TwoOrigins == {gl, li}
TwoRequests == {r1, r2}
ShortBudgets == {0, 1}
=============================================================================
