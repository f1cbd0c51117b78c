------------------------------ MODULE MCAccess ------------------------------
EXTENDS Access

CONSTANTS n1, n2, r1, r2, pA
=============================================================================
