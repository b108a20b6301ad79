---------------------------- MODULE MCPaidAccess ----------------------------
EXTENDS PaidAccess

CONSTANTS s1, s2, w, p1

OneSub == {s1}
TwoSubs == {s1, s2}
Invocation == {w}
OnePass == {p1}
=============================================================================
