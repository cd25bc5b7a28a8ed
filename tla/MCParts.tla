------------------------------- MODULE MCParts -------------------------------
\* Small instances of the parts.
EXTENDS Parts, TLC

CONSTANTS m1, m2, w1, t1, t2, v1, x, y, day1, day2

TwoInOne == m1 :> v1 @@ m2 :> v1
=============================================================================
