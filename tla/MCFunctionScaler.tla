-------------------------- MODULE MCFunctionScaler --------------------------
EXTENDS FunctionScaler

CONSTANTS r1, r2, f1, f2

NoLabel == [f \in Functions |-> 0]                      \* no minimum: one replica is asked for
Mixed == [f \in Functions |-> IF f = f1 THEN 2 ELSE 0]
=============================================================================
