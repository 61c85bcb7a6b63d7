---------------------------- MODULE MCAutoscaling ----------------------------
EXTENDS Autoscaling

CONSTANTS r1, r2, h1, h2, f1, f2

(* None to two replicas, in steps of one, which a factor of 30 rounds to.  *)
SmallLabels == [f \in Functions |-> [min |-> 0, max |-> 2, factor |-> 30]]

SingleAlerts == {<<[status |-> s, fn |-> f]>> : s \in {"firing", "resolved"}, f \in Functions}
=============================================================================
