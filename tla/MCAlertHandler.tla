--------------------------- MODULE MCAlertHandler ---------------------------
EXTENDS AlertHistory

CONSTANTS h1, h2, f1, f2

(* An alert that is skipped, one for f2, and two for f1, in either order.  *)
Named(status, f) == [status |-> status, fn |-> f]
SomeBatches ==
  {<<Named("firing", NoFunction)>>, <<Named("resolved", f2)>>,
   <<Named("firing", f1), Named("resolved", f1)>>, <<Named("resolved", f1), Named("firing", f1)>>}

(* f1: two or three replicas; f2: negative labels, which wrap to huge      *)
(* counts.                                                                 *)
WrappingLabels == [f \in Functions |->
  IF f = f1 THEN [min |-> 2, max |-> 3, factor |-> 20]
            ELSE [min |-> -1, max |-> -1, factor |-> NoValue]]
=============================================================================
