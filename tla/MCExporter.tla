----------------------------- MODULE MCExporter -----------------------------
(* One request and two scrapes; one function, which comes and goes.        *)
EXTENDS Exporter, TLC

CONSTANTS q1, s1, s2, f1, n1

OneNamespace == <<n1>>
AllInOne == f1 :> n1
ComesAndGoes == {f1 :> 1, f1 :> Gone}
=============================================================================
