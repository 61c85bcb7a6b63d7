------------------------------- MODULE Names -------------------------------
(***************************************************************************)
(* How the parts of the gateway derive the name of a function, each in its *)
(* own way (pkg/middleware, handlers/scaling, handlers/notifiers,          *)
(* metrics/add_metrics, metrics/exporter).                                 *)
(*                                                                         *)
(* A name is the sequence of its parts between dots: <<"fn">> or           *)
(* <<"fn", "ns">>.  A request /function/<name> is a record of the name and *)
(* of the form of the request line, as r.URL.String() and r.URL.Path agree *)
(* only on a plain one: in "escaped" characters before the first dot are   *)
(* escaped that need not be, and "absolute" begins with scheme and host.   *)
(***************************************************************************)
EXTENDS Integers, Sequences

Forms == {"plain", "escaped", "absolute"}

Empty == ""                            \* no name, no namespace
NoName == <<Empty>>
Escaped(name) == [name EXCEPT ![1] = "%"]  \* as it stands in an escaped URL

(* GetServiceName, of r.URL.String(): only what begins with /function/.    *)
GetServiceName(url) ==
  CASE url.form = "plain" -> url.name
    [] url.form = "escaped" -> Escaped(url.name)
    [] url.form = "absolute" -> NoName

(* GetNamespace splits a name at the last dot; one without a dot is in the *)
(* default namespace.  A function is the pair of the two.                  *)
GetNamespace(default, name) ==
  IF Len(name) > 1
    THEN <<SubSeq(name, 1, Len(name) - 1), name[Len(name)]>>
    ELSE <<name, default>>

(* What MakeScalingHandler has scaled, and the label under which the       *)
(* Prometheus notifier counts.                                             *)
Scaled(default, url) == GetNamespace(default, GetServiceName(url))
CountedBare(default, url) == GetServiceName(url)         \* slip: no namespace is added
Counted(default, url) ==
  LET name == GetServiceName(url)
  IN  IF default # Empty /\ Len(name) <= 1 THEN Append(name, default) ELSE name

(* The label that mixIn looks for, for a function of the list, and the     *)
(* label of a function in the gauge of replicas.                           *)
MixedIn(fn) == Append(fn[1], fn[2])
GaugeLabelBare(fn) == fn[1]                              \* slip: no namespace is added
GaugeLabel(fn) == IF fn[2] # Empty THEN Append(fn[1], fn[2]) ELSE fn[1]
=============================================================================
