------------------------------ MODULE Replicas ------------------------------
(***************************************************************************)
(* The gateway's arithmetic on replica counts: reading a function's scale  *)
(* labels (plugin/external.go), the step an alert takes (handlers/         *)
(* alerthandler.go) and the range of POST /system/scale-function           *)
(* (scaling/ranges.go).  Counts are uint64: they wrap at UintMod.          *)
(***************************************************************************)
EXTENDS Integers

CONSTANTS
  UintMod,      \* 2^64
  NoValue       \* a label that is missing, or that strconv.Atoi cannot parse

ASSUME UintAssumption == UintMod \in Nat /\ UintMod > 100

Uint == 0 .. UintMod - 1

(* scaling/ranges.go                                                       *)
DefaultMinReplicas == 1
DefaultMaxReplicas == 5
DefaultScalingFactor == 10

(* uint64(value) of an int: a negative label becomes a huge count.         *)
ExtractSigned(label, fallback) ==                              \* slip: no conversion
  IF label = NoValue THEN fallback ELSE label
ExtractLabelValue(label, fallback) ==
  IF label = NoValue THEN fallback ELSE label % UintMod

(* The scale labels of a function: integers, or unset.                     *)
ProperLabels(l) == {l.min, l.max, l.factor} \ {NoValue} \subseteq Int

(* The scale labels of a function as GetReplicas reads them; it fails when *)
(* the factor is out of range.  Nil labels read like missing ones.         *)
ReadLabels(l) ==
  [min    |-> ExtractLabelValue(l.min, DefaultMinReplicas),
   max    |-> ExtractLabelValue(l.max, DefaultMaxReplicas),
   factor |-> ExtractLabelValue(l.factor, DefaultScalingFactor)]

FactorInRange(l) == ReadLabels(l).factor > 0 /\ ReadLabels(l).factor <= 100

(* math.Ceil(cap / 100 * factor), for cap \in 0..5 and factor \in 1..100.  *)
StepRoundedDown(cap, factor) == (cap * factor) \div 100        \* slip: floor
Step(cap, factor) == (cap * factor + 99) \div 100

Cap(max) == IF max < DefaultMaxReplicas THEN max ELSE DefaultMaxReplicas

(* CalculateReplicas; "resolved" is every status but "firing".             *)
CalculateUncapped(status, current, max, min, factor) ==        \* slip: no ceiling
  IF status = "firing" THEN (current + Step(Cap(max), factor)) % UintMod ELSE min
CalculateReplicas(status, current, max, min, factor) ==
  LET cap == Cap(max)
      step == Step(cap, factor)
      next == (current + step) % UintMod
  IN  IF status = "firing" /\ step > 0
        THEN IF next > cap THEN cap ELSE next
        ELSE min

(* MakeHorizontalScalingHandler                                            *)
ClampBelow(n) == IF n < 1 THEN 1 ELSE n                         \* slip: no upper bound
ClampScaleRequest(n) ==
  IF n < 1 THEN 1 ELSE IF n > DefaultMaxReplicas THEN DefaultMaxReplicas ELSE n
=============================================================================
