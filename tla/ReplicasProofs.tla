--------------------------- MODULE ReplicasProofs ---------------------------
(***************************************************************************)
(* What holds of the arithmetic on replica counts for every count, label   *)
(* and scaling factor.                                                     *)
(***************************************************************************)
EXTENDS Replicas, TLAPS

(* Counts are natural numbers.                                             *)
LEMMA UintMember == UintMod \in Nat /\ UintMod > 100 /\ Uint \subseteq Nat
  BY UintAssumption DEF Uint

(* Converting any integer to a count gives a count.                        *)
LEMMA ModMember == \A n \in Int : n % UintMod \in Uint
  BY UintAssumption DEF Uint

(* Arithmetic that stays below the modulus does not wrap.                  *)
LEMMA ModSmall == \A n \in Nat : n < UintMod => n % UintMod = n
  BY UintAssumption

(* The ceiling of a firing alert.                                          *)
LEMMA CapBounds == \A max \in Uint : Cap(max) \in 0 .. DefaultMaxReplicas
  BY UintMember DEF Cap, DefaultMaxReplicas

(* A step is at least one replica and at most the whole ceiling.           *)
LEMMA StepBounds ==
  ASSUME NEW cap \in 0 .. DefaultMaxReplicas, NEW factor \in 1 .. 100
  PROVE  Step(cap, factor) \in 0 .. cap /\ (cap > 0 => Step(cap, factor) >= 1)
<1>0. cap \in {0, 1, 2, 3, 4, 5}
  BY DEF DefaultMaxReplicas
<1>1. CASE cap = 0
  BY <1>1 DEF Step
<1>2. CASE cap = 1
  BY <1>2 DEF Step
<1>3. CASE cap = 2
  BY <1>3 DEF Step
<1>4. CASE cap = 3
  BY <1>4 DEF Step
<1>5. CASE cap = 4
  BY <1>5 DEF Step
<1>6. CASE cap = 5
  BY <1>6 DEF Step
<1> QED
  BY <1>0, <1>1, <1>2, <1>3, <1>4, <1>5, <1>6

(* CalculateReplicas from a count that is not above the ceiling: a firing  *)
(* alert adds at least one replica until the ceiling is reached, and never *)
(* exceeds it.                                                             *)
LEMMA FiringCount ==
  ASSUME NEW current \in Uint, NEW max \in Uint, NEW min \in Uint,
         NEW factor \in 1 .. 100, Cap(max) > 0, current <= Cap(max)
  PROVE  LET n == CalculateReplicas("firing", current, max, min, factor)
         IN  /\ n \in current .. Cap(max)
             /\ current < Cap(max) => n > current
<1>1. Cap(max) \in 0 .. DefaultMaxReplicas
  BY CapBounds
<1>2. Step(Cap(max), factor) \in 1 .. Cap(max)
  BY <1>1, StepBounds
<1>3. current + Step(Cap(max), factor) \in Nat
      /\ current + Step(Cap(max), factor) < UintMod
  BY <1>1, <1>2, UintMember DEF DefaultMaxReplicas
<1>4. (current + Step(Cap(max), factor)) % UintMod = current + Step(Cap(max), factor)
  BY <1>3, ModSmall
<1> QED
  BY <1>1, <1>2, <1>4, UintMember DEF CalculateReplicas

(* Any other alert asks for the minimum.                                   *)
LEMMA ResolvedCount ==
  ASSUME NEW current, NEW max, NEW min, NEW factor
  PROVE  CalculateReplicas("resolved", current, max, min, factor) = min
  BY DEF CalculateReplicas

(* Whatever the labels, an alert asks for a uint64.                        *)
LEMMA AnyCount ==
  ASSUME NEW status, NEW current \in Uint, NEW max \in Uint, NEW min \in Uint,
         NEW factor \in Uint
  PROVE  CalculateReplicas(status, current, max, min, factor) \in Uint
<1>1. Cap(max) \in Uint
  BY UintAssumption DEF Cap, DefaultMaxReplicas, Uint
<1>2. Cap(max) \in {0, 1, 2, 3, 4, 5} /\ factor \in Nat
  BY CapBounds, UintMember DEF DefaultMaxReplicas
<1>3. Step(Cap(max), factor) \in Nat
  <2>1. \A cap \in {0, 1, 2, 3, 4, 5} : cap * factor + 99 \in Nat
    BY <1>2
  <2> QED
    BY <1>2, <2>1 DEF Step
<1>4. (current + Step(Cap(max), factor)) % UintMod \in Uint
  BY <1>3, UintMember, ModMember
<1> QED
  BY <1>1, <1>4 DEF CalculateReplicas

(* Labels read as counts, whatever their sign.                             *)
LEMMA ReadLabelsTyped ==
  ASSUME NEW l, ProperLabels(l)
  PROVE  /\ ReadLabels(l).min \in Uint
         /\ ReadLabels(l).max \in Uint
         /\ ReadLabels(l).factor \in Uint
<1>1. {DefaultMinReplicas, DefaultMaxReplicas, DefaultScalingFactor} \subseteq Uint
  BY UintAssumption DEF DefaultMinReplicas, DefaultMaxReplicas, DefaultScalingFactor, Uint
<1>2. ASSUME NEW v, v = NoValue \/ v \in Int, NEW d \in Uint
      PROVE  ExtractLabelValue(v, d) \in Uint
  BY <1>2, ModMember DEF ExtractLabelValue
<1>3. /\ l.min = NoValue \/ l.min \in Int
      /\ l.max = NoValue \/ l.max \in Int
      /\ l.factor = NoValue \/ l.factor \in Int
  BY DEF ProperLabels
<1> QED
  BY <1>1, <1>2, <1>3 DEF ReadLabels

(* An operator's request is brought into the range of alerts.              *)
LEMMA ClampBounds == \A n \in Uint : ClampScaleRequest(n) \in 1 .. DefaultMaxReplicas
  BY UintMember DEF ClampScaleRequest, DefaultMaxReplicas
=============================================================================
