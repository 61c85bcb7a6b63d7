-------------------------- MODULE AutoscalingProofs --------------------------
(***************************************************************************)
(* The parts of the gateway that scale run together as each of their       *)
(* modules says: every step of Autoscaling is a step of FunctionScaler and *)
(* one of AlertHandler, where the steps of the others are other clients'.  *)
(* That needs to know what an alert can make of a count, whatever it has   *)
(* read and whatever the labels are: see Inv and AlertCount.               *)
(***************************************************************************)
EXTENDS Autoscaling, ReplicasProofs, SequenceTheorems

(* Counts from which a step of an alert does not wrap.                     *)
Room == 0 .. UintMod - 1 - DefaultMaxReplicas

(* The counts that f may have, and those that the gateway asks for.        *)
Counts(f) == Room \cup {Minimum(f)}
Writable(f) ==
  (1 .. DefaultMaxReplicas) \cup {Minimum(f)} \cup (IF Wraps(f) THEN {0} ELSE {})

(* Counts that are written, and so counts that are read, have room for a   *)
(* step or are the minimum; a count is read only for a deployed function.  *)
CountsKept == desired \in [Functions -> Uint] /\ \A f \in Functions : desired[f] \in Counts(f)
Inv ==
  /\ CountsKept
  /\ batch \in [Handlers -> Seq(Alerts!Alerts)]
  /\ outcomes \in [Handlers -> Seq(Alerts!Outcomes)]
  /\ seen \in [Handlers -> Uint \cup {Alerts!NotRead}]
  /\ answer \in [Handlers -> {"none", "busy", "200", "400", "500", "aborted"}]
  /\ \A h \in Handlers :
       seen[h] # Alerts!NotRead =>
         /\ Alerts!AtAlert(h) /\ Alerts!Alert(h).fn \in Functions
         /\ seen[h] \in Counts(Alerts!Alert(h).fn)

(* Both are counts, and what is written may be had.                        *)
LEMMA CountBounds ==
  ASSUME NEW f \in Functions
  PROVE  /\ Minimum(f) \in Uint /\ Room \subseteq Uint /\ 0 \in Room
         /\ Writable(f) \subseteq Counts(f) /\ Counts(f) \subseteq Uint
<1>1. Minimum(f) \in Uint
  BY LabelsRead, ReadLabelsTyped DEF Minimum
<1>2. Room \subseteq Uint /\ 0 \in Room /\ 1 .. DefaultMaxReplicas \subseteq Room
  BY UintAssumption DEF Room, Uint, DefaultMaxReplicas
<1> QED
  BY <1>1, <1>2 DEF Writable, Counts

(* The alert that a handler is at is one.                                  *)
LEMMA AlertTyped ==
  ASSUME Inv, NEW h \in Handlers, Alerts!AtAlert(h)
  PROVE  /\ Alerts!Alert(h).status \in {"firing", "resolved"}
         /\ Alerts!Alert(h).fn \in Functions \cup {NoFunction}
<1>1. batch[h] \in Seq(Alerts!Alerts) /\ outcomes[h] \in Seq(Alerts!Outcomes)
  BY DEF Inv
<1>2. Len(outcomes[h]) \in Nat /\ Len(batch[h]) \in Nat
  BY <1>1
<1>3. Len(outcomes[h]) + 1 \in 1 .. Len(batch[h])
  BY <1>2 DEF Alerts!AtAlert
<1>4. Alerts!Alert(h) \in Alerts!Alerts
  BY <1>1, <1>3 DEF Alerts!Alert
<1> QED
  BY <1>4 DEF Alerts!Alerts

(* The instance's arithmetic is Replicas'.                                 *)
LEMMA SameArithmetic ==
  /\ \A l : Alerts!ReadLabels(l) = ReadLabels(l)
  /\ \A max : Alerts!Cap(max) = Cap(max)
  /\ \A cap, factor : Alerts!Step(cap, factor) = Step(cap, factor)
  /\ \A status, current, max, min, factor :
       Alerts!CalculateReplicas(status, current, max, min, factor)
         = CalculateReplicas(status, current, max, min, factor)
<1>1. \A v, d : Alerts!ExtractLabelValue(v, d) = ExtractLabelValue(v, d)
  BY DEF Alerts!ExtractLabelValue, ExtractLabelValue
<1>2. \A l : Alerts!ReadLabels(l) = ReadLabels(l)
  BY <1>1 DEF Alerts!ReadLabels, ReadLabels, Alerts!DefaultMinReplicas, DefaultMinReplicas,
     Alerts!DefaultMaxReplicas, DefaultMaxReplicas, Alerts!DefaultScalingFactor,
     DefaultScalingFactor
<1>3. \A max : Alerts!Cap(max) = Cap(max)
  BY DEF Alerts!Cap, Cap, Alerts!DefaultMaxReplicas, DefaultMaxReplicas
<1>4. \A cap, factor : Alerts!Step(cap, factor) = Step(cap, factor)
  BY DEF Alerts!Step, Step
<1>5. ASSUME NEW status, NEW current, NEW max, NEW min, NEW factor
      PROVE  Alerts!CalculateReplicas(status, current, max, min, factor)
               = CalculateReplicas(status, current, max, min, factor)
  BY <1>3, <1>4 DEF Alerts!CalculateReplicas, CalculateReplicas
<1> QED
  BY <1>2, <1>3, <1>4, <1>5

(* The scaler asks for the minimum, or for one replica; never for none.    *)
LEMMA TargetWritable ==
  ASSUME NEW f \in Functions
  PROVE  Scaler!Target(f) \in Writable(f) /\ Scaler!Target(f) # 0
<1>1. Minimum(f) \in Nat
  BY CountBounds, UintMember
<1>2. Scaler!Target(f) = IF Minimum(f) > 0 THEN Minimum(f) ELSE 1
  BY DEF Scaler!Target
<1> HIDE DEF Minimum
<1> QED
  BY <1>1, <1>2 DEF Writable, DefaultMaxReplicas

(* When an alert may ask for no replica.                                   *)
AsksForNone(h) ==
  LET f == Alerts!Alert(h).fn
  IN  IF Alerts!Alert(h).status = "resolved"
        THEN Minimum(f) = 0
        ELSE (Minimum(f) = 0 /\ Alerts!Highest(f) = 0) \/ Wraps(f)

(* An alert asks for one to five replicas or for the minimum, or for none  *)
(* if a step from the minimum wraps.                                       *)
LEMMA AlertCount ==
  ASSUME Inv, NEW h \in Handlers, seen[h] # Alerts!NotRead
  PROVE  /\ Alerts!NewReplicas(h) \in Writable(Alerts!Alert(h).fn)
         /\ Alerts!NewReplicas(h) = 0 => AsksForNone(h)
<1> DEFINE f == Alerts!Alert(h).fn
           l == ReadLabels(Labels[f])
           status == Alerts!Alert(h).status
           min == Minimum(f)
           cap == Cap(l.max)
           step == Step(cap, l.factor)
           next == (seen[h] + step) % UintMod
<1>1. f \in Functions /\ seen[h] \in Counts(f)
  BY DEF Inv
<1>2. min \in Uint /\ min = l.min /\ l.max \in Uint /\ l.factor \in 1 .. 100
  <2>1. l.factor \in Uint /\ l.max \in Uint /\ l.factor > 0 /\ l.factor <= 100
    BY <1>1, LabelsRead, ReadLabelsTyped DEF FactorInRange
  <2>2. l.factor \in Nat
    BY <2>1, UintMember
  <2> QED
    BY <1>1, <2>1, <2>2, CountBounds DEF Minimum
<1>3. cap \in 0 .. DefaultMaxReplicas
  BY <1>2, CapBounds
<1>4. step \in 0 .. cap /\ (cap > 0 => step >= 1)
  BY <1>2, <1>3, StepBounds
<1>5. Alerts!NewReplicas(h)
        = IF status = "firing" /\ step > 0 THEN IF next > cap THEN cap ELSE next ELSE min
  BY <1>2, SameArithmetic DEF Alerts!NewReplicas, CalculateReplicas
<1>6. Alerts!Highest(f) = cap
  BY SameArithmetic DEF Alerts!Highest
<1>7. Wraps(f) <=> min >= UintMod - DefaultMaxReplicas
  BY DEF Wraps
<1>8. seen[h] \in Uint /\ (seen[h] \in Room \/ seen[h] = min)
  BY <1>1, CountBounds DEF Counts
<1>9. CASE status = "firing" /\ step > 0
  <2>1. next \in Uint
    <3>1. seen[h] \in Nat
      BY <1>8, UintMember
    <3> HIDE DEF step, cap
    <3>2. step \in Nat
      BY <1>3, <1>4
    <3>3. seen[h] + step \in Int
      BY <3>1, <3>2
    <3> QED
      BY <3>3, ModMember DEF step
  <2>2. seen[h] \in Room => next # 0
    <3> SUFFICES ASSUME seen[h] \in Room PROVE next # 0
      OBVIOUS
    <3>1. /\ seen[h] + step \in Nat /\ seen[h] + step < UintMod /\ seen[h] + step # 0
      BY <1>3, <1>4, <1>9, UintAssumption DEF Room, DefaultMaxReplicas
    <3> QED
      BY <3>1, ModSmall
  <2>3. seen[h] \notin Room => Wraps(f)
    BY <1>2, <1>7, <1>8, UintAssumption DEF Room, Uint, DefaultMaxReplicas
  <2>4. Alerts!NewReplicas(h) = IF next > cap THEN cap ELSE next
    BY <1>5, <1>9
  <2>5. cap \in 1 .. DefaultMaxReplicas
    BY <1>3, <1>4, <1>9 DEF DefaultMaxReplicas
  <2> HIDE DEF f, status, min, cap, step, next
  <2>6. next > cap \/ next = 0 \/ next \in 1 .. DefaultMaxReplicas
    BY <2>1, <2>5, UintMember DEF DefaultMaxReplicas
  <2>7. cap # 0
    BY <2>5 DEF DefaultMaxReplicas
  <2>8. Alerts!NewReplicas(h) \in 1 .. DefaultMaxReplicas
        \/ (Alerts!NewReplicas(h) = 0 /\ Wraps(f))
    BY <2>2, <2>3, <2>4, <2>5, <2>6
  <2>9. 0 \notin 1 .. DefaultMaxReplicas
    BY DEF DefaultMaxReplicas
  <2> QED
    BY <1>9, <2>8, <2>9 DEF Writable, AsksForNone, f, status
<1>10. CASE ~(status = "firing" /\ step > 0)
  <2>1. Alerts!NewReplicas(h) = min
    BY <1>5, <1>10
  <2>2. status = "resolved" \/ cap = 0
    <3>1. status \in {"firing", "resolved"}
      BY AlertTyped DEF Inv
    <3>2. status # "firing" \/ cap = 0
      BY <1>3, <1>4, <1>10 DEF DefaultMaxReplicas
    <3> QED
      BY <3>1, <3>2
  <2> QED
    BY <1>6, <2>1, <2>2 DEF Writable, AsksForNone
<1> QED
  BY <1>9, <1>10

-----------------------------------------------------------------------------
(* What each step writes                                                   *)

Written(f, n) == desired' = [desired EXCEPT ![f] = n]

(* Scale writes its target, and only when SetReplicas is applied.          *)
LEMMA ScalerWrites ==
  ASSUME ScalerStep
  PROVE  UNCHANGED desired \/ \E f \in Functions : Written(f, Scaler!Target(f))
<1>1. ASSUME NEW r \in Requests, Scaler!Handler(r) PROVE UNCHANGED desired
  BY <1>1 DEF Scaler!Handler, Scaler!LookUp, Scaler!Call, Scaler!AfterFirst,
     Scaler!AfterRetryGet, Scaler!AfterSet, Scaler!AfterPoll, Scaler!Unwind,
     Scaler!Respond, Scaler!provider
<1>2. ASSUME NEW r \in Requests, NEW f \in Functions, Scaler!Arrive(r, f) \/ Scaler!Leave(r)
      PROVE  UNCHANGED desired
  BY <1>2 DEF Scaler!Arrive, Scaler!Leave, Scaler!provider
<1>3. ASSUME NEW r \in Requests, Scaler!Leave(r) PROVE UNCHANGED desired
  BY <1>3 DEF Scaler!Leave, Scaler!provider
<1>4. ASSUME NEW f \in Functions, Scaler!AnswerGet(f) PROVE UNCHANGED desired
  BY <1>4 DEF Scaler!AnswerGet, Scaler!provider
<1>5. ASSUME NEW f \in Functions, Scaler!AnswerSet(f)
      PROVE  UNCHANGED desired \/ Written(f, Scaler!Target(f))
  BY <1>5 DEF Scaler!AnswerSet, Written
<1>6. ASSUME NEW k \in Scaler!Keys, Scaler!Land(k) PROVE UNCHANGED desired
  BY <1>6 DEF Scaler!Land, Scaler!provider
<1>7. ASSUME NEW f \in Functions, Scaler!StartReplica(f) \/ Scaler!StopReplica(f)
      PROVE  UNCHANGED desired
  BY <1>7 DEF Scaler!StartReplica, Scaler!StopReplica
<1>8. CASE Scaler!Tick
  BY <1>8 DEF Scaler!Tick, Scaler!provider
<1> QED
  BY <1>1, <1>2, <1>3, <1>4, <1>5, <1>6, <1>7, <1>8 DEF ScalerStep

(* scaleService writes what CalculateReplicas made of the count it read.   *)
LEMMA AlertWrites ==
  ASSUME AlertStep
  PROVE  \/ UNCHANGED desired
         \/ \E h \in Handlers :
              /\ Alerts!Update(h) /\ seen[h] # Alerts!NotRead
              /\ Written(Alerts!Alert(h).fn, Alerts!NewReplicas(h))
<1> PICK h \in Handlers : Alerts!Receive(h) \/ Alerts!Handle(h) \/ Alerts!Leave(h)
  BY DEF AlertStep
<1>1. CASE Alerts!Update(h)
  BY <1>1 DEF Alerts!Update, Written
<1>2. CASE Alerts!Receive(h) \/ Alerts!Leave(h) \/ Alerts!Skip(h) \/ Alerts!Query(h)
           \/ Alerts!Keep(h) \/ Alerts!Respond(h)
  BY <1>2 DEF Alerts!Receive, Alerts!Leave, Alerts!Skip, Alerts!Query, Alerts!Keep,
     Alerts!Respond
<1> QED
  BY <1>1, <1>2 DEF Alerts!Handle

(* Operators' counts are in range, whatever they ask for (ranges.go:58).   *)
LEMMA OperatorWrites ==
  ASSUME NEW f \in Functions, ScaleFunction(f)
  PROVE  \E n \in 1 .. DefaultMaxReplicas : Written(f, n)
  BY InputsTyped, ClampBounds DEF ScaleFunction, Written

(* So every part of the gateway writes a function's writable counts.       *)
SomeWrite ==
  UNCHANGED desired \/ \E f \in Functions : \E n \in Writable(f) : Written(f, n)

LEMMA GatewayWrites == ASSUME Inv, GatewayStep PROVE SomeWrite
<1>1. CASE ScalerStep
  BY <1>1, ScalerWrites, TargetWritable DEF SomeWrite
<1>2. CASE AlertStep
  <2>1. ASSUME NEW h \in Handlers, seen[h] # Alerts!NotRead
        PROVE  /\ Alerts!Alert(h).fn \in Functions
               /\ Alerts!NewReplicas(h) \in Writable(Alerts!Alert(h).fn)
    BY <2>1, AlertCount DEF Inv
  <2> QED
    BY <1>2, <2>1, AlertWrites DEF SomeWrite
<1>3. ASSUME NEW f \in Functions, ScaleFunction(f) PROVE SomeWrite
  BY <1>3, OperatorWrites DEF SomeWrite, Writable
<1> QED
  BY <1>1, <1>2, <1>3 DEF GatewayStep

(* The idler writes nothing but zero.                                      *)
LEMMA IdlerWritesZero ==
  ASSUME NEW f \in Functions, Idle(f)
  PROVE  0 \in IdlerWrites /\ Written(f, 0)
  BY InputsTyped DEF Idle, Written

-----------------------------------------------------------------------------
(* The invariant                                                           *)

(* The invariant holds initially.                                          *)
LEMMA InvInit == Init => Inv
<1> SUFFICES ASSUME Init PROVE Inv
  OBVIOUS
<1>1. CountsKept
  BY InputsTyped, CountBounds DEF Init, Scaler!Init, Room, CountsKept, Counts
<1>2. << >> \in Seq(Alerts!Alerts) /\ << >> \in Seq(Alerts!Outcomes)
  OBVIOUS
<1> QED
  BY <1>1, <1>2 DEF Init, Alerts!Init, Inv

(* What is written may be had.                                             *)
LEMMA WritesKept ==
  ASSUME Inv, SomeWrite \/ \E f \in Functions : Written(f, 0)
  PROVE  CountsKept'
<1>1. CASE UNCHANGED desired
  BY <1>1 DEF Inv, CountsKept
<1>2. ASSUME NEW f \in Functions, NEW n \in Counts(f), Written(f, n) PROVE CountsKept'
  BY <1>2, CountBounds DEF Inv, CountsKept, Written
<1>3. \A f \in Functions : 0 \in Counts(f) /\ Writable(f) \subseteq Counts(f)
  BY CountBounds DEF Counts
<1> QED
  BY <1>1, <1>2, <1>3 DEF SomeWrite

(* Steps of others leave a handler's state alone.                          *)
LEMMA InvOthers ==
  ASSUME Inv, UNCHANGED alertsOnly, SomeWrite \/ \E f \in Functions : Written(f, 0)
  PROVE  Inv'
  BY WritesKept DEF Inv, alertsOnly, Alerts!AtAlert, Alerts!Alert

(* Finishing an alert keeps the invariant.                                 *)
LEMMA AlertDoneInv ==
  ASSUME Inv, NEW h \in Handlers, NEW o \in Alerts!Outcomes, Alerts!AlertDone(h, o),
         CountsKept'
  PROVE  Inv'
<1>1. Append(outcomes[h], o) \in Seq(Alerts!Outcomes)
  BY AppendProperties DEF Inv
<1> QED
  BY <1>1 DEF Inv, Alerts!AlertDone, Alerts!AtAlert, Alerts!Alert

(* The alert handlers' steps keep the invariant.                           *)
LEMMA InvAlerts == ASSUME Inv, AlertStep PROVE Inv'
<1>0. CountsKept'
  BY GatewayWrites, WritesKept DEF GatewayStep
<1> PICK h \in Handlers : Alerts!Receive(h) \/ Alerts!Handle(h) \/ Alerts!Leave(h)
  BY DEF AlertStep
<1>1. CASE Alerts!Receive(h)
  <2>1. seen[h] = Alerts!NotRead
    BY <1>1 DEF Alerts!Receive, Inv, Alerts!AtAlert
  <2>2. batch' \in [Handlers -> Seq(Alerts!Alerts)]
    BY <1>1, InputsTyped DEF Alerts!Receive, Inv
  <2>3. seen' = seen /\ outcomes' = outcomes
    BY <1>1 DEF Alerts!Receive
  <2>4. \A g \in Handlers \ {h} : batch'[g] = batch[g] /\ answer'[g] = answer[g]
    BY <1>1 DEF Alerts!Receive, Inv
  <2>5. \A g \in Handlers :
           seen'[g] # Alerts!NotRead
             => /\ Alerts!AtAlert(g)' /\ Alerts!Alert(g).fn' \in Functions
                /\ seen'[g] \in Counts(Alerts!Alert(g).fn)'
    BY <2>1, <2>3, <2>4 DEF Inv, Alerts!AtAlert, Alerts!Alert
  <2> QED
    BY <1>0, <1>1, <2>2, <2>3, <2>5 DEF Inv, Alerts!Receive
<1>2. CASE Alerts!Skip(h) \/ Alerts!Keep(h)
  BY <1>0, <1>2, AlertDoneInv DEF Alerts!Skip, Alerts!Keep, Alerts!Outcomes
<1>3. CASE Alerts!Query(h)
  <2>1. Alerts!AtAlert(h) /\ Alerts!Alert(h).fn \in Functions
    BY <1>3, AlertTyped DEF Alerts!Query
  <2>2. CASE Alerts!AlertDone(h, "unread")
    BY <1>0, <2>2, AlertDoneInv DEF Alerts!Outcomes
  <2>3. CASE /\ seen' = [seen EXCEPT ![h] = desired[Alerts!Alert(h).fn]]
             /\ UNCHANGED <<batch, outcomes, answer>>
    BY <1>0, <2>1, <2>3 DEF Inv, CountsKept, Alerts!AtAlert, Alerts!Alert
  <2> QED
    BY <1>3, <2>2, <2>3 DEF Alerts!Query
<1>4. CASE Alerts!Update(h)
  <2>1. CASE Alerts!AlertDone(h, "scaled") \/ Alerts!AlertDone(h, "failed")
    BY <1>0, <2>1, AlertDoneInv DEF Alerts!Outcomes
  <2>2. CASE /\ answer' = [answer EXCEPT ![h] = "aborted"]
             /\ seen' = [seen EXCEPT ![h] = Alerts!NotRead]
             /\ UNCHANGED <<batch, outcomes>>
    BY <1>0, <2>2 DEF Inv, Alerts!AtAlert, Alerts!Alert
  <2> QED
    BY <1>4, <2>1, <2>2 DEF Alerts!Update
<1>5. CASE Alerts!Respond(h)
  BY <1>0, <1>5 DEF Alerts!Respond, Inv, Alerts!AtAlert, Alerts!Alert
<1>6. CASE Alerts!Leave(h)
  BY <1>0, <1>6 DEF Alerts!Leave, Inv, Alerts!AtAlert, Alerts!Alert
<1> QED
  BY <1>1, <1>2, <1>3, <1>4, <1>5, <1>6 DEF Alerts!Handle

(* Every step of the gateway and of the idler keeps it.                    *)
LEMMA InvStep == Inv /\ [Next]_vars => Inv'
<1> SUFFICES ASSUME Inv, [Next]_vars PROVE Inv'
  OBVIOUS
<1>1. CASE ScalerStep
  BY <1>1, GatewayWrites, InvOthers DEF GatewayStep, ScalerStep
<1>2. CASE AlertStep
  BY <1>2, InvAlerts
<1>3. ASSUME NEW f \in Functions, ScaleFunction(f) PROVE Inv'
  BY <1>3, GatewayWrites, InvOthers DEF GatewayStep, ScaleFunction
<1>4. ASSUME NEW f \in Functions, Idle(f) PROVE Inv'
  BY <1>4, IdlerWritesZero, InvOthers DEF Idle
<1>5. CASE UNCHANGED vars
  BY <1>5, InvOthers DEF vars, SomeWrite
<1> QED
  BY <1>1, <1>2, <1>3, <1>4, <1>5 DEF Next, GatewayStep

-----------------------------------------------------------------------------
(* Implementation                                                          *)

(* What parts of the gateway and the idler write is what each calls        *)
(* others' writes.                                                         *)
LEMMA OthersWritten ==
  /\ \A f \in Functions : Writable(f) \subseteq Others
  /\ 0 \in IdlerWrites => 0 \in Others
  BY DEF Writable, Others

(* Every step is one of FunctionScaler or leaves it alone.                 *)
LEMMA ScalerStepImplemented == Inv /\ [Next]_vars => [Scaler!Next]_(Scaler!vars)
<1> SUFFICES ASSUME Inv, [Next]_vars PROVE [Scaler!Next]_(Scaler!vars)
  OBVIOUS
<1>1. CASE ScalerStep
  BY <1>1 DEF ScalerStep, Scaler!Next
<1>2. ASSUME UNCHANGED scalerOnly, UNCHANGED desired PROVE UNCHANGED Scaler!vars
  BY <1>2 DEF scalerOnly, Scaler!vars, Scaler!provider, Scaler!group, Scaler!locals
<1>3. ASSUME UNCHANGED scalerOnly, NEW f \in Functions, NEW n \in Others, Written(f, n)
      PROVE  Scaler!Next
  <2>1. Scaler!OutsideWrite(f)
    BY <1>3 DEF scalerOnly, Written, Scaler!OutsideWrite, Scaler!group, Scaler!locals
  <2> QED
    BY <2>1 DEF Scaler!Next
<1>4. CASE AlertStep
  BY <1>2, <1>3, <1>4, GatewayWrites, OthersWritten DEF AlertStep, GatewayStep, SomeWrite
<1>5. ASSUME NEW f \in Functions, ScaleFunction(f) PROVE [Scaler!Next]_(Scaler!vars)
  BY <1>2, <1>3, <1>5, GatewayWrites, OthersWritten DEF ScaleFunction, GatewayStep, SomeWrite
<1>6. ASSUME NEW f \in Functions, Idle(f) PROVE Scaler!Next
  BY <1>3, <1>6, IdlerWritesZero, OthersWritten DEF Idle
<1>7. CASE UNCHANGED vars
  BY <1>2, <1>7 DEF vars
<1> QED
  BY <1>1, <1>4, <1>5, <1>6, <1>7 DEF Next, GatewayStep

(* Every step is one of AlertHandler or leaves it alone.                   *)
LEMMA AlertStepImplemented == Inv /\ [Next]_vars => [Alerts!Next]_(Alerts!vars)
<1> SUFFICES ASSUME Inv, [Next]_vars PROVE [Alerts!Next]_(Alerts!vars)
  OBVIOUS
<1>1. CASE AlertStep
  BY <1>1 DEF AlertStep, Alerts!Next
<1>2. ASSUME UNCHANGED alertsOnly, UNCHANGED desired PROVE UNCHANGED Alerts!vars
  BY <1>2 DEF alertsOnly, Alerts!vars, Alerts!handlerVars
<1>3. ASSUME UNCHANGED alertsOnly, NEW f \in Functions, NEW n \in Others, Written(f, n)
      PROVE  Alerts!Next
  <2>1. Alerts!OutsideWrite(f)
    BY <1>3 DEF alertsOnly, Written, Alerts!OutsideWrite, Alerts!handlerVars
  <2> QED
    BY <2>1 DEF Alerts!Next
<1>4. CASE ScalerStep
  BY <1>2, <1>3, <1>4, GatewayWrites, OthersWritten DEF ScalerStep, GatewayStep, SomeWrite
<1>5. ASSUME NEW f \in Functions, ScaleFunction(f) PROVE [Alerts!Next]_(Alerts!vars)
  BY <1>2, <1>3, <1>5, GatewayWrites, OthersWritten DEF ScaleFunction, GatewayStep, SomeWrite
<1>6. ASSUME NEW f \in Functions, Idle(f) PROVE Alerts!Next
  BY <1>3, <1>6, IdlerWritesZero, OthersWritten DEF Idle
<1>7. CASE UNCHANGED vars
  BY <1>2, <1>7 DEF vars
<1> QED
  BY <1>1, <1>4, <1>5, <1>6, <1>7 DEF Next, GatewayStep

(* In the gateway the scaler runs as FunctionScaler says, among clients    *)
(* that ask for one to five replicas or for a minimum, and perhaps an      *)
(* idler: what is proved of FunctionScaler for such clients holds of       *)
(* scaling from zero while alerts and operators scale the same functions.  *)
THEOREM ScalerInGateway == Spec => ScalerImplemented
<1>1. Init => Scaler!Init
  BY DEF Init
<1> QED
  BY <1>1, InvInit, InvStep, ScalerStepImplemented, PTL DEF Spec, ScalerImplemented, Scaler!Spec

(* And the alert handlers run as AlertHandler says, whatever the scaler    *)
(* and operators do meanwhile.                                             *)
THEOREM AlertsInGateway == Spec => AlertsImplemented
<1>1. Init => Alerts!Init
  BY DEF Init
<1> QED
  BY <1>1, InvInit, InvStep, AlertStepImplemented, PTL DEF Spec, AlertsImplemented, Alerts!Spec

(* A function goes from some replicas to none only by an alert whose       *)
(* function has a minimum of zero, or one that wraps when a step is added  *)
(* to it; whatever the labels are, neither scaling from zero nor an        *)
(* operator's request takes it there, nor an alert on a stale count.       *)
THEOREM GatewayIdlesOnlyByLabel == Spec => IdlesOnlyByLabel
<1> DEFINE ByAlert(f) == \E h \in Handlers :
             Alerts!Update(h) /\ Alerts!Alert(h).fn = f /\ AsksForNone(h)
<1>1. ASSUME Inv, GatewayStep, NEW f \in Functions, desired[f] > 0, desired'[f] = 0
      PROVE  ByAlert(f)
  <2>0. \A g \in Functions : \A n : Written(g, n) => g = f /\ n = 0
    <3> SUFFICES ASSUME NEW g \in Functions, NEW n, Written(g, n) PROVE g = f /\ n = 0
      OBVIOUS
    <3>1. desired'[f] = IF f = g THEN n ELSE desired[f]
      BY <1>1 DEF Written, Inv, CountsKept
    <3>2. desired[f] # 0
      BY <1>1
    <3> QED
      BY <1>1, <3>1, <3>2
  <2>1. desired' # desired
    BY <1>1
  <2>2. CASE ScalerStep
    BY <2>0, <2>1, <2>2, ScalerWrites, TargetWritable
  <2>3. CASE AlertStep
    <3>1. PICK h \in Handlers : /\ Alerts!Update(h) /\ seen[h] # Alerts!NotRead
                                /\ Written(Alerts!Alert(h).fn, Alerts!NewReplicas(h))
      BY <2>1, <2>3, AlertWrites
    <3>2. Alerts!Alert(h).fn \in Functions
      BY <1>1, <3>1 DEF Inv
    <3>3. Alerts!Alert(h).fn = f /\ Alerts!NewReplicas(h) = 0
      BY <2>0, <3>1, <3>2
    <3> QED
      BY <1>1, <3>1, <3>3, AlertCount
  <2>4. ASSUME NEW g \in Functions, ScaleFunction(g) PROVE FALSE
    <3>1. PICK n \in 1 .. DefaultMaxReplicas : Written(g, n)
      BY <2>4, OperatorWrites
    <3>2. n # 0
      BY DEF DefaultMaxReplicas
    <3> QED
      BY <2>0, <3>1, <3>2
  <2> QED
    BY <1>1, <2>2, <2>3, <2>4 DEF GatewayStep
<1> DEFINE Idles == \A f \in Functions :
       desired[f] > 0 /\ desired'[f] = 0 /\ GatewayStep =>
         \E h \in Handlers :
           /\ Alerts!Update(h) /\ Alerts!Alert(h).fn = f
           /\ IF Alerts!Alert(h).status = "resolved"
                THEN Minimum(f) = 0
                ELSE (Minimum(f) = 0 /\ Alerts!Highest(f) = 0) \/ Wraps(f)
<1>2. Inv /\ [Next]_vars => [Idles]_vars
  BY <1>1 DEF AsksForNone
<1> QED
  BY <1>2, InvInit, InvStep, PTL DEF Spec, IdlesOnlyByLabel
=============================================================================
