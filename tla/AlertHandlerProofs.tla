------------------------- MODULE AlertHandlerProofs -------------------------
(***************************************************************************)
(* What holds of AlertHandler for every set of handlers, functions and     *)
(* batches, and for all labels.                                            *)
(***************************************************************************)
EXTENDS AlertHistory, ReplicasProofs, SequenceTheorems

-----------------------------------------------------------------------------
(* Labels and alerts                                                       *)

(* Labels of a deployed function read as counts.                           *)
LEMMA LabelsTyped ==
  ASSUME NEW f \in Functions
  PROVE  /\ ReadLabels(Labels[f]).min \in Uint
         /\ ReadLabels(Labels[f]).max \in Uint
         /\ ReadLabels(Labels[f]).factor \in Uint
  BY AlertAssumption, ReadLabelsTyped

-----------------------------------------------------------------------------
(* Type correctness                                                        *)

(* The alert that a handler is at is one of its batch.                     *)
LEMMA AlertTyped ==
  ASSUME TypeOK, NEW h \in Handlers, AtAlert(h)
  PROVE  Alert(h) \in Alerts /\ (Alert(h).fn # NoFunction => Alert(h).fn \in Functions)
<1>1. batch[h] \in Seq(Alerts) /\ outcomes[h] \in Seq(Outcomes)
  BY DEF TypeOK
<1>2. Len(outcomes[h]) \in Nat /\ Len(batch[h]) \in Nat
  BY <1>1
<1>3. Len(outcomes[h]) + 1 \in 1 .. Len(batch[h])
  BY <1>2 DEF AtAlert
<1>4. Alert(h) \in Alerts
  BY <1>1, <1>3 DEF Alert
<1> QED
  BY <1>4 DEF Alerts

(* Finishing an alert keeps the types.                                     *)
LEMMA AlertDoneTyped ==
  ASSUME TypeOK, NEW h \in Handlers, NEW o \in Outcomes, AlertDone(h, o),
         desired' \in [Functions -> Uint]
  PROVE  TypeOK'
<1>1. Append(outcomes[h], o) \in Seq(Outcomes)
  BY AppendProperties DEF TypeOK
<1> QED
  BY <1>1 DEF TypeOK, AlertDone

(* The count an alert asks for is a uint64.                                *)
LEMMA NewReplicasTyped ==
  ASSUME TypeOK, NEW h \in Handlers, AtAlert(h), Alert(h).fn \in Functions, seen[h] # NotRead
  PROVE  NewReplicas(h) \in Uint
<1>1. seen[h] \in Uint
  BY DEF TypeOK
<1> QED
  BY <1>1, LabelsTyped, AnyCount DEF NewReplicas

(* A count has been read only for an alert that names a function.          *)
SeenNamed == \A h \in Handlers :
  seen[h] # NotRead => AtAlert(h) /\ Alert(h).fn \in Functions

(* Every step keeps the types, and a count is read for named functions     *)
(* only.                                                                   *)
LEMMA TypeStep == TypeOK /\ SeenNamed /\ [Next]_vars => TypeOK' /\ SeenNamed'
<1> SUFFICES ASSUME TypeOK, SeenNamed, [Next]_vars PROVE TypeOK' /\ SeenNamed'
  OBVIOUS
<1>a. ASSUME NEW h \in Handlers, NEW o \in Outcomes, AlertDone(h, o) PROVE SeenNamed'
  BY <1>a DEF TypeOK, SeenNamed, AlertDone, AtAlert, Alert
<1>1. ASSUME NEW h \in Handlers, Receive(h) PROVE TypeOK' /\ SeenNamed'
  <2>1. TypeOK'
    BY <1>1, AlertAssumption DEF Receive, TypeOK
  <2>2. seen[h] = NotRead
    BY <1>1 DEF Receive, SeenNamed, AtAlert
  <2>3. SeenNamed'
    BY <1>1, <2>2 DEF Receive, SeenNamed, AtAlert, Alert, TypeOK
  <2> QED
    BY <2>1, <2>3
<1>2. ASSUME NEW h \in Handlers, Skip(h) PROVE TypeOK' /\ SeenNamed'
  BY <1>2, <1>a, AlertDoneTyped DEF Skip, Outcomes, TypeOK
<1>3. ASSUME NEW h \in Handlers, Query(h) PROVE TypeOK' /\ SeenNamed'
  <2>1. AtAlert(h) /\ Alert(h).fn \in Functions /\ desired' = desired
    BY <1>3, AlertTyped DEF Query
  <2>2. CASE AlertDone(h, "unread")
    BY <1>a, <2>1, <2>2, AlertDoneTyped DEF Outcomes, TypeOK
  <2>3. CASE /\ seen' = [seen EXCEPT ![h] = desired[Alert(h).fn]]
             /\ UNCHANGED <<batch, outcomes, answer>>
    BY <2>1, <2>3 DEF TypeOK, SeenNamed, AtAlert, Alert
  <2> QED
    BY <1>3, <2>2, <2>3 DEF Query
<1>4. ASSUME NEW h \in Handlers, Keep(h) PROVE TypeOK' /\ SeenNamed'
  BY <1>4, <1>a, AlertDoneTyped DEF Keep, Outcomes, TypeOK
<1>5. ASSUME NEW h \in Handlers, Update(h) PROVE TypeOK' /\ SeenNamed'
  <2>1. AtAlert(h) /\ Alert(h).fn \in Functions /\ NewReplicas(h) \in Uint
    BY <1>5, NewReplicasTyped DEF Update, SeenNamed
  <2>2. desired' \in [Functions -> Uint]
    BY <1>5, <2>1 DEF Update, TypeOK
  <2>3. CASE AlertDone(h, "scaled") \/ AlertDone(h, "failed")
    BY <1>a, <2>2, <2>3, AlertDoneTyped DEF Outcomes
  <2>4. CASE /\ answer' = [answer EXCEPT ![h] = "aborted"]
             /\ seen' = [seen EXCEPT ![h] = NotRead]
             /\ UNCHANGED <<batch, outcomes>>
    BY <2>2, <2>4 DEF TypeOK, SeenNamed, AtAlert, Alert
  <2> QED
    BY <1>5, <2>3, <2>4 DEF Update
<1>6. ASSUME NEW h \in Handlers, Respond(h) PROVE TypeOK' /\ SeenNamed'
  BY <1>6 DEF Respond, TypeOK, SeenNamed, AtAlert, Alert
<1>7. ASSUME NEW h \in Handlers, Leave(h) PROVE TypeOK' /\ SeenNamed'
  BY <1>7 DEF Leave, TypeOK, SeenNamed, AtAlert, Alert
<1>8. ASSUME NEW f \in Functions, OutsideWrite(f) PROVE TypeOK' /\ SeenNamed'
  BY <1>8, ProviderAssumption DEF OutsideWrite, TypeOK, SeenNamed, AtAlert, Alert, handlerVars
<1>9. CASE UNCHANGED vars
  BY <1>9 DEF vars, TypeOK, SeenNamed, AtAlert, Alert, handlerVars
<1> QED
  BY <1>1, <1>2, <1>3, <1>4, <1>5, <1>6, <1>7, <1>8, <1>9 DEF Next, Handle

(* The initial states are typed.                                           *)
LEMMA TypeInit == Init => TypeOK /\ SeenNamed
<1> SUFFICES ASSUME Init PROVE TypeOK /\ SeenNamed
  OBVIOUS
<1>1. desired \in [Functions -> Uint]
  BY ProviderAssumption DEF Init
<1>2. << >> \in Seq(Alerts) /\ << >> \in Seq(Outcomes)
  OBVIOUS
<1>3. TypeOK
  BY <1>1, <1>2 DEF Init, TypeOK
<1>4. SeenNamed
  BY DEF Init, SeenNamed
<1> QED
  BY <1>3, <1>4

(* Every variable of the alert handlers keeps its type; in particular no   *)
(* label makes scaleService ask for something that is not a uint64.        *)
THEOREM TypeCorrect == Spec => []TypeOK
<1>1. Init => TypeOK /\ SeenNamed
  BY TypeInit
<1>2. (TypeOK /\ SeenNamed) /\ [Next]_vars => (TypeOK /\ SeenNamed)'
  BY TypeStep
<1> QED
  BY <1>1, <1>2, PTL DEF Spec

-----------------------------------------------------------------------------
(* The range of a function with sensible labels                            *)

(* The range of sensible labels is within that of the gateway.             *)
LEMMA SensibleBounds ==
  ASSUME NEW f \in Functions, Sensible(f)
  PROVE  /\ Lowest(f) \in Nat /\ Highest(f) \in Nat
         /\ 1 <= Lowest(f) /\ Lowest(f) <= Highest(f)
         /\ ReadLabels(Labels[f]).factor \in 1 .. 100
<1>1. Lowest(f) \in Nat /\ ReadLabels(Labels[f]).factor \in Nat
  BY LabelsTyped, UintMember DEF Lowest
<1>2. Highest(f) \in Nat
  BY LabelsTyped, CapBounds DEF Highest
<1> QED
  BY <1>1, <1>2 DEF Sensible, FactorInRange

InRange(f, n) == Lowest(f) <= n /\ n <= Highest(f)

(* From a count in the range an alert asks for a count in the range.       *)
LEMMA NewReplicasInRange ==
  ASSUME TypeOK, NEW h \in Handlers, AtAlert(h), Alert(h).fn \in Functions,
         seen[h] # NotRead, Sensible(Alert(h).fn), InRange(Alert(h).fn, seen[h])
  PROVE  InRange(Alert(h).fn, NewReplicas(h))
<1> DEFINE f == Alert(h).fn
           range == ReadLabels(Labels[f])
<1>1. seen[h] \in Uint /\ Alert(h).status \in {"firing", "resolved"}
  BY AlertTyped DEF TypeOK, Alerts
<1>2. /\ range.min \in Uint /\ range.max \in Uint /\ range.factor \in 1 .. 100
      /\ 1 <= range.min /\ range.min <= Cap(range.max) /\ Cap(range.max) \in Nat
      /\ range.min \in Nat
  BY LabelsTyped, SensibleBounds DEF Lowest, Highest
<1>3. seen[h] <= Cap(range.max) /\ range.min <= seen[h]
  BY DEF InRange, Lowest, Highest
<1>4. CASE Alert(h).status = "firing"
  <2> DEFINE n == CalculateReplicas("firing", seen[h], range.max, range.min, range.factor)
  <2>1. n \in seen[h] .. Cap(range.max)
    BY <1>1, <1>2, <1>3, FiringCount
  <2>2. n = NewReplicas(h)
    BY <1>4 DEF NewReplicas
  <2> HIDE DEF n, range
  <2>3. seen[h] \in Nat /\ range.min \in Nat /\ Cap(range.max) \in Nat
    BY <1>1, <1>2, UintMember
  <2>4. range.min <= n /\ n <= Cap(range.max)
    BY <1>3, <2>1, <2>3
  <2> QED
    BY <2>2, <2>4 DEF range, InRange, Lowest, Highest
<1>5. CASE Alert(h).status = "resolved"
  BY <1>2, <1>5, ResolvedCount DEF NewReplicas, InRange, Lowest, Highest
<1> QED
  BY <1>1, <1>4, <1>5

(* What has been read, and not yet acted upon, is in the range as well.    *)
RangeInv ==
  /\ \A f \in Functions : Sensible(f) => InRange(f, desired[f])
  /\ \A h \in Handlers :
       seen[h] # NotRead /\ Sensible(Alert(h).fn) => InRange(Alert(h).fn, seen[h])

(* Initially every function is in its range and no count has been read.    *)
LEMMA RangeInit == OthersInRange /\ Init => RangeInv
<1> SUFFICES ASSUME OthersInRange, Init PROVE RangeInv
  OBVIOUS
<1>1. ASSUME NEW f \in Functions, Sensible(f) PROVE InRange(f, desired[f])
  <2>1. desired[f] \in Lowest(f) .. Highest(f)
    BY <1>1 DEF OthersInRange, Init
  <2> QED
    BY <1>1, <2>1, SensibleBounds DEF InRange
<1> QED
  BY <1>1 DEF RangeInv, Init

(* Every step keeps counts, and counts that were read, in range.           *)
LEMMA RangeStep ==
  ASSUME OthersInRange, TypeOK, SeenNamed, RangeInv, [Next]_vars
  PROVE  RangeInv'
<1>d. ASSUME NEW h \in Handlers, NEW o, AlertDone(h, o),
             \A f \in Functions : Sensible(f) => InRange(f, desired'[f])
      PROVE  RangeInv'
  BY <1>d DEF RangeInv, AlertDone, Alert, TypeOK, InRange
<1>1. ASSUME NEW h \in Handlers, Receive(h) PROVE RangeInv'
  <2>1. seen[h] = NotRead
    BY <1>1 DEF Receive, SeenNamed, AtAlert
  <2> QED
    BY <1>1, <2>1 DEF Receive, RangeInv, Alert, TypeOK, InRange
<1>2. ASSUME NEW h \in Handlers, Skip(h) PROVE RangeInv'
  BY <1>2, <1>d DEF Skip, RangeInv
<1>3. ASSUME NEW h \in Handlers, Query(h) PROVE RangeInv'
  <2>1. AtAlert(h) /\ Alert(h).fn \in Functions /\ desired' = desired
    BY <1>3, AlertTyped DEF Query
  <2>2. CASE AlertDone(h, "unread")
    BY <1>d, <2>1, <2>2 DEF RangeInv
  <2>3. CASE /\ seen' = [seen EXCEPT ![h] = desired[Alert(h).fn]]
             /\ UNCHANGED <<batch, outcomes, answer>>
    BY <2>1, <2>3 DEF RangeInv, Alert, TypeOK, InRange
  <2> QED
    BY <1>3, <2>2, <2>3 DEF Query
<1>4. ASSUME NEW h \in Handlers, Keep(h) PROVE RangeInv'
  BY <1>4, <1>d DEF Keep, RangeInv
<1>5. ASSUME NEW h \in Handlers, Update(h) PROVE RangeInv'
  <2>1. AtAlert(h) /\ Alert(h).fn \in Functions /\ seen[h] # NotRead
    BY <1>5 DEF Update, SeenNamed
  <2>2. Sensible(Alert(h).fn) => InRange(Alert(h).fn, NewReplicas(h))
    BY <2>1, NewReplicasInRange DEF RangeInv
  <2>3. desired' \in {desired, [desired EXCEPT ![Alert(h).fn] = NewReplicas(h)]}
    BY <1>5 DEF Update
  <2>4. \A f \in Functions : Sensible(f) => InRange(f, desired'[f])
    BY <2>1, <2>2, <2>3 DEF RangeInv, TypeOK
  <2>5. CASE AlertDone(h, "scaled") \/ AlertDone(h, "failed")
    BY <1>d, <2>4, <2>5
  <2>6. CASE /\ answer' = [answer EXCEPT ![h] = "aborted"]
             /\ seen' = [seen EXCEPT ![h] = NotRead]
             /\ UNCHANGED <<batch, outcomes>>
    BY <2>4, <2>6 DEF RangeInv, TypeOK, Alert, InRange
  <2> QED
    BY <1>5, <2>5, <2>6 DEF Update
<1>6. ASSUME NEW h \in Handlers, Respond(h) PROVE RangeInv'
  BY <1>6 DEF Respond, RangeInv, Alert, InRange
<1>7. ASSUME NEW h \in Handlers, Leave(h) PROVE RangeInv'
  <2>1. seen[h] = NotRead
    BY <1>7 DEF Leave, SeenNamed, AtAlert
  <2> QED
    BY <1>7, <2>1 DEF Leave, RangeInv, Alert, TypeOK, InRange
<1>8. ASSUME NEW f \in Functions, OutsideWrite(f) PROVE RangeInv'
  <2>1. PICK n \in OutsideWrites : desired' = [desired EXCEPT ![f] = n]
    BY <1>8 DEF OutsideWrite
  <2>2. Sensible(f) => InRange(f, n)
    BY <2>1, SensibleBounds DEF OthersInRange, InRange
  <2>3. \A g \in Functions : Sensible(g) => InRange(g, desired'[g])
    BY <2>1, <2>2 DEF RangeInv, TypeOK
  <2> QED
    BY <1>8, <2>3 DEF OutsideWrite, RangeInv, Alert, InRange, handlerVars
<1>9. CASE UNCHANGED vars
  BY <1>9 DEF vars, RangeInv, Alert, InRange, handlerVars
<1> QED
  BY <1>1, <1>2, <1>3, <1>4, <1>5, <1>6, <1>7, <1>8, <1>9 DEF Next, Handle

(* However batches interleave, alerts keep a function with sensible labels *)
(* between its minimum and its ceiling if everybody else does.             *)
THEOREM AlertsStayInRange == Spec => []StaysInRange
<1>1. CASE OthersInRange
  <2> DEFINE Inv == TypeOK /\ SeenNamed /\ RangeInv
  <2>1. Init => Inv
    BY <1>1, TypeInit, RangeInit
  <2>2. Inv /\ [Next]_vars => Inv'
    BY <1>1, TypeStep, RangeStep
  <2>3. Inv => StaysInRange
    BY DEF RangeInv, StaysInRange, InRange
  <2> QED
    BY <2>1, <2>2, <2>3, PTL DEF Spec
<1>2. CASE ~OthersInRange
  <2>1. StaysInRange
    BY <1>2 DEF StaysInRange
  <2> QED
    BY <2>1, PTL
<1> QED
  BY <1>1, <1>2

(* An alert that fires never lowers the count that it read (the guard      *)
(* "currentReplicas+step > maxReplicas" of CalculateReplicas).             *)
THEOREM FiringNeverLowers == Spec => FiringRaises
<1> DEFINE Act == \A h \in Handlers :
             /\ Update(h) /\ Alert(h).status = "firing" /\ Sensible(Alert(h).fn)
             /\ seen[h] = desired[Alert(h).fn] /\ seen[h] <= Highest(Alert(h).fn)
             => desired'[Alert(h).fn] >= desired[Alert(h).fn]
<1>1. Init => TypeOK /\ SeenNamed
  BY TypeInit
<1>2. (TypeOK /\ SeenNamed) /\ [Next]_vars => (TypeOK /\ SeenNamed)'
  BY TypeStep
<1>3. TypeOK /\ SeenNamed => Act
  <2> SUFFICES ASSUME TypeOK, SeenNamed, NEW h \in Handlers,
                      Update(h), Alert(h).status = "firing", Sensible(Alert(h).fn),
                      seen[h] = desired[Alert(h).fn], seen[h] <= Highest(Alert(h).fn)
               PROVE  desired'[Alert(h).fn] >= desired[Alert(h).fn]
    OBVIOUS
  <2> DEFINE f == Alert(h).fn
             range == ReadLabels(Labels[f])
  <2>1. f \in Functions /\ seen[h] \in Uint /\ seen[h] \in Nat
    BY UintMember DEF Update, SeenNamed, TypeOK
  <2>2. /\ range.min \in Uint /\ range.max \in Uint /\ range.factor \in 1 .. 100
        /\ Cap(range.max) > 0 /\ seen[h] <= Cap(range.max) /\ Cap(range.max) \in Nat
    BY <2>1, LabelsTyped, SensibleBounds DEF Highest
  <2>3. NewReplicas(h) \in seen[h] .. Cap(range.max)
    BY <2>1, <2>2, FiringCount DEF NewReplicas
  <2>4. NewReplicas(h) >= desired[f]
    BY <2>1, <2>2, <2>3
  <2>5. desired'[f] \in {desired[f], NewReplicas(h)}
    BY <2>1 DEF Update, TypeOK
  <2> QED
    BY <2>1, <2>4, <2>5
<1>4. TypeOK /\ SeenNamed /\ [Next]_vars => [Act]_vars
  BY <1>3
<1> QED
  BY <1>1, <1>2, <1>4, PTL DEF Spec, FiringRaises

-----------------------------------------------------------------------------
(* What a batch leaves behind                                              *)

(* What h knows of a function whose count nobody else has changed since h  *)
(* received its batch: what it has read of it is what there is, and so is  *)
(* what its last word on it asked for.                                     *)
Undisturbed(h, f) ==
  /\ answer[h] \in {"none", "400"} => outcomes[h] = << >>
  /\ seen[h] # NotRead /\ Alert(h).fn = f /\ f \notin disturbed[h] => seen[h] = desired[f]
  /\ Acted(h, f) # {} =>
       \E m \in Acted(h, f) :
         /\ \A i \in Acted(h, f) : i <= m
         /\ batch[h][m].status = "resolved" /\ f \notin disturbed[h] /\ answer[h] # "aborted"
              => desired[f] = Lowest(f)

(* Initially nothing has been read.                                        *)
LEMMA UndisturbedInit ==
  ASSUME Init, NEW h \in Handlers, NEW f \in Functions
  PROVE  Undisturbed(h, f)
<1>1. outcomes[h] = << >> /\ seen[h] = NotRead
  BY DEF Init
<1>2. Acted(h, f) = {}
  BY <1>1 DEF Acted
<1> QED
  BY <1>1, <1>2 DEF Undisturbed

(* A change that is not h's own disturbs h, and nothing is forgotten while *)
(* h is at its batch.                                                      *)
LEMMA DisturbedKept ==
  ASSUME HistoryNext, NEW h \in Handlers, NEW f \in Functions, answer'[h] # "none",
         f \notin disturbed'[h]
  PROVE  f \notin disturbed[h] /\ (desired'[f] = desired[f] \/ Moves(h))
<1>1. disturbed'[h] = disturbed[h] \cup {g \in Functions : desired'[g] # desired[g] /\ ~Moves(h)}
  BY DEF HistoryNext
<1> QED
  BY <1>1

(* The steps of the others.                                                *)
LEMMA Bystander ==
  ASSUME SeenNamed, HistoryNext, NEW h \in Handlers, NEW f \in Functions, Undisturbed(h, f),
         batch'[h] = batch[h], seen'[h] = seen[h], outcomes'[h] = outcomes[h],
         answer'[h] = answer[h]
  PROVE  Undisturbed(h, f)'
<1>1. Acted(h, f)' = Acted(h, f) /\ Alert(h)' = Alert(h)
  BY DEF Acted, Alert
<1>2. CASE answer[h] = "none"
  <2>1. outcomes'[h] = << >> /\ seen'[h] = NotRead
    BY <1>2 DEF Undisturbed, SeenNamed, AtAlert
  <2>2. Acted(h, f)' = {}
    BY <2>1 DEF Acted
  <2> QED
    BY <2>1, <2>2 DEF Undisturbed
<1>3. CASE answer[h] # "none"
  <2>1. f \notin disturbed'[h] => f \notin disturbed[h] /\ desired'[f] = desired[f]
    BY <1>3, DisturbedKept DEF Moves
  <2> QED
    BY <1>1, <2>1 DEF Undisturbed, Lowest
<1> QED
  BY <1>2, <1>3

(* An alert is over: it is one that was acted upon if it was.              *)
LEMMA ActedGrows ==
  ASSUME TypeOK, NEW h \in Handlers, NEW o \in Outcomes, AlertDone(h, o), NEW f \in Functions
  PROVE  /\ batch'[h] = batch[h] /\ answer'[h] = answer[h] /\ seen'[h] = NotRead
         /\ outcomes'[h] = Append(outcomes[h], o)
         /\ \A i \in Acted(h, f) : i < Len(outcomes[h]) + 1
         /\ Acted(h, f)' = IF Alert(h).fn = f /\ o \in {"unchanged", "scaled"}
                             THEN Acted(h, f) \cup {Len(outcomes[h]) + 1} ELSE Acted(h, f)
<1> DEFINE n == Len(outcomes[h]) + 1
<1>1. /\ batch'[h] = batch[h] /\ answer'[h] = answer[h] /\ seen'[h] = NotRead
      /\ outcomes'[h] = Append(outcomes[h], o)
  BY DEF TypeOK, AlertDone
<1>2. outcomes[h] \in Seq(Outcomes) /\ Len(outcomes[h]) \in Nat
  BY DEF TypeOK
<1>3. DOMAIN outcomes[h] = 1 .. Len(outcomes[h])
  BY <1>2
<1>4. /\ DOMAIN outcomes'[h] = DOMAIN outcomes[h] \cup {n}
      /\ outcomes'[h][n] = o /\ \A i \in DOMAIN outcomes[h] : outcomes'[h][i] = outcomes[h][i]
  <2>1. /\ Len(outcomes'[h]) = n /\ outcomes'[h][n] = o
        /\ \A i \in 1 .. Len(outcomes[h]) : outcomes'[h][i] = outcomes[h][i]
        /\ DOMAIN outcomes'[h] = 1 .. n
    BY <1>1, <1>2, AppendProperties
  <2>2. 1 .. n = (1 .. Len(outcomes[h])) \cup {n}
    BY <1>2
  <2> QED
    BY <1>3, <2>1, <2>2
<1>5. n \notin DOMAIN outcomes[h] /\ \A i \in DOMAIN outcomes[h] : i < n
  BY <1>2, <1>3
<1>6. Alert(h) = batch[h][n]
  BY DEF Alert
<1> HIDE DEF n
<1>7. Acted(h, f)' = {i \in DOMAIN outcomes'[h] :
                        batch[h][i].fn = f /\ outcomes'[h][i] \in {"unchanged", "scaled"}}
  BY <1>1 DEF Acted
<1>8. CASE Alert(h).fn = f /\ o \in {"unchanged", "scaled"}
  <2>1. Acted(h, f)' = Acted(h, f) \cup {n}
    BY <1>4, <1>5, <1>6, <1>7, <1>8 DEF Acted
  <2> QED
    BY <1>1, <1>5, <1>8, <2>1 DEF Acted, n
<1>9. CASE ~(Alert(h).fn = f /\ o \in {"unchanged", "scaled"})
  <2>1. Acted(h, f)' = Acted(h, f)
    BY <1>4, <1>5, <1>6, <1>7, <1>9 DEF Acted
  <2> QED
    BY <1>1, <1>5, <1>9, <2>1 DEF Acted, n
<1> QED
  BY <1>8, <1>9

(* h is done with an alert.                                                *)
LEMMA DoneUndisturbed ==
  ASSUME TypeOK, HistoryNext, NEW h \in Handlers, NEW f \in Functions, Undisturbed(h, f),
         AtAlert(h), NEW o \in Outcomes, AlertDone(h, o),
         IF Alert(h).fn = f /\ o \in {"unchanged", "scaled"}
           THEN Alert(h).status = "resolved" /\ f \notin disturbed[h] => desired'[f] = Lowest(f)
           ELSE desired'[f] = desired[f]
  PROVE  Undisturbed(h, f)'
<1>1. /\ batch'[h] = batch[h] /\ answer'[h] = answer[h] /\ seen'[h] = NotRead
      /\ outcomes'[h] = Append(outcomes[h], o)
      /\ \A i \in Acted(h, f) : i < Len(outcomes[h]) + 1
      /\ Acted(h, f)' = IF Alert(h).fn = f /\ o \in {"unchanged", "scaled"}
                          THEN Acted(h, f) \cup {Len(outcomes[h]) + 1} ELSE Acted(h, f)
  BY ActedGrows
<1>2. answer[h] = "busy"
  BY DEF AtAlert
<1>3. f \notin disturbed'[h] => f \notin disturbed[h]
  BY <1>1, <1>2, DisturbedKept
<1>4. CASE Alert(h).fn = f /\ o \in {"unchanged", "scaled"}
  <2> DEFINE n == Len(outcomes[h]) + 1
  <2>1. n \in Nat /\ n \in Acted(h, f)' /\ batch'[h][n] = Alert(h)
    BY <1>1, <1>4 DEF TypeOK, Alert
  <2>2. \A i \in Acted(h, f)' : i <= n
    BY <1>1, <1>4, <2>1 DEF Acted, TypeOK
  <2>3. batch'[h][n].status = "resolved" /\ f \notin disturbed'[h] => desired'[f] = Lowest(f)
    BY <1>3, <1>4, <2>1
  <2> HIDE DEF n
  <2> QED
    BY <1>1, <1>2, <2>1, <2>2, <2>3 DEF Undisturbed, Lowest
<1>5. CASE ~(Alert(h).fn = f /\ o \in {"unchanged", "scaled"})
  BY <1>1, <1>2, <1>3, <1>5 DEF Undisturbed, Lowest
<1> QED
  BY <1>4, <1>5

(* The steps of h.                                                         *)
LEMMA OwnUndisturbed ==
  ASSUME TypeOK, SeenNamed, HistoryNext, NEW h \in Handlers, NEW f \in Functions,
         Undisturbed(h, f), Receive(h) \/ Handle(h) \/ Leave(h)
  PROVE  Undisturbed(h, f)'
<1>1. CASE Receive(h)
  <2>1. outcomes'[h] = << >> /\ seen'[h] = NotRead
    BY <1>1 DEF Receive, Undisturbed, SeenNamed, AtAlert
  <2>2. Acted(h, f)' = {}
    BY <2>1 DEF Acted
  <2> QED
    BY <2>1, <2>2 DEF Undisturbed
<1>2. CASE Skip(h)
  BY <1>2, DoneUndisturbed DEF Skip, Outcomes
<1>3. CASE Query(h)
  <2>1. AtAlert(h) /\ Alert(h).fn \in Functions /\ desired' = desired
    BY <1>3, AlertTyped DEF Query
  <2>2. CASE AlertDone(h, "unread")
    BY <2>1, <2>2, DoneUndisturbed DEF Outcomes
  <2>3. CASE /\ seen' = [seen EXCEPT ![h] = desired[Alert(h).fn]]
             /\ UNCHANGED <<batch, outcomes, answer>>
    <3>1. Acted(h, f)' = Acted(h, f) /\ Alert(h)' = Alert(h)
      BY <2>3 DEF Acted, Alert
    <3>2. seen'[h] = desired'[Alert(h).fn] /\ answer'[h] = "busy"
      BY <2>1, <2>3 DEF TypeOK, AtAlert
    <3>3. f \notin disturbed'[h] => f \notin disturbed[h]
      BY <3>2, DisturbedKept
    <3> QED
      BY <2>1, <2>3, <3>1, <3>2, <3>3 DEF Undisturbed, Lowest
  <2> QED
    BY <1>3, <2>2, <2>3 DEF Query
<1>4. CASE Keep(h)
  <2>1. AtAlert(h) /\ NewReplicas(h) = seen[h] /\ seen[h] # NotRead /\ desired' = desired
    BY <1>4 DEF Keep
  <2>2. Alert(h).fn = f /\ Alert(h).status = "resolved" /\ f \notin disturbed[h]
          => desired'[f] = Lowest(f)
    BY <2>1, ResolvedCount DEF Undisturbed, NewReplicas, Lowest
  <2> QED
    BY <1>4, <2>1, <2>2, DoneUndisturbed DEF Keep, Outcomes
<1>5. CASE Update(h)
  <2>1. AtAlert(h) /\ Alert(h).fn \in Functions /\ seen[h] # NotRead
    BY <1>5 DEF Update, SeenNamed
  <2> DEFINE applied == [desired EXCEPT ![Alert(h).fn] = NewReplicas(h)]
  <2>2. /\ Alert(h).fn = f /\ Alert(h).status = "resolved" => applied[f] = Lowest(f)
        /\ Alert(h).fn # f => applied[f] = desired[f]
    BY <2>1, ResolvedCount DEF NewReplicas, Lowest, TypeOK
  <2>3. \/ desired' = applied /\ AlertDone(h, "scaled")
        \/ desired' = desired /\ AlertDone(h, "failed")
        \/ /\ answer' = [answer EXCEPT ![h] = "aborted"]
           /\ seen' = [seen EXCEPT ![h] = NotRead]
           /\ UNCHANGED <<batch, outcomes>>
    BY <1>5 DEF Update
  <2> HIDE DEF applied
  <2>4. CASE desired' = applied /\ AlertDone(h, "scaled")
    BY <2>1, <2>2, <2>4, DoneUndisturbed DEF Outcomes
  <2>5. CASE desired' = desired /\ AlertDone(h, "failed")
    BY <2>1, <2>5, DoneUndisturbed DEF Outcomes
  <2>6. CASE /\ answer' = [answer EXCEPT ![h] = "aborted"]
             /\ seen' = [seen EXCEPT ![h] = NotRead]
             /\ UNCHANGED <<batch, outcomes>>
    <3>1. answer'[h] = "aborted" /\ seen'[h] = NotRead /\ Acted(h, f)' = Acted(h, f)
      BY <2>6 DEF TypeOK, Acted
    <3> QED
      BY <2>6, <3>1 DEF Undisturbed
  <2> QED
    BY <2>3, <2>4, <2>5, <2>6
<1>6. CASE Respond(h)
  <2>1. /\ answer[h] = "busy" /\ answer'[h] \in {"200", "500"} /\ Acted(h, f)' = Acted(h, f)
        /\ UNCHANGED <<desired, batch, outcomes>>
    BY <1>6 DEF Respond, TypeOK, Acted
  <2>2. seen'[h] = NotRead
    BY <1>6 DEF Respond, SeenNamed
  <2>3. f \notin disturbed'[h] => f \notin disturbed[h]
    BY <2>1, DisturbedKept
  <2> QED
    BY <2>1, <2>2, <2>3 DEF Undisturbed, Lowest
<1>7. CASE Leave(h)
  <2>1. outcomes'[h] = << >> /\ seen'[h] = NotRead
    BY <1>7 DEF Leave, SeenNamed, AtAlert, TypeOK
  <2>2. Acted(h, f)' = {}
    BY <2>1 DEF Acted
  <2> QED
    BY <2>1, <2>2 DEF Undisturbed
<1> QED
  BY <1>1, <1>2, <1>3, <1>4, <1>5, <1>6, <1>7 DEF Handle

(* Every step keeps what every handler knows.                              *)
LEMMA UndisturbedStep ==
  ASSUME TypeOK, SeenNamed, [HistoryNext]_<<vars, disturbed>>,
         NEW h \in Handlers, NEW f \in Functions, Undisturbed(h, f)
  PROVE  Undisturbed(h, f)'
<1>1. CASE UNCHANGED <<vars, disturbed>>
  BY <1>1 DEF vars, handlerVars, Undisturbed, Acted, Alert, Lowest
<1>2. CASE HistoryNext
  <2>1. CASE Receive(h) \/ Handle(h) \/ Leave(h)
    BY <1>2, <2>1, OwnUndisturbed
  <2>2. ASSUME NEW g \in Handlers, g # h, Receive(g) \/ Handle(g) \/ Leave(g)
        PROVE  /\ batch'[h] = batch[h] /\ seen'[h] = seen[h]
               /\ outcomes'[h] = outcomes[h] /\ answer'[h] = answer[h]
    BY <2>2 DEF Receive, Handle, Skip, Query, Keep, Update, Respond, Leave, AlertDone, TypeOK
  <2>3. ASSUME NEW g \in Functions, OutsideWrite(g)
        PROVE  /\ batch'[h] = batch[h] /\ seen'[h] = seen[h]
               /\ outcomes'[h] = outcomes[h] /\ answer'[h] = answer[h]
    BY <2>3 DEF OutsideWrite, handlerVars
  <2> QED
    BY <1>2, <2>1, <2>2, <2>3, Bystander DEF HistoryNext, Next
<1> QED
  BY <1>1, <1>2

(* The last word of a batch on a function stands: if it was "resolved" the *)
(* function is at its minimum when the batch is answered, whatever fired   *)
(* before (handleAlerts works through a batch in order and reads the count *)
(* anew for every alert).                                                  *)
THEOREM ResolvedSettles == HistorySpec => []ResolvedScalesDown
<1> DEFINE Known == \A h \in Handlers, f \in Functions : Undisturbed(h, f)
           Inv == TypeOK /\ SeenNamed /\ Known
<1>1. HistoryInit => Inv
  BY TypeInit, UndisturbedInit DEF HistoryInit
<1>2. Inv /\ [HistoryNext]_<<vars, disturbed>> => Inv'
  <2> SUFFICES ASSUME Inv, [HistoryNext]_<<vars, disturbed>> PROVE Inv'
    OBVIOUS
  <2>1. TypeOK' /\ SeenNamed'
    BY TypeStep DEF HistoryNext
  <2>2. ASSUME NEW h \in Handlers, NEW f \in Functions PROVE Undisturbed(h, f)'
    BY UndisturbedStep
  <2> QED
    BY <2>1, <2>2
<1>3. Inv => ResolvedScalesDown
  <2> SUFFICES ASSUME Inv, NEW h \in Handlers, NEW f \in Functions, f \notin disturbed[h],
                      answer[h] \in {"200", "500"}, Acted(h, f) # {},
                      batch[h][LastActed(h, f)].status = "resolved"
               PROVE  desired[f] = Lowest(f)
    BY DEF ResolvedScalesDown, SettledAt
  <2>1. PICK m \in Acted(h, f) :
          /\ \A i \in Acted(h, f) : i <= m
          /\ batch[h][m].status = "resolved" /\ f \notin disturbed[h] /\ answer[h] # "aborted"
               => desired[f] = Lowest(f)
    BY DEF Undisturbed
  <2>2. Acted(h, f) \subseteq Nat
    BY DEF Acted, TypeOK
  <2>3. LastActed(h, f) \in Acted(h, f) /\ \A j \in Acted(h, f) : j <= LastActed(h, f)
    BY <2>1 DEF LastActed
  <2>4. LastActed(h, f) = m
    BY <2>1, <2>2, <2>3
  <2> QED
    BY <2>1, <2>4
<1> QED
  BY <1>1, <1>2, <1>3, PTL DEF HistorySpec
=============================================================================
