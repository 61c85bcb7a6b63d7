----------------------------- MODULE Autoscaling -----------------------------
(***************************************************************************)
(* Everybody in the gateway who sets a replica count, over one provider:   *)
(* scaling from zero (FunctionScaler), alerts (AlertHandler) and operators *)
(* who POST to /system/scale-function (MakeHorizontalScalingHandler), as   *)
(* main.go wires them, and an idler outside that scales to zero.  Each     *)
(* part is a step of its own module; the others leave its state alone, but *)
(* for the count, which they share.                                        *)
(***************************************************************************)
EXTENDS Replicas, Sequences

CONSTANTS
  Requests, Functions, NoFunction, SetScaleRetries, MaxPollCount, CacheExpiry,
  ReplicasFail, InitialReplicas, Faults,
  Handlers, Labels, Batches,
  ScaleRequests,     \* counts that operators ask for
  IdlerWrites        \* {0} if something outside scales idle functions to zero, or {}

VARIABLES
  desired, ready, cache, members, reply, got, pc, stage, fn, round, result, response,
  batch, seen, outcomes, answer

scalerOnly == <<ready, cache, members, reply, got, pc, stage, fn, round, result, response>>
alertsOnly == <<batch, seen, outcomes, answer>>
vars == <<desired, scalerOnly, alertsOnly>>

(* The minimum label is taken as it is; from the last counts before the    *)
(* type's end, which labels from -5 to -1 ask for, a step wraps.           *)
Minimum(f) == ReadLabels(Labels[f]).min
Wraps(f) == Minimum(f) >= UintMod - DefaultMaxReplicas

(* The counts that anybody sets who is not the part in question.           *)
Others ==
  (1 .. DefaultMaxReplicas) \cup {Minimum(f) : f \in Functions}
  \cup {0 : f \in {g \in Functions : Wraps(g)}} \cup IdlerWrites

Scaler == INSTANCE FunctionScaler WITH
  MinReplicas <- [f \in Functions |-> Minimum(f)],
  OutsideWrites <- Others

Alerts == INSTANCE AlertHandler WITH OutsideWrites <- Others

(* Every function's labels let GetReplicas succeed: of others neither the  *)
(* scaler nor an alert ever learns a count.                                *)
ASSUME LabelsRead == \A f \in Functions :
  ProperLabels(Labels[f]) /\ FactorInRange(Labels[f])
ASSUME InputsTyped ==
  /\ NoFunction \notin Functions
  /\ Batches \subseteq Seq(Alerts!Alerts)
  /\ ScaleRequests \subseteq Uint
  /\ IdlerWrites \subseteq {0}
  /\ InitialReplicas \subseteq 0 .. UintMod - 1 - DefaultMaxReplicas

Init == Scaler!Init /\ Alerts!Init

(* Scaling from zero, the provider's replicas and time.                    *)
ScalerStep ==
  /\ \/ \E r \in Requests :
          (\E f \in Functions : Scaler!Arrive(r, f)) \/ Scaler!Handler(r) \/ Scaler!Leave(r)
     \/ \E f \in Functions : Scaler!AnswerGet(f) \/ Scaler!AnswerSet(f)
     \/ \E k \in Scaler!Keys : Scaler!Land(k)
     \/ \E f \in Functions : Scaler!StartReplica(f) \/ Scaler!StopReplica(f)
     \/ Scaler!Tick
  /\ UNCHANGED alertsOnly

AlertStep ==
  /\ \E h \in Handlers : Alerts!Receive(h) \/ Alerts!Handle(h) \/ Alerts!Leave(h)
  /\ UNCHANGED scalerOnly

(* An operator's request, its count brought into range and forwarded; one  *)
(* that is rejected or lost changes nothing.                               *)
ScaleFunction(f) ==
  /\ \E n \in ScaleRequests : desired' = [desired EXCEPT ![f] = ClampScaleRequest(n)]
  /\ UNCHANGED <<scalerOnly, alertsOnly>>

Idle(f) ==
  /\ \E n \in IdlerWrites : desired' = [desired EXCEPT ![f] = n]
  /\ UNCHANGED <<scalerOnly, alertsOnly>>

GatewayStep == ScalerStep \/ AlertStep \/ \E f \in Functions : ScaleFunction(f)

Next == GatewayStep \/ \E f \in Functions : Idle(f)

Spec == Init /\ [][Next]_vars

-----------------------------------------------------------------------------
(* To the scaler, alerts and operators are other clients of the provider   *)
(* that ask for one to five replicas or for what a minimum label says, and *)
(* the gateway runs it as FunctionScaler says: what is shown of that       *)
(* module holds here.                                                      *)
ScalerImplemented == Scaler!Spec

(* To the alert handlers the scaler and operators are such clients too.    *)
AlertsImplemented == Alerts!Spec

(* The gateway takes a function from some replicas to none only by an      *)
(* alert that its labels ask it of, and never by scaling from zero or by   *)
(* an operator's request, whatever each of them has read and whoever wrote *)
(* in between: a resolved alert does so if the minimum label is zero; a    *)
(* firing one if moreover the maximum is zero, for then its step is zero,  *)
(* or if it adds a step to a minimum from -5 to -1, which wraps            *)
(* (CalculateReplicas, alerthandler.go:107-118).                           *)
IdlesOnlyByLabel ==
  [][\A f \in Functions :
       desired[f] > 0 /\ desired'[f] = 0 /\ GatewayStep =>
         \E h \in Handlers :
           /\ Alerts!Update(h) /\ Alerts!Alert(h).fn = f
           /\ IF Alerts!Alert(h).status = "resolved"
                THEN Minimum(f) = 0
                ELSE (Minimum(f) = 0 /\ Alerts!Highest(f) = 0) \/ Wraps(f)]_vars
=============================================================================
