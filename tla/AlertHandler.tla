---------------------------- MODULE AlertHandler ----------------------------
(***************************************************************************)
(* Scaling on alerts: MakeAlertHandler, handleAlerts and scaleService      *)
(* (handlers/alerthandler.go) against a provider's replica counts.         *)
(*                                                                         *)
(* A handler works through one batch of Alertmanager's.  For each alert it *)
(* reads the count and then writes a new one, with nothing that keeps      *)
(* another handler (or another client of the provider) out in between.     *)
(***************************************************************************)
EXTENDS Replicas, Sequences

CONSTANTS
  Handlers,          \* POST /system/alert requests being served
  Functions,         \* functions that are deployed
  NoFunction,        \* the label of an alert that names no function
  Labels,            \* Labels[f]: the scale labels of f
  Batches,           \* batches that Alertmanager may send, sequences of alerts
  InitialReplicas,   \* counts functions may start with
  OutsideWrites,     \* counts other clients of the provider may set
  Faults             \* provider calls may fail: "get", "refuse", "drop"

Alerts == [status : {"firing", "resolved"}, fn : Functions \cup {NoFunction}]

ASSUME AlertAssumption ==
  /\ NoFunction \notin Functions
  /\ \A f \in Functions : ProperLabels(Labels[f])
  /\ \A b \in Batches : b \in Seq(Alerts)
ASSUME ProviderAssumption ==
  /\ InitialReplicas \subseteq Uint
  /\ OutsideWrites \subseteq Uint
  /\ Faults \subseteq {"get", "refuse", "drop"}

VARIABLES
  desired,      \* desired[f]: the provider's replica count
  batch,        \* batch[h]: the alerts of the request
  seen,         \* seen[h]: the count read for the current alert, or NotRead
  outcomes,     \* outcomes[h]: what became of the alerts before the current one
  answer        \* answer[h]: "none" while idle, "busy", or the response

handlerVars == <<batch, seen, outcomes, answer>>
vars == <<desired, handlerVars>>

NotRead == -1
Outcomes == {"skipped", "unread", "unchanged", "scaled", "failed"}

TypeOK ==
  /\ desired \in [Functions -> Uint]
  /\ batch \in [Handlers -> Seq(Alerts)]
  /\ seen \in [Handlers -> Uint \cup {NotRead}]
  /\ outcomes \in [Handlers -> Seq(Outcomes)]
  /\ answer \in [Handlers -> {"none", "busy", "200", "400", "500", "aborted"}]

Init ==
  /\ desired \in [Functions -> InitialReplicas]
  /\ batch = [h \in Handlers |-> << >>]
  /\ seen = [h \in Handlers |-> NotRead]
  /\ outcomes = [h \in Handlers |-> << >>]
  /\ answer = [h \in Handlers |-> "none"]

(* handleAlerts' loop: the alert that h is at.                             *)
AtAlert(h) == answer[h] = "busy" /\ Len(outcomes[h]) < Len(batch[h])
Alert(h) == batch[h][Len(outcomes[h]) + 1]

(* The count that it calls for.                                            *)
NewReplicas(h) ==
  LET range == ReadLabels(Labels[Alert(h).fn])
  IN  CalculateReplicas(Alert(h).status, seen[h], range.max, range.min, range.factor)

(* Slips: the count read for one alert is used for the next of the same    *)
(* function; an update that fails is tried until it succeeds.              *)
AlertDoneRemembering(h, o) ==
  LET next == Len(outcomes[h]) + 2
  IN  /\ outcomes' = [outcomes EXCEPT ![h] = Append(@, o)]
      /\ seen' = [seen EXCEPT ![h] =
                    IF next <= Len(batch[h]) /\ batch[h][next].fn = Alert(h).fn
                      THEN @ ELSE NotRead]
      /\ UNCHANGED <<batch, answer>>
AlertDoneUntilSuccess(h, o) ==
  /\ outcomes' = [outcomes EXCEPT ![h] = IF o = "failed" THEN @ ELSE Append(@, o)]
  /\ seen' = [seen EXCEPT ![h] = NotRead]
  /\ UNCHANGED <<batch, answer>>

(* scaleService returns, and the loop goes on; an error is collected.      *)
AlertDone(h, o) ==
  /\ outcomes' = [outcomes EXCEPT ![h] = Append(@, o)]
  /\ seen' = [seen EXCEPT ![h] = NotRead]
  /\ UNCHANGED <<batch, answer>>

-----------------------------------------------------------------------------
(* A batch arrives; a body that cannot be parsed is rejected.              *)
Receive(h) ==
  /\ answer[h] = "none"
  /\ \/ \E b \in Batches :
          /\ batch' = [batch EXCEPT ![h] = b]
          /\ answer' = [answer EXCEPT ![h] = "busy"]
     \/ /\ answer' = [answer EXCEPT ![h] = "400"]
        /\ UNCHANGED batch
  /\ UNCHANGED <<desired, seen, outcomes>>

(* An alert without a function name.                                       *)
Skip(h) ==
  /\ AtAlert(h) /\ Alert(h).fn = NoFunction
  /\ AlertDone(h, "skipped")
  /\ UNCHANGED desired

(* service.GetReplicas: the provider is read, or the call fails, which     *)
(* scaleService passes over; a scaling factor out of range is a failure.   *)
Query(h) ==
  /\ AtAlert(h) /\ Alert(h).fn # NoFunction /\ seen[h] = NotRead
  /\ \/ /\ FactorInRange(Labels[Alert(h).fn])
        /\ seen' = [seen EXCEPT ![h] = desired[Alert(h).fn]]
        /\ UNCHANGED <<batch, outcomes, answer>>
     \/ /\ "get" \in Faults \/ ~FactorInRange(Labels[Alert(h).fn])
        /\ AlertDone(h, "unread")
  /\ UNCHANGED desired

(* The count is right already.                                             *)
Keep(h) ==
  /\ AtAlert(h) /\ seen[h] # NotRead /\ NewReplicas(h) = seen[h]
  /\ AlertDone(h, "unchanged")
  /\ UNCHANGED desired

(* service.SetReplicas: accepted, refused, or cut off after or before the  *)
(* provider applied it.  The last panics in plugin/external.go:173 and     *)
(* ends the request with the rest of its batch.                            *)
Update(h) ==
  /\ AtAlert(h) /\ seen[h] # NotRead /\ NewReplicas(h) # seen[h]
  /\ LET applied == [desired EXCEPT ![Alert(h).fn] = NewReplicas(h)]
     IN  \/ /\ desired' = applied
            /\ AlertDone(h, "scaled")
         \/ /\ "refuse" \in Faults
            /\ AlertDone(h, "failed")
            /\ UNCHANGED desired
         \/ /\ "drop" \in Faults
            /\ desired' \in {desired, applied}
            /\ answer' = [answer EXCEPT ![h] = "aborted"]
            /\ seen' = [seen EXCEPT ![h] = NotRead]
            /\ UNCHANGED <<batch, outcomes>>

Had(h, o) == \E i \in DOMAIN outcomes[h] : outcomes[h][i] = o

(* The loop is over.                                                       *)
Respond(h) ==
  /\ answer[h] = "busy" /\ ~AtAlert(h)
  /\ answer' = [answer EXCEPT ![h] = IF Had(h, "failed") THEN "500" ELSE "200"]
  /\ UNCHANGED <<desired, batch, seen, outcomes>>

Leave(h) ==
  /\ answer[h] \notin {"none", "busy"}
  /\ answer' = [answer EXCEPT ![h] = "none"]
  /\ batch' = [batch EXCEPT ![h] = << >>]
  /\ outcomes' = [outcomes EXCEPT ![h] = << >>]
  /\ UNCHANGED <<desired, seen>>

OutsideWrite(f) ==
  /\ \E n \in OutsideWrites : desired' = [desired EXCEPT ![f] = n]
  /\ UNCHANGED handlerVars

Handle(h) == Skip(h) \/ Query(h) \/ Keep(h) \/ Update(h) \/ Respond(h)

Next ==
  \/ \E h \in Handlers : Receive(h) \/ Handle(h) \/ Leave(h)
  \/ \E f \in Functions : OutsideWrite(f)

Spec == Init /\ [][Next]_vars

(* The provider answers, and handlers are scheduled.                       *)
FairSpec == Spec /\ \A h \in Handlers : WF_vars(Handle(h))

-----------------------------------------------------------------------------
(* The counts that alerts may set for a function whose labels make sense.  *)
Lowest(f) == ReadLabels(Labels[f]).min
Highest(f) == Cap(ReadLabels(Labels[f]).max)
Sensible(f) == 1 <= Lowest(f) /\ Lowest(f) <= Highest(f) /\ FactorInRange(Labels[f])

(* Everybody else respects those ranges.                                   *)
OthersInRange == \A f \in Functions : Sensible(f) =>
  InitialReplicas \cup OutsideWrites \subseteq Lowest(f) .. Highest(f)

(* However batches interleave and whatever they read, alerts keep a        *)
(* function between its minimum and its maximum (and never scale it to     *)
(* zero), provided its labels make sense and nobody else leaves the range. *)
StaysInRange == \A f \in Functions :
  OthersInRange /\ Sensible(f) => Lowest(f) <= desired[f] /\ desired[f] <= Highest(f)

(* An alert that fires never lowers the count it read, unless that count   *)
(* was above the ceiling (scaleService): only a stale read can lower.      *)
FiringRaises ==
  [][\A h \in Handlers :
       /\ Update(h) /\ Alert(h).status = "firing" /\ Sensible(Alert(h).fn)
       /\ seen[h] = desired[Alert(h).fn] /\ seen[h] <= Highest(Alert(h).fn)
       => desired'[Alert(h).fn] >= desired[Alert(h).fn]]_vars

(* The last alert of the batch for f that was acted upon.                  *)
Acted(h, f) == {i \in DOMAIN outcomes[h] :
  batch[h][i].fn = f /\ outcomes[h][i] \in {"unchanged", "scaled"}}
LastActed(h, f) == CHOOSE i \in Acted(h, f) : \A j \in Acted(h, f) : j <= i

(* When a batch has been handled and its last word on a function was       *)
(* "resolved", the function is back at its minimum, whatever fired before  *)
(* in the same batch - if nobody else touched its count meanwhile.         *)
SettledAt(h, f) ==
  (answer[h] \in {"200", "500"} /\ Acted(h, f) # {}) =>
    (batch[h][LastActed(h, f)].status = "resolved" => desired[f] = Lowest(f))

(* Every batch is answered or aborted.                                     *)
BatchAnswered == \A h \in Handlers : answer[h] = "busy" ~> answer[h] \notin {"none", "busy"}
=============================================================================
