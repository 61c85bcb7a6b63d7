--------------------------- MODULE FunctionScaler ---------------------------
(***************************************************************************)
(* Scaling a function from zero before its request is forwarded:           *)
(* MakeScalingHandler (handlers/scaling.go) calling FunctionScaler.Scale   *)
(* (scaling/function_scaler.go), with the FunctionCache they share, the    *)
(* singleflight group through which they call the provider, and the        *)
(* provider itself (GetReplicas / SetReplicas of plugin/external.go).      *)
(*                                                                         *)
(* A request is a goroutine.  It gives up the processor only where it      *)
(* calls the group (or sleeps), so Scale is cut there: one action per      *)
(* stretch of code between two calls.  The group is the abstract Flight,   *)
(* which SingleFlightGroup implements.                                     *)
(***************************************************************************)
EXTENDS Integers

CONSTANTS
  Requests,          \* HTTP requests being served
  Functions,         \* functions, "name.namespace"
  NoFunction,        \* an idle request is for no function
  MinReplicas,       \* MinReplicas[f]: the com.openfaas.scale.min label of f
  SetScaleRetries,   \* attempts of the retry loop (20 in main.go)
  MaxPollCount,      \* polls of the holding pattern (1000 in main.go)
  CacheExpiry,       \* ticks for which a cache entry is a hit
  InitialReplicas,   \* replica counts functions may start with
  OutsideWrites,     \* counts that other clients of the provider may set
  ReplicasFail,      \* whether a running replica may stop being available
  Faults             \* ways in which provider calls may fail:
                     \*   "get": GetReplicas returns an error
                     \*   "refuse": SetReplicas answers with an error status
                     \*   "drop": SetReplicas fails with no response

ASSUME FunctionAssumption ==
  /\ NoFunction \notin Functions
  /\ MinReplicas \in [Functions -> Nat]
ASSUME ConfigAssumption ==
  /\ SetScaleRetries \in Nat \ {0}
  /\ MaxPollCount \in Nat \ {0}
  /\ CacheExpiry \in Nat
ASSUME EnvironmentAssumption ==
  /\ InitialReplicas \subseteq Nat
  /\ OutsideWrites \subseteq Nat
  /\ ReplicasFail \in BOOLEAN
  /\ Faults \subseteq {"get", "refuse", "drop"}

VARIABLES
  desired, ready,            \* provider: replicas asked for and available, per function
  cache,                     \* FunctionCache, per function
  members, reply, got,       \* the singleflight group
  pc, stage, fn, round,      \* per request: position, call site, function, loop variable
  result,                    \* per request: the FunctionScaleResult
  response                   \* per request: what MakeScalingHandler did

provider == <<desired, ready>>
group == <<members, reply, got>>
locals == <<pc, stage, fn, round, result, response>>
vars == <<provider, cache, group, locals>>

-----------------------------------------------------------------------------
(* Data                                                                    *)

(* What a provider call ends with: a ServiceQueryResponse, an error, or a  *)
(* panic in SetReplicas, which reads res.StatusCode of a nil res.          *)
Answers == [kind : {"ok", "error", "panic"}, desired : Nat, ready : Nat]
Ok(d, a) == [kind |-> "ok", desired |-> d, ready |-> a]
Error == [kind |-> "error", desired |-> 0, ready |-> 0]
Panic == [kind |-> "panic", desired |-> 0, ready |-> 0]
NoAnswer == [kind |-> "none", desired |-> 0, ready |-> 0]

Results == [available : BOOLEAN, error : BOOLEAN, found : BOOLEAN]
Available == [available |-> TRUE, error |-> FALSE, found |-> TRUE]
NotFound == [available |-> FALSE, error |-> TRUE, found |-> FALSE]
Failed == [available |-> FALSE, error |-> TRUE, found |-> TRUE]
NoResult == [available |-> FALSE, error |-> FALSE, found |-> FALSE]

(* FunctionCache: of a response only AvailableReplicas is ever read back.  *)
(* An entry older than CacheExpiry, or absent, is not a hit.               *)
Entries == [ready : Nat, age : 0 .. CacheExpiry + 1]
NoEntry == [ready |-> 0, age |-> CacheExpiry + 1]
HitUntilTwice(f) == cache[f].age <= CacheExpiry + 1     \* slip: expiry off by one
Hit(f) == cache[f].age <= CacheExpiry
Stored(f, a) == [cache EXCEPT ![f] = [ready |-> a.ready, age |-> 0]]

(* Whether a scale up event is required.                                   *)
NeedsScaleUpNow(a) == a.ready = 0                        \* slip: the wrong count is tested
NeedsScaleUp(a) == a.desired = 0

(* The count Scale asks for.                                               *)
TargetFromLabel(f) == MinReplicas[f]                     \* slip: no default
Target(f) == IF MinReplicas[f] > 0 THEN MinReplicas[f] ELSE 1

(* The key of the call that request r makes in its stage.                  *)
Ops == {"GetReplicas", "SetReplicas"}
Keys == Ops \X Functions
GetKeyOfAny(f) == <<"GetReplicas", CHOOSE g \in Functions : TRUE>>   \* slip: one key for all
GetKey(f) == <<"GetReplicas", f>>
SetKey(f) == <<"SetReplicas", f>>
Key(r) == IF stage[r] = "set" THEN SetKey(fn[r]) ELSE GetKey(fn[r])

Group == INSTANCE Flight WITH
  Callers <- Requests, Replies <- Answers, NoReply <- NoAnswer

TypeOK ==
  /\ desired \in [Functions -> Nat]
  /\ ready \in [Functions -> Nat]
  /\ cache \in [Functions -> Entries]
  /\ Group!TypeOK
  /\ pc \in [Requests -> {"idle", "lookup", "call", "wait", "got", "scaled", "replied"}]
  /\ stage \in [Requests -> {"first", "retry", "set", "poll"}]
  /\ fn \in [Requests -> Functions \cup {NoFunction}]
  /\ \A r \in Requests : pc[r] # "idle" => fn[r] \in Functions
  /\ round \in [Requests -> Nat]
  /\ result \in [Requests -> Results]
  /\ response \in [Requests -> {"none", "404", "500", "next", "empty", "aborted"}]

Init ==
  /\ desired \in [Functions -> InitialReplicas]
  /\ ready = desired
  /\ cache = [f \in Functions |-> NoEntry]
  /\ Group!Init
  /\ pc = [r \in Requests |-> "idle"]
  /\ stage = [r \in Requests |-> "first"]
  /\ fn = [r \in Requests |-> NoFunction]
  /\ round = [r \in Requests |-> 0]
  /\ result = [r \in Requests |-> NoResult]
  /\ response = [r \in Requests |-> "none"]

-----------------------------------------------------------------------------
(* A request                                                               *)

Goto(r, p) == pc' = [pc EXCEPT ![r] = p]

(* Ask the provider (again) from stage s, with loop variable n.            *)
CallFrom(r, s, n) ==
  /\ Goto(r, "call")
  /\ stage' = [stage EXCEPT ![r] = s]
  /\ round' = [round EXCEPT ![r] = n]
  /\ UNCHANGED <<fn, result, response>>

(* Scale returns x.                                                        *)
ScaleReturns(r, x, n) ==
  /\ Goto(r, "scaled")
  /\ result' = [result EXCEPT ![r] = x]
  /\ round' = [round EXCEPT ![r] = n]
  /\ UNCHANGED <<stage, fn, response>>

Arrive(r, f) ==
  /\ pc[r] = "idle"
  /\ Goto(r, "lookup")
  /\ fn' = [fn EXCEPT ![r] = f]
  /\ UNCHANGED <<provider, cache, group, stage, round, result, response>>

(* A fresh cache entry with available replicas is enough to be served.     *)
LookUp(r) ==
  /\ pc[r] = "lookup"
  /\ IF Hit(fn[r]) /\ cache[fn[r]].ready > 0
       THEN ScaleReturns(r, Available, 0)
       ELSE CallFrom(r, "first", 0)
  /\ UNCHANGED <<provider, cache, group>>

(* SingleFlight.Do, entered from any of the call sites.                    *)
Call(r) ==
  /\ pc[r] = "call"
  /\ Group!Join(r, Key(r))
  /\ Goto(r, "wait")
  /\ UNCHANGED <<provider, cache, stage, fn, round, result, response>>

(* The first query.                                                        *)
AfterFirst(r) ==
  /\ pc[r] = "got" /\ stage[r] = "first" /\ got[r].kind # "panic"
  /\ Group!Take(r)
  /\ \/ /\ got[r].kind = "error"
        /\ ScaleReturns(r, NotFound, 0)
        /\ UNCHANGED cache
     \/ /\ got[r].kind = "ok" /\ got[r].ready > 0
        /\ ScaleReturns(r, Available, 0)
        /\ UNCHANGED cache
     \/ /\ got[r].kind = "ok" /\ got[r].ready = 0
        /\ cache' = Stored(fn[r], got[r])
        /\ CallFrom(r, IF NeedsScaleUp(got[r]) THEN "retry" ELSE "poll", 0)
  /\ UNCHANGED provider

(* types.Retry: another attempt, or the error of the last one.             *)
RetryOrGoOn(r) ==                                        \* slip: the last error is ignored
  IF round[r] + 1 < SetScaleRetries
    THEN CallFrom(r, "retry", round[r] + 1)
    ELSE CallFrom(r, "poll", 0)
RetryOneLess(r) ==                                       \* slip: off by one
  IF round[r] + 2 < SetScaleRetries
    THEN CallFrom(r, "retry", round[r] + 1)
    ELSE ScaleReturns(r, Failed, round[r] + 1)
RetryForEver(r) == CallFrom(r, "retry", round[r])        \* slip: the attempts are not counted
RetryOrFail(r) ==
  IF round[r] + 1 < SetScaleRetries
    THEN CallFrom(r, "retry", round[r] + 1)
    ELSE ScaleReturns(r, Failed, round[r] + 1)

(* The query at the head of an attempt.                                    *)
AfterRetryGet(r) ==
  /\ pc[r] = "got" /\ stage[r] = "retry" /\ got[r].kind # "panic"
  /\ Group!Take(r)
  /\ \/ /\ got[r].kind = "error"
        /\ RetryOrFail(r)
        /\ UNCHANGED cache
     \/ /\ got[r].kind = "ok"
        /\ cache' = Stored(fn[r], got[r])
        /\ IF NeedsScaleUp(got[r])
             THEN CallFrom(r, "set", round[r])
             ELSE CallFrom(r, "poll", 0)
  /\ UNCHANGED provider

(* The update that ends an attempt.                                        *)
AfterSet(r) ==
  /\ pc[r] = "got" /\ stage[r] = "set" /\ got[r].kind # "panic"
  /\ Group!Take(r)
  /\ IF got[r].kind = "error" THEN RetryOrFail(r) ELSE CallFrom(r, "poll", 0)
  /\ UNCHANGED <<provider, cache>>

(* The holding pattern.  When its polls are exhausted Scale reports the    *)
(* function as available.                                                  *)
AfterPoll(r) ==
  /\ pc[r] = "got" /\ stage[r] = "poll" /\ got[r].kind # "panic"
  /\ Group!Take(r)
  /\ \/ /\ got[r].kind = "error"
        /\ ScaleReturns(r, Failed, round[r])
        /\ UNCHANGED cache
     \/ /\ got[r].kind = "ok"
        /\ cache' = Stored(fn[r], got[r])
        /\ \/ got[r].ready > 0 /\ ScaleReturns(r, Available, round[r])
           \/ /\ got[r].ready = 0
              /\ IF round[r] + 1 < MaxPollCount
                   THEN CallFrom(r, "poll", round[r] + 1)
                   ELSE ScaleReturns(r, Available, MaxPollCount)
  /\ UNCHANGED provider

(* A panic of the flight is re-raised in everybody who joined it; the HTTP *)
(* server recovers it and aborts the connection.                           *)
Unwind(r) ==
  /\ pc[r] = "got" /\ got[r].kind = "panic"
  /\ Group!Take(r)
  /\ Goto(r, "replied")
  /\ response' = [response EXCEPT ![r] = "aborted"]
  /\ UNCHANGED <<provider, cache, stage, fn, round, result>>

(* MakeScalingHandler, after Scale: a status for what was not found and for *)
(* an error, next for what is available, and an empty response otherwise.   *)
Outcome(x) ==
  IF ~x.found THEN "404"
  ELSE IF x.error THEN "500"
  ELSE IF x.available THEN "next"
  ELSE "empty"

Respond(r) ==
  /\ pc[r] = "scaled"
  /\ Goto(r, "replied")
  /\ response' = [response EXCEPT ![r] = Outcome(result[r])]
  /\ UNCHANGED <<provider, cache, group, stage, fn, round, result>>

(* The request is over and its goroutine is gone.                          *)
Leave(r) ==
  /\ pc[r] = "replied"
  /\ Goto(r, "idle")
  /\ stage' = [stage EXCEPT ![r] = "first"]
  /\ fn' = [fn EXCEPT ![r] = NoFunction]
  /\ round' = [round EXCEPT ![r] = 0]
  /\ result' = [result EXCEPT ![r] = NoResult]
  /\ response' = [response EXCEPT ![r] = "none"]
  /\ UNCHANGED <<provider, cache, group>>

Handler(r) ==
  \/ LookUp(r) \/ Call(r)
  \/ AfterFirst(r) \/ AfterRetryGet(r) \/ AfterSet(r) \/ AfterPoll(r)
  \/ Unwind(r) \/ Respond(r)

-----------------------------------------------------------------------------
(* Provider calls, made by the leader of a flight                          *)

(* GetReplicas: the provider reads the counts, or the call fails.          *)
AnswerGet(f) ==
  /\ \/ Group!Return(GetKey(f), Ok(desired[f], ready[f]))
     \/ "get" \in Faults /\ Group!Return(GetKey(f), Error)
  /\ UNCHANGED <<provider, cache, locals>>

(* SetReplicas(Target(f)): accepted; refused with a status other than 200  *)
(* and 202; or cut off, after the provider applied it or before.           *)
AnswerSet(f) ==
  /\ \/ /\ Group!Return(SetKey(f), Ok(0, 0))
        /\ desired' = [desired EXCEPT ![f] = Target(f)]
     \/ /\ "refuse" \in Faults
        /\ Group!Return(SetKey(f), Error)
        /\ UNCHANGED desired
     \/ /\ "drop" \in Faults
        /\ Group!Return(SetKey(f), Panic)
        /\ desired' \in {desired, [desired EXCEPT ![f] = Target(f)]}
  /\ UNCHANGED <<ready, cache, locals>>

(* The group hands the reply to every request in the flight.               *)
LandOnOne(k) ==                                          \* slip: Signal instead of Broadcast
  /\ Group!Land(k)
  /\ LET leader == CHOOSE r \in members[k] : TRUE
     IN  pc' = [pc EXCEPT ![leader] = "got"]
  /\ UNCHANGED <<provider, cache, stage, fn, round, result, response>>
Land(k) ==
  /\ Group!Land(k)
  /\ pc' = [r \in Requests |-> IF r \in members[k] THEN "got" ELSE pc[r]]
  /\ UNCHANGED <<provider, cache, stage, fn, round, result, response>>

-----------------------------------------------------------------------------
(* The provider's own steps, its other clients, and time                   *)

StartReplica(f) ==
  /\ ready[f] < desired[f]
  /\ ready' = [ready EXCEPT ![f] = @ + 1]
  /\ UNCHANGED <<desired, cache, group, locals>>

StopReplica(f) ==
  /\ ready[f] > desired[f] \/ (ReplicasFail /\ ready[f] > 0)
  /\ ready' = [ready EXCEPT ![f] = @ - 1]
  /\ UNCHANGED <<desired, cache, group, locals>>

OutsideWrite(f) ==
  /\ \E n \in OutsideWrites : desired' = [desired EXCEPT ![f] = n]
  /\ UNCHANGED <<ready, cache, group, locals>>

Tick ==
  /\ cache' = [f \in Functions |->
                 IF Hit(f) THEN [ready |-> cache[f].ready, age |-> cache[f].age + 1]
                            ELSE cache[f]]
  /\ UNCHANGED <<provider, group, locals>>

Next ==
  \/ \E r \in Requests : (\E f \in Functions : Arrive(r, f)) \/ Handler(r) \/ Leave(r)
  \/ \E f \in Functions : AnswerGet(f) \/ AnswerSet(f)
  \/ \E k \in Keys : Land(k)
  \/ \E f \in Functions : StartReplica(f) \/ StopReplica(f) \/ OutsideWrite(f)
  \/ Tick

Spec == Init /\ [][Next]_vars

(* Runnable goroutines are scheduled; the provider answers every call (the *)
(* gateway sets no overall time-out for them); replicas that are asked for *)
(* start.  Clients, other writers and time owe nothing.                    *)
Fairness ==
  /\ \A r \in Requests : WF_vars(Handler(r))
  /\ \A f \in Functions :
       WF_vars(AnswerGet(f)) /\ WF_vars(AnswerSet(f)) /\ WF_vars(StartReplica(f))
  /\ \A k \in Keys : WF_vars(Land(k))

FairSpec == Spec /\ Fairness

-----------------------------------------------------------------------------
(* Properties                                                              *)

(* A request waits in exactly the flight of the key it called, and holds a *)
(* reply exactly when that flight has landed: no request sleeps on a       *)
(* flight that is over, none is woken by another key's (Scale's four uses  *)
(* of SingleFlight.Do, two of which share a key).                          *)
WaitersInFlight ==
  /\ \A r \in Requests, k \in Keys :
       r \in members[k] <=> pc[r] = "wait" /\ Key(r) = k
  /\ \A r \in Requests : got[r] # NoAnswer <=> pc[r] = "got"

(* While nobody scales to zero and replicas that run keep running, what    *)
(* was seen once stays true.                                               *)
Stable == 0 \notin OutsideWrites /\ ~ReplicasFail

(* A request that polled its polls away.                                   *)
Exhausted(r) == stage[r] = "poll" /\ round[r] = MaxPollCount

(* In a stable system a request is forwarded only if a replica of its own  *)
(* function is available, unless its polls were exhausted: neither the     *)
(* cache nor a shared flight ever vouches for a replica that is not there. *)
ServedWhenReady == \A r \in Requests :
  response[r] = "next" /\ ~Exhausted(r) => ready[fn[r]] > 0

(* What MakeScalingHandler's comment says (handlers/scaling.go:19): if the *)
(* function is not ready after the configured queries, next is not invoked.*)
NextOnlyWhenReady == \A r \in Requests : response[r] = "next" => ready[fn[r]] > 0

(* In a stable system a request enters the holding pattern only once its   *)
(* function has been asked for: it never polls for a replica that nobody   *)
(* will start.                                                             *)
HoldingScaled == \A r \in Requests :
  stage[r] = "poll" /\ pc[r] # "idle" => desired[fn[r]] > 0

(* Scale only raises: it never replaces a count above zero by a lower one  *)
(* ("set them if the value is still at 0", function_scaler.go:100).        *)
OnlyRaises ==
  [][\A f \in Functions :
       ~OutsideWrite(f) => desired'[f] >= desired[f]]_vars

(* The argument for ServedWhenReady and HoldingScaled: in a stable system   *)
(* every answer that is still about, in a flight, in a request's hands or  *)
(* in the cache, vouches for what the provider still has, and so does a    *)
(* result that says "available".                                           *)
Vouches(k, a) == a.kind = "ok" =>
  /\ (k = SetKey(k[2]) \/ a.desired > 0) => desired[k[2]] > 0
  /\ a.ready > 0 => ready[k[2]] > 0

ObservationsSound ==
  /\ \A k \in Keys : Vouches(k, reply[k])
  /\ \A f \in Functions :
       /\ cache[f].ready > 0 => ready[f] > 0
       /\ ready[f] > 0 => desired[f] > 0
  /\ \A r \in Requests :
       /\ pc[r] = "got" => Vouches(Key(r), got[r])
       /\ pc[r] = "scaled" /\ result[r].available /\ ~Exhausted(r) => ready[fn[r]] > 0
       /\ pc[r] # "replied" => response[r] = "none"
       /\ pc[r] = "idle" => stage[r] = "first"

(* The argument for OnlyRaises: when the only other writer is an idler     *)
(* that scales to zero, a function that was once seen at zero never again  *)
(* has more replicas than Scale asks for, so neither a flight that is late *)
(* nor a request that decided long ago can lower its count.                *)
OnlyIdler == OutsideWrites \subseteq {0}

BelowTarget(f) == desired[f] <= Target(f)

ZeroSeen ==
  /\ \A f \in Functions :
       reply[GetKey(f)].kind = "ok" /\ reply[GetKey(f)].desired = 0 => BelowTarget(f)
  /\ \A r \in Requests :
       /\ pc[r] = "got" /\ stage[r] # "set" /\ got[r].kind = "ok" /\ got[r].desired = 0
            => BelowTarget(fn[r])
       /\ pc[r] # "idle" /\ stage[r] \in {"retry", "set"} => BelowTarget(fn[r])
       /\ pc[r] = "idle" => stage[r] = "first"

(* Retrying: a request that ends in the retry loop without an answer from  *)
(* next has made all its attempts (scaling_config.go:22).                  *)
KeepsTrying == \A r \in Requests :
  pc[r] = "replied" /\ stage[r] \in {"retry", "set"} => round[r] = SetScaleRetries

(* Every request is answered or aborted, whatever fails.                   *)
Answered == \A r \in Requests : pc[r] # "idle" ~> pc[r] = "replied"

(* With nobody scaling to zero, a request for a function is enough to get  *)
(* the function a replica, or the request is told of an error.             *)
ColdStart == \A f \in Functions :
  (\E r \in Requests : fn[r] = f)
    ~> \/ ready[f] > 0
       \/ \E r \in Requests : fn[r] = f /\ response[r] \in {"404", "500"}
=============================================================================
