------------------------ MODULE FunctionScalerProofs ------------------------
(***************************************************************************)
(* What holds of FunctionScaler for every set of requests and functions,   *)
(* every configuration and every behaviour of the provider.                *)
(***************************************************************************)
EXTENDS FunctionScaler, TLAPS

(* The two keys of a function.                                             *)
LEMMA KeysOf == \A f \in Functions :
  GetKey(f) \in Keys /\ SetKey(f) \in Keys
  BY DEF Keys, Ops, GetKey, SetKey

(* A request for a function calls with one of the keys.                    *)
LEMMA KeyOf == \A r \in Requests : fn[r] \in Functions => Key(r) \in Keys
  BY KeysOf DEF Key

(* The count that Scale asks for is at least one.                          *)
LEMMA TargetPositive == \A f \in Functions : Target(f) \in Nat /\ Target(f) > 0
  BY FunctionAssumption DEF Target

(* Every reply that is made of provider answers is of the right type.      *)
LEMMA AnswersTyped ==
  /\ \A d, a \in Nat : Ok(d, a) \in Answers
  /\ Error \in Answers /\ Panic \in Answers
  /\ NoAnswer \notin Answers
<1>1. \A d, a \in Nat : Ok(d, a) \in Answers
  BY DEF Answers, Ok
<1>2. Error \in Answers /\ Panic \in Answers
  BY DEF Answers, Error, Panic
<1>3. NoAnswer \notin Answers
  BY DEF Answers, NoAnswer
<1> QED
  BY <1>1, <1>2, <1>3

-----------------------------------------------------------------------------
(* Type correctness                                                        *)

(* So is everything that Scale returns.                                    *)
LEMMA ResultsTyped ==
  /\ Available \in Results
  /\ NotFound \in Results
  /\ Failed \in Results
  /\ NoResult \in Results
<1>1. Available \in Results
  BY DEF Results, Available
<1>2. NotFound \in Results
  BY DEF Results, NotFound
<1>3. Failed \in Results
  BY DEF Results, Failed
<1>4. NoResult \in Results
  BY DEF Results, NoResult
<1> QED
  BY <1>1, <1>2, <1>3, <1>4

(* An absent entry is typed.                                               *)
LEMMA NoEntryTyped == NoEntry \in Entries
  BY ConfigAssumption DEF Entries, NoEntry

(* A response that was stored is a cache entry.                            *)
LEMMA StoredTyped ==
  ASSUME cache \in [Functions -> Entries], NEW f \in Functions, NEW a \in Answers
  PROVE  Stored(f, a) \in [Functions -> Entries]
<1>1. a.ready \in Nat
  BY DEF Answers
<1>2. [ready |-> a.ready, age |-> 0] \in Entries
  BY <1>1, ConfigAssumption DEF Entries
<1> QED
  BY <1>2 DEF Stored

(* The initial states are typed.                                           *)
LEMMA TypeInit == Init => TypeOK
<1> SUFFICES ASSUME Init PROVE TypeOK
  OBVIOUS
<1>1. desired \in [Functions -> Nat] /\ ready \in [Functions -> Nat]
  BY EnvironmentAssumption DEF Init
<1>2. cache \in [Functions -> Entries]
  BY NoEntryTyped DEF Init
<1>3. Group!TypeOK
  BY DEF Init, Group!Init, Group!TypeOK
<1> QED
  BY <1>1, <1>2, <1>3, ResultsTyped DEF Init, TypeOK

(* The part of TypeOK that is about a request's own variables.             *)
LocalsOK ==
  /\ pc \in [Requests -> {"idle", "lookup", "call", "wait", "got", "scaled", "replied"}]
  /\ stage \in [Requests -> {"first", "retry", "set", "poll"}]
  /\ fn \in [Requests -> Functions \cup {NoFunction}]
  /\ \A r \in Requests : pc[r] # "idle" => fn[r] \in Functions
  /\ round \in [Requests -> Nat]
  /\ result \in [Requests -> Results]
  /\ response \in [Requests -> {"none", "404", "500", "next", "empty", "aborted"}]

(* Going back to the provider keeps a request's types.                     *)
LEMMA CallFromTyped ==
  ASSUME LocalsOK, NEW r \in Requests, pc[r] # "idle",
         NEW s \in {"first", "retry", "set", "poll"}, NEW n \in Nat, CallFrom(r, s, n)
  PROVE  LocalsOK'
  BY DEF LocalsOK, CallFrom, Goto

(* So does returning from Scale,                                           *)
LEMMA ScaleReturnsTyped ==
  ASSUME LocalsOK, NEW r \in Requests, pc[r] # "idle",
         NEW x \in {Available, NotFound, Failed}, NEW n \in Nat, ScaleReturns(r, x, n)
  PROVE  LocalsOK'
<1>1. x \in Results
  BY ResultsTyped
<1> QED
  BY <1>1 DEF LocalsOK, ScaleReturns, Goto

(* and making another attempt or giving up.                                *)
LEMMA RetryOrFailTyped ==
  ASSUME LocalsOK, NEW r \in Requests, pc[r] # "idle", RetryOrFail(r)
  PROVE  LocalsOK'
<1>1. round[r] + 1 \in Nat
  BY DEF LocalsOK
<1> QED
  BY <1>1, CallFromTyped, ScaleReturnsTyped DEF RetryOrFail

(* A flight's outcome is typed,                                            *)
LEMMA ReturnTyped ==
  ASSUME Group!TypeOK, NEW k \in Keys, NEW v \in Answers, Group!Return(k, v)
  PROVE  Group!TypeOK'
  BY DEF Group!TypeOK, Group!Return

(* and so is what it hands over.                                           *)
LEMMA LandTyped ==
  ASSUME Group!TypeOK, NEW k \in Keys, Group!Land(k)
  PROVE  Group!TypeOK'
<1>1. reply[k] \in Answers \cup {NoAnswer}
  BY DEF Group!TypeOK
<1>2. got' \in [Requests -> Answers \cup {NoAnswer}]
  BY <1>1 DEF Group!TypeOK, Group!Land
<1>3. members' \in [Keys -> SUBSET Requests]
  BY DEF Group!TypeOK, Group!Land
<1>4. reply' \in [Keys -> Answers \cup {NoAnswer}]
  BY DEF Group!TypeOK, Group!Land
<1> QED
  BY <1>2, <1>3, <1>4 DEF Group!TypeOK

(* A flight that lands wakes requests that wait, so it needs the second    *)
(* invariant.                                                              *)
LEMMA TypeStep == TypeOK /\ WaitersInFlight /\ [Next]_vars => TypeOK'
<1> SUFFICES ASSUME TypeOK, WaitersInFlight, [Next]_vars PROVE TypeOK'
  OBVIOUS
<1> USE DEF TypeOK
<1>0. LocalsOK
  BY DEF LocalsOK
<1>1. ASSUME NEW r \in Requests, NEW f \in Functions, Arrive(r, f) PROVE TypeOK'
  BY <1>1 DEF Arrive, Goto, provider, group, Group!TypeOK
<1>2. ASSUME NEW r \in Requests, LookUp(r) PROVE TypeOK'
  <2>1. LocalsOK'
    BY <1>0, <1>2, CallFromTyped, ScaleReturnsTyped DEF LookUp
  <2> QED
    BY <1>2, <2>1 DEF LookUp, LocalsOK, provider, group, Group!TypeOK
<1>3. ASSUME NEW r \in Requests, Call(r) PROVE TypeOK'
  <2>1. Group!TypeOK'
    BY <1>3, KeyOf DEF Call, Group!Join, Group!TypeOK
  <2> QED
    BY <1>3, <2>1 DEF Call, Goto, provider
<1>4. ASSUME NEW r \in Requests, AfterFirst(r) PROVE TypeOK'
  <2>1. got[r] \in Answers /\ pc[r] # "idle" /\ fn[r] \in Functions
    BY <1>4 DEF AfterFirst, Group!Take, Group!TypeOK
  <2>2. Group!TypeOK' /\ UNCHANGED <<desired, ready>>
    BY <1>4 DEF AfterFirst, Group!Take, Group!TypeOK, provider
  <2>3. cache' \in [Functions -> Entries]
    BY <1>4, <2>1, StoredTyped DEF AfterFirst
  <2>4. LocalsOK'
    BY <1>4, <2>1, <1>0, CallFromTyped, ScaleReturnsTyped DEF AfterFirst
  <2> QED
    BY <2>2, <2>3, <2>4 DEF LocalsOK
<1>5. ASSUME NEW r \in Requests, AfterRetryGet(r) PROVE TypeOK'
  <2>1. got[r] \in Answers /\ pc[r] # "idle" /\ fn[r] \in Functions
    BY <1>5 DEF AfterRetryGet, Group!Take, Group!TypeOK
  <2>2. Group!TypeOK' /\ UNCHANGED <<desired, ready>>
    BY <1>5 DEF AfterRetryGet, Group!Take, Group!TypeOK, provider
  <2>3. cache' \in [Functions -> Entries]
    BY <1>5, <2>1, StoredTyped DEF AfterRetryGet
  <2>4. LocalsOK'
    BY <1>5, <2>1, <1>0, CallFromTyped, RetryOrFailTyped DEF AfterRetryGet
  <2> QED
    BY <2>2, <2>3, <2>4 DEF LocalsOK
<1>6. ASSUME NEW r \in Requests, AfterSet(r) PROVE TypeOK'
  <2>1. got[r] \in Answers /\ pc[r] # "idle" /\ fn[r] \in Functions
    BY <1>6 DEF AfterSet, Group!Take, Group!TypeOK
  <2>2. Group!TypeOK' /\ UNCHANGED <<desired, ready>>
    BY <1>6 DEF AfterSet, Group!Take, Group!TypeOK, provider
  <2>3. cache' \in [Functions -> Entries]
    BY <1>6, <2>1, StoredTyped DEF AfterSet
  <2>4. LocalsOK'
    BY <1>6, <2>1, <1>0, CallFromTyped, RetryOrFailTyped DEF AfterSet
  <2> QED
    BY <2>2, <2>3, <2>4 DEF LocalsOK
<1>7. ASSUME NEW r \in Requests, AfterPoll(r) PROVE TypeOK'
  <2>1. got[r] \in Answers /\ pc[r] # "idle" /\ fn[r] \in Functions
    BY <1>7 DEF AfterPoll, Group!Take, Group!TypeOK
  <2>2. Group!TypeOK' /\ UNCHANGED <<desired, ready>>
    BY <1>7 DEF AfterPoll, Group!Take, Group!TypeOK, provider
  <2>3. cache' \in [Functions -> Entries]
    BY <1>7, <2>1, StoredTyped DEF AfterPoll
  <2>4. LocalsOK'
    BY <1>7, <2>1, <1>0, ConfigAssumption, CallFromTyped, ScaleReturnsTyped DEF AfterPoll
  <2> QED
    BY <2>2, <2>3, <2>4 DEF LocalsOK
<1>8. ASSUME NEW r \in Requests, Unwind(r) PROVE TypeOK'
  BY <1>8 DEF Unwind, Group!Take, Group!TypeOK, Goto, provider
<1>9. ASSUME NEW r \in Requests, Respond(r) PROVE TypeOK'
  BY <1>9 DEF Respond, Outcome, Goto, provider, group, Group!TypeOK
<1>10. ASSUME NEW r \in Requests, Leave(r) PROVE TypeOK'
  BY <1>10, ResultsTyped DEF Leave, Goto, provider, group, Group!TypeOK
<1>11. ASSUME NEW f \in Functions, AnswerGet(f) PROVE TypeOK'
  <2>1. PICK v \in Answers : Group!Return(GetKey(f), v)
    BY <1>11, AnswersTyped DEF AnswerGet
  <2>2. Group!TypeOK'
    BY <2>1, KeysOf, ReturnTyped
  <2> QED
    BY <1>11, <2>2 DEF AnswerGet, provider, locals
<1>12. ASSUME NEW f \in Functions, AnswerSet(f) PROVE TypeOK'
  <2>1. PICK v \in Answers : Group!Return(SetKey(f), v)
    BY <1>12, AnswersTyped DEF AnswerSet
  <2>2. Group!TypeOK'
    BY <2>1, KeysOf, ReturnTyped
  <2>3. desired' \in [Functions -> Nat]
    BY <1>12, TargetPositive DEF AnswerSet
  <2> QED
    BY <1>12, <2>2, <2>3 DEF AnswerSet, locals
<1>13. ASSUME NEW k \in Keys, Land(k) PROVE TypeOK'
  <2>1. Group!TypeOK'
    BY <1>13, LandTyped DEF Land
  <2>2. \A r \in Requests : r \in members[k] => pc[r] = "wait"
    BY DEF WaitersInFlight
  <2> QED
    BY <1>13, <2>1, <2>2 DEF Land, provider
<1>14. ASSUME NEW f \in Functions, StartReplica(f) PROVE TypeOK'
  BY <1>14 DEF StartReplica, group, locals, Group!TypeOK
<1>15. ASSUME NEW f \in Functions, StopReplica(f) PROVE TypeOK'
  BY <1>15 DEF StopReplica, group, locals, Group!TypeOK
<1>16. ASSUME NEW f \in Functions, OutsideWrite(f) PROVE TypeOK'
  BY <1>16, EnvironmentAssumption DEF OutsideWrite, group, locals, Group!TypeOK
<1>17. CASE Tick
  <2>1. ASSUME NEW f \in Functions, Hit(f)
        PROVE  [ready |-> cache[f].ready, age |-> cache[f].age + 1] \in Entries
    BY <2>1, ConfigAssumption DEF Hit, Entries
  <2>2. cache' \in [Functions -> Entries]
    BY <1>17, <2>1 DEF Tick
  <2> QED
    BY <1>17, <2>2 DEF Tick, provider, group, locals, Group!TypeOK
<1>18. CASE UNCHANGED vars
  BY <1>18 DEF vars, provider, group, locals, Group!TypeOK
<1> QED
  BY <1>1, <1>2, <1>3, <1>4, <1>5, <1>6, <1>7, <1>8, <1>9, <1>10, <1>11, <1>12,
     <1>13, <1>14, <1>15, <1>16, <1>17, <1>18
  DEF Next, Handler

-----------------------------------------------------------------------------
(* Requests and flights                                                    *)

(* Initially nobody waits.                                                 *)
LEMMA WaitersInit == Init => WaitersInFlight
  BY DEF Init, Group!Init, WaitersInFlight

(* A step of one request that neither enters nor leaves a flight.          *)
LEMMA WaitersOwnStep ==
  ASSUME WaitersInFlight, NEW r \in Requests, UNCHANGED members,
         pc[r] # "wait", pc'[r] # "wait", got'[r] # NoAnswer <=> pc'[r] = "got",
         \A q \in Requests \ {r} :
           /\ pc'[q] = pc[q] /\ stage'[q] = stage[q] /\ fn'[q] = fn[q]
           /\ got'[q] = got[q]
  PROVE  WaitersInFlight'
<1>1. ASSUME NEW q \in Requests \ {r}, NEW k \in Keys
      PROVE  (q \in members[k] <=> pc[q] = "wait" /\ Key(q) = k)'
  BY <1>1 DEF WaitersInFlight, Key
<1>2. ASSUME NEW k \in Keys
      PROVE  (r \in members[k] <=> pc[r] = "wait" /\ Key(r) = k)'
  BY <1>2 DEF WaitersInFlight
<1>3. (\A q \in Requests : got[q] # NoAnswer <=> pc[q] = "got")'
  BY DEF WaitersInFlight
<1> QED
  BY <1>1, <1>2, <1>3 DEF WaitersInFlight

(* A step that leaves requests and flights alone.                          *)
LEMMA WaitersOtherStep ==
  ASSUME WaitersInFlight, UNCHANGED <<members, got, pc, stage, fn>>
  PROVE  WaitersInFlight'
  BY DEF WaitersInFlight, Key

(* Every step keeps waiters in flight.                                     *)
LEMMA WaitersStep == TypeOK /\ WaitersInFlight /\ [Next]_vars => WaitersInFlight'
<1> SUFFICES ASSUME TypeOK, WaitersInFlight, [Next]_vars PROVE WaitersInFlight'
  OBVIOUS
<1> USE DEF TypeOK, Group!TypeOK
<1>0. \A r \in Requests : got[r] # NoAnswer <=> pc[r] = "got"
  BY DEF WaitersInFlight
<1>1. ASSUME NEW r \in Requests, NEW f \in Functions, Arrive(r, f) PROVE WaitersInFlight'
  BY <1>0, <1>1, WaitersOwnStep DEF Arrive, Goto, group
<1>2. ASSUME NEW r \in Requests, LookUp(r) PROVE WaitersInFlight'
  BY <1>0, <1>2, WaitersOwnStep DEF LookUp, CallFrom, ScaleReturns, Goto, group
<1>3. ASSUME NEW r \in Requests, Call(r) PROVE WaitersInFlight'
  <2>1. /\ members' = [members EXCEPT ![Key(r)] = @ \cup {r}]
        /\ pc' = [pc EXCEPT ![r] = "wait"] /\ pc[r] = "call"
        /\ UNCHANGED <<got, stage, fn>>
    BY <1>3 DEF Call, Group!Join, Goto
  <2>2. \A q \in Requests : Key(q)' = Key(q)
    BY <2>1 DEF Key
  <2>3. Key(r) \in Keys
    BY <2>1, KeyOf
  <2>4. \A q \in Requests, k \in Keys :
          q \in members'[k] <=> q \in members[k] \/ (q = r /\ k = Key(r))
    BY <2>1, <2>3
  <2> QED
    BY <2>1, <2>2, <2>4 DEF WaitersInFlight
<1>4. ASSUME NEW r \in Requests, AfterFirst(r) PROVE WaitersInFlight'
  BY <1>4, WaitersOwnStep
  DEF AfterFirst, Group!Take, CallFrom, ScaleReturns, Goto
<1>5. ASSUME NEW r \in Requests, AfterRetryGet(r) PROVE WaitersInFlight'
  BY <1>5, WaitersOwnStep
  DEF AfterRetryGet, RetryOrFail, Group!Take, CallFrom, ScaleReturns, Goto
<1>6. ASSUME NEW r \in Requests, AfterSet(r) PROVE WaitersInFlight'
  BY <1>6, WaitersOwnStep
  DEF AfterSet, RetryOrFail, Group!Take, CallFrom, ScaleReturns, Goto
<1>7. ASSUME NEW r \in Requests, AfterPoll(r) PROVE WaitersInFlight'
  BY <1>7, WaitersOwnStep
  DEF AfterPoll, Group!Take, CallFrom, ScaleReturns, Goto
<1>8. ASSUME NEW r \in Requests, Unwind(r) PROVE WaitersInFlight'
  BY <1>8, WaitersOwnStep DEF Unwind, Group!Take, Goto
<1>9. ASSUME NEW r \in Requests, Respond(r) PROVE WaitersInFlight'
  BY <1>0, <1>9, WaitersOwnStep DEF Respond, Goto, group
<1>10. ASSUME NEW r \in Requests, Leave(r) PROVE WaitersInFlight'
  BY <1>0, <1>10, WaitersOwnStep DEF Leave, Goto, group
<1>11. ASSUME NEW f \in Functions, AnswerGet(f) PROVE WaitersInFlight'
  BY <1>11, WaitersOtherStep DEF AnswerGet, Group!Return, locals
<1>12. ASSUME NEW f \in Functions, AnswerSet(f) PROVE WaitersInFlight'
  BY <1>12, WaitersOtherStep DEF AnswerSet, Group!Return, locals
<1>13. ASSUME NEW k \in Keys, Land(k) PROVE WaitersInFlight'
  <2>1. /\ reply[k] # NoAnswer
        /\ members' = [members EXCEPT ![k] = {}]
        /\ got' = [r \in Requests |-> IF r \in members[k] THEN reply[k] ELSE got[r]]
        /\ pc' = [r \in Requests |-> IF r \in members[k] THEN "got" ELSE pc[r]]
        /\ UNCHANGED <<stage, fn>>
    BY <1>13 DEF Land, Group!Land
  <2>2. \A q \in Requests : Key(q)' = Key(q)
    BY <2>1 DEF Key
  <2>3. \A q \in Requests, j \in Keys :
          q \in members'[j] <=> q \in members[j] /\ j # k
    BY <2>1
  <2>4. \A q \in Requests, j \in Keys :
          q \in members'[j] <=> pc'[q] = "wait" /\ Key(q)' = j
    BY <2>1, <2>2, <2>3 DEF WaitersInFlight
  <2>5. \A q \in Requests : got'[q] # NoAnswer <=> pc'[q] = "got"
    BY <1>0, <2>1
  <2> QED
    BY <2>4, <2>5 DEF WaitersInFlight
<1>14. ASSUME NEW f \in Functions, StartReplica(f) PROVE WaitersInFlight'
  BY <1>14, WaitersOtherStep DEF StartReplica, group, locals
<1>15. ASSUME NEW f \in Functions, StopReplica(f) PROVE WaitersInFlight'
  BY <1>15, WaitersOtherStep DEF StopReplica, group, locals
<1>16. ASSUME NEW f \in Functions, OutsideWrite(f) PROVE WaitersInFlight'
  BY <1>16, WaitersOtherStep DEF OutsideWrite, group, locals
<1>17. CASE Tick
  BY <1>17, WaitersOtherStep DEF Tick, group, locals
<1>18. CASE UNCHANGED vars
  BY <1>18, WaitersOtherStep DEF vars, group, locals
<1> QED
  BY <1>1, <1>2, <1>3, <1>4, <1>5, <1>6, <1>7, <1>8, <1>9, <1>10, <1>11, <1>12,
     <1>13, <1>14, <1>15, <1>16, <1>17, <1>18
  DEF Next, Handler

(* Every variable of the scaler keeps its type, whatever the provider      *)
(* answers and whatever labels and counts others set.                      *)
THEOREM TypeCorrect == Spec => []TypeOK
<1>1. Init => TypeOK /\ WaitersInFlight
  BY TypeInit, WaitersInit
<1>2. (TypeOK /\ WaitersInFlight) /\ [Next]_vars => (TypeOK /\ WaitersInFlight)'
  BY TypeStep, WaitersStep
<1> QED
  BY <1>1, <1>2, PTL DEF Spec

(* A request waits in the flight it called and in no other, and holds a    *)
(* reply exactly when that flight has landed (the four uses of             *)
(* SingleFlight.Do in Scale).                                              *)
THEOREM NoLostWaiter == Spec => []WaitersInFlight
<1>1. Init => TypeOK /\ WaitersInFlight
  BY TypeInit, WaitersInit
<1>2. (TypeOK /\ WaitersInFlight) /\ [Next]_vars => (TypeOK /\ WaitersInFlight)'
  BY TypeStep, WaitersStep
<1> QED
  BY <1>1, <1>2, PTL DEF Spec

-----------------------------------------------------------------------------
(* A stable system: nobody scales to zero, and replicas keep running       *)

(* What ObservationsSound, ServedWhenReady and HoldingScaled say of one    *)
(* request, and of what the requests share.                                *)
RequestSound(r) ==
  /\ pc[r] = "got" => Vouches(Key(r), got[r])
  /\ pc[r] = "scaled" /\ result[r].available /\ ~Exhausted(r) => ready[fn[r]] > 0
  /\ pc[r] # "replied" => response[r] = "none"
  /\ pc[r] = "idle" => stage[r] = "first"
  /\ response[r] = "next" /\ ~Exhausted(r) => ready[fn[r]] > 0
  /\ stage[r] = "poll" /\ pc[r] # "idle" => desired[fn[r]] > 0

SharedSound ==
  /\ \A k \in Keys : Vouches(k, reply[k])
  /\ \A f \in Functions :
       /\ cache[f].ready > 0 => ready[f] > 0
       /\ ready[f] > 0 => desired[f] > 0

StableInv == SharedSound /\ \A r \in Requests : RequestSound(r)

(* The invariant of stable systems is made of the three properties.        *)
LEMMA StableInvParts ==
  StableInv <=> ObservationsSound /\ ServedWhenReady /\ HoldingScaled
  BY DEF StableInv, SharedSound, RequestSound, ObservationsSound, ServedWhenReady,
         HoldingScaled

(* It holds initially.                                                     *)
LEMMA StableInit == Init => StableInv
<1> SUFFICES ASSUME Init PROVE StableInv
  OBVIOUS
<1>1. \A k \in Keys : Vouches(k, reply[k])
  BY DEF Init, Group!Init, Vouches, NoAnswer
<1>2. \A f \in Functions : cache[f].ready = 0 /\ ready[f] = desired[f]
  BY DEF Init, NoEntry
<1>3. \A r \in Requests : RequestSound(r)
  BY DEF Init, RequestSound
<1> QED
  BY <1>1, <1>2, <1>3, EnvironmentAssumption DEF StableInv, SharedSound, Init

(* Nothing takes away the last replica, asked for or available.            *)
Persists == \A f \in Functions :
  /\ desired[f] > 0 => desired'[f] > 0
  /\ ready[f] > 0 => ready'[f] > 0

(* In a stable system what is available stays available.                   *)
LEMMA PersistsStep ==
  ASSUME Stable, TypeOK, SharedSound, [Next]_vars
  PROVE  Persists
<1> USE DEF TypeOK
<1>1. CASE UNCHANGED provider
  BY <1>1 DEF Persists, provider
<1>2. ASSUME NEW f \in Functions, AnswerSet(f) PROVE Persists
  BY <1>2, TargetPositive DEF AnswerSet, Persists
<1>3. ASSUME NEW f \in Functions, StartReplica(f) PROVE Persists
  BY <1>3 DEF StartReplica, Persists
<1>4. ASSUME NEW f \in Functions, StopReplica(f) PROVE Persists
  <2>1. ready[f] > desired[f] /\ ready' = [ready EXCEPT ![f] = @ - 1] /\ UNCHANGED desired
    BY <1>4 DEF StopReplica, Stable
  <2>2. ready[f] > 0 => ready'[f] > 0
    BY <2>1 DEF SharedSound
  <2> QED
    BY <2>1, <2>2 DEF Persists
<1>5. ASSUME NEW f \in Functions, OutsideWrite(f) PROVE Persists
  BY <1>5, EnvironmentAssumption DEF OutsideWrite, Stable, Persists
<1>6. UNCHANGED provider \/ \E f \in Functions :
        AnswerSet(f) \/ StartReplica(f) \/ StopReplica(f) \/ OutsideWrite(f)
  BY DEF Next, vars, Handler, Arrive, LookUp, Call, AfterFirst, AfterRetryGet, AfterSet,
         AfterPoll, Unwind, Respond, Leave, AnswerGet, Land, Tick, provider
<1> QED
  BY <1>1, <1>2, <1>3, <1>4, <1>5, <1>6

(* An answer that vouches for something goes on doing so.                  *)
LEMMA VouchesPersists ==
  ASSUME Persists, NEW k \in Keys, NEW a, Vouches(k, a)
  PROVE  Vouches(k, a)'
<1>1. k[2] \in Functions
  BY DEF Keys
<1> QED
  BY <1>1 DEF Persists, Vouches

(* A step leaves what is known of a request it does not touch.             *)
LEMMA Untouched ==
  ASSUME TypeOK, Persists, NEW r \in Requests, RequestSound(r),
         /\ pc'[r] = pc[r] /\ stage'[r] = stage[r] /\ fn'[r] = fn[r]
         /\ round'[r] = round[r] /\ got'[r] = got[r] /\ result'[r] = result[r]
         /\ response'[r] = response[r]
  PROVE  RequestSound(r)'
<1>1. CASE pc[r] = "idle"
  BY <1>1 DEF RequestSound
<1>2. CASE pc[r] # "idle"
  <2>1. fn[r] \in Functions /\ Key(r)' = Key(r) /\ Key(r) \in Keys
    BY <1>2, KeyOf DEF TypeOK, Key
  <2>2. pc[r] = "got" => Vouches(Key(r), got[r])'
    BY <2>1, VouchesPersists DEF RequestSound, Vouches, Persists
  <2> QED
    BY <2>1, <2>2 DEF RequestSound, Persists, Exhausted
<1> QED
  BY <1>1, <1>2

(* The request that moves: it calls the provider again, ...                *)
LEMMA CallFromSound ==
  ASSUME TypeOK, NEW r \in Requests, RequestSound(r), pc[r] \in {"lookup", "got"},
         NEW s, NEW n, CallFrom(r, s, n), UNCHANGED provider,
         s = "poll" => desired[fn[r]] > 0
  PROVE  RequestSound(r)'
  BY DEF CallFrom, Goto, RequestSound, TypeOK, provider

(* ... or Scale returns.                                                   *)
LEMMA ScaleReturnsSound ==
  ASSUME TypeOK, NEW r \in Requests, RequestSound(r), pc[r] \in {"lookup", "got"},
         NEW x, NEW n, ScaleReturns(r, x, n), UNCHANGED provider,
         x.available /\ ~(stage[r] = "poll" /\ n = MaxPollCount) => ready[fn[r]] > 0
  PROVE  RequestSound(r)'
  BY DEF ScaleReturns, Goto, RequestSound, TypeOK, Exhausted, provider

(* and making another attempt or giving up.                                *)
LEMMA RetryOrFailSound ==
  ASSUME TypeOK, NEW r \in Requests, RequestSound(r), pc[r] \in {"lookup", "got"},
         RetryOrFail(r), UNCHANGED provider
  PROVE  RequestSound(r)'
  BY CallFromSound, ScaleReturnsSound DEF RetryOrFail, Failed

(* Storing an answer that vouches for a replica keeps the cache sound.     *)
LEMMA StoredSound ==
  ASSUME TypeOK, SharedSound, NEW f \in Functions, NEW a, a.kind = "ok",
         Vouches(GetKey(f), a) \/ a.ready = 0,
         cache' = Stored(f, a), UNCHANGED <<provider, reply>>
  PROVE  SharedSound'
<1>1. a.ready > 0 => ready[f] > 0
  BY DEF Vouches, GetKey
<1>2. \A g \in Functions : cache'[g].ready > 0 => ready'[g] > 0
  BY <1>1 DEF Stored, TypeOK, SharedSound, provider
<1> QED
  BY <1>2 DEF SharedSound, Vouches, provider

(* A step of request r alone, with the provider and the flights' replies   *)
(* as they were, keeps the invariant if it keeps r's part and the cache's. *)
LEMMA StableOwnStep ==
  ASSUME TypeOK, StableInv, Persists, NEW r \in Requests, RequestSound(r)', SharedSound',
         \A q \in Requests \ {r} :
           /\ pc'[q] = pc[q] /\ stage'[q] = stage[q] /\ fn'[q] = fn[q]
           /\ round'[q] = round[q] /\ got'[q] = got[q] /\ result'[q] = result[q]
           /\ response'[q] = response[q]
  PROVE  StableInv'
<1>1. \A q \in Requests \ {r} : RequestSound(q)'
  BY Untouched DEF StableInv
<1> QED
  BY <1>1 DEF StableInv

(* A step that no request makes.                                           *)
LEMMA StableOtherStep ==
  ASSUME TypeOK, StableInv, Persists, SharedSound', UNCHANGED <<got, locals>>
  PROVE  StableInv'
<1>1. \A q \in Requests : RequestSound(q)'
  BY Untouched DEF StableInv, locals
<1> QED
  BY <1>1 DEF StableInv

(* Every step of a stable system keeps the invariant.                      *)
LEMMA StableStep ==
  ASSUME Stable, TypeOK, WaitersInFlight, StableInv, [Next]_vars
  PROVE  StableInv'
<1>0. Persists /\ SharedSound /\ \A r \in Requests : RequestSound(r)
  BY PersistsStep DEF StableInv
<1>a. ASSUME UNCHANGED <<provider, cache, reply>> PROVE SharedSound'
  BY <1>0, <1>a DEF SharedSound, Vouches, provider
<1>1. ASSUME NEW r \in Requests, NEW f \in Functions, Arrive(r, f) PROVE StableInv'
  <2>1. RequestSound(r)'
    BY <1>0, <1>1 DEF Arrive, Goto, RequestSound, TypeOK
  <2> QED
    BY <1>0, <1>a, <1>1, <2>1, StableOwnStep DEF Arrive, Goto, TypeOK, Group!TypeOK, group
<1>2. ASSUME NEW r \in Requests, LookUp(r) PROVE StableInv'
  <2>1. fn[r] \in Functions /\ pc[r] = "lookup" /\ UNCHANGED <<provider, cache, reply, got>>
    BY <1>2 DEF LookUp, TypeOK, group
  <2>2. RequestSound(r)'
    BY <1>0, <1>2, <2>1, CallFromSound, ScaleReturnsSound DEF LookUp, SharedSound
  <2> QED
    BY <1>0, <1>a, <1>2, <2>1, <2>2, StableOwnStep
    DEF LookUp, CallFrom, ScaleReturns, Goto, TypeOK
<1>3. ASSUME NEW r \in Requests, Call(r) PROVE StableInv'
  <2>1. RequestSound(r)'
    BY <1>0, <1>3 DEF Call, Goto, RequestSound, TypeOK, provider
  <2> QED
    BY <1>0, <1>a, <1>3, <2>1, StableOwnStep DEF Call, Group!Join, Goto, TypeOK
<1>4. ASSUME NEW r \in Requests, AfterFirst(r) PROVE StableInv'
  <2>1. /\ fn[r] \in Functions /\ pc[r] = "got" /\ stage[r] = "first"
        /\ UNCHANGED <<provider, reply>> /\ got[r] \in Answers
        /\ got' = [got EXCEPT ![r] = NoAnswer]
    BY <1>4 DEF AfterFirst, Group!Take, TypeOK, Group!TypeOK
  <2>2. Vouches(GetKey(fn[r]), got[r])
    BY <1>0, <2>1 DEF RequestSound, Key
  <2>3. got[r].kind = "ok" =>
          (got[r].desired > 0 => desired[fn[r]] > 0) /\ (got[r].ready > 0 => ready[fn[r]] > 0)
    BY <2>2 DEF Vouches, GetKey
  <2>4. RequestSound(r)'
    <3>1. CASE got[r].kind = "error"
      BY <1>0, <1>4, <2>1, <3>1, ScaleReturnsSound DEF AfterFirst, NotFound
    <3>2. CASE got[r].kind = "ok" /\ got[r].ready > 0
      BY <1>0, <1>4, <2>1, <2>3, <3>2, ScaleReturnsSound DEF AfterFirst, Answers, NeedsScaleUp
    <3>3. CASE got[r].kind = "ok" /\ got[r].ready = 0
      BY <1>0, <1>4, <2>1, <2>3, <3>3, CallFromSound DEF AfterFirst, Answers, NeedsScaleUp
    <3> QED
      BY <1>4, <3>1, <3>2, <3>3 DEF AfterFirst
  <2>5. SharedSound'
    BY <1>0, <1>a, <1>4, <2>1, <2>2, StoredSound DEF AfterFirst
  <2> QED
    BY <1>0, <1>4, <2>1, <2>4, <2>5, StableOwnStep
    DEF AfterFirst, CallFrom, ScaleReturns, Goto, TypeOK, Group!TypeOK
<1>5. ASSUME NEW r \in Requests, AfterRetryGet(r) PROVE StableInv'
  <2>1. /\ fn[r] \in Functions /\ pc[r] = "got" /\ stage[r] = "retry"
        /\ UNCHANGED <<provider, reply>> /\ got[r] \in Answers
        /\ got' = [got EXCEPT ![r] = NoAnswer]
    BY <1>5 DEF AfterRetryGet, Group!Take, TypeOK, Group!TypeOK
  <2>2. Vouches(GetKey(fn[r]), got[r])
    BY <1>0, <2>1 DEF RequestSound, Key
  <2>3. got[r].kind = "ok" /\ got[r].desired > 0 => desired[fn[r]] > 0
    BY <2>2 DEF Vouches, GetKey
  <2>4. RequestSound(r)'
    <3>1. CASE got[r].kind = "error"
      BY <1>0, <1>5, <2>1, <3>1, RetryOrFailSound DEF AfterRetryGet
    <3>2. CASE got[r].kind = "ok"
      BY <1>0, <1>5, <2>1, <2>3, <3>2, CallFromSound DEF AfterRetryGet, NeedsScaleUp, Answers
    <3> QED
      BY <1>5, <3>1, <3>2 DEF AfterRetryGet
  <2>5. SharedSound'
    BY <1>0, <1>a, <1>5, <2>1, <2>2, StoredSound DEF AfterRetryGet
  <2> QED
    BY <1>0, <1>5, <2>1, <2>4, <2>5, StableOwnStep
    DEF AfterRetryGet, RetryOrFail, CallFrom, ScaleReturns, Goto, TypeOK, Group!TypeOK
<1>6. ASSUME NEW r \in Requests, AfterSet(r) PROVE StableInv'
  <2>1. /\ fn[r] \in Functions /\ pc[r] = "got" /\ stage[r] = "set"
        /\ UNCHANGED <<provider, cache, reply>> /\ got[r] \in Answers
        /\ got' = [got EXCEPT ![r] = NoAnswer]
    BY <1>6 DEF AfterSet, Group!Take, TypeOK, Group!TypeOK
  <2>2. got[r].kind = "ok" => desired[fn[r]] > 0
    BY <1>0, <2>1 DEF RequestSound, Key, Vouches, SetKey
  <2>3. RequestSound(r)'
    <3>1. CASE got[r].kind = "error"
      BY <1>0, <1>6, <2>1, <3>1, RetryOrFailSound DEF AfterSet
    <3>2. CASE got[r].kind = "ok"
      BY <1>0, <1>6, <2>1, <2>2, <3>2, CallFromSound DEF AfterSet
    <3> QED
      BY <1>6, <2>1, <3>1, <3>2 DEF AfterSet, Answers
  <2> QED
    BY <1>0, <1>a, <1>6, <2>1, <2>3, StableOwnStep
    DEF AfterSet, RetryOrFail, CallFrom, ScaleReturns, Goto, TypeOK, Group!TypeOK
<1>7. ASSUME NEW r \in Requests, AfterPoll(r) PROVE StableInv'
  <2>1. /\ fn[r] \in Functions /\ pc[r] = "got" /\ stage[r] = "poll"
        /\ UNCHANGED <<provider, reply>> /\ got[r] \in Answers
        /\ got' = [got EXCEPT ![r] = NoAnswer]
    BY <1>7 DEF AfterPoll, Group!Take, TypeOK, Group!TypeOK
  <2>2. Vouches(GetKey(fn[r]), got[r]) /\ desired[fn[r]] > 0
    BY <1>0, <2>1 DEF RequestSound, Key
  <2>3. got[r].kind = "ok" /\ got[r].ready > 0 => ready[fn[r]] > 0
    BY <2>2 DEF Vouches, GetKey
  <2>4. RequestSound(r)'
    <3>1. CASE got[r].kind = "error"
      BY <1>0, <1>7, <2>1, <3>1, ScaleReturnsSound DEF AfterPoll, Failed
    <3>2. CASE got[r].kind = "ok" /\ got[r].ready > 0
      BY <1>0, <1>7, <2>1, <2>3, <3>2, ScaleReturnsSound DEF AfterPoll, Answers
    <3>3. CASE got[r].kind = "ok" /\ got[r].ready = 0
      BY <1>0, <1>7, <2>1, <2>2, <3>3, CallFromSound, ScaleReturnsSound
      DEF AfterPoll, Answers
    <3> QED
      BY <1>7, <3>1, <3>2, <3>3 DEF AfterPoll
  <2>5. SharedSound'
    BY <1>0, <1>a, <1>7, <2>1, <2>2, StoredSound DEF AfterPoll
  <2> QED
    BY <1>0, <1>7, <2>1, <2>4, <2>5, StableOwnStep
    DEF AfterPoll, CallFrom, ScaleReturns, Goto, TypeOK, Group!TypeOK
<1>8. ASSUME NEW r \in Requests, Unwind(r) PROVE StableInv'
  <2>1. RequestSound(r)'
    BY <1>0, <1>8 DEF Unwind, Goto, RequestSound, TypeOK, provider
  <2> QED
    BY <1>0, <1>a, <1>8, <2>1, StableOwnStep
    DEF Unwind, Group!Take, Goto, TypeOK, Group!TypeOK
<1>9. ASSUME NEW r \in Requests, Respond(r) PROVE StableInv'
  <2>1. RequestSound(r)'
    BY <1>0, <1>9 DEF Respond, Outcome, Goto, RequestSound, Exhausted, TypeOK, provider
  <2> QED
    BY <1>0, <1>a, <1>9, <2>1, StableOwnStep DEF Respond, Goto, TypeOK, group
<1>10. ASSUME NEW r \in Requests, Leave(r) PROVE StableInv'
  <2>1. RequestSound(r)'
    BY <1>0, <1>10 DEF Leave, Goto, RequestSound, TypeOK
  <2> QED
    BY <1>0, <1>a, <1>10, <2>1, StableOwnStep DEF Leave, Goto, TypeOK, group
<1>11. ASSUME NEW f \in Functions, AnswerGet(f) PROVE StableInv'
  <2>1. PICK v : /\ reply' = [reply EXCEPT ![GetKey(f)] = v]
                 /\ v = Ok(desired[f], ready[f]) \/ v = Error
    BY <1>11 DEF AnswerGet, Group!Return
  <2>2. Vouches(GetKey(f), v)
    BY <2>1 DEF Vouches, GetKey, SetKey, Ok, Error
  <2>3. UNCHANGED <<provider, cache, got, locals>>
    BY <1>11 DEF AnswerGet, Group!Return
  <2>4. \A k \in Keys : Vouches(k, reply'[k])
    BY <1>0, <2>1, <2>2, KeysOf DEF SharedSound, TypeOK, Group!TypeOK
  <2>5. SharedSound'
    BY <1>0, <2>3, <2>4 DEF SharedSound, Vouches, provider
  <2> QED
    BY <1>0, <2>3, <2>5, StableOtherStep
<1>12. ASSUME NEW f \in Functions, AnswerSet(f) PROVE StableInv'
  <2>1. PICK v : /\ reply' = [reply EXCEPT ![SetKey(f)] = v]
                 /\ (v = Ok(0, 0) /\ desired'[f] > 0) \/ v = Error \/ v = Panic
    BY <1>12, TargetPositive DEF AnswerSet, Group!Return, TypeOK
  <2>2. Vouches(SetKey(f), v)'
    BY <2>1 DEF Vouches, SetKey, Ok, Error, Panic
  <2>3. UNCHANGED <<ready, cache, got, locals>>
    BY <1>12 DEF AnswerSet, Group!Return
  <2>4. \A k \in Keys : Vouches(k, reply[k])'
    <3>1. \A k \in Keys : Vouches(k, reply[k]) => Vouches(k, reply[k])' \/ k = SetKey(f)
      <4> SUFFICES ASSUME NEW k \in Keys, Vouches(k, reply[k]), k # SetKey(f)
                   PROVE  Vouches(k, reply[k])'
        OBVIOUS
      <4>1. reply'[k] = reply[k]
        BY <2>1 DEF TypeOK, Group!TypeOK
      <4>2. k[2] \in Functions
        BY DEF Keys
      <4> QED
        BY <1>0, <4>1, <4>2 DEF Vouches, Persists
    <3>2. reply'[SetKey(f)] = v
      BY <2>1, KeysOf DEF TypeOK, Group!TypeOK
    <3> QED
      BY <1>0, <2>2, <3>1, <3>2 DEF SharedSound, Vouches
  <2>5. SharedSound'
    BY <1>0, <2>3, <2>4 DEF SharedSound, Persists
  <2> QED
    BY <1>0, <2>3, <2>5, StableOtherStep
<1>13. ASSUME NEW k \in Keys, Land(k) PROVE StableInv'
  <2>1. /\ reply' = [reply EXCEPT ![k] = NoAnswer]
        /\ got' = [r \in Requests |-> IF r \in members[k] THEN reply[k] ELSE got[r]]
        /\ pc' = [r \in Requests |-> IF r \in members[k] THEN "got" ELSE pc[r]]
        /\ UNCHANGED <<provider, cache, stage, fn, round, result, response>>
    BY <1>13 DEF Land, Group!Land
  <2>2. \A j \in Keys : Vouches(j, reply'[j])
    BY <1>0, <2>1 DEF SharedSound, TypeOK, Group!TypeOK, Vouches, NoAnswer
  <2>3. SharedSound'
    BY <1>0, <2>1, <2>2 DEF SharedSound, Vouches, provider
  <2>4. ASSUME NEW r \in Requests, r \in members[k] PROVE RequestSound(r)'
    <3>1. pc[r] = "wait" /\ Key(r) = k /\ Key(r)' = Key(r) /\ fn[r] \in Functions
      BY <2>1, <2>4 DEF WaitersInFlight, Key, TypeOK
    <3>2. pc'[r] = "got" /\ got'[r] = reply[k]
      BY <2>1, <2>4
    <3>3. Vouches(Key(r), got[r])'
      BY <1>0, <2>1, <3>1, <3>2 DEF SharedSound, Vouches, provider
    <3> QED
      BY <1>0, <2>1, <3>1, <3>2, <3>3 DEF RequestSound, Exhausted, provider
  <2>5. ASSUME NEW r \in Requests, r \notin members[k] PROVE RequestSound(r)'
    BY <1>0, <2>1, <2>5, Untouched
  <2> QED
    BY <2>3, <2>4, <2>5 DEF StableInv
<1>14. ASSUME NEW f \in Functions, StartReplica(f) PROVE StableInv'
  <2>1. UNCHANGED <<desired, cache, reply, got, locals>>
    BY <1>14 DEF StartReplica, group
  <2>2. ready'[f] > 0 => desired'[f] > 0
    BY <1>14, <2>1 DEF StartReplica, TypeOK
  <2>3. \A g \in Functions : g # f => ready'[g] = ready[g]
    BY <1>14 DEF StartReplica, TypeOK
  <2>4. \A k \in Keys : Vouches(k, reply[k])'
    BY <1>0, <2>1, VouchesPersists DEF SharedSound, Vouches, Persists, Keys
  <2>5. SharedSound'
    BY <1>0, <2>1, <2>2, <2>3, <2>4 DEF SharedSound, Persists
  <2> QED
    BY <1>0, <2>1, <2>5, StableOtherStep
<1>15. ASSUME NEW f \in Functions, StopReplica(f) PROVE StableInv'
  <2>1. UNCHANGED <<desired, cache, reply, got, locals>>
    BY <1>15 DEF StopReplica, group
  <2>2. \A g \in Functions : ready'[g] > 0 => ready[g] > 0
    BY <1>15 DEF StopReplica, TypeOK, Stable
  <2>3. \A k \in Keys : Vouches(k, reply[k])'
    BY <1>0, <2>1 DEF SharedSound, Vouches, Persists, Keys
  <2>4. SharedSound'
    BY <1>0, <2>1, <2>2, <2>3 DEF SharedSound, Persists
  <2> QED
    BY <1>0, <2>1, <2>4, StableOtherStep
<1>16. ASSUME NEW f \in Functions, OutsideWrite(f) PROVE StableInv'
  <2>1. UNCHANGED <<ready, cache, reply, got, locals>>
    BY <1>16 DEF OutsideWrite, group
  <2>2. \A k \in Keys : Vouches(k, reply[k])'
    BY <1>0, <2>1 DEF SharedSound, Vouches, Persists, Keys
  <2>3. SharedSound'
    BY <1>0, <2>1, <2>2 DEF SharedSound, Persists
  <2> QED
    BY <1>0, <2>1, <2>3, StableOtherStep
<1>17. CASE Tick
  <2>1. \A f \in Functions : cache'[f].ready = cache[f].ready
    BY <1>17 DEF Tick
  <2>2. UNCHANGED <<provider, reply, got, locals>>
    BY <1>17 DEF Tick, group
  <2>3. SharedSound'
    BY <1>0, <2>1, <2>2 DEF SharedSound, Vouches, provider
  <2> QED
    BY <1>0, <2>2, <2>3, StableOtherStep
<1>18. CASE UNCHANGED vars
  BY <1>0, <1>a, <1>18, StableOtherStep DEF vars, group
<1> QED
  BY <1>1, <1>2, <1>3, <1>4, <1>5, <1>6, <1>7, <1>8, <1>9, <1>10, <1>11, <1>12,
     <1>13, <1>14, <1>15, <1>16, <1>17, <1>18
  DEF Next, Handler

(* In a stable system no request is forwarded, unless its polls ran out,   *)
(* without an available replica (Scale's four "Available: true" returns),  *)
(* and none is held for a function nobody has asked for.                   *)
THEOREM ServedOnlyWhenReady ==
  ASSUME Stable
  PROVE  Spec => [](ServedWhenReady /\ HoldingScaled /\ ObservationsSound)
<1> DEFINE Inv == TypeOK /\ WaitersInFlight /\ StableInv
<1>1. Init => Inv
  BY TypeInit, WaitersInit, StableInit
<1>2. Inv /\ [Next]_vars => Inv'
  BY TypeStep, WaitersStep, StableStep
<1>3. Inv => ServedWhenReady /\ HoldingScaled /\ ObservationsSound
  BY StableInvParts
<1> QED
  BY <1>1, <1>2, <1>3, PTL DEF Spec

(* In a stable system no request polls for a replica that nobody has asked *)
(* for (the holding pattern of Scale).                                     *)
THEOREM HeldOnlyWhenScaled ==
  ASSUME Stable
  PROVE  Spec => []HoldingScaled
<1>1. Spec => [](ServedWhenReady /\ HoldingScaled /\ ObservationsSound)
  BY ServedOnlyWhenReady
<1> QED
  BY <1>1, PTL

-----------------------------------------------------------------------------
(* Only an idler writes besides Scale                                      *)

(* What ZeroSeen says of one request.                                      *)
RequestZeroSeen(r) ==
  /\ pc[r] = "got" /\ stage[r] # "set" /\ got[r].kind = "ok" /\ got[r].desired = 0
       => BelowTarget(fn[r])
  /\ pc[r] # "idle" /\ stage[r] \in {"retry", "set"} => BelowTarget(fn[r])
  /\ pc[r] = "idle" => stage[r] = "first"

FlightZeroSeen(f) ==
  reply[GetKey(f)].kind = "ok" /\ reply[GetKey(f)].desired = 0 => BelowTarget(f)

(* ZeroSeen, flight by flight and request by request.                      *)
LEMMA ZeroSeenParts ==
  ZeroSeen <=> /\ \A f \in Functions : FlightZeroSeen(f)
               /\ \A r \in Requests : RequestZeroSeen(r)
  BY DEF ZeroSeen, RequestZeroSeen, FlightZeroSeen

(* Initially nothing has been seen.                                        *)
LEMMA ZeroSeenInit == Init => ZeroSeen
  BY KeysOf DEF Init, Group!Init, ZeroSeen, NoAnswer

(* Once at or below what Scale asks for, always so.                        *)
StaysBelow == \A f \in Functions : BelowTarget(f) => BelowTarget(f)'

(* No step takes a function from below its target to above it.             *)
LEMMA StaysBelowStep ==
  ASSUME OnlyIdler, TypeOK, [Next]_vars
  PROVE  StaysBelow
<1>1. CASE UNCHANGED desired
  BY <1>1 DEF StaysBelow, BelowTarget
<1>2. ASSUME NEW f \in Functions, AnswerSet(f) PROVE StaysBelow
  BY <1>2, TargetPositive DEF AnswerSet, StaysBelow, BelowTarget, TypeOK
<1>3. ASSUME NEW f \in Functions, OutsideWrite(f) PROVE StaysBelow
  BY <1>3, TargetPositive DEF OutsideWrite, OnlyIdler, StaysBelow, BelowTarget, TypeOK
<1>4. UNCHANGED desired \/ \E f \in Functions : AnswerSet(f) \/ OutsideWrite(f)
  BY DEF Next, vars, Handler, Arrive, LookUp, Call, AfterFirst, AfterRetryGet, AfterSet,
         AfterPoll, Unwind, Respond, Leave, AnswerGet, Land, StartReplica, StopReplica,
         Tick, provider
<1> QED
  BY <1>1, <1>2, <1>3, <1>4

(* A request that a step does not touch.                                   *)
LEMMA ZeroSeenUntouched ==
  ASSUME TypeOK, StaysBelow, NEW r \in Requests, RequestZeroSeen(r),
         pc'[r] = pc[r], stage'[r] = stage[r], fn'[r] = fn[r], got'[r] = got[r]
  PROVE  RequestZeroSeen(r)'
<1>1. CASE pc[r] = "idle"
  BY <1>1 DEF RequestZeroSeen
<1>2. CASE pc[r] # "idle"
  <2>1. fn[r] \in Functions
    BY <1>2 DEF TypeOK
  <2>2. BelowTarget(fn[r]) => BelowTarget(fn[r])'
    BY <2>1, <1>2 DEF StaysBelow, BelowTarget
  <2> QED
    BY <2>2 DEF RequestZeroSeen, BelowTarget
<1> QED
  BY <1>1, <1>2

(* A request that consumes a reply, or moves without one.                  *)
LEMMA ZeroSeenMoved ==
  ASSUME TypeOK, StaysBelow, NEW r \in Requests, RequestZeroSeen(r), pc[r] # "idle",
         pc'[r] \notin {"idle", "got"}, fn'[r] = fn[r],
         \/ stage'[r] = stage[r]
         \/ stage'[r] \notin {"retry", "set"}
         \/ stage[r] \in {"retry", "set"}
         \/ pc[r] = "got" /\ stage[r] # "set" /\ got[r].kind = "ok" /\ got[r].desired = 0
  PROVE  RequestZeroSeen(r)'
<1>1. fn[r] \in Functions
  BY DEF TypeOK
<1>2. BelowTarget(fn[r]) => BelowTarget(fn[r])'
  BY <1>1 DEF StaysBelow, BelowTarget
<1> QED
  BY <1>2 DEF RequestZeroSeen, BelowTarget

(* Flights whose reply a step does not touch.                              *)
LEMMA FlightsUntouched ==
  ASSUME StaysBelow, \A f \in Functions : FlightZeroSeen(f), UNCHANGED reply
  PROVE  (\A f \in Functions : FlightZeroSeen(f))'
  BY DEF StaysBelow, FlightZeroSeen

(* Every step keeps ZeroSeen.                                              *)
LEMMA ZeroSeenStep ==
  ASSUME OnlyIdler, TypeOK, WaitersInFlight, ZeroSeen, [Next]_vars
  PROVE  ZeroSeen'
<1>0. /\ StaysBelow
      /\ \A f \in Functions : FlightZeroSeen(f)
      /\ \A r \in Requests : RequestZeroSeen(r)
  BY StaysBelowStep, ZeroSeenParts
<1>p. SUFFICES /\ (\A f \in Functions : FlightZeroSeen(f))'
               /\ (\A r \in Requests : RequestZeroSeen(r))'
  BY DEF ZeroSeen, RequestZeroSeen, FlightZeroSeen
<1> DEFINE Goal == /\ (\A f \in Functions : FlightZeroSeen(f))'
                   /\ (\A r \in Requests : RequestZeroSeen(r))'
<1>o. ASSUME NEW r \in Requests, RequestZeroSeen(r)', UNCHANGED reply,
             \A q \in Requests \ {r} :
               /\ pc'[q] = pc[q] /\ stage'[q] = stage[q]
               /\ fn'[q] = fn[q] /\ got'[q] = got[q]
      PROVE  Goal
  <2>1. \A q \in Requests \ {r} : RequestZeroSeen(q)'
    BY <1>0, <1>o, ZeroSeenUntouched
  <2> QED
    BY <1>0, <1>o, <2>1, FlightsUntouched
<1>s. ASSUME UNCHANGED <<got, locals>>, (\A f \in Functions : FlightZeroSeen(f))'
      PROVE  Goal
  BY <1>0, <1>s, ZeroSeenUntouched DEF locals
<1>1. ASSUME NEW r \in Requests, NEW f \in Functions, Arrive(r, f) PROVE Goal
  <2>1. RequestZeroSeen(r)'
    BY <1>0, <1>1 DEF Arrive, Goto, RequestZeroSeen, TypeOK
  <2> QED
    BY <1>1, <1>o, <2>1 DEF Arrive, Goto, TypeOK, group
<1>2. ASSUME NEW r \in Requests, LookUp(r) PROVE Goal
  <2>1. RequestZeroSeen(r)'
    BY <1>0, <1>2, ZeroSeenMoved DEF LookUp, CallFrom, ScaleReturns, Goto, TypeOK
  <2> QED
    BY <1>2, <1>o, <2>1 DEF LookUp, CallFrom, ScaleReturns, Goto, TypeOK, group
<1>3. ASSUME NEW r \in Requests, Call(r) PROVE Goal
  <2>1. RequestZeroSeen(r)'
    BY <1>0, <1>3, ZeroSeenMoved DEF Call, Goto, TypeOK
  <2> QED
    BY <1>3, <1>o, <2>1 DEF Call, Group!Join, Goto, TypeOK
<1>4. ASSUME NEW r \in Requests, AfterFirst(r) PROVE Goal
  <2>1. RequestZeroSeen(r)'
    BY <1>0, <1>4, ZeroSeenMoved DEF AfterFirst, NeedsScaleUp, CallFrom, ScaleReturns, Goto, TypeOK
  <2> QED
    BY <1>4, <1>o, <2>1
    DEF AfterFirst, CallFrom, ScaleReturns, Goto, TypeOK, Group!Take, Group!TypeOK
<1>5. ASSUME NEW r \in Requests, AfterRetryGet(r) PROVE Goal
  <2>1. RequestZeroSeen(r)'
    BY <1>0, <1>5, ZeroSeenMoved
    DEF AfterRetryGet, NeedsScaleUp, RetryOrFail, CallFrom, ScaleReturns, Goto, TypeOK
  <2> QED
    BY <1>5, <1>o, <2>1
    DEF AfterRetryGet, RetryOrFail, CallFrom, ScaleReturns, Goto, TypeOK, Group!Take,
        Group!TypeOK
<1>6. ASSUME NEW r \in Requests, AfterSet(r) PROVE Goal
  <2>1. RequestZeroSeen(r)'
    BY <1>0, <1>6, ZeroSeenMoved
    DEF AfterSet, RetryOrFail, CallFrom, ScaleReturns, Goto, TypeOK
  <2> QED
    BY <1>6, <1>o, <2>1
    DEF AfterSet, RetryOrFail, CallFrom, ScaleReturns, Goto, TypeOK, Group!Take,
        Group!TypeOK
<1>7. ASSUME NEW r \in Requests, AfterPoll(r) PROVE Goal
  <2>1. RequestZeroSeen(r)'
    BY <1>0, <1>7, ZeroSeenMoved DEF AfterPoll, CallFrom, ScaleReturns, Goto, TypeOK
  <2> QED
    BY <1>7, <1>o, <2>1
    DEF AfterPoll, CallFrom, ScaleReturns, Goto, TypeOK, Group!Take, Group!TypeOK
<1>8. ASSUME NEW r \in Requests, Unwind(r) PROVE Goal
  <2>1. RequestZeroSeen(r)'
    BY <1>0, <1>8, ZeroSeenMoved DEF Unwind, Goto, TypeOK
  <2> QED
    BY <1>8, <1>o, <2>1 DEF Unwind, Goto, TypeOK, Group!Take, Group!TypeOK
<1>9. ASSUME NEW r \in Requests, Respond(r) PROVE Goal
  <2>1. RequestZeroSeen(r)'
    BY <1>0, <1>9, ZeroSeenMoved DEF Respond, Goto, TypeOK
  <2> QED
    BY <1>9, <1>o, <2>1 DEF Respond, Goto, TypeOK, group
<1>10. ASSUME NEW r \in Requests, Leave(r) PROVE Goal
  <2>1. RequestZeroSeen(r)'
    BY <1>0, <1>10 DEF Leave, Goto, RequestZeroSeen, TypeOK
  <2> QED
    BY <1>10, <1>o, <2>1 DEF Leave, Goto, TypeOK, group
<1>11. ASSUME NEW f \in Functions, AnswerGet(f) PROVE Goal
  <2>1. PICK v : /\ reply' = [reply EXCEPT ![GetKey(f)] = v]
                 /\ v = Ok(desired[f], ready[f]) \/ v = Error
    BY <1>11 DEF AnswerGet, Group!Return
  <2>2. UNCHANGED <<provider, got, locals>>
    BY <1>11 DEF AnswerGet, Group!Return
  <2>3. FlightZeroSeen(f)'
    <3>1. reply'[GetKey(f)] = v
      BY <2>1, KeysOf DEF TypeOK, Group!TypeOK
    <3>2. v.kind = "ok" /\ v.desired = 0 => desired'[f] = 0
      BY <2>1, <2>2 DEF Ok, Error, provider
    <3> QED
      BY <3>1, <3>2, TargetPositive DEF FlightZeroSeen, BelowTarget
  <2>4. \A g \in Functions : g # f => FlightZeroSeen(g)'
    <3>1. \A g \in Functions : g # f => reply'[GetKey(g)] = reply[GetKey(g)]
      BY <2>1, KeysOf DEF TypeOK, Group!TypeOK, GetKey
    <3> QED
      BY <1>0, <2>2, <3>1 DEF FlightZeroSeen, BelowTarget, provider
  <2> QED
    BY <1>s, <2>2, <2>3, <2>4
<1>12. ASSUME NEW f \in Functions, AnswerSet(f) PROVE Goal
  <2>1. PICK v : reply' = [reply EXCEPT ![SetKey(f)] = v]
    BY <1>12 DEF AnswerSet, Group!Return
  <2>2. \A g \in Functions : reply'[GetKey(g)] = reply[GetKey(g)]
    BY <2>1, KeysOf DEF TypeOK, Group!TypeOK, GetKey, SetKey
  <2>3. (\A g \in Functions : FlightZeroSeen(g))'
    BY <1>0, <2>2 DEF FlightZeroSeen, StaysBelow
  <2> QED
    BY <1>12, <1>s, <2>3 DEF AnswerSet, Group!Return
<1>13. ASSUME NEW k \in Keys, Land(k) PROVE Goal
  <2>1. /\ reply' = [reply EXCEPT ![k] = NoAnswer]
        /\ got' = [r \in Requests |-> IF r \in members[k] THEN reply[k] ELSE got[r]]
        /\ pc' = [r \in Requests |-> IF r \in members[k] THEN "got" ELSE pc[r]]
        /\ UNCHANGED <<provider, stage, fn>>
    BY <1>13 DEF Land, Group!Land
  <2>2. (\A f \in Functions : FlightZeroSeen(f))'
    <3> SUFFICES ASSUME NEW f \in Functions PROVE FlightZeroSeen(f)'
      OBVIOUS
    <3>1. CASE k = GetKey(f)
      BY <2>1, <3>1 DEF FlightZeroSeen, NoAnswer, TypeOK, Group!TypeOK
    <3>2. CASE k # GetKey(f)
      BY <1>0, <2>1, <3>2, KeysOf
      DEF FlightZeroSeen, BelowTarget, TypeOK, Group!TypeOK, provider
    <3> QED
      BY <3>1, <3>2
  <2>3. ASSUME NEW r \in Requests, r \in members[k] PROVE RequestZeroSeen(r)'
    <3>1. pc[r] = "wait" /\ Key(r) = k /\ fn[r] \in Functions
      BY <2>3 DEF WaitersInFlight, TypeOK
    <3>2. pc'[r] = "got" /\ got'[r] = reply[k] /\ stage'[r] = stage[r] /\ fn'[r] = fn[r]
      BY <2>1, <2>3
    <3>3. stage[r] # "set" => k = GetKey(fn[r])
      BY <3>1 DEF Key
    <3> QED
      BY <1>0, <2>1, <3>1, <3>2, <3>3
      DEF RequestZeroSeen, FlightZeroSeen, BelowTarget, provider
  <2>4. ASSUME NEW r \in Requests, r \notin members[k] PROVE RequestZeroSeen(r)'
    BY <1>0, <2>1, <2>4, ZeroSeenUntouched
  <2> QED
    BY <2>2, <2>3, <2>4
<1>14. ASSUME NEW f \in Functions, StartReplica(f) PROVE Goal
  BY <1>0, <1>14, <1>s, FlightsUntouched DEF StartReplica, group
<1>15. ASSUME NEW f \in Functions, StopReplica(f) PROVE Goal
  BY <1>0, <1>15, <1>s, FlightsUntouched DEF StopReplica, group
<1>16. ASSUME NEW f \in Functions, OutsideWrite(f) PROVE Goal
  BY <1>0, <1>16, <1>s, FlightsUntouched DEF OutsideWrite, group
<1>17. CASE Tick
  BY <1>0, <1>17, <1>s, FlightsUntouched DEF Tick, group
<1>18. CASE UNCHANGED vars
  BY <1>0, <1>18, <1>s, FlightsUntouched DEF vars, group
<1> QED
  BY <1>1, <1>2, <1>3, <1>4, <1>5, <1>6, <1>7, <1>8, <1>9, <1>10, <1>11, <1>12,
     <1>13, <1>14, <1>15, <1>16, <1>17, <1>18
  DEF Next, Handler

(* The update of a flight is made for a request that has seen zero.        *)
LEMMA RaisesStep ==
  ASSUME TypeOK, WaitersInFlight, ZeroSeen, [Next]_vars
  PROVE  \A f \in Functions : ~OutsideWrite(f) => desired'[f] >= desired[f]
<1> SUFFICES ASSUME NEW f \in Functions, ~OutsideWrite(f) PROVE desired'[f] >= desired[f]
  OBVIOUS
<1>1. CASE desired'[f] = desired[f]
  BY <1>1 DEF TypeOK
<1>2. CASE AnswerSet(f)
  <2>1. members[SetKey(f)] # {} /\ desired'[f] \in {desired[f], Target(f)}
    BY <1>2 DEF AnswerSet, Group!Return, TypeOK
  <2>2. PICK r \in Requests : r \in members[SetKey(f)]
    BY <2>1, KeysOf DEF TypeOK, Group!TypeOK
  <2>3. pc[r] = "wait" /\ Key(r) = SetKey(f)
    BY <2>2, KeysOf DEF WaitersInFlight
  <2>4. stage[r] = "set" /\ fn[r] = f
    BY <2>3 DEF Key, GetKey, SetKey
  <2>5. BelowTarget(f)
    BY <2>3, <2>4 DEF ZeroSeen
  <2> QED
    BY <2>1, <2>5, TargetPositive DEF BelowTarget, TypeOK
<1>3. ASSUME NEW g \in Functions, g # f, AnswerSet(g) \/ OutsideWrite(g)
      PROVE  desired'[f] = desired[f]
  BY <1>3 DEF AnswerSet, OutsideWrite, TypeOK
<1>4. UNCHANGED desired \/ \E g \in Functions : AnswerSet(g) \/ OutsideWrite(g)
  BY DEF Next, vars, Handler, Arrive, LookUp, Call, AfterFirst, AfterRetryGet, AfterSet,
         AfterPoll, Unwind, Respond, Leave, AnswerGet, Land, StartReplica, StopReplica,
         Tick, provider
<1> QED
  BY <1>1, <1>2, <1>3, <1>4

(* When the only other writer is an idler, Scale never lowers a count: the *)
(* check at the head of an attempt (function_scaler.go:104) is enough      *)
(* then, however stale the answer it looks at.                             *)
THEOREM ScaleOnlyRaises ==
  ASSUME OnlyIdler
  PROVE  Spec => OnlyRaises
<1> DEFINE Inv == TypeOK /\ WaitersInFlight /\ ZeroSeen
<1>1. Init => Inv
  BY TypeInit, WaitersInit, ZeroSeenInit
<1>2. Inv /\ [Next]_vars => Inv'
  BY TypeStep, WaitersStep, ZeroSeenStep
<1>3. Inv /\ [Next]_vars =>
        [\A f \in Functions : ~OutsideWrite(f) => desired'[f] >= desired[f]]_vars
  BY RaisesStep
<1> QED
  BY <1>1, <1>2, <1>3, PTL DEF Spec, OnlyRaises

-----------------------------------------------------------------------------
(* No update is cut off                                                    *)

(* Then no flight panics.                                                  *)
NoPanic ==
  /\ \A k \in Keys : reply[k].kind # "panic"
  /\ \A r \in Requests : got[r].kind # "panic"

(* A request has attempts left while it is in the retry loop, and none if  *)
(* that is where Scale returned.                                           *)
RequestTries(r) ==
  /\ pc[r] \in {"idle", "lookup"} => stage[r] = "first"
  /\ stage[r] \in {"retry", "set"} =>
       IF pc[r] \in {"scaled", "replied"} THEN round[r] = SetScaleRetries
                                          ELSE round[r] < SetScaleRetries

(* Initially nothing has been answered, and nobody is in the loop.         *)
LEMMA TriesInit == Init => NoPanic /\ \A r \in Requests : RequestTries(r)
  BY DEF Init, Group!Init, NoPanic, NoAnswer, RequestTries

(* Answers other than that of an update that is cut off are no panics.     *)
LEMMA NoPanicStep ==
  ASSUME "drop" \notin Faults, TypeOK, NoPanic, [Next]_vars
  PROVE  NoPanic'
<1>t. reply \in [Keys -> Answers \cup {NoAnswer}] /\ got \in [Requests -> Answers \cup {NoAnswer}]
  BY DEF TypeOK, Group!TypeOK
<1>k. NoAnswer.kind # "panic"
  BY DEF NoAnswer
<1>1. CASE UNCHANGED <<reply, got>>
  BY <1>1 DEF NoPanic
<1>2. ASSUME NEW r \in Requests, Group!Take(r) PROVE NoPanic'
  BY <1>t, <1>k, <1>2 DEF NoPanic, Group!Take
<1>3. ASSUME NEW k \in Keys, NEW v, Group!Return(k, v), v.kind # "panic" PROVE NoPanic'
  BY <1>t, <1>3 DEF NoPanic, Group!Return
<1>4. ASSUME NEW k \in Keys, Group!Land(k) PROVE NoPanic'
  BY <1>t, <1>k, <1>4 DEF NoPanic, Group!Land
<1>5. ASSUME NEW f \in Functions, AnswerGet(f) \/ AnswerSet(f) PROVE NoPanic'
  <2>1. PICK k \in Keys : \E v : Group!Return(k, v) /\ v.kind # "panic"
    BY <1>5, KeysOf DEF AnswerGet, AnswerSet, Ok, Error
  <2> QED
    BY <2>1, <1>3
<1>6. \/ UNCHANGED <<reply, got>>
      \/ \E r \in Requests : Group!Take(r)
      \/ \E f \in Functions : AnswerGet(f) \/ AnswerSet(f)
      \/ \E k \in Keys : Group!Land(k)
  <2>1. ASSUME NEW r \in Requests, Handler(r)
        PROVE  UNCHANGED <<reply, got>> \/ Group!Take(r)
    BY <2>1 DEF Handler, LookUp, Call, Group!Join, AfterFirst, AfterRetryGet, AfterSet,
            AfterPoll, Unwind, Respond, group
  <2>2. ASSUME NEW r \in Requests, NEW f \in Functions, Arrive(r, f)
        PROVE  UNCHANGED <<reply, got>>
    BY <2>2 DEF Arrive, group
  <2>3. CASE Tick \/ \E f \in Functions : StartReplica(f) \/ StopReplica(f) \/ OutsideWrite(f)
    BY <2>3 DEF Tick, StartReplica, StopReplica, OutsideWrite, group
  <2>4. CASE UNCHANGED vars
    BY <2>4 DEF vars, group
  <2>5. ASSUME NEW r \in Requests, Leave(r) PROVE UNCHANGED <<reply, got>>
    BY <2>5 DEF Leave, group
  <2> QED
    BY <2>1, <2>2, <2>3, <2>4, <2>5 DEF Next, Land
<1> QED
  BY <1>1, <1>2, <1>4, <1>5, <1>6

(* Going on from an attempt, or giving up after the last.                  *)
LEMMA RetryOrFailTries ==
  ASSUME TypeOK, NEW r \in Requests, round[r] < SetScaleRetries, RetryOrFail(r),
         stage[r] \in {"retry", "set"}
  PROVE  RequestTries(r)'
<1>1. round[r] \in Nat /\ SetScaleRetries \in Nat
  BY ConfigAssumption DEF TypeOK
<1>2. CASE round[r] + 1 < SetScaleRetries
  BY <1>2 DEF RetryOrFail, CallFrom, Goto, RequestTries, TypeOK
<1>3. CASE ~(round[r] + 1 < SetScaleRetries)
  <2>1. round[r] + 1 = SetScaleRetries
    BY <1>1, <1>3
  <2> QED
    BY <1>3, <2>1 DEF RetryOrFail, ScaleReturns, Goto, RequestTries, TypeOK
<1> QED
  BY <1>2, <1>3

(* Every step keeps count of the attempts.                                 *)
LEMMA TriesStep ==
  ASSUME TypeOK, WaitersInFlight, NoPanic, \A r \in Requests : RequestTries(r), [Next]_vars
  PROVE  \A r \in Requests : RequestTries(r)'
<1>c. SetScaleRetries \in Nat /\ SetScaleRetries > 0
  BY ConfigAssumption
<1>u. ASSUME NEW r \in Requests, pc'[r] = pc[r], stage'[r] = stage[r], round'[r] = round[r]
      PROVE  RequestTries(r)'
  BY <1>u DEF RequestTries
<1> DEFINE Goal == \A r \in Requests : RequestTries(r)'
<1>o. ASSUME NEW r \in Requests, RequestTries(r)',
             \A q \in Requests \ {r} :
               pc'[q] = pc[q] /\ stage'[q] = stage[q] /\ round'[q] = round[q]
      PROVE  Goal
  BY <1>o, <1>u
<1>1. ASSUME NEW r \in Requests, NEW f \in Functions, Arrive(r, f) PROVE Goal
  BY <1>1, <1>o DEF Arrive, Goto, RequestTries, TypeOK
<1>2. ASSUME NEW r \in Requests, LookUp(r) PROVE Goal
  BY <1>2, <1>o DEF LookUp, CallFrom, ScaleReturns, Goto, RequestTries, TypeOK
<1>3. ASSUME NEW r \in Requests, Call(r) PROVE Goal
  BY <1>3, <1>o DEF Call, Goto, RequestTries, TypeOK
<1>4. ASSUME NEW r \in Requests, AfterFirst(r) PROVE Goal
  BY <1>4, <1>o, <1>c DEF AfterFirst, CallFrom, ScaleReturns, Goto, RequestTries, TypeOK
<1>5. ASSUME NEW r \in Requests, AfterRetryGet(r) PROVE Goal
  <2>0. pc[r] = "got" /\ stage[r] = "retry" /\ round[r] < SetScaleRetries
    BY <1>5 DEF AfterRetryGet, RequestTries
  <2>1. CASE RetryOrFail(r)
    <3>1. RequestTries(r)'
      BY <2>0, <2>1, RetryOrFailTries
    <3> QED
      BY <2>1, <3>1, <1>o DEF RetryOrFail, CallFrom, ScaleReturns, Goto, TypeOK
  <2>2. CASE CallFrom(r, "set", round[r]) \/ CallFrom(r, "poll", 0)
    BY <2>0, <2>2, <1>o DEF CallFrom, Goto, RequestTries, TypeOK
  <2> QED
    BY <1>5, <2>1, <2>2 DEF AfterRetryGet
<1>6. ASSUME NEW r \in Requests, AfterSet(r) PROVE Goal
  <2>0. pc[r] = "got" /\ stage[r] = "set" /\ round[r] < SetScaleRetries
    BY <1>6 DEF AfterSet, RequestTries
  <2>1. CASE RetryOrFail(r)
    <3>1. RequestTries(r)'
      BY <2>0, <2>1, RetryOrFailTries
    <3> QED
      BY <2>1, <3>1, <1>o DEF RetryOrFail, CallFrom, ScaleReturns, Goto, TypeOK
  <2>2. CASE CallFrom(r, "poll", 0)
    BY <2>2, <1>o DEF CallFrom, Goto, RequestTries, TypeOK
  <2> QED
    BY <1>6, <2>1, <2>2 DEF AfterSet
<1>7. ASSUME NEW r \in Requests, AfterPoll(r) PROVE Goal
  BY <1>7, <1>o DEF AfterPoll, CallFrom, ScaleReturns, Goto, RequestTries, TypeOK
<1>8. ASSUME NEW r \in Requests, Unwind(r) PROVE Goal
  BY <1>8 DEF Unwind, NoPanic
<1>9. ASSUME NEW r \in Requests, Respond(r) PROVE Goal
  BY <1>9, <1>o DEF Respond, Goto, RequestTries, TypeOK
<1>10. ASSUME NEW r \in Requests, Leave(r) PROVE Goal
  BY <1>10, <1>o DEF Leave, Goto, RequestTries, TypeOK
<1>11. ASSUME NEW k \in Keys, Land(k) PROVE Goal
  <2>1. ASSUME NEW r \in Requests, r \in members[k] PROVE RequestTries(r)'
    <3>1. pc[r] = "wait"
      BY <2>1 DEF WaitersInFlight
    <3> QED
      BY <1>11, <2>1, <3>1 DEF Land, RequestTries
  <2>2. ASSUME NEW r \in Requests, r \notin members[k] PROVE RequestTries(r)'
    BY <1>11, <2>2, <1>u DEF Land
  <2> QED
    BY <2>1, <2>2
<1>12. ASSUME UNCHANGED locals PROVE Goal
  BY <1>12, <1>u DEF locals
<1>13. ASSUME NEW f \in Functions,
              AnswerGet(f) \/ AnswerSet(f) \/ StartReplica(f) \/ StopReplica(f) \/ OutsideWrite(f)
       PROVE  UNCHANGED locals
  BY <1>13 DEF AnswerGet, AnswerSet, StartReplica, StopReplica, OutsideWrite
<1>14. CASE Tick \/ UNCHANGED vars
  BY <1>12, <1>14 DEF Tick, vars
<1> QED
  BY <1>1, <1>2, <1>3, <1>4, <1>5, <1>6, <1>7, <1>8, <1>9, <1>10, <1>11, <1>12, <1>13, <1>14
  DEF Next, Handler

(* Unless an update is cut off, a request whose Scale ends in the retry    *)
(* loop has made all SetScaleRetries attempts (types.Retry), however they  *)
(* failed and however often a flight was shared.                           *)
THEOREM TriesAll ==
  ASSUME "drop" \notin Faults
  PROVE  Spec => []KeepsTrying
<1> DEFINE Inv == /\ TypeOK /\ WaitersInFlight /\ NoPanic
                  /\ \A r \in Requests : RequestTries(r)
<1>1. Init => Inv
  BY TypeInit, WaitersInit, TriesInit
<1>2. Inv /\ [Next]_vars => Inv'
  BY TypeStep, WaitersStep, NoPanicStep, TriesStep
<1>3. Inv => KeepsTrying
  BY DEF RequestTries, KeepsTrying
<1> QED
  BY <1>1, <1>2, <1>3, PTL DEF Spec
=============================================================================
