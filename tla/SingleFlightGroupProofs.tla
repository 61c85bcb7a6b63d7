---------------------- MODULE SingleFlightGroupProofs ----------------------
(***************************************************************************)
(* What holds of SingleFlightGroup for every set of callers and keys, and  *)
(* that it implements Flight, on which FunctionScaler is built.            *)
(***************************************************************************)
EXTENDS SingleFlightGroup, TLAPS

-----------------------------------------------------------------------------
(* The invariant                                                           *)

Leads(c) == pc[c] \in {"run", "ran"}

(* An entry of the map has a leader, and its call is not over.             *)
EntryLed == \A k \in Keys :
  m[k] # NoCall =>
    /\ ~done[m[k]]
    /\ \E c \in Callers : Leads(c) /\ on[c] = m[k] /\ key[c] = k

(* A leader's call stays in the map until it is finished, and it is its    *)
(* leader's alone: nobody else writes it, nobody deletes it.               *)
LeaderEntered == \A c \in Callers : Leads(c) =>
  /\ m[key[c]] = on[c] /\ ~done[on[c]]
  /\ val[on[c]] = NoReply <=> pc[c] = "run"
  /\ \A d \in Callers : Leads(d) /\ on[d] = on[c] => d = c

(* A waiter's call is the entry of its key, as long as it is not over.     *)
WaiterEntered == \A c \in Callers :
  pc[c] = "wait" /\ ~done[on[c]] => m[key[c]] = on[c]

Inv == TypeOK /\ EntryLed /\ LeaderEntered /\ WaiterEntered /\ WaitersReadAfterWrite

(* A call is the entry of one key only.                                    *)
LEMMA OneKey ==
  ASSUME Inv, NEW k \in Keys, NEW l \in Keys, m[k] # NoCall, m[k] = m[l]
  PROVE  k = l
  BY DEF Inv, EntryLed, LeaderEntered

(* Who waits or leads has a call.                                          *)
LEMMA HasCall == ASSUME Inv, NEW c \in Callers, pc[c] \notin {"idle", "back"} PROVE on[c] \in Calls
  BY DEF Inv, TypeOK

-----------------------------------------------------------------------------
(* It is inductive                                                         *)

LEMMA InvInit == Init => Inv
<1> SUFFICES ASSUME Init PROVE Inv
  OBVIOUS
<1>1. TypeOK
  BY PoolAssumption DEF Init, TypeOK, AnyKey
<1> QED
  BY <1>1 DEF Init, Inv, EntryLed, LeaderEntered, WaiterEntered, WaitersReadAfterWrite, Leads

(* To join: the entry found has a leader and is not over, and the new      *)
(* waiter refers to the entry of its key.                                  *)
LEMMA JoinKeeps ==
  ASSUME Inv, NEW c \in Callers, NEW k \in Keys, DoJoin(c, k)
  PROVE  Inv'
<1> USE PoolAssumption
<1>1. pc[c] = "idle" /\ m[k] \in Calls /\ ~done[m[k]]
  BY DEF Inv, TypeOK, EntryLed, DoJoin
<1>2. TypeOK'
  BY <1>1 DEF Inv, TypeOK, DoJoin
<1>3. /\ pc'[c] = "wait" /\ key'[c] = k /\ on'[c] = m[k]
      /\ \A d \in Callers \ {c} : pc'[d] = pc[d] /\ key'[d] = key[d] /\ on'[d] = on[d]
      /\ UNCHANGED <<m, val, done, ret>>
  BY DEF Inv, TypeOK, DoJoin
<1>4. EntryLed'
  BY <1>1, <1>3 DEF Inv, EntryLed, Leads
<1>5. LeaderEntered'
  BY <1>1, <1>3 DEF Inv, LeaderEntered, Leads
<1>6. WaiterEntered'
  BY <1>1, <1>3 DEF Inv, WaiterEntered
<1>7. WaitersReadAfterWrite'
  BY <1>1, <1>3 DEF Inv, WaitersReadAfterWrite
<1> QED
  BY <1>2, <1>4, <1>5, <1>6, <1>7 DEF Inv

(* To lead: nobody refers to the new call object, so nothing that is said  *)
(* of the other calls changes.                                             *)
LEMMA LeadKeeps ==
  ASSUME Inv, NEW c \in Callers, NEW k \in Keys, DoLead(c, k)
  PROVE  Inv'
<1> USE PoolAssumption
<1> PICK i \in Calls :
      /\ Unreferenced(i)
      /\ m' = [m EXCEPT ![k] = i]
      /\ on' = [on EXCEPT ![c] = i]
      /\ val' = [val EXCEPT ![i] = NoReply]
      /\ done' = [done EXCEPT ![i] = FALSE]
  BY DEF DoLead
<1>1. /\ pc[c] = "idle" /\ m[k] = NoCall
      /\ pc' = [pc EXCEPT ![c] = "run"] /\ key' = [key EXCEPT ![c] = k] /\ ret' = ret
  BY DEF DoLead
<1>2. TypeOK'
  BY <1>1 DEF Inv, TypeOK
<1>3. /\ pc'[c] = "run" /\ key'[c] = k /\ on'[c] = i
      /\ m'[k] = i /\ val'[i] = NoReply /\ ~done'[i]
      /\ \A d \in Callers \ {c} : pc'[d] = pc[d] /\ key'[d] = key[d] /\ on'[d] = on[d]
      /\ \A l \in Keys \ {k} : m'[l] = m[l]
      /\ \A j \in Calls \ {i} : val'[j] = val[j] /\ done'[j] = done[j]
  BY <1>1 DEF Inv, TypeOK
<1>4. /\ \A d \in Callers : on[d] # i
      /\ \A l \in Keys : m[l] # i
  BY DEF Unreferenced
<1>t. /\ \A d \in Callers : pc[d] \notin {"idle", "back"} => on[d] \in Calls
      /\ \A l \in Keys : m[l] # NoCall => m[l] \in Calls
      /\ \A d \in Callers : key[d] \in Keys
  BY DEF Inv, TypeOK
<1>5. EntryLed'
  BY <1>1, <1>3, <1>4, <1>t DEF Inv, EntryLed, Leads
<1>6. LeaderEntered'
  BY <1>1, <1>3, <1>4, <1>t DEF Inv, LeaderEntered, Leads
<1>7. WaiterEntered'
  BY <1>1, <1>3, <1>4, <1>t DEF Inv, WaiterEntered
<1>8. WaitersReadAfterWrite'
  BY <1>1, <1>3, <1>4, <1>t DEF Inv, WaitersReadAfterWrite
<1> QED
  BY <1>2, <1>5, <1>6, <1>7, <1>8 DEF Inv

(* The leader stores the outcome: nobody else leads the call, and it is    *)
(* not over, so nobody has read it.                                        *)
LEMMA RunKeeps ==
  ASSUME Inv, NEW c \in Callers, NEW v \in Replies, RunFn(c, v)
  PROVE  Inv'
<1> USE PoolAssumption
<1>1. pc[c] = "run" /\ on[c] \in Calls /\ ~done[on[c]]
  BY DEF Inv, TypeOK, LeaderEntered, Leads, RunFn
<1>2. TypeOK'
  BY <1>1 DEF Inv, TypeOK, RunFn
<1>3. /\ pc'[c] = "ran" /\ val'[on[c]] = v /\ v # NoReply
      /\ \A d \in Callers \ {c} : pc'[d] = pc[d]
      /\ \A j \in Calls \ {on[c]} : val'[j] = val[j]
      /\ UNCHANGED <<m, done, key, on, ret>>
  BY <1>1 DEF Inv, TypeOK, RunFn
<1>t. \A d \in Callers : pc[d] \notin {"idle", "back"} => on[d] \in Calls
  BY DEF Inv, TypeOK
<1>4. EntryLed'
  BY <1>1, <1>3 DEF Inv, EntryLed, Leads
<1>5. LeaderEntered'
  BY <1>1, <1>3, <1>t DEF Inv, LeaderEntered, Leads
<1>6. WaiterEntered'
  BY <1>1, <1>3 DEF Inv, WaiterEntered
<1>7. WaitersReadAfterWrite'
  BY <1>1, <1>3, <1>t DEF Inv, WaitersReadAfterWrite
<1> QED
  BY <1>2, <1>4, <1>5, <1>6, <1>7 DEF Inv

(* The leader's clean-up always finds its own entry.                       *)
LEMMA FinishFrees ==
  ASSUME Inv, NEW c \in Callers, Finish(c)
  PROVE  m[key[c]] = on[c] /\ m' = [m EXCEPT ![key[c]] = NoCall]
  BY DEF Inv, LeaderEntered, Leads, Finish

(* To finish: those who wait for the call find the outcome stored, and no  *)
(* leader is left that refers to it.                                       *)
LEMMA FinishKeeps ==
  ASSUME Inv, NEW c \in Callers, Finish(c)
  PROVE  Inv'
<1> USE PoolAssumption
<1>1. /\ pc[c] = "ran" /\ on[c] \in Calls /\ ~done[on[c]]
      /\ val[on[c]] \in Replies /\ key[c] \in Keys /\ m[key[c]] = on[c]
  BY FinishFrees DEF Inv, TypeOK, LeaderEntered, Leads, Finish
<1>2. /\ m' = [m EXCEPT ![key[c]] = NoCall]
      /\ done' = [done EXCEPT ![on[c]] = TRUE]
      /\ ret' = [ret EXCEPT ![c] = val[on[c]]]
      /\ on' = [on EXCEPT ![c] = NoCall]
      /\ pc' = [pc EXCEPT ![c] = "back"]
      /\ UNCHANGED <<val, key>>
  BY FinishFrees DEF Finish
<1>3. TypeOK'
  BY <1>1, <1>2 DEF Inv, TypeOK
<1>4. /\ pc'[c] = "back" /\ on'[c] = NoCall /\ m'[key[c]] = NoCall /\ done'[on[c]]
      /\ \A d \in Callers \ {c} : pc'[d] = pc[d] /\ on'[d] = on[d]
      /\ \A l \in Keys \ {key[c]} : m'[l] = m[l]
      /\ \A j \in Calls \ {on[c]} : done'[j] = done[j]
      /\ UNCHANGED <<val, key>>
  BY <1>1, <1>2 DEF Inv, TypeOK
<1>t. /\ \A d \in Callers : pc[d] \notin {"idle", "back"} => on[d] \in Calls
      /\ \A l \in Keys : m[l] # NoCall => m[l] \in Calls
      /\ \A d \in Callers : key[d] \in Keys
  BY DEF Inv, TypeOK
<1>o. \A l \in Keys : m[l] = on[c] => l = key[c]
  BY <1>1, OneKey
<1>5. EntryLed'
  BY <1>1, <1>4, <1>t, <1>o DEF Inv, EntryLed, Leads
<1>6. LeaderEntered'
  BY <1>1, <1>4, <1>t, <1>o DEF Inv, LeaderEntered, Leads
<1>7. WaiterEntered'
  BY <1>1, <1>4, <1>t, <1>o DEF Inv, WaiterEntered
<1>8. WaitersReadAfterWrite'
  <2>1. \A d \in Callers \ {c} : on[d] = on[c] => pc[d] = "wait"
    BY <1>1, <1>t DEF Inv, TypeOK, LeaderEntered, Leads
  <2> QED
    BY <1>1, <1>4, <1>t, <2>1 DEF Inv, WaitersReadAfterWrite
<1> QED
  BY <1>3, <1>5, <1>6, <1>7, <1>8 DEF Inv

(* To wake up and to consume touch the caller alone.                       *)
LEMMA WakeUpKeeps ==
  ASSUME Inv, NEW c \in Callers, WakeUp(c)
  PROVE  Inv'
<1> USE PoolAssumption
<1>1. pc[c] = "wait" /\ on[c] \in Calls /\ val[on[c]] \in Replies
  BY DEF Inv, TypeOK, WaitersReadAfterWrite, WakeUp
<1>2. TypeOK'
  BY <1>1 DEF Inv, TypeOK, WakeUp
<1>3. /\ pc'[c] = "back" /\ on'[c] = NoCall
      /\ \A d \in Callers \ {c} : pc'[d] = pc[d] /\ on'[d] = on[d]
      /\ UNCHANGED <<m, val, done, key>>
  BY DEF Inv, TypeOK, WakeUp
<1>t. \A d \in Callers : pc[d] \notin {"idle", "back"} => on[d] \in Calls
  BY DEF Inv, TypeOK
<1>4. EntryLed'
  BY <1>1, <1>3 DEF Inv, EntryLed, Leads
<1>5. LeaderEntered'
  BY <1>1, <1>3 DEF Inv, LeaderEntered, Leads
<1>6. WaiterEntered'
  BY <1>1, <1>3 DEF Inv, WaiterEntered
<1>7. WaitersReadAfterWrite'
  BY <1>1, <1>3, <1>t DEF Inv, WaitersReadAfterWrite
<1> QED
  BY <1>2, <1>4, <1>5, <1>6, <1>7 DEF Inv

LEMMA ConsumeKeeps ==
  ASSUME Inv, NEW c \in Callers, Consume(c)
  PROVE  Inv'
<1> USE PoolAssumption
<1>2. TypeOK'
  BY DEF Inv, TypeOK, Consume, AnyKey
<1>3. /\ pc[c] = "back" /\ pc'[c] = "idle"
      /\ \A d \in Callers \ {c} : pc'[d] = pc[d] /\ key'[d] = key[d]
      /\ UNCHANGED <<m, val, done, on>>
  BY DEF Inv, TypeOK, Consume
<1>t. \A d \in Callers : pc[d] \notin {"idle", "back"} => on[d] \in Calls
  BY DEF Inv, TypeOK
<1>c. on[c] = NoCall
  BY <1>3 DEF Inv, TypeOK
<1>4. EntryLed'
  BY <1>3 DEF Inv, EntryLed, Leads
<1>5. LeaderEntered'
  BY <1>3 DEF Inv, LeaderEntered, Leads
<1>6. WaiterEntered'
  BY <1>3 DEF Inv, WaiterEntered
<1>7. WaitersReadAfterWrite'
  BY <1>3, <1>t, <1>c DEF Inv, WaitersReadAfterWrite
<1> QED
  BY <1>2, <1>4, <1>5, <1>6, <1>7 DEF Inv

LEMMA InvNext == Inv /\ [Next]_vars => Inv'
<1> SUFFICES ASSUME Inv, [Next]_vars PROVE Inv'
  OBVIOUS
<1>1. ASSUME NEW c \in Callers, NEW k \in Keys, DoJoin(c, k) PROVE Inv'
  BY <1>1, JoinKeeps
<1>2. ASSUME NEW c \in Callers, NEW k \in Keys, DoLead(c, k) PROVE Inv'
  BY <1>2, LeadKeeps
<1>3. ASSUME NEW c \in Callers, Run(c) PROVE Inv'
  BY <1>3, RunKeeps DEF Run
<1>4. ASSUME NEW c \in Callers, Finish(c) PROVE Inv'
  BY <1>4, FinishKeeps
<1>5. ASSUME NEW c \in Callers, WakeUp(c) PROVE Inv'
  BY <1>5, WakeUpKeeps
<1>6. ASSUME NEW c \in Callers, Consume(c) PROVE Inv'
  BY <1>6, ConsumeKeeps
<1>7. CASE UNCHANGED vars
  BY <1>7 DEF vars, Inv, TypeOK, EntryLed, LeaderEntered, WaiterEntered, WaitersReadAfterWrite, Leads
<1> QED
  BY <1>1, <1>2, <1>3, <1>4, <1>5, <1>6, <1>7 DEF Next

LEMMA Invariance == Spec => []Inv
  BY InvInit, InvNext, PTL DEF Spec

-----------------------------------------------------------------------------
(* What it shows                                                           *)

(* The call objects and the map stay what they are meant to be, and a      *)
(* caller refers to a call exactly while its Do has not returned.          *)
THEOREM TypeCorrect == Spec => []TypeOK
<1>1. Inv => TypeOK
  BY DEF Inv
<1> QED
  BY <1>1, Invariance, PTL

(* A waiter reads c.val after the leader's last write to it and before the *)
(* call object is used again: the read needs no lock.                      *)
THEOREM ReadAfterWrite == Spec => []WaitersReadAfterWrite
<1>1. Inv => WaitersReadAfterWrite
  BY DEF Inv
<1> QED
  BY <1>1, Invariance, PTL

(* Nobody waits for a call that no caller is going to finish.              *)
THEOREM HaveLeader == Spec => []WaitersHaveLeader
<1>1. ASSUME Inv PROVE WaitersHaveLeader
  <2> SUFFICES ASSUME NEW c \in Callers, pc[c] = "wait", ~done[on[c]]
               PROVE  \E d \in Callers : pc[d] \in {"run", "ran"} /\ on[d] = on[c]
    BY DEF WaitersHaveLeader
  <2>1. key[c] \in Keys /\ on[c] # NoCall /\ m[key[c]] = on[c]
    BY <1>1 DEF Inv, TypeOK, WaiterEntered
  <2> QED
    BY <1>1, <2>1 DEF Inv, EntryLed, Leads
<1> QED
  BY <1>1, Invariance, PTL

-----------------------------------------------------------------------------
(* It implements Flight                                                    *)

(* The abstract state, as Promise has it.                                  *)
Members == [k \in Keys |-> {c \in Callers : InFlight(c) /\ key[c] = k}]
Reply == [k \in Keys |-> IF m[k] = NoCall THEN NoReply ELSE val[m[k]]]
Got == [c \in Callers |-> IF pc[c] = "wait" /\ done[on[c]] THEN val[on[c]] ELSE ret[c]]

LEMMA InitFlies == Init => Promise!Init
  BY DEF Init, Promise!Init, InFlight

(* Who is idle is in no flight and has been handed nothing.                *)
LEMMA IdleIsOut ==
  ASSUME Inv, NEW c \in Callers, pc[c] = "idle"
  PROVE  ~Promise!Waiting(c) /\ Got[c] = NoReply
  BY DEF Inv, TypeOK, Promise!Waiting, InFlight, Got

LEMMA JoinFlies ==
  ASSUME Inv, NEW c \in Callers, NEW k \in Keys, DoJoin(c, k)
  PROVE  Promise!Join(c, k)
<1>1. /\ pc[c] = "idle" /\ m[k] # NoCall /\ ~done[m[k]]
      /\ pc'[c] = "wait" /\ key'[c] = k /\ on'[c] = m[k]
      /\ \A d \in Callers \ {c} : pc'[d] = pc[d] /\ key'[d] = key[d] /\ on'[d] = on[d]
      /\ UNCHANGED <<m, val, done, ret>>
  BY DEF Inv, TypeOK, EntryLed, DoJoin
<1>2. Members' = [Members EXCEPT ![k] = @ \cup {c}]
  <2>1. /\ InFlight(c)' /\ ~InFlight(c)
        /\ \A d \in Callers \ {c} : InFlight(d)' <=> InFlight(d)
    BY <1>1 DEF InFlight
  <2>2. \A l \in Keys : Members'[l] = IF l = k THEN Members[l] \cup {c} ELSE Members[l]
    BY <1>1, <2>1 DEF Members
  <2> QED
    BY <2>2 DEF Members
<1>3. Reply' = Reply
  BY <1>1 DEF Reply
<1>4. Got' = Got
  BY <1>1 DEF Got
<1> QED
  BY <1>1, <1>2, <1>3, <1>4, IdleIsOut DEF Promise!Join, Members, Reply, Got

LEMMA LeadFlies ==
  ASSUME Inv, NEW c \in Callers, NEW k \in Keys, DoLead(c, k)
  PROVE  Promise!Join(c, k)
<1> PICK i \in Calls :
      /\ Unreferenced(i)
      /\ m' = [m EXCEPT ![k] = i]
      /\ on' = [on EXCEPT ![c] = i]
      /\ val' = [val EXCEPT ![i] = NoReply]
      /\ done' = [done EXCEPT ![i] = FALSE]
  BY DEF DoLead
<1>1. /\ pc[c] = "idle" /\ m[k] = NoCall /\ i # NoCall
      /\ pc'[c] = "run" /\ key'[c] = k /\ on'[c] = i /\ ret' = ret
      /\ m'[k] = i /\ val'[i] = NoReply /\ ~done'[i]
      /\ \A d \in Callers \ {c} : pc'[d] = pc[d] /\ key'[d] = key[d] /\ on'[d] = on[d]
      /\ \A l \in Keys \ {k} : m'[l] = m[l]
      /\ \A j \in Calls \ {i} : val'[j] = val[j] /\ done'[j] = done[j]
  BY PoolAssumption DEF Inv, TypeOK, DoLead
<1>2. /\ \A d \in Callers : on[d] # i
      /\ \A l \in Keys : m[l] # i
  BY DEF Unreferenced
<1>3. /\ \A d \in Callers : pc[d] \notin {"idle", "back"} => on[d] \in Calls
      /\ \A l \in Keys : m[l] # NoCall => m[l] \in Calls
  BY DEF Inv, TypeOK
<1>4. Members' = [Members EXCEPT ![k] = @ \cup {c}]
  <2>1. \A d \in Callers \ {c} : InFlight(d)' <=> InFlight(d)
    BY <1>1, <1>2, <1>3 DEF InFlight
  <2>2. InFlight(c)'
    BY <1>1 DEF InFlight
  <2>3. ~InFlight(c)
    BY <1>1 DEF InFlight
  <2> QED
    <3>1. \A l \in Keys : Members'[l] = IF l = k THEN Members[l] \cup {c} ELSE Members[l]
      BY <1>1, <2>1, <2>2, <2>3 DEF Members
    <3> QED
      BY <3>1 DEF Members
<1>5. Reply' = Reply
  BY <1>1, <1>2, <1>3 DEF Reply
<1>6. Got' = Got
  BY <1>1, <1>2, <1>3 DEF Got
<1> QED
  BY <1>1, <1>4, <1>5, <1>6, IdleIsOut DEF Promise!Join, Members, Reply, Got

LEMMA RunFlies ==
  ASSUME Inv, NEW c \in Callers, NEW v \in Replies, RunFn(c, v)
  PROVE  Promise!Return(key[c], v)
<1>1. /\ pc[c] = "run" /\ on[c] \in Calls /\ ~done[on[c]] /\ val[on[c]] = NoReply
      /\ key[c] \in Keys /\ m[key[c]] = on[c] /\ on[c] # NoCall
  BY PoolAssumption DEF Inv, TypeOK, LeaderEntered, Leads, RunFn
<1>2. /\ pc'[c] = "ran" /\ val'[on[c]] = v
      /\ \A d \in Callers \ {c} : pc'[d] = pc[d]
      /\ \A j \in Calls \ {on[c]} : val'[j] = val[j]
      /\ UNCHANGED <<m, done, key, on, ret>>
  BY <1>1 DEF Inv, TypeOK, RunFn
<1>3. \A d \in Callers : pc[d] \notin {"idle", "back"} => on[d] \in Calls
  BY DEF Inv, TypeOK
<1>4. Members' = Members /\ c \in Members[key[c]]
  BY <1>1, <1>2 DEF Members, InFlight
<1>5. Reply' = [Reply EXCEPT ![key[c]] = v] /\ Reply[key[c]] = NoReply
  <2>1. \A l \in Keys \ {key[c]} : m[l] # on[c]
    BY <1>1, OneKey
  <2>2. \A l \in Keys : m[l] # NoCall => m[l] \in Calls
    BY DEF Inv, TypeOK
  <2> QED
    BY <1>1, <1>2, <2>1, <2>2 DEF Reply
<1>6. Got' = Got
  BY <1>1, <1>2, <1>3 DEF Got
<1> QED
  BY <1>4, <1>5, <1>6 DEF Promise!Return, Members, Reply, Got

(* Those who refer to the call that ends are the members of its flight.    *)
LEMMA FinishFlies ==
  ASSUME Inv, NEW c \in Callers, Finish(c)
  PROVE  Promise!Land(key[c])
<1> DEFINE i == on[c]
           k == key[c]
<1>1. /\ pc[c] = "ran" /\ i \in Calls /\ i # NoCall /\ ~done[i] /\ val[i] # NoReply
      /\ k \in Keys /\ m[k] = i
  BY PoolAssumption DEF Inv, TypeOK, LeaderEntered, Leads, Finish
<1>2. /\ m' = [m EXCEPT ![k] = NoCall]
      /\ done' = [done EXCEPT ![i] = TRUE]
      /\ ret' = [ret EXCEPT ![c] = val[i]]
      /\ on' = [on EXCEPT ![c] = NoCall]
      /\ pc' = [pc EXCEPT ![c] = "back"]
      /\ UNCHANGED <<val, key>>
  BY FinishFrees DEF Finish
<1>3. /\ pc'[c] = "back" /\ ret'[c] = val[i] /\ m'[k] = NoCall /\ done'[i]
      /\ \A d \in Callers \ {c} : pc'[d] = pc[d] /\ on'[d] = on[d] /\ ret'[d] = ret[d]
      /\ \A l \in Keys \ {k} : m'[l] = m[l]
      /\ \A j \in Calls \ {i} : done'[j] = done[j]
      /\ UNCHANGED <<val, key>>
  BY <1>1, <1>2 DEF Inv, TypeOK
<1>4. \A d \in Callers : pc[d] \notin {"idle", "back"} => on[d] \in Calls /\ key[d] \in Keys
  BY DEF Inv, TypeOK
<1>5. \A d \in Callers : InFlight(d) /\ key[d] = k <=> pc[d] \in {"run", "ran", "wait"} /\ on[d] = i
  <2>1. \A d \in Callers : InFlight(d) => m[key[d]] = on[d]
    BY DEF Inv, InFlight, LeaderEntered, WaiterEntered, Leads
  <2>2. \A l \in Keys : m[l] = i => l = k
    BY <1>1, OneKey
  <2> QED
    BY <1>1, <1>4, <2>1, <2>2 DEF InFlight
<1>c. key[c] = k /\ on[c] = i
  OBVIOUS
<1> HIDE DEF i, k
<1>6. Members' = [Members EXCEPT ![k] = {}]
  <2>1. \A d \in Callers : InFlight(d)' <=> InFlight(d) /\ key[d] # k
    BY <1>1, <1>3, <1>4, <1>5, <1>c DEF InFlight
  <2>2. \A l \in Keys : Members'[l] = IF l = k THEN {} ELSE Members[l]
    BY <1>1, <1>3, <2>1 DEF Members
  <2> QED
    BY <2>2 DEF Members
<1>7. Reply' = [Reply EXCEPT ![k] = NoReply] /\ Reply[k] = val[i]
  BY <1>1, <1>3 DEF Reply
<1>8. Got' = [d \in Callers |-> IF d \in Members[k] THEN Reply[k] ELSE Got[d]]
  <2>1. \A d \in Callers : d \in Members[k] <=> pc[d] \in {"run", "ran", "wait"} /\ on[d] = i
    BY <1>1, <1>5 DEF Members
  <2>3. \A d \in Callers : on[d] = i /\ pc[d] \in {"run", "ran"} => d = c
    BY <1>1, <1>c DEF Inv, LeaderEntered, Leads
  <2> QED
    BY <1>1, <1>3, <1>4, <1>7, <1>c, <2>1, <2>3 DEF Got
<1> QED
  BY <1>1, <1>6, <1>7, <1>8 DEF Promise!Land, Members, Reply, Got, i, k

(* The waiter had been handed its reply when the leader finished.          *)
LEMMA WakeUpStutters ==
  ASSUME Inv, NEW c \in Callers, WakeUp(c)
  PROVE  UNCHANGED <<Members, Reply, Got>>
<1>1. /\ pc[c] = "wait" /\ done[on[c]] /\ pc'[c] = "back" /\ ret'[c] = val[on[c]]
      /\ \A d \in Callers \ {c} : pc'[d] = pc[d] /\ on'[d] = on[d] /\ ret'[d] = ret[d]
      /\ UNCHANGED <<m, val, done, key>>
  BY DEF Inv, TypeOK, WakeUp
<1>2. Members' = Members
  BY <1>1 DEF Members, InFlight
<1>3. Got' = Got
  BY <1>1 DEF Got
<1> QED
  BY <1>1, <1>2, <1>3 DEF Reply

LEMMA ConsumeFlies ==
  ASSUME Inv, NEW c \in Callers, Consume(c)
  PROVE  Promise!Take(c)
<1>1. /\ pc[c] = "back" /\ pc'[c] = "idle" /\ ret[c] # NoReply /\ ret'[c] = NoReply
      /\ \A d \in Callers \ {c} : pc'[d] = pc[d] /\ key'[d] = key[d] /\ ret'[d] = ret[d]
      /\ UNCHANGED <<m, val, done, on>>
  BY DEF Inv, TypeOK, Consume
<1>2. Members' = Members
  BY <1>1 DEF Members, InFlight
<1>3. Got' = [Got EXCEPT ![c] = NoReply] /\ Got[c] # NoReply
  BY <1>1 DEF Got
<1> QED
  BY <1>1, <1>2, <1>3 DEF Promise!Take, Members, Reply, Got

LEMMA StepFlies ==
  ASSUME Inv, [Next]_vars
  PROVE  Promise!Next \/ UNCHANGED <<Members, Reply, Got>>
<1>1. ASSUME NEW c \in Callers, NEW k \in Keys, DoJoin(c, k) \/ DoLead(c, k) PROVE Promise!Next
  BY <1>1, JoinFlies, LeadFlies DEF Promise!Next
<1>2. ASSUME NEW c \in Callers, Run(c) PROVE Promise!Next
  <2>1. key[c] \in Keys
    BY DEF Inv, TypeOK
  <2> QED
    BY <1>2, <2>1, RunFlies DEF Promise!Next, Run
<1>3. ASSUME NEW c \in Callers, Finish(c) PROVE Promise!Next
  <2>1. key[c] \in Keys
    BY DEF Inv, TypeOK
  <2>2. Promise!Land(key[c])
    BY <1>3, FinishFlies
  <2> QED
    BY <2>1, <2>2 DEF Promise!Next, Promise!Land
<1>4. ASSUME NEW c \in Callers, WakeUp(c) PROVE UNCHANGED <<Members, Reply, Got>>
  BY <1>4, WakeUpStutters
<1>5. ASSUME NEW c \in Callers, Consume(c) PROVE Promise!Next
  BY <1>5, ConsumeFlies DEF Promise!Next
<1>6. CASE UNCHANGED vars
  BY <1>6 DEF vars, Members, Reply, Got, InFlight
<1> QED
  BY <1>1, <1>2, <1>3, <1>4, <1>5, <1>6 DEF Next

(* Do keeps the promise FunctionScaler is built on: one execution per key  *)
(* at a time, and everybody who joined it is handed its outcome.           *)
THEOREM GroupKeepsPromise == Spec => KeepsPromise
<1>1. Inv /\ [Next]_vars => [Promise!Next]_Promise!vars
  BY StepFlies DEF Promise!vars, Members, Reply, Got
<1> QED
  BY <1>1, InitFlies, Invariance, PTL DEF Spec, KeepsPromise, Promise!Spec
=============================================================================
