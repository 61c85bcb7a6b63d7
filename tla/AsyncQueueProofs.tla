-------------------------- MODULE AsyncQueueProofs --------------------------
(***************************************************************************)
(* What holds of AsyncQueue for every set of requests and connections,     *)
(* every number of slots and attempts, and every loss and delay.           *)
(***************************************************************************)
EXTENDS AsyncQueue, FiniteSetTheorems, TLAPS

-----------------------------------------------------------------------------
(* The invariant                                                           *)

(* Only a lost connection is replaced; who tries to do so has an attempt   *)
(* left, and who has made a connection is about to store it.               *)
Attempts == \A c \in Connections :
  /\ link[c] = "open" => repair[c] = "none"
  /\ repair[c] = "try" => tries[c] < MaxReconnect
  /\ repair[c] = "store" <=> made[c] \in Connections

Early == {"idle", "read", "queue", "register"}
Holding == {"acquire", "blocked", "send", "unsent"}
Late == {"sent", "wait", "replied"}
Positions == Early \cup Holding \cup Late

(* A request that is past the copy of q.nc has been given a connection.    *)
Given(r) ==
  \/ pc[r] \notin {"idle", "read", "queue", "replied"}
  \/ outcomes[r] # << >> \/ timer[r] # "none" \/ r \in wire \/ returning[r] # "none"
  => conn[r] \in Connections

(* A request is in the map of its own connection only, and certainly until *)
(* it is sent; that it is left there when it is answered happens only on a *)
(* closed connection.                                                      *)
Entered(r) ==
  /\ \A c \in Connections : r \in acks[c] => c = conn[r] /\ pc[r] \notin Early
  /\ pc[r] \in Holding => r \in acks[conn[r]]
  /\ pc[r] = "replied" => \A c \in Connections : r \in acks[c] => link[c] = "closed"

(* Nobody knows of a request before it is sent, and no timer runs before   *)
(* its publisher waits.                                                    *)
Untouched(r) ==
  /\ pc[r] \notin Late =>
       outcomes[r] = << >> /\ r \notin wire /\ r \notin stored /\ returning[r] = "none"
  /\ timer[r] # "none" => pc[r] \in {"wait", "replied"}

(* The map and the channel: who takes the request out of the one puts the  *)
(* answer in the other.                                                    *)
Told(r) ==
  /\ outcomes[r] \in {<< >>, <<"ok">>, <<"error">>}
  /\ outcomes[r] # << >> => r \notin acks[conn[r]]
  /\ pc[r] \in {"sent", "wait"} => r \in acks[conn[r]] \/ outcomes[r] # << >>
  /\ pc[r] = "wait" => outcomes[r] # << >> \/ timer[r] # "none"

(* Good news of a request is that of the server, which has stored it.      *)
Truthful(r) ==
  /\ returning[r] = "ok" \/ outcomes[r] = <<"ok">> \/ response[r] = 202 => r \in stored
  /\ r \in wire => r \notin stored /\ returning[r] = "none"
  /\ response[r] # 0 <=> pc[r] = "replied"
  /\ response[r] = 400 => r \notin wire /\ r \notin stored

RequestInv(r) == Given(r) /\ Entered(r) /\ Untouched(r) /\ Told(r) /\ Truthful(r)

Inv == TypeOK /\ Attempts /\ \A r \in Requests : RequestInv(r)

-----------------------------------------------------------------------------
(* Type correctness                                                        *)

(* TypeOK in parts, along the groups of variables.                         *)
QueueTyped ==
  /\ nc \in Connections
  /\ repair \in [Connections -> {"none", "try", "store"}]
  /\ tries \in [Connections -> 0 .. MaxReconnect]
  /\ made \in [Connections -> Connections \cup {NoConnection}]
LinkTyped ==
  /\ link \in [Connections -> {"unused", "open", "closed"}]
  /\ acks \in [Connections -> SUBSET Requests]
  /\ slots \in [Connections -> 0 .. MaxInflight]
RequestsTyped ==
  /\ pc \in [Requests -> Positions]
  /\ conn \in [Requests -> Connections \cup {NoConnection}]
  /\ timer \in [Requests -> {"none", "running", "fired"}]
  /\ outcomes \in [Requests -> Seq({"ok", "error"})]
  /\ response \in [Requests -> {0, 202, 400, 500}]
ServerTyped ==
  /\ wire \subseteq Requests /\ stored \subseteq Requests
  /\ returning \in [Requests -> {"none", "ok", "error"}]

LEMMA TypeParts ==
  /\ TypeOK <=> QueueTyped /\ LinkTyped /\ RequestsTyped /\ ServerTyped
  /\ TypeOK' <=> QueueTyped' /\ LinkTyped' /\ RequestsTyped' /\ ServerTyped'
<1>1. Positions = {"idle", "read", "queue", "register", "acquire", "blocked",
                   "send", "sent", "unsent", "wait", "replied"}
  BY DEF Positions, Early, Holding, Late
<1> QED
  BY <1>1 DEF TypeOK, QueueTyped, LinkTyped, RequestsTyped, ServerTyped

LEMMA TypeFrames ==
  /\ QueueTyped /\ UNCHANGED queueVars => QueueTyped'
  /\ LinkTyped /\ UNCHANGED linkVars => LinkTyped'
  /\ RequestsTyped /\ UNCHANGED requestVars => RequestsTyped'
  /\ ServerTyped /\ UNCHANGED serverVars => ServerTyped'
  BY DEF QueueTyped, LinkTyped, RequestsTyped, ServerTyped, queueVars, linkVars, requestVars,
         serverVars

(* A request moves on, or is replied to.                                   *)
LEMMA MoveTyped ==
  ASSUME RequestsTyped, NEW r \in Requests, NEW p \in Positions,
         \/ pc' = [pc EXCEPT ![r] = p] /\ UNCHANGED response
         \/ \E status \in {400, 500} : Reply(r, status)
  PROVE  pc' \in [Requests -> Positions] /\ response' \in [Requests -> {0, 202, 400, 500}]
<1> USE DEF RequestsTyped, Reply, Positions, Early, Holding, Late
<1>1. CASE pc' = [pc EXCEPT ![r] = p] /\ UNCHANGED response BY <1>1
<1>2. CASE \E status \in {400, 500} : Reply(r, status) BY <1>2
<1> QED BY <1>1, <1>2

(* The steps that a request takes without the others' knowledge.           *)
LEMMA RequestTyped ==
  ASSUME Inv, NEW r \in Requests,
         Arrive(r) \/ ReadRequest(r) \/ TakeConnection(r) \/ Block(r) \/ GiveUp(r) \/ Receive(r)
  PROVE  TypeOK'
<1>1. QueueTyped /\ LinkTyped /\ RequestsTyped /\ ServerTyped
  BY TypeParts DEF Inv
<1>2. UNCHANGED <<queueVars, linkVars, serverVars>>
  BY DEF Arrive, ReadRequest, TakeConnection, Block, GiveUp, Receive
<1>3. RequestsTyped'
  <2> USE <1>1 DEF RequestsTyped, QueueTyped, Goto, Reply, Positions, Early, Holding, Late
  <2>1. CASE Arrive(r) BY <2>1 DEF Arrive
  <2>2. CASE ReadRequest(r)
    <3>1. CASE Goto(r, "read", "queue") /\ UNCHANGED response BY <2>2, <3>1 DEF ReadRequest
    <3>2. CASE \E status \in {400, 500} : Reply(r, status) BY <2>2, <3>2 DEF ReadRequest
    <3> QED BY <2>2, <3>1, <3>2 DEF ReadRequest
  <2>3. CASE TakeConnection(r) BY <2>3 DEF TakeConnection
  <2>4. CASE Block(r) BY <2>4 DEF Block
  <2>5. CASE GiveUp(r) BY <2>5 DEF GiveUp
  <2>6. CASE Receive(r) BY <2>6 DEF Receive
  <2> QED BY <2>1, <2>2, <2>3, <2>4, <2>5, <2>6
<1> QED
  BY <1>1, <1>2, <1>3, TypeFrames, TypeParts

(* Taking a request out of the map keeps the map and the slots typed,      *)
LEMMA RemoveTyped ==
  ASSUME LinkTyped, NEW r \in Requests, conn[r] \in Connections, Remove(r)
  PROVE  LinkTyped'
<1>1. slots[conn[r]] \in 0 .. MaxInflight /\ MaxInflight \in Nat
  BY QueueAssumption DEF LinkTyped
<1>2. slots[conn[r]] > 0 => slots[conn[r]] - 1 \in 0 .. MaxInflight
  BY <1>1
<1>3. slots' \in [Connections -> 0 .. MaxInflight]
  BY <1>2 DEF LinkTyped, Remove
<1>4. acks' \in [Connections -> SUBSET Requests] /\ UNCHANGED link
  BY DEF LinkTyped, Remove
<1> QED
  BY <1>3, <1>4 DEF LinkTyped

(* and so do what it is told and the end of its timer.                     *)
LEMMA TellTyped ==
  ASSUME RequestsTyped, NEW r \in Requests, NEW o \in {"ok", "error"}, Tell(r, o)
  PROVE  outcomes' \in [Requests -> Seq({"ok", "error"})]
<1>1. outcomes[r] \in Seq({"ok", "error"})
  BY DEF RequestsTyped
<1>2. Append(outcomes[r], o) \in Seq({"ok", "error"})
  BY <1>1
<1> QED
  BY <1>1, <1>2 DEF RequestsTyped, Tell

(* The steps by which it uses its connection.                              *)
LEMMA PublishTyped ==
  ASSUME Inv, NEW r \in Requests, Register(r) \/ Acquire(r) \/ Send(r) \/ Arm(r) \/ Leave(r)
  PROVE  TypeOK'
<1>1. QueueTyped /\ LinkTyped /\ RequestsTyped /\ ServerTyped
  BY TypeParts DEF Inv
<1>2. UNCHANGED queueVars
  BY DEF Register, Acquire, Send, Arm, Leave
<1>3. pc[r] \notin {"idle", "read", "queue", "replied"} => conn[r] \in Connections
  BY DEF Inv, RequestInv, Given
<1>4. CASE Register(r)
  <2> USE <1>4 DEF Register, Goto, Reply
  <2>1. conn[r] \in Connections
    BY <1>3
  <2>2. acks' \in [Connections -> SUBSET Requests] /\ UNCHANGED <<link, slots>>
    BY <1>1, <2>1 DEF LinkTyped
  <2>3. pc' \in [Requests -> Positions] /\ response' \in [Requests -> {0, 202, 400, 500}]
    <3>1. "acquire" \in Positions
      BY DEF Positions, Holding
    <3> QED
      BY <1>1, <3>1, MoveTyped
  <2> QED
    BY <1>1, <1>2, <2>2, <2>3, TypeFrames, TypeParts DEF LinkTyped, RequestsTyped
<1>5. CASE Acquire(r)
  <2> USE <1>5 DEF Acquire
  <2>1. slots[conn[r]] \in 0 .. MaxInflight /\ MaxInflight \in Nat
    BY <1>1, <1>3, QueueAssumption DEF LinkTyped
  <2>2. slots[conn[r]] + 1 \in 0 .. MaxInflight
    BY <2>1
  <2>3. LinkTyped'
    BY <1>1, <2>2 DEF LinkTyped
  <2>4. RequestsTyped'
    BY <1>1 DEF RequestsTyped, Positions, Early, Holding, Late
  <2> QED
    BY <1>1, <1>2, <2>3, <2>4, TypeFrames, TypeParts
<1>6. CASE Send(r)
  <2> USE <1>6 DEF Send, Goto
  <2>1. wire' \subseteq Requests /\ UNCHANGED <<stored, returning>>
    BY <1>1 DEF ServerTyped
  <2>2. pc' \in [Requests -> Positions]
    BY <1>1 DEF RequestsTyped, Positions, Early, Holding, Late
  <2> QED
    BY <1>1, <1>2, <2>1, <2>2, TypeFrames, TypeParts DEF RequestsTyped, ServerTyped
<1>7. CASE Arm(r)
  <2> USE <1>1, <1>7 DEF Arm, Goto, Reply
  <2>1. conn[r] \in Connections
    BY <1>3
  <2>2. LinkTyped'
    BY <2>1, RemoveTyped, TypeFrames
  <2>3. timer' \in [Requests -> {"none", "running", "fired"}]
    <3>1. CASE timer' = [timer EXCEPT ![r] = "running"] BY <3>1 DEF RequestsTyped
    <3>2. CASE StopTimer(r) BY <3>2 DEF RequestsTyped, StopTimer
    <3> QED BY <3>1, <3>2
  <2>4. pc' \in [Requests -> Positions] /\ response' \in [Requests -> {0, 202, 400, 500}]
    <3>1. "wait" \in Positions
      BY DEF Positions, Late
    <3>2. \/ pc' = [pc EXCEPT ![r] = "wait"] /\ UNCHANGED response
          \/ Reply(r, 500)
      OBVIOUS
    <3> QED
      BY <3>1, <3>2, MoveTyped
  <2> QED
    BY <1>2, <2>2, <2>3, <2>4, TypeFrames, TypeParts DEF RequestsTyped
<1>8. CASE Leave(r)
  <2> USE <1>8 DEF Leave, Goto
  <2>1. acks' \in [Connections -> SUBSET Requests]
    BY <1>1 DEF LinkTyped
  <2>2. outcomes' \in [Requests -> Seq({"ok", "error"})]
    BY <1>1 DEF RequestsTyped
  <2>3. RequestsTyped'
    BY <1>1, <2>2 DEF RequestsTyped, Positions, Early, Holding, Late
  <2> QED
    BY <1>1, <1>2, <2>1, <2>3, TypeFrames, TypeParts DEF LinkTyped, ServerTyped
<1> QED
  BY <1>4, <1>5, <1>6, <1>7, <1>8

(* What others do about a request.                                         *)
LEMMA AnswerTyped ==
  ASSUME Inv, NEW r \in Requests, ProcessAck(r) \/ Fire(r) \/ TimeOut(r) \/ Serve(r)
  PROVE  TypeOK'
<1>1. QueueTyped /\ LinkTyped /\ RequestsTyped /\ ServerTyped
  BY TypeParts DEF Inv
<1>2. UNCHANGED queueVars
  BY DEF ProcessAck, Fire, TimeOut, Serve
<1>3. timer[r] # "none" \/ returning[r] # "none" => conn[r] \in Connections
  BY DEF Inv, RequestInv, Given
<1>4. CASE ProcessAck(r)
  <2> USE <1>4 DEF ProcessAck
  <2>1. LinkTyped'
    BY <1>1, <1>3, RemoveTyped
  <2>2. timer' \in [Requests -> {"none", "running", "fired"}]
    BY <1>1 DEF RequestsTyped, StopTimer
  <2>3. returning[r] \in {"ok", "error"}
    BY <1>1 DEF ServerTyped
  <2>4. outcomes' \in [Requests -> Seq({"ok", "error"})]
    BY <1>1, <2>3, TellTyped
  <2> QED
    BY <1>1, <1>2, <2>1, <2>2, <2>4, TypeFrames, TypeParts DEF RequestsTyped, ServerTyped
<1>5. CASE Fire(r)
  BY <1>1, <1>2, <1>5, TypeFrames, TypeParts DEF Fire, RequestsTyped
<1>6. CASE TimeOut(r)
  <2> USE <1>6 DEF TimeOut
  <2>1. LinkTyped'
    BY <1>1, <1>3, RemoveTyped
  <2>2. outcomes' \in [Requests -> Seq({"ok", "error"})]
    BY <1>1, TellTyped
  <2> QED
    BY <1>1, <1>2, <2>1, <2>2, TypeFrames, TypeParts DEF RequestsTyped
<1>7. CASE Serve(r)
  <2>1. wire' \subseteq Requests /\ stored' \subseteq Requests
    BY <1>1, <1>7 DEF Serve, ServerTyped
  <2>2. returning' \in [Requests -> {"none", "ok", "error"}]
    BY <1>1, <1>7 DEF Serve, ServerTyped
  <2> QED
    BY <1>1, <1>2, <1>7, <2>1, <2>2, TypeFrames, TypeParts DEF Serve, ServerTyped
<1> QED
  BY <1>4, <1>5, <1>6, <1>7

(* Loss and replacement of connections.                                    *)
LEMMA ConnectionTyped ==
  ASSUME Inv, NEW c \in Connections, Lose(c) \/ Reconnect(c) \/ Store(c)
  PROVE  TypeOK'
<1>1. QueueTyped /\ LinkTyped /\ RequestsTyped /\ ServerTyped
  BY TypeParts DEF Inv
<1>2. UNCHANGED serverVars
  BY DEF Lose, Reconnect, Store
<1>3. CASE Lose(c)
  <2> USE <1>3 DEF Lose
  <2>1. QueueTyped'
    BY <1>1, QueueAssumption DEF QueueTyped
  <2>2. LinkTyped'
    BY <1>1 DEF LinkTyped
  <2>3. timer' \in [Requests -> {"none", "running", "fired"}]
    BY <1>1 DEF RequestsTyped
  <2>4. \A r \in Requests : outcomes[r] \in Seq({"ok", "error"})
    BY <1>1 DEF RequestsTyped
  <2>5. \A r \in Requests : Append(outcomes[r], "error") \in Seq({"ok", "error"})
    BY <2>4
  <2>6. outcomes' \in [Requests -> Seq({"ok", "error"})]
    BY <2>4, <2>5
  <2> QED
    BY <1>1, <1>2, <2>1, <2>2, <2>3, <2>6, TypeFrames, TypeParts DEF RequestsTyped
<1>4. CASE Reconnect(c)
  <2>1. UNCHANGED requestVars
    BY <1>4 DEF Reconnect
  <2>2. CASE UNCHANGED <<made, linkVars>>
    <3>1. tries[c] \in Nat /\ tries[c] + 1 \in 0 .. MaxReconnect
      BY <1>1, <1>4, QueueAssumption DEF Reconnect, QueueTyped, Inv, Attempts
    <3>2. QueueTyped'
      BY <1>1, <1>4, <2>2, <3>1 DEF Reconnect, QueueTyped
    <3> QED
      BY <1>1, <1>2, <2>1, <2>2, <3>2, TypeFrames, TypeParts
  <2>3. ASSUME NEW d \in Connections,
               link' = [link EXCEPT ![d] = "open"], acks' = [acks EXCEPT ![d] = {}],
               slots' = [slots EXCEPT ![d] = 0], made' = [made EXCEPT ![c] = d],
               repair' = [repair EXCEPT ![c] = "store"], UNCHANGED <<nc, tries>>
        PROVE  TypeOK'
    <3>1. LinkTyped'
      BY <1>1, <2>3, QueueAssumption DEF LinkTyped
    <3>2. QueueTyped'
      BY <1>1, <2>3 DEF QueueTyped
    <3> QED
      BY <1>1, <1>2, <2>1, <3>1, <3>2, TypeFrames, TypeParts
  <2> QED
    BY <1>4, <2>2, <2>3 DEF Reconnect
<1>5. CASE Store(c)
  <2>1. made[c] \in Connections
    BY <1>5 DEF Store, Inv, Attempts
  <2>2. QueueTyped'
    BY <1>1, <1>5, <2>1 DEF Store, QueueTyped
  <2> QED
    BY <1>1, <1>2, <1>5, <2>2, TypeFrames, TypeParts DEF Store
<1> QED
  BY <1>3, <1>4, <1>5

LEMMA TypeKept == ASSUME Inv, [Next]_vars PROVE TypeOK'
<1>1. CASE UNCHANGED vars
  BY <1>1, TypeParts, TypeFrames DEF vars, Inv
<1>2. CASE Next
  BY <1>2, RequestTyped, PublishTyped, AnswerTyped, ConnectionTyped DEF Next, Handler
<1> QED
  BY <1>1, <1>2

-----------------------------------------------------------------------------
(* Attempts to reconnect                                                   *)

LEMMA AttemptsKept == ASSUME Inv, [Next]_vars PROVE Attempts'
<1>1. TypeOK /\ Attempts
  BY DEF Inv
<1>2. ASSUME UNCHANGED <<queueVars, link>> PROVE Attempts'
  BY <1>1, <1>2 DEF Attempts, queueVars
<1>3. ASSUME NEW r \in Requests,
             \/ Arrive(r) \/ Handler(r) \/ Leave(r)
             \/ ProcessAck(r) \/ Fire(r) \/ TimeOut(r) \/ Serve(r)
      PROVE  UNCHANGED <<queueVars, link>>
  BY <1>3 DEF Arrive, Handler, ReadRequest, TakeConnection, Register, Acquire, Block, GiveUp,
     Send, Arm, Receive, Leave, ProcessAck, Fire, TimeOut, Serve, Remove, linkVars
<1>4. ASSUME NEW c \in Connections, Lose(c) PROVE Attempts'
  BY <1>1, <1>4, QueueAssumption DEF Lose, Attempts, TypeOK
<1>5. ASSUME NEW c \in Connections, Reconnect(c) PROVE Attempts'
  <2>1. CASE /\ tries' = [tries EXCEPT ![c] = @ + 1]
             /\ repair' = [repair EXCEPT ![c] = IF tries'[c] < MaxReconnect THEN "try" ELSE "none"]
             /\ UNCHANGED <<made, linkVars>>
    <3>1. UNCHANGED <<made, link>> /\ repair[c] = "try"
      BY <1>5, <2>1 DEF Reconnect, linkVars
    <3>2. \A d \in Connections \ {c} : repair'[d] = repair[d] /\ tries'[d] = tries[d]
      BY <1>1, <2>1 DEF TypeOK
    <3>3. repair'[c] = IF tries'[c] < MaxReconnect THEN "try" ELSE "none"
      BY <1>1, <2>1 DEF TypeOK
    <3>4. CASE tries'[c] < MaxReconnect
      BY <1>1, <3>1, <3>2, <3>3, <3>4 DEF Attempts
    <3>5. CASE ~(tries'[c] < MaxReconnect)
      BY <1>1, <3>1, <3>2, <3>3, <3>5 DEF Attempts
    <3> QED
      BY <3>4, <3>5
  <2>2. ASSUME NEW d \in Connections, Free(d),
               link' = [link EXCEPT ![d] = "open"], made' = [made EXCEPT ![c] = d],
               repair' = [repair EXCEPT ![c] = "store"], UNCHANGED tries
        PROVE  Attempts'
    BY <1>1, <1>5, <2>2 DEF Reconnect, Attempts, TypeOK, Free
  <2> QED
    BY <1>5, <2>1, <2>2 DEF Reconnect
<1>6. ASSUME NEW c \in Connections, Store(c) PROVE Attempts'
  BY <1>1, <1>6, QueueAssumption DEF Store, Attempts, TypeOK, linkVars
<1>7. CASE UNCHANGED vars
  BY <1>2, <1>7 DEF vars, linkVars
<1>8. CASE Next
  BY <1>2, <1>3, <1>4, <1>5, <1>6, <1>8 DEF Next
<1> QED
  BY <1>7, <1>8

-----------------------------------------------------------------------------
(* Requests                                                                *)

(* A step that does not concern r: it may, at most, close connections.     *)
Apart(r) ==
  /\ pc'[r] = pc[r] /\ conn'[r] = conn[r] /\ timer'[r] = timer[r]
  /\ outcomes'[r] = outcomes[r] /\ response'[r] = response[r]
  /\ returning'[r] = returning[r]
  /\ r \in wire' <=> r \in wire
  /\ r \in stored' <=> r \in stored
  /\ \A c \in Connections : r \in acks'[c] <=> r \in acks[c]
  /\ \A c \in Connections : r \in acks[c] /\ link[c] = "closed" => link'[c] = "closed"

LEMMA ApartKept == ASSUME NEW r \in Requests, RequestInv(r), Apart(r) PROVE RequestInv(r)'
<1> USE DEF RequestInv, Apart
<1>1. Given(r)' BY DEF Given
<1>2. Entered(r)' BY DEF Entered, Given, Holding
<1>3. Untouched(r)' BY DEF Untouched
<1>4. Told(r)' BY DEF Told, Given
<1>5. Truthful(r)' BY DEF Truthful
<1> QED BY <1>1, <1>2, <1>3, <1>4, <1>5

(* A step of one request is none of another's.                             *)
LEMMA StepsApart ==
  ASSUME Inv, NEW r \in Requests, NEW s \in Requests \ {r},
         \/ Arrive(r) \/ Handler(r) \/ Leave(r)
         \/ ProcessAck(r) \/ Fire(r) \/ TimeOut(r) \/ Serve(r)
  PROVE  Apart(s)
<1> USE DEF Inv, TypeOK, Apart, linkVars, requestVars, serverVars, Goto, Reply, Remove, StopTimer, Tell
<1>1. CASE Arrive(r) BY <1>1 DEF Arrive
<1>2. CASE ReadRequest(r) BY <1>2 DEF ReadRequest
<1>3. CASE TakeConnection(r) BY <1>3 DEF TakeConnection
<1>4. CASE Register(r)
  <2>1. pc'[s] = pc[s] /\ response'[s] = response[s]
    <3>1. CASE Reply(r, 500) BY <3>1
    <3>2. CASE Goto(r, "register", "acquire") /\ UNCHANGED response BY <3>2
    <3> QED BY <1>4, <3>1, <3>2 DEF Register
  <2>2. \A c \in Connections : s \in acks'[c] <=> s \in acks[c]
    <3>1. CASE UNCHANGED acks BY <3>1
    <3>2. CASE acks' = [acks EXCEPT ![conn[r]] = @ \cup {r}] BY <3>2
    <3> QED BY <1>4, <3>1, <3>2 DEF Register
  <2> QED BY <1>4, <2>1, <2>2 DEF Register
<1>5. CASE Acquire(r) BY <1>5 DEF Acquire
<1>6. CASE Block(r) BY <1>6 DEF Block
<1>7. CASE GiveUp(r) BY <1>7 DEF GiveUp
<1>8. CASE Send(r) BY <1>8 DEF Send
<1>9. CASE Arm(r) BY <1>9 DEF Arm
<1>10. CASE Receive(r) BY <1>10 DEF Receive
<1>11. CASE Leave(r) BY <1>11 DEF Leave
<1>12. CASE ProcessAck(r) BY <1>12 DEF ProcessAck
<1>13. CASE Fire(r) BY <1>13 DEF Fire
<1>14. CASE TimeOut(r) BY <1>14 DEF TimeOut
<1>15. CASE Serve(r) BY <1>15 DEF Serve
<1> QED
  BY <1>1, <1>2, <1>3, <1>4, <1>5, <1>6, <1>7, <1>8, <1>9, <1>10, <1>11, <1>12, <1>13, <1>14,
     <1>15 DEF Handler

(* What a request does on its own keeps its invariant.                     *)
LEMMA OwnStep ==
  ASSUME Inv, NEW r \in Requests,
         Arrive(r) \/ ReadRequest(r) \/ TakeConnection(r) \/ Block(r) \/ GiveUp(r) \/ Receive(r)
  PROVE  RequestInv(r)'
<1> USE DEF Inv, TypeOK, RequestInv, linkVars, serverVars, Goto, Reply,
      Given, Entered, Untouched, Told, Truthful, Early, Holding, Late
<1>1. CASE Arrive(r) BY <1>1 DEF Arrive
<1>2. CASE ReadRequest(r) BY <1>2 DEF ReadRequest
<1>3. CASE TakeConnection(r) BY <1>3 DEF TakeConnection
<1>4. CASE Block(r) BY <1>4 DEF Block
<1>5. CASE GiveUp(r) BY <1>5 DEF GiveUp
<1>6. CASE Receive(r)
  <2>1. outcomes[r] = <<"ok">> \/ outcomes[r] = <<"error">>
    BY <1>6 DEF Receive
  <2>2. /\ pc'[r] = "replied"
        /\ response'[r] = IF outcomes[r] = <<"ok">> THEN 202 ELSE 500
    BY <1>6, <2>1 DEF Receive
  <2> QED
    BY <1>6, <2>1, <2>2 DEF Receive
<1> QED BY <1>1, <1>2, <1>3, <1>4, <1>5, <1>6

(* Whoever takes the request out of the map takes it out of all maps.      *)
LEMMA Removed ==
  ASSUME Inv, NEW r \in Requests, conn[r] \in Connections, Remove(r)
  PROVE  (\A c \in Connections : r \notin acks'[c]) /\ UNCHANGED link
  BY DEF Inv, TypeOK, RequestInv, Entered, Remove

LEMMA OutcomesDiffer == <<"ok">> # << >> /\ <<"error">> # << >> /\ <<"ok">> # <<"error">>
  OBVIOUS

(* The answer is the first, if there is one to give.                       *)
LEMMA ToldOnce ==
  ASSUME Inv, NEW r \in Requests, NEW o \in {"ok", "error"}, Tell(r, o)
  PROVE  \/ r \in acks[conn[r]] /\ outcomes'[r] = <<o>>
         \/ r \notin acks[conn[r]] /\ outcomes'[r] = outcomes[r]
<1>1. r \in acks[conn[r]] => outcomes[r] = << >>
  BY DEF Inv, RequestInv, Told
<1>2. Append(<< >>, o) = <<o>>
  OBVIOUS
<1>3. outcomes'[r] = IF r \in acks[conn[r]] THEN Append(outcomes[r], o) ELSE outcomes[r]
  BY DEF Inv, TypeOK, Tell
<1> QED
  BY <1>1, <1>2, <1>3

LEMMA PublishStep ==
  ASSUME Inv, NEW r \in Requests, Register(r) \/ Acquire(r) \/ Send(r) \/ Arm(r) \/ Leave(r)
  PROVE  RequestInv(r)'
<1>1. CASE Register(r)
  <2>1. conn[r] \in Connections
    BY <1>1 DEF Register, Inv, RequestInv, Given
  <2>2. CASE Reply(r, 500) /\ UNCHANGED acks
    BY <1>1, <2>1, <2>2 DEF Register, Reply, Inv, TypeOK, serverVars, RequestInv, Given,
       Entered, Untouched, Told, Truthful, Early, Holding, Late
  <2>3. CASE pc' = [pc EXCEPT ![r] = "acquire"] /\ acks' = [acks EXCEPT ![conn[r]] = @ \cup {r}]
             /\ UNCHANGED response
    <3>1. /\ pc'[r] = "acquire" /\ pc[r] = "register" /\ r \in acks'[conn[r]]
          /\ \A c \in Connections \ {conn[r]} : acks'[c] = acks[c]
      BY <1>1, <2>1, <2>3 DEF Register, Goto, Reply, Inv, TypeOK
    <3> QED
      BY <1>1, <2>1, <2>3, <3>1 DEF Register, Inv, serverVars, RequestInv, Given,
         Entered, Untouched, Told, Truthful, Early, Holding, Late
  <2> QED
    BY <1>1, <2>2, <2>3 DEF Register, Goto
<1>2. CASE Acquire(r)
  <2>1. pc[r] \in {"acquire", "blocked"} /\ pc'[r] = "send"
    BY <1>2 DEF Acquire, Inv, TypeOK
  <2> QED
    BY <1>2, <2>1 DEF Acquire, Inv, serverVars, RequestInv, Given,
       Entered, Untouched, Told, Truthful, Early, Holding, Late
<1>3. CASE Send(r)
  <2>1. pc[r] = "send" /\ UNCHANGED <<queueVars, linkVars, conn, timer, outcomes, response,
                                     stored, returning>>
    BY <1>3 DEF Send, Goto
  <2>2. (pc'[r] = "sent" /\ wire' = wire \cup {r}) \/ (pc'[r] = "unsent" /\ UNCHANGED wire)
    BY <1>3 DEF Send, Goto, Inv, TypeOK
  <2> QED
    BY <2>1, <2>2 DEF Inv, linkVars, RequestInv, Given,
       Entered, Untouched, Told, Truthful, Early, Holding, Late
<1>4. CASE Arm(r)
  <2>1. /\ pc[r] \in {"sent", "unsent"} /\ conn[r] \in Connections
        /\ UNCHANGED <<conn, outcomes, serverVars>>
    BY <1>4 DEF Arm, Goto, Inv, RequestInv, Given
  <2>2. CASE pc[r] = "sent" /\ pc'[r] = "wait" /\ timer'[r] = "running"
             /\ UNCHANGED <<linkVars, response>>
    BY <2>1, <2>2 DEF Inv, linkVars, serverVars, RequestInv, Given,
       Entered, Untouched, Told, Truthful, Early, Holding, Late
  <2>3. CASE Remove(r) /\ StopTimer(r) /\
             IF r \in acks[conn[r]] THEN pc'[r] = "replied" /\ response'[r] = 500
                                    ELSE pc'[r] = "wait" /\ UNCHANGED response
    <3>1. (\A c \in Connections : r \notin acks'[c]) /\ UNCHANGED link
      BY <2>1, <2>3, Removed
    <3>2. timer'[r] = timer[r] /\ timer[r] = "none"
      BY <2>1, <2>3 DEF StopTimer, Inv, TypeOK, RequestInv, Untouched
    <3> QED
      BY <2>1, <2>3, <3>1, <3>2 DEF Inv, serverVars, RequestInv, Given,
         Entered, Untouched, Told, Truthful, Early, Holding, Late
  <2> QED
    BY <1>4, <2>2, <2>3 DEF Arm, Goto, Reply, Inv, TypeOK
<1>5. CASE Leave(r)
  <2>1. /\ pc'[r] = "idle" /\ outcomes'[r] = << >> /\ response'[r] = 0
        /\ r \notin stored' /\ \A c \in Connections : r \notin acks'[c]
        /\ r \notin wire' /\ timer'[r] = "none" /\ returning'[r] = "none"
    BY <1>5 DEF Leave, Goto, Inv, TypeOK
  <2> QED
    BY <2>1 DEF RequestInv, Given, Entered, Untouched, Told, Truthful, Early, Holding, Late
<1> QED BY <1>1, <1>2, <1>3, <1>4, <1>5

LEMMA AnswerStep ==
  ASSUME Inv, NEW r \in Requests, ProcessAck(r) \/ Fire(r) \/ TimeOut(r) \/ Serve(r)
  PROVE  RequestInv(r)'
<1>1. CASE ProcessAck(r)
  <2>1. /\ conn[r] \in Connections /\ returning'[r] = "none" /\ pc[r] \in Late
        /\ returning[r] \in {"ok", "error"}
        /\ UNCHANGED <<pc, conn, response, wire, stored>>
    BY <1>1 DEF ProcessAck, Inv, TypeOK, RequestInv, Given, Untouched, Late
  <2>2. (\A c \in Connections : r \notin acks'[c]) /\ UNCHANGED link
    BY <1>1, <2>1, Removed DEF ProcessAck
  <2>3. \/ r \in acks[conn[r]] /\ outcomes'[r] = <<returning[r]>>
        \/ r \notin acks[conn[r]] /\ outcomes'[r] = outcomes[r]
    BY <1>1, <2>1, ToldOnce DEF ProcessAck
  <2>4. timer'[r] # "none" => timer[r] # "none"
    BY <1>1 DEF ProcessAck, StopTimer, Inv, TypeOK
  <2>5. outcomes'[r] \in {<< >>, <<"ok">>, <<"error">>}
        /\ (outcomes'[r] = <<"ok">> => outcomes[r] = <<"ok">> \/ returning[r] = "ok")
        /\ (pc[r] \in {"sent", "wait"} => outcomes'[r] # << >>)
    <3>1. CASE outcomes'[r] = outcomes[r] /\ r \notin acks[conn[r]]
      BY <3>1 DEF Inv, RequestInv, Told
    <3>2. CASE returning[r] = "ok" /\ outcomes'[r] = <<"ok">>
      BY <3>2, OutcomesDiffer
    <3>3. CASE returning[r] = "error" /\ outcomes'[r] = <<"error">>
      BY <3>3, OutcomesDiffer
    <3> QED
      BY <2>1, <2>3, <3>1, <3>2, <3>3
  <2> QED
    BY <2>1, <2>2, <2>4, <2>5 DEF Inv, RequestInv, Given,
       Entered, Untouched, Told, Truthful, Early, Holding, Late
<1>2. CASE Fire(r)
  BY <1>2 DEF Fire, Inv, TypeOK, RequestInv, linkVars, serverVars,
     Given, Entered, Untouched, Told, Truthful, Early, Holding, Late
<1>3. CASE TimeOut(r)
  <2>1. /\ conn[r] \in Connections /\ pc[r] \in {"wait", "replied"} /\ timer'[r] = "none"
        /\ UNCHANGED <<pc, conn, response, serverVars>>
    BY <1>3 DEF TimeOut, Inv, TypeOK, RequestInv, Given, Untouched
  <2>2. (\A c \in Connections : r \notin acks'[c]) /\ UNCHANGED link
    BY <1>3, <2>1, Removed DEF TimeOut
  <2>3. \/ r \in acks[conn[r]] /\ outcomes'[r] = <<"error">>
        \/ r \notin acks[conn[r]] /\ outcomes'[r] = outcomes[r]
    BY <1>3, ToldOnce DEF TimeOut
  <2>4. outcomes'[r] \in {<< >>, <<"ok">>, <<"error">>}
        /\ (outcomes'[r] = <<"ok">> => outcomes[r] = <<"ok">>)
        /\ (pc[r] \in {"sent", "wait"} => outcomes'[r] # << >>)
    <3>1. CASE outcomes'[r] = outcomes[r] /\ r \notin acks[conn[r]]
      BY <3>1 DEF Inv, RequestInv, Told
    <3>2. CASE outcomes'[r] = <<"error">>
      BY <3>2, OutcomesDiffer
    <3> QED
      BY <2>3, <3>1, <3>2
  <2> QED
    BY <2>1, <2>2, <2>4 DEF Inv, RequestInv, serverVars, Given,
       Entered, Untouched, Told, Truthful, Early, Holding, Late
<1>4. CASE Serve(r)
  <2>1. /\ r \in wire /\ r \notin wire'
        /\ UNCHANGED <<queueVars, linkVars, requestVars>>
        /\ r \in stored => r \in stored'
        /\ returning'[r] = "ok" => r \in stored'
    BY <1>4 DEF Serve, Inv, TypeOK
  <2>2. pc[r] \in Late /\ response[r] # 400 /\ conn[r] \in Connections
    BY <2>1 DEF Inv, RequestInv, Given, Untouched, Truthful
  <2> QED
    BY <2>1, <2>2 DEF Inv, RequestInv, linkVars, requestVars, Given,
       Entered, Untouched, Told, Truthful, Early, Holding, Late
<1> QED BY <1>1, <1>2, <1>3, <1>4

(* A loss answers the requests whose timer it can stop.                    *)
LEMMA LoseStep ==
  ASSUME Inv, NEW c \in Connections, Lose(c), NEW r \in Requests
  PROVE  RequestInv(r)'
<1>1. /\ UNCHANGED <<pc, conn, response, serverVars>>
      /\ link'[c] = "closed" /\ \A d \in Connections \ {c} : link'[d] = link[d]
  BY DEF Lose, Inv, TypeOK
<1>2. acks'[c] = acks[c] \ Collected(c) /\ \A d \in Connections \ {c} : acks'[d] = acks[d]
  BY DEF Lose, Inv, TypeOK
<1>3. CASE r \in Collected(c)
  <2>1. r \in acks[c] /\ c = conn[r] /\ timer[r] = "running" /\ outcomes[r] = << >>
    BY <1>3 DEF Collected, Inv, RequestInv, Entered, Told
  <2>2. \A d \in Connections : r \notin acks'[d]
    BY <1>2, <1>3, <2>1 DEF Inv, RequestInv, Entered
  <2>3. Append(<< >>, "error") = <<"error">>
    OBVIOUS
  <2>4. timer'[r] = "none" /\ outcomes'[r] = Append(outcomes[r], "error")
    BY <1>3 DEF Lose
  <2>5. outcomes'[r] = <<"error">>
    BY <2>1, <2>3, <2>4
  <2> QED
    BY <1>1, <2>1, <2>2, <2>4, <2>5, OutcomesDiffer DEF Inv, RequestInv, serverVars, Given,
       Entered, Untouched, Told, Truthful, Early, Holding, Late
<1>4. CASE r \notin Collected(c)
  <2>1. timer'[r] = timer[r] /\ outcomes'[r] = outcomes[r]
    BY <1>4 DEF Lose
  <2>2. Apart(r)
    BY <1>1, <1>2, <1>4, <2>1 DEF Apart, serverVars
  <2> QED
    BY <2>2, ApartKept DEF Inv
<1> QED
  BY <1>3, <1>4

(* Replacing a connection concerns no request: those that may still look   *)
(* at the connection object keep it from being reused.                     *)
LEMMA ReplaceStep ==
  ASSUME Inv, NEW c \in Connections, Reconnect(c) \/ Store(c), NEW r \in Requests
  PROVE  RequestInv(r)'
<1>1. UNCHANGED <<requestVars, serverVars>>
  BY DEF Reconnect, Store
<1>2. CASE UNCHANGED linkVars
  <2>1. Apart(r)
    BY <1>1, <1>2 DEF Apart, requestVars, serverVars, linkVars
  <2> QED
    BY <2>1, ApartKept DEF Inv
<1>3. ASSUME NEW d \in Connections, Free(d), link' = [link EXCEPT ![d] = "open"],
             acks' = [acks EXCEPT ![d] = {}]
      PROVE  RequestInv(r)'
  <2>1. r \notin acks[d]
    BY <1>3 DEF Free, Inv, RequestInv, Entered
  <2>2. Apart(r)
    BY <1>1, <1>3, <2>1 DEF Apart, Inv, TypeOK, requestVars, serverVars
  <2> QED
    BY <2>2, ApartKept DEF Inv
<1> QED
  BY <1>2, <1>3 DEF Reconnect, Store

LEMMA InvInit == Init => Inv
<1> SUFFICES ASSUME Init PROVE Inv
  OBVIOUS
<1>1. TypeOK
  BY QueueAssumption DEF Init, TypeOK
<1>2. Attempts
  BY QueueAssumption DEF Init, Attempts
<1>3. ASSUME NEW r \in Requests PROVE RequestInv(r)
  BY <1>3 DEF Init, RequestInv, Given, Entered, Untouched, Told, Truthful, Early, Holding, Late
<1> QED
  BY <1>1, <1>2, <1>3 DEF Inv

LEMMA InvNext == Inv /\ [Next]_vars => Inv'
<1> SUFFICES ASSUME Inv, [Next]_vars PROVE Inv'
  OBVIOUS
<1>1. ASSUME NEW r \in Requests PROVE RequestInv(r)'
  <2>1. CASE UNCHANGED vars
    <3>1. Apart(r)
      BY <2>1 DEF Apart, vars, linkVars, requestVars, serverVars
    <3> QED
      BY <3>1, ApartKept DEF Inv
  <2>2. ASSUME NEW s \in Requests,
               \/ Arrive(s) \/ Handler(s) \/ Leave(s)
               \/ ProcessAck(s) \/ Fire(s) \/ TimeOut(s) \/ Serve(s)
        PROVE  RequestInv(r)'
    <3>1. CASE s = r
      BY <2>2, <3>1, OwnStep, PublishStep, AnswerStep DEF Handler
    <3>2. CASE s # r
      BY <2>2, <3>2, StepsApart, ApartKept DEF Inv
    <3> QED
      BY <3>1, <3>2
  <2>3. ASSUME NEW c \in Connections, Lose(c) \/ Reconnect(c) \/ Store(c)
        PROVE  RequestInv(r)'
    BY <2>3, LoseStep, ReplaceStep
  <2> QED
    BY <2>1, <2>2, <2>3 DEF Next
<1> QED
  BY <1>1, TypeKept, AttemptsKept DEF Inv

(* Every variable of the queue keeps its type; in particular the slots of  *)
(* a connection never exceed their number nor fall below zero (stan.go:    *)
(* pubAckChan), and reconnect makes no more attempts than it may.          *)
THEOREM TypeCorrect == Spec => []TypeOK
<1>1. Inv => TypeOK
  BY DEF Inv
<1> QED
  BY <1>1, InvInit, InvNext, PTL DEF Spec

(* No publication is answered twice, whoever ends its wait: its publisher, *)
(* the acknowledgement, the timer or the loss of the connection.           *)
THEOREM NeverAnsweredTwice == Spec => []AnsweredOnce
<1>1. Inv => AnsweredOnce
  <2>1. Len(<< >>) <= 1 /\ Len(<<"ok">>) <= 1 /\ Len(<<"error">>) <= 1
    OBVIOUS
  <2> QED
    BY <2>1 DEF Inv, RequestInv, Told, AnsweredOnce
<1> QED
  BY <1>1, InvInit, InvNext, PTL DEF Spec

(* Nobody waits for an answer that nobody will give: it is there, or a     *)
(* timer will bring it, however connections come and go.                   *)
THEOREM NobodyForgotten == Spec => []SomebodyAnswers
<1>1. Inv => SomebodyAnswers
  BY DEF Inv, RequestInv, Told, SomebodyAnswers
<1> QED
  BY <1>1, InvInit, InvNext, PTL DEF Spec

-----------------------------------------------------------------------------
(* The promise                                                             *)

promised == <<[r \in Requests |-> Answer(r)], stored>>

LEMMA SameAnswer ==
  ASSUME NEW r \in Requests, pc'[r] = pc[r], response'[r] = response[r]
  PROVE  Answer(r)' = Answer(r)
  BY DEF Answer

(* When a request alone changes, the answers change at one place.          *)
LEMMA OneAnswer ==
  ASSUME Inv, NEW r \in Requests, \A s \in Requests \ {r} : Apart(s)
  PROVE  [s \in Requests |-> Answer(s)]' = [[s \in Requests |-> Answer(s)] EXCEPT ![r] = Answer(r)']
<1>1. \A s \in Requests \ {r} : Answer(s)' = Answer(s)
  BY SameAnswer DEF Apart
<1> QED
  BY <1>1

(* A request that is open stays so or is answered, with 202 only if it is  *)
(* stored and with 400 only if it is not.                                  *)
LEMMA Responds ==
  ASSUME Inv, Inv', NEW r \in Requests, \A s \in Requests \ {r} : Apart(s),
         pc[r] \notin {"idle", "replied"}, pc'[r] # "idle", UNCHANGED stored
  PROVE  [Promise!Next]_promised
<1>1. Answer(r) = "open"
  BY DEF Answer
<1>2. CASE pc'[r] # "replied"
  <2>1. Answer(r)' = "open"
    BY <1>2 DEF Answer
  <2>2. UNCHANGED promised
    BY <1>1, <2>1, OneAnswer DEF promised
  <2> QED
    BY <2>2
<1>3. CASE pc'[r] = "replied"
  <2>1. /\ response'[r] \in {202, 400, 500}
        /\ response'[r] = 202 => r \in stored
        /\ response'[r] = 400 => r \notin stored
    BY <1>3 DEF Inv, TypeOK, RequestInv, Truthful
  <2>2. /\ Answer(r)' \in {"accepted", "rejected", "failed"}
        /\ Answer(r)' = "accepted" => r \in stored
        /\ Answer(r)' = "rejected" => r \notin stored
    BY <1>3, <2>1 DEF Answer
  <2>3. Promise!Respond(r, Answer(r)')
    BY <1>1, <2>2, OneAnswer DEF Promise!Respond
  <2> QED
    BY <2>2, <2>3 DEF Promise!Next, Promise!Answers
<1> QED
  BY <1>2, <1>3

LEMMA PromisedStep == Inv /\ Inv' /\ [Next]_vars => [Promise!Next]_promised
<1> SUFFICES ASSUME Inv, Inv', [Next]_vars PROVE [Promise!Next]_promised
  OBVIOUS
<1>1. ASSUME UNCHANGED <<pc, response, stored>> PROVE [Promise!Next]_promised
  <2>1. UNCHANGED promised
    BY <1>1, SameAnswer DEF promised
  <2> QED
    BY <2>1
<1>2. ASSUME NEW r \in Requests, Arrive(r) PROVE [Promise!Next]_promised
  <2>1. \A s \in Requests \ {r} : Apart(s)
    BY <1>2, StepsApart
  <2>2. Answer(r) = "none" /\ Answer(r)' = "open" /\ UNCHANGED stored
    BY <1>2 DEF Arrive, Goto, Answer, Inv, TypeOK, serverVars
  <2>3. Promise!Ask(r)
    BY <2>1, <2>2, OneAnswer DEF Promise!Ask
  <2> QED
    BY <2>3 DEF Promise!Next
<1>3. ASSUME NEW r \in Requests, Handler(r) PROVE [Promise!Next]_promised
  <2>1. \A s \in Requests \ {r} : Apart(s)
    BY <1>3, StepsApart
  <2>2. pc[r] \notin {"idle", "replied"} /\ UNCHANGED stored
    BY <1>3 DEF Handler, ReadRequest, TakeConnection, Register, Acquire, Block, GiveUp, Send, Arm,
       Receive, Goto, serverVars
  <2>3. pc'[r] # "idle"
    BY <1>3 DEF Handler, ReadRequest, TakeConnection, Register, Acquire, Block, GiveUp, Send, Arm,
       Receive, Goto, Reply, Inv, TypeOK
  <2> QED
    BY <2>1, <2>2, <2>3, Responds
<1>4. ASSUME NEW r \in Requests, Leave(r) PROVE [Promise!Next]_promised
  <2>1. \A s \in Requests \ {r} : Apart(s)
    BY <1>4, StepsApart
  <2>2. pc[r] = "replied" /\ response[r] \in {202, 400, 500}
    BY <1>4 DEF Leave, Goto, Inv, TypeOK, RequestInv, Truthful
  <2>3. Answer(r) \in {"accepted", "rejected", "failed"}
    BY <2>2 DEF Answer
  <2>4. Answer(r)' = "none" /\ stored' = stored \ {r}
    BY <1>4 DEF Leave, Goto, Answer, Inv, TypeOK
  <2>5. Promise!Forget(r)
    BY <2>1, <2>3, <2>4, OneAnswer DEF Promise!Forget, Promise!Answers
  <2> QED
    BY <2>5 DEF Promise!Next
<1>5. ASSUME NEW r \in Requests, Serve(r) PROVE [Promise!Next]_promised
  <2>1. UNCHANGED <<pc, response>> /\ r \in wire
    BY <1>5 DEF Serve, requestVars
  <2>2. CASE UNCHANGED stored
    BY <1>1, <2>1, <2>2
  <2>3. CASE stored' = stored \cup {r}
    <3>1. r \notin stored /\ pc[r] \in Late /\ response[r] \in {0, 202, 400, 500}
          /\ response[r] \notin {202, 400} /\ (pc[r] = "replied" => response[r] # 0)
      BY <2>1 DEF Inv, TypeOK, RequestInv, Untouched, Truthful
    <3>2. Answer(r) \in {"open", "failed"}
      BY <3>1 DEF Answer, Late
    <3>3. UNCHANGED [s \in Requests |-> Answer(s)]
      BY <2>1, SameAnswer
    <3>4. Promise!Store(r)
      BY <2>3, <3>1, <3>2, <3>3 DEF Promise!Store
    <3> QED
      BY <3>4 DEF Promise!Next
  <2> QED
    BY <1>5, <2>2, <2>3 DEF Serve
<1>6. ASSUME NEW r \in Requests, ProcessAck(r) \/ Fire(r) \/ TimeOut(r)
      PROVE  UNCHANGED <<pc, response, stored>>
  BY <1>6 DEF ProcessAck, Fire, TimeOut, serverVars
<1>7. ASSUME NEW c \in Connections, Lose(c) \/ Reconnect(c) \/ Store(c)
      PROVE  UNCHANGED <<pc, response, stored>>
  BY <1>7 DEF Lose, Reconnect, Store, requestVars, serverVars
<1>8. CASE UNCHANGED vars
  BY <1>1, <1>8 DEF vars, requestVars, serverVars
<1> QED
  BY <1>1, <1>2, <1>3, <1>4, <1>5, <1>6, <1>7, <1>8 DEF Next

(* Asynchronous invocation keeps what it promises: 202 only for what is in *)
(* the queue, 400 only for what never gets there, and every request gets   *)
(* there at most once and is answered at most once.                        *)
THEOREM QueueKeepsPromise == Spec => KeepsPromise
<1>1. Init => Promise!Init
  BY DEF Init, Promise!Init, Answer
<1>2. Spec => []Inv
  BY InvInit, InvNext, PTL DEF Spec
<1>3. Inv /\ Inv' /\ [Next]_vars => [Promise!Next]_<<[r \in Requests |-> Answer(r)], stored>>
  BY PromisedStep DEF promised
<1> QED
  BY <1>1, <1>2, <1>3, PTL DEF Spec, KeepsPromise, Promise!Spec

-----------------------------------------------------------------------------
(* Replacing lost connections                                              *)

(* With prompt stores the connection that requests are given is the only   *)
(* open one, but for the one that is about to take its place.              *)
Attended == PromptStores =>
  /\ \A c \in Connections : repair[c] # "none" => c = nc
  /\ \A c \in Connections : link[c] = "open" => c = nc \/ made[nc] = c
  /\ repair[nc] = "store" => link[made[nc]] = "open"
  /\ link[nc] = "closed" => repair[nc] # "none" \/ tries[nc] = MaxReconnect

LEMMA AttendedKept == Inv /\ Attended /\ [Next]_vars => Attended'
<1> SUFFICES ASSUME Inv, Attended, [Next]_vars, PromptStores PROVE Attended'
  BY DEF Attended
<1>1. /\ nc \in Connections
      /\ \A c \in Connections : link[c] = "open" => repair[c] = "none"
      /\ \A c \in Connections : repair[c] = "store" <=> made[c] \in Connections
  BY DEF Inv, TypeOK, Attempts
<1>2. ASSUME UNCHANGED <<queueVars, link>> PROVE Attended'
  BY <1>2 DEF Attended, queueVars
<1>3. ASSUME NEW r \in Requests,
             \/ Arrive(r) \/ Handler(r) \/ Leave(r)
             \/ ProcessAck(r) \/ Fire(r) \/ TimeOut(r) \/ Serve(r)
      PROVE  UNCHANGED <<queueVars, link>>
  BY <1>3 DEF Arrive, Handler, ReadRequest, TakeConnection, Register, Acquire, Block, GiveUp,
     Send, Arm, Receive, Leave, ProcessAck, Fire, TimeOut, Serve, Remove, linkVars
<1>4. ASSUME NEW c \in Connections, Lose(c) PROVE Attended'
  <2>1. c = nc
    BY <1>1, <1>4 DEF Lose, Attended
  <2>2. /\ UNCHANGED <<nc, made>> /\ repair'[c] = "try" /\ link'[c] = "closed"
        /\ \A d \in Connections \ {c} : repair'[d] = repair[d] /\ link'[d] = link[d]
    BY <1>4 DEF Lose, Inv, TypeOK
  <2> QED
    BY <1>1, <2>1, <2>2 DEF Attended
<1>5. ASSUME NEW c \in Connections, Reconnect(c) PROVE Attended'
  <2>1. c = nc /\ repair[c] = "try" /\ UNCHANGED nc
    BY <1>5 DEF Reconnect, Attended
  <2>2. CASE /\ tries' = [tries EXCEPT ![c] = @ + 1]
             /\ repair' = [repair EXCEPT ![c] = IF tries'[c] < MaxReconnect THEN "try" ELSE "none"]
             /\ UNCHANGED <<made, linkVars>>
    <3>1. /\ UNCHANGED <<made, link>>
          /\ \A d \in Connections \ {c} : repair'[d] = repair[d]
          /\ repair'[c] \in {"try", "none"}
      BY <2>2 DEF linkVars, Inv, TypeOK
    <3>2. repair'[c] = "none" => ~(tries'[c] < MaxReconnect)
      BY <2>2 DEF Inv, TypeOK
    <3>3. tries'[c] = tries[c] + 1 /\ tries[c] < MaxReconnect /\ tries[c] \in Nat
      BY <2>1, <2>2, QueueAssumption DEF Inv, TypeOK, Attempts
    <3>4. repair'[c] = "none" => tries'[c] = MaxReconnect
      BY <3>2, <3>3, QueueAssumption
    <3> QED
      BY <2>1, <3>1, <3>4 DEF Attended
  <2>3. ASSUME NEW d \in Connections, Free(d),
               link' = [link EXCEPT ![d] = "open"], made' = [made EXCEPT ![c] = d],
               repair' = [repair EXCEPT ![c] = "store"], UNCHANGED tries
        PROVE  Attended'
    <3>1. /\ d # c /\ link'[d] = "open" /\ made'[c] = d /\ repair'[c] = "store"
          /\ \A e \in Connections \ {d} : link'[e] = link[e]
          /\ \A e \in Connections \ {c} : repair'[e] = repair[e]
      BY <2>1, <2>3 DEF Free, Inv, TypeOK
    <3>2. made[c] \notin Connections
      BY <1>1, <2>1
    <3> QED
      BY <1>1, <2>1, <3>1, <3>2 DEF Attended
  <2> QED
    BY <1>5, <2>2, <2>3 DEF Reconnect
<1>6. ASSUME NEW c \in Connections, Store(c) PROVE Attended'
  <2>1. c = nc /\ repair[c] = "store" /\ nc' = made[c] /\ UNCHANGED <<tries, link>>
    BY <1>6 DEF Store, Attended, linkVars
  <2>2. nc' \in Connections /\ link[nc'] = "open"
    BY <1>1, <2>1 DEF Attended
  <2>3. \A d \in Connections : repair'[d] = "none"
    BY <1>6, <2>1 DEF Store, Attended, Inv, TypeOK
  <2>4. \A d \in Connections : link[d] = "open" => d = nc'
    BY <1>1, <2>1 DEF Attended
  <2> QED
    BY <2>1, <2>2, <2>3, <2>4 DEF Attended
<1>7. CASE UNCHANGED vars
  BY <1>2, <1>7 DEF vars, linkVars
<1>8. CASE Next
  BY <1>2, <1>3, <1>4, <1>5, <1>6, <1>8 DEF Next
<1> QED
  BY <1>7, <1>8

(* The connection that requests are given is replaced once it is lost, as  *)
(* long as attempts are left, and none that works is ever replaced.        *)
THEOREM LossIsAttended == Spec => []LossAttended
<1>1. Init => Attended
  BY QueueAssumption DEF Init, Attended
<1>2. Attended => LossAttended
  BY DEF Attended, LossAttended
<1> QED
  BY <1>1, <1>2, InvInit, InvNext, AttendedKept, PTL DEF Spec

-----------------------------------------------------------------------------
(* Slots                                                                   *)

Occupies(r, c) == r \in acks[c] /\ pc[r] \notin {"acquire", "blocked"}
Occupants(c) == {r \in Requests : Occupies(r, c)}

(* Each slot in use of an open connection has its occupant.                *)
Occupied == \A c \in Connections :
  /\ IsFiniteSet(Occupants(c))
  /\ link[c] = "open" => slots[c] = Cardinality(Occupants(c))

LEMMA OccupiedFrame ==
  ASSUME Occupied, UNCHANGED <<link, slots>>,
         \A c \in Connections, r \in Requests : Occupies(r, c)' <=> Occupies(r, c)
  PROVE  Occupied'
<1>1. \A c \in Connections : Occupants(c)' = Occupants(c)
  BY DEF Occupants
<1> QED
  BY <1>1 DEF Occupied

(* A step of r changes at most its own place.                              *)
LEMMA OthersStay ==
  ASSUME NEW r \in Requests, \A s \in Requests \ {r} : Apart(s)
  PROVE  \A c \in Connections, s \in Requests \ {r} : Occupies(s, c)' <=> Occupies(s, c)
  BY DEF Apart, Occupies

LEMMA OccupantEnters ==
  ASSUME Inv, Occupied, NEW r \in Requests, Acquire(r)
  PROVE  Occupied'
<1>1. \A c \in Connections, s \in Requests \ {r} : Occupies(s, c)' <=> Occupies(s, c)
  BY StepsApart, OthersStay DEF Handler
<1>2. /\ conn[r] \in Connections /\ r \in acks[conn[r]] /\ UNCHANGED <<link, acks>>
      /\ pc[r] \in {"acquire", "blocked"} /\ pc'[r] = "send"
      /\ slots' = [slots EXCEPT ![conn[r]] = @ + 1]
  BY DEF Acquire, Inv, TypeOK, RequestInv, Given, Entered, Holding
<1>3. ASSUME NEW c \in Connections, c # conn[r]
      PROVE  Occupants(c)' = Occupants(c) /\ slots'[c] = slots[c]
  <2>1. r \notin acks[c] /\ slots'[c] = slots[c]
    BY <1>2, <1>3 DEF Inv, TypeOK, RequestInv, Entered
  <2> QED
    BY <1>1, <1>2, <2>1 DEF Occupants, Occupies
<1>4. ASSUME NEW c \in Connections, c = conn[r]
      PROVE  /\ IsFiniteSet(Occupants(c)')
             /\ link[c] = "open" => slots'[c] = Cardinality(Occupants(c)')
  <2>1. Occupies(r, c)' /\ ~Occupies(r, c)
    BY <1>2, <1>4 DEF Occupies
  <2>2. Occupants(c)' = Occupants(c) \cup {r} /\ r \notin Occupants(c)
    BY <1>1, <2>1 DEF Occupants
  <2>3. slots'[c] = slots[c] + 1
    BY <1>2, <1>4 DEF Inv, TypeOK
  <2>4. /\ IsFiniteSet(Occupants(c) \cup {r})
        /\ Cardinality(Occupants(c) \cup {r}) = Cardinality(Occupants(c)) + 1
    BY <2>2, FS_AddElement DEF Occupied
  <2> QED
    BY <2>2, <2>3, <2>4 DEF Occupied
<1> QED
  BY <1>2, <1>3, <1>4 DEF Occupied

(* Whoever takes the request out of the map frees its slot.                *)
LEMMA OccupantRemoved ==
  ASSUME Inv, Occupied, NEW r \in Requests, \A s \in Requests \ {r} : Apart(s),
         conn[r] \in Connections, pc[r] \notin {"acquire", "blocked"}, Remove(r)
  PROVE  Occupied'
<1>1. \A c \in Connections, s \in Requests \ {r} : Occupies(s, c)' <=> Occupies(s, c)
  BY OthersStay
<1>2. (\A c \in Connections : r \notin acks'[c]) /\ UNCHANGED link
  BY Removed
<1>3. ASSUME NEW c \in Connections PROVE Occupants(c)' = Occupants(c) \ {r}
  BY <1>1, <1>2 DEF Occupants, Occupies
<1>4. ASSUME NEW c \in Connections, r \notin acks[c]
      PROVE  Occupants(c)' = Occupants(c) /\ slots'[c] = slots[c]
  BY <1>3, <1>4 DEF Occupants, Occupies, Remove, Inv, TypeOK
<1>5. ASSUME NEW c \in Connections, r \in acks[c]
      PROVE  /\ IsFiniteSet(Occupants(c)')
             /\ link[c] = "open" => slots'[c] = Cardinality(Occupants(c)')
  <2>1. c = conn[r] /\ r \in Occupants(c)
    BY <1>5 DEF Occupants, Occupies, Inv, RequestInv, Entered
  <2>2. /\ IsFiniteSet(Occupants(c) \ {r})
        /\ Cardinality(Occupants(c) \ {r}) = Cardinality(Occupants(c)) - 1
    BY <2>1, FS_RemoveElement DEF Occupied
  <2>3. Cardinality(Occupants(c)) \in Nat /\ Cardinality(Occupants(c) \ {r}) \in Nat
    BY <2>2, FS_CardinalityType DEF Occupied
  <2>4. slots'[c] = IF slots[c] > 0 THEN slots[c] - 1 ELSE slots[c]
    BY <1>5, <2>1 DEF Remove, Inv, TypeOK
  <2>5. link[c] = "open" => slots[c] = Cardinality(Occupants(c))
    BY DEF Occupied
  <2>6. link[c] = "open" => slots'[c] = Cardinality(Occupants(c) \ {r})
    BY <2>2, <2>3, <2>4, <2>5
  <2> QED
    BY <1>3, <2>2, <2>6
<1> QED
  BY <1>2, <1>4, <1>5 DEF Occupied

(* Nobody else takes or frees one, while the connection is open.           *)
LEMMA OccupantLeaves ==
  ASSUME Inv, Occupied, NEW r \in Requests, GiveUp(r) \/ Leave(r)
  PROVE  Occupied'
<1>1. \A c \in Connections, s \in Requests \ {r} : Occupies(s, c)' <=> Occupies(s, c)
  BY StepsApart, OthersStay DEF Handler
<1>2. UNCHANGED <<link, slots>>
  BY DEF GiveUp, Leave, linkVars
<1>3. ASSUME NEW c \in Connections, r \in acks[c] PROVE link[c] = "closed"
  BY <1>3 DEF GiveUp, Leave, Goto, Inv, RequestInv, Entered
<1>4. ASSUME NEW c \in Connections, r \notin acks[c] PROVE r \notin acks'[c]
  BY <1>4 DEF GiveUp, Leave, linkVars, Inv, TypeOK
<1>5. ASSUME NEW c \in Connections, r \notin acks[c] PROVE Occupants(c)' = Occupants(c)
  BY <1>1, <1>4, <1>5 DEF Occupants, Occupies
<1>6. ASSUME NEW c \in Connections PROVE IsFiniteSet(Occupants(c)')
  <2>1. Occupants(c)' \subseteq Occupants(c) \cup {r}
    BY <1>1 DEF Occupants
  <2>2. IsFiniteSet(Occupants(c) \cup {r})
    BY FS_AddElement DEF Occupied
  <2> QED
    BY <2>1, <2>2, FS_Subset
<1> QED
  BY <1>2, <1>3, <1>5, <1>6 DEF Occupied

LEMMA OccupiedKept == Inv /\ Occupied /\ [Next]_vars => Occupied'
<1> SUFFICES ASSUME Inv, Occupied, [Next]_vars PROVE Occupied'
  OBVIOUS
<1>1. ASSUME UNCHANGED <<pc, linkVars>> PROVE Occupied'
  BY <1>1, OccupiedFrame DEF Occupies, linkVars
<1>2. ASSUME NEW r \in Requests,
             \/ Arrive(r) \/ ReadRequest(r) \/ TakeConnection(r) \/ Register(r) \/ Block(r)
             \/ Send(r) \/ Receive(r)
      PROVE  Occupied'
  <2>1. \A c \in Connections, s \in Requests \ {r} : Occupies(s, c)' <=> Occupies(s, c)
    BY <1>2, StepsApart, OthersStay DEF Handler
  <2>2. UNCHANGED <<link, slots>>
    BY <1>2 DEF Arrive, ReadRequest, TakeConnection, Register, Block, Send, Receive, linkVars
  <2>3. ASSUME NEW c \in Connections PROVE Occupies(r, c)' <=> Occupies(r, c)
    <3>1. CASE Register(r)
      <4>1. r \notin acks[c]
        BY <3>1 DEF Register, Inv, RequestInv, Entered, Early
      <4>2. r \in acks'[c] => pc'[r] = "acquire"
        BY <3>1, <4>1 DEF Register, Goto, Inv, TypeOK
      <4> QED
        BY <4>1, <4>2 DEF Occupies
    <3>2. CASE ~Register(r)
      <4>1. UNCHANGED acks
        BY <1>2, <3>2 DEF Arrive, ReadRequest, TakeConnection, Block, Send, Receive, linkVars
      <4>2. \/ pc[r] \in Early
            \/ pc[r] \in {"acquire", "blocked"} /\ pc'[r] \in {"acquire", "blocked"}
            \/ pc[r] \notin {"acquire", "blocked"} /\ pc'[r] \notin {"acquire", "blocked"}
        BY <1>2, <3>2 DEF Arrive, ReadRequest, TakeConnection, Block, Send, Receive, Goto, Reply,
           Early, Inv, TypeOK
      <4> QED
        BY <4>1, <4>2 DEF Occupies, Inv, RequestInv, Entered
    <3> QED
      BY <3>1, <3>2
  <2> QED
    BY <2>1, <2>2, <2>3, OccupiedFrame
<1>3. ASSUME NEW r \in Requests, Arm(r) PROVE Occupied'
  <2>1. \A s \in Requests \ {r} : Apart(s)
    BY <1>3, StepsApart DEF Handler
  <2>2. conn[r] \in Connections /\ pc[r] \in {"sent", "unsent"}
    BY <1>3 DEF Arm, Goto, Inv, RequestInv, Given
  <2>3. CASE Remove(r)
    BY <2>1, <2>2, <2>3, OccupantRemoved
  <2>4. CASE UNCHANGED linkVars /\ pc'[r] = "wait"
    <3>1. \A c \in Connections, s \in Requests : Occupies(s, c)' <=> Occupies(s, c)
      BY <2>1, <2>2, <2>4, OthersStay DEF Occupies, linkVars
    <3> QED
      BY <2>4, <3>1, OccupiedFrame DEF linkVars
  <2> QED
    BY <1>3, <2>3, <2>4 DEF Arm, Goto, Inv, TypeOK
<1>4. ASSUME NEW r \in Requests, ProcessAck(r) \/ TimeOut(r) PROVE Occupied'
  <2>1. \A s \in Requests \ {r} : Apart(s)
    BY <1>4, StepsApart
  <2>2. conn[r] \in Connections /\ pc[r] \notin {"acquire", "blocked"} /\ Remove(r)
    BY <1>4 DEF ProcessAck, TimeOut, Inv, RequestInv, Given, Untouched, Late
  <2> QED
    BY <2>1, <2>2, OccupantRemoved
<1>5. ASSUME NEW r \in Requests, Fire(r) \/ Serve(r) PROVE UNCHANGED <<pc, linkVars>>
  BY <1>5 DEF Fire, Serve, requestVars
<1>6. ASSUME NEW c \in Connections, Lose(c) PROVE Occupied'
  <2>1. /\ UNCHANGED <<pc, slots>> /\ link'[c] = "closed" /\ acks'[c] \subseteq acks[c]
        /\ \A d \in Connections \ {c} : acks'[d] = acks[d] /\ link'[d] = link[d]
    BY <1>6 DEF Lose, Inv, TypeOK
  <2>2. Occupants(c)' \subseteq Occupants(c)
    BY <2>1 DEF Occupants, Occupies
  <2>3. IsFiniteSet(Occupants(c)')
    BY <2>2, FS_Subset DEF Occupied
  <2>4. \A d \in Connections \ {c} : Occupants(d)' = Occupants(d)
    BY <2>1 DEF Occupants, Occupies
  <2> QED
    BY <2>1, <2>3, <2>4 DEF Occupied
<1>7. ASSUME NEW c \in Connections, Reconnect(c) PROVE Occupied'
  <2>1. UNCHANGED pc
    BY <1>7 DEF Reconnect, requestVars
  <2>2. ASSUME NEW d \in Connections, link' = [link EXCEPT ![d] = "open"],
               acks' = [acks EXCEPT ![d] = {}], slots' = [slots EXCEPT ![d] = 0]
        PROVE  Occupied'
    <3>1. /\ acks'[d] = {} /\ slots'[d] = 0
          /\ \A e \in Connections \ {d} :
               acks'[e] = acks[e] /\ link'[e] = link[e] /\ slots'[e] = slots[e]
      BY <2>2 DEF Inv, TypeOK
    <3>2. Occupants(d)' = {}
      BY <3>1 DEF Occupants, Occupies
    <3>3. \A e \in Connections \ {d} : Occupants(e)' = Occupants(e)
      BY <2>1, <3>1 DEF Occupants, Occupies
    <3> QED
      BY <3>1, <3>2, <3>3, FS_EmptySet DEF Occupied
  <2> QED
    BY <1>1, <1>7, <2>1, <2>2 DEF Reconnect
<1>8. ASSUME NEW c \in Connections, Store(c) PROVE UNCHANGED <<pc, linkVars>>
  BY <1>8 DEF Store, requestVars
<1>9. CASE UNCHANGED vars
  BY <1>1, <1>9 DEF vars, requestVars
<1>10. CASE Next
  BY <1>1, <1>2, <1>3, <1>4, <1>5, <1>6, <1>7, <1>8, <1>10, OccupantEnters, OccupantLeaves
     DEF Next, Handler
<1> QED
  BY <1>9, <1>10

(* No slot of an open connection is lost or freed twice, whoever ends the  *)
(* wait of a publication and however often that is tried.                  *)
THEOREM NoSlotLost == Spec => []SlotsExact
<1>1. Init => Occupied
  <2> SUFFICES ASSUME Init, NEW c \in Connections
               PROVE  IsFiniteSet(Occupants(c)) /\ slots[c] = Cardinality(Occupants(c))
    BY DEF Occupied
  <2>1. Occupants(c) = {} /\ slots[c] = 0
    BY DEF Init, Occupants, Occupies
  <2> QED
    BY <2>1, FS_EmptySet
<1>2. Inv /\ Occupied => SlotsExact
  <2> SUFFICES ASSUME Inv, Occupied, NEW c \in Connections, link[c] = "open"
               PROVE  slots[c] = Cardinality({r \in acks[c] : pc[r] \notin {"acquire", "blocked"}})
    BY DEF SlotsExact
  <2>1. Occupants(c) = {r \in acks[c] : pc[r] \notin {"acquire", "blocked"}}
    BY DEF Occupants, Occupies, Inv, TypeOK
  <2> QED
    BY <2>1 DEF Occupied
<1> QED
  BY <1>1, <1>2, InvInit, InvNext, OccupiedKept, PTL DEF Spec
=============================================================================
