----------------------------- MODULE AsyncQueue -----------------------------
(***************************************************************************)
(* Asynchronous invocation: MakeQueuedProxy (handlers/queue_proxy.go)      *)
(* publishes requests through NATSQueue (nats-queue-worker/handler), which *)
(* replaces its NATS Streaming connection when that is lost, while         *)
(* requests are under way on the old one.                                  *)
(*                                                                         *)
(* A connection (stan.go) keeps the publications that await their          *)
(* acknowledgement in a map and bounds their number by a channel of slots. *)
(* Four goroutines may want to end the wait of a publication: the one that *)
(* publishes, the one that gets the acknowledgement, the timer, and the    *)
(* one that closes the connection.  Each action is the stretch of one of   *)
(* them between two points at which the connection's lock is free.         *)
(***************************************************************************)
EXTENDS Integers, Sequences, FiniteSets

CONSTANTS
  Requests,         \* POST /async-function requests being served
  Connections,      \* connection objects; one that nothing refers to is reused
  NoConnection,
  MaxInflight,      \* slots of a connection (16384)
  MaxReconnect,     \* attempts to replace a lost connection (60 in main.go)
  PromptStores      \* a new connection is stored before it can be lost again

ASSUME QueueAssumption ==
  /\ NoConnection \notin Connections /\ Connections # {}
  /\ MaxInflight \in Nat \ {0}
  /\ MaxReconnect \in Nat \ {0}
  /\ PromptStores \in BOOLEAN

VARIABLES
  nc,               \* q.nc: the connection that requests are given
  link,             \* per connection: "unused", "open", "closed"
  acks,             \* per connection: pubAckMap, the requests awaiting an answer
  slots,            \* per connection: how full pubAckChan is
  repair,           \* per connection: where the reconnect that its loss started is
  tries,            \* per connection: failed attempts of that reconnect
  made,             \* per connection: the connection that it has made
  pc, conn,         \* per request: position, and the connection it was given
  timer,            \* per request: "none", "running", or "fired" but not yet run
  outcomes,         \* per request: what was sent to its channel, in order
  response,         \* per request: the status of the response, 0 until there is one
  wire,             \* requests on their way to the server
  stored,           \* requests that are in the server's channel
  returning         \* per request: the acknowledgement on its way back, or "none"

queueVars == <<nc, repair, tries, made>>
linkVars == <<link, acks, slots>>
requestVars == <<pc, conn, timer, outcomes, response>>
serverVars == <<wire, stored, returning>>
vars == <<queueVars, linkVars, requestVars, serverVars>>

TypeOK ==
  /\ nc \in Connections
  /\ link \in [Connections -> {"unused", "open", "closed"}]
  /\ acks \in [Connections -> SUBSET Requests]
  /\ slots \in [Connections -> 0 .. MaxInflight]
  /\ repair \in [Connections -> {"none", "try", "store"}]
  /\ tries \in [Connections -> 0 .. MaxReconnect]
  /\ made \in [Connections -> Connections \cup {NoConnection}]
  /\ pc \in [Requests -> {"idle", "read", "queue", "register", "acquire", "blocked",
                          "send", "sent", "unsent", "wait", "replied"}]
  /\ conn \in [Requests -> Connections \cup {NoConnection}]
  /\ timer \in [Requests -> {"none", "running", "fired"}]
  /\ outcomes \in [Requests -> Seq({"ok", "error"})]
  /\ response \in [Requests -> {0, 202, 400, 500}]
  /\ wire \subseteq Requests /\ stored \subseteq Requests
  /\ returning \in [Requests -> {"none", "ok", "error"}]

(* CreateNATSQueue has connected; if it cannot, the gateway does not start.*)
Init ==
  /\ nc \in Connections
  /\ link = [c \in Connections |-> IF c = nc THEN "open" ELSE "unused"]
  /\ acks = [c \in Connections |-> {}]
  /\ slots = [c \in Connections |-> 0]
  /\ repair = [c \in Connections |-> "none"]
  /\ tries = [c \in Connections |-> 0]
  /\ made = [c \in Connections |-> NoConnection]
  /\ pc = [r \in Requests |-> "idle"]
  /\ conn = [r \in Requests |-> NoConnection]
  /\ timer = [r \in Requests |-> "none"]
  /\ outcomes = [r \in Requests |-> << >>]
  /\ response = [r \in Requests |-> 0]
  /\ wire = {} /\ stored = {}
  /\ returning = [r \in Requests |-> "none"]

-----------------------------------------------------------------------------
(* A request                                                               *)

Goto(r, from, to) == pc[r] = from /\ pc' = [pc EXCEPT ![r] = to]

Reply(r, status) ==
  /\ pc' = [pc EXCEPT ![r] = "replied"]
  /\ response' = [response EXCEPT ![r] = status]

Arrive(r) ==
  /\ Goto(r, "idle", "read")
  /\ UNCHANGED <<queueVars, linkVars, conn, timer, outcomes, response, serverVars>>

(* MakeQueuedProxy: the body is read and X-Callback-Url parsed, or the     *)
(* request is bad; NATSQueue.Queue refuses a body that is too large.       *)
ReadRequest(r) ==
  /\ pc[r] = "read"
  /\ \/ Goto(r, "read", "queue") /\ UNCHANGED response
     \/ \E status \in {400, 500} : Reply(r, status)
  /\ UNCHANGED <<queueVars, linkVars, conn, timer, outcomes, serverVars>>

(* NATSQueue.Queue copies q.nc under the read lock.                        *)
TakeConnection(r) ==
  /\ Goto(r, "queue", "register")
  /\ conn' = [conn EXCEPT ![r] = nc]
  /\ UNCHANGED <<queueVars, linkVars, timer, outcomes, response, serverVars>>

(* publishAsync: a closed connection is an error, otherwise the request is *)
(* entered in the map.                                                     *)
Register(r) ==
  /\ pc[r] = "register"
  /\ IF link[conn[r]] = "closed"
       THEN Reply(r, 500) /\ UNCHANGED acks
       ELSE /\ Goto(r, "register", "acquire")
            /\ acks' = [acks EXCEPT ![conn[r]] = @ \cup {r}]
            /\ UNCHANGED response
  /\ UNCHANGED <<queueVars, link, slots, conn, timer, outcomes, serverVars>>

(* A slot, at once or after waiting for one.                               *)
Acquire(r) ==
  /\ pc[r] \in {"acquire", "blocked"} /\ slots[conn[r]] < MaxInflight
  /\ slots' = [slots EXCEPT ![conn[r]] = @ + 1]
  /\ pc' = [pc EXCEPT ![r] = "send"]
  /\ UNCHANGED <<queueVars, link, acks, conn, timer, outcomes, response, serverVars>>

Block(r) ==
  /\ Goto(r, "acquire", "blocked") /\ slots[conn[r]] = MaxInflight
  /\ UNCHANGED <<queueVars, linkVars, conn, timer, outcomes, response, serverVars>>

(* The wait for a slot ends because the connection was closed.             *)
GiveUpSlotless(r) ==                                     \* slip: closing wakes nobody
  /\ pc[r] = "blocked" /\ link[conn[r]] = "closed" /\ slots[conn[r]] < MaxInflight
  /\ Reply(r, 500)
  /\ UNCHANGED <<queueVars, linkVars, conn, timer, outcomes, serverVars>>
GiveUp(r) ==
  /\ pc[r] = "blocked" /\ link[conn[r]] = "closed"
  /\ Reply(r, 500)
  /\ UNCHANGED <<queueVars, linkVars, conn, timer, outcomes, serverVars>>

(* PublishRequest, with no lock held: an error at any time, and certainly  *)
(* on a closed connection.                                                 *)
Send(r) ==
  /\ \/ /\ Goto(r, "send", "sent") /\ link[conn[r]] = "open"
        /\ wire' = wire \cup {r}
     \/ Goto(r, "send", "unsent") /\ UNCHANGED wire
  /\ UNCHANGED <<queueVars, linkVars, conn, timer, outcomes, response, stored, returning>>

(* removeAck: whoever takes the request out of the map answers it.         *)
RemoveAnyway(r) ==                                       \* slip: a slot is freed in any case
  /\ acks' = [acks EXCEPT ![conn[r]] = @ \ {r}]
  /\ slots' = [slots EXCEPT ![conn[r]] = @ - 1]
  /\ UNCHANGED link
RemoveKeepingSlot(r) ==                                  \* slip: the slot is not given back
  /\ acks' = [acks EXCEPT ![conn[r]] = @ \ {r}]
  /\ UNCHANGED <<link, slots>>
Remove(r) ==
  /\ acks' = [acks EXCEPT ![conn[r]] = @ \ {r}]
  /\ slots' = [slots EXCEPT ![conn[r]] = IF r \in acks[conn[r]] /\ @ > 0 THEN @ - 1 ELSE @]
  /\ UNCHANGED link
StopTimer(r) == timer' = [timer EXCEPT ![r] = IF @ = "running" THEN "none" ELSE @]
Tell(r, o) ==
  outcomes' = [outcomes EXCEPT ![r] = IF r \in acks[conn[r]] THEN Append(@, o) ELSE @]

(* The timer is set, unless publishing failed or the connection was closed *)
(* meanwhile: then the error is returned, if nobody else has answered.     *)
Arm(r) ==
  /\ \/ /\ Goto(r, "sent", "wait") /\ link[conn[r]] = "open"
        /\ timer' = [timer EXCEPT ![r] = "running"]
        /\ UNCHANGED <<linkVars, response>>
     \/ /\ pc[r] = "unsent" \/ (pc[r] = "sent" /\ link[conn[r]] = "closed")
        /\ Remove(r) /\ StopTimer(r)
        /\ IF r \in acks[conn[r]] THEN Reply(r, 500)
                                  ELSE Goto(r, pc[r], "wait") /\ UNCHANGED response
  /\ UNCHANGED <<queueVars, conn, outcomes, serverVars>>

(* Publish receives from its channel, and MakeQueuedProxy responds.        *)
Receive(r) ==
  /\ pc[r] = "wait" /\ outcomes[r] # << >>
  /\ Reply(r, IF Head(outcomes[r]) = "ok" THEN 202 ELSE 500)
  /\ UNCHANGED <<queueVars, linkVars, conn, timer, outcomes, serverVars>>

(* The request is over and nothing of it is left.                          *)
Leave(r) ==
  /\ Goto(r, "replied", "idle")
  /\ r \notin wire /\ returning[r] = "none" /\ timer[r] = "none"
  /\ conn' = [conn EXCEPT ![r] = NoConnection]
  /\ outcomes' = [outcomes EXCEPT ![r] = << >>]
  /\ response' = [response EXCEPT ![r] = 0]
  /\ stored' = stored \ {r}
  /\ acks' = [c \in Connections |-> acks[c] \ {r}]
  /\ UNCHANGED <<queueVars, link, slots, timer, wire, returning>>

-----------------------------------------------------------------------------
(* Acknowledgements and time-outs                                          *)

(* processAck.                                                             *)
ProcessAckLeaving(r) ==                                  \* slip: the entry stays in the map
  /\ returning[r] # "none"
  /\ returning' = [returning EXCEPT ![r] = "none"]
  /\ StopTimer(r) /\ Tell(r, returning[r])
  /\ UNCHANGED <<queueVars, linkVars, pc, conn, response, wire, stored>>
ProcessAck(r) ==
  /\ returning[r] # "none"
  /\ returning' = [returning EXCEPT ![r] = "none"]
  /\ Remove(r) /\ StopTimer(r) /\ Tell(r, returning[r])
  /\ UNCHANGED <<queueVars, pc, conn, response, wire, stored>>

(* AckTimeout is over; its function runs a little later.                   *)
Fire(r) ==
  /\ timer[r] = "running"
  /\ timer' = [timer EXCEPT ![r] = "fired"]
  /\ UNCHANGED <<queueVars, linkVars, pc, conn, outcomes, response, serverVars>>
TimeOutSilently(r) ==                                    \* slip: no error is reported
  /\ timer[r] = "fired"
  /\ timer' = [timer EXCEPT ![r] = "none"]
  /\ Remove(r) /\ Tell(r, "ok")
  /\ UNCHANGED <<queueVars, pc, conn, response, serverVars>>
TimeOut(r) ==
  /\ timer[r] = "fired"
  /\ timer' = [timer EXCEPT ![r] = "none"]
  /\ Remove(r) /\ Tell(r, "error")
  /\ UNCHANGED <<queueVars, pc, conn, response, serverVars>>

-----------------------------------------------------------------------------
(* Connections                                                             *)

(* closeDueToPing: publications whose timer can be stopped are answered;   *)
(* the others are, or will be, answered by their publisher or their timer. *)
(* The handler of the lost connection starts to reconnect.                 *)
Collected(c) == {r \in acks[c] : timer[r] = "running"}

LoseSilently(c) ==                                       \* slip: nobody is told
  /\ link[c] = "open"
  /\ PromptStores => \A d \in Connections : made[d] # c
  /\ link' = [link EXCEPT ![c] = "closed"]
  /\ acks' = [acks EXCEPT ![c] = @ \ Collected(c)]
  /\ timer' = [r \in Requests |-> IF r \in Collected(c) THEN "none" ELSE timer[r]]
  /\ repair' = [repair EXCEPT ![c] = "try"]
  /\ tries' = [tries EXCEPT ![c] = 0]
  /\ UNCHANGED <<nc, made, slots, pc, conn, outcomes, response, serverVars>>
LoseAgain(c) ==                                          \* slip: closed is not looked at
  /\ link[c] # "unused" /\ repair[c] = "none"
  /\ PromptStores => \A d \in Connections : made[d] # c
  /\ link' = [link EXCEPT ![c] = "closed"]
  /\ acks' = [acks EXCEPT ![c] = @ \ Collected(c)]
  /\ timer' = [r \in Requests |-> IF r \in Collected(c) THEN "none" ELSE timer[r]]
  /\ outcomes' = [r \in Requests |->
                    IF r \in Collected(c) THEN Append(outcomes[r], "error") ELSE outcomes[r]]
  /\ repair' = [repair EXCEPT ![c] = "try"]
  /\ tries' = [tries EXCEPT ![c] = 0]
  /\ UNCHANGED <<nc, made, slots, pc, conn, response, serverVars>>
Lose(c) ==
  /\ link[c] = "open"
  /\ PromptStores => \A d \in Connections : made[d] # c
  /\ link' = [link EXCEPT ![c] = "closed"]
  /\ acks' = [acks EXCEPT ![c] = @ \ Collected(c)]
  /\ timer' = [r \in Requests |-> IF r \in Collected(c) THEN "none" ELSE timer[r]]
  /\ outcomes' = [r \in Requests |->
                    IF r \in Collected(c) THEN Append(outcomes[r], "error") ELSE outcomes[r]]
  /\ repair' = [repair EXCEPT ![c] = "try"]
  /\ tries' = [tries EXCEPT ![c] = 0]
  /\ UNCHANGED <<nc, made, slots, pc, conn, response, serverVars>>

(* Nothing refers to the connection.                                       *)
Free(c) ==
  /\ link[c] # "open" /\ nc # c /\ repair[c] = "none"
  /\ \A r \in Requests : conn[r] # c
  /\ \A d \in Connections : made[d] # c

(* An attempt of reconnect: it succeeds, with a new connection, or fails,  *)
(* and after MaxReconnect failures nobody tries any more.                  *)
Reconnect(c) ==
  /\ repair[c] = "try"
  /\ \/ \E d \in Connections :
          /\ Free(d)
          /\ link' = [link EXCEPT ![d] = "open"]
          /\ acks' = [acks EXCEPT ![d] = {}]
          /\ slots' = [slots EXCEPT ![d] = 0]
          /\ made' = [made EXCEPT ![c] = d]
          /\ repair' = [repair EXCEPT ![c] = "store"]
          /\ UNCHANGED tries
     \/ /\ tries' = [tries EXCEPT ![c] = @ + 1]
        /\ repair' = [repair EXCEPT ![c] = IF tries'[c] < MaxReconnect THEN "try" ELSE "none"]
        /\ UNCHANGED <<made, linkVars>>
  /\ UNCHANGED <<nc, requestVars, serverVars>>

(* connect stores what it has made, under the lock.                        *)
Store(c) ==
  /\ repair[c] = "store"
  /\ nc' = made[c]
  /\ made' = [made EXCEPT ![c] = NoConnection]
  /\ repair' = [repair EXCEPT ![c] = "none"]
  /\ UNCHANGED <<tries, linkVars, requestVars, serverVars>>

-----------------------------------------------------------------------------
(* The server: it takes messages in and acknowledges them, or refuses      *)
(* them; messages and acknowledgements get lost with connections.          *)
Serve(r) ==
  /\ r \in wire
  /\ wire' = wire \ {r}
  /\ \/ /\ stored' = stored \cup {r}
        /\ \E a \in {"none", "ok"} : returning' = [returning EXCEPT ![r] = a]
     \/ /\ \E a \in {"none", "error"} : returning' = [returning EXCEPT ![r] = a]
        /\ UNCHANGED stored
  /\ UNCHANGED <<queueVars, linkVars, requestVars>>

Handler(r) ==
  \/ ReadRequest(r) \/ TakeConnection(r) \/ Register(r) \/ Acquire(r) \/ Block(r)
  \/ GiveUp(r) \/ Send(r) \/ Arm(r) \/ Receive(r)

Next ==
  \/ \E r \in Requests :
       \/ Arrive(r) \/ Handler(r) \/ Leave(r)
       \/ ProcessAck(r) \/ Fire(r) \/ TimeOut(r) \/ Serve(r)
  \/ \E c \in Connections : Lose(c) \/ Reconnect(c) \/ Store(c)

Spec == Init /\ [][Next]_vars

(* Goroutines are scheduled, timers expire, and senders that wait at a Go  *)
(* channel are served in the order in which they came.  The server and the *)
(* clients owe nothing.                                                    *)
Fairness == \A r \in Requests :
  /\ WF_vars(Handler(r)) /\ SF_vars(Acquire(r))
  /\ WF_vars(Fire(r)) /\ WF_vars(TimeOut(r))
FairSpec == Spec /\ Fairness

-----------------------------------------------------------------------------
(* Properties                                                              *)

(* MakeQueuedProxy answers 202 only to what is in the server's channel and *)
(* 400 only to what never gets there, whatever is lost, late or closed;    *)
(* a 500 promises nothing (see Invocations).                               *)
Answer(r) ==
  IF pc[r] = "idle" THEN "none"
  ELSE IF pc[r] # "replied" THEN "open"
  ELSE CASE response[r] = 202 -> "accepted"
         [] response[r] = 400 -> "rejected"
         [] response[r] = 500 -> "failed"
Promise == INSTANCE Invocations WITH
  answer <- [r \in Requests |-> Answer(r)], queued <- stored
KeepsPromise == Promise!Spec

(* A publication is answered at most once, by whoever removes it from      *)
(* pubAckMap: a second answer would block its sender, which may be the one *)
(* that handles all acknowledgements of the connection (stan.go:783).      *)
AnsweredOnce == \A r \in Requests :
  /\ Len(outcomes[r]) <= 1
  /\ outcomes[r] # << >> => r \notin acks[conn[r]]

(* Whoever waits for an answer has got one, or has a timer that will give  *)
(* one: closing a connection leaves nobody behind (stan.go:664).           *)
SomebodyAnswers == \A r \in Requests :
  pc[r] = "wait" =>
    outcomes[r] # << >> \/ (r \in acks[conn[r]] /\ timer[r] # "none")

(* While a connection is open each slot in use is that of a publication    *)
(* that awaits its answer: no slot is lost, whoever ended the wait.        *)
SlotsExact == \A c \in Connections :
  link[c] = "open" =>
    slots[c] = Cardinality({r \in acks[c] : pc[r] \notin {"acquire", "blocked"}})

(* A lost connection that requests are still given is being replaced, or   *)
(* all attempts to do so failed; and nobody replaces any other connection, *)
(* which would put a new one in the place of one that works (nats_queue.go:*)
(* 90).                                                                    *)
LossAttended == PromptStores =>
  /\ link[nc] = "closed" => repair[nc] # "none" \/ tries[nc] = MaxReconnect
  /\ \A c \in Connections : repair[c] # "none" => c = nc

(* Every request is answered, also if it waits for a slot of a connection  *)
(* that is closed meanwhile, or for an acknowledgement that is lost.       *)
Replied == \A r \in Requests : pc[r] = "read" ~> pc[r] = "replied"
=============================================================================
