------------------------------ MODULE LogProxy ------------------------------
(***************************************************************************)
(* GET /system/logs: NewLogHandlerFunc and copyNotify (handlers/logs.go).  *)
(* The handler starts a goroutine that copies the upstream's log to the    *)
(* client, and returns when the copy is over or the client has gone,       *)
(* whichever it is told of first; the copier finds out by itself.          *)
(***************************************************************************)
EXTENDS Integers

CONSTANTS
  LogRequests,       \* requests for logs being served
  MaxLines           \* bound: lines an upstream log holds

LogAssumption == MaxLines \in Nat

VARIABLES
  handler,      \* "idle", "connect", "select", "close" or "over"
  copier,       \* "none", "read", "write", "report" or "gone"
  done,         \* the channel between the two: "empty" or "sent"
  context,      \* "live", or "over": timed out, cancelled, or the client has left
  client,       \* whether the client is still there
  body,         \* the upstream's response: "none", "open" or "closed"
  lines,        \* lines still to come from the upstream
  late          \* lines written after the handler has returned

vars == <<handler, copier, done, context, client, body, lines, late>>

TypeOK ==
  /\ handler \in [LogRequests -> {"idle", "connect", "select", "close", "over"}]
  /\ copier \in [LogRequests -> {"none", "read", "write", "report", "gone"}]
  /\ done \in [LogRequests -> {"empty", "sent"}]
  /\ context \in [LogRequests -> {"live", "over"}]
  /\ client \in [LogRequests -> BOOLEAN]
  /\ body \in [LogRequests -> {"none", "open", "closed"}]
  /\ lines \in [LogRequests -> 0 .. MaxLines]
  /\ late \in [LogRequests -> Nat]

Init ==
  /\ handler = [q \in LogRequests |-> "idle"]
  /\ copier = [q \in LogRequests |-> "none"]
  /\ done = [q \in LogRequests |-> "empty"]
  /\ context = [q \in LogRequests |-> "live"]
  /\ client = [q \in LogRequests |-> TRUE]
  /\ body = [q \in LogRequests |-> "none"]
  /\ lines = [q \in LogRequests |-> 0]
  /\ late = [q \in LogRequests |-> 0]

-----------------------------------------------------------------------------
(* The handler                                                             *)

(* A request comes in; with a time-out of zero or less it has none left.   *)
Arrive(q, timeout) ==
  /\ handler[q] = "idle"
  /\ handler' = [handler EXCEPT ![q] = "connect"]
  /\ context' = [context EXCEPT ![q] = IF timeout > 0 THEN "live" ELSE "over"]
  /\ UNCHANGED <<copier, done, client, body, lines, late>>

(* RoundTrip fails, at the latest when the context is over, or the         *)
(* upstream answers with something else than a log.                        *)
Refuse(q) ==
  /\ handler[q] = "connect"
  /\ handler' = [handler EXCEPT ![q] = "close"]
  /\ UNCHANGED <<copier, done, context, client, body, lines, late>>

(* It answers with a log, and copyNotify starts the copier.                *)
Relay(q) ==
  /\ handler[q] = "connect" /\ context[q] = "live"
  /\ handler' = [handler EXCEPT ![q] = "select"]
  /\ copier' = [copier EXCEPT ![q] = "read"]
  /\ body' = [body EXCEPT ![q] = "open"]
  /\ \E n \in 0 .. MaxLines : lines' = [lines EXCEPT ![q] = n]
  /\ UNCHANGED <<done, context, client, late>>

(* The select: the copy is over, or the client has gone.                   *)
Select(q) ==
  /\ handler[q] = "select"
  /\ \/ /\ done[q] # "empty"
        /\ done' = [done EXCEPT ![q] = "empty"]
     \/ ~client[q] /\ UNCHANGED done
  /\ handler' = [handler EXCEPT ![q] = "close"]
  /\ UNCHANGED <<copier, context, client, body, lines, late>>

(* The deferred calls close the upstream's response and cancel the         *)
(* context.                                                                *)
ReturnLeavingOpen(q) ==                                  \* slip: nothing is deferred
  /\ handler[q] = "close"
  /\ handler' = [handler EXCEPT ![q] = "over"]
  /\ UNCHANGED <<copier, done, context, client, body, lines, late>>
Return(q) ==
  /\ handler[q] = "close"
  /\ body' = [body EXCEPT ![q] = "closed"]
  /\ context' = [context EXCEPT ![q] = "over"]
  /\ handler' = [handler EXCEPT ![q] = "over"]
  /\ UNCHANGED <<copier, done, client, lines, late>>

(* Nothing of the request is left.                                         *)
Leave(q) ==
  /\ handler[q] = "over" /\ copier[q] \in {"none", "gone"}
  /\ handler' = [handler EXCEPT ![q] = "idle"]
  /\ copier' = [copier EXCEPT ![q] = "none"]
  /\ done' = [done EXCEPT ![q] = "empty"]
  /\ context' = [context EXCEPT ![q] = "live"]
  /\ client' = [client EXCEPT ![q] = TRUE]
  /\ body' = [body EXCEPT ![q] = "none"]
  /\ lines' = [lines EXCEPT ![q] = 0]
  /\ late' = [late EXCEPT ![q] = 0]

-----------------------------------------------------------------------------
(* The copier: io.Copy, a read and a write at a time                       *)

Copied(q, p) ==
  /\ copier' = [copier EXCEPT ![q] = p]
  /\ UNCHANGED <<handler, context, client, body>>

(* A line arrives, perhaps one that was buffered.                          *)
ReadBeyond(q) ==                                         \* slip: the end is not noticed
  /\ copier[q] = "read" /\ body[q] = "open"
  /\ lines' = [lines EXCEPT ![q] = @ - 1]
  /\ Copied(q, "write")
  /\ UNCHANGED <<done, late>>
Read(q) ==
  /\ copier[q] = "read" /\ body[q] = "open" /\ lines[q] > 0
  /\ lines' = [lines EXCEPT ![q] = @ - 1]
  /\ Copied(q, "write")
  /\ UNCHANGED <<done, late>>

(* The log ends: the upstream has no more to say or breaks off, the        *)
(* context is over, or the response was closed.                            *)
ReadPatiently(q) ==                                      \* slip: the request has no context
  /\ copier[q] = "read" /\ body[q] = "closed"
  /\ Copied(q, "report")
  /\ UNCHANGED <<done, lines, late>>
ReadFails(q) ==
  /\ copier[q] = "read" /\ (body[q] = "closed" \/ context[q] = "over")
  /\ Copied(q, "report")
  /\ UNCHANGED <<done, lines, late>>
LogEnds(q) ==
  /\ copier[q] = "read"
  /\ Copied(q, "report")
  /\ UNCHANGED <<done, lines, late>>

(* The line is written and flushed, or that fails.                         *)
Write(q) ==
  /\ copier[q] = "write"
  /\ \E p \in {"read", "report"} : Copied(q, p)
  /\ late' = [late EXCEPT ![q] = IF handler[q] = "over" THEN @ + 1 ELSE @]
  /\ UNCHANGED <<done, lines>>

(* The outcome is sent to a channel with room for one.                     *)
ReportUnbuffered(q) ==                                   \* slip: no room
  /\ copier[q] = "report" /\ handler[q] = "select"
  /\ done' = [done EXCEPT ![q] = "sent"]
  /\ Copied(q, "gone")
  /\ UNCHANGED <<lines, late>>
Report(q) ==
  /\ copier[q] = "report" /\ done[q] = "empty"
  /\ done' = [done EXCEPT ![q] = "sent"]
  /\ Copied(q, "gone")
  /\ UNCHANGED <<lines, late>>

-----------------------------------------------------------------------------
(* Outside                                                                 *)

(* The client goes away, which also ends the context of its request.       *)
ClientLeaves(q) ==
  /\ handler[q] \in {"connect", "select"} /\ client[q]
  /\ client' = [client EXCEPT ![q] = FALSE]
  /\ context' = [context EXCEPT ![q] = "over"]
  /\ UNCHANGED <<handler, copier, done, body, lines, late>>

Expire(q) ==
  /\ handler[q] \in {"connect", "select"} /\ context[q] = "live"
  /\ context' = [context EXCEPT ![q] = "over"]
  /\ UNCHANGED <<handler, copier, done, client, body, lines, late>>

Handler(q) == Select(q) \/ Return(q)
Copier(q) == ReadFails(q) \/ Write(q) \/ Report(q)

Relayed == \E q \in LogRequests :
  \/ Refuse(q) \/ Relay(q) \/ Handler(q) \/ Leave(q)
  \/ Read(q) \/ LogEnds(q) \/ Copier(q)
  \/ ClientLeaves(q) \/ Expire(q)
Next == Relayed \/ \E q \in LogRequests, timeout \in {0, 1} : Arrive(q, timeout)

Spec == Init /\ [][Next]_vars

(* Goroutines are scheduled, time-outs expire, and a call whose context is *)
(* over fails.  Upstream and client owe nothing: a write ends because the  *)
(* server's write time-out does.                                           *)
Fairness == \A q \in LogRequests :
  /\ WF_vars(Handler(q)) /\ WF_vars(Copier(q))
  /\ WF_vars(Expire(q)) /\ WF_vars(context[q] = "over" /\ Refuse(q))
FairSpec == Spec /\ Fairness

-----------------------------------------------------------------------------
(* Once the handler has returned at most one line is still written to the  *)
(* response, the one the copier had in hand: everything the copier lives   *)
(* on is closed behind it.                                                 *)
FewLateLines == \A q \in LogRequests : late[q] <= 1

(* A request for logs is over in the end, though the upstream keeps the    *)
(* log open and the client stays.                                          *)
LogsAnswered == \A q \in LogRequests : handler[q] = "connect" ~> handler[q] = "over"

(* No copier is left behind, whoever ended the request                     *)
(* (logs_test.go:65, "DoesNotLeakGoroutines").                             *)
NoCopierLeft == \A q \in LogRequests : copier[q] = "read" ~> copier[q] \in {"gone", "none"}
=============================================================================
