---------------------------- MODULE Invocations ----------------------------
(***************************************************************************)
(* What asynchronous invocation promises, with nothing of how: a request   *)
(* that is accepted (202) is in the queue, one that is turned down before  *)
(* it was published never gets there, each gets there at most once, and    *)
(* one that failed (500) may have got there all the same.                  *)
(***************************************************************************)
CONSTANT Requests

VARIABLES
  answer,       \* answer[r]: "none" while there is no request, "open", or the answer
  queued        \* the requests that reached the queue

Answers == {"accepted", "rejected", "failed"}

Init == answer = [r \in Requests |-> "none"] /\ queued = {}

Ask(r) ==
  /\ answer[r] = "none"
  /\ answer' = [answer EXCEPT ![r] = "open"]
  /\ UNCHANGED queued

(* The queue takes the request in, in time or too late for an answer.      *)
Store(r) ==
  /\ answer[r] \in {"open", "failed"} /\ r \notin queued
  /\ queued' = queued \cup {r}
  /\ UNCHANGED answer

Respond(r, a) ==
  /\ answer[r] = "open"
  /\ a = "accepted" => r \in queued
  /\ a = "rejected" => r \notin queued
  /\ answer' = [answer EXCEPT ![r] = a]
  /\ UNCHANGED queued

Forget(r) ==
  /\ answer[r] \in Answers
  /\ answer' = [answer EXCEPT ![r] = "none"]
  /\ queued' = queued \ {r}

Next == \E r \in Requests :
  \/ Ask(r) \/ Store(r) \/ Forget(r)
  \/ \E a \in Answers : Respond(r, a)

Spec == Init /\ [][Next]_<<answer, queued>>
=============================================================================
