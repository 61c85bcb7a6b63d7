-------------------------- MODULE ForwardingProxy --------------------------
(***************************************************************************)
(* Forwarding a request to the provider and telling the notifiers:         *)
(* MakeForwardingProxyHandler, forwardRequest and handleEventStream        *)
(* (handlers/forwarding_proxy.go) with PrometheusFunctionNotifier.         *)
(*                                                                         *)
(* An ordinary request goes through proxyClient.Do and io.Copy.  One that  *)
(* accepts an event stream goes through a ReverseProxy that runs in a      *)
(* goroutine of its own and writes through an HttpWriteInterceptor, from   *)
(* which the status is read once that goroutine is done.                   *)
(***************************************************************************)
EXTENDS Naturals

CONSTANTS
  Requests,          \* requests for functions; each is made once
  Functions,         \* label function_name of the metrics
  NoFunction,        \* a request that is still to be made
  Codes              \* status codes with which functions answer

VARIABLES
  pc, fn, stream,    \* per request: position, function, whether it is an event stream
  interceptor,       \* per request: HttpWriteInterceptor.statusCode, 0 if nothing was written
  sent,              \* per request: the status the client gets, 0 if none yet
  code,              \* per request: what forwardRequest returned
  started,           \* GatewayFunctionInvocationStarted, per function
  observed,          \* GatewayFunctionsHistogram: number of observations, per function
  completed          \* GatewayFunctionInvocation, per function (summed over codes)

counters == <<started, observed, completed>>
vars == <<pc, fn, stream, interceptor, sent, code, counters>>

BadGateway == 502
EarlyHints == 103          \* for any interim status that ReverseProxy passes on

TypeOK ==
  /\ pc \in [Requests -> {"idle", "arrived", "build", "do", "copy", "serve", "stream",
                          "served", "report", "halfway", "counted", "done", "aborted"}]
  /\ fn \in [Requests -> Functions \cup {NoFunction}]
  /\ \A q \in Requests : fn[q] = NoFunction <=> pc[q] = "idle"
  /\ stream \in [Requests -> BOOLEAN]
  /\ interceptor \in [Requests -> Codes \cup {0, EarlyHints}]
  /\ sent \in [Requests -> Codes \cup {0, 200, BadGateway}]
  /\ code \in [Requests -> Codes \cup {0, 200, EarlyHints, BadGateway}]
  /\ \A q \in Requests : pc[q] \in {"report", "halfway", "counted", "done"} => code[q] # 0
  /\ started \in [Functions -> Nat]
  /\ observed \in [Functions -> Nat]
  /\ completed \in [Functions -> Nat]

Init ==
  /\ pc = [q \in Requests |-> "idle"]
  /\ fn = [q \in Requests |-> NoFunction]
  /\ stream = [q \in Requests |-> FALSE]
  /\ interceptor = [q \in Requests |-> 0]
  /\ sent = [q \in Requests |-> 0]
  /\ code = [q \in Requests |-> 0]
  /\ started = [f \in Functions |-> 0]
  /\ observed = [f \in Functions |-> 0]
  /\ completed = [f \in Functions |-> 0]

Step(q, from, to) == pc[q] = from /\ pc' = [pc EXCEPT ![q] = to]
Add(counter, q) == [counter EXCEPT ![fn[q]] = @ + 1]

-----------------------------------------------------------------------------
Arrive(q) ==
  /\ Step(q, "idle", "arrived")
  /\ \E f \in Functions : fn' = [fn EXCEPT ![q] = f]
  /\ \E b \in BOOLEAN : stream' = [stream EXCEPT ![q] = b]
  /\ UNCHANGED <<interceptor, sent, code, counters>>

(* The notifiers are told "started".                                       *)
NotifyStarted(q) ==
  /\ Step(q, "arrived", "build")
  /\ started' = Add(started, q)
  /\ UNCHANGED <<fn, stream, interceptor, sent, code, observed, completed>>

(* buildUpstreamRequest.  When the decoded path is no URL, NewRequest's    *)
(* error is dropped and its nil request read: the handler panics and the   *)
(* connection is aborted.                                                  *)
Build(q) ==
  /\ Step(q, "build", IF stream[q] THEN "serve" ELSE "do") \/ Step(q, "build", "aborted")
  /\ UNCHANGED <<fn, stream, interceptor, sent, code, counters>>

(* proxyClient.Do succeeds: the status is passed on.                       *)
Answer(q) ==
  /\ Step(q, "do", "copy")
  /\ \E c \in Codes : sent' = [sent EXCEPT ![q] = c] /\ code' = [code EXCEPT ![q] = c]
  /\ UNCHANGED <<fn, stream, interceptor, counters>>

(* It fails, or the time-out expires.                                      *)
Fail(q) ==
  /\ Step(q, "do", "report")
  /\ sent' = [sent EXCEPT ![q] = BadGateway]
  /\ code' = [code EXCEPT ![q] = BadGateway]
  /\ UNCHANGED <<fn, stream, interceptor, counters>>

(* io.Copy comes to an end; that it was cut short is not noticed.          *)
CopyEnds(q) ==
  /\ Step(q, "copy", "report")
  /\ UNCHANGED <<fn, stream, interceptor, sent, code, counters>>

(* ReverseProxy passes on an interim response, which is not the answer.    *)
PassInterim(q) ==
  /\ pc[q] = "serve"
  /\ interceptor' = [interceptor EXCEPT ![q] = EarlyHints]
  /\ UNCHANGED <<pc, fn, stream, sent, code, counters>>

StreamAnswer(q) ==
  /\ Step(q, "serve", "stream")
  /\ \E c \in Codes :
        interceptor' = [interceptor EXCEPT ![q] = c] /\ sent' = [sent EXCEPT ![q] = c]
  /\ UNCHANGED <<fn, stream, code, counters>>

(* The upstream cannot be reached, or the time-out expires: ErrorHandler   *)
(* writes nothing.                                                         *)
StreamFails(q) ==
  /\ Step(q, "serve", "served")
  /\ UNCHANGED <<fn, stream, interceptor, sent, code, counters>>

(* The stream comes to an end; one that is cut panics with ErrAbortHandler,*)
(* which is recovered.                                                     *)
StreamEnds(q) ==
  /\ Step(q, "stream", "served")
  /\ UNCHANGED <<fn, stream, interceptor, sent, code, counters>>

(* HttpWriteInterceptor.Status.                                            *)
StatusUnset(c) == c                                      \* slip: no default
Status(c) == IF c = 0 THEN 200 ELSE c

(* wg.Wait returns, and so does handleEventStream.                         *)
Return(q) ==
  /\ Step(q, "served", "report")
  /\ code' = [code EXCEPT ![q] = Status(interceptor[q])]
  /\ UNCHANGED <<fn, stream, interceptor, sent, counters>>

(* The notifiers are told "completed": the histogram first, then the       *)
(* counter.                                                                *)
Observe(q, from, to) ==
  /\ Step(q, from, to)
  /\ observed' = Add(observed, q)
  /\ UNCHANGED <<fn, stream, interceptor, sent, code, started, completed>>
Count(q, from, to) ==
  /\ Step(q, from, to)
  /\ completed' = Add(completed, q)
  /\ UNCHANGED <<fn, stream, interceptor, sent, code, started, observed>>

(* The handler returns; the server sends a status if nobody has.           *)
End(q) ==
  /\ Step(q, "counted", "done")
  /\ sent' = [sent EXCEPT ![q] = IF @ = 0 THEN 200 ELSE @]
  /\ UNCHANGED <<fn, stream, interceptor, code, counters>>

HandlerCountsFirst(q) ==                                 \* slip: counter, then histogram
  \/ NotifyStarted(q) \/ Build(q) \/ Return(q)
  \/ Count(q, "report", "halfway") \/ Observe(q, "halfway", "counted")
  \/ End(q)
Handler(q) ==
  \/ NotifyStarted(q) \/ Build(q) \/ Return(q)
  \/ Observe(q, "report", "halfway") \/ Count(q, "halfway", "counted")
  \/ End(q)

(* What the upstream may do, and what becomes of a forwarded request at    *)
(* the latest when its time-out expires.                                   *)
Upstream(q) == Answer(q) \/ PassInterim(q) \/ StreamAnswer(q)
CutPlain(q) == Fail(q) \/ CopyEnds(q)                    \* slip: streams have no time-out
Cut(q) == Fail(q) \/ CopyEnds(q) \/ StreamFails(q) \/ StreamEnds(q)

Next == \E q \in Requests : Arrive(q) \/ Handler(q) \/ Upstream(q) \/ Cut(q)

Spec == Init /\ [][Next]_vars

(* Goroutines are scheduled and time-outs expire; clients and upstreams    *)
(* owe nothing.                                                            *)
Fairness == \A q \in Requests : WF_vars(Handler(q)) /\ WF_vars(Cut(q))
FairSpec == Spec /\ Fairness

-----------------------------------------------------------------------------
(* The status that the notifiers are told is the one the client gets,      *)
(* although it is read after another goroutine wrote it, or nobody did;    *)
(* only when an interim response was all that came is it that one's.       *)
ReportedAsSent == \A q \in Requests :
  pc[q] = "done" /\ code[q] # EarlyHints => code[q] = sent[q]

(* However the upstream behaves, every request is completed or aborted.    *)
Forwarded == \A q \in Requests : pc[q] = "arrived" ~> pc[q] \in {"done", "aborted"}
=============================================================================
