------------------------- MODULE SingleFlightGroup -------------------------
(***************************************************************************)
(* Group.Do and doCall of golang.org/x/sync/singleflight, the group that   *)
(* FunctionScaler and CachedFunctionQuery share between HTTP requests.     *)
(*                                                                         *)
(* A call object is created by the caller that finds no entry in g.m (its  *)
(* leader) and shared by those that find one.  The mutex g.mu makes two    *)
(* critical sections atomic: the look-up in Do and the clean-up in doCall. *)
(* Between them the leader runs fn and writes c.val / c.err without the    *)
(* lock.  Call objects are drawn from a finite pool and may be reused as   *)
(* soon as nobody refers to them, which is what the garbage collector does.*)
(* Forget and DoChan are not called by the gateway.                        *)
(***************************************************************************)
EXTENDS Naturals, FiniteSets

CONSTANTS
  Callers,      \* goroutines that call Do
  Keys,         \* keys of g.m
  Replies,      \* what fn may end with: a value, an error or a panicError
  NoReply,      \* c.val and c.err are not set
  Calls,        \* the pool of call objects
  NoCall        \* the nil *call

ASSUME PoolAssumption ==
  /\ Keys # {}
  /\ NoReply \notin Replies
  /\ NoCall \notin Calls
  /\ IsFiniteSet(Callers) /\ IsFiniteSet(Calls)
  /\ Cardinality(Calls) >= Cardinality(Callers)

VARIABLES
  m,            \* g.m: key -> call object
  val,          \* val[i]: c.val / c.err of call object i
  done,         \* done[i]: the wait group of i has been released
  pc,           \* pc[c]: where caller c is
  key,          \* key[c]: the argument of c's Do
  on,           \* on[c]: the call object c refers to
  ret           \* ret[c]: what c's Do returned

vars == <<m, val, done, pc, key, on, ret>>

AnyKey == CHOOSE k \in Keys : TRUE

TypeOK ==
  /\ m \in [Keys -> Calls \cup {NoCall}]
  /\ val \in [Calls -> Replies \cup {NoReply}]
  /\ done \in [Calls -> BOOLEAN]
  /\ pc \in [Callers -> {"idle", "run", "ran", "wait", "back"}]
  /\ key \in [Callers -> Keys]
  /\ on \in [Callers -> Calls \cup {NoCall}]
  /\ ret \in [Callers -> Replies \cup {NoReply}]
  /\ \A c \in Callers : on[c] = NoCall <=> pc[c] \in {"idle", "back"}
  /\ \A c \in Callers : ret[c] = NoReply <=> pc[c] # "back"

Init ==
  /\ m = [k \in Keys |-> NoCall]
  /\ val = [i \in Calls |-> NoReply]
  /\ done = [i \in Calls |-> FALSE]
  /\ pc = [c \in Callers |-> "idle"]
  /\ key = [c \in Callers |-> AnyKey]
  /\ on = [c \in Callers |-> NoCall]
  /\ ret = [c \in Callers |-> NoReply]

Unreferenced(i) == (\A c \in Callers : on[c] # i) /\ (\A k \in Keys : m[k] # i)

(* Do finds an entry: dups++, unlock, wait for the entry's wait group.     *)
DoJoin(c, k) ==
  /\ pc[c] = "idle"
  /\ m[k] # NoCall
  /\ pc' = [pc EXCEPT ![c] = "wait"]
  /\ key' = [key EXCEPT ![c] = k]
  /\ on' = [on EXCEPT ![c] = m[k]]
  /\ UNCHANGED <<m, val, done, ret>>

(* Do finds none: a new call object, entered in the map.                   *)
DoLead(c, k) ==
  /\ pc[c] = "idle"
  /\ m[k] = NoCall
  /\ \E i \in Calls :
        /\ Unreferenced(i)
        /\ m' = [m EXCEPT ![k] = i]
        /\ on' = [on EXCEPT ![c] = i]
        /\ val' = [val EXCEPT ![i] = NoReply]
        /\ done' = [done EXCEPT ![i] = FALSE]
  /\ pc' = [pc EXCEPT ![c] = "run"]
  /\ key' = [key EXCEPT ![c] = k]
  /\ UNCHANGED ret

RunFnReleasing(c, v) ==         \* slip: the wait group is released without the lock
  /\ pc[c] = "run"
  /\ val' = [val EXCEPT ![on[c]] = v]
  /\ done' = [done EXCEPT ![on[c]] = TRUE]
  /\ pc' = [pc EXCEPT ![c] = "ran"]
  /\ UNCHANGED <<m, key, on, ret>>

(* doCall's inner function: fn returns or panics; either way the outcome   *)
(* is stored in the call object, with no lock held.                        *)
RunFn(c, v) ==
  /\ pc[c] = "run"
  /\ val' = [val EXCEPT ![on[c]] = v]
  /\ pc' = [pc EXCEPT ![c] = "ran"]
  /\ UNCHANGED <<m, done, key, on, ret>>

(* Slips in doCall's deferred function: the wait group is not released,    *)
(* the entry is not deleted, the result is not handed to the leader.       *)
FinishSilently(c) ==
  /\ pc[c] = "ran"
  /\ m' = [m EXCEPT ![key[c]] = NoCall]
  /\ ret' = [ret EXCEPT ![c] = val[on[c]]]
  /\ on' = [on EXCEPT ![c] = NoCall]
  /\ pc' = [pc EXCEPT ![c] = "back"]
  /\ UNCHANGED <<val, done, key>>
FinishKeeping(c) ==
  /\ pc[c] = "ran"
  /\ done' = [done EXCEPT ![on[c]] = TRUE]
  /\ ret' = [ret EXCEPT ![c] = val[on[c]]]
  /\ on' = [on EXCEPT ![c] = NoCall]
  /\ pc' = [pc EXCEPT ![c] = "back"]
  /\ UNCHANGED <<m, val, key>>
FinishEmptyHanded(c) ==
  /\ pc[c] = "ran"
  /\ done' = [done EXCEPT ![on[c]] = TRUE]
  /\ m' = [m EXCEPT ![key[c]] = NoCall]
  /\ on' = [on EXCEPT ![c] = NoCall]
  /\ pc' = [pc EXCEPT ![c] = "back"]
  /\ UNCHANGED <<val, key, ret>>

(* doCall's deferred function: wg.Done, and delete the entry if it is      *)
(* still this call's; the leader then returns (or re-panics with) c.val.   *)
Finish(c) ==
  /\ pc[c] = "ran"
  /\ done' = [done EXCEPT ![on[c]] = TRUE]
  /\ m' = IF m[key[c]] = on[c] THEN [m EXCEPT ![key[c]] = NoCall] ELSE m
  /\ ret' = [ret EXCEPT ![c] = val[on[c]]]
  /\ on' = [on EXCEPT ![c] = NoCall]
  /\ pc' = [pc EXCEPT ![c] = "back"]
  /\ UNCHANGED <<val, key>>

(* c.wg.Wait returns in a caller that joined: it reads c.val and c.err.    *)
WakeUp(c) ==
  /\ pc[c] = "wait"
  /\ done[on[c]]
  /\ ret' = [ret EXCEPT ![c] = val[on[c]]]
  /\ on' = [on EXCEPT ![c] = NoCall]
  /\ pc' = [pc EXCEPT ![c] = "back"]
  /\ UNCHANGED <<m, val, done, key>>

(* The caller consumes the result and may call Do again.                   *)
Consume(c) ==
  /\ pc[c] = "back"
  /\ pc' = [pc EXCEPT ![c] = "idle"]
  /\ key' = [key EXCEPT ![c] = AnyKey]
  /\ ret' = [ret EXCEPT ![c] = NoReply]
  /\ UNCHANGED <<m, val, done, on>>

Run(c) == \E v \in Replies : RunFn(c, v)

Next == \E c \in Callers :
  \/ \E k \in Keys : DoJoin(c, k) \/ DoLead(c, k)
  \/ Run(c)
  \/ Finish(c)
  \/ WakeUp(c)
  \/ Consume(c)

Spec == Init /\ [][Next]_vars

(* Goroutines that can run are scheduled, and fn returns (or panics).      *)
Fairness == \A c \in Callers :
  WF_vars(Run(c)) /\ WF_vars(Finish(c)) /\ WF_vars(WakeUp(c))

FairSpec == Spec /\ Fairness

-----------------------------------------------------------------------------
(* The promise: the callers that refer to a call object whose wait group   *)
(* has not been released are the members of its key's flight; one whose    *)
(* wait group has been released has been handed the reply, even if the     *)
(* scheduler has not woken it yet.                                         *)
InFlight(c) == pc[c] \in {"run", "ran", "wait"} /\ ~done[on[c]]

Promise == INSTANCE Flight WITH
  members <- [k \in Keys |-> {c \in Callers : InFlight(c) /\ key[c] = k}],
  reply <- [k \in Keys |-> IF m[k] = NoCall THEN NoReply ELSE val[m[k]]],
  got <- [c \in Callers |->
            IF pc[c] = "wait" /\ done[on[c]] THEN val[on[c]] ELSE ret[c]]

(* Do keeps the promise: one execution per key at a time, everybody who    *)
(* joined is released with that execution's outcome (singleflight.go:87).  *)
KeepsPromise == Promise!Spec

(* A joiner reads c.val only after the leader's last write to it: no call  *)
(* object is recycled or rewritten under a goroutine that has still to     *)
(* read it, so a released waiter reads what the leader returned.           *)
WaitersReadAfterWrite == \A c \in Callers :
  (pc[c] = "wait" /\ done[on[c]]) =>
     /\ val[on[c]] # NoReply
     /\ \A d \in Callers : on[d] = on[c] => pc[d] = "wait"

(* Nobody waits for a call that has no leader left: a lost wake-up would   *)
(* hold the HTTP request of the waiter for ever.                           *)
WaitersHaveLeader == \A c \in Callers :
  (pc[c] = "wait" /\ ~done[on[c]]) =>
     \E d \in Callers : pc[d] \in {"run", "ran"} /\ on[d] = on[c]

(* Every Do returns, if fn does.                                           *)
DoReturns == \A c \in Callers : pc[c] \in {"run", "ran", "wait"} ~> pc[c] = "back"
=============================================================================
