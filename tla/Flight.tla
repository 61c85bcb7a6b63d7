------------------------------- MODULE Flight -------------------------------
(***************************************************************************)
(* What a "single flight" group promises its callers, with the machinery   *)
(* hidden: at most one execution per key is under way, a caller that asks  *)
(* for a key whose execution is under way joins it, and everybody who      *)
(* joined is handed that execution's one reply.                            *)
(*                                                                         *)
(* SingleFlightGroup (golang.org/x/sync/singleflight, the group the gate-  *)
(* way uses) implements this module; FunctionScaler is written on top of   *)
(* it.                                                                     *)
(***************************************************************************)
CONSTANTS
  Callers,      \* goroutines that call Do
  Keys,         \* the strings they pass as key
  Replies,      \* what the executed function may return, panics included
  NoReply       \* nothing returned yet

VARIABLES
  members,      \* members[k]: the callers of the flight of k, {} when none is under way
  reply,        \* reply[k]: what the flight of k returned, not yet handed over
  got           \* got[c]: the reply handed to c, which c has not consumed yet

vars == <<members, reply, got>>

TypeOK ==
  /\ members \in [Keys -> SUBSET Callers]
  /\ reply \in [Keys -> Replies \cup {NoReply}]
  /\ got \in [Callers -> Replies \cup {NoReply}]

Waiting(c) == \E k \in Keys : c \in members[k]

Init ==
  /\ members = [k \in Keys |-> {}]
  /\ reply = [k \in Keys |-> NoReply]
  /\ got = [c \in Callers |-> NoReply]

(* c calls Do(k): it starts the flight of k or joins the one under way,    *)
(* also when that one has its reply but has not landed.                    *)
Join(c, k) ==
  /\ ~Waiting(c)
  /\ got[c] = NoReply
  /\ members' = [members EXCEPT ![k] = @ \cup {c}]
  /\ UNCHANGED <<reply, got>>

(* The executed function returns v.                                        *)
Return(k, v) ==
  /\ members[k] # {}
  /\ reply[k] = NoReply
  /\ reply' = [reply EXCEPT ![k] = v]
  /\ UNCHANGED <<members, got>>

(* The group forgets the flight and releases everybody who is in it.       *)
Land(k) ==
  /\ reply[k] # NoReply
  /\ got' = [c \in Callers |-> IF c \in members[k] THEN reply[k] ELSE got[c]]
  /\ members' = [members EXCEPT ![k] = {}]
  /\ reply' = [reply EXCEPT ![k] = NoReply]

(* c goes on with the reply it was handed.                                 *)
Take(c) ==
  /\ got[c] # NoReply
  /\ got' = [got EXCEPT ![c] = NoReply]
  /\ UNCHANGED <<members, reply>>

Next ==
  \/ \E c \in Callers, k \in Keys : Join(c, k)
  \/ \E k \in Keys, v \in Replies : Return(k, v)
  \/ \E k \in Keys : Land(k)
  \/ \E c \in Callers : Take(c)

Spec == Init /\ [][Next]_vars
=============================================================================
