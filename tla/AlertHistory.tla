---------------------------- MODULE AlertHistory ----------------------------
(***************************************************************************)
(* AlertHandler with a history variable: what one batch does to a function *)
(* can be told only as long as nobody else changes its count.              *)
(***************************************************************************)
EXTENDS AlertHandler

(* The functions whose count somebody else changed since h received its    *)
(* batch.                                                                  *)
VARIABLE disturbed
Moves(h) == <<seen[h], outcomes[h], answer[h]>>' # <<seen[h], outcomes[h], answer[h]>>
HistoryInit == Init /\ disturbed = [h \in Handlers |-> {}]
HistoryNext ==
  /\ Next
  /\ disturbed' = [h \in Handlers |->
       IF answer'[h] = "none" THEN {} ELSE
         disturbed[h] \cup {f \in Functions : desired'[f] # desired[f] /\ ~Moves(h)}]
HistorySpec ==
  /\ HistoryInit /\ [][HistoryNext]_<<vars, disturbed>>
  /\ \A h \in Handlers : WF_vars(Handle(h))

(* When a batch has been handled and its last word on a function was       *)
(* "resolved", the function is back at its minimum, whatever fired before  *)
(* in the same batch and whatever other handlers do to other functions.    *)
ResolvedScalesDown == \A h \in Handlers, f \in Functions :
  f \notin disturbed[h] => SettledAt(h, f)
=============================================================================
