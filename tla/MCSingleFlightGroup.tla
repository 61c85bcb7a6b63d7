------------------------ MODULE MCSingleFlightGroup ------------------------
(* Three goroutines, two keys and two outcomes: a leader can finish and    *)
(* lead again while waiters of its earlier call still sleep.               *)
EXTENDS SingleFlightGroup

CONSTANTS c1, c2, c3, k1, k2, i1, i2, i3
=============================================================================
