--------------------------- MODULE MCOneSlotQueue ---------------------------
(* Bounds for OneSlotQueue: two cells are enough for a message to be torn,    *)
(* and a length of 3 is clamped; with three pushes a pop can be overtaken by  *)
(* a push, and by a second one, between any two of its loads.                 *)
EXTENDS OneSlotQueue

MCLenArgs == 1 .. Cap + 1
=============================================================================
