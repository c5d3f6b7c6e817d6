--------------------------- MODULE MCHostedQueue ---------------------------
(* The hosted queue on a capacity that is not a power of two, with enough  *)
(* distinct items to tell the slots apart.  Handles 0 to 2 are what a      *)
(* library built for three threads queues; a failed call leaves the output *)
(* parameter alone, written -1.                                            *)
EXTENDS HostedQueue

MCCapacity == 3
MCItems == 0 .. 2
MCNoItem == -1
=============================================================================
