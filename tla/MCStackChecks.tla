--------------------------- MODULE MCStackChecks ---------------------------
(* Two mapped regions with an unmapped address between them; address 0 and *)
(* the last one are not mapped.  Two stacks are enough for the pairwise    *)
(* test to go wrong, three for it to stop too early.  The sizes are below  *)
(* the minimum, at it, the largest int, one that turns negative as an int  *)
(* and one that turns into less than the minimum.                          *)
EXTENDS StackChecks

MCMapped == (1 .. 6) \cup (8 .. 26)
MCSizes == {1, 2, 3, 5, 8, 24}
MCCothreads == 1 .. 3

=============================================================================
