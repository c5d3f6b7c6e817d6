---------------------------- MODULE ExampleLibc ----------------------------
(***************************************************************************)
(* The C functions the examples bring with them: one call of printf, or    *)
(* one of a string function, side by side.                                 *)
(***************************************************************************)
EXTENDS Printf

CONSTANTS BITS, SS
VARIABLES mem, last

Str == INSTANCE Strings

(* Memory is made of words, and a char has a high bit and others.          *)
ASSUME BytesAssumption ==
  /\ BITS \in Nat /\ BITS >= 2 /\ SS \in Nat \ {0}
  /\ Size \in Nat /\ Size % SS = 0

LibcInit ==
  \/ Init /\ mem = [a \in {} |-> 0] /\ last = [name |-> "unused"]
  \/ /\ Str!Init
     /\ pc = "unused" /\ call = <<>> /\ format = <<>> /\ out = "none" /\ maxlen = 0
     /\ idx = 0 /\ ret = 0 /\ buffer = <<>> /\ putc = <<>> /\ text = <<>>

LibcNext == \/ Next /\ UNCHANGED <<mem, last>>
            \/ Str!Next /\ UNCHANGED vars

LibcSpec == LibcInit /\ [][LibcNext]_<<vars, mem, last>>

(* memchr, strnlen and strlen find the first byte they look for: see       *)
(* Strings.                                                                *)
SearchExact == Str!SearchExact

(* strcpy, strncpy and strcat change exactly the bytes they should: see    *)
(* Strings.                                                                *)
CopyExact == Str!CopyExact
=============================================================================
