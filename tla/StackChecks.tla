---------------------------- MODULE StackChecks ----------------------------
(***************************************************************************)
(* What microkit_cothread_init demands of the stacks it is given, and what *)
(* a spawn then does to one of them.  Addresses and sizes are uintptr_t    *)
(* and size_t: they wrap at Space.  The library keeps the size of a stack  *)
(* in an int.  A write to an address that is not mapped stops the PD with  *)
(* a VM fault.                                                             *)
(***************************************************************************)
EXTENDS Integers

CONSTANTS
  Space,               \* addresses are 0 .. Space - 1
  INT_SPAN,            \* an int is in -INT_SPAN .. INT_SPAN - 1
  Mapped,              \* the addresses the system description maps
  MINIMUM_STACK_SIZE,
  Cothreads,           \* 1 .. LIBMICROKITCO_MAX_COTHREADS - 1
  Sizes,               \* the values of co_stack_size a client passes
  MayWrap              \* a client passes stacks that run past the last address

ASSUME SpaceAssumption == Space \in Nat \ {0}
ASSUME IntAssumption == INT_SPAN \in Nat \ {0} /\ 2 * INT_SPAN <= Space
ASSUME SizesAssumption == /\ MINIMUM_STACK_SIZE \in Nat \ {0}
                          /\ Sizes \subseteq 0 .. Space
ASSUME CothreadsAssumption == Cothreads \subseteq Nat
ASSUME WrapAssumption == MayWrap \in BOOLEAN

Addresses == 0 .. Space - 1
NULL == 0

VARIABLES
  co_controller,       \* "null" until init has taken the controller memory
  co_stack_size,       \* the field of that name, an int
  local_storage,       \* tcbs[i].local_storage
  outcome,             \* how the last call ended
  given, cleared       \* history: the size given to init, and the bytes
                       \* that the spawns of each cothread have zeroed
vars == <<co_controller, co_stack_size, local_storage, outcome, given, cleared>>

(* Unsigned addition of an address and a size.                             *)
Plus(address, n) ==
  IF address + n < Space THEN address + n ELSE address + n - Space

End(start, size) == Plus(start, size - 1)

Faulty_overlap(this, other, size) ==   \* faulty: only one end is compared
  this <= End(other, size) /\ this >= other /\ this # other

(* The test of two stacks.                                                 *)
Overlap(this, other, size) ==
  /\ this <= End(other, size)
  /\ other <= End(this, size)

Touched(start, size) == start \in Mapped /\ End(start, size) \in Mapped

(* The stacks are looked at one by one, each for being null and then by    *)
(* writing its ends, and pairwise afterwards; the first failure counts.    *)
Verdict(size, stacks) ==
  LET bad == {i \in Cothreads : stacks[i] = NULL \/ ~Touched(stacks[i], size)}
  IN  IF bad # {}
      THEN IF \E i \in bad : stacks[i] = NULL /\ \A j \in bad : i <= j
           THEN "init_co_stack_null" ELSE "vm_fault"
      ELSE IF \E i, j \in Cothreads : j # i /\ Overlap(stacks[i], stacks[j], size)
           THEN "init_co_stack_overlap" ELSE "ok"

(* The conversions of a size_t to int and back.                            *)
ToInt(n) == LET low == n % (2 * INT_SPAN)
            IN  IF low < INT_SPAN THEN low ELSE low - 2 * INT_SPAN

ToSize(n) == IF n >= 0 THEN n ELSE Space + n

(* The first n bytes from start, up to one that cannot be written.         *)
Writable(start, n) ==
  {k \in 0 .. n - 1 : \A j \in 0 .. k : Plus(start, j) \in Mapped}

Faulty_memzero(start, n) ==   \* faulty: one byte more than n
  LET count == IF n <= INT_SPAN THEN n + 1 ELSE INT_SPAN
      written == Writable(start, count)
  IN  [bytes |-> {Plus(start, k) : k \in written},
       ends |-> IF written # 0 .. count - 1 THEN "spawn_vm_fault"
                ELSE IF n > INT_SPAN THEN "undefined" ELSE "ok"]

(* The loop counts in an int, which overflows when n is beyond its range:  *)
(* what happens after that is undefined.                                   *)
memzero(start, n) ==
  LET count == IF n <= INT_SPAN THEN n ELSE INT_SPAN
      written == Writable(start, count)
  IN  [bytes |-> {Plus(start, k) : k \in written},
       ends |-> IF written # 0 .. count - 1 THEN "spawn_vm_fault"
                ELSE IF n > INT_SPAN THEN "undefined" ELSE "ok"]

Init ==
  /\ co_controller = "null"
  /\ co_stack_size = 0
  /\ local_storage = [i \in Cothreads |-> NULL]
  /\ outcome = "none"
  /\ given = 0
  /\ cleared = [i \in Cothreads |-> {}]

Wraps(start, size) == start + size > Space

(* Called a second time, init stops before it looks at its arguments.      *)
init_already_initialised ==
  /\ co_controller # "null" /\ outcome = "ok"
  /\ outcome' = "init_already_initialised"
  /\ UNCHANGED <<co_controller, co_stack_size, local_storage, given, cleared>>

microkit_cothread_init(size, co_stacks) ==
  /\ co_controller = "null" /\ outcome = "none"
  /\ MayWrap \/ \A i \in Cothreads : ~Wraps(co_stacks[i], size)
  /\ \/ /\ size < MINIMUM_STACK_SIZE
        /\ outcome' = "init_stack_too_small"
        /\ UNCHANGED <<co_controller, co_stack_size, local_storage, given>>
     \/ /\ size >= MINIMUM_STACK_SIZE
        /\ outcome' = Verdict(size, co_stacks)
        /\ co_controller' = "taken"
        /\ co_stack_size' = ToInt(size)
        /\ local_storage' = co_stacks
        /\ given' = size
  /\ UNCHANGED cleared

(* The part of a spawn that touches the stack of the handle it takes.      *)
microkit_cothread_spawn(i) ==
  /\ outcome = "ok"
  /\ LET zeroed == memzero(local_storage[i], ToSize(co_stack_size))
     IN  /\ outcome' = zeroed.ends
         /\ cleared' = [cleared EXCEPT ![i] = @ \cup zeroed.bytes]
  /\ UNCHANGED <<co_controller, co_stack_size, local_storage, given>>

Next ==
  \/ /\ co_controller = "null"
     /\ \E size \in Sizes, co_stacks \in [Cothreads -> Addresses] :
          microkit_cothread_init(size, co_stacks)
  \/ init_already_initialised
  \/ \E i \in Cothreads : microkit_cothread_spawn(i)

Spec == Init /\ [][Next]_vars

-----------------------------------------------------------------------------
(* The bytes of the stack a client gave to a cothread.                     *)
Bytes(i) == {a \in Addresses :
               \/ local_storage[i] <= a /\ a < local_storage[i] + given
               \/ a + Space < local_storage[i] + given}

Disjoint == \A i, j \in Cothreads : i # j => Bytes(i) \cap Bytes(j) = {}

TypeOK ==
  /\ co_controller \in {"null", "taken"}
  /\ co_stack_size \in -INT_SPAN .. INT_SPAN - 1
  /\ local_storage \in [Cothreads -> Addresses]
  /\ outcome \in {"none", "ok", "init_already_initialised", "init_stack_too_small",
                  "init_co_stack_null", "vm_fault", "init_co_stack_overlap",
                  "spawn_vm_fault", "undefined"}
  /\ given \in 0 .. Space
  /\ cleared \in [Cothreads -> SUBSET Addresses]

(* The comparison of start and end addresses in microkit_cothread_init     *)
(* decides exactly whether two stacks share a byte: stacks that are        *)
(* accepted are disjoint, and init never refuses stacks that are.          *)
OverlapExact ==
  /\ outcome = "ok" => Disjoint
  /\ outcome = "init_co_stack_overlap" => ~Disjoint

(* Spawning a cothread zeroes bytes of the stack the client gave it and    *)
(* none of another cothread's, although the size goes through an int       *)
(* between the check in init and the use in spawn, and also where the      *)
(* spawn ends in a fault between the two ends that init has touched.       *)
SpawnStaysInside ==
  \A i, j \in Cothreads :
    /\ cleared[i] \subseteq Bytes(i)
    /\ i # j => cleared[i] \cap Bytes(j) = {}

=============================================================================
