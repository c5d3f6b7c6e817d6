------------------------- MODULE StackChecksProofs -------------------------
(***************************************************************************)
(* For every address space, every number of cothreads and every stack      *)
(* size: as long as no stack runs past the last address, the comparison of *)
(* start and end addresses decides whether stacks share a byte, and a      *)
(* spawn zeroes bytes of its own stack only.                               *)
(***************************************************************************)
EXTENDS StackChecks, TLAPS

(* The addresses of a stack that does not wrap.                            *)
Extent(start, size) == {a \in Addresses : start <= a /\ a < start + size}

(* The test in microkit_cothread_init is exact for two stacks that do not  *)
(* wrap: whichever of the two starts later has its first byte in both.     *)
LEMMA OverlapSharesByte ==
  ASSUME NEW s \in Addresses, NEW t \in Addresses, NEW size \in Nat, size > 0,
         ~Wraps(s, size), ~Wraps(t, size)
  PROVE  Overlap(s, t, size) <=> Extent(s, size) \cap Extent(t, size) # {}
<1>1. End(s, size) = s + size - 1 /\ End(t, size) = t + size - 1
  BY SpaceAssumption DEF Wraps, End, Plus, Addresses
<1>2. ASSUME Overlap(s, t, size)
      PROVE  Extent(s, size) \cap Extent(t, size) # {}
  <2>1. CASE s <= t
    <3>1. t \in Extent(s, size) /\ t \in Extent(t, size)
      BY <1>1, <1>2, <2>1, SpaceAssumption DEF Extent, Overlap, Addresses
    <3> QED BY <3>1
  <2>2. CASE t <= s
    <3>1. s \in Extent(s, size) /\ s \in Extent(t, size)
      BY <1>1, <1>2, <2>2, SpaceAssumption DEF Extent, Overlap, Addresses
    <3> QED BY <3>1
  <2> QED BY <2>1, <2>2, SpaceAssumption DEF Addresses
<1>3. ASSUME Extent(s, size) \cap Extent(t, size) # {}
      PROVE  Overlap(s, t, size)
  <2>1. PICK a \in Addresses : a \in Extent(s, size) /\ a \in Extent(t, size)
    BY <1>3 DEF Extent
  <2> QED BY <1>1, <2>1, SpaceAssumption DEF Extent, Overlap, Addresses
<1> QED BY <1>2, <1>3

(* The outcomes in which the stacks have been compared, and accepted.      *)
Accepted == {"ok", "spawn_vm_fault", "undefined", "init_already_initialised"}

ComparedInv ==
  /\ co_controller = "null" => outcome \in {"none", "init_stack_too_small"}
  /\ outcome \in Accepted \cup {"init_co_stack_overlap"} =>
       /\ given > 0 /\ co_stack_size = ToInt(given)
       /\ \A i \in Cothreads : ~Wraps(local_storage[i], given)
       /\ outcome \in Accepted <=>
            \A i, j \in Cothreads :
              j # i => ~Overlap(local_storage[i], local_storage[j], given)

(* What has been zeroed: nothing before the stacks are accepted, and bytes *)
(* of the cothread's own stack afterwards.                                 *)
ClearedInv ==
  \A i \in Cothreads :
    /\ cleared[i] \subseteq Extent(local_storage[i], given)
    /\ outcome \notin Accepted => cleared[i] = {}

StackInv == TypeOK /\ ComparedInv /\ ClearedInv

(* A size keeps within an int what it keeps.                               *)
LEMMA IntRange ==
  ASSUME NEW size \in Nat
  PROVE  /\ ToInt(size) \in -INT_SPAN .. INT_SPAN - 1
         /\ ToInt(size) >= 0 => ToInt(size) <= size
         /\ ToInt(size) < 0 => INT_SPAN <= size
<1> DEFINE low == size % (2 * INT_SPAN)
<1>1. low \in 0 .. 2 * INT_SPAN - 1 /\ low <= size
  <2>1. PICK k \in Nat \ {0} : k = 2 * INT_SPAN
    BY IntAssumption
  <2>2. size % k \in 0 .. k - 1
    BY <2>1
  <2>3. CASE size < k
    BY <2>1, <2>2, <2>3
  <2>4. CASE size >= k
    BY <2>1, <2>2, <2>4
  <2> QED BY <2>1, <2>3, <2>4
<1> QED BY <1>1, IntAssumption DEF ToInt

(* memzero writes at most n bytes from the start.                          *)
LEMMA ZeroedWithin ==
  ASSUME NEW start \in Addresses, NEW size \in 0 .. Space, ~Wraps(start, size)
  PROVE  LET z == memzero(start, ToSize(ToInt(size)))
         IN  /\ z.ends \in {"ok", "spawn_vm_fault", "undefined"}
             /\ z.bytes \subseteq Extent(start, size)
<1> DEFINE n == ToSize(ToInt(size))
           count == IF n <= INT_SPAN THEN n ELSE INT_SPAN
<1>1. n \in Nat /\ count \in Nat /\ count <= size
  BY IntRange, SpaceAssumption, IntAssumption DEF ToSize
<1>2. ASSUME NEW k \in 0 .. count - 1
      PROVE  Plus(start, k) \in Extent(start, size)
  BY <1>1, SpaceAssumption DEF Plus, Extent, Wraps, Addresses
<1>3. Writable(start, count) \subseteq 0 .. count - 1
  BY DEF Writable
<1> HIDE DEF n
<1>4. /\ memzero(start, n).bytes = {Plus(start, k) : k \in Writable(start, count)}
      /\ memzero(start, n).ends \in {"ok", "spawn_vm_fault", "undefined"}
  BY DEF memzero
<1> QED BY <1>2, <1>3, <1>4 DEF n

LEMMA StackInit == Init => StackInv
<1> SUFFICES ASSUME Init PROVE StackInv
  OBVIOUS
<1>1. TypeOK
  BY SpaceAssumption, IntAssumption DEF Init, TypeOK, Addresses, NULL
<1>2. ComparedInv /\ ClearedInv
  BY DEF Init, ComparedInv, ClearedInv, Accepted
<1> QED BY <1>1, <1>2 DEF StackInv

LEMMA InitStep ==
  ASSUME StackInv, ~MayWrap, NEW size \in Sizes,
         NEW co_stacks \in [Cothreads -> Addresses],
         microkit_cothread_init(size, co_stacks)
  PROVE  StackInv'
<1>1. CASE size < MINIMUM_STACK_SIZE
  <2>1. /\ outcome' = "init_stack_too_small" /\ outcome = "none"
        /\ UNCHANGED <<co_controller, co_stack_size, local_storage, given, cleared>>
    BY <1>1, SizesAssumption DEF microkit_cothread_init
  <2>2. TypeOK'
    BY <2>1 DEF StackInv, TypeOK
  <2>3. ComparedInv' /\ ClearedInv'
    BY <2>1 DEF StackInv, ComparedInv, ClearedInv, Accepted, Extent
  <2> QED BY <2>2, <2>3 DEF StackInv
<1>2. CASE ~(size < MINIMUM_STACK_SIZE)
  <2>1. /\ outcome' = Verdict(size, co_stacks) /\ co_controller' = "taken"
        /\ co_stack_size' = ToInt(size) /\ local_storage' = co_stacks
        /\ given' = size /\ cleared' = cleared /\ outcome = "none"
        /\ \A i \in Cothreads : ~Wraps(co_stacks[i], size)
    BY <1>2 DEF microkit_cothread_init
  <2>2. size \in 0 .. Space /\ size > 0 /\ size \in Nat
    BY <1>2, SizesAssumption, SpaceAssumption
  <2>3. /\ outcome' \in {"init_co_stack_null", "vm_fault",
                         "init_co_stack_overlap", "ok"}
        /\ outcome' \in {"ok", "init_co_stack_overlap"} =>
             (outcome' = "ok" <=>
                \A i, j \in Cothreads :
                  j # i => ~Overlap(co_stacks[i], co_stacks[j], size))
    BY <2>1 DEF Verdict
  <2>4. TypeOK'
    <3>1. ToInt(size) \in -INT_SPAN .. INT_SPAN - 1
      BY <2>2, IntRange
    <3> QED BY <2>1, <2>2, <2>3, <3>1 DEF StackInv, TypeOK
  <2>5. ComparedInv'
    BY <2>1, <2>2, <2>3 DEF ComparedInv, Accepted, Wraps, Overlap, End, Plus, ToInt
  <2>6. ClearedInv'
    BY <2>1 DEF StackInv, ClearedInv, Accepted
  <2> QED BY <2>4, <2>5, <2>6 DEF StackInv
<1> QED BY <1>1, <1>2

LEMMA SpawnStep ==
  ASSUME StackInv, NEW i \in Cothreads, microkit_cothread_spawn(i)
  PROVE  StackInv'
<1>1. PICK z : z = memzero(local_storage[i], ToSize(co_stack_size))
  OBVIOUS
<1>2. /\ outcome = "ok" /\ outcome' = z.ends
      /\ cleared' = [cleared EXCEPT ![i] = @ \cup z.bytes]
      /\ UNCHANGED <<co_controller, co_stack_size, local_storage, given>>
  BY <1>1 DEF microkit_cothread_spawn
<1>3. /\ local_storage[i] \in Addresses /\ given \in 0 .. Space
      /\ ~Wraps(local_storage[i], given) /\ co_stack_size = ToInt(given)
      /\ co_controller # "null"
  BY <1>2 DEF StackInv, TypeOK, ComparedInv, Accepted
<1>4. /\ z.ends \in {"ok", "spawn_vm_fault", "undefined"}
      /\ z.bytes \subseteq Extent(local_storage[i], given)
  BY <1>1, <1>3, ZeroedWithin
<1>5. z.bytes \subseteq Addresses
  BY <1>4 DEF Extent
<1>6. TypeOK'
  BY <1>2, <1>4, <1>5 DEF StackInv, TypeOK
<1>7. ComparedInv'
  BY <1>2, <1>3, <1>4 DEF StackInv, ComparedInv, Accepted, Wraps, Overlap, End, Plus, ToInt
<1>8. ClearedInv'
  <2> SUFFICES ASSUME NEW j \in Cothreads
               PROVE  /\ cleared'[j] \subseteq Extent(local_storage[j], given)
                      /\ outcome' \in Accepted
    BY <1>2 DEF ClearedInv, Extent
  <2>1. cleared[j] \subseteq Extent(local_storage[j], given)
    BY DEF StackInv, ClearedInv
  <2>2. cleared'[j] = IF j = i THEN cleared[j] \cup z.bytes ELSE cleared[j]
    BY <1>2 DEF StackInv, TypeOK
  <2> QED BY <1>2, <1>4, <2>1, <2>2 DEF Accepted
<1> QED BY <1>6, <1>7, <1>8 DEF StackInv

LEMMA StackStep ==
  ASSUME StackInv, [Next]_vars, ~MayWrap
  PROVE  StackInv'
<1>1. CASE UNCHANGED vars
  BY <1>1 DEF vars, StackInv, TypeOK, ComparedInv, ClearedInv, Wraps, Overlap,
              End, Plus, Extent, ToInt
<1>2. CASE init_already_initialised
  <2>1. /\ outcome' = "init_already_initialised" /\ outcome = "ok"
        /\ co_controller # "null"
        /\ UNCHANGED <<co_controller, co_stack_size, local_storage, given, cleared>>
    BY <1>2 DEF init_already_initialised
  <2>2. TypeOK'
    BY <2>1 DEF StackInv, TypeOK
  <2>3. ComparedInv'
    BY <2>1 DEF StackInv, ComparedInv, Accepted, Wraps, Overlap, End, Plus, ToInt
  <2>4. ClearedInv'
    BY <2>1 DEF StackInv, ClearedInv, Accepted, Extent
  <2> QED BY <2>2, <2>3, <2>4 DEF StackInv
<1> QED BY <1>1, <1>2, InitStep, SpawnStep DEF Next

(* The bytes of a stack that has been compared, and the outcome.           *)
LEMMA ComparedExact ==
  ASSUME StackInv, outcome \in Accepted \cup {"init_co_stack_overlap"}
  PROVE  /\ \A i \in Cothreads : Bytes(i) = Extent(local_storage[i], given)
         /\ outcome \in Accepted <=> Disjoint
<1>1. /\ given \in Nat /\ given > 0
      /\ local_storage \in [Cothreads -> Addresses]
      /\ \A i \in Cothreads : ~Wraps(local_storage[i], given)
  BY DEF StackInv, TypeOK, ComparedInv
<1>2. ASSUME NEW i \in Cothreads
      PROVE  Bytes(i) = Extent(local_storage[i], given)
  BY <1>1, <1>2, SpaceAssumption DEF Bytes, Extent, Wraps, Addresses
<1>3. ASSUME NEW i \in Cothreads, NEW j \in Cothreads
      PROVE  Overlap(local_storage[i], local_storage[j], given)
               <=> Bytes(i) \cap Bytes(j) # {}
  BY <1>1, <1>2, OverlapSharesByte
<1> QED BY <1>2, <1>3 DEF StackInv, ComparedInv, Disjoint

(* microkit_cothread_init accepts the stacks it compares exactly when no   *)
(* two of them share a byte, for all stacks that do not wrap.              *)
THEOREM StacksExact == ASSUME ~MayWrap PROVE Spec => []OverlapExact
<1>1. Init => StackInv
  BY StackInit
<1>2. StackInv /\ [Next]_vars => StackInv'
  BY StackStep
<1>3. StackInv => OverlapExact
  BY ComparedExact DEF OverlapExact, Accepted
<1> QED BY <1>1, <1>2, <1>3, PTL DEF Spec

(* However large the stacks are and whatever the conversion to int makes   *)
(* of their size, a spawn zeroes bytes of its own cothread's stack only,   *)
(* for all stacks that do not wrap.                                        *)
THEOREM SpawnsStayInside == ASSUME ~MayWrap PROVE Spec => []SpawnStaysInside
<1>1. Init => StackInv
  BY StackInit
<1>2. StackInv /\ [Next]_vars => StackInv'
  BY StackStep
<1>3. StackInv => SpawnStaysInside
  <2> SUFFICES ASSUME StackInv, NEW i \in Cothreads, NEW j \in Cothreads
               PROVE  /\ cleared[i] \subseteq Bytes(i)
                      /\ i # j => cleared[i] \cap Bytes(j) = {}
    BY DEF SpawnStaysInside
  <2>1. CASE outcome \notin Accepted
    BY <2>1 DEF StackInv, ClearedInv
  <2>2. CASE outcome \in Accepted
    BY <2>2, ComparedExact DEF StackInv, ClearedInv, Disjoint
  <2> QED BY <2>1, <2>2
<1> QED BY <1>1, <1>2, <1>3, PTL DEF Spec

=============================================================================
