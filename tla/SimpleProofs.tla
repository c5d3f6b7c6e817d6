---------------------------- MODULE SimpleProofs ----------------------------
(***************************************************************************)
(* The library on top of libco, as the simple example uses it, for every   *)
(* placement of its stacks (on RISC-V, every one below 2^31: the           *)
(* hypothesis ContextsLow): the theorems about the two components, for the *)
(* values the example gives their parameters, hold of their composition.   *)
(***************************************************************************)
EXTENDS Simple, SequenceTheorems, TLAPS

CoP == INSTANCE LibcoProofs WITH
         co_active_handle <- active_context, thread <- co_active_handle, MaxDepth <- 0,
         ChangesFloatState <- FALSE

LibP == INSTANCE MicrokitcoProofs WITH
          MAX_COTHREADS <- 4, Channels <- {}, BadChannel <- 0, Semaphores <- {},
          Args <- 1 .. 7, Rules <- {}

-----------------------------------------------------------------------------
(* The example's steps are steps of the components.                        *)
LEMMA StacksPlaced ==
  /\ CoP!ArchsAssumption /\ CoP!MemoryAssumption /\ CoP!SizeAssumption
  /\ CoP!PlacesAssumption /\ CoP!HalfAssumption /\ CoP!FloatAssumption
  BY StacksAssumption DEF Co!Cothreads, CoP!Cothreads, Co!ArchNames, CoP!ArchNames, Co!BufferSize,
         CoP!BufferSize, Co!RootDepth, CoP!RootDepth, Co!Apart, CoP!Apart

LEMMA SameLow == Co!ContextsLow => CoP!ContextsLow
  BY DEF Co!ContextsLow, CoP!ContextsLow, Co!Cothreads, CoP!Cothreads, Co!BufferSize, CoP!BufferSize

LEMMA SameSwitch == ASSUME NEW t PROVE Co!co_switch(t) => CoP!co_switch(t)
<1>1. Co!Called = CoP!Called
  BY DEF Co!Called, CoP!Called, Co!Addr, CoP!Addr, Co!Put, CoP!Put, Co!Return, CoP!Return,
         Co!LinkRegister, CoP!LinkRegister
<1>2. \A r, m, h : Co!Stored(r, m, h) = CoP!Stored(r, m, h)
  BY DEF Co!Stored, CoP!Stored, Co!FirstWord, CoP!FirstWord, Co!Addiw, CoP!Addiw, Co!Word, CoP!Word,
         Co!Stores, CoP!Stores, Co!Over, CoP!Over, Co!aarch64_stores, CoP!aarch64_stores,
         Co!riscv64_soft_stores, CoP!riscv64_soft_stores, Co!riscv64_hard_stores,
         CoP!riscv64_hard_stores, Co!amd64_stores, CoP!amd64_stores, Co!arm_stores, CoP!arm_stores
<1>3. \A r, m, h : Co!Loaded(r, m, h) = CoP!Loaded(r, m, h)
  BY DEF Co!Loaded, CoP!Loaded, Co!FirstWord, CoP!FirstWord, Co!Addiw, CoP!Addiw, Co!Word, CoP!Word,
         Co!Loads, CoP!Loads, Co!Range, CoP!Range, Co!Read, CoP!Read, Co!Zero, CoP!Zero,
         Co!aarch64_loads, CoP!aarch64_loads, Co!riscv64_soft_loads, CoP!riscv64_soft_loads,
         Co!riscv64_hard_loads, CoP!riscv64_hard_loads, Co!amd64_loads, CoP!amd64_loads,
         Co!arm_loads, CoP!arm_loads
<1>4. \A r, m : Co!Jumped(r, m) = CoP!Jumped(r, m)
  BY DEF Co!Jumped, CoP!Jumped, Co!Read, CoP!Read, Co!Addr, CoP!Addr, Co!Zero, CoP!Zero
<1>5. Co!CalleeSaved(arch) = CoP!CalleeSaved(arch)
  BY DEF Co!CalleeSaved, CoP!CalleeSaved, Co!SavedRegisters, CoP!SavedRegisters, Co!FloatState,
         CoP!FloatState
<1>6. Co!switch(t) => CoP!switch(t)
  BY <1>1, <1>2, <1>3, <1>4 DEF Co!switch, CoP!switch, Co!co_swap, CoP!co_swap
<1> QED
  BY <1>5, <1>6 DEF Co!co_switch, CoP!co_switch, Co!InClient, CoP!InClient, Co!Client, CoP!Client

LEMMA SameDerive == ASSUME NEW t PROVE Co!co_derive(t) => CoP!co_derive(t)
<1>1. /\ Co!aarch64_regs = CoP!aarch64_regs /\ Co!riscv64_soft_regs = CoP!riscv64_soft_regs
      /\ Co!riscv64_hard_regs = CoP!riscv64_hard_regs
  BY DEF Co!aarch64_regs, CoP!aarch64_regs, Co!riscv64_soft_regs, CoP!riscv64_soft_regs,
         Co!riscv64_hard_regs, CoP!riscv64_hard_regs
<1>2. \A m, x, w : Co!Put(m, x, w) = CoP!Put(m, x, w)
  BY DEF Co!Put, CoP!Put
<1>3. /\ Co!Zero = CoP!Zero /\ Co!co_entrypoint_pc = CoP!co_entrypoint_pc
      /\ \A x : Co!Addr(x) = CoP!Addr(x) /\ Co!AlignDown(x) = CoP!AlignDown(x)
      /\ \A e, r : Co!Slot(e, r) = CoP!Slot(e, r)
  BY DEF Co!Zero, CoP!Zero, Co!co_entrypoint_pc, CoP!co_entrypoint_pc, Co!Addr, CoP!Addr,
         Co!AlignDown, CoP!AlignDown, Co!Slot, CoP!Slot
<1>4. \A m, n, e : Co!aarch64_co_derive(m, n, e) = CoP!aarch64_co_derive(m, n, e)
  BY <1>1, <1>2, <1>3 DEF Co!aarch64_co_derive, CoP!aarch64_co_derive
<1>5. \A l, m, n, e : Co!riscv64_co_derive(l, m, n, e) = CoP!riscv64_co_derive(l, m, n, e)
  BY <1>2, <1>3 DEF Co!riscv64_co_derive, CoP!riscv64_co_derive
<1>6. \A m, n, e : /\ Co!amd64_co_derive(m, n, e) = CoP!amd64_co_derive(m, n, e)
                   /\ Co!arm_co_derive(m, n, e) = CoP!arm_co_derive(m, n, e)
  BY <1>2, <1>3 DEF Co!amd64_co_derive, CoP!amd64_co_derive, Co!arm_co_derive, CoP!arm_co_derive
<1>7. ASSUME NEW a, NEW m, NEW n, NEW e PROVE Co!Derived(a, m, n, e) = CoP!Derived(a, m, n, e)
  BY <1>1, <1>4, <1>5, <1>6, Zenon DEF Co!Derived, CoP!Derived
<1>8. \A h : Co!Ensured(arch, h) = CoP!Ensured(arch, h)
  BY <1>1 DEF Co!Ensured, CoP!Ensured, Co!RootHandle, CoP!RootHandle
<1>9. /\ \A x, y : Co!Over(x, y) = CoP!Over(x, y)
      /\ Co!Entry(t) = CoP!Entry(t) /\ Co!Region(t) = CoP!Region(t)
  BY DEF Co!Over, CoP!Over, Co!Entry, CoP!Entry, Co!Region, CoP!Region
<1> QED
  BY <1>7, <1>8, <1>9 DEF Co!co_derive, CoP!co_derive, Co!InClient, CoP!InClient, Co!Client,
         CoP!Client, Co!ROOT, CoP!ROOT

LEMMA SameActive == Co!co_active => CoP!co_active
  BY DEF Co!co_active, CoP!co_active, Co!InClient, CoP!InClient, Co!Client, CoP!Client, Co!ROOT,
         CoP!ROOT, Co!Ensured, CoP!Ensured, Co!RootHandle, CoP!RootHandle, Co!aarch64_regs,
         CoP!aarch64_regs, Co!riscv64_soft_regs, CoP!riscv64_soft_regs, Co!riscv64_hard_regs,
         CoP!riscv64_hard_regs

LEMMA SameSteps ==
  /\ Co!co_entrypoint => CoP!co_entrypoint
  /\ Co!ReachClient => CoP!ReachClient
  /\ \A k : Co!Compute(k) => CoP!Compute(k)
<1>1. Co!co_entrypoint => CoP!co_entrypoint
  BY DEF Co!co_entrypoint, CoP!co_entrypoint, Co!co_entrypoint_pc, CoP!co_entrypoint_pc,
         Co!EntryWord, CoP!EntryWord, Co!Slot, CoP!Slot, Co!aarch64_regs, CoP!aarch64_regs,
         Co!riscv64_soft_regs, CoP!riscv64_soft_regs, Co!riscv64_hard_regs, CoP!riscv64_hard_regs,
         Co!Read, CoP!Read, Co!Zero, CoP!Zero
<1>2. Co!ReachClient => CoP!ReachClient
  BY DEF Co!ReachClient, CoP!ReachClient, Co!Client, CoP!Client, Co!Entry, CoP!Entry, Co!Return,
         CoP!Return
<1>3. \A k : Co!Compute(k) => CoP!Compute(k)
  BY DEF Co!Compute, CoP!Compute, Co!InClient, CoP!InClient, Co!Client, CoP!Client, Co!FloatState,
         CoP!FloatState
<1> QED BY <1>1, <1>2, <1>3

LEMMA SameInit == (Co!Init => CoP!Init) /\ (Lib!Init => LibP!Init)
<1>1. Co!Init => CoP!Init
  BY DEF Co!Init, CoP!Init, Co!Registers, CoP!Registers, Co!CalleeSaved, CoP!CalleeSaved,
         Co!SavedRegisters, CoP!SavedRegisters, Co!FloatState, CoP!FloatState,
         Co!LinkRegister, CoP!LinkRegister, Co!Addr, CoP!Addr, Co!Client, CoP!Client, Co!Zero,
         CoP!Zero, Co!ROOT, CoP!ROOT, Co!InitialHandle, CoP!InitialHandle, Co!RootHandle,
         CoP!RootHandle, Co!Threads, CoP!Threads, Co!Cothreads, CoP!Cothreads, Co!aarch64_regs,
         CoP!aarch64_regs, Co!riscv64_soft_regs, CoP!riscv64_soft_regs, Co!riscv64_hard_regs,
         CoP!riscv64_hard_regs
<1>2. Lib!Init => LibP!Init
  BY DEF Lib!Init, LibP!Init, Lib!ROOT, LibP!ROOT, Lib!Threads, LibP!Threads, Lib!Cothreads,
         LibP!Cothreads, Lib!Sems, LibP!Sems, Lib!NULL, LibP!NULL, Lib!NoArg, LibP!NoArg,
         Lib!EmptySem, LibP!EmptySem, Lib!ZeroSem, LibP!ZeroSem
<1> QED BY <1>1, <1>2

LEMMA SameCalls ==
  /\ Lib!microkit_cothread_yield => LibP!microkit_cothread_yield
  /\ \A e, a : Lib!microkit_cothread_spawn(e, a) => LibP!microkit_cothread_spawn(e, a)
  /\ Lib!microkit_cothread_my_arg => LibP!microkit_cothread_my_arg
  /\ Lib!cothread_entry_wrapper => LibP!cothread_entry_wrapper
  /\ Lib!HandlerReturns => LibP!HandlerReturns
<1>1. \A q, st, site : Lib!internal_go_next(q, st, site) => LibP!internal_go_next(q, st, site)
  BY DEF Lib!internal_go_next, LibP!internal_go_next, Lib!FirstRunnable, LibP!FirstRunnable,
         Lib!ROOT, LibP!ROOT, Lib!co_switch, LibP!co_switch
<1>2. \A err : Lib!microkit_cothread_panic(err) => LibP!microkit_cothread_panic(err)
  BY DEF Lib!microkit_cothread_panic, LibP!microkit_cothread_panic, Lib!tcbs, LibP!tcbs, Lib!libco,
         LibP!libco
<1>3. Lib!microkit_cothread_yield => LibP!microkit_cothread_yield
  BY <1>1, <1>2 DEF Lib!microkit_cothread_yield, LibP!microkit_cothread_yield, Lib!InClient,
         LibP!InClient, Lib!Full, LibP!Full
<1>4. \A e, a : Lib!microkit_cothread_spawn(e, a) => LibP!microkit_cothread_spawn(e, a)
  BY <1>2 DEF Lib!microkit_cothread_spawn, LibP!microkit_cothread_spawn, Lib!InClient,
         LibP!InClient, Lib!Obey, LibP!Obey, Lib!spawn, LibP!spawn, Lib!ROOT, LibP!ROOT, Lib!Full,
         LibP!Full, Lib!vars, LibP!vars, Lib!tcbs, LibP!tcbs, Lib!libco, LibP!libco, Lib!NULL,
         LibP!NULL
<1>5. Lib!microkit_cothread_my_arg => LibP!microkit_cothread_my_arg
  BY <1>2 DEF Lib!microkit_cothread_my_arg, LibP!microkit_cothread_my_arg, Lib!InClient,
         LibP!InClient, Lib!Obey, LibP!Obey, Lib!ROOT, LibP!ROOT, Lib!vars, LibP!vars, Lib!tcbs,
         LibP!tcbs, Lib!libco, LibP!libco
<1>6. Lib!cothread_entry_wrapper => LibP!cothread_entry_wrapper
  BY <1>1, <1>2 DEF Lib!cothread_entry_wrapper, LibP!cothread_entry_wrapper, Lib!InClient,
         LibP!InClient, Lib!ROOT, LibP!ROOT, Lib!destroy, LibP!destroy, Lib!Threads, LibP!Threads,
         Lib!Full, LibP!Full, Lib!Release, LibP!Release, Lib!libco, LibP!libco
<1>7. Lib!HandlerReturns => LibP!HandlerReturns
  BY DEF Lib!HandlerReturns, LibP!HandlerReturns, Lib!InClient, LibP!InClient, Lib!ROOT, LibP!ROOT,
         Lib!tcbs, LibP!tcbs, Lib!libco, LibP!libco
<1> QED BY <1>3, <1>4, <1>5, <1>6, <1>7

LEMMA LibraryPlaced ==
  LibP!SizeAssumption /\ LibP!SemsAssumption /\ LibP!RulesAssumption
  BY DEF LibP!SizeAssumption, LibP!SemsAssumption, LibP!RulesAssumption

LEMMA SameThreads ==
  /\ CoP!Cothreads = Cothreads /\ CoP!Threads = 0 .. 3 /\ LibP!Threads = 0 .. 3
  /\ CoP!ROOT = 0 /\ LibP!ROOT = 0 /\ CoP!SavedRegisters(arch) = Co!SavedRegisters(arch)
<1>1. CoP!Cothreads = Cothreads /\ CoP!ROOT = 0 /\ LibP!ROOT = 0
  BY StacksAssumption DEF CoP!Cothreads, CoP!ROOT, LibP!ROOT
<1>2. CoP!Threads = 0 .. 3 /\ LibP!Threads = 0 .. 3
  BY <1>1 DEF CoP!Threads, LibP!Threads, Cothreads
<1> QED BY <1>1, <1>2 DEF CoP!SavedRegisters, Co!SavedRegisters

-----------------------------------------------------------------------------
(* The invariant: that of the library, that of the contexts, that the pool *)
(* never holds the root thread, and where root's variables are.            *)
FreeInv == free_handle_queue \in Seq(Cothreads)

RootRegister(r) == IF co_active_handle = ROOT THEN regs[r] ELSE saved[ROOT][r]

FloatsInv ==
  line # 23 => \A r \in Co!SavedRegisters(arch) \ {"sp"} : RootRegister(r) = <<r, 1>>

SimpleInv == LibP!AnyInv /\ CoP!ContextInv /\ FreeInv /\ FloatsInv

(* A step of the example is one of the library, or leaves it alone.        *)
LEMMA LibraryStep == Next => [LibP!Next]_(LibP!vars)
<1> SUFFICES ASSUME Next PROVE [LibP!Next]_(LibP!vars)
  OBVIOUS
<1>1. CASE UNCHANGED library
  BY <1>1 DEF library, LibP!vars, LibP!tcbs, LibP!libco
<1>2. CASE Yield
  BY <1>2, SameCalls DEF Yield, LibP!Next
<1>3. CASE Spawn
  <2>1. PICK a \in 1 .. 7 : Lib!microkit_cothread_spawn("entry", a)
    BY <1>3 DEF Spawn
  <2> QED BY <2>1, SameCalls DEF LibP!Next
<1>4. CASE SpawnTooMany
  <2>1. PICK a \in 1 .. 7 : Lib!microkit_cothread_spawn("entry", a)
    BY <1>4 DEF SpawnTooMany
  <2> QED BY <2>1, SameCalls DEF LibP!Next
<1>5. CASE Done
  BY <1>5, SameCalls DEF Done, LibP!Next
<1>6. ASSUME NEW t \in Cothreads, Greet(t) PROVE [LibP!Next]_(LibP!vars)
  BY <1>6, SameCalls DEF Greet, LibP!Next
<1>7. ASSUME NEW t \in Cothreads, Leave(t) PROVE [LibP!Next]_(LibP!vars)
  BY <1>7, SameCalls DEF Leave, LibP!Next
<1>8. CASE Floats \/ Initialise \/ PrintFloats \/ Resume
  BY <1>1, <1>8 DEF Floats, Initialise, PrintFloats, Resume
<1> QED BY <1>2, <1>3, <1>4, <1>5, <1>6, <1>7, <1>8 DEF Next

LEMMA LibraryKept == LibP!AnyInv /\ [Next]_vars => LibP!AnyInv'
<1>1. [Next]_vars => [LibP!Next]_(LibP!vars)
  BY LibraryStep DEF vars, library, LibP!vars, LibP!tcbs, LibP!libco
<1> QED BY <1>1, LibraryPlaced, LibP!AnyStep

(* The library and libco agree on who is running.                          *)
LEMMA Callers ==
  ASSUME LibP!AnyInv
  PROVE  co_active_handle = running /\ co_active_handle \in 0 .. 3
  BY SameThreads DEF LibP!AnyInv, LibP!CallerInv, LibP!TypeOK

-----------------------------------------------------------------------------
(* The pool.                                                               *)
LEMMA FreeKept == LibP!AnyInv /\ FreeInv /\ [Next]_vars => FreeInv'
<1> SUFFICES ASSUME LibP!AnyInv, FreeInv, [Next]_vars PROVE FreeInv'
  OBVIOUS
<1>1. CASE UNCHANGED free_handle_queue
  BY <1>1 DEF FreeInv
<1>2. ASSUME NEW a, Lib!microkit_cothread_spawn("entry", a) PROVE FreeInv'
  <2>1. \/ UNCHANGED free_handle_queue
        \/ free_handle_queue # <<>> /\ free_handle_queue' = Tail(free_handle_queue)
    BY <1>2, SameCalls DEF LibP!microkit_cothread_spawn, LibP!spawn, LibP!microkit_cothread_panic, LibP!vars
  <2> QED BY <1>1, <2>1, HeadTailProperties DEF FreeInv
<1>3. ASSUME NEW t \in Cothreads, Leave(t) PROVE FreeInv'
  <2>1. \/ UNCHANGED free_handle_queue
        \/ free_handle_queue' = Append(free_handle_queue, t)
    BY <1>3, SameCalls DEF Leave, InClient, LibP!cothread_entry_wrapper, LibP!destroy, LibP!Release, LibP!microkit_cothread_panic
  <2> QED BY <1>1, <2>1, AppendProperties DEF FreeInv
<1>4. CASE Yield
  BY <1>1, <1>4, SameCalls DEF Yield, LibP!microkit_cothread_yield, LibP!microkit_cothread_panic
<1>5. CASE Done
  BY <1>1, <1>5, SameCalls DEF Done, LibP!HandlerReturns
<1>6. ASSUME NEW t \in Cothreads, Greet(t) PROVE FreeInv'
  BY <1>1, <1>6, SameCalls DEF Greet, LibP!microkit_cothread_my_arg, LibP!microkit_cothread_panic, LibP!vars
<1>7. CASE Spawn \/ SpawnTooMany
  BY <1>2, <1>7 DEF Spawn, SpawnTooMany
<1>8. CASE Floats \/ Initialise \/ PrintFloats \/ Resume \/ UNCHANGED vars
  BY <1>1, <1>8 DEF Floats, Initialise, PrintFloats, Resume, vars, library
<1> QED BY <1>3, <1>4, <1>5, <1>6, <1>7, <1>8 DEF Next

(* The handle a spawn takes is a cothread's.                               *)
LEMMA FreeHead ==
  ASSUME FreeInv, free_handle_queue # <<>>
  PROVE  Head(free_handle_queue) \in Cothreads
  BY HeadTailProperties DEF FreeInv

-----------------------------------------------------------------------------
(* The contexts.                                                           *)
LEMMA MachineStays ==
  ASSUME CoP!ContextsLow, CoP!ContextInv, UNCHANGED machine, UNCHANGED co_active_handle
  PROVE  CoP!ContextInv'
<1>1. UNCHANGED CoP!vars
  BY DEF machine, CoP!vars
<1> QED BY <1>1, StacksPlaced, CoP!NextContext

(* Only a switch changes whose registers the CPU holds.                    *)
LEMMA SameCaller ==
  ASSUME \/ Spawn \/ SpawnTooMany \/ Done
         \/ \E t \in Cothreads : Greet(t)
  PROVE  UNCHANGED co_active_handle
<1>1. ASSUME NEW a, Lib!microkit_cothread_spawn("entry", a) PROVE UNCHANGED co_active_handle
  BY <1>1, SameCalls DEF LibP!microkit_cothread_spawn, LibP!spawn, LibP!microkit_cothread_panic, LibP!vars, LibP!libco
<1>2. CASE Spawn \/ SpawnTooMany
  BY <1>1, <1>2 DEF Spawn, SpawnTooMany
<1>3. CASE Done
  BY <1>3, SameCalls DEF Done, LibP!HandlerReturns, LibP!libco
<1>4. CASE \E t \in Cothreads : Greet(t)
  BY <1>4, SameCalls DEF Greet, LibP!microkit_cothread_my_arg, LibP!microkit_cothread_panic, LibP!vars, LibP!libco
<1> QED BY <1>2, <1>3, <1>4

(* A switch, by root or by a cothread that ends.                           *)
LEMMA Switched ==
  ASSUME CoP!ContextsLow, LibP!AnyInv, CoP!ContextInv, LibP!AnyInv',
         Co!co_switch(co_active_handle')
  PROVE  /\ CoP!ContextInv'
         /\ regs'["pc"] # CoP!Client(co_active_handle')
         /\ saved' = [saved EXCEPT ![running] = [r \in CoP!CalleeSaved(arch) |-> regs[r]]]
         /\ UNCHANGED arch
<1>1. PICK u \in CoP!Threads : u = co_active_handle'
  BY SameThreads DEF LibP!AnyInv, LibP!TypeOK
<1>2. CoP!co_switch(u)
  BY <1>1, SameSwitch
<1>3. CoP!ContextInv' /\ regs'["pc"] # CoP!Client(u)
  BY <1>2, StacksPlaced, CoP!SwitchStep
<1> QED BY <1>1, <1>2, <1>3, Callers DEF CoP!co_switch

LEMMA ContextKept ==
  ASSUME CoP!ContextsLow, LibP!AnyInv, CoP!ContextInv, FreeInv, LibP!AnyInv', [Next]_vars
  PROVE  CoP!ContextInv'
<1>1. CASE Floats
  BY <1>1, SameSteps, StacksPlaced, CoP!ComputeStep DEF Floats
<1>2. CASE Initialise
  BY <1>2, SameActive, StacksPlaced, CoP!ActiveStep DEF Initialise
<1>3. CASE Yield
  BY <1>3, Switched DEF Yield
<1>4. CASE Spawn
  <2>1. CASE free_handle_queue = <<>>
    BY <1>4, <2>1, SameCaller, MachineStays DEF Spawn
  <2>2. CASE free_handle_queue # <<>>
    <3>1. PICK u \in CoP!Cothreads : u = Head(free_handle_queue)
      BY <2>2, FreeHead, SameThreads
    <3>2. CoP!co_derive(u)
      BY <1>4, <2>2, <3>1, SameDerive DEF Spawn
    <3> QED BY <3>2, StacksPlaced, CoP!DeriveStep
  <2> QED BY <2>1, <2>2
<1>5. CASE SpawnTooMany \/ Done
  BY <1>5, SameCaller, MachineStays DEF SpawnTooMany, Done
<1>6. CASE PrintFloats \/ UNCHANGED vars
  BY <1>6, MachineStays DEF PrintFloats, vars, library
<1>7. ASSUME NEW t \in Cothreads, Greet(t) PROVE CoP!ContextInv'
  BY <1>7, SameSteps, StacksPlaced, CoP!ComputeStep DEF Greet
<1>8. ASSUME NEW t \in Cothreads, Leave(t) PROVE CoP!ContextInv'
  BY <1>8, Switched DEF Leave
<1>9. CASE Resume
  BY <1>9, SameSteps, StacksPlaced, CoP!EntrypointStep, CoP!ReachStep DEF Resume
<1> QED BY <1>1, <1>2, <1>3, <1>4, <1>5, <1>6, <1>7, <1>8, <1>9 DEF Next

-----------------------------------------------------------------------------
(* Root's registers: with the CPU, or saved until it has it again.         *)
LEMMA FloatsFollow ==
  ASSUME CoP!ContextsLow, LibP!AnyInv, CoP!ContextInv, FreeInv, FloatsInv,
         LibP!AnyInv', CoP!ContextInv', [Next]_vars
  PROVE  FloatsInv'
<1> DEFINE own == CoP!SavedRegisters(arch) \ {"sp"}
<1>1. own = Co!SavedRegisters(arch) \ {"sp"}
  BY SameThreads
<1>2. /\ \A r \in own : r \in DOMAIN regs /\ r \notin {"sp", "pc"} /\ r \notin CoP!FloatState(arch)
      /\ own \subseteq CoP!CalleeSaved(arch)
  <2>1. DOMAIN regs = CoP!Registers(arch) /\ arch \in Archs
    BY DEF CoP!ContextInv, CoP!Running, CoP!TypePart
  <2>2. "pc" \notin CoP!SavedRegisters(arch) /\ CoP!SavedRegisters(arch) \cap CoP!FloatState(arch) = {}
    BY <2>1, StacksPlaced DEF CoP!ArchsAssumption, CoP!ArchNames, CoP!SavedRegisters, CoP!FloatState
  <2> QED BY <2>1, <2>2 DEF CoP!Registers, CoP!CalleeSaved
<1>3. DOMAIN saved = 0 .. 3 /\ ROOT \in DOMAIN saved
  BY SameThreads DEF CoP!ContextInv, CoP!TypePart, ROOT
<1>4. CASE Floats
  <2>1. co_active_handle = 0 /\ UNCHANGED co_active_handle /\ CoP!Compute(1)
    BY <1>4, Callers, SameSteps DEF Floats, RootAt, InClient, ROOT, library
  <2>2. UNCHANGED arch /\ \A r \in own : regs'[r] = <<r, 1>>
    BY <1>2, <2>1 DEF CoP!Compute
  <2> QED BY <1>1, <2>1, <2>2 DEF FloatsInv, RootRegister, ROOT, Co!SavedRegisters
<1>5. ASSUME NEW t \in 0 .. 3, InClient(t), Co!co_switch(co_active_handle'),
             line = 23 => line' = 23
      PROVE  FloatsInv'
  <2>1. /\ regs'["pc"] # CoP!Client(co_active_handle')
        /\ saved' = [saved EXCEPT ![running] = [r \in CoP!CalleeSaved(arch) |-> regs[r]]]
        /\ UNCHANGED arch
    BY <1>5, Switched
  <2>2. co_active_handle = running
    BY Callers
  <2>3. \A r \in own : saved'[ROOT][r] = RootRegister(r)
    BY <1>2, <1>3, <2>1, <2>2 DEF RootRegister
  <2>4. co_active_handle' = ROOT => \A r \in own : regs'[r] = saved'[ROOT][r]
    <3> SUFFICES ASSUME co_active_handle' = ROOT PROVE \A r \in own : regs'[r] = saved'[ROOT][r]
      OBVIOUS
    <3>1. CoP!Running(arch, regs', mem', ROOT, saved'[ROOT], frames'[ROOT])
      BY <2>1 DEF CoP!ContextInv
    <3>2. regs'["pc"] = CoP!Return(ROOT)
      BY <2>1, <3>1 DEF CoP!Running, CoP!ROOT, ROOT
    <3> QED BY <3>1, <3>2 DEF CoP!Running
  <2>5. \A r \in own : RootRegister(r)' = RootRegister(r)
    BY <2>3, <2>4 DEF RootRegister
  <2> QED BY <1>1, <1>5, <2>1, <2>5 DEF FloatsInv, Co!SavedRegisters
<1>6. ASSUME UNCHANGED co_active_handle, UNCHANGED arch, UNCHANGED saved[ROOT],
             co_active_handle = ROOT => \A r \in own : regs'[r] = regs[r],
             line = 23 => line' = 23
      PROVE  FloatsInv'
  BY <1>1, <1>6 DEF FloatsInv, RootRegister, Co!SavedRegisters
<1>7. CASE Initialise \/ PrintFloats \/ UNCHANGED vars
  BY <1>6, <1>7 DEF Initialise, PrintFloats, RootAt, vars, library, machine, Co!co_active
<1>8. CASE SpawnTooMany \/ Done
  BY <1>6, <1>8, SameCaller DEF SpawnTooMany, Done, RootAt, machine
<1>9. CASE Yield
  BY <1>5, <1>9 DEF Yield, RootAt, ROOT
<1>10. ASSUME NEW t \in Cothreads, Leave(t) PROVE FloatsInv'
  BY <1>5, <1>10 DEF Leave, Cothreads
<1>11. CASE Spawn
  <2>1. line # 23 /\ UNCHANGED co_active_handle
    BY <1>11, SameCaller DEF Spawn, RootAt
  <2>2. UNCHANGED <<arch, regs>> /\ UNCHANGED saved[ROOT]
    BY <1>3, <1>11, FreeHead DEF Spawn, Co!co_derive, machine, Cothreads, ROOT
  <2> QED BY <1>6, <2>1, <2>2
<1>12. ASSUME NEW t \in Cothreads, Greet(t) PROVE FloatsInv'
  <2>1. UNCHANGED co_active_handle
    BY <1>12, SameCaller
  <2>2. co_active_handle # ROOT
    BY <1>12, Callers DEF Greet, InClient, Cothreads, ROOT
  <2> QED BY <1>6, <1>12, <2>1, <2>2 DEF Greet, Co!Compute
<1>13. CASE Resume
  <2>1. UNCHANGED <<arch, saved, co_active_handle, line>>
    BY <1>13 DEF Resume, library, Co!co_entrypoint, Co!ReachClient
  <2>2. \A r \in own : regs'[r] = regs[r]
    BY <1>2, <1>13 DEF Resume, Co!co_entrypoint, Co!ReachClient
  <2> QED BY <1>6, <2>1, <2>2
<1> QED BY <1>4, <1>7, <1>8, <1>9, <1>10, <1>11, <1>12, <1>13 DEF Next

-----------------------------------------------------------------------------
LEMMA SimpleInit == Init => SimpleInv
<1> SUFFICES ASSUME Init PROVE SimpleInv
  OBVIOUS
<1>1. LibP!AnyInv
  BY SameInit, LibraryPlaced, LibP!AnyInit DEF Init
<1>2. CoP!ContextInv
  BY SameInit, StacksPlaced, CoP!InitContext DEF Init
<1>3. FreeInv
  <2>1. free_handle_queue = [i \in Cothreads |-> i]
    BY SameInit DEF Init, LibP!Init, LibP!Cothreads, Cothreads
  <2>2. free_handle_queue \in [1 .. 3 -> Cothreads] /\ 3 \in Nat
    BY <2>1 DEF Cothreads
  <2> QED BY <2>2, SeqDef DEF FreeInv
<1> QED BY <1>1, <1>2, <1>3 DEF SimpleInv, FloatsInv, Init

LEMMA SimpleCorrect == Co!ContextsLow => (Spec => []SimpleInv)
<1> SUFFICES ASSUME Co!ContextsLow PROVE Spec => []SimpleInv
  OBVIOUS
<1>1. SimpleInv /\ [Next]_vars => SimpleInv'
  BY SameLow, LibraryKept, FreeKept, ContextKept, FloatsFollow DEF SimpleInv
<1> QED BY <1>1, SimpleInit, PTL DEF Spec

(* Library and libco together, wherever the stacks are: at every moment    *)
(* the CPU executes the thread that the scheduler takes to be running; on  *)
(* RISC-V, if the stacks are below 2^31.                                   *)
THEOREM CpuFollows == Co!ContextsLow => (Spec => []CpuFollowsScheduler)
<1>1. SimpleInv => CpuFollowsScheduler
  BY DEF SimpleInv, CoP!ContextInv, CoP!Running, CoP!HandlePart, CpuFollowsScheduler,
         Co!ControlFollows, Co!Client, CoP!Client, Co!Return, CoP!Return, Co!Entry, CoP!Entry,
         Co!co_entrypoint_pc, CoP!co_entrypoint_pc, Co!ROOT, CoP!ROOT
<1> QED BY <1>1, SimpleCorrect, PTL

(* What init keeps in registers comes through all the cothreads it runs,   *)
(* under the same condition.                                               *)
THEOREM FloatsSurvive == Co!ContextsLow => (Spec => []FloatsKept)
<1>1. SimpleInv => FloatsKept
  BY Callers DEF SimpleInv, FloatsInv, FloatsKept, RootRegister, RootAt, InClient, ROOT
<1> QED BY <1>1, SimpleCorrect, PTL

-----------------------------------------------------------------------------
(* The program.  All cothreads run to their end in a yield of init, one    *)
(* after the other, so two situations cover it.  The first k cothreads of  *)
(* a round have been spawned; or the k-th is running, those before it have *)
(* left and those after it wait for their turn.                            *)
From(k) == [i \in 1 .. 4 - k |-> k + i - 1]         \* <<k, ..., 3>>
UpTo(k) == [i \in 1 .. k |-> i]                     \* <<1, ..., k>>

(* The root thread's lines: how many are spawned, how many have greeted.   *)
SpawnedAt(l) ==
  CASE l \in {52, 69} -> 1 [] l \in {53, 70} -> 2 [] l \in {55, 62, 72, 77} -> 3
    [] OTHER -> 0
GreetedAt(l) == IF l < 66 THEN 0 ELSE IF l < 80 THEN 3 ELSE 6

ProgramLines == {23, 41, 49, 51, 52, 53, 55, 62, 66, 68, 69, 70, 72, 77, 80, 82}

Greeted(n) == Len(hello) = n /\ \A i \in 1 .. n : hello[i] = i

(* Cothread t waits to run for the first time, with its argument.          *)
WaitsForTurn(t, greeted) ==
  state[t] = "ready" /\ co_line[t] = 18 /\ private_arg[t] = greeted + t

InInit ==
  LET k == SpawnedAt(line)
      n == GreetedAt(line)
  IN  /\ running = ROOT /\ line \in ProgramLines
      /\ scheduling_queue = UpTo(k) /\ free_handle_queue = From(k + 1)
      /\ \A t \in Cothreads : IF t <= k THEN WaitsForTurn(t, n) ELSE state[t] = "not_active"
      /\ Greeted(n)
      /\ event_loop <=> line = 82

InCothread(k) ==
  LET n == GreetedAt(line) - 3
  IN  /\ running = k /\ line \in {66, 80}
      /\ scheduling_queue = Append(From(k + 1), ROOT) /\ free_handle_queue = UpTo(k - 1)
      /\ \A t \in Cothreads : /\ t > k => WaitsForTurn(t, n)
                              /\ t < k => state[t] = "not_active"
      /\ state[k] = "running" /\ private_arg[k] = n + k
      /\ \/ co_line[k] = 18 /\ Greeted(n + k - 1)
         \/ co_line[k] = 20 /\ Greeted(n + k)
      /\ ~event_loop

ProgramInv ==
  /\ fault = "none"
  /\ DOMAIN state = 0 .. 3 /\ DOMAIN private_arg = 0 .. 3 /\ DOMAIN co_line = Cothreads
  /\ hello \in Seq(1 .. 6)
  /\ InInit \/ \E k \in Cothreads : InCothread(k)

LEMMA Runs ==
  /\ From(4) = <<>> /\ UpTo(0) = <<>>
  /\ \A k \in 0 .. 3 : UpTo(k) \in Seq(0 .. 3) /\ Len(UpTo(k)) = k
  /\ \A k \in 1 .. 4 : From(k) \in Seq(0 .. 3) /\ Len(From(k)) = 4 - k
  /\ \A k \in 1 .. 3 : From(k) # <<>> /\ Head(From(k)) = k /\ Tail(From(k)) = From(k + 1)
  /\ \A k \in 0 .. 2 : Append(UpTo(k), k + 1) = UpTo(k + 1)
<1>1. \A k \in 0 .. 3 : UpTo(k) \in Seq(0 .. 3) /\ Len(UpTo(k)) = k
  <2> SUFFICES ASSUME NEW k \in 0 .. 3 PROVE UpTo(k) \in Seq(0 .. 3) /\ Len(UpTo(k)) = k
    OBVIOUS
  <2>1. UpTo(k) \in [1 .. k -> 0 .. 3]
    BY DEF UpTo
  <2> QED BY <2>1, SeqDef, LenProperties
<1>2. \A k \in 1 .. 4 : From(k) \in Seq(0 .. 3) /\ Len(From(k)) = 4 - k
  <2> SUFFICES ASSUME NEW k \in 1 .. 4 PROVE From(k) \in Seq(0 .. 3) /\ Len(From(k)) = 4 - k
    OBVIOUS
  <2>1. From(k) \in [1 .. 4 - k -> 0 .. 3] /\ 4 - k \in Nat
    BY DEF From
  <2> QED BY <2>1, SeqDef, LenProperties
<1>3. From(4) = <<>> /\ UpTo(0) = <<>>
  BY <1>1, <1>2, EmptySeq
<1>4. ASSUME NEW k \in 1 .. 3
      PROVE  From(k) # <<>> /\ Head(From(k)) = k /\ Tail(From(k)) = From(k + 1)
  <2>1. From(k) \in Seq(0 .. 3) /\ Len(From(k)) = 4 - k /\ From(k + 1) \in Seq(0 .. 3) /\ Len(From(k + 1)) = 4 - (k + 1)
    BY <1>2
  <2>2. From(k) # <<>>
    BY <2>1, EmptySeq
  <2>3. /\ Head(From(k)) = From(k)[1] /\ Tail(From(k)) \in Seq(0 .. 3)
        /\ Len(Tail(From(k))) = Len(From(k)) - 1
        /\ \A i \in 1 .. Len(Tail(From(k))) : Tail(From(k))[i] = From(k)[i + 1]
    BY <2>1, <2>2, HeadTailProperties
  <2>4. Head(From(k)) = k
    BY <2>3 DEF From
  <2>5. \A i \in 1 .. 3 - k : Tail(From(k))[i] = From(k + 1)[i]
    BY <2>1, <2>3 DEF From
  <2> QED BY <2>1, <2>2, <2>3, <2>4, <2>5, SeqEqual
<1>5. ASSUME NEW k \in 0 .. 2 PROVE Append(UpTo(k), k + 1) = UpTo(k + 1)
  <2>1. UpTo(k) \in Seq(0 .. 3) /\ Len(UpTo(k)) = k /\ UpTo(k + 1) \in Seq(0 .. 3) /\ Len(UpTo(k + 1)) = k + 1
    <3>1. k \in 0 .. 3 /\ k + 1 \in 0 .. 3
      OBVIOUS
    <3> QED BY <1>1, <3>1
  <2>2. /\ Append(UpTo(k), k + 1) \in Seq(0 .. 3) /\ Len(Append(UpTo(k), k + 1)) = k + 1
        /\ \A i \in 1 .. k : Append(UpTo(k), k + 1)[i] = UpTo(k)[i]
        /\ Append(UpTo(k), k + 1)[k + 1] = k + 1
    BY <2>1, AppendProperties
  <2>3. \A i \in 1 .. k + 1 : Append(UpTo(k), k + 1)[i] = UpTo(k + 1)[i]
    BY <2>2 DEF UpTo
  <2> QED BY <2>1, <2>2, <2>3, SeqEqual
<1> QED BY <1>1, <1>2, <1>3, <1>4, <1>5

(* The scheduler takes the first entry when that can run.                  *)
LEMMA FirstRuns ==
  ASSUME NEW q \in Seq(0 .. 3), q # <<>>, NEW st, NEW site,
         Head(q) = ROOT \/ st[Head(q)] = "ready",
         LibP!internal_go_next(q, st, site)
  PROVE  /\ scheduling_queue' = Tail(q) /\ running' = Head(q)
         /\ state' = [st EXCEPT ![Head(q)] = "running"]
<1>1. PICK i \in LibP!FirstRunnable(q, st) :
        LET next == IF i <= Len(q) THEN q[i] ELSE LibP!ROOT
        IN  /\ scheduling_queue' = SubSeq(q, i + 1, Len(q))
            /\ state' = [st EXCEPT ![next] = "running"]
            /\ running' = next
  BY DEF LibP!internal_go_next
<1>2. Len(q) \in Nat /\ Len(q) >= 1 /\ Head(q) = q[1] /\ Tail(q) = SubSeq(q, 2, Len(q))
  BY EmptySeq, HeadTailProperties
<1>3. i = 1
  BY <1>2, SameThreads DEF LibP!FirstRunnable, ROOT
<1> QED BY <1>1, <1>2, <1>3

(* A cothread greets.                                                      *)
LEMMA OneMore ==
  ASSUME hello \in Seq(1 .. 6), NEW n \in 0 .. 5, Greeted(n), hello' = Append(hello, n + 1)
  PROVE  Greeted(n + 1)' /\ hello' \in Seq(1 .. 6)
<1>1. /\ Len(hello') = n + 1 /\ \A i \in 1 .. n : hello'[i] = hello[i]
      /\ hello'[n + 1] = n + 1 /\ hello' \in Seq(1 .. 6)
  BY AppendProperties DEF Greeted
<1> QED BY <1>1 DEF Greeted

LEMMA ProgramInit == Init => ProgramInv
<1> SUFFICES ASSUME Init PROVE ProgramInv
  OBVIOUS
<1>1. /\ running = 0 /\ fault = "none" /\ event_loop = FALSE /\ scheduling_queue = <<>>
      /\ state = [t \in 0 .. 3 |-> IF t = 0 THEN "running" ELSE "not_active"]
      /\ free_handle_queue = [i \in 1 .. 3 |-> i]
      /\ DOMAIN private_arg = 0 .. 3
  BY SameInit, SameThreads DEF Init, LibP!Init, LibP!Cothreads
<1>2. SpawnedAt(line) = 0 /\ GreetedAt(line) = 0 /\ line \in ProgramLines /\ line # 82
  BY DEF Init, SpawnedAt, GreetedAt, ProgramLines
<1>3. free_handle_queue = From(1)
  BY <1>1 DEF From
<1>4. hello \in Seq(1 .. 6) /\ Greeted(0)
  BY EmptySeq DEF Init, Greeted
<1>5. InInit
  BY <1>1, <1>2, <1>3, <1>4, Runs DEF InInit, ROOT, Cothreads
<1> QED BY <1>1, <1>4, <1>5 DEF ProgramInv, Init

(* Steps that leave the library and the cothreads where they are.          *)
LEMMA ProgramStays ==
  ASSUME ProgramInv, UNCHANGED <<library, co_line, hello>>,
         \/ line' = line
         \/ /\ line # 82 /\ line' # 82 /\ line' \in ProgramLines /\ InInit
            /\ SpawnedAt(line') = SpawnedAt(line) /\ GreetedAt(line') = GreetedAt(line)
  PROVE  ProgramInv'
<1>1. InInit => InInit'
  BY DEF InInit, WaitsForTurn, Greeted, library, SpawnedAt, GreetedAt
<1>2. ASSUME NEW k \in Cothreads, InCothread(k), line' = line PROVE InCothread(k)'
  BY <1>2 DEF InCothread, WaitsForTurn, Greeted, library, SpawnedAt, GreetedAt
<1> QED BY <1>1, <1>2 DEF ProgramInv, library

(* The last of a round's spawns included, a spawn takes the next handle.   *)
LEMMA SpawnStep == ProgramInv /\ Spawn => ProgramInv'
<1> SUFFICES ASSUME ProgramInv, Spawn PROVE ProgramInv'
  OBVIOUS
<1>1. PICK l \in {<<51, 52, 1>>, <<52, 53, 2>>, <<53, 55, 3>>,
                  <<68, 69, 4>>, <<69, 70, 5>>, <<70, 72, 6>>} :
        /\ RootAt(l[1]) /\ line' = l[2]
        /\ Lib!microkit_cothread_spawn("entry", l[3])
  BY DEF Spawn
<1>2. PICK k \in 0 .. 2, n \in {0, 3} :
        /\ SpawnedAt(line) = k /\ SpawnedAt(line') = k + 1 /\ l[3] = n + k + 1
        /\ GreetedAt(line) = n /\ GreetedAt(line') = n
        /\ line' \in ProgramLines /\ line' # 82 /\ line # 82
  <2>1. line = l[1] /\ line' = l[2]
    BY <1>1 DEF RootAt
  <2>2. CASE l = <<51, 52, 1>>
    BY <2>1, <2>2 DEF SpawnedAt, GreetedAt, ProgramLines
  <2>3. CASE l = <<52, 53, 2>>
    BY <2>1, <2>3 DEF SpawnedAt, GreetedAt, ProgramLines
  <2>4. CASE l = <<53, 55, 3>>
    BY <2>1, <2>4 DEF SpawnedAt, GreetedAt, ProgramLines
  <2>5. CASE l = <<68, 69, 4>>
    BY <2>1, <2>5 DEF SpawnedAt, GreetedAt, ProgramLines
  <2>6. CASE l = <<69, 70, 5>>
    BY <2>1, <2>6 DEF SpawnedAt, GreetedAt, ProgramLines
  <2>7. CASE l = <<70, 72, 6>>
    BY <2>1, <2>7 DEF SpawnedAt, GreetedAt, ProgramLines
  <2> QED BY <2>2, <2>3, <2>4, <2>5, <2>6, <2>7
<1>3. InInit
  BY <1>1 DEF ProgramInv, InCothread, RootAt, InClient, ROOT, Cothreads
<1>4. /\ scheduling_queue = UpTo(k) /\ free_handle_queue = From(k + 1) /\ ~event_loop
      /\ \A t \in Cothreads : IF t <= k THEN WaitsForTurn(t, n) ELSE state[t] = "not_active"
      /\ Greeted(n) /\ running = 0
  BY <1>2, <1>3 DEF InInit, ROOT
<1>5. /\ free_handle_queue # <<>> /\ Head(free_handle_queue) = k + 1
      /\ Tail(free_handle_queue) = From(k + 2)
      /\ Len(scheduling_queue) = k /\ Append(scheduling_queue, k + 1) = UpTo(k + 1)
  <2>1. k + 1 \in 1 .. 3 /\ k \in 0 .. 3 /\ (k + 1) + 1 = k + 2
    OBVIOUS
  <2> QED BY <1>4, <2>1, Runs
<1>6. /\ free_handle_queue' = From(k + 2) /\ scheduling_queue' = UpTo(k + 1)
      /\ private_arg' = [private_arg EXCEPT ![k + 1] = n + k + 1]
      /\ state' = [state EXCEPT ![k + 1] = "ready"]
      /\ UNCHANGED <<running, event_loop, fault>>
  <2>1. LibP!spawn(k + 1, n + k + 1)
    BY <1>1, <1>2, <1>5, SameCalls DEF LibP!microkit_cothread_spawn
  <2>2. ~LibP!Full(scheduling_queue) /\ k + 1 # LibP!ROOT
    BY <1>5, SameThreads DEF LibP!Full
  <2> QED BY <1>5, <2>1, <2>2 DEF LibP!spawn
<1>7. co_line' = [co_line EXCEPT ![k + 1] = 18] /\ UNCHANGED hello
  BY <1>5 DEF Spawn
<1>8. \A t \in Cothreads : IF t <= k + 1 THEN WaitsForTurn(t, n)' ELSE state'[t] = "not_active"
  <2> SUFFICES ASSUME NEW t \in Cothreads
               PROVE  IF t <= k + 1 THEN WaitsForTurn(t, n)' ELSE state'[t] = "not_active"
    OBVIOUS
  <2>1. t \in DOMAIN state /\ t \in DOMAIN private_arg /\ t \in DOMAIN co_line /\ t \in 1 .. 3
    BY DEF ProgramInv, Cothreads
  <2>2. CASE t = k + 1
    BY <1>6, <1>7, <2>1, <2>2 DEF WaitsForTurn
  <2>3. CASE t # k + 1
    BY <1>4, <1>6, <1>7, <2>1, <2>3 DEF WaitsForTurn
  <2> QED BY <2>2, <2>3
<1>9. InInit'
  <2>1. (k + 1) + 1 = k + 2 /\ Greeted(n)'
    BY <1>4, <1>7 DEF Greeted
  <2> QED BY <1>2, <1>4, <1>6, <1>8, <2>1 DEF InInit, ROOT
<1> QED BY <1>6, <1>7, <1>9 DEF ProgramInv

(* The pool is empty when one cothread too many is asked for.              *)
LEMMA TooManyStep == ProgramInv /\ SpawnTooMany => ProgramInv'
<1> SUFFICES ASSUME ProgramInv, SpawnTooMany PROVE ProgramInv'
  OBVIOUS
<1>1. PICK l \in {<<55, 62, 4>>, <<72, 77, 7>>} :
        /\ RootAt(l[1])
        /\ Lib!microkit_cothread_spawn("entry", l[3])
        /\ line' = IF free_handle_queue = <<>> THEN l[2] ELSE 57
  BY DEF SpawnTooMany
<1>2. InInit
  BY <1>1 DEF ProgramInv, InCothread, RootAt, InClient, ROOT, Cothreads
<1>3. line = l[1] /\ SpawnedAt(line) = 3 /\ SpawnedAt(l[2]) = 3 /\ line # 82
  BY <1>1 DEF RootAt, SpawnedAt
<1>4. free_handle_queue = <<>>
  BY <1>2, <1>3, Runs DEF InInit
<1>5. UNCHANGED <<library, co_line, hello>>
  <2>1. UNCHANGED LibP!vars
    BY <1>1, <1>4, SameCalls DEF LibP!microkit_cothread_spawn
  <2> QED BY <2>1 DEF SpawnTooMany, LibP!vars, LibP!tcbs, LibP!libco, library
<1>6. line' = l[2] /\ line' \in ProgramLines /\ line' # 82 /\ GreetedAt(line') = GreetedAt(line)
  BY <1>1, <1>3, <1>4 DEF ProgramLines, GreetedAt
<1> QED BY <1>2, <1>3, <1>5, <1>6, ProgramStays

(* The scheduling queue while cothreads run: those left, and then root.    *)
LEMMA Turns ==
  /\ \A k \in 1 .. 4 : /\ Append(From(k), ROOT) \in Seq(0 .. 3) /\ Append(From(k), ROOT) # <<>>
                       /\ Len(Append(From(k), ROOT)) = 5 - k
  /\ \A k \in 1 .. 3 : /\ Head(Append(From(k), ROOT)) = k
                       /\ Tail(Append(From(k), ROOT)) = Append(From(k + 1), ROOT)
  /\ Head(Append(From(4), ROOT)) = ROOT /\ Tail(Append(From(4), ROOT)) = <<>>
  /\ UpTo(3) = From(1)
<1>1. ASSUME NEW k \in 1 .. 4
      PROVE  /\ Append(From(k), ROOT) \in Seq(0 .. 3) /\ Append(From(k), ROOT) # <<>>
             /\ Len(Append(From(k), ROOT)) = 5 - k
             /\ \A i \in 1 .. 4 - k : Append(From(k), ROOT)[i] = k + i - 1
             /\ Append(From(k), ROOT)[5 - k] = ROOT
             /\ Head(Append(From(k), ROOT)) = Append(From(k), ROOT)[1]
             /\ Tail(Append(From(k), ROOT)) \in Seq(0 .. 3)
             /\ Len(Tail(Append(From(k), ROOT))) = 4 - k
             /\ \A i \in 1 .. 4 - k : Tail(Append(From(k), ROOT))[i] = Append(From(k), ROOT)[i + 1]
  <2>1. From(k) \in Seq(0 .. 3) /\ Len(From(k)) = 4 - k /\ ROOT \in 0 .. 3
    <3>1. ROOT \in 0 .. 3
      BY DEF ROOT
    <3> QED BY Runs, <3>1
  <2>2. PICK q : q = Append(From(k), ROOT)
    OBVIOUS
  <2>3. /\ q \in Seq(0 .. 3) /\ Len(q) = 5 - k /\ q[5 - k] = ROOT
        /\ \A i \in 1 .. 4 - k : q[i] = From(k)[i]
    BY <2>1, <2>2, AppendProperties
  <2>4. \A i \in 1 .. 4 - k : From(k)[i] = k + i - 1
    BY DEF From
  <2>5. q # <<>>
    BY <2>3, EmptySeq
  <2>6. /\ Head(q) = q[1] /\ Tail(q) \in Seq(0 .. 3) /\ Len(Tail(q)) = 4 - k
        /\ \A i \in 1 .. 4 - k : Tail(q)[i] = q[i + 1]
    BY <2>3, <2>5, HeadTailProperties
  <2> QED BY <2>2, <2>3, <2>4, <2>5, <2>6
<1>2. ASSUME NEW k \in 1 .. 3
      PROVE  /\ Head(Append(From(k), ROOT)) = k
             /\ Tail(Append(From(k), ROOT)) = Append(From(k + 1), ROOT)
  <2>1. k \in 1 .. 4 /\ k + 1 \in 1 .. 4 /\ 5 - (k + 1) = 4 - k /\ 4 - (k + 1) = 3 - k
    OBVIOUS
  <2>2. PICK q : q = Append(From(k), ROOT)
    OBVIOUS
  <2>3. PICK r : r = Append(From(k + 1), ROOT)
    OBVIOUS
  <2>4. /\ Head(q) = q[1] /\ Tail(q) \in Seq(0 .. 3) /\ Len(Tail(q)) = 4 - k
        /\ \A i \in 1 .. 4 - k : Tail(q)[i] = q[i + 1]
        /\ \A i \in 1 .. 4 - k : q[i] = k + i - 1
        /\ q[5 - k] = ROOT
    BY <1>1, <2>1, <2>2
  <2>5. /\ r \in Seq(0 .. 3) /\ Len(r) = 4 - k /\ r[4 - k] = ROOT
        /\ \A i \in 1 .. 3 - k : r[i] = k + i
    <3>1. /\ r \in Seq(0 .. 3) /\ Len(r) = 5 - (k + 1) /\ r[5 - (k + 1)] = ROOT
          /\ \A i \in 1 .. 4 - (k + 1) : r[i] = (k + 1) + i - 1
      BY <1>1, <2>1, <2>3
    <3> QED BY <2>1, <3>1
  <2>6. Head(q) = k
    BY <2>4
  <2>7. \A i \in 1 .. 4 - k : Tail(q)[i] = r[i]
    BY <2>4, <2>5
  <2> QED BY <2>2, <2>3, <2>4, <2>5, <2>6, <2>7, SeqEqual
<1>3. Head(Append(From(4), ROOT)) = ROOT /\ Tail(Append(From(4), ROOT)) = <<>>
  <2>1. PICK q : q = Append(From(4), ROOT)
    OBVIOUS
  <2>2. 4 \in 1 .. 4 /\ 5 - 4 = 1 /\ 4 - 4 = 0
    OBVIOUS
  <2>3. /\ Head(q) = q[1] /\ q[5 - 4] = ROOT
        /\ Tail(q) \in Seq(0 .. 3) /\ Len(Tail(q)) = 4 - 4
    BY <1>1, <2>1, <2>2
  <2>4. Tail(q) = <<>>
    BY <2>2, <2>3, EmptySeq
  <2> QED BY <2>1, <2>2, <2>3, <2>4
<1>4. UpTo(3) = From(1)
  BY DEF UpTo, From
<1> QED BY <1>1, <1>2, <1>3, <1>4

(* The first yield comes back at once; the others let all cothreads run.   *)
LEMMA YieldStep == ProgramInv /\ Yield => ProgramInv'
<1> SUFFICES ASSUME ProgramInv, Yield PROVE ProgramInv'
  OBVIOUS
<1>1. PICK l \in {<<49, 51>>, <<62, 66>>, <<77, 80>>} : RootAt(l[1]) /\ line' = l[2]
  BY DEF Yield
<1>2. InInit
  BY <1>1 DEF ProgramInv, InCothread, RootAt, InClient, ROOT, Cothreads
<1>3. PICK q : q = Append(scheduling_queue, running)
  OBVIOUS
<1>4. PICK st : st = [state EXCEPT ![running] = "ready"]
  OBVIOUS
<1>5. PICK k \in 0 .. 3 : k = SpawnedAt(line)
  BY DEF SpawnedAt
<1>6. Len(scheduling_queue) = k /\ running = 0
  BY <1>2, <1>5, Runs DEF InInit, ROOT
<1>7. /\ LibP!internal_go_next(q, st, "yield")
      /\ UNCHANGED <<private_arg, free_handle_queue, event_loop, fault>>
  <2>1. ~LibP!Full(scheduling_queue)
    BY <1>6 DEF LibP!Full
  <2> QED BY <1>3, <1>4, <2>1, SameCalls DEF Yield, LibP!microkit_cothread_yield
<1>8. UNCHANGED <<co_line, hello>>
  BY DEF Yield
<1>9. \A t \in Cothreads : t \in DOMAIN state /\ t # 0 /\ st[t] = state[t]
  BY <1>4, <1>6 DEF ProgramInv, Cothreads
<1>10. DOMAIN st = 0 .. 3
  BY <1>4 DEF ProgramInv
<1>11. CASE l = <<49, 51>>
  <2>1. /\ k = 0 /\ SpawnedAt(line') = 0 /\ GreetedAt(line) = 0 /\ GreetedAt(line') = 0
        /\ line' \in ProgramLines /\ line' # 82 /\ line # 82
    BY <1>1, <1>5, <1>11 DEF RootAt, SpawnedAt, GreetedAt, ProgramLines
  <2>2. q = Append(From(4), ROOT)
    BY <1>2, <1>3, <1>5, <1>6, <2>1, Runs DEF InInit, ROOT
  <2>3. q \in Seq(0 .. 3) /\ q # <<>> /\ Head(q) = ROOT /\ Tail(q) = <<>>
    BY <2>2, Turns
  <2>4. /\ scheduling_queue' = <<>> /\ running' = ROOT
        /\ state' = [st EXCEPT ![ROOT] = "running"]
    BY <1>7, <2>3, FirstRuns
  <2>5. \A t \in Cothreads : state'[t] = state[t]
    BY <1>9, <1>10, <2>4 DEF ROOT
  <2>6. InInit'
    BY <1>2, <1>5, <1>7, <1>8, <2>1, <2>4, <2>5, Runs DEF InInit, Greeted, WaitsForTurn, Cothreads
  <2> QED BY <1>7, <1>8, <1>10, <2>4, <2>6 DEF ProgramInv
<1>12. CASE l \in {<<62, 66>>, <<77, 80>>}
  <2>1. PICK n \in {0, 3} :
          /\ k = 3 /\ GreetedAt(line) = n /\ GreetedAt(line') - 3 = n
          /\ line' \in {66, 80} /\ line # 82
    BY <1>1, <1>5, <1>12 DEF RootAt, SpawnedAt, GreetedAt
  <2>2. q = Append(From(1), ROOT) /\ free_handle_queue = UpTo(0)
    <3>1. scheduling_queue = UpTo(3) /\ free_handle_queue = From(4) /\ running = ROOT
      BY <1>2, <1>5, <2>1 DEF InInit
    <3> QED BY <1>3, <3>1, Runs, Turns
  <2>3. q \in Seq(0 .. 3) /\ q # <<>> /\ Head(q) = 1 /\ Tail(q) = Append(From(2), ROOT)
    <3>1. 1 \in 1 .. 4 /\ 1 \in 1 .. 3 /\ 1 + 1 = 2
      OBVIOUS
    <3> QED BY <2>2, <3>1, Turns
  <2>4. \A t \in Cothreads : WaitsForTurn(t, n)
    BY <1>2, <1>5, <2>1 DEF InInit, Cothreads
  <2>5. st[1] = "ready" /\ 1 \in Cothreads
    BY <1>9, <2>4 DEF WaitsForTurn, Cothreads
  <2>6. /\ scheduling_queue' = Append(From(2), ROOT) /\ running' = 1
        /\ state' = [st EXCEPT ![1] = "running"]
    BY <1>7, <2>3, <2>5, FirstRuns
  <2>7. /\ state'[1] = "running"
        /\ \A t \in Cothreads : t > 1 => state'[t] = state[t]
    BY <1>9, <1>10, <2>6 DEF Cothreads
  <2>8. \A t \in Cothreads : /\ t > 1 => WaitsForTurn(t, n)'
                             /\ t < 1 => state'[t] = "not_active"
    BY <1>7, <1>8, <2>4, <2>7 DEF WaitsForTurn, Cothreads
  <2>9. private_arg'[1] = n + 1 /\ co_line'[1] = 18 /\ Greeted(n)'
    BY <1>2, <1>7, <1>8, <2>1, <2>4, <2>5 DEF WaitsForTurn, InInit, Greeted
  <2>10. InCothread(1)'
    <3>1. 1 - 1 = 0 /\ 1 + 1 = 2 /\ n + 1 - 1 = n
      OBVIOUS
    <3>2. ~event_loop'
      BY <1>2, <1>7, <2>1 DEF InInit
    <3> QED BY <1>7, <2>1, <2>2, <2>6, <2>7, <2>8, <2>9, <3>1, <3>2 DEF InCothread
  <2> QED BY <1>7, <1>8, <1>10, <2>5, <2>6, <2>10 DEF ProgramInv
<1> QED BY <1>11, <1>12

LEMMA RunningCothread ==
  ASSUME ProgramInv, NEW k \in Cothreads, running = k
  PROVE  InCothread(k) /\ k \in 1 .. 3
<1>1. k \in 1 .. 3 /\ ~InInit
  BY DEF InInit, ROOT, Cothreads
<1>2. \A j \in Cothreads : InCothread(j) => j = k
  BY DEF InCothread
<1> QED BY <1>1, <1>2 DEF ProgramInv

(* In its turn, each cothread greets.                                      *)
LEMMA GreetStep == ASSUME ProgramInv, NEW k \in Cothreads, Greet(k) PROVE ProgramInv'
<1>1. InCothread(k) /\ k \in 1 .. 3
  <2>1. running = k
    BY DEF Greet, InClient
  <2> QED BY <2>1, RunningCothread
<1>2. UNCHANGED library
  <2>1. running # LibP!ROOT /\ LibP!microkit_cothread_my_arg
    BY SameThreads, SameCalls DEF Greet, InClient, Cothreads
  <2> QED BY <2>1 DEF LibP!microkit_cothread_my_arg, LibP!vars, LibP!tcbs, LibP!libco, library
<1>3. PICK n \in {0, 3} : n = GreetedAt(line) - 3
  BY <1>1 DEF InCothread, GreetedAt
<1>4. UNCHANGED line /\ co_line[k] = 18 /\ co_line' = [co_line EXCEPT ![k] = 20]
  BY DEF Greet
<1>5. PICK m \in 0 .. 5 : m = n + k - 1 /\ m + 1 = n + k
  BY <1>1
<1>6. Greeted(m) /\ private_arg[k] = m + 1
  BY <1>1, <1>3, <1>4, <1>5 DEF InCothread
<1>7. Greeted(m + 1)' /\ hello' \in Seq(1 .. 6)
  <2>1. hello' = Append(hello, m + 1) /\ hello \in Seq(1 .. 6)
    BY <1>6 DEF Greet, ProgramInv
  <2> QED BY <1>6, <2>1, OneMore
<1>8. /\ co_line'[k] = 20 /\ DOMAIN co_line' = Cothreads
      /\ \A t \in Cothreads : t # k => co_line'[t] = co_line[t]
  BY <1>4 DEF ProgramInv
<1>9. Greeted(n + k)'
  BY <1>5, <1>7
<1>10. InCothread(k)'
  <2>1. \A t \in Cothreads : /\ t > k => WaitsForTurn(t, n)'
                             /\ t < k => state'[t] = "not_active"
    <3>1. \A t \in Cothreads : /\ t > k => WaitsForTurn(t, n)
                               /\ t < k => state[t] = "not_active"
      BY <1>1, <1>3 DEF InCothread
    <3>2. \A t \in Cothreads : t > k => t # k
      BY <1>1 DEF Cothreads
    <3> QED BY <1>2, <1>8, <3>1, <3>2 DEF WaitsForTurn, library
  <2> QED BY <1>1, <1>2, <1>3, <1>4, <1>8, <1>9, <2>1 DEF InCothread, library
<1> QED BY <1>2, <1>7, <1>8, <1>10 DEF ProgramInv, library

(* It ends, and the next one runs; after the last one, root does.          *)
LEMMA LeaveStep == ASSUME ProgramInv, NEW k \in Cothreads, Leave(k) PROVE ProgramInv'
<1>1. InCothread(k) /\ k \in 1 .. 3 /\ running = k
  <2>1. running = k
    BY DEF Leave, InClient
  <2> QED BY <2>1, RunningCothread
<1>2. PICK n \in {0, 3} : n = GreetedAt(line) - 3
  BY <1>1 DEF InCothread, GreetedAt
<1>3. PICK st : st = [state EXCEPT ![k] = "not_active"]
  OBVIOUS
<1>4. PICK q : q = Append(From(k + 1), ROOT)
  OBVIOUS
<1>5. free_handle_queue = UpTo(k - 1) /\ scheduling_queue = q /\ state[k] = "running"
  BY <1>1, <1>4 DEF InCothread
<1>6. /\ free_handle_queue' = UpTo(k)
      /\ LibP!internal_go_next(q, st, "dead")
      /\ UNCHANGED <<private_arg, event_loop, fault>>
  <2>1. k - 1 \in 0 .. 2 /\ k - 1 \in 0 .. 3 /\ (k - 1) + 1 = k
    BY <1>1
  <2>2. Len(UpTo(k - 1)) = k - 1 /\ Append(UpTo(k - 1), k) = UpTo(k)
    BY <2>1, Runs
  <2>3. ~LibP!Full(free_handle_queue)
    <3>1. Len(free_handle_queue) = k - 1 /\ k - 1 # 4
      BY <1>1, <1>5, <2>2
    <3> QED BY <3>1 DEF LibP!Full
  <2>4. running \in LibP!Threads
    BY <1>1, SameThreads
  <2>5. LibP!destroy(running)
    BY SameCalls DEF Leave, LibP!cothread_entry_wrapper
  <2>6. LibP!Release(k)
    <3>1. running # LibP!ROOT
      BY <1>1, SameThreads
    <3> QED BY <1>1, <1>5, <2>3, <2>4, <2>5, <3>1 DEF LibP!destroy
  <2> QED BY <1>1, <1>3, <1>5, <2>2, <2>6 DEF LibP!Release
<1>7. UNCHANGED <<line, co_line, hello>> /\ co_line[k] = 20
  BY DEF Leave
<1>8. Greeted(n + k)'
  BY <1>1, <1>2, <1>7 DEF InCothread, Greeted
<1>9. /\ DOMAIN st = 0 .. 3 /\ st[k] = "not_active"
      /\ \A t \in Cothreads : t # k => st[t] = state[t]
  BY <1>1, <1>3 DEF ProgramInv, Cothreads
<1>10. CASE k < 3
  <2>1. /\ k + 1 \in 1 .. 4 /\ k + 1 \in 1 .. 3 /\ (k + 1) + 1 = k + 2 /\ (k + 1) - 1 = k
        /\ n + (k + 1) - 1 = n + k /\ k + 1 \in Cothreads /\ k + 1 # k
    BY <1>1, <1>10 DEF Cothreads
  <2>2. q \in Seq(0 .. 3) /\ q # <<>> /\ Head(q) = k + 1 /\ Tail(q) = Append(From(k + 2), ROOT)
    BY <1>4, <2>1, Turns
  <2>3. \A t \in Cothreads : t > k => WaitsForTurn(t, n)
    BY <1>1, <1>2 DEF InCothread
  <2>4. st[k + 1] = "ready"
    BY <1>1, <1>9, <2>1, <2>3 DEF WaitsForTurn
  <2>5. /\ scheduling_queue' = Append(From(k + 2), ROOT) /\ running' = k + 1
        /\ state' = [st EXCEPT ![k + 1] = "running"]
    BY <1>6, <2>2, <2>4, FirstRuns
  <2>6. /\ state'[k + 1] = "running" /\ DOMAIN state' = 0 .. 3
        /\ \A t \in Cothreads : t # k + 1 => state'[t] = st[t]
    BY <1>9, <2>1, <2>5 DEF Cothreads
  <2>7. \A t \in Cothreads : /\ t > k + 1 => WaitsForTurn(t, n)'
                             /\ t < k + 1 => state'[t] = "not_active"
    <3> SUFFICES ASSUME NEW t \in Cothreads
                 PROVE  /\ t > k + 1 => WaitsForTurn(t, n)'
                        /\ t < k + 1 => state'[t] = "not_active"
      OBVIOUS
    <3>1. t \in 1 .. 3
      BY DEF Cothreads
    <3>2. t > k + 1 => WaitsForTurn(t, n)'
      BY <1>1, <1>6, <1>7, <1>9, <2>3, <2>6, <3>1 DEF WaitsForTurn
    <3>3. t < k => state[t] = "not_active"
      BY <1>1 DEF InCothread
    <3> QED BY <1>1, <1>9, <2>6, <3>1, <3>2, <3>3
  <2>8. private_arg'[k + 1] = n + (k + 1) /\ co_line'[k + 1] = 18
    BY <1>1, <1>6, <1>7, <2>1, <2>3 DEF WaitsForTurn
  <2>9. line' \in {66, 80} /\ n = GreetedAt(line') - 3 /\ ~event_loop'
    BY <1>1, <1>2, <1>6, <1>7 DEF InCothread
  <2>10. InCothread(k + 1)'
    BY <1>6, <1>8, <2>1, <2>5, <2>6, <2>7, <2>8, <2>9 DEF InCothread
  <2> QED BY <1>6, <1>7, <2>1, <2>6, <2>10 DEF ProgramInv
<1>11. CASE k = 3
  <2>1. q = Append(From(4), ROOT)
    BY <1>4, <1>11
  <2>2. q \in Seq(0 .. 3) /\ q # <<>> /\ Head(q) = ROOT /\ Tail(q) = <<>>
    <3>1. 4 \in 1 .. 4
      OBVIOUS
    <3> QED BY <2>1, <3>1, Turns
  <2>3. /\ scheduling_queue' = <<>> /\ running' = ROOT
        /\ state' = [st EXCEPT ![ROOT] = "running"]
    <3>1. LibP!internal_go_next(q, st, "dead")
      BY <1>6
    <3>2. /\ scheduling_queue' = Tail(q) /\ running' = Head(q)
          /\ state' = [st EXCEPT ![Head(q)] = "running"]
      BY <2>2, <3>1, FirstRuns
    <3> QED BY <2>2, <3>2
  <2>4. DOMAIN state' = 0 .. 3 /\ \A t \in Cothreads : state'[t] = "not_active"
    <3>1. \A t \in Cothreads : t < 3 => state[t] = "not_active"
      BY <1>1, <1>11 DEF InCothread
    <3> QED BY <1>9, <1>11, <2>3, <3>1 DEF Cothreads, ROOT
  <2>5. /\ line' \in ProgramLines /\ line' # 82 /\ ~event_loop'
        /\ SpawnedAt(line') = 0 /\ GreetedAt(line') = n + 3
    BY <1>1, <1>2, <1>6, <1>7 DEF InCothread, ProgramLines, SpawnedAt, GreetedAt
  <2>6. scheduling_queue' = UpTo(0) /\ free_handle_queue' = From(1)
    BY <1>6, <1>11, <2>3, Runs, Turns
  <2>7. InInit'
    <3>1. 0 + 1 = 1 /\ \A t \in Cothreads : ~(t <= 0)
      BY DEF Cothreads
    <3> QED BY <1>8, <1>11, <2>3, <2>4, <2>5, <2>6, <3>1 DEF InInit
  <2> QED BY <1>6, <1>7, <2>4, <2>7 DEF ProgramInv
<1> QED BY <1>1, <1>10, <1>11

LEMMA DoneStep == ProgramInv /\ Done => ProgramInv'
<1> SUFFICES ASSUME ProgramInv, Done PROVE ProgramInv'
  OBVIOUS
<1>1. line = 80 /\ line' = 82 /\ running = ROOT /\ UNCHANGED <<co_line, hello>>
  BY DEF Done, RootAt, InClient
<1>2. InInit
  BY <1>1 DEF ProgramInv, InCothread, ROOT, Cothreads
<1>3. /\ event_loop' = TRUE
      /\ UNCHANGED <<running, state, private_arg, free_handle_queue, scheduling_queue, fault>>
  BY SameCalls DEF Done, LibP!HandlerReturns, LibP!tcbs
<1>4. /\ SpawnedAt(line) = 0 /\ SpawnedAt(line') = 0 /\ line' \in ProgramLines
      /\ GreetedAt(line) = 6 /\ GreetedAt(line') = 6
  BY <1>1 DEF SpawnedAt, GreetedAt, ProgramLines
<1>5. InInit'
  BY <1>1, <1>2, <1>3, <1>4 DEF InInit, WaitsForTurn, Greeted
<1> QED BY <1>1, <1>3, <1>5 DEF ProgramInv

LEMMA ProgramCorrect == Spec => []ProgramInv
<1>1. ASSUME ProgramInv, [Next]_vars PROVE ProgramInv'
  <2>1. CASE Floats \/ Initialise \/ PrintFloats
    <3>1. UNCHANGED <<library, co_line, hello>> /\ running = ROOT
      BY <2>1 DEF Floats, Initialise, PrintFloats, RootAt, InClient
    <3>2. <<line, line'>> \in {<<23, 41>>, <<41, 49>>, <<66, 68>>}
      <4>1. Floats => line = 23 /\ line' = 41
        BY DEF Floats, RootAt
      <4>2. Initialise => line = 41 /\ line' = 49
        BY DEF Initialise, RootAt
      <4>3. PrintFloats => line = 66 /\ line' = 68
        BY DEF PrintFloats, RootAt
      <4> QED BY <2>1, <4>1, <4>2, <4>3
    <3>3. InInit
      BY <1>1, <3>1 DEF ProgramInv, InCothread, ROOT, Cothreads
    <3>4. /\ line # 82 /\ line' # 82 /\ line' \in ProgramLines
          /\ SpawnedAt(line') = SpawnedAt(line) /\ GreetedAt(line') = GreetedAt(line)
      BY <3>2 DEF ProgramLines, SpawnedAt, GreetedAt
    <3> QED BY <1>1, <3>1, <3>3, <3>4, ProgramStays
  <2>2. CASE Resume \/ UNCHANGED vars
    <3>1. UNCHANGED <<library, co_line, hello>> /\ line' = line
      BY <2>2 DEF Resume, vars
    <3> QED BY <1>1, <3>1, ProgramStays
  <2> QED BY <1>1, <2>1, <2>2, YieldStep, SpawnStep, TooManyStep, DoneStep, GreetStep, LeaveStep
          DEF Next
<1> QED BY <1>1, ProgramInit, PTL DEF Spec

(* "cothreads limit test passed": in neither round is there a handle left  *)
(* for one cothread more, and the second round has all three of the first. *)
THEOREM LimitAlwaysHolds == Spec => []LimitHolds
<1>1. ProgramInv => LimitHolds
  BY DEF ProgramInv, InInit, InCothread, ProgramLines, LimitHolds
<1> QED BY <1>1, ProgramCorrect, PTL

(* The cothreads of both rounds greet once each, in the order of their     *)
(* spawns and with the argument of their own, before init goes on.         *)
THEOREM AlwaysGreetsInOrder == Spec => []GreetsInOrder
<1>1. ASSUME ProgramInv PROVE GreetsInOrder
  <2>1. ASSUME NEW n \in 0 .. 6, Greeted(n) PROVE \A i \in DOMAIN hello : hello[i] = i
    <3>1. DOMAIN hello = 1 .. n
      BY <1>1, <2>1, LenProperties DEF ProgramInv, Greeted
    <3> QED BY <2>1, <3>1 DEF Greeted
  <2>2. CASE InInit
    <3>1. PICK n \in 0 .. 6 : n = GreetedAt(line)
      BY DEF GreetedAt
    <3>2. Greeted(n)
      BY <2>2, <3>1 DEF InInit
    <3>3. /\ line \in 66 .. 77 => Len(hello) = 3
          /\ line > 77 => Len(hello) = 6
      BY <2>2, <3>1, <3>2 DEF InInit, GreetedAt, Greeted, ProgramLines
    <3> QED BY <2>1, <3>2, <3>3 DEF GreetsInOrder
  <2>3. ASSUME NEW k \in Cothreads, InCothread(k) PROVE GreetsInOrder
    <3>1. running # ROOT
      BY <2>3 DEF InCothread, ROOT, Cothreads
    <3>2. PICK n \in 0 .. 6 : Greeted(n)
      <4>1. GreetedAt(line) - 3 \in {0, 3} /\ k \in 1 .. 3
        BY <2>3 DEF InCothread, GreetedAt, Cothreads
      <4>2. GreetedAt(line) - 3 + k - 1 \in 0 .. 6 /\ GreetedAt(line) - 3 + k \in 0 .. 6
        BY <4>1
      <4> QED BY <2>3, <4>2 DEF InCothread
    <3> QED BY <2>1, <3>1, <3>2 DEF GreetsInOrder
  <2> QED BY <1>1, <2>2, <2>3 DEF ProgramInv
<1> QED BY <1>1, ProgramCorrect, PTL

=============================================================================
