------------------------------- MODULE Libco -------------------------------
(***************************************************************************)
(* libco's context switch on each architecture it is built for.  Registers *)
(* and memory hold values tagged with what they are; an address is a byte  *)
(* address.  co_swap is a table of stores and a table of loads, read off   *)
(* the machine code; co_derive fakes the memory a thread would have saved. *)
(* The client code between two switches may change every register and use  *)
(* its stack: that is what the switch has to preserve.                     *)
(***************************************************************************)
EXTENDS Integers, Sequences, Functions

CONSTANTS
  Archs,        \* the builds considered: see Layout
  Memory,       \* the memory of each cothread: a function from 1 .. n
  co_stack_size,
  RootBuffer,   \* where the root thread's registers are saved
  RootStack,    \* the root thread's own stack pointer, set up by Microkit
  Half,         \* 2^31: the sign bit of a 32 bit result
  ChangesFloatState,  \* code changes the floating-point state of FloatState
  MaxDepth      \* bound: words a thread pushes on its stack

ROOT == 0
Cothreads == DOMAIN Memory
Threads == {ROOT} \cup Cothreads
ArchNames == {"aarch64", "riscv64_soft", "riscv64_hard", "amd64", "arm"}

ASSUME ArchsAssumption == Archs \subseteq ArchNames

ASSUME MemoryAssumption ==
  /\ Cothreads \subseteq Nat \ {0}
  /\ \A t \in Cothreads : Memory[t] \in Nat \ {0} /\ Memory[t] % 16 = 0

(* A stack holds the largest context and what its thread pushes.           *)
ASSUME SizeAssumption ==
  /\ MaxDepth \in Nat
  /\ co_stack_size \in Nat /\ co_stack_size >= 256 + 8 * (MaxDepth + 1)

ASSUME FloatAssumption == ChangesFloatState \in BOOLEAN

(* The root thread's buffer is as large as a context, or of 64 words.      *)
BufferSize(a) == CASE a = "aarch64" -> 8 * 21
                   [] a = "riscv64_soft" -> 8 * 16
                   [] a = "riscv64_hard" -> 8 * 28
                   [] a = "amd64" -> 8 * 64
                   [] a = "arm" -> 4 * 64

(* The library has checked that the stacks do not overlap; the linker puts *)
(* the root thread's buffer, and Microkit its stack, elsewhere.            *)
RootDepth == 8 * (MaxDepth + 1)
Apart(a, m, b, n) == a + m <= b \/ b + n <= a

ASSUME PlacesAssumption ==
  /\ RootBuffer \in Nat \ {0} /\ RootStack \in Nat
  /\ \A a \in Archs :
       /\ Apart(RootBuffer, BufferSize(a), RootStack - RootDepth, RootDepth)
       /\ \A t \in Cothreads : Apart(Memory[t], co_stack_size, RootBuffer, BufferSize(a))
  /\ \A t \in Cothreads :
       /\ Apart(Memory[t], co_stack_size, RootStack - RootDepth, RootDepth)
       /\ \A u \in Cothreads : u # t => Apart(Memory[t], co_stack_size, Memory[u], co_stack_size)

ASSUME HalfAssumption == Half \in Nat \ {0}

(* The RISC-V code finds a context by 32 bit arithmetic on its address.    *)
(* Nothing in the code sees to it that this is so; it is a hypothesis of   *)
(* the theorems and not of the model.                                      *)
ContextsLow ==
  Archs \cap {"riscv64_soft", "riscv64_hard"} # {} =>
    /\ \A a \in Archs : RootBuffer + BufferSize(a) <= Half
    /\ \A t \in Cothreads : Memory[t] + co_stack_size <= Half

VARIABLES
  arch,               \* never changes
  regs, mem,          \* the CPU's registers; the words written so far
  co_active_handle,
  co_handle,          \* tcbs[t].co_handle, what co_active and co_derive gave
  thread,             \* whose code is meant to be running
  saved, frames       \* history: each thread's registers when it called
                      \* co_switch, and the words it has on its stack
vars == <<arch, regs, mem, co_active_handle, co_handle, thread, saved, frames>>

Addr(a) == <<"address", a>>
Zero == <<"zero", 0>>
co_entrypoint_pc == <<"co_entrypoint", 0>>
Entry(t) == <<"entry", t>>      \* the function given to co_derive
Client(t) == <<"client", t>>    \* somewhere in t's own code
Return(t) == <<"return", t>>    \* right after the co_swap t called

(* Memory that was never written is zero; a word is written; several are.  *)
Read(m, a) == IF a \in DOMAIN m THEN m[a] ELSE Zero

Put(m, a, word) == [x \in DOMAIN m \cup {a} |-> IF x = a THEN word ELSE m[x]]

Over(words, m) ==
  [x \in DOMAIN words \cup DOMAIN m |-> IF x \in DOMAIN words THEN words[x] ELSE m[x]]

-----------------------------------------------------------------------------
(* The enumerations: a register's place, in words below the handle.        *)
aarch64_regs == <<"lr", "sp", "fp", "x19", "x20", "x21", "x22", "x23", "x24",
  "x25", "x26", "x27", "x28", "d8", "d9", "d10", "d11", "d12", "d13", "d14", "d15">>

riscv64_soft_regs == <<"client_entry", "pc", "s11", "s10", "s9", "s8", "s7", "s6",
  "s5", "s4", "s3", "s2", "s1", "fp", "sp", "ra">>

riscv64_hard_regs == <<"client_entry", "pc", "f27", "f26", "f25", "f24", "f23",
  "f22", "f21", "f20", "f19", "f18", "f9", "f8", "s11", "s10", "s9", "s8", "s7",
  "s6", "s5", "s4", "s3", "s2", "s1", "fp", "sp", "ra">>

(* What co_swap stores and what it loads, from the lowest address up.      *)
aarch64_stores == <<"d15", "d14", "d13", "d12", "d11", "d10", "d9", "d8", "x28",
  "x27", "x26", "x25", "x24", "x23", "x22", "x21", "x20", "x19", "fp", "sp", "lr">>

Faulty_aarch64_loads == <<"d15", "d14", "d13", "d12", "d11", "d10", "d9", "d8",
  "x28", "x27", "x26", "x25", "x24", "x23", "x22", "x21", "x19", "x20", "fp",
  "sp", "lr">>                                 \* faulty: a pair is swapped

aarch64_loads == <<"d15", "d14", "d13", "d12", "d11", "d10", "d9", "d8", "x28",
  "x27", "x26", "x25", "x24", "x23", "x22", "x21", "x20", "x19", "fp", "sp", "lr">>

riscv64_soft_stores == <<"ra", "sp", "s0", "s1", "s2", "s3", "s4", "s5", "s6", "s7",
  "s8", "s9", "s10", "s11", "ra">>

riscv64_soft_loads == <<"ra", "sp", "s0", "s1", "s2", "s3", "s4", "s5", "s6", "s7",
  "s8", "s9", "s10", "s11", "pc">>

riscv64_hard_stores == <<"ra", "sp", "s0", "s1", "s2", "s3", "s4", "s5", "s6", "s7",
  "s8", "s9", "s10", "s11", "f8", "f9", "f18", "f19", "f20", "f21", "f22", "f23",
  "f24", "f25", "f26", "f27", "ra">>

riscv64_hard_loads == <<"ra", "sp", "s0", "s1", "s2", "s3", "s4", "s5", "s6", "s7",
  "s8", "s9", "s10", "s11", "f8", "f9", "f18", "f19", "f20", "f21", "f22", "f23",
  "f24", "f25", "f26", "f27", "pc">>

amd64_stores == <<"sp", "rbp", "rbx", "r12", "r13", "r14", "r15">>
Faulty_amd64_loads == <<"sp", "rbp", "rbx", "r12", "r13", "r14">>  \* faulty: no r15
amd64_loads == <<"sp", "rbp", "rbx", "r12", "r13", "r14", "r15">>

arm_stores == <<"r4", "r5", "r6", "r7", "r8", "r9", "r10", "r11", "sp", "lr">>
arm_loads == <<"r4", "r5", "r6", "r7", "r8", "r9", "r10", "r11", "sp", "pc">>

(* addiw adds in 32 bits and sign-extends the result.                      *)
Addiw(a, n) == LET sum == (a + n) % (2 * Half)
               IN  IF sum < Half THEN sum ELSE sum - 2 * Half

(* Where the first word of a context is, given the handle.                 *)
FirstWord(a, handle) ==
  CASE a = "aarch64" -> handle - 160
    [] a = "riscv64_soft" -> Addiw(handle, -120)
    [] a = "riscv64_hard" -> Addiw(handle, -216)
    [] a \in {"amd64", "arm"} -> handle

Stores(a) ==
  CASE a = "aarch64" -> aarch64_stores
    [] a = "riscv64_soft" -> riscv64_soft_stores
    [] a = "riscv64_hard" -> riscv64_hard_stores
    [] a = "amd64" -> amd64_stores
    [] a = "arm" -> arm_stores

Loads(a) ==
  CASE a = "aarch64" -> aarch64_loads
    [] a = "riscv64_soft" -> riscv64_soft_loads
    [] a = "riscv64_hard" -> riscv64_hard_loads
    [] a = "amd64" -> amd64_loads
    [] a = "arm" -> arm_loads

Word(a) == IF a = "arm" THEN 4 ELSE 8          \* sizeof(uintptr_t)

(* What the platform's procedure call standard obliges a callee to keep:   *)
(* registers, and floating-point state that co_swap does not know of, the  *)
(* control words of amd64 and the registers of an ARM build with hard      *)
(* floats.                                                                 *)
SavedRegisters(a) ==
  CASE a = "aarch64" -> {"x19", "x20", "x21", "x22", "x23", "x24", "x25", "x26",
         "x27", "x28", "fp", "sp", "d8", "d9", "d10", "d11", "d12", "d13", "d14", "d15"}
    [] a = "riscv64_soft" -> {"sp", "s0", "s1", "s2", "s3", "s4", "s5", "s6", "s7",
         "s8", "s9", "s10", "s11"}
    [] a = "riscv64_hard" -> {"sp", "s0", "s1", "s2", "s3", "s4", "s5", "s6", "s7",
         "s8", "s9", "s10", "s11", "f8", "f9", "f18", "f19", "f20", "f21", "f22",
         "f23", "f24", "f25", "f26", "f27"}
    [] a = "amd64" -> {"sp", "rbp", "rbx", "r12", "r13", "r14", "r15"}
    [] a = "arm" -> {"r4", "r5", "r6", "r7", "r8", "r9", "r10", "r11", "sp"}

FloatState(a) ==
  CASE a = "amd64" -> {"mxcsr", "x87_cw"}
    [] a = "arm" -> {"d8", "d9", "d10", "d11", "d12", "d13", "d14", "d15"}
    [] OTHER -> {}

CalleeSaved(a) == SavedRegisters(a) \cup FloatState(a)

LinkRegister(a) == CASE a \in {"aarch64", "arm"} -> "lr"
                     [] a \in {"riscv64_soft", "riscv64_hard"} -> "ra"
                     [] a = "amd64" -> "rax"

Registers(a) == CalleeSaved(a) \cup {LinkRegister(a), "pc"}

-----------------------------------------------------------------------------
(* co_derive: the handle and the words written.                            *)

AlignDown(address) == 16 * (address \div 16)

Slot(enumeration, r) == (CHOOSE i \in DOMAIN enumeration : enumeration[i] = r) - 1

aarch64_co_derive(memory, size, entrypoint) ==
  LET words == size \div 8
      top == memory + 8 * (words - 1)
      aligned_sp == Addr(AlignDown(memory + 8 * (words - Len(aarch64_regs) - 1)))
      At(r) == top - 8 * Slot(aarch64_regs, r)
  IN  [handle |-> top,
       words |-> Put(Put(Put(Put(<<>>, At("sp"), aligned_sp),
                                 At("lr"), co_entrypoint_pc),
                             At("x19"), entrypoint),
                         At("fp"), aligned_sp)]

(* Faulty: the stack pointer is left inside the saved registers.           *)
Faulty_riscv64_co_derive(regs_enum, memory, size, entrypoint) ==
  LET words == size \div 8
      top == memory + 8 * (words - 1)
      aligned_sp == Addr(AlignDown(memory + 8 * (words - 1)))
      At(r) == top - 8 * Slot(regs_enum, r)
  IN  [handle |-> top,
       words |-> Put(Put(Put(Put(Put(<<>>, At("ra"), Zero),
                                     At("sp"), aligned_sp),
                                 At("fp"), aligned_sp),
                             At("pc"), co_entrypoint_pc),
                         At("client_entry"), entrypoint)]

riscv64_co_derive(regs_enum, memory, size, entrypoint) ==
  LET words == size \div 8
      top == memory + 8 * (words - 1)
      aligned_sp == Addr(AlignDown(memory + 8 * (words - Len(regs_enum) - 1)))
      At(r) == top - 8 * Slot(regs_enum, r)
  IN  [handle |-> top,
       words |-> Put(Put(Put(Put(Put(<<>>, At("ra"), Zero),
                                     At("sp"), aligned_sp),
                                 At("fp"), aligned_sp),
                             At("pc"), co_entrypoint_pc),
                         At("client_entry"), entrypoint)]

Faulty_amd64_co_derive(memory, size, entrypoint) ==   \* faulty: misaligned
  LET p == memory + AlignDown(size) - 32
  IN  [handle |-> memory,
       words |-> Put(Put(Put(<<>>, p - 8, co_entrypoint_pc),
                             memory, Addr(p - 8)),
                         memory + 8, entrypoint)]

amd64_co_derive(memory, size, entrypoint) ==
  LET p == memory + AlignDown(size) - 32
  IN  [handle |-> memory,
       words |-> Put(Put(Put(Put(<<>>, p - 8, Zero),
                                 p - 16, co_entrypoint_pc),
                             memory, Addr(p - 16)),
                         memory + 8, entrypoint)]

Faulty_arm_co_derive(memory, size, entrypoint) ==   \* faulty: no room is left
  LET top == memory + AlignDown(size)
  IN  [handle |-> top,
       words |-> Put(Put(<<>>, top + 32, Addr(top)), top + 36, entrypoint)]

arm_co_derive(memory, size, entrypoint) ==
  [handle |-> memory,
   words |-> Put(Put(<<>>, memory + 32, Addr(memory + AlignDown(size))),
                 memory + 36, entrypoint)]

Derived(a, memory, size, entrypoint) ==
  CASE a = "aarch64" -> aarch64_co_derive(memory, size, entrypoint)
    [] a = "riscv64_soft" -> riscv64_co_derive(riscv64_soft_regs, memory, size, entrypoint)
    [] a = "riscv64_hard" -> riscv64_co_derive(riscv64_hard_regs, memory, size, entrypoint)
    [] a = "amd64" -> amd64_co_derive(memory, size, entrypoint)
    [] a = "arm" -> arm_co_derive(memory, size, entrypoint)

(* The root thread's handle, static or set on the first call into libco.   *)
RootHandle(a) ==
  CASE a = "aarch64" -> RootBuffer + 8 * (Len(aarch64_regs) - 1)
    [] a = "riscv64_soft" -> RootBuffer + 8 * (Len(riscv64_soft_regs) - 1)
    [] a = "riscv64_hard" -> RootBuffer + 8 * (Len(riscv64_hard_regs) - 1)
    [] a \in {"amd64", "arm"} -> RootBuffer

InitialHandle(a) == IF a \in {"amd64", "arm"} THEN 0 ELSE RootHandle(a)

Ensured(a, handle) == IF handle = 0 THEN RootHandle(a) ELSE handle

-----------------------------------------------------------------------------
Init ==
  /\ arch \in Archs
  /\ regs = [r \in Registers(arch) |->
               CASE r = "sp" -> Addr(RootStack) [] r = "pc" -> Client(ROOT)
                 [] OTHER -> Zero]
  /\ mem = <<>>
  /\ co_active_handle = InitialHandle(arch)
  /\ co_handle = [t \in Threads |-> 0]
  /\ thread = ROOT
  /\ saved = [t \in Threads |-> <<>>]
  /\ frames = [t \in Threads |-> <<>>]

InClient == regs["pc"] = Client(thread)

(* microkit_cothread_init asks for the root thread's handle.               *)
co_active ==
  /\ InClient /\ co_handle[ROOT] = 0
  /\ co_active_handle' = Ensured(arch, co_active_handle)
  /\ co_handle' = [co_handle EXCEPT ![ROOT] = co_active_handle']
  /\ UNCHANGED <<arch, regs, mem, thread, saved, frames>>

Region(t) == Memory[t] .. Memory[t] + co_stack_size - 1

(* A spawn zeroes the stack first.                                         *)
co_derive(t) ==
  /\ InClient /\ co_handle[ROOT] # 0 /\ t # thread
  /\ LET d == Derived(arch, Memory[t], co_stack_size, Entry(t))
         kept == [a \in DOMAIN mem \ Region(t) |-> mem[a]]
     IN  /\ mem' = Over(d.words, kept)
         /\ co_handle' = [co_handle EXCEPT ![t] = d.handle]
  /\ co_active_handle' = Ensured(arch, co_active_handle)
  /\ saved' = [saved EXCEPT ![t] = <<>>]
  /\ frames' = [frames EXCEPT ![t] = <<>>]
  /\ UNCHANGED <<arch, regs, thread>>

(* co_swap(to, from): the call leaves its return address in a register or  *)
(* on the stack, then all stores, then all loads, then the jump.           *)
Called ==
  IF arch = "amd64"
  THEN LET sp == regs["sp"][2] - 8
       IN  [r |-> [regs EXCEPT !["sp"] = Addr(sp)], m |-> Put(mem, sp, Return(thread))]
  ELSE [r |-> [regs EXCEPT ![LinkRegister(arch)] = Return(thread)], m |-> mem]

Stored(r, m, from) ==
  LET first == FirstWord(arch, from)
      At(i) == first + Word(arch) * (i - 1)
      list == Stores(arch)
  IN  Over([a \in {At(i) : i \in DOMAIN list} |->
              r[list[CHOOSE i \in DOMAIN list : At(i) = a]]], m)

Loaded(r, m, to) ==
  LET first == FirstWord(arch, to)
      list == Loads(arch)
  IN  [x \in DOMAIN r |->
         IF x \in Range(list)
         THEN Read(m, first + Word(arch) * ((CHOOSE i \in DOMAIN list : list[i] = x) - 1))
         ELSE r[x]]

Jumped(r, m) ==
  CASE arch = "aarch64" -> [r EXCEPT !["pc"] = r["lr"]]
    [] arch = "amd64" ->
         LET sp == r["sp"][2]
         IN  [r EXCEPT !["pc"] = Read(m, sp), !["rax"] = Read(m, sp), !["sp"] = Addr(sp + 8)]
    [] OTHER -> r

co_swap(to, from) ==
  LET m == Stored(Called.r, Called.m, from)
  IN  /\ mem' = m
      /\ regs' = Jumped(Loaded(Called.r, m, to), m)

(* Faulty: the handle of the caller is not remembered.                     *)
Faulty_co_switch(t) ==
  /\ co_active_handle' = co_handle[t]
  /\ co_swap(co_handle[t], co_handle[t])

switch(t) ==
  /\ co_active_handle' = co_handle[t]
  /\ co_swap(co_handle[t], co_active_handle)

co_switch(t) ==
  /\ InClient /\ co_handle[t] # 0
  /\ switch(t)
  /\ thread' = t
  /\ saved' = [saved EXCEPT ![thread] = [r \in CalleeSaved(arch) |-> regs[r]]]
  /\ UNCHANGED <<arch, co_handle, frames>>

(* The word co_entrypoint takes the entry point from.                      *)
EntryWord(a) ==
  CASE a = "aarch64" -> co_active_handle - 8 * Slot(aarch64_regs, "x19")
    [] a \in {"riscv64_soft", "riscv64_hard"} -> co_active_handle
    [] a = "amd64" -> co_active_handle + 8
    [] a = "arm" -> co_active_handle

(* Calling the entry point moves the stack pointer of amd64 only; it stays *)
(* there, as no entry point returns.                                       *)
co_entrypoint ==
  /\ regs["pc"] = co_entrypoint_pc
  /\ regs' = [regs EXCEPT !["pc"] = Read(mem, EntryWord(arch))]
  /\ UNCHANGED <<arch, mem, co_active_handle, co_handle, thread, saved, frames>>

(* Execution reaches the thread's own code, and goes on there: it computes *)
(* in registers, calls functions and returns from them.                    *)
ReachClient ==
  /\ regs["pc"] \in {Entry(thread), Return(thread)}
  /\ regs' = [regs EXCEPT !["pc"] = Client(thread)]
  /\ UNCHANGED <<arch, mem, co_active_handle, co_handle, thread, saved, frames>>

Compute(k) ==
  /\ InClient
  /\ LET kept == {"sp", "pc"} \cup IF ChangesFloatState THEN {} ELSE FloatState(arch)
     IN  regs' = [r \in DOMAIN regs |-> IF r \in kept THEN regs[r] ELSE <<r, 10 * thread + k>>]
  /\ UNCHANGED <<arch, mem, co_active_handle, co_handle, thread, saved, frames>>

Push ==
  /\ InClient /\ Len(frames[thread]) < MaxDepth
  /\ LET sp == regs["sp"][2] - Word(arch)
         word == <<"frame", 10 * thread + Len(frames[thread])>>
     IN  /\ regs' = [regs EXCEPT !["sp"] = Addr(sp)]
         /\ mem' = Put(mem, sp, word)
         /\ frames' = [frames EXCEPT ![thread] = <<word>> \o @]
  /\ UNCHANGED <<arch, co_active_handle, co_handle, thread, saved>>

Pop ==
  /\ InClient /\ frames[thread] # <<>>
  /\ regs' = [regs EXCEPT !["sp"] = Addr(@[2] + Word(arch))]
  /\ frames' = [frames EXCEPT ![thread] = Tail(@)]
  /\ UNCHANGED <<arch, mem, co_active_handle, co_handle, thread, saved>>

Next ==
  \/ co_active
  \/ \E t \in Cothreads : co_derive(t)
  \/ \E t \in Threads : co_switch(t)
  \/ co_entrypoint
  \/ ReachClient
  \/ \E k \in {1, 2} : Compute(k)
  \/ Push
  \/ Pop

Spec == Init /\ [][Next]_vars

-----------------------------------------------------------------------------
(* The CPU executes the code of the thread that was switched to, from      *)
(* where that thread left off or from its entry point, whatever the other  *)
(* threads did meanwhile; and libco agrees about who that is.              *)
ControlFollows ==
  /\ regs["pc"] \in {Client(thread), Return(thread), Entry(thread), co_entrypoint_pc}
  /\ regs["pc"] = Return(thread) => saved[thread] # <<>>
  /\ regs["pc"] \in {Entry(thread), co_entrypoint_pc} => saved[thread] = <<>>
  /\ co_handle[ROOT] # 0 => co_active_handle = co_handle[thread]

(* A thread finds every register its platform's calling convention lets it *)
(* keep across the call of co_switch as it left it.                        *)
RegistersRestored ==
  regs["pc"] = Return(thread) =>
    \A r \in CalleeSaved(arch) : regs[r] = saved[thread][r]

(* A thread finds its stack as it left it: neither the saved registers nor *)
(* anything another thread did share a word with it.                       *)
StackKept ==
  regs["pc"] # co_entrypoint_pc =>
    \A i \in DOMAIN frames[thread] :
      Read(mem, regs["sp"][2] + Word(arch) * (i - 1)) = frames[thread][i]

(* Whatever is saved or derived is written to the root thread's buffer, to *)
(* the memory the cothread was given, or to a stack.                       *)
NoStrayWrites ==
  \A a \in DOMAIN mem :
    \/ \E t \in Cothreads : a \in Region(t)
    \/ a >= RootBuffer /\ a < RootBuffer + BufferSize(arch)
    \/ a < RootStack /\ a >= RootStack - RootDepth

(* A cothread starts with the stack aligned as its platform requires at a  *)
(* function's entry.                                                       *)
EntryAligned ==
  regs["pc"] \in {co_entrypoint_pc, Entry(thread)} =>
    CASE arch = "amd64" -> (regs["sp"][2] + 8) % 16 = 0
      [] arch = "arm" -> regs["sp"][2] % 8 = 0
      [] OTHER -> regs["sp"][2] % 16 = 0

=============================================================================
