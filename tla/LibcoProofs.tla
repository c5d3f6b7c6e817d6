---------------------------- MODULE LibcoProofs ----------------------------
(***************************************************************************)
(* libco's context switch is right on the five architectures, for every    *)
(* placement of the stacks; on RISC-V every one below 2^31, which is the   *)
(* hypothesis ContextsLow.  The argument: the tables of co_swap and the    *)
(* words of co_derive are brought into one form (which word of a context   *)
(* holds what); the words of all contexts and the cells of all stacks are  *)
(* shown to be pairwise different addresses; and then the invariant says   *)
(* of every thread that does not run that its context and stack hold what  *)
(* it needs to go on (Parked), and of the running one that it has got it   *)
(* (Running).  A switch parks the caller and runs a parked thread.         *)
(***************************************************************************)
EXTENDS Libco, SequenceTheorems, TLAPS

-----------------------------------------------------------------------------
(* The tables of the five architectures, unfolded: how many registers a    *)
(* context has, where the stack pointer, the program counter and the entry *)
(* point are among its words, and how many words it has in all.            *)
Count(a) == IF a = "aarch64" THEN 21 ELSE IF a = "riscv64_soft" THEN 15
            ELSE IF a = "riscv64_hard" THEN 27 ELSE IF a = "amd64" THEN 7 ELSE 10

SpPos(a) == IF a = "aarch64" THEN 20 ELSE IF a \in {"riscv64_soft", "riscv64_hard"} THEN 2
            ELSE IF a = "amd64" THEN 1 ELSE 9

PcPos(a) == Count(a)                \* of no meaning on amd64

EntryPos(a) == IF a = "aarch64" THEN 18 ELSE IF a = "riscv64_soft" THEN 16
               ELSE IF a = "riscv64_hard" THEN 28 ELSE 2     \* of no meaning on arm

Words(a) == IF a \in {"riscv64_soft", "riscv64_hard"} THEN Count(a) + 1 ELSE Count(a)

(* Which register the word with the program counter is loaded into, and    *)
(* what co_swap and co_entrypoint rely on in the tables.                   *)
PcRegister(a) == IF a = "aarch64" THEN "lr" ELSE "pc"

TableFacts(a) ==
  /\ DOMAIN Loads(a) = 1 .. Count(a) /\ DOMAIN Stores(a) = 1 .. Count(a)
  /\ \A i, j \in 1 .. Count(a) : Loads(a)[i] = Loads(a)[j] => i = j
  /\ \A i \in 1 .. Count(a) : Loads(a)[i] \in Registers(a) /\ Stores(a)[i] \in Registers(a)
  /\ \A r \in SavedRegisters(a) : \E i \in 1 .. Count(a) : Loads(a)[i] = r
  /\ \A i \in 1 .. Count(a) : Loads(a)[i] \in SavedRegisters(a) => Stores(a)[i] = Loads(a)[i]
  /\ Loads(a)[SpPos(a)] = "sp"
  /\ a # "amd64" => Loads(a)[PcPos(a)] = PcRegister(a) /\ Stores(a)[PcPos(a)] = LinkRegister(a)
  /\ a \in {"aarch64", "amd64"} => \A i \in 1 .. Count(a) : Loads(a)[i] # "pc"
  /\ a = "amd64" => \A i \in 1 .. Count(a) : Loads(a)[i] # "rax"
  /\ "sp" \in SavedRegisters(a) /\ "pc" \notin SavedRegisters(a) /\ LinkRegister(a) \notin SavedRegisters(a)
  /\ LinkRegister(a) # "pc"

LEMMA Aarch64Table == TableFacts("aarch64")
<1>1. Loads("aarch64") = aarch64_loads /\ Stores("aarch64") = aarch64_stores /\ LinkRegister("aarch64") = "lr"
  BY DEF Loads, Stores, LinkRegister
<1>2. SavedRegisters("aarch64") = {"x19", "x20", "x21", "x22", "x23", "x24", "x25", "x26",
        "x27", "x28", "fp", "sp", "d8", "d9", "d10", "d11", "d12", "d13", "d14", "d15"}
  BY DEF SavedRegisters
<1>3. Count("aarch64") = 21 /\ SpPos("aarch64") = 20 /\ PcPos("aarch64") = 21
  BY DEF Count, SpPos, PcPos
<1>4. DOMAIN Loads("aarch64") = 1 .. Count("aarch64") /\ DOMAIN Stores("aarch64") = 1 .. Count("aarch64")
  <2>1. DOMAIN aarch64_loads = 1 .. 21 /\ DOMAIN aarch64_stores = 1 .. 21
    BY DEF aarch64_loads, aarch64_stores
  <2> QED BY <1>1, <1>3, <2>1
<1>5. \A i, j \in 1 .. Count("aarch64") : Loads("aarch64")[i] = Loads("aarch64")[j] => i = j
  BY <1>1, <1>3 DEF aarch64_loads
<1>6. \A i \in 1 .. Count("aarch64") :
        Loads("aarch64")[i] \in Registers("aarch64") /\ Stores("aarch64")[i] \in Registers("aarch64")
  BY <1>1, <1>2, <1>3 DEF aarch64_loads, aarch64_stores, Registers, CalleeSaved
<1>7. \A r \in SavedRegisters("aarch64") : \E i \in 1 .. Count("aarch64") : Loads("aarch64")[i] = r
  BY <1>1, <1>2, <1>3 DEF aarch64_loads
<1>8. \A i \in 1 .. Count("aarch64") : Loads("aarch64")[i] \in SavedRegisters("aarch64") => Stores("aarch64")[i] = Loads("aarch64")[i]
  BY <1>1, <1>3 DEF aarch64_loads, aarch64_stores
<1>9. Loads("aarch64")[SpPos("aarch64")] = "sp"
  BY <1>1, <1>3 DEF aarch64_loads
<1>10. Loads("aarch64")[PcPos("aarch64")] = PcRegister("aarch64") /\ Stores("aarch64")[PcPos("aarch64")] = LinkRegister("aarch64")
  BY <1>1, <1>3 DEF aarch64_loads, aarch64_stores, PcRegister
<1>11. \A i \in 1 .. Count("aarch64") : Loads("aarch64")[i] # "pc"
  BY <1>1, <1>3 DEF aarch64_loads
<1>12. "aarch64" # "amd64"
  OBVIOUS
<1>13. /\ "sp" \in SavedRegisters("aarch64") /\ "pc" \notin SavedRegisters("aarch64")
       /\ LinkRegister("aarch64") \notin SavedRegisters("aarch64") /\ LinkRegister("aarch64") # "pc"
  BY <1>1, <1>2
<1> QED BY <1>4, <1>5, <1>6, <1>7, <1>8, <1>9, <1>10, <1>11, <1>12, <1>13 DEF TableFacts

LEMMA SoftTable == TableFacts("riscv64_soft")
<1>1. Loads("riscv64_soft") = riscv64_soft_loads /\ Stores("riscv64_soft") = riscv64_soft_stores /\ LinkRegister("riscv64_soft") = "ra"
  BY DEF Loads, Stores, LinkRegister
<1>2. SavedRegisters("riscv64_soft") = {"sp", "s0", "s1", "s2", "s3", "s4", "s5", "s6", "s7",
        "s8", "s9", "s10", "s11"}
  BY DEF SavedRegisters
<1>3. Count("riscv64_soft") = 15 /\ SpPos("riscv64_soft") = 2 /\ PcPos("riscv64_soft") = 15
  BY DEF Count, SpPos, PcPos
<1>4. DOMAIN Loads("riscv64_soft") = 1 .. Count("riscv64_soft") /\ DOMAIN Stores("riscv64_soft") = 1 .. Count("riscv64_soft")
  <2>1. DOMAIN riscv64_soft_loads = 1 .. 15 /\ DOMAIN riscv64_soft_stores = 1 .. 15
    BY DEF riscv64_soft_loads, riscv64_soft_stores
  <2> QED BY <1>1, <1>3, <2>1
<1>5. \A i, j \in 1 .. Count("riscv64_soft") : Loads("riscv64_soft")[i] = Loads("riscv64_soft")[j] => i = j
  BY <1>1, <1>3 DEF riscv64_soft_loads
<1>6. \A i \in 1 .. Count("riscv64_soft") :
        Loads("riscv64_soft")[i] \in Registers("riscv64_soft") /\ Stores("riscv64_soft")[i] \in Registers("riscv64_soft")
  BY <1>1, <1>2, <1>3 DEF riscv64_soft_loads, riscv64_soft_stores, Registers, CalleeSaved
<1>7. \A r \in SavedRegisters("riscv64_soft") : \E i \in 1 .. Count("riscv64_soft") : Loads("riscv64_soft")[i] = r
  BY <1>1, <1>2, <1>3 DEF riscv64_soft_loads
<1>8. \A i \in 1 .. Count("riscv64_soft") : Loads("riscv64_soft")[i] \in SavedRegisters("riscv64_soft") => Stores("riscv64_soft")[i] = Loads("riscv64_soft")[i]
  <2>1. \A i \in 1 .. 14 : riscv64_soft_stores[i] = riscv64_soft_loads[i]
    BY DEF riscv64_soft_loads, riscv64_soft_stores
  <2>2. riscv64_soft_loads[15] = "pc" /\ "pc" \notin SavedRegisters("riscv64_soft")
    BY <1>2 DEF riscv64_soft_loads
  <2>3. \A i \in 1 .. 15 : i \in 1 .. 14 \/ i = 15
    OBVIOUS
  <2> QED BY <1>1, <1>3, <2>1, <2>2, <2>3
<1>9. Loads("riscv64_soft")[SpPos("riscv64_soft")] = "sp"
  BY <1>1, <1>3 DEF riscv64_soft_loads
<1>10. Loads("riscv64_soft")[PcPos("riscv64_soft")] = PcRegister("riscv64_soft") /\ Stores("riscv64_soft")[PcPos("riscv64_soft")] = LinkRegister("riscv64_soft")
  BY <1>1, <1>3 DEF riscv64_soft_loads, riscv64_soft_stores, PcRegister
<1>11. "riscv64_soft" \notin {"aarch64", "amd64"}
  OBVIOUS
<1>13. /\ "sp" \in SavedRegisters("riscv64_soft") /\ "pc" \notin SavedRegisters("riscv64_soft")
       /\ LinkRegister("riscv64_soft") \notin SavedRegisters("riscv64_soft") /\ LinkRegister("riscv64_soft") # "pc"
  BY <1>1, <1>2
<1> QED BY <1>4, <1>5, <1>6, <1>7, <1>8, <1>9, <1>10, <1>11, <1>13 DEF TableFacts

LEMMA HardTable == TableFacts("riscv64_hard")
<1>1. Loads("riscv64_hard") = riscv64_hard_loads /\ Stores("riscv64_hard") = riscv64_hard_stores /\ LinkRegister("riscv64_hard") = "ra"
  BY DEF Loads, Stores, LinkRegister
<1>2. SavedRegisters("riscv64_hard") = {"sp", "s0", "s1", "s2", "s3", "s4", "s5", "s6", "s7",
        "s8", "s9", "s10", "s11", "f8", "f9", "f18", "f19", "f20", "f21", "f22",
        "f23", "f24", "f25", "f26", "f27"}
  BY DEF SavedRegisters
<1>3. Count("riscv64_hard") = 27 /\ SpPos("riscv64_hard") = 2 /\ PcPos("riscv64_hard") = 27
  BY DEF Count, SpPos, PcPos
<1>4. DOMAIN Loads("riscv64_hard") = 1 .. Count("riscv64_hard") /\ DOMAIN Stores("riscv64_hard") = 1 .. Count("riscv64_hard")
  <2>1. DOMAIN riscv64_hard_loads = 1 .. 27 /\ DOMAIN riscv64_hard_stores = 1 .. 27
    BY DEF riscv64_hard_loads, riscv64_hard_stores
  <2> QED BY <1>1, <1>3, <2>1
<1>5. \A i, j \in 1 .. Count("riscv64_hard") : Loads("riscv64_hard")[i] = Loads("riscv64_hard")[j] => i = j
  BY <1>1, <1>3 DEF riscv64_hard_loads
<1>6. \A i \in 1 .. Count("riscv64_hard") :
        Loads("riscv64_hard")[i] \in Registers("riscv64_hard") /\ Stores("riscv64_hard")[i] \in Registers("riscv64_hard")
  BY <1>1, <1>2, <1>3 DEF riscv64_hard_loads, riscv64_hard_stores, Registers, CalleeSaved
<1>7. \A r \in SavedRegisters("riscv64_hard") : \E i \in 1 .. Count("riscv64_hard") : Loads("riscv64_hard")[i] = r
  BY <1>1, <1>2, <1>3 DEF riscv64_hard_loads
<1>8. \A i \in 1 .. Count("riscv64_hard") : Loads("riscv64_hard")[i] \in SavedRegisters("riscv64_hard") => Stores("riscv64_hard")[i] = Loads("riscv64_hard")[i]
  <2>1. \A i \in 1 .. 26 : riscv64_hard_stores[i] = riscv64_hard_loads[i]
    BY DEF riscv64_hard_loads, riscv64_hard_stores
  <2>2. riscv64_hard_loads[27] = "pc" /\ "pc" \notin SavedRegisters("riscv64_hard")
    BY <1>2 DEF riscv64_hard_loads
  <2>3. \A i \in 1 .. 27 : i \in 1 .. 26 \/ i = 27
    OBVIOUS
  <2> QED BY <1>1, <1>3, <2>1, <2>2, <2>3
<1>9. Loads("riscv64_hard")[SpPos("riscv64_hard")] = "sp"
  BY <1>1, <1>3 DEF riscv64_hard_loads
<1>10. Loads("riscv64_hard")[PcPos("riscv64_hard")] = PcRegister("riscv64_hard") /\ Stores("riscv64_hard")[PcPos("riscv64_hard")] = LinkRegister("riscv64_hard")
  BY <1>1, <1>3 DEF riscv64_hard_loads, riscv64_hard_stores, PcRegister
<1>11. "riscv64_hard" \notin {"aarch64", "amd64"}
  OBVIOUS
<1>13. /\ "sp" \in SavedRegisters("riscv64_hard") /\ "pc" \notin SavedRegisters("riscv64_hard")
       /\ LinkRegister("riscv64_hard") \notin SavedRegisters("riscv64_hard") /\ LinkRegister("riscv64_hard") # "pc"
  BY <1>1, <1>2
<1> QED BY <1>4, <1>5, <1>6, <1>7, <1>8, <1>9, <1>10, <1>11, <1>13 DEF TableFacts

LEMMA Amd64Table == TableFacts("amd64")
<1>1. Loads("amd64") = amd64_loads /\ Stores("amd64") = amd64_stores /\ LinkRegister("amd64") = "rax"
  BY DEF Loads, Stores, LinkRegister
<1>2. SavedRegisters("amd64") = {"sp", "rbp", "rbx", "r12", "r13", "r14", "r15"}
  BY DEF SavedRegisters
<1>3. Count("amd64") = 7 /\ SpPos("amd64") = 1 /\ PcPos("amd64") = 7
  BY DEF Count, SpPos, PcPos
<1>4. DOMAIN Loads("amd64") = 1 .. Count("amd64") /\ DOMAIN Stores("amd64") = 1 .. Count("amd64")
  <2>1. DOMAIN amd64_loads = 1 .. 7 /\ DOMAIN amd64_stores = 1 .. 7
    BY DEF amd64_loads, amd64_stores
  <2> QED BY <1>1, <1>3, <2>1
<1>5. \A i, j \in 1 .. Count("amd64") : Loads("amd64")[i] = Loads("amd64")[j] => i = j
  BY <1>1, <1>3 DEF amd64_loads
<1>6. \A i \in 1 .. Count("amd64") :
        Loads("amd64")[i] \in Registers("amd64") /\ Stores("amd64")[i] \in Registers("amd64")
  BY <1>1, <1>2, <1>3 DEF amd64_loads, amd64_stores, Registers, CalleeSaved
<1>7. \A r \in SavedRegisters("amd64") : \E i \in 1 .. Count("amd64") : Loads("amd64")[i] = r
  BY <1>1, <1>2, <1>3 DEF amd64_loads
<1>8. \A i \in 1 .. Count("amd64") : Loads("amd64")[i] \in SavedRegisters("amd64") => Stores("amd64")[i] = Loads("amd64")[i]
  BY <1>1, <1>3 DEF amd64_loads, amd64_stores
<1>9. Loads("amd64")[SpPos("amd64")] = "sp"
  BY <1>1, <1>3 DEF amd64_loads
<1>11. \A i \in 1 .. Count("amd64") : Loads("amd64")[i] # "pc" /\ Loads("amd64")[i] # "rax"
  BY <1>1, <1>3 DEF amd64_loads
<1>13. /\ "sp" \in SavedRegisters("amd64") /\ "pc" \notin SavedRegisters("amd64")
       /\ LinkRegister("amd64") \notin SavedRegisters("amd64") /\ LinkRegister("amd64") # "pc"
  BY <1>1, <1>2
<1> QED BY <1>4, <1>5, <1>6, <1>7, <1>8, <1>9, <1>11, <1>13 DEF TableFacts

LEMMA ArmTable == TableFacts("arm")
<1>1. Loads("arm") = arm_loads /\ Stores("arm") = arm_stores /\ LinkRegister("arm") = "lr"
  BY DEF Loads, Stores, LinkRegister
<1>2. SavedRegisters("arm") = {"r4", "r5", "r6", "r7", "r8", "r9", "r10", "r11", "sp"}
  BY DEF SavedRegisters
<1>3. Count("arm") = 10 /\ SpPos("arm") = 9 /\ PcPos("arm") = 10
  BY DEF Count, SpPos, PcPos
<1>4. DOMAIN Loads("arm") = 1 .. Count("arm") /\ DOMAIN Stores("arm") = 1 .. Count("arm")
  <2>1. DOMAIN arm_loads = 1 .. 10 /\ DOMAIN arm_stores = 1 .. 10
    BY DEF arm_loads, arm_stores
  <2> QED BY <1>1, <1>3, <2>1
<1>5. \A i, j \in 1 .. Count("arm") : Loads("arm")[i] = Loads("arm")[j] => i = j
  BY <1>1, <1>3 DEF arm_loads
<1>6. \A i \in 1 .. Count("arm") :
        Loads("arm")[i] \in Registers("arm") /\ Stores("arm")[i] \in Registers("arm")
  BY <1>1, <1>2, <1>3 DEF arm_loads, arm_stores, Registers, CalleeSaved
<1>7. \A r \in SavedRegisters("arm") : \E i \in 1 .. Count("arm") : Loads("arm")[i] = r
  BY <1>1, <1>2, <1>3 DEF arm_loads
<1>8. \A i \in 1 .. Count("arm") : Loads("arm")[i] \in SavedRegisters("arm") => Stores("arm")[i] = Loads("arm")[i]
  <2>1. \A i \in 1 .. 9 : arm_stores[i] = arm_loads[i]
    BY DEF arm_loads, arm_stores
  <2>2. arm_loads[10] = "pc" /\ "pc" \notin SavedRegisters("arm")
    BY <1>2 DEF arm_loads
  <2>3. \A i \in 1 .. 10 : i \in 1 .. 9 \/ i = 10
    OBVIOUS
  <2> QED BY <1>1, <1>3, <2>1, <2>2, <2>3
<1>9. Loads("arm")[SpPos("arm")] = "sp"
  BY <1>1, <1>3 DEF arm_loads
<1>10. Loads("arm")[PcPos("arm")] = PcRegister("arm") /\ Stores("arm")[PcPos("arm")] = LinkRegister("arm")
  BY <1>1, <1>3 DEF arm_loads, arm_stores, PcRegister
<1>11. "arm" \notin {"aarch64", "amd64"}
  OBVIOUS
<1>13. /\ "sp" \in SavedRegisters("arm") /\ "pc" \notin SavedRegisters("arm")
       /\ LinkRegister("arm") \notin SavedRegisters("arm") /\ LinkRegister("arm") # "pc"
  BY <1>1, <1>2
<1> QED BY <1>4, <1>5, <1>6, <1>7, <1>8, <1>9, <1>10, <1>11, <1>13 DEF TableFacts

LEMMA Tables == ASSUME NEW a \in Archs PROVE TableFacts(a)
  BY ArchsAssumption, Aarch64Table, Amd64Table, ArmTable, SoftTable, HardTable DEF ArchNames

-----------------------------------------------------------------------------
(* Where things are: the words of thread t's context from the lowest one   *)
(* up, the cells of its stack from the highest one down, and its handle.   *)
Upper == {"aarch64", "riscv64_soft", "riscv64_hard"}    \* context at the top

Start(a, t) ==
  IF t = ROOT THEN RootBuffer
  ELSE IF a \in Upper THEN Memory[t] + 8 * (co_stack_size \div 8 - Words(a)) ELSE Memory[t]

Base(a, t) ==
  IF t = ROOT THEN RootStack
  ELSE IF a \in Upper THEN AlignDown(Memory[t] + 8 * (co_stack_size \div 8 - Words(a) - 1))
  ELSE IF a = "amd64" THEN Memory[t] + AlignDown(co_stack_size) - 40
  ELSE Memory[t] + AlignDown(co_stack_size)

HandleOf(a, t) == IF a \in Upper THEN Start(a, t) + 8 * (Words(a) - 1) ELSE Start(a, t)

Loc(a, t, i) == Start(a, t) + Word(a) * (i - 1)
Cell(a, t, n) == Base(a, t) - Word(a) * n

(* The invariant.  The words a thread has on its stack are in its cells.   *)
Frames(a, m, t, f) ==
  \A i \in 1 .. Len(f) : Read(m, Cell(a, t, Len(f) - i + 1)) = f[i]

(* The stack pointer in the context of a thread that is not running, and   *)
(* where it will go on: amd64 keeps that on the stack.                     *)
SavedSp(a, t, f) == Addr(Cell(a, t, IF a = "amd64" THEN Len(f) + 1 ELSE Len(f)))

PcWord(a, m, t, f) ==
  Read(m, IF a = "amd64" THEN Cell(a, t, Len(f) + 1) ELSE Loc(a, t, PcPos(a)))

(* A thread that is not running will return from its call of co_switch     *)
(* with the registers it had, or has been derived and will be entered.     *)
Kept(a, m, t, s, f) ==
  /\ s["sp"] = Addr(Cell(a, t, Len(f)))
  /\ \A i \in 1 .. Count(a) : Loads(a)[i] \in SavedRegisters(a) \ {"sp"} =>
       Read(m, Loc(a, t, i)) = s[Loads(a)[i]]
  /\ PcWord(a, m, t, f) = Return(t)

Fresh(a, m, t, f) ==
  /\ t # ROOT /\ f = <<>>
  /\ IF a = "arm" THEN PcWord(a, m, t, f) = Entry(t)
     ELSE /\ PcWord(a, m, t, f) = co_entrypoint_pc
          /\ Read(m, Loc(a, t, EntryPos(a))) = Entry(t)

Parked(a, m, t, s, f) ==
  /\ Frames(a, m, t, f)
  /\ Read(m, Loc(a, t, SpPos(a))) = SavedSp(a, t, f)
  /\ s # <<>> => Kept(a, m, t, s, f)
  /\ s = <<>> => Fresh(a, m, t, f)

(* The running thread's stack pointer is where its frames end; what it     *)
(* finds in its registers depends on how far the switch to it has got.     *)
Running(a, r, m, t, s, f) ==
  /\ DOMAIN r = Registers(a)
  /\ r["sp"] = Addr(Cell(a, t, Len(f)))
  /\ Frames(a, m, t, f)
  /\ r["pc"] \in {Client(t), Return(t), Entry(t), co_entrypoint_pc}
  /\ r["pc"] = Return(t) => s # <<>> /\ \A x \in SavedRegisters(a) : r[x] = s[x]
  /\ r["pc"] \in {Entry(t), co_entrypoint_pc} => s = <<>> /\ t # ROOT /\ f = <<>>
  /\ r["pc"] = co_entrypoint_pc => a # "arm" /\ Read(m, Loc(a, t, EntryPos(a))) = Entry(t)

(* The addresses that may be written, as NoStrayWrites has them.           *)
Legal(a, b) ==
  \/ \E t \in Cothreads : b \in Region(t)
  \/ b >= RootBuffer /\ b < RootBuffer + BufferSize(a)
  \/ b < RootStack /\ b >= RootStack - RootDepth

Frame == {"frame"} \X Int

TypePart ==
  /\ arch \in Archs /\ thread \in Threads
  /\ DOMAIN co_handle = Threads /\ DOMAIN saved = Threads /\ DOMAIN frames = Threads
  /\ \A t \in Threads : frames[t] \in Seq(Frame) /\ Len(frames[t]) <= MaxDepth

HandlePart ==
  /\ \A t \in Threads : co_handle[t] \in {0, HandleOf(arch, t)}
  /\ co_handle[ROOT] = 0 => /\ thread = ROOT /\ co_active_handle = InitialHandle(arch)
                            /\ \A t \in Threads : co_handle[t] = 0
  /\ co_handle[ROOT] # 0 => co_handle[thread] # 0 /\ co_active_handle = co_handle[thread]

ContextInv ==
  /\ TypePart
  /\ HandlePart
  /\ Running(arch, regs, mem, thread, saved[thread], frames[thread])
  /\ \A t \in Threads : t # thread /\ co_handle[t] # 0 =>
       Parked(arch, mem, t, saved[t], frames[t])
  /\ \A b \in DOMAIN mem : Legal(arch, b)

-----------------------------------------------------------------------------
(* Memory: what is read after words were written.                          *)
LEMMA NothingWritten == DOMAIN <<>> = {} /\ \A b : Read(<<>>, b) = Zero
  BY DEF Read

LEMMA Aligned ==
  ASSUME NEW x \in Int
  PROVE  AlignDown(x) \in Int /\ AlignDown(x) <= x /\ x - 15 <= AlignDown(x) /\ AlignDown(x) % 16 = 0
  BY DEF AlignDown

LEMMA Whole ==
  ASSUME NEW x \in Nat
  PROVE  x \div 8 \in Int /\ 8 * (x \div 8) <= x /\ x - 7 <= 8 * (x \div 8)
  OBVIOUS

-----------------------------------------------------------------------------
(* Geometry.  What the arithmetic of co_derive and of the saved contexts   *)
(* comes to: every word of a context and every cell of a stack is in the   *)
(* memory of its thread, and no two of them are the same.                  *)
LEMMA Numbers ==
  ASSUME NEW a \in Archs
  PROVE  /\ Count(a) \in Nat /\ Words(a) \in Nat /\ Count(a) <= Words(a) /\ Words(a) <= 28
         /\ Word(a) \in {4, 8}
         /\ SpPos(a) \in 1 .. Count(a) /\ PcPos(a) \in 1 .. Count(a) /\ EntryPos(a) \in 1 .. Words(a)
         /\ a = "arm" <=> Word(a) = 4
         /\ BufferSize(a) \in Nat /\ Word(a) * Words(a) <= BufferSize(a)
  BY ArchsAssumption DEF ArchNames, Count, Words, Word, SpPos, PcPos, EntryPos, BufferSize

LEMMA Areas ==
  ASSUME NEW a \in Archs, NEW t \in Cothreads
  PROVE  /\ Start(a, t) \in Int /\ Base(a, t) \in Int
         /\ Memory[t] <= Start(a, t) /\ Start(a, t) + Word(a) * Words(a) <= Memory[t] + co_stack_size
         /\ Memory[t] <= Base(a, t) - RootDepth /\ Base(a, t) <= Memory[t] + co_stack_size
         /\ Start(a, t) + Word(a) * Words(a) <= Base(a, t) - RootDepth \/ Base(a, t) <= Start(a, t)
         /\ IF a = "amd64" THEN (Base(a, t) + 8) % 16 = 0 ELSE Base(a, t) % 16 = 0
<1>1. t # ROOT /\ Memory[t] \in Nat /\ Memory[t] % 16 = 0
  BY MemoryAssumption DEF ROOT
<1>2. co_stack_size \in Nat /\ MaxDepth \in Nat /\ co_stack_size >= 256 + RootDepth /\ RootDepth \in Nat
  BY SizeAssumption DEF RootDepth
<1>3. PICK w \in Int : w = co_stack_size \div 8 /\ 8 * w <= co_stack_size /\ co_stack_size - 7 <= 8 * w
  BY <1>2, Whole
<1>4. CASE a \in Upper
  <2>1. Words(a) \in {16, 21, 28} /\ Word(a) = 8 /\ a # "amd64"
    BY <1>4 DEF Upper, Words, Word, Count
  <2>2. Start(a, t) = Memory[t] + 8 * (w - Words(a)) /\ Base(a, t) = AlignDown(Memory[t] + 8 * (w - Words(a) - 1))
    BY <1>1, <1>3, <1>4 DEF Start, Base
  <2>3. Memory[t] + 8 * (w - Words(a) - 1) \in Int
    BY <1>1, <1>3, <2>1
  <2>4. PICK x \in Int : x = Memory[t] + 8 * (w - Words(a) - 1)
    BY <2>3
  <2>5. PICK b \in Int : /\ b = Base(a, t) /\ b % 16 = 0
                         /\ b <= x /\ x - 15 <= b
    BY <2>2, <2>4, Aligned
  <2> QED BY <1>1, <1>2, <1>3, <2>1, <2>2, <2>4, <2>5
<1>5. CASE a \in {"amd64", "arm"}
  <2>1. Words(a) \in {7, 10} /\ Word(a) \in {4, 8} /\ a \notin Upper
    BY <1>5 DEF Upper, Words, Word, Count
  <2>2. PICK s \in Int : s = AlignDown(co_stack_size) /\ s <= co_stack_size /\ co_stack_size - 15 <= s /\ s % 16 = 0
    BY <1>2, Aligned
  <2>3. /\ Start(a, t) = Memory[t]
        /\ Base(a, t) = IF a = "amd64" THEN Memory[t] + s - 40 ELSE Memory[t] + s
    BY <1>1, <2>1, <2>2 DEF Start, Base
  <2> QED BY <1>1, <1>2, <2>1, <2>2, <2>3
<1> QED BY <1>4, <1>5, ArchsAssumption DEF ArchNames, Upper

Within(a, t, b) ==
  IF t = ROOT
  THEN \/ b >= RootBuffer /\ b < RootBuffer + BufferSize(a)
       \/ b < RootStack /\ b >= RootStack - RootDepth
  ELSE b \in Region(t)

LEMMA WithinApart ==
  ASSUME NEW a \in Archs, NEW t \in Threads, NEW u \in Threads, NEW b \in Int,
         Within(a, t, b), Within(a, u, b)
  PROVE  t = u
<1>1. co_stack_size \in Nat /\ RootDepth \in Nat /\ BufferSize(a) \in Nat
  BY SizeAssumption, Numbers DEF RootDepth
<1>2. RootBuffer \in Nat /\ RootStack \in Nat /\ \A v \in Cothreads : Memory[v] \in Nat /\ v # ROOT
  BY MemoryAssumption, PlacesAssumption DEF ROOT
<1>3. ASSUME NEW v \in Cothreads, b \in Region(v) PROVE ~Within(a, ROOT, b)
  <2>1. Apart(Memory[v], co_stack_size, RootBuffer, BufferSize(a)) /\ Apart(Memory[v], co_stack_size, RootStack - RootDepth, RootDepth)
    BY <1>1, PlacesAssumption
  <2> QED BY <1>1, <1>2, <1>3, <2>1 DEF Apart, Region, Within
<1>4. ASSUME NEW v \in Cothreads, NEW x \in Cothreads, b \in Region(v), b \in Region(x), v # x PROVE FALSE
  <2>1. Apart(Memory[v], co_stack_size, Memory[x], co_stack_size)
    BY <1>4, PlacesAssumption
  <2> QED BY <1>1, <1>2, <1>4, <2>1 DEF Apart, Region
<1> QED BY <1>2, <1>3, <1>4 DEF Within, Threads

LEMMA LocWithin ==
  ASSUME NEW a \in Archs, NEW t \in Threads, NEW i \in 1 .. Words(a)
  PROVE  /\ Loc(a, t, i) \in Int /\ Within(a, t, Loc(a, t, i))
         /\ Start(a, t) \in Int /\ Start(a, t) <= Loc(a, t, i)
         /\ Loc(a, t, i) < Start(a, t) + Word(a) * Words(a)
<1>1. /\ Word(a) \in {4, 8} /\ Words(a) \in Nat /\ Words(a) <= 28
      /\ BufferSize(a) \in Nat /\ Word(a) * Words(a) <= BufferSize(a)
  BY Numbers
<1>2. CASE t = ROOT
  <2>1. Start(a, t) = RootBuffer /\ RootBuffer \in Nat
    BY <1>2, PlacesAssumption DEF Start
  <2> QED BY <1>1, <1>2, <2>1 DEF Loc, Within
<1>3. CASE t # ROOT
  <2>1. /\ t \in Cothreads /\ Memory[t] \in Nat /\ co_stack_size \in Nat
        /\ Start(a, t) \in Int /\ Memory[t] <= Start(a, t)
        /\ Start(a, t) + Word(a) * Words(a) <= Memory[t] + co_stack_size
    BY <1>3, MemoryAssumption, SizeAssumption, Areas DEF Threads
  <2> QED BY <1>1, <1>3, <2>1 DEF Loc, Within, Region
<1> QED BY <1>2, <1>3

LEMMA CellWithin ==
  ASSUME NEW a \in Archs, NEW t \in Threads, NEW n \in 1 .. MaxDepth + 1
  PROVE  /\ Cell(a, t, n) \in Int /\ Within(a, t, Cell(a, t, n))
         /\ Base(a, t) \in Int /\ Base(a, t) - RootDepth <= Cell(a, t, n) /\ Cell(a, t, n) < Base(a, t)
<1>1. Word(a) \in {4, 8} /\ MaxDepth \in Nat /\ RootDepth = 8 * (MaxDepth + 1)
  BY Numbers, SizeAssumption DEF RootDepth
<1>2. CASE t = ROOT
  <2>1. Base(a, t) = RootStack /\ RootStack \in Nat
    BY <1>2, PlacesAssumption DEF Base
  <2> QED BY <1>1, <1>2, <2>1 DEF Cell, Within
<1>3. CASE t # ROOT
  <2>1. /\ t \in Cothreads /\ Memory[t] \in Nat /\ co_stack_size \in Nat
        /\ Base(a, t) \in Int /\ Memory[t] <= Base(a, t) - RootDepth
        /\ Base(a, t) <= Memory[t] + co_stack_size
    BY <1>3, MemoryAssumption, SizeAssumption, Areas DEF Threads
  <2> QED BY <1>1, <1>3, <2>1 DEF Cell, Within, Region
<1> QED BY <1>2, <1>3

LEMMA LocsApart ==
  ASSUME NEW a \in Archs, NEW t \in Threads, NEW u \in Threads,
         NEW i \in 1 .. Words(a), NEW j \in 1 .. Words(a), Loc(a, t, i) = Loc(a, u, j)
  PROVE  t = u /\ i = j
<1>1. t = u
  BY LocWithin, WithinApart
<1>2. Start(a, t) \in Int /\ Word(a) \in {4, 8} /\ Words(a) \in Nat
  BY LocWithin, Numbers
<1>3. i = j
  BY <1>1, <1>2 DEF Loc
<1> QED BY <1>1, <1>3

LEMMA CellsApart ==
  ASSUME NEW a \in Archs, NEW t \in Threads, NEW u \in Threads,
         NEW i \in 1 .. MaxDepth + 1, NEW j \in 1 .. MaxDepth + 1, Cell(a, t, i) = Cell(a, u, j)
  PROVE  t = u /\ i = j
<1>1. t = u
  BY CellWithin, WithinApart
<1>2. Base(a, t) \in Int /\ Word(a) \in {4, 8} /\ MaxDepth \in Nat
  BY CellWithin, Numbers, SizeAssumption
<1>3. i = j
  BY <1>1, <1>2 DEF Cell
<1> QED BY <1>1, <1>3

LEMMA LocIsNoCell ==
  ASSUME NEW a \in Archs, NEW t \in Threads, NEW u \in Threads,
         NEW i \in 1 .. Words(a), NEW n \in 1 .. MaxDepth + 1
  PROVE  Loc(a, t, i) # Cell(a, u, n)
<1> SUFFICES ASSUME Loc(a, t, i) = Cell(a, u, n) PROVE FALSE
  OBVIOUS
<1>1. t = u
  BY LocWithin, CellWithin, WithinApart
<1>2. /\ Start(a, t) \in Int /\ Start(a, t) <= Loc(a, t, i) /\ Loc(a, t, i) \in Int
      /\ Loc(a, t, i) < Start(a, t) + Word(a) * Words(a)
  BY LocWithin
<1>3. Base(a, t) \in Int /\ Base(a, t) - RootDepth <= Loc(a, t, i) /\ Loc(a, t, i) < Base(a, t)
  BY <1>1, CellWithin
<1>4. /\ Word(a) * Words(a) \in Int /\ Word(a) * Words(a) <= BufferSize(a) /\ BufferSize(a) \in Int
      /\ RootDepth \in Int
  BY Numbers, SizeAssumption DEF RootDepth
<1>5. CASE t = ROOT
  <2>1. Start(a, t) = RootBuffer /\ Base(a, t) = RootStack /\ RootBuffer \in Int /\ RootStack \in Int
    BY <1>5, PlacesAssumption DEF Start, Base
  <2>2. Apart(RootBuffer, BufferSize(a), RootStack - RootDepth, RootDepth)
    BY <1>4, PlacesAssumption
  <2> QED BY <1>2, <1>3, <1>4, <2>1, <2>2 DEF Apart
<1>6. CASE t # ROOT
  <2>1. Start(a, t) + Word(a) * Words(a) <= Base(a, t) - RootDepth \/ Base(a, t) <= Start(a, t)
    BY <1>6, Areas DEF Threads
  <2> QED BY <1>2, <1>3, <1>4, <2>1
<1> QED BY <1>5, <1>6

LEMMA PlacesLegal ==
  ASSUME NEW a \in Archs, NEW t \in Threads
  PROVE  /\ \A i \in 1 .. Words(a) : Legal(a, Loc(a, t, i))
         /\ \A n \in 1 .. MaxDepth + 1 : Legal(a, Cell(a, t, n))
  BY LocWithin, CellWithin DEF Within, Legal, Threads

(* A cothread's memory holds its own context and stack and no other's.     *)
LEMMA PlacesOfRegion ==
  ASSUME NEW a \in Archs, NEW t \in Cothreads, NEW u \in Threads
  PROVE  /\ \A i \in 1 .. Words(a) : Loc(a, u, i) \in Region(t) <=> u = t
         /\ \A n \in 1 .. MaxDepth + 1 : Cell(a, u, n) \in Region(t) <=> u = t
<1>1. t \in Threads /\ t # ROOT
  BY MemoryAssumption DEF Threads, ROOT
<1>2. \A b : Within(a, t, b) <=> b \in Region(t)
  BY <1>1 DEF Within
<1>3. ASSUME NEW i \in 1 .. Words(a) PROVE Loc(a, u, i) \in Region(t) <=> u = t
  BY <1>1, <1>2, LocWithin, WithinApart
<1>4. ASSUME NEW n \in 1 .. MaxDepth + 1 PROVE Cell(a, u, n) \in Region(t) <=> u = t
  BY <1>1, <1>2, CellWithin, WithinApart
<1> QED BY <1>3, <1>4

LEMMA HandleIs ==
  ASSUME NEW a \in Archs, NEW t \in Threads
  PROVE  Start(a, t) \in Nat \ {0} /\ HandleOf(a, t) # 0 /\ HandleOf(a, t) \in Int
<1>1. Start(a, t) \in Nat \ {0}
  <2>1. CASE t = ROOT
    BY <2>1, PlacesAssumption DEF Start
  <2>2. CASE t # ROOT
    <3>1. t \in Cothreads /\ Memory[t] \in Nat \ {0}
      BY <2>2, MemoryAssumption DEF Threads
    <3>2. Start(a, t) \in Int /\ Memory[t] <= Start(a, t)
      BY <3>1, Areas
    <3> QED BY <3>1, <3>2
  <2> QED BY <2>1, <2>2
<1>2. Words(a) - 1 \in Nat
  BY ArchsAssumption DEF ArchNames, Words, Count
<1> QED BY <1>1, <1>2 DEF HandleOf

(* co_swap finds the first word of a context from the handle: in the 32    *)
(* bit arithmetic of RISC-V too, if the contexts are below 2^31.           *)
LEMMA FirstWordIs ==
  ASSUME ContextsLow, NEW a \in Archs, NEW t \in Threads
  PROVE  FirstWord(a, HandleOf(a, t)) = Start(a, t)
<1>1. Start(a, t) \in Nat /\ (a \in {"riscv64_soft", "riscv64_hard"} => Half \in Nat /\ Start(a, t) < Half)
  <2>1. Start(a, t) \in Nat /\ Half \in Nat
    BY HandleIs, HalfAssumption
  <2>2. SUFFICES ASSUME a \in {"riscv64_soft", "riscv64_hard"} PROVE Start(a, t) < Half
    BY <2>1
  <2>3. Archs \cap {"riscv64_soft", "riscv64_hard"} # {}
    BY <2>2
  <2>4. Word(a) * Words(a) \in Nat \ {0} /\ BufferSize(a) \in Nat \ {0}
    BY <2>2 DEF Word, Words, Count, BufferSize
  <2>5. CASE t = ROOT
    <3>1. Start(a, t) = RootBuffer /\ RootBuffer + BufferSize(a) <= Half /\ RootBuffer \in Nat
      BY <2>3, <2>5, PlacesAssumption DEF Start, ContextsLow
    <3> QED BY <2>1, <2>4, <3>1
  <2>6. CASE t # ROOT
    <3>1. /\ t \in Cothreads /\ Memory[t] \in Nat /\ co_stack_size \in Nat
          /\ Start(a, t) + Word(a) * Words(a) <= Memory[t] + co_stack_size
      BY <2>6, MemoryAssumption, SizeAssumption, Areas DEF Threads
    <3>2. Memory[t] + co_stack_size <= Half
      BY <2>3, <3>1 DEF ContextsLow
    <3> QED BY <2>1, <2>4, <3>1, <3>2
  <2> QED BY <2>5, <2>6
<1>2. CASE a = "aarch64"
  <2>1. HandleOf(a, t) = Start(a, t) + 160
    BY <1>1, <1>2 DEF HandleOf, Upper, Words, Count
  <2>2. FirstWord(a, HandleOf(a, t)) = HandleOf(a, t) - 160
    BY <1>2 DEF FirstWord
  <2> QED BY <1>1, <2>1, <2>2
<1>3. CASE a = "riscv64_soft"
  <2>1. HandleOf(a, t) = Start(a, t) + 120
    BY <1>1, <1>3 DEF HandleOf, Upper, Words, Count
  <2>2. FirstWord(a, HandleOf(a, t)) = Addiw(HandleOf(a, t), -120)
    BY <1>3 DEF FirstWord
  <2>3. Half \in Nat /\ Start(a, t) < Half /\ (Start(a, t) + 120) + (-120) = Start(a, t)
    BY <1>1, <1>3
  <2>4. Start(a, t) % (2 * Half) = Start(a, t)
    BY <1>1, <2>3
  <2> QED BY <1>1, <2>1, <2>2, <2>3, <2>4 DEF Addiw
<1>4. CASE a = "riscv64_hard"
  <2>1. HandleOf(a, t) = Start(a, t) + 216
    BY <1>1, <1>4 DEF HandleOf, Upper, Words, Count
  <2>2. FirstWord(a, HandleOf(a, t)) = Addiw(HandleOf(a, t), -216)
    BY <1>4 DEF FirstWord
  <2>3. Half \in Nat /\ Start(a, t) < Half /\ (Start(a, t) + 216) + (-216) = Start(a, t)
    BY <1>1, <1>4
  <2>4. Start(a, t) % (2 * Half) = Start(a, t)
    BY <1>1, <2>3
  <2> QED BY <1>1, <2>1, <2>2, <2>3, <2>4 DEF Addiw
<1>5. CASE a \in {"amd64", "arm"}
  <2>1. HandleOf(a, t) = Start(a, t)
    BY <1>5 DEF HandleOf, Upper
  <2>2. FirstWord(a, HandleOf(a, t)) = HandleOf(a, t)
    BY <1>5 DEF FirstWord
  <2> QED BY <1>1, <2>1, <2>2
<1> QED BY <1>2, <1>3, <1>4, <1>5, ArchsAssumption DEF ArchNames

LEMMA RootHandleIs == ASSUME NEW a \in Archs PROVE RootHandle(a) = HandleOf(a, ROOT)
<1>1. Len(aarch64_regs) = 21 /\ Len(riscv64_soft_regs) = 16 /\ Len(riscv64_hard_regs) = 28
  BY DEF aarch64_regs, riscv64_soft_regs, riscv64_hard_regs
<1>2. CASE a = "aarch64"
  <2>1. RootHandle(a) = RootBuffer + 8 * (Len(aarch64_regs) - 1)
    BY <1>2 DEF RootHandle
  <2> QED BY <1>1, <1>2, <2>1 DEF HandleOf, Start, Upper, Words, Count
<1>3. CASE a = "riscv64_soft"
  <2>1. RootHandle(a) = RootBuffer + 8 * (Len(riscv64_soft_regs) - 1)
    BY <1>3 DEF RootHandle
  <2> QED BY <1>1, <1>3, <2>1 DEF HandleOf, Start, Upper, Words, Count
<1>4. CASE a = "riscv64_hard"
  <2>1. RootHandle(a) = RootBuffer + 8 * (Len(riscv64_hard_regs) - 1)
    BY <1>4 DEF RootHandle
  <2> QED BY <1>1, <1>4, <2>1 DEF HandleOf, Start, Upper, Words, Count
<1>5. CASE a \in {"amd64", "arm"}
  <2>1. RootHandle(a) = RootBuffer
    BY <1>5 DEF RootHandle
  <2> QED BY <1>5, <2>1 DEF HandleOf, Start, Upper
<1> QED BY <1>2, <1>3, <1>4, <1>5, ArchsAssumption DEF ArchNames

-----------------------------------------------------------------------------
(* co_derive: the words it writes make a context to start from.            *)

LEMMA Slots ==
  /\ Slot(aarch64_regs, "lr") = 0 /\ Slot(aarch64_regs, "sp") = 1
  /\ Slot(aarch64_regs, "fp") = 2 /\ Slot(aarch64_regs, "x19") = 3
  /\ Slot(riscv64_soft_regs, "client_entry") = 0 /\ Slot(riscv64_soft_regs, "pc") = 1
  /\ Slot(riscv64_soft_regs, "fp") = 13 /\ Slot(riscv64_soft_regs, "sp") = 14
  /\ Slot(riscv64_soft_regs, "ra") = 15
  /\ Slot(riscv64_hard_regs, "client_entry") = 0 /\ Slot(riscv64_hard_regs, "pc") = 1
  /\ Slot(riscv64_hard_regs, "fp") = 25 /\ Slot(riscv64_hard_regs, "sp") = 26
  /\ Slot(riscv64_hard_regs, "ra") = 27
<1>1. DOMAIN aarch64_regs = 1 .. 21 /\ \A i \in 1 .. 21 :
        /\ aarch64_regs[i] = "lr" <=> i = 1
        /\ aarch64_regs[i] = "sp" <=> i = 2
        /\ aarch64_regs[i] = "fp" <=> i = 3
        /\ aarch64_regs[i] = "x19" <=> i = 4
  BY DEF aarch64_regs
<1>2. DOMAIN riscv64_soft_regs = 1 .. 16 /\ \A i \in 1 .. 16 :
        /\ riscv64_soft_regs[i] = "client_entry" <=> i = 1
        /\ riscv64_soft_regs[i] = "pc" <=> i = 2
        /\ riscv64_soft_regs[i] = "fp" <=> i = 14
        /\ riscv64_soft_regs[i] = "sp" <=> i = 15
        /\ riscv64_soft_regs[i] = "ra" <=> i = 16
  BY DEF riscv64_soft_regs
<1>3. DOMAIN riscv64_hard_regs = 1 .. 28 /\ \A i \in 1 .. 28 :
        /\ riscv64_hard_regs[i] = "client_entry" <=> i = 1
        /\ riscv64_hard_regs[i] = "pc" <=> i = 2
        /\ riscv64_hard_regs[i] = "fp" <=> i = 26
        /\ riscv64_hard_regs[i] = "sp" <=> i = 27
        /\ riscv64_hard_regs[i] = "ra" <=> i = 28
  BY DEF riscv64_hard_regs
<1>4. /\ Slot(aarch64_regs, "lr") = 0 /\ Slot(aarch64_regs, "sp") = 1
      /\ Slot(aarch64_regs, "fp") = 2 /\ Slot(aarch64_regs, "x19") = 3
  BY <1>1 DEF Slot
<1>5. /\ Slot(riscv64_soft_regs, "client_entry") = 0 /\ Slot(riscv64_soft_regs, "pc") = 1
      /\ Slot(riscv64_soft_regs, "fp") = 13 /\ Slot(riscv64_soft_regs, "sp") = 14
      /\ Slot(riscv64_soft_regs, "ra") = 15
  BY <1>2 DEF Slot
<1>6. /\ Slot(riscv64_hard_regs, "client_entry") = 0 /\ Slot(riscv64_hard_regs, "pc") = 1
      /\ Slot(riscv64_hard_regs, "fp") = 25 /\ Slot(riscv64_hard_regs, "sp") = 26
      /\ Slot(riscv64_hard_regs, "ra") = 27
  BY <1>3 DEF Slot
<1> QED BY <1>4, <1>5, <1>6

Ready(a, t, handle, ws) ==
  /\ handle = HandleOf(a, t) /\ DOMAIN ws \subseteq Region(t)
  /\ Read(ws, Loc(a, t, SpPos(a))) = SavedSp(a, t, <<>>)
  /\ Fresh(a, ws, t, <<>>)

LEMMA Aarch64Derive ==
  ASSUME NEW t \in Cothreads, "aarch64" \in Archs,
         NEW d, d = aarch64_co_derive(Memory[t], co_stack_size, Entry(t))
  PROVE  Ready("aarch64", t, d.handle, d.words)
<1> DEFINE a == "aarch64"
           w == co_stack_size \div 8
           s == Start(a, t)
           sp == Addr(Base(a, t))
<1>1. t # ROOT /\ t \in Threads /\ Memory[t] \in Nat /\ w \in Int
  BY MemoryAssumption, SizeAssumption DEF Threads, ROOT
<1>2. s = Memory[t] + 8 * (w - 21) /\ s \in Int /\ Base(a, t) = AlignDown(Memory[t] + 8 * (w - 21 - 1))
  BY <1>1 DEF Start, Base, Upper, Words, Count
<1>3. Memory[t] + 8 * (w - 1) = s + 160 /\ Len(aarch64_regs) = 21
  BY <1>1, <1>2 DEF aarch64_regs
<1>4. /\ d.handle = s + 160
      /\ d.words = Put(Put(Put(Put(<<>>, s + 152, sp), s + 160, co_entrypoint_pc), s + 136, Entry(t)), s + 144, sp)
  <2>1. /\ d.handle = Memory[t] + 8 * (w - 1)
        /\ d.words = Put(Put(Put(Put(<<>>, s + 160 - 8 * 1, sp), s + 160 - 8 * 0, co_entrypoint_pc),
                              s + 160 - 8 * 3, Entry(t)), s + 160 - 8 * 2, sp)
    BY <1>2, <1>3, Slots DEF aarch64_co_derive
  <2> QED BY <1>2, <1>3, <2>1
<1>5. /\ Loc(a, t, 18) = s + 136 /\ Loc(a, t, 19) = s + 144 /\ Loc(a, t, 20) = s + 152 /\ Loc(a, t, 21) = s + 160
      /\ Words(a) = 21 /\ SpPos(a) = 20 /\ PcPos(a) = 21 /\ EntryPos(a) = 18
  BY <1>2 DEF Loc, Word, Words, Count, SpPos, PcPos, EntryPos
<1>6. d.handle = HandleOf(a, t)
  BY <1>2, <1>4, <1>5 DEF HandleOf, Upper
<1>7. s + 136 \in Region(t) /\ s + 144 \in Region(t) /\ s + 152 \in Region(t) /\ s + 160 \in Region(t)
  BY <1>1, <1>5, PlacesOfRegion
<1> HIDE DEF s, sp
<1>8. DOMAIN d.words \subseteq Region(t)
  BY <1>4, <1>7 DEF Put
<1>9. Read(d.words, s + 152) = sp /\ Read(d.words, s + 160) = co_entrypoint_pc /\ Read(d.words, s + 136) = Entry(t)
  BY <1>2, <1>4 DEF Put, Read
<1>10. SavedSp(a, t, <<>>) = sp
  <2>1. Cell(a, t, 0) = Base(a, t)
    BY <1>1, Areas DEF Cell, Word
  <2> QED BY <2>1 DEF SavedSp, sp
<1> QED BY <1>1, <1>5, <1>6, <1>8, <1>9, <1>10 DEF Ready, Fresh, PcWord

LEMMA RiscvDerive ==
  ASSUME NEW t \in Cothreads, NEW a \in Archs, NEW e, NEW d,
         \/ a = "riscv64_soft" /\ e = riscv64_soft_regs
         \/ a = "riscv64_hard" /\ e = riscv64_hard_regs,
         d = riscv64_co_derive(e, Memory[t], co_stack_size, Entry(t))
  PROVE  Ready(a, t, d.handle, d.words)
<1> DEFINE w == co_stack_size \div 8
           n == Words(a)
           s == Start(a, t)
           sp == Addr(Base(a, t))
<1>1. t # ROOT /\ t \in Threads /\ Memory[t] \in Nat /\ w \in Int
  BY MemoryAssumption, SizeAssumption DEF Threads, ROOT
<1>2. /\ n \in {16, 28} /\ Len(e) = n /\ a \in Upper
      /\ SpPos(a) = 2 /\ PcPos(a) = n - 1 /\ EntryPos(a) = n /\ Word(a) = 8
      /\ a # "amd64" /\ a # "arm"
  <2>1. Len(riscv64_soft_regs) = 16 /\ Len(riscv64_hard_regs) = 28
    BY DEF riscv64_soft_regs, riscv64_hard_regs
  <2> QED BY <2>1 DEF Upper, Words, Count, SpPos, PcPos, EntryPos, Word
<1>3. s = Memory[t] + 8 * (w - n) /\ s \in Int /\ Base(a, t) = AlignDown(Memory[t] + 8 * (w - n - 1))
  BY <1>1, <1>2 DEF Start, Base
<1>4. /\ Slot(e, "client_entry") = 0 /\ Slot(e, "pc") = 1
      /\ Slot(e, "fp") = n - 3 /\ Slot(e, "sp") = n - 2 /\ Slot(e, "ra") = n - 1
  BY Slots DEF Words, Count
<1> DEFINE top == Memory[t] + 8 * (w - 1)
<1>5. /\ d.handle = top
      /\ d.words = Put(Put(Put(Put(Put(<<>>, top - 8 * (n - 1), Zero), top - 8 * (n - 2), sp),
                                   top - 8 * (n - 3), sp), top - 8 * 1, co_entrypoint_pc),
                       top - 8 * 0, Entry(t))
  BY <1>2, <1>3, <1>4 DEF riscv64_co_derive
<1>6. /\ top = s + 8 * (n - 1) /\ top - 8 * (n - 1) = s /\ top - 8 * (n - 2) = s + 8
      /\ top - 8 * (n - 3) = s + 16 /\ top - 8 * 1 = s + 8 * (n - 2) /\ top - 8 * 0 = s + 8 * (n - 1)
  <2>1. \A x, y, k \in Int :
          LET p == x + 8 * (y - 1)
              q == x + 8 * (y - k)
          IN  /\ p = q + 8 * (k - 1) /\ p - 8 * (k - 1) = q /\ p - 8 * (k - 2) = q + 8
              /\ p - 8 * (k - 3) = q + 16 /\ p - 8 * 1 = q + 8 * (k - 2) /\ p - 8 * 0 = q + 8 * (k - 1)
    OBVIOUS
  <2>2. Memory[t] \in Int /\ n \in Int
    BY <1>1, <1>2
  <2> HIDE DEF n, w
  <2> QED BY <1>1, <1>3, <2>1, <2>2
<1>7. /\ Loc(a, t, 1) = s /\ Loc(a, t, 2) = s + 8 /\ Loc(a, t, 3) = s + 16
      /\ Loc(a, t, n - 1) = s + 8 * (n - 2) /\ Loc(a, t, n) = s + 8 * (n - 1)
  BY <1>2, <1>3 DEF Loc
<1>8. d.handle = HandleOf(a, t)
  BY <1>2, <1>5, <1>6 DEF HandleOf
<1>9. \A i \in {1, 2, 3, n - 1, n} : Loc(a, t, i) \in Region(t)
  BY <1>1, <1>2, PlacesOfRegion
<1> HIDE DEF s, sp, top, n
<1>10. d.words = Put(Put(Put(Put(Put(<<>>, s, Zero), s + 8, sp), s + 16, sp),
                         s + 8 * (n - 2), co_entrypoint_pc), s + 8 * (n - 1), Entry(t))
  BY <1>5, <1>6
<1>11. DOMAIN d.words \subseteq Region(t)
  BY <1>7, <1>9, <1>10 DEF Put
<1>12. /\ Read(d.words, s + 8) = sp /\ Read(d.words, s + 8 * (n - 2)) = co_entrypoint_pc
       /\ Read(d.words, s + 8 * (n - 1)) = Entry(t)
  <2>1. /\ s + 8 # s + 16 /\ s + 8 # s + 8 * (n - 2) /\ s + 8 # s + 8 * (n - 1)
        /\ s + 8 * (n - 2) # s + 8 * (n - 1)
    BY <1>2, <1>3
  <2>2. Read(d.words, s + 8) = sp
    BY <1>10, <2>1 DEF Put, Read
  <2>3. Read(d.words, s + 8 * (n - 2)) = co_entrypoint_pc
    BY <1>10, <2>1 DEF Put, Read
  <2>4. Read(d.words, s + 8 * (n - 1)) = Entry(t)
    BY <1>10 DEF Put, Read
  <2> QED BY <2>2, <2>3, <2>4
<1>13. SavedSp(a, t, <<>>) = sp
  <2>1. Cell(a, t, 0) = Base(a, t)
    BY <1>1, <1>2, Areas DEF Cell
  <2> QED BY <1>2, <2>1 DEF SavedSp, sp
<1> QED BY <1>1, <1>2, <1>7, <1>8, <1>11, <1>12, <1>13 DEF Ready, Fresh, PcWord

LEMMA Amd64Derive ==
  ASSUME NEW t \in Cothreads, "amd64" \in Archs,
         NEW d, d = amd64_co_derive(Memory[t], co_stack_size, Entry(t))
  PROVE  Ready("amd64", t, d.handle, d.words)
<1> DEFINE a == "amd64"
           s == Memory[t]
           b == Base(a, t)
<1>1. t # ROOT /\ t \in Threads /\ s \in Nat /\ co_stack_size \in Nat /\ RootDepth \in Nat
  BY MemoryAssumption, SizeAssumption DEF Threads, ROOT, RootDepth
<1>2. PICK z \in Int : z = AlignDown(co_stack_size) /\ co_stack_size - 15 <= z /\ z <= co_stack_size
  BY <1>1, Aligned
<1>3. b = s + z - 40 /\ Start(a, t) = s /\ HandleOf(a, t) = s
  BY <1>1, <1>2 DEF Base, Start, HandleOf, Upper
<1>4. /\ Loc(a, t, 1) = s /\ Loc(a, t, 2) = s + 8 /\ Words(a) = 7 /\ SpPos(a) = 1 /\ EntryPos(a) = 2
      /\ Cell(a, t, 1) = b - 8
  BY <1>1, <1>2, <1>3 DEF Loc, Cell, Word, Words, Count, SpPos, EntryPos
<1>5. (s + z - 32) - 8 = b /\ (s + z - 32) - 16 = b - 8
  BY <1>1, <1>2, <1>3
<1>6. /\ d.handle = s
      /\ d.words = Put(Put(Put(Put(<<>>, b, Zero), b - 8, co_entrypoint_pc), s, Addr(b - 8)), s + 8, Entry(t))
  BY <1>2, <1>5 DEF amd64_co_derive
<1>7. s \in Region(t) /\ s + 8 \in Region(t) /\ b \in Region(t) /\ b - 8 \in Region(t) /\ b > s + 16
  BY <1>1, <1>2, <1>3, SizeAssumption DEF Region
<1> HIDE DEF s, b
<1>8. DOMAIN d.words \subseteq Region(t)
  BY <1>6, <1>7 DEF Put
<1>9. Read(d.words, s) = Addr(b - 8) /\ Read(d.words, b - 8) = co_entrypoint_pc /\ Read(d.words, s + 8) = Entry(t)
  BY <1>1, <1>2, <1>3, <1>6, <1>7 DEF Put, Read
<1>10. SavedSp(a, t, <<>>) = Addr(b - 8)
  BY <1>4 DEF SavedSp
<1> QED BY <1>1, <1>3, <1>4, <1>6, <1>8, <1>9, <1>10 DEF Ready, Fresh, PcWord

LEMMA ArmDerive ==
  ASSUME NEW t \in Cothreads, "arm" \in Archs,
         NEW d, d = arm_co_derive(Memory[t], co_stack_size, Entry(t))
  PROVE  Ready("arm", t, d.handle, d.words)
<1> DEFINE a == "arm"
           s == Memory[t]
           b == Base(a, t)
<1>1. t # ROOT /\ t \in Threads /\ s \in Nat
  BY MemoryAssumption DEF Threads, ROOT
<1>2. b = s + AlignDown(co_stack_size) /\ Start(a, t) = s /\ HandleOf(a, t) = s
  BY <1>1 DEF Base, Start, HandleOf, Upper
<1>3. /\ Loc(a, t, 9) = s + 32 /\ Loc(a, t, 10) = s + 36
      /\ Words(a) = 10 /\ SpPos(a) = 9 /\ PcPos(a) = 10
  BY <1>1, <1>2 DEF Loc, Word, Words, Count, SpPos, PcPos
<1>4. Cell(a, t, 0) = b
  BY Areas DEF Cell, Word
<1>5. d.handle = s /\ d.words = Put(Put(<<>>, s + 32, Addr(b)), s + 36, Entry(t))
  BY <1>2 DEF arm_co_derive
<1>6. s + 32 \in Region(t) /\ s + 36 \in Region(t)
  BY <1>1, <1>3, PlacesOfRegion
<1> HIDE DEF s, b
<1>7. DOMAIN d.words \subseteq Region(t)
  BY <1>5, <1>6 DEF Put
<1>8. Read(d.words, s + 32) = Addr(b) /\ Read(d.words, s + 36) = Entry(t)
  BY <1>1, <1>5 DEF Put, Read
<1>9. SavedSp(a, t, <<>>) = Addr(b)
  BY <1>4 DEF SavedSp
<1> QED BY <1>1, <1>2, <1>3, <1>5, <1>7, <1>8, <1>9 DEF Ready, Fresh, PcWord

LEMMA DerivedReady ==
  ASSUME NEW a \in Archs, NEW t \in Cothreads,
         NEW d, d = Derived(a, Memory[t], co_stack_size, Entry(t))
  PROVE  Ready(a, t, d.handle, d.words)
<1>1. CASE a = "aarch64"
  <2>1. d = aarch64_co_derive(Memory[t], co_stack_size, Entry(t))
    BY <1>1 DEF Derived
  <2> QED BY <1>1, <2>1, Aarch64Derive
<1>2. CASE a = "riscv64_soft"
  <2>1. d = riscv64_co_derive(riscv64_soft_regs, Memory[t], co_stack_size, Entry(t))
    BY <1>2 DEF Derived
  <2> QED BY <1>2, <2>1, RiscvDerive
<1>3. CASE a = "riscv64_hard"
  <2>1. d = riscv64_co_derive(riscv64_hard_regs, Memory[t], co_stack_size, Entry(t))
    BY <1>3 DEF Derived
  <2> QED BY <1>3, <2>1, RiscvDerive
<1>4. CASE a = "amd64"
  <2>1. d = amd64_co_derive(Memory[t], co_stack_size, Entry(t))
    BY <1>4 DEF Derived
  <2> QED BY <1>4, <2>1, Amd64Derive
<1>5. CASE a = "arm"
  <2>1. d = arm_co_derive(Memory[t], co_stack_size, Entry(t))
    BY <1>5 DEF Derived
  <2> QED BY <1>5, <2>1, ArmDerive
<1> QED BY <1>1, <1>2, <1>3, <1>4, <1>5, ArchsAssumption DEF ArchNames

-----------------------------------------------------------------------------
(* What co_swap stores and loads, word by word.                            *)
LEMMA Tags ==
  ASSUME NEW t
  PROVE  /\ Client(t) # Return(t) /\ Client(t) # Entry(t) /\ Client(t) # co_entrypoint_pc
         /\ Return(t) # Entry(t) /\ Return(t) # co_entrypoint_pc /\ Entry(t) # co_entrypoint_pc
  BY DEF Client, Return, Entry, co_entrypoint_pc

LEMMA StoredWords ==
  ASSUME ContextsLow, NEW a \in Archs, a = arch, NEW t \in Threads, NEW r, NEW m,
         NEW n, n = Stored(r, m, HandleOf(a, t))
  PROVE  /\ \A i \in 1 .. Count(a) : Read(n, Loc(a, t, i)) = r[Stores(a)[i]]
         /\ \A b : (\A i \in 1 .. Count(a) : b # Loc(a, t, i)) => Read(n, b) = Read(m, b)
         /\ \A b \in DOMAIN n : b \in DOMAIN m \/ \E i \in 1 .. Count(a) : b = Loc(a, t, i)
<1> DEFINE S == {Loc(a, t, i) : i \in 1 .. Count(a)}
           ws == [b \in S |-> r[Stores(a)[CHOOSE i \in 1 .. Count(a) : Loc(a, t, i) = b]]]
<1>1. DOMAIN Stores(a) = 1 .. Count(a) /\ Count(a) \in Nat /\ Words(a) \in Nat /\ Count(a) <= Words(a)
  BY Tables, Numbers DEF TableFacts
<1>2. n = Over(ws, m)
  <2>1. FirstWord(arch, HandleOf(a, t)) = Start(a, t)
    BY FirstWordIs
  <2> QED BY <1>1, <2>1 DEF Stored, Loc
<1>3. \A i, j \in 1 .. Count(a) : Loc(a, t, i) = Loc(a, t, j) => i = j
  BY <1>1, LocsApart
<1>4. DOMAIN ws = S /\ \A i \in 1 .. Count(a) : Loc(a, t, i) \in S /\ ws[Loc(a, t, i)] = r[Stores(a)[i]]
  BY <1>3
<1>5. \A b : b \in S <=> \E i \in 1 .. Count(a) : b = Loc(a, t, i)
  OBVIOUS
<1> HIDE DEF S, ws
<1> QED BY <1>2, <1>4, <1>5 DEF Over, Read

LEMMA LoadedRegisters ==
  ASSUME ContextsLow, NEW a \in Archs, a = arch, NEW t \in Threads, NEW r, NEW m,
         NEW n, n = Loaded(r, m, HandleOf(a, t))
  PROVE  /\ DOMAIN n = DOMAIN r
         /\ \A i \in 1 .. Count(a) : Loads(a)[i] \in DOMAIN r => n[Loads(a)[i]] = Read(m, Loc(a, t, i))
<1>1. /\ DOMAIN Loads(a) = 1 .. Count(a)
      /\ \A i, j \in 1 .. Count(a) : Loads(a)[i] = Loads(a)[j] => i = j
  BY Tables DEF TableFacts
<1>2. n = [x \in DOMAIN r |->
             IF x \in Range(Loads(a))
             THEN Read(m, Loc(a, t, CHOOSE i \in 1 .. Count(a) : Loads(a)[i] = x))
             ELSE r[x]]
  <2>1. FirstWord(arch, HandleOf(a, t)) = Start(a, t)
    BY FirstWordIs
  <2> QED BY <1>1, <2>1 DEF Loaded, Loc
<1>3. \A i \in 1 .. Count(a) : Loads(a)[i] \in Range(Loads(a))
  BY <1>1 DEF Range
<1>4. ASSUME NEW i \in 1 .. Count(a)
      PROVE  (CHOOSE j \in 1 .. Count(a) : Loads(a)[j] = Loads(a)[i]) = i
  BY <1>1
<1> QED BY <1>2, <1>3, <1>4

(* A thread depends on no memory but its context and its stack.            *)
Agree(a, m, n, t) ==
  /\ \A i \in 1 .. Words(a) : Read(n, Loc(a, t, i)) = Read(m, Loc(a, t, i))
  /\ \A k \in 1 .. MaxDepth + 1 : Read(n, Cell(a, t, k)) = Read(m, Cell(a, t, k))

LEMMA FramesSame ==
  ASSUME NEW a \in Archs, NEW t \in Threads, NEW f \in Seq(Frame), Len(f) <= MaxDepth,
         NEW m, NEW n, Agree(a, m, n, t), Frames(a, m, t, f)
  PROVE  Frames(a, n, t, f)
<1>1. ASSUME NEW i \in 1 .. Len(f) PROVE Read(n, Cell(a, t, Len(f) - i + 1)) = f[i]
  <2>1. Len(f) - i + 1 \in 1 .. MaxDepth + 1
    BY SizeAssumption
  <2> QED BY <2>1 DEF Agree, Frames
<1> QED BY <1>1 DEF Frames

LEMMA ParkedSame ==
  ASSUME NEW a \in Archs, NEW t \in Threads, NEW s, NEW f \in Seq(Frame), Len(f) <= MaxDepth,
         NEW m, NEW n, Agree(a, m, n, t), Parked(a, m, t, s, f)
  PROVE  Parked(a, n, t, s, f)
<1>1. Frames(a, n, t, f)
  BY FramesSame DEF Parked
<1>2. /\ SpPos(a) \in 1 .. Words(a) /\ PcPos(a) \in 1 .. Words(a) /\ EntryPos(a) \in 1 .. Words(a)
      /\ \A i \in 1 .. Count(a) : i \in 1 .. Words(a)
      /\ Len(f) + 1 \in 1 .. MaxDepth + 1
  BY Numbers, SizeAssumption
<1>3. PcWord(a, n, t, f) = PcWord(a, m, t, f)
  BY <1>2 DEF PcWord, Agree
<1>4. Read(n, Loc(a, t, EntryPos(a))) = Read(m, Loc(a, t, EntryPos(a))) /\ Read(n, Loc(a, t, SpPos(a))) = SavedSp(a, t, f)
  BY <1>2 DEF Agree, Parked
<1>5. Kept(a, m, t, s, f) => Kept(a, n, t, s, f)
  BY <1>2, <1>3 DEF Kept, Agree
<1>6. Fresh(a, m, t, f) => Fresh(a, n, t, f)
  BY <1>3, <1>4 DEF Fresh
<1> QED BY <1>1, <1>4, <1>5, <1>6 DEF Parked

LEMMA RunningSame ==
  ASSUME NEW a \in Archs, NEW t \in Threads, NEW s, NEW f \in Seq(Frame), Len(f) <= MaxDepth,
         NEW m, NEW n, NEW r, Agree(a, m, n, t), Running(a, r, m, t, s, f)
  PROVE  Running(a, r, n, t, s, f)
<1>1. Frames(a, n, t, f)
  BY FramesSame DEF Running
<1>2. Read(n, Loc(a, t, EntryPos(a))) = Read(m, Loc(a, t, EntryPos(a)))
  BY Numbers DEF Agree
<1> QED BY <1>1, <1>2 DEF Running

(* The loads and the jump: a parked thread runs again.                     *)
LEMMA Resumed ==
  ASSUME ContextsLow, NEW a \in Archs, a = arch, NEW t \in Threads, NEW s, NEW f \in Seq(Frame),
         NEW m, NEW r0, DOMAIN r0 = Registers(a), Parked(a, m, t, s, f),
         NEW r, r = Jumped(Loaded(r0, m, HandleOf(a, t)), m)
  PROVE  Running(a, r, m, t, s, f) /\ r["pc"] # Client(t)
<1>1. PICK l : l = Loaded(r0, m, HandleOf(a, t))
  OBVIOUS
<1>2. /\ DOMAIN l = Registers(a)
      /\ \A i \in 1 .. Count(a) : l[Loads(a)[i]] = Read(m, Loc(a, t, i))
  BY <1>1, LoadedRegisters, Tables DEF TableFacts
<1>3. l["sp"] = SavedSp(a, t, f)
  <2>1. SpPos(a) \in 1 .. Count(a) /\ Loads(a)[SpPos(a)] = "sp"
    BY Numbers, Tables DEF TableFacts
  <2> QED BY <1>2, <2>1 DEF Parked
<1>4. /\ "sp" \in SavedRegisters(a) /\ "pc" \notin SavedRegisters(a) /\ "pc" \in Registers(a) /\ "sp" \in Registers(a)
      /\ LinkRegister(a) \notin SavedRegisters(a) /\ LinkRegister(a) \in Registers(a)
      /\ SavedRegisters(a) \subseteq Registers(a)
  BY Tables DEF TableFacts, Registers, CalleeSaved
<1>5. /\ DOMAIN r = Registers(a) /\ r["sp"] = Addr(Cell(a, t, Len(f))) /\ r["pc"] = PcWord(a, m, t, f)
      /\ \A x \in SavedRegisters(a) \ {"sp"} : r[x] = l[x]
  <2>1. CASE a = "amd64"
    <3>1. l["sp"][2] = Cell(a, t, Len(f) + 1)
      BY <1>3, <2>1 DEF SavedSp, Addr
    <3>2. LinkRegister(a) = "rax"
      BY <2>1 DEF LinkRegister
    <3>3. r = [l EXCEPT !["pc"] = Read(m, Cell(a, t, Len(f) + 1)), !["rax"] = Read(m, Cell(a, t, Len(f) + 1)),
                        !["sp"] = Addr(Cell(a, t, Len(f) + 1) + 8)]
      BY <1>1, <2>1, <3>1 DEF Jumped
    <3>4. Cell(a, t, Len(f) + 1) + 8 = Cell(a, t, Len(f))
      <4>1. Base(a, t) \in Int /\ Word(a) = 8 /\ Len(f) \in Nat
        BY <2>1, Areas, PlacesAssumption DEF Word, Threads, Base
      <4> QED BY <4>1 DEF Cell
    <3>5. "rax" # "pc" /\ "rax" # "sp" /\ "pc" # "sp"
      OBVIOUS
    <3>6. r["pc"] = PcWord(a, m, t, f)
      BY <1>2, <1>4, <2>1, <3>2, <3>3, <3>5 DEF PcWord
    <3> QED BY <1>2, <1>4, <3>2, <3>3, <3>4, <3>5, <3>6
  <2>2. CASE a = "aarch64"
    <3>1. r = [l EXCEPT !["pc"] = l["lr"]]
      BY <1>1, <2>2 DEF Jumped
    <3>2. l["lr"] = PcWord(a, m, t, f)
      <4>1. a # "amd64" /\ PcRegister(a) = "lr"
        BY <2>2 DEF PcRegister
      <4>2. PcPos(a) \in 1 .. Count(a) /\ Loads(a)[PcPos(a)] = "lr"
        BY <4>1, Numbers, Tables DEF TableFacts
      <4> QED BY <1>2, <4>1, <4>2 DEF PcWord
    <3>3. SavedSp(a, t, f) = Addr(Cell(a, t, Len(f)))
      BY <2>2 DEF SavedSp
    <3> QED BY <1>2, <1>3, <1>4, <3>1, <3>2, <3>3
  <2>3. CASE a # "amd64" /\ a # "aarch64"
    <3>1. r = l
      BY <1>1, <2>3 DEF Jumped
    <3>2. l["pc"] = PcWord(a, m, t, f)
      <4>1. PcRegister(a) = "pc"
        BY <2>3 DEF PcRegister
      <4>2. PcPos(a) \in 1 .. Count(a) /\ Loads(a)[PcPos(a)] = "pc"
        BY <2>3, <4>1, Numbers, Tables DEF TableFacts
      <4> QED BY <1>2, <2>3, <4>2 DEF PcWord
    <3>3. SavedSp(a, t, f) = Addr(Cell(a, t, Len(f)))
      BY <2>3 DEF SavedSp
    <3> QED BY <1>2, <1>3, <3>1, <3>2, <3>3
  <2> QED BY <2>1, <2>2, <2>3
<1>6. CASE s # <<>>
  <2>1. Kept(a, m, t, s, f) /\ Frames(a, m, t, f)
    BY <1>6 DEF Parked
  <2>2. r["pc"] = Return(t)
    BY <1>5, <2>1 DEF Kept
  <2>3. ASSUME NEW x \in SavedRegisters(a) PROVE r[x] = s[x]
    <3>1. CASE x = "sp"
      BY <1>5, <2>1, <3>1 DEF Kept
    <3>2. CASE x # "sp"
      <4>1. PICK i \in 1 .. Count(a) : Loads(a)[i] = x
        BY Tables DEF TableFacts
      <4>2. Read(m, Loc(a, t, i)) = s[x]
        BY <2>1, <3>2, <4>1 DEF Kept
      <4> QED BY <1>2, <1>5, <3>2, <4>1, <4>2
    <3> QED BY <3>1, <3>2
  <2> QED BY <1>5, <1>6, <2>1, <2>2, <2>3, Tags DEF Running
<1>7. CASE s = <<>>
  <2>1. Fresh(a, m, t, f) /\ Frames(a, m, t, f)
    BY <1>7 DEF Parked
  <2>2. \/ r["pc"] = Entry(t)
        \/ r["pc"] = co_entrypoint_pc /\ a # "arm" /\ Read(m, Loc(a, t, EntryPos(a))) = Entry(t)
    BY <1>5, <2>1 DEF Fresh
  <2>3. t # ROOT /\ f = <<>>
    BY <2>1 DEF Fresh
  <2> QED BY <1>5, <1>7, <2>1, <2>2, <2>3, Tags DEF Running
<1> QED BY <1>6, <1>7

(* The call and the stores: the thread that calls co_switch is parked, and *)
(* no other thread's context or stack is touched.                          *)
LEMMA Saved ==
  ASSUME ContextsLow, NEW a \in Archs, a = arch, NEW t \in Threads, t = thread,
         NEW f \in Seq(Frame), Len(f) <= MaxDepth, NEW s, Running(a, regs, mem, t, s, f),
         NEW r0, NEW m0, r0 = Called.r, m0 = Called.m,
         NEW n, n = Stored(r0, m0, HandleOf(a, t))
  PROVE  /\ DOMAIN r0 = Registers(a)
         /\ Parked(a, n, t, [x \in CalleeSaved(a) |-> regs[x]], f)
         /\ \A u \in Threads : u # t => Agree(a, mem, n, u)
         /\ (\A b \in DOMAIN mem : Legal(a, b)) => \A b \in DOMAIN n : Legal(a, b)
<1> DEFINE sp == Cell(a, t, Len(f) + 1)
<1>0. /\ Len(f) \in Nat /\ MaxDepth \in Nat /\ Len(f) + 1 \in 1 .. MaxDepth + 1
      /\ Count(a) \in Nat /\ Words(a) \in Nat /\ Count(a) <= Words(a)
      /\ SpPos(a) \in 1 .. Count(a) /\ PcPos(a) \in 1 .. Count(a)
  BY Numbers, SizeAssumption
<1>1. /\ "sp" \in SavedRegisters(a) /\ "sp" \in Registers(a) /\ LinkRegister(a) \in Registers(a)
      /\ LinkRegister(a) \notin SavedRegisters(a) /\ SavedRegisters(a) \subseteq Registers(a)
      /\ LinkRegister(a) # "sp" /\ SavedRegisters(a) \subseteq CalleeSaved(a)
  BY Tables DEF TableFacts, Registers, CalleeSaved
<1>2. DOMAIN regs = Registers(a) /\ regs["sp"] = Addr(Cell(a, t, Len(f))) /\ Frames(a, mem, t, f)
  BY DEF Running
<1>3. /\ DOMAIN r0 = Registers(a) /\ r0["sp"] = SavedSp(a, t, f)
      /\ \A x \in SavedRegisters(a) \ {"sp"} : r0[x] = regs[x]
      /\ a # "amd64" => r0[LinkRegister(a)] = Return(t)
      /\ a = "amd64" => Read(m0, sp) = Return(t)
      /\ \A b : b # sp => Read(m0, b) = Read(mem, b)
      /\ \A b \in DOMAIN m0 : b \in DOMAIN mem \/ b = sp
  <2>1. CASE a = "amd64"
    <3>1. regs["sp"][2] - 8 = sp
      <4>1. Base(a, t) \in Int /\ Word(a) = 8 /\ regs["sp"][2] = Cell(a, t, Len(f))
        BY <1>2, <2>1, Areas, PlacesAssumption DEF Word, Threads, Base, Addr
      <4> QED BY <1>0, <4>1 DEF Cell
    <3>2. r0 = [regs EXCEPT !["sp"] = Addr(sp)] /\ m0 = Put(mem, sp, Return(t))
      BY <2>1, <3>1 DEF Called
    <3>3. SavedSp(a, t, f) = Addr(sp)
      BY <2>1 DEF SavedSp
    <3> HIDE DEF sp
    <3>4. Read(m0, sp) = Return(t) /\ (\A b : b # sp => Read(m0, b) = Read(mem, b)) /\ DOMAIN m0 = DOMAIN mem \cup {sp}
      BY <3>2 DEF Put, Read
    <3> QED BY <1>1, <1>2, <2>1, <3>2, <3>3, <3>4
  <2>2. CASE a # "amd64"
    <3>1. r0 = [regs EXCEPT ![LinkRegister(a)] = Return(t)] /\ m0 = mem
      BY <2>2 DEF Called
    <3>2. SavedSp(a, t, f) = Addr(Cell(a, t, Len(f)))
      BY <2>2 DEF SavedSp
    <3> QED BY <1>1, <1>2, <2>2, <3>1, <3>2
  <2> QED BY <2>1, <2>2
<1>4. /\ \A i \in 1 .. Count(a) : Read(n, Loc(a, t, i)) = r0[Stores(a)[i]]
      /\ \A b : (\A i \in 1 .. Count(a) : b # Loc(a, t, i)) => Read(n, b) = Read(m0, b)
      /\ \A b \in DOMAIN n : b \in DOMAIN m0 \/ \E i \in 1 .. Count(a) : b = Loc(a, t, i)
  BY StoredWords
<1>5. \A k \in 1 .. MaxDepth + 1 : \A u \in Threads : Read(n, Cell(a, u, k)) = Read(m0, Cell(a, u, k))
  BY <1>0, <1>4, LocIsNoCell
<1>6. Parked(a, n, t, [x \in CalleeSaved(a) |-> regs[x]], f)
  <2> DEFINE sv == [x \in CalleeSaved(a) |-> regs[x]]
  <2>1. sv # <<>>
    <3>1. "sp" \in DOMAIN sv
      BY <1>1
    <3>2. DOMAIN <<>> = {}
      BY NothingWritten
    <3> HIDE DEF sv
    <3> QED BY <3>1, <3>2
  <2>2. Frames(a, n, t, f)
    <3>1. ASSUME NEW i \in 1 .. Len(f) PROVE Read(n, Cell(a, t, Len(f) - i + 1)) = f[i]
      <4>1. Len(f) - i + 1 \in 1 .. MaxDepth + 1 /\ Len(f) - i + 1 # Len(f) + 1
        BY <1>0
      <4>2. Cell(a, t, Len(f) - i + 1) # sp
        BY <1>0, <4>1, CellsApart
      <4>3. Read(mem, Cell(a, t, Len(f) - i + 1)) = f[i]
        BY <1>2 DEF Frames
      <4> HIDE DEF sp
      <4> QED BY <1>3, <1>5, <4>1, <4>2, <4>3
    <3> QED BY <3>1 DEF Frames
  <2>3. \A i \in 1 .. Count(a) : Loads(a)[i] \in SavedRegisters(a) => Stores(a)[i] = Loads(a)[i]
    BY Tables DEF TableFacts
  <2>4. Read(n, Loc(a, t, SpPos(a))) = SavedSp(a, t, f)
    <3>1. Loads(a)[SpPos(a)] = "sp"
      BY Tables DEF TableFacts
    <3> QED BY <1>0, <1>1, <1>3, <1>4, <2>3, <3>1
  <2>5. PcWord(a, n, t, f) = Return(t)
    <3>1. CASE a = "amd64"
      BY <1>0, <1>3, <1>5, <3>1 DEF PcWord
    <3>2. CASE a # "amd64"
      <4>1. Stores(a)[PcPos(a)] = LinkRegister(a)
        BY <3>2, Tables DEF TableFacts
      <4> QED BY <1>0, <1>3, <1>4, <3>2, <4>1 DEF PcWord
    <3> QED BY <3>1, <3>2
  <2>6. \A i \in 1 .. Count(a) : Loads(a)[i] \in SavedRegisters(a) \ {"sp"} => Read(n, Loc(a, t, i)) = sv[Loads(a)[i]]
    BY <1>1, <1>3, <1>4, <2>3
  <2>7. sv["sp"] = Addr(Cell(a, t, Len(f)))
    BY <1>1, <1>2
  <2> HIDE DEF sv
  <2>8. Kept(a, n, t, sv, f)
    BY <2>5, <2>6, <2>7 DEF Kept
  <2> QED BY <2>1, <2>2, <2>4, <2>8 DEF Parked, sv
<1>7. ASSUME NEW u \in Threads, u # t PROVE Agree(a, mem, n, u)
  <2>1. ASSUME NEW i \in 1 .. Words(a) PROVE Read(n, Loc(a, u, i)) = Read(mem, Loc(a, u, i))
    <3>1. \A j \in 1 .. Count(a) : Loc(a, u, i) # Loc(a, t, j)
      BY <1>0, <1>7, LocsApart
    <3>2. Loc(a, u, i) # sp
      BY <1>0, LocIsNoCell
    <3> HIDE DEF sp
    <3> QED BY <1>3, <1>4, <3>1, <3>2
  <2>2. ASSUME NEW k \in 1 .. MaxDepth + 1 PROVE Read(n, Cell(a, u, k)) = Read(mem, Cell(a, u, k))
    <3>1. Cell(a, u, k) # sp
      BY <1>0, <1>7, CellsApart
    <3> HIDE DEF sp
    <3> QED BY <1>3, <1>5, <3>1
  <2> QED BY <2>1, <2>2 DEF Agree
<1>8. ASSUME \A b \in DOMAIN mem : Legal(a, b) PROVE \A b \in DOMAIN n : Legal(a, b)
  <2>1. Legal(a, sp) /\ \A i \in 1 .. Count(a) : Legal(a, Loc(a, t, i))
    BY <1>0, PlacesLegal
  <2> HIDE DEF sp
  <2> QED BY <1>3, <1>4, <1>8, <2>1
<1> QED BY <1>3, <1>6, <1>7, <1>8

-----------------------------------------------------------------------------
(* The invariant, one action at a time.                                    *)
LEMMA InitContext == Init => ContextInv
<1> SUFFICES ASSUME Init PROVE ContextInv
  OBVIOUS
<1>1. arch \in Archs /\ ROOT \in Threads
  BY DEF Init, Threads
<1>2. PICK a \in Archs : a = arch
  BY <1>1
<1>3. TypePart
  <2>1. <<>> \in Seq(Frame) /\ Len(<<>>) = 0 /\ MaxDepth \in Nat
    BY SizeAssumption
  <2> QED BY <1>1, <2>1 DEF Init, TypePart
<1>4. HandlePart
  BY <1>1 DEF Init, HandlePart
<1>5. Running(a, regs, mem, ROOT, <<>>, <<>>)
  <2>1. /\ DOMAIN regs = Registers(a) /\ "sp" \in Registers(a) /\ "pc" \in Registers(a)
        /\ regs["sp"] = Addr(RootStack) /\ regs["pc"] = Client(ROOT)
    <3>1. "sp" \in Registers(a) /\ "pc" \in Registers(a)
      BY Tables DEF TableFacts, Registers, CalleeSaved
    <3> QED BY <1>2, <3>1 DEF Init
  <2>2. Cell(a, ROOT, Len(<<>>)) = RootStack
    <3>1. Base(a, ROOT) = RootStack /\ RootStack \in Int /\ Word(a) \in {4, 8}
      BY PlacesAssumption, Numbers DEF Base
    <3> QED BY <3>1 DEF Cell
  <2>3. Frames(a, mem, ROOT, <<>>)
    BY DEF Frames
  <2> QED BY <2>1, <2>2, <2>3, Tags DEF Running
<1>6. DOMAIN mem = {} /\ thread = ROOT /\ saved[ROOT] = <<>> /\ frames[ROOT] = <<>> /\ \A t \in Threads : co_handle[t] = 0
  BY <1>1, NothingWritten DEF Init
<1> QED BY <1>2, <1>3, <1>4, <1>5, <1>6 DEF ContextInv

(* What every action may use.                                              *)
LEMMA InvFacts ==
  ASSUME ContextInv
  PROVE  /\ arch \in Archs /\ thread \in Threads /\ ROOT \in Threads
         /\ DOMAIN co_handle = Threads /\ DOMAIN saved = Threads /\ DOMAIN frames = Threads
         /\ \A t \in Threads : frames[t] \in Seq(Frame) /\ Len(frames[t]) <= MaxDepth /\ Len(frames[t]) \in Nat
         /\ \A t \in Threads : co_handle[t] # 0 => co_handle[t] = HandleOf(arch, t) /\ co_handle[ROOT] # 0
         /\ co_handle[ROOT] # 0 => co_handle[thread] # 0 /\ co_active_handle = HandleOf(arch, thread)
         /\ DOMAIN regs = Registers(arch) /\ "pc" \in DOMAIN regs /\ "sp" \in DOMAIN regs /\ "pc" # "sp"
<1>1. arch \in Archs /\ thread \in Threads /\ ROOT \in Threads
  BY DEF ContextInv, TypePart, Threads
<1>2. PICK a \in Archs : a = arch
  BY <1>1
<1>3. "pc" \in Registers(a) /\ "sp" \in Registers(a)
  BY Tables DEF TableFacts, Registers, CalleeSaved
<1>4. \A t \in Threads : frames[t] \in Seq(Frame) /\ Len(frames[t]) <= MaxDepth /\ Len(frames[t]) \in Nat
  BY DEF ContextInv, TypePart
<1>5. DOMAIN regs = Registers(arch)
  BY DEF ContextInv, Running
<1> QED BY <1>1, <1>2, <1>3, <1>4, <1>5 DEF ContextInv, TypePart, HandlePart

LEMMA ActiveStep == ContextInv /\ co_active => ContextInv'
<1> SUFFICES ASSUME ContextInv, co_active PROVE ContextInv'
  OBVIOUS
<1>1. PICK a \in Archs : a = arch
  BY InvFacts
<1>2. HandleOf(a, ROOT) # 0 /\ RootHandle(a) = HandleOf(a, ROOT) /\ ROOT \in Threads
  BY HandleIs, RootHandleIs DEF Threads
<1>3. co_active_handle' = HandleOf(a, ROOT)
  BY <1>1, <1>2 DEF co_active, ContextInv, HandlePart, InitialHandle, Ensured
<1>4. /\ co_handle' = [co_handle EXCEPT ![ROOT] = HandleOf(a, ROOT)] /\ thread = ROOT
      /\ \A t \in Threads : co_handle[t] = 0
  BY <1>3 DEF co_active, ContextInv, HandlePart
<1>5. UNCHANGED <<arch, regs, mem, thread, saved, frames>>
  BY DEF co_active
<1>6. DOMAIN co_handle' = Threads /\ \A t \in Threads : co_handle'[t] = IF t = ROOT THEN HandleOf(a, ROOT) ELSE 0
  BY <1>4, InvFacts
<1>7. TypePart'
  BY <1>5, <1>6 DEF ContextInv, TypePart
<1>8. HandlePart'
  BY <1>1, <1>2, <1>3, <1>4, <1>5, <1>6 DEF HandlePart
<1> QED BY <1>4, <1>5, <1>6, <1>7, <1>8 DEF ContextInv

LEMMA DeriveStep == ASSUME NEW t \in Cothreads PROVE ContextInv /\ co_derive(t) => ContextInv'
<1> SUFFICES ASSUME ContextInv, co_derive(t) PROVE ContextInv'
  OBVIOUS
<1>1. PICK a \in Archs : a = arch
  BY InvFacts
<1>2. PICK d : d = Derived(a, Memory[t], co_stack_size, Entry(t))
  OBVIOUS
<1>3. PICK m : m = mem
  OBVIOUS
<1>4. PICK n : n = Over(d.words, [b \in DOMAIN m \ Region(t) |-> m[b]])
  OBVIOUS
<1>5. /\ mem' = n /\ co_handle' = [co_handle EXCEPT ![t] = d.handle]
      /\ co_handle[ROOT] # 0 /\ t # thread
      /\ saved' = [saved EXCEPT ![t] = <<>>] /\ frames' = [frames EXCEPT ![t] = <<>>]
      /\ UNCHANGED <<arch, regs, thread>>
  BY <1>1, <1>2, <1>3, <1>4 DEF co_derive
<1>6. t \in Threads /\ t # ROOT /\ HandleOf(a, t) # 0
  BY MemoryAssumption, HandleIs DEF Threads, ROOT
<1>7. Ready(a, t, d.handle, d.words)
  BY <1>2, DerivedReady
<1>8. \A b : Read(n, b) = IF b \in Region(t) THEN Read(d.words, b) ELSE Read(m, b)
  <2>1. DOMAIN d.words \subseteq Region(t)
    BY <1>7 DEF Ready
  <2> QED BY <1>4, <2>1 DEF Over, Read
<1>9. ASSUME NEW u \in Threads, u # t PROVE Agree(a, m, n, u)
  BY <1>8, <1>9, PlacesOfRegion DEF Agree
<1>10. Parked(a, n, t, <<>>, <<>>)
  <2>1. /\ \A i \in 1 .. Words(a) : Read(n, Loc(a, t, i)) = Read(d.words, Loc(a, t, i))
        /\ \A k \in 1 .. MaxDepth + 1 : Read(n, Cell(a, t, k)) = Read(d.words, Cell(a, t, k))
    BY <1>6, <1>8, PlacesOfRegion
  <2>2. Parked(a, d.words, t, <<>>, <<>>)
    BY <1>7 DEF Ready, Parked, Frames
  <2>3. <<>> \in Seq(Frame) /\ Len(<<>>) <= MaxDepth
    BY SizeAssumption
  <2> QED BY <1>6, <2>1, <2>2, <2>3, ParkedSame DEF Agree
<1>11. /\ DOMAIN co_handle' = Threads /\ DOMAIN saved' = Threads /\ DOMAIN frames' = Threads
       /\ \A u \in Threads : u # t => co_handle'[u] = co_handle[u] /\ saved'[u] = saved[u] /\ frames'[u] = frames[u]
       /\ co_handle'[t] = HandleOf(a, t) /\ saved'[t] = <<>> /\ frames'[t] = <<>>
  BY <1>5, <1>6, <1>7, InvFacts DEF Ready
<1>12. co_active_handle' = co_active_handle /\ co_active_handle = HandleOf(a, thread)
  <2>1. co_active_handle = HandleOf(a, thread) /\ HandleOf(a, thread) # 0
    BY <1>1, <1>5, InvFacts, HandleIs
  <2> QED BY <2>1 DEF co_derive, Ensured
<1>13. TypePart'
  <2>1. <<>> \in Seq(Frame) /\ Len(<<>>) = 0 /\ MaxDepth \in Nat
    BY SizeAssumption
  <2> QED BY <1>1, <1>5, <1>11, <2>1, InvFacts DEF TypePart
<1>14. HandlePart'
  BY <1>1, <1>5, <1>6, <1>11, <1>12, InvFacts DEF HandlePart
<1>15. Running(a, regs, n, thread, saved[thread], frames[thread])
  <2>1. Running(a, regs, m, thread, saved[thread], frames[thread])
    BY <1>1, <1>3 DEF ContextInv
  <2> QED BY <1>5, <1>9, <2>1, InvFacts, RunningSame
<1>16. ASSUME NEW u \in Threads, u # thread, co_handle'[u] # 0
       PROVE  Parked(a, n, u, saved'[u], frames'[u])
  <2>1. CASE u = t
    BY <1>10, <1>11, <2>1
  <2>2. CASE u # t
    <3>1. Parked(a, m, u, saved[u], frames[u])
      BY <1>1, <1>3, <1>11, <1>16, <2>2 DEF ContextInv
    <3>2. Parked(a, n, u, saved[u], frames[u])
      BY <1>9, <2>2, <3>1, InvFacts, ParkedSame
    <3> QED BY <1>11, <2>2, <3>2
  <2> QED BY <2>1, <2>2
<1>17. \A b \in DOMAIN n : Legal(a, b)
  <2>1. DOMAIN n \subseteq DOMAIN d.words \cup DOMAIN m
    BY <1>4 DEF Over
  <2>2. \A b \in Region(t) : Legal(a, b)
    BY DEF Legal
  <2> QED BY <1>1, <1>3, <1>7, <2>1, <2>2 DEF ContextInv, Ready
<1> QED BY <1>1, <1>5, <1>11, <1>13, <1>14, <1>15, <1>16, <1>17, InvFacts DEF ContextInv

LEMMA SwitchStep ==
  ASSUME ContextsLow, NEW t \in Threads
  PROVE  ContextInv /\ co_switch(t) => ContextInv' /\ regs'["pc"] # Client(t)
<1> SUFFICES ASSUME ContextInv, co_switch(t) PROVE ContextInv' /\ regs'["pc"] # Client(t)
  OBVIOUS
<1>1. PICK a \in Archs : a = arch
  BY InvFacts
<1>2. PICK p \in Threads : p = thread
  BY InvFacts
<1>3. PICK f \in Seq(Frame) : f = frames[p] /\ Len(f) <= MaxDepth
  BY <1>2, InvFacts
<1>4. PICK r0 : r0 = Called.r
  OBVIOUS
<1>5. PICK m0 : m0 = Called.m
  OBVIOUS
<1>6. PICK n : n = Stored(r0, m0, HandleOf(a, p))
  OBVIOUS
<1>7. PICK r : r = Jumped(Loaded(r0, n, HandleOf(a, t)), n)
  OBVIOUS
<1>8. co_handle[t] = HandleOf(a, t) /\ co_active_handle = HandleOf(a, p) /\ co_handle[ROOT] # 0 /\ co_handle[p] # 0
  BY <1>1, <1>2, InvFacts DEF co_switch
<1>9. mem' = n /\ regs' = r /\ co_active_handle' = HandleOf(a, t)
  BY <1>4, <1>5, <1>6, <1>7, <1>8 DEF co_switch, switch, co_swap
<1>10. PICK sv : sv = [x \in CalleeSaved(a) |-> regs[x]]
  OBVIOUS
<1>11. thread' = t /\ saved' = [saved EXCEPT ![p] = sv] /\ UNCHANGED <<arch, co_handle, frames>> /\ co_handle[t] # 0
  BY <1>1, <1>2, <1>10 DEF co_switch
<1>12. Running(a, regs, mem, p, saved[p], f)
  BY <1>1, <1>2, <1>3 DEF ContextInv
<1>13. /\ DOMAIN r0 = Registers(a)
       /\ Parked(a, n, p, sv, f)
       /\ \A u \in Threads : u # p => Agree(a, mem, n, u)
       /\ \A b \in DOMAIN n : Legal(a, b)
  <2>1. \A b \in DOMAIN mem : Legal(a, b)
    BY <1>1 DEF ContextInv
  <2> QED BY <1>1, <1>2, <1>3, <1>4, <1>5, <1>6, <1>10, <1>12, <2>1, Saved
<1>14. DOMAIN saved' = Threads /\ \A u \in Threads : saved'[u] = IF u = p THEN sv ELSE saved[u]
  BY <1>11, InvFacts
<1>15. ASSUME NEW u \in Threads, co_handle[u] # 0 PROVE Parked(a, n, u, saved'[u], frames[u])
  <2>1. CASE u = p
    BY <1>3, <1>13, <1>14, <2>1
  <2>2. CASE u # p
    <3>1. PICK m : m = mem
      OBVIOUS
    <3>2. Parked(a, m, u, saved[u], frames[u]) /\ Agree(a, m, n, u)
      BY <1>1, <1>2, <1>13, <1>15, <2>2, <3>1 DEF ContextInv
    <3>3. Parked(a, n, u, saved[u], frames[u])
      BY <3>2, InvFacts, ParkedSame
    <3> QED BY <1>14, <2>2, <3>3
  <2> QED BY <2>1, <2>2
<1>16. Running(a, r, n, t, saved'[t], frames[t]) /\ r["pc"] # Client(t)
  <2>1. PICK s : s = saved'[t]
    OBVIOUS
  <2>2. PICK g \in Seq(Frame) : g = frames[t]
    BY InvFacts
  <2>3. Parked(a, n, t, s, g)
    BY <1>11, <1>15, <2>1, <2>2
  <2>4. Running(a, r, n, t, s, g) /\ r["pc"] # Client(t)
    BY <1>1, <1>7, <1>13, <2>3, Resumed
  <2> QED BY <2>1, <2>2, <2>4
<1>17. TypePart'
  BY <1>11, <1>14, InvFacts DEF TypePart
<1>18. HandlePart'
  BY <1>1, <1>8, <1>9, <1>11, InvFacts DEF HandlePart
<1> QED BY <1>1, <1>9, <1>11, <1>13, <1>15, <1>16, <1>17, <1>18 DEF ContextInv

(* A step that only moves the program counter or computes.                 *)
LEMMA RegisterStep ==
  ASSUME ContextInv, UNCHANGED <<arch, mem, co_active_handle, co_handle, thread, saved, frames>>,
         Running(arch, regs', mem, thread, saved[thread], frames[thread])
  PROVE  ContextInv'
<1>1. TypePart'
  BY DEF ContextInv, TypePart
<1>2. HandlePart'
  BY DEF ContextInv, HandlePart
<1> QED BY <1>1, <1>2 DEF ContextInv

(* Where co_entrypoint finds the entry point.                              *)
LEMMA EntryWordIs ==
  ASSUME NEW a \in Archs, NEW t \in Threads, a # "arm", co_active_handle = HandleOf(a, t)
  PROVE  EntryWord(a) = Loc(a, t, EntryPos(a))
<1>1. Start(a, t) \in Int
  BY Areas, PlacesAssumption DEF Start, Threads
<1>2. CASE a = "aarch64"
  <2>1. EntryWord(a) = co_active_handle - 8 * 3
    BY <1>2, Slots DEF EntryWord
  <2> QED BY <1>1, <1>2, <2>1 DEF HandleOf, Upper, Words, Count, Loc, Word, EntryPos
<1>3. CASE a \in {"riscv64_soft", "riscv64_hard"}
  <2>1. EntryWord(a) = co_active_handle
    BY <1>3 DEF EntryWord
  <2> QED BY <1>1, <1>3, <2>1 DEF HandleOf, Upper, Words, Count, Loc, Word, EntryPos
<1>4. CASE a = "amd64"
  <2>1. EntryWord(a) = co_active_handle + 8
    BY <1>4 DEF EntryWord
  <2> QED BY <1>1, <1>4, <2>1 DEF HandleOf, Upper, Words, Count, Loc, Word, EntryPos
<1> QED BY <1>2, <1>3, <1>4, ArchsAssumption DEF ArchNames

LEMMA EntrypointStep == ContextInv /\ co_entrypoint => ContextInv'
<1> SUFFICES ASSUME ContextInv, co_entrypoint PROVE ContextInv'
  OBVIOUS
<1>1. PICK a \in Archs : a = arch
  BY InvFacts
<1>2. Running(a, regs, mem, thread, saved[thread], frames[thread]) /\ regs["pc"] = co_entrypoint_pc
  BY <1>1 DEF ContextInv, co_entrypoint
<1>3. /\ a # "arm" /\ thread # ROOT /\ Read(mem, Loc(a, thread, EntryPos(a))) = Entry(thread)
      /\ saved[thread] = <<>> /\ frames[thread] = <<>>
  BY <1>2 DEF Running
<1>4. EntryWord(a) = Loc(a, thread, EntryPos(a))
  <2>1. co_handle[ROOT] # 0
    BY <1>3 DEF ContextInv, HandlePart
  <2>2. PICK t \in Threads : t = thread
    BY InvFacts
  <2> QED BY <1>1, <1>3, <2>1, <2>2, InvFacts, EntryWordIs
<1>5. regs' = [regs EXCEPT !["pc"] = Entry(thread)]
  BY <1>1, <1>3, <1>4 DEF co_entrypoint
<1>6. Running(a, regs', mem, thread, saved[thread], frames[thread])
  BY <1>1, <1>2, <1>3, <1>5, InvFacts, Tags DEF Running
<1> QED BY <1>1, <1>6, RegisterStep DEF co_entrypoint

LEMMA ReachStep == ContextInv /\ ReachClient => ContextInv'
<1> SUFFICES ASSUME ContextInv, ReachClient PROVE ContextInv'
  OBVIOUS
<1>1. Running(arch, regs, mem, thread, saved[thread], frames[thread])
  BY DEF ContextInv
<1>2. regs' = [regs EXCEPT !["pc"] = Client(thread)]
  BY DEF ReachClient
<1>3. Running(arch, regs', mem, thread, saved[thread], frames[thread])
  BY <1>1, <1>2, InvFacts, Tags DEF Running
<1> QED BY <1>3, RegisterStep DEF ReachClient

LEMMA ComputeStep == ASSUME NEW k PROVE ContextInv /\ Compute(k) => ContextInv'
<1> SUFFICES ASSUME ContextInv, Compute(k) PROVE ContextInv'
  OBVIOUS
<1>1. Running(arch, regs, mem, thread, saved[thread], frames[thread]) /\ regs["pc"] = Client(thread)
  BY DEF ContextInv, Compute, InClient
<1>2. DOMAIN regs' = DOMAIN regs /\ regs'["pc"] = regs["pc"] /\ regs'["sp"] = regs["sp"]
  BY InvFacts DEF Compute
<1>3. Running(arch, regs', mem, thread, saved[thread], frames[thread])
  BY <1>1, <1>2, Tags DEF Running
<1> QED BY <1>3, RegisterStep DEF Compute

(* The running thread's own stack: the stack pointer moves by one cell.    *)
LEMMA StackPointer ==
  ASSUME ContextInv, NEW a \in Archs, a = arch, NEW t \in Threads, t = thread
  PROVE  /\ regs["sp"] = Addr(Cell(a, t, Len(frames[t])))
         /\ regs["sp"][2] - Word(a) = Cell(a, t, Len(frames[t]) + 1)
         /\ frames[t] # <<>> => regs["sp"][2] + Word(a) = Cell(a, t, Len(frames[t]) - 1)
<1>1. regs["sp"] = Addr(Cell(a, t, Len(frames[t])))
  BY DEF ContextInv, Running
<1>2. Base(a, t) \in Int /\ Word(a) \in {4, 8} /\ Len(frames[t]) \in Nat
  <2>1. t \in Cothreads => Base(a, t) \in Int
    BY Areas
  <2>2. t = ROOT => Base(a, t) \in Int
    BY PlacesAssumption DEF Base
  <2>3. Word(a) \in {4, 8} /\ Len(frames[t]) \in Nat
    BY InvFacts, Numbers
  <2> QED BY <2>1, <2>2, <2>3 DEF Threads
<1>3. regs["sp"][2] = Cell(a, t, Len(frames[t]))
  BY <1>1 DEF Addr
<1>4. \A b, n \in Int : \A w \in {4, 8} : b - w * n - w = b - w * (n + 1) /\ b - w * n + w = b - w * (n - 1)
  OBVIOUS
<1>5. /\ Cell(a, t, Len(frames[t])) - Word(a) = Cell(a, t, Len(frames[t]) + 1)
      /\ Cell(a, t, Len(frames[t])) + Word(a) = Cell(a, t, Len(frames[t]) - 1)
  BY <1>2, <1>4 DEF Cell
<1> QED BY <1>1, <1>3, <1>5

LEMMA PushStep == ContextInv /\ Push => ContextInv'
<1> SUFFICES ASSUME ContextInv, Push PROVE ContextInv'
  OBVIOUS
<1>1. PICK a \in Archs : a = arch
  BY InvFacts
<1>2. PICK t \in Threads : t = thread
  BY InvFacts
<1>3. PICK f \in Seq(Frame) : f = frames[t] /\ Len(f) < MaxDepth
  BY <1>2, InvFacts DEF Push
<1>4. PICK sp : sp = Cell(a, t, Len(f) + 1)
  OBVIOUS
<1>5. PICK word \in Frame : word = <<"frame", 10 * t + Len(f)>>
  <2>1. t \in Int /\ Len(f) \in Int
    BY MemoryAssumption DEF Threads, ROOT
  <2>2. 10 * t + Len(f) \in Int
    BY <2>1
  <2> QED BY <2>2 DEF Frame
<1>6. PICK m : m = mem
  OBVIOUS
<1>7. PICK n : n = Put(m, sp, word)
  OBVIOUS
<1>8. PICK g \in Seq(Frame) : /\ g = <<word>> \o f /\ Len(g) = Len(f) + 1
                              /\ g[1] = word /\ \A i \in 2 .. Len(g) : g[i] = f[i - 1]
  <2>1. <<word>> \in Seq(Frame) /\ Len(<<word>>) = 1 /\ <<word>>[1] = word
    OBVIOUS
  <2>2. PICK h : h = <<word>>
    OBVIOUS
  <2>3. /\ h \o f \in Seq(Frame) /\ Len(h \o f) = 1 + Len(f)
        /\ \A i \in 1 .. 1 + Len(f) : (h \o f)[i] = IF i <= 1 THEN h[i] ELSE f[i - 1]
    BY <2>1, <2>2, ConcatProperties
  <2>4. PICK g : g = h \o f
    OBVIOUS
  <2>5. Len(g) = Len(f) + 1 /\ Len(f) \in Nat /\ g \in Seq(Frame)
    BY <2>3, <2>4
  <2>6. g[1] = word
    BY <2>1, <2>2, <2>3, <2>4, <2>5
  <2>7. \A i \in 2 .. Len(g) : g[i] = f[i - 1]
    BY <2>3, <2>4, <2>5
  <2> QED BY <2>2, <2>4, <2>5, <2>6, <2>7
<1>9. /\ regs' = [regs EXCEPT !["sp"] = Addr(sp)] /\ mem' = n /\ frames' = [frames EXCEPT ![t] = g]
      /\ UNCHANGED <<arch, co_active_handle, co_handle, thread, saved>> /\ regs["pc"] = Client(t)
  <2>1. regs["sp"][2] - Word(a) = sp
    BY <1>1, <1>2, <1>3, <1>4, StackPointer
  <2> QED BY <1>1, <1>2, <1>3, <1>5, <1>6, <1>7, <1>8, <2>1, InvFacts DEF Push, InClient
<1>10. DOMAIN frames' = Threads /\ frames'[t] = g /\ \A u \in Threads : u # t => frames'[u] = frames[u]
  BY <1>9, InvFacts
<1>11. Len(f) \in Nat /\ MaxDepth \in Nat /\ Len(f) + 1 \in 1 .. MaxDepth + 1
  BY <1>3, SizeAssumption
<1>12. \A b : Read(n, b) = IF b = sp THEN word ELSE Read(m, b)
  BY <1>7 DEF Put, Read
<1>13. ASSUME NEW u \in Threads, u # t PROVE Agree(a, m, n, u)
  BY <1>4, <1>11, <1>12, <1>13, LocIsNoCell, CellsApart DEF Agree
<1>14. Frames(a, n, t, g)
  <2>1. Frames(a, m, t, f)
    BY <1>1, <1>2, <1>3, <1>6 DEF ContextInv, Running
  <2>2. ASSUME NEW i \in 1 .. Len(g) PROVE Read(n, Cell(a, t, Len(g) - i + 1)) = g[i]
    <3>1. CASE i = 1
      <4>1. Len(g) - i + 1 = Len(f) + 1
        BY <1>8, <1>11, <3>1
      <4> QED BY <1>4, <1>8, <1>12, <3>1, <4>1
    <3>2. CASE i # 1
      <4>1. i - 1 \in 1 .. Len(f) /\ Len(g) - i + 1 = Len(f) - (i - 1) + 1 /\ i \in 2 .. Len(g)
        BY <1>8, <1>11, <3>2
      <4>2. Len(f) - (i - 1) + 1 \in 1 .. MaxDepth + 1 /\ Len(f) - (i - 1) + 1 # Len(f) + 1
        BY <1>11, <4>1
      <4>3. Cell(a, t, Len(f) - (i - 1) + 1) # sp
        BY <1>4, <1>11, <4>2, CellsApart
      <4>4. Read(m, Cell(a, t, Len(f) - (i - 1) + 1)) = f[i - 1]
        BY <2>1, <4>1 DEF Frames
      <4> QED BY <1>8, <1>12, <4>1, <4>3, <4>4
    <3> QED BY <3>1, <3>2
  <2> QED BY <2>2 DEF Frames
<1>15. TypePart'
  <2>1. Len(g) <= MaxDepth
    BY <1>3, <1>8, <1>11
  <2> QED BY <1>9, <1>10, <2>1, InvFacts DEF TypePart
<1>16. HandlePart'
  BY <1>9 DEF ContextInv, HandlePart
<1>17. Running(a, regs', n, t, saved[t], g)
  <2>1. DOMAIN regs' = Registers(a) /\ regs'["pc"] = Client(t) /\ regs'["sp"] = Addr(Cell(a, t, Len(g)))
    BY <1>1, <1>4, <1>8, <1>9, InvFacts
  <2> QED BY <1>14, <2>1, Tags DEF Running
<1>18. ASSUME NEW u \in Threads, u # t, co_handle[u] # 0 PROVE Parked(a, n, u, saved[u], frames[u])
  <2>1. Parked(a, m, u, saved[u], frames[u])
    BY <1>1, <1>2, <1>6, <1>18 DEF ContextInv
  <2> QED BY <1>13, <1>18, <2>1, InvFacts, ParkedSame
<1>19. \A b \in DOMAIN n : Legal(a, b)
  <2>1. DOMAIN n = DOMAIN m \cup {sp}
    BY <1>7 DEF Put
  <2>2. Legal(a, sp)
    BY <1>4, <1>11, PlacesLegal
  <2> QED BY <1>1, <1>6, <2>1, <2>2 DEF ContextInv
<1> QED BY <1>1, <1>2, <1>9, <1>10, <1>15, <1>16, <1>17, <1>18, <1>19 DEF ContextInv

LEMMA PopStep == ContextInv /\ Pop => ContextInv'
<1> SUFFICES ASSUME ContextInv, Pop PROVE ContextInv'
  OBVIOUS
<1>1. PICK a \in Archs : a = arch
  BY InvFacts
<1>2. PICK t \in Threads : t = thread
  BY InvFacts
<1>3. PICK f \in Seq(Frame) : f = frames[t] /\ Len(f) <= MaxDepth /\ f # <<>>
  BY <1>2, InvFacts DEF Pop
<1>4. PICK g \in Seq(Frame) : /\ g = Tail(f) /\ Len(g) = Len(f) - 1
                              /\ \A i \in 1 .. Len(g) : g[i] = f[i + 1]
  <2>1. /\ Tail(f) \in Seq(Frame) /\ Len(Tail(f)) = Len(f) - 1
        /\ \A i \in 1 .. Len(Tail(f)) : Tail(f)[i] = f[i + 1]
    BY <1>3, HeadTailProperties
  <2> QED BY <2>1
<1>5. PICK sp : sp = Cell(a, t, Len(g))
  OBVIOUS
<1>6. /\ regs' = [regs EXCEPT !["sp"] = Addr(sp)] /\ frames' = [frames EXCEPT ![t] = g]
      /\ UNCHANGED <<arch, mem, co_active_handle, co_handle, thread, saved>> /\ regs["pc"] = Client(t)
  <2>1. regs["sp"][2] + Word(a) = sp
    BY <1>1, <1>2, <1>3, <1>4, <1>5, StackPointer
  <2>2. regs' = [regs EXCEPT !["sp"] = Addr(regs["sp"][2] + Word(a))]
    BY <1>1, InvFacts DEF Pop
  <2>3. frames' = [frames EXCEPT ![t] = Tail(frames[t])]
    BY <1>2, InvFacts DEF Pop
  <2> QED BY <1>2, <1>3, <1>4, <2>1, <2>2, <2>3 DEF Pop, InClient
<1>7. DOMAIN frames' = Threads /\ frames'[t] = g /\ \A u \in Threads : u # t => frames'[u] = frames[u]
  BY <1>6, InvFacts
<1>8. Frames(a, mem, t, g)
  <2>1. Frames(a, mem, t, f)
    BY <1>1, <1>2, <1>3 DEF ContextInv, Running
  <2>2. ASSUME NEW i \in 1 .. Len(g) PROVE Read(mem, Cell(a, t, Len(g) - i + 1)) = g[i]
    <3>1. Len(f) \in Nat /\ Len(g) = Len(f) - 1 /\ g[i] = f[i + 1]
      BY <1>4
    <3>2. i + 1 \in 1 .. Len(f) /\ Len(f) - (i + 1) + 1 = Len(g) - i + 1
      BY <3>1
    <3>3. Read(mem, Cell(a, t, Len(f) - (i + 1) + 1)) = f[i + 1]
      BY <2>1, <3>2 DEF Frames
    <3> QED BY <3>1, <3>2, <3>3
  <2> QED BY <2>2 DEF Frames
<1>9. TypePart'
  <2>1. Len(g) <= MaxDepth
    BY <1>3, <1>4, SizeAssumption
  <2> QED BY <1>6, <1>7, <2>1, InvFacts DEF TypePart
<1>10. HandlePart'
  BY <1>6 DEF ContextInv, HandlePart
<1>11. Running(a, regs', mem, t, saved[t], g)
  <2>1. DOMAIN regs' = Registers(a) /\ regs'["pc"] = Client(t) /\ regs'["sp"] = Addr(Cell(a, t, Len(g)))
    BY <1>1, <1>5, <1>6, InvFacts
  <2> QED BY <1>8, <2>1, Tags DEF Running
<1> QED BY <1>1, <1>2, <1>6, <1>7, <1>9, <1>10, <1>11 DEF ContextInv

LEMMA NextContext == ASSUME ContextsLow PROVE ContextInv /\ [Next]_vars => ContextInv'
<1> SUFFICES ASSUME ContextInv, [Next]_vars PROVE ContextInv'
  OBVIOUS
<1>1. CASE UNCHANGED vars
  <2>1. TypePart' /\ HandlePart'
    BY <1>1 DEF vars, ContextInv, TypePart, HandlePart
  <2> QED BY <1>1, <2>1 DEF vars, ContextInv
<1> QED BY <1>1, ActiveStep, DeriveStep, SwitchStep, EntrypointStep, ReachStep, ComputeStep, PushStep, PopStep DEF Next

(* For every placement of the stacks that init accepts, on every           *)
(* architecture, through any number of switches, derivations and           *)
(* re-derivations: contexts and stacks are where they should be.  On       *)
(* RISC-V this takes contexts below 2^31, which the code does not see to.  *)
THEOREM ContextCorrect == ContextsLow => (Spec => []ContextInv)
<1> SUFFICES ASSUME ContextsLow PROVE Spec => []ContextInv
  OBVIOUS
<1>1. ContextInv /\ [Next]_vars => ContextInv'
  BY NextContext
<1> QED BY <1>1, InitContext, PTL DEF Spec

-----------------------------------------------------------------------------
(* The floating-point state co_swap does not know of is as it was at the   *)
(* start, and in every thread's record, as long as no code changes it.     *)
FloatPart ==
  \A x \in FloatState(arch) :
    regs[x] = Zero /\ \A t \in Threads : saved[t] # <<>> => saved[t][x] = Zero

LEMMA FloatApart ==
  ASSUME NEW a \in Archs, NEW x \in FloatState(a)
  PROVE  /\ x \in CalleeSaved(a) /\ x \in Registers(a)
         /\ x \notin {"sp", "pc", LinkRegister(a)} /\ x \notin Range(Loads(a))
<1>1. a \in {"amd64", "arm"}
  BY DEF FloatState
<1>2. x \in CalleeSaved(a) /\ x \in Registers(a)
  BY DEF CalleeSaved, Registers
<1>3. CASE a = "amd64"
  <2>1. x \in {"mxcsr", "x87_cw"} /\ LinkRegister(a) = "rax" /\ Loads(a) = amd64_loads
    BY <1>3 DEF FloatState, LinkRegister, Loads
  <2>2. DOMAIN amd64_loads = 1 .. 7
    BY DEF amd64_loads
  <2>3. \A i \in 1 .. 7 : amd64_loads[i] # x
    BY <2>1 DEF amd64_loads
  <2> QED BY <1>2, <2>1, <2>2, <2>3 DEF Range
<1>4. CASE a = "arm"
  <2>1. /\ x \in {"d8", "d9", "d10", "d11", "d12", "d13", "d14", "d15"}
        /\ LinkRegister(a) = "lr" /\ Loads(a) = arm_loads
    BY <1>4 DEF FloatState, LinkRegister, Loads
  <2>2. DOMAIN arm_loads = 1 .. 10
    BY DEF arm_loads
  <2>3. \A i \in 1 .. 10 : arm_loads[i] # x
    BY <2>1 DEF arm_loads
  <2> QED BY <1>2, <2>1, <2>2, <2>3 DEF Range
<1> QED BY <1>1, <1>3, <1>4

(* co_swap leaves that state alone.                                        *)
LEMMA SwapKeepsFloat ==
  ASSUME NEW a \in Archs, a = arch, NEW x \in FloatState(a), DOMAIN regs = Registers(a),
         NEW m, NEW to, NEW r, r = Jumped(Loaded(Called.r, m, to), m)
  PROVE  r[x] = regs[x]
<1>1. /\ x \in Registers(a) /\ x # "sp" /\ x # "pc" /\ x # LinkRegister(a)
      /\ x \notin Range(Loads(a))
  BY FloatApart
<1>2. PICK c : c = Called.r
  OBVIOUS
<1>3. DOMAIN c = Registers(a) /\ c[x] = regs[x]
  <2>1. CASE a = "amd64"
    BY <1>1, <1>2, <2>1 DEF Called
  <2>2. CASE a # "amd64"
    BY <1>1, <1>2, <2>2 DEF Called
  <2> QED BY <2>1, <2>2
<1>4. PICK l : l = Loaded(c, m, to)
  OBVIOUS
<1>5. DOMAIN l = Registers(a) /\ l[x] = regs[x]
  BY <1>1, <1>3, <1>4 DEF Loaded
<1>6. CASE a = "amd64"
  <2>1. x # "rax"
    BY <1>1, <1>6 DEF LinkRegister
  <2> QED BY <1>1, <1>2, <1>4, <1>5, <1>6, <2>1 DEF Jumped
<1>7. CASE a # "amd64"
  BY <1>1, <1>2, <1>4, <1>5, <1>7 DEF Jumped
<1> QED BY <1>6, <1>7

LEMMA NextFloat == ASSUME ~ChangesFloatState PROVE ContextInv /\ FloatPart /\ [Next]_vars => FloatPart'
<1> SUFFICES ASSUME ContextInv, FloatPart, [Next]_vars PROVE FloatPart'
  OBVIOUS
<1>0. arch' = arch
  BY DEF Next, vars, co_active, co_derive, co_switch, co_entrypoint, ReachClient, Compute, Push, Pop
<1> SUFFICES ASSUME NEW x \in FloatState(arch)
             PROVE  /\ regs'[x] = regs[x]
                    /\ \A t \in Threads : saved'[t] = saved[t] \/ saved'[t] = <<>> \/ saved'[t][x] = regs[x]
  BY <1>0 DEF FloatPart
<1>1. PICK a \in Archs : a = arch
  BY InvFacts
<1>2. DOMAIN regs = Registers(a) /\ DOMAIN saved = Threads
  BY <1>1, InvFacts
<1>3. x \in FloatState(a) /\ x \in CalleeSaved(a) /\ x \in Registers(a) /\ x # "sp" /\ x # "pc"
  BY <1>1, FloatApart
<1>4. CASE UNCHANGED vars
  BY <1>4 DEF vars
<1>5. CASE co_active
  BY <1>5 DEF co_active
<1>6. ASSUME NEW t \in Cothreads, co_derive(t)
      PROVE  /\ regs'[x] = regs[x]
             /\ \A u \in Threads : saved'[u] = saved[u] \/ saved'[u] = <<>>
  BY <1>2, <1>6 DEF co_derive
<1>7. ASSUME NEW t \in Threads, co_switch(t)
      PROVE  /\ regs'[x] = regs[x]
             /\ \A u \in Threads : saved'[u] = saved[u] \/ saved'[u][x] = regs[x]
  <2>1. saved' = [saved EXCEPT ![thread] = [y \in CalleeSaved(a) |-> regs[y]]]
    BY <1>1, <1>7 DEF co_switch
  <2>2. PICK m : m = Stored(Called.r, Called.m, co_active_handle)
    OBVIOUS
  <2>3. PICK to : to = co_handle[t]
    OBVIOUS
  <2>4. PICK r : r = Jumped(Loaded(Called.r, m, to), m)
    OBVIOUS
  <2>5. regs' = r
    BY <1>7, <2>2, <2>3, <2>4 DEF co_switch, switch, co_swap
  <2>6. r[x] = regs[x]
    BY <1>1, <1>2, <1>3, <2>4, SwapKeepsFloat
  <2> QED BY <1>2, <1>3, <2>1, <2>5, <2>6
<1>8. CASE co_entrypoint
  BY <1>2, <1>3, <1>8 DEF co_entrypoint
<1>9. CASE ReachClient
  BY <1>2, <1>3, <1>9 DEF ReachClient
<1>10. ASSUME NEW k \in {1, 2}, Compute(k)
       PROVE  regs'[x] = regs[x] /\ saved' = saved
  BY <1>1, <1>2, <1>3, <1>10 DEF Compute
<1>11. CASE Push
  BY <1>2, <1>3, <1>11 DEF Push
<1>12. CASE Pop
  BY <1>2, <1>3, <1>12 DEF Pop
<1> QED BY <1>4, <1>5, <1>6, <1>7, <1>8, <1>9, <1>10, <1>11, <1>12 DEF Next

LEMMA InitFloat == Init => FloatPart
<1> SUFFICES ASSUME Init, NEW x \in FloatState(arch)
             PROVE  regs[x] = Zero /\ \A t \in Threads : saved[t] = <<>>
  BY DEF FloatPart
<1>1. PICK a \in Archs : a = arch
  BY DEF Init
<1>2. x \in Registers(a) /\ x # "sp" /\ x # "pc"
  BY <1>1, FloatApart
<1> QED BY <1>1, <1>2 DEF Init

-----------------------------------------------------------------------------
(* The CPU executes the thread switched to, from where it left off in      *)
(* co_switch or from its entry point, and co_active_handle names it; on    *)
(* RISC-V, if the contexts are below 2^31.                                 *)
THEOREM ControlAlwaysFollows == ContextsLow => (Spec => []ControlFollows)
<1>1. ContextInv => ControlFollows
  BY DEF ContextInv, Running, HandlePart, ControlFollows
<1> QED BY <1>1, ContextCorrect, PTL

(* co_switch returns with everything the calling convention promises: the  *)
(* registers, and the floating-point state as long as no code changes it.  *)
THEOREM RegistersAlwaysRestored ==
  ContextsLow /\ ~ChangesFloatState => (Spec => []RegistersRestored)
<1> SUFFICES ASSUME ContextsLow, ~ChangesFloatState PROVE Spec => []RegistersRestored
  OBVIOUS
<1>1. ContextInv /\ FloatPart => RegistersRestored
  <2> SUFFICES ASSUME ContextInv, FloatPart, regs["pc"] = Return(thread), NEW x \in CalleeSaved(arch)
               PROVE  regs[x] = saved[thread][x]
    BY DEF RegistersRestored
  <2>1. CASE x \in SavedRegisters(arch)
    BY <2>1 DEF ContextInv, Running
  <2>2. CASE x \in FloatState(arch)
    BY <2>2 DEF ContextInv, TypePart, Running, FloatPart
  <2> QED BY <2>1, <2>2 DEF CalleeSaved
<1>2. ContextInv /\ FloatPart /\ [Next]_vars => FloatPart'
  BY NextFloat
<1>3. Spec => []ContextInv
  BY ContextCorrect
<1> QED BY <1>1, <1>2, <1>3, InitFloat, PTL DEF Spec

(* No saved context and no other thread ever changes a word a thread has   *)
(* on its stack.                                                           *)
THEOREM StacksAlwaysKept == ContextsLow => (Spec => []StackKept)
<1>1. ContextInv => StackKept
  <2> SUFFICES ASSUME ContextInv, NEW i \in DOMAIN frames[thread]
               PROVE  Read(mem, regs["sp"][2] + Word(arch) * (i - 1)) = frames[thread][i]
    BY DEF StackKept
  <2>1. PICK a \in Archs : a = arch
    BY InvFacts
  <2>2. PICK t \in Threads : t = thread
    BY InvFacts
  <2>3. PICK f \in Seq(Frame) : f = frames[t]
    BY InvFacts
  <2>4. i \in 1 .. Len(f) /\ Len(f) \in Nat
    BY <2>2, <2>3
  <2>5. regs["sp"][2] = Cell(a, t, Len(f))
    BY <2>1, <2>2, <2>3, StackPointer DEF Addr
  <2>6. Cell(a, t, Len(f)) + Word(a) * (i - 1) = Cell(a, t, Len(f) - i + 1)
    <3>1. Base(a, t) \in Int /\ Word(a) \in {4, 8}
      BY Areas, Numbers, PlacesAssumption DEF Threads, Base
    <3>2. Len(f) \in Int /\ i \in Int
      BY <2>4
    <3>3. PICK n \in Int : n = Len(f)
      BY <3>2
    <3>4. PICK b \in Int : b = Base(a, t)
      BY <3>1
    <3>5. b - Word(a) * n + Word(a) * (i - 1) = b - Word(a) * (n - i + 1)
      <4>1. CASE Word(a) = 4
        BY <3>2, <4>1
      <4>2. CASE Word(a) = 8
        BY <3>2, <4>2
      <4> QED BY <3>1, <4>1, <4>2
    <3> QED BY <3>3, <3>4, <3>5 DEF Cell
  <2>7. Read(mem, Cell(a, t, Len(f) - i + 1)) = f[i]
    BY <2>1, <2>2, <2>3, <2>4 DEF ContextInv, Running, Frames
  <2> QED BY <2>1, <2>2, <2>3, <2>5, <2>6, <2>7
<1> QED BY <1>1, ContextCorrect, PTL

(* Nothing is ever written outside the cothreads' memories, the root       *)
(* thread's buffer and its stack.                                          *)
THEOREM NeverStrays == ContextsLow => (Spec => []NoStrayWrites)
<1>1. ContextInv => NoStrayWrites
  BY DEF ContextInv, Legal, NoStrayWrites
<1> QED BY <1>1, ContextCorrect, PTL

(* Every cothread is entered with the stack pointer its platform requires. *)
THEOREM AlwaysEnteredAligned == ContextsLow => (Spec => []EntryAligned)
<1>1. ContextInv => EntryAligned
  <2> SUFFICES ASSUME ContextInv, regs["pc"] \in {co_entrypoint_pc, Entry(thread)}
               PROVE  CASE arch = "amd64" -> (regs["sp"][2] + 8) % 16 = 0
                        [] arch = "arm" -> regs["sp"][2] % 8 = 0
                        [] OTHER -> regs["sp"][2] % 16 = 0
    BY DEF EntryAligned
  <2>1. PICK a \in Archs : a = arch
    BY InvFacts
  <2>2. PICK t \in Threads : t = thread
    BY InvFacts
  <2>3. t \in Cothreads /\ frames[t] = <<>>
    BY <2>2 DEF ContextInv, Running, Threads
  <2>4. /\ Base(a, t) \in Int
        /\ IF a = "amd64" THEN (Base(a, t) + 8) % 16 = 0 ELSE Base(a, t) % 16 = 0
    BY <2>3, Areas
  <2>5. regs["sp"][2] = Base(a, t)
    <3>1. regs["sp"][2] = Cell(a, t, 0)
      BY <2>1, <2>2, <2>3, StackPointer DEF Addr
    <3> QED BY <2>4, <3>1, Numbers DEF Cell
  <2>6. \A x \in Int : x % 16 = 0 => x % 8 = 0
    OBVIOUS
  <2>7. a # "amd64" => Base(a, t) % 16 = 0 /\ Base(a, t) % 8 = 0
    BY <2>4, <2>6
  <2> QED BY <2>1, <2>4, <2>5, <2>7
<1> QED BY <1>1, ContextCorrect, PTL

=============================================================================
