------------------------------- MODULE Simple -------------------------------
(***************************************************************************)
(* The simple example, and with it the library on top of libco: whenever   *)
(* the scheduler of module Microkitco switches, the registers and stacks   *)
(* of module Libco are switched, and a spawn derives a context there.      *)
(* co_active_handle is the thread the scheduler believes to be executing,  *)
(* active_context libco's own handle.                                      *)
(*                                                                         *)
(* init fills the pool with cothreads twice and checks that one more does  *)
(* not fit; it prints two floating-point variables before and after, which *)
(* the compiler may keep in registers all along.                           *)
(***************************************************************************)
EXTENDS Integers, Sequences

CONSTANTS Archs, Memory, co_stack_size, RootBuffer, RootStack, Half

VARIABLES
  running, state, next_blocked, private_arg, free_handle_queue,
  scheduling_queue, sem, co_active_handle, context, event_loop, fault, waiters,
  arch, regs, mem, active_context, co_handle, saved, frames,
  line,        \* the line of init the root thread is at
  co_line,     \* the line of co_entry each cothread is at
  hello        \* what the cothreads have printed

library == <<running, state, next_blocked, private_arg, free_handle_queue,
             scheduling_queue, sem, co_active_handle, context, event_loop,
             fault, waiters>>
machine == <<arch, regs, mem, active_context, co_handle, saved, frames>>
vars == <<library, machine, line, co_line, hello>>

Lib == INSTANCE Microkitco WITH
         MAX_COTHREADS <- 4, Channels <- {}, BadChannel <- 0, Semaphores <- {},
         Args <- 1 .. 7, Rules <- {}

Co == INSTANCE Libco WITH
        co_active_handle <- active_context, thread <- co_active_handle, MaxDepth <- 0,
        ChangesFloatState <- FALSE

ROOT == 0
Cothreads == 1 .. 3

(* Each cothread has a stack, and the stacks are where libco needs them.   *)
ASSUME StacksAssumption ==
  /\ DOMAIN Memory = Cothreads
  /\ Co!ArchsAssumption /\ Co!MemoryAssumption /\ Co!SizeAssumption
  /\ Co!PlacesAssumption /\ Co!HalfAssumption

Init ==
  /\ Lib!Init /\ Co!Init
  /\ line = 23
  /\ co_line = [t \in Cothreads |-> 18]
  /\ hello = <<>>

InClient(t) == fault = "none" /\ running = t /\ Co!InClient
RootAt(l) == InClient(ROOT) /\ line = l

-----------------------------------------------------------------------------
(* init.  f and d are set; the library is initialised.                     *)
Floats ==
  /\ RootAt(23) /\ line' = 41
  /\ Co!Compute(1)
  /\ UNCHANGED <<library, co_line, hello>>

Initialise ==
  /\ RootAt(41) /\ line' = 49
  /\ Co!co_active
  /\ UNCHANGED <<library, co_line, hello>>

(* A yield is at three places; the root thread resumes at the line after.  *)
Yield ==
  /\ \E l \in {<<49, 51>>, <<62, 66>>, <<77, 80>>} : RootAt(l[1]) /\ line' = l[2]
  /\ Lib!microkit_cothread_yield
  /\ Co!co_switch(co_active_handle')
  /\ UNCHANGED <<co_line, hello>>

(* Each spawn with its argument.                                           *)
Spawn ==
  /\ \E l \in {<<51, 52, 1>>, <<52, 53, 2>>, <<53, 55, 3>>,
               <<68, 69, 4>>, <<69, 70, 5>>, <<70, 72, 6>>} :
       /\ RootAt(l[1]) /\ line' = l[2]
       /\ Lib!microkit_cothread_spawn("entry", l[3])
  /\ IF free_handle_queue # <<>>
     THEN /\ Co!co_derive(Head(free_handle_queue))
          /\ co_line' = [co_line EXCEPT ![Head(free_handle_queue)] = 18]
     ELSE UNCHANGED <<machine, co_line>>
  /\ UNCHANGED hello

(* One spawn too many: init gives up if it succeeds.                       *)
SpawnTooMany ==
  /\ \E l \in {<<55, 62, 4>>, <<72, 77, 7>>} :
       /\ RootAt(l[1])
       /\ Lib!microkit_cothread_spawn("entry", l[3])
       /\ line' = IF free_handle_queue = <<>> THEN l[2] ELSE 57
  /\ UNCHANGED <<machine, co_line, hello>>

PrintFloats ==
  /\ RootAt(66) /\ line' = 68
  /\ UNCHANGED <<library, machine, co_line, hello>>

Done ==
  /\ RootAt(80) /\ line' = 82
  /\ Lib!HandlerReturns
  /\ UNCHANGED <<machine, co_line, hello>>

(* co_entry.  It prints the argument, using the registers as it likes, and *)
(* returns to the wrapper, which destroys the cothread.                    *)
Greet(t) ==
  /\ InClient(t) /\ co_line[t] = 18
  /\ co_line' = [co_line EXCEPT ![t] = 20]
  /\ Lib!microkit_cothread_my_arg
  /\ hello' = Append(hello, private_arg[t])
  /\ Co!Compute(2)
  /\ UNCHANGED line

Faulty_leave(t) ==      \* faulty: the wrapper gives way but does not destroy
  /\ InClient(t) /\ co_line[t] = 20
  /\ Lib!microkit_cothread_yield
  /\ Co!co_switch(co_active_handle')
  /\ UNCHANGED <<line, co_line, hello>>

Leave(t) ==
  /\ InClient(t) /\ co_line[t] = 20
  /\ Lib!cothread_entry_wrapper
  /\ Co!co_switch(co_active_handle')
  /\ UNCHANGED <<line, co_line, hello>>

(* The code around a switch: co_entrypoint and the return from co_switch.  *)
Resume ==
  /\ Co!co_entrypoint \/ Co!ReachClient
  /\ UNCHANGED <<library, line, co_line, hello>>

Next == \/ Floats \/ Initialise \/ Yield \/ Spawn \/ SpawnTooMany \/ PrintFloats
        \/ Done \/ Resume \/ \E t \in Cothreads : Greet(t) \/ Leave(t)

Spec == Init /\ [][Next]_vars /\ WF_vars(Next)

-----------------------------------------------------------------------------
(* The CPU executes the thread the scheduler takes to be running, on every *)
(* architecture and through every spawn into a used stack.                 *)
CpuFollowsScheduler == Co!ControlFollows

(* The example prints f and d before and after the cothreads ran, and says *)
(* the same both times: root's registers come through all switches.        *)
FloatsKept ==
  line = 66 /\ RootAt(66) =>
    \A r \in Co!SavedRegisters(arch) \ {"sp"} : regs[r] = <<r, 1>>

(* "cothreads limit test passed": a fourth cothread is refused while three *)
(* are in use, both times, and the three handles come back in between.     *)
LimitHolds == line # 57

(* "1, 2, 3 exited, spawning 4, 5, 6", and init returns when all cothreads *)
(* have finished: each greets once, with its own argument, in order.       *)
GreetsInOrder ==
  /\ \A i \in DOMAIN hello : hello[i] = i
  /\ running = ROOT /\ line \in 66 .. 77 => Len(hello) = 3
  /\ running = ROOT /\ line > 77 => Len(hello) = 6

(* init returns to the event loop, with all cothreads gone.                *)
Finishes == <>(event_loop /\ \A t \in Cothreads : state[t] = "not_active")

=============================================================================
