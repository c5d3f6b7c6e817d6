# A TLA+ development of libmicrokitco

libmicrokitco multiplexes *cothreads* on the single kernel thread of an seL4
Microkit protection domain (PD). This directory holds TLA+ models of the
library, of the context switch it stands on and of the example programs that
use it; the TLC configurations that check them on small instances; and proofs,
checked by TLAPS, of what holds for every number of threads, channels,
semaphores, clients and addresses. Paths below are relative to the repository;
line numbers are those of `src/libmicrokitco.c` unless another file is named.

## 1. The system

### Components

| Component | State | Operations |
|---|---|---|
| Scheduler and handle pool (`libmicrokitco.c`, `.h`) | `running`; per thread a TCB with `state`, `next_blocked_on_same_event`, `private_arg`, `co_handle`, `local_storage`; the free handle queue; the scheduling queue | `init`, `spawn`, `set_arg`, `query_state`, `my_handle`, `my_arg`, `free_handle_available`, `yield`, `destroy`, the entry wrapper; inside, `internal_schedule` and `internal_go_next` |
| Stack validation (part of `init`) | the controller's stack size and the TCBs' `local_storage` | size, null, touch and overlap checks |
| Semaphores | per semaphore `set`, `head`, `tail`; the waiters are linked through their TCBs | `init`, `wait`, `signal`, `is_set`, `is_queue_empty`; one semaphore per Microkit channel behind `wait_on_channel` and `recv_ntfn` |
| Hosted queue (`libhostedqueue.h`) | `capacity`, `items`, `head`, `tail`, and an array owned by the caller | `init`, `peek`, `pop`, `push` |
| libco (`libco/*.c`: AArch64, RISC-V with and without hardware floats, x86-64, ARM) | the active handle; saved registers on each stack | `co_active`, `co_derive`, `co_switch`; inside, `co_swap` (machine code) and `co_entrypoint` |
| Microkit event loop (not in the repository) | whether the root thread is waiting, pending notifications | calls `init()` once and `notified()` for each notification |
| Codis example (`example/codis`) | the server's buckets and their lengths; one shared buffer per client | the server's `init`, `notified` and `client_handler`; the clients' `co_main` |
| Codis string functions (`example/codis`) | memory | `memchr`, `strlen`, `strnlen`, `strcpy`, `strncpy`, `strcat`, `memcpy` |
| Simple example (`example/simple`) | the library and the machine under it | `init`, `co_entry` |
| printf (a copy in each example) | the caller's buffer, the output index | `printf`, `sprintf`, `snprintf`, `fctprintf` and the conversions |
| Benchmarks, build files | | measurement and build only |

### How they interact

Nothing runs in parallel inside a PD: a call of the library runs to its end or
to a `co_switch`. What interleaves are the *calls* of different threads, in
whatever order the scheduler and the semaphores let them run. Thread 0, the
*root thread*, is the one Microkit started; it runs `init()` and `notified()`,
and only while it waits in the event loop does the PD receive notifications,
which it passes to `recv_ntfn`. The root thread has a TCB and takes its turn in
the scheduling queue like the others.

`yield`, `wait` and a `destroy` of oneself end in `internal_go_next`: the first
queue entry that is the root thread or is ready gets the CPU, other entries are
dropped, and an empty queue means the root thread. `signal` bypasses the
scheduler: it queues the caller and switches to the head of the waiting list.
Each switch ends in libco's `co_swap`, which knows nothing of the scheduler's
records: it exchanges registers between two contexts, each on its own stack.

PDs do run in parallel with each other, or preempt each other. In Codis a
request and its answer share one buffer per client; the only synchronisation is
Microkit's notifications, which are binary and merge.

### What is hard about it

* Three records of who is executing (`running`, the TCB states, libco's active
  handle) are updated one after the other around every switch.
* `destroy` leaves the entry of a ready cothread in the scheduling queue; the
  entry is recognised as stale only by the TCB state at the time it is popped.
* Waiting lists run through TCBs that are reused, and a list is changed by the
  waiter, by the signaller, and by nobody when a handle is recycled.
* Both queues have exactly `LIBMICROKITCO_MAX_COTHREADS` slots and an overflow
  crashes the PD.
* The root thread is also the fallback of the scheduler, whatever its state.
* The ring's `head`, `tail` and `items` are maintained separately and wrap.
* `co_derive` writes, in C, the context that `co_swap` reads, in machine code
  given as numbers; no compiler compares the two, and there are five variants.
* Address arithmetic on stacks wraps; only the ends of a stack are touched; its
  size is checked as a `size_t` and kept as an `int`.
* The Codis handlers read their arguments from the frame of an `init` that will
  have returned, and share buffers with preempting PDs without a lock.
* printf works backwards in a fixed conversion buffer, and its output index and
  buffer size are unsigned.

`PROJECT.json` lists these hazards at their lines with the properties aimed at
them.

### What makes each component correct

* Hosted queue: indices in range; `tail` is `items` places after `head`; the
  queue is a bounded FIFO, error codes included.
* Scheduler: the library knows its caller; a switch loads only registers that
  were saved; each ready thread is queued exactly once; ready threads run in the
  order they became ready; no overflow; no ready thread waits for ever; the root
  thread always gets its turn.
* Handle pool: holds exactly the unused handles, each once.
* Semaphores: the links spell out the waiters in arrival order; a wait ends only
  by a signal, and the longest waiting thread gets it.
* Stack validation: stacks are accepted exactly when they share no byte; a spawn
  zeroes its own cothread's stack and nothing else.
* libco: the thread switched to continues where it left off, with its registers
  and its stack, and starts with an aligned stack.
* Codis: each request takes effect once, atomically; buckets never overflow;
  every client gets all its answers.
* printf and the string functions: nothing outside the bound is written; the
  text is the value.

## 2. The modules

| Module | Contents |
|---|---|
| `BoundedFifo` | abstract specification of a hosted queue |
| `HostedQueue` | the circular queue, and its refinement `ImplementsFifo` |
| `CothreadSystem` | abstract specification of the library: who runs next, and what a signal does |
| `Microkitco` | scheduler, handle pool, semaphores, channel semaphores, libco's bookkeeping and the event loop; its refinement `ImplementsSystem` |
| `StackChecks` | the checks of `microkit_cothread_init` on the stacks, and the zeroing of one by a spawn |
| `Libco` | registers, memory and `co_swap` of five architectures |
| `Simple` | the simple example: `Microkitco` composed with `Libco` |
| `CodisStore` | abstract specification of Codis: an atomic map from buckets to strings |
| `Codis` | the Codis server on `Microkitco`, composed with its clients; its refinement `ImplementsStore` |
| `Strings`, `Printf`, `ExampleLibc` | the C library functions the examples bring along, and the two side by side |
| `HostedQueueProofs`, `MicrokitcoProofs`, `MicrokitcoRulesProofs`, `StackChecksProofs`, `LibcoProofs`, `SimpleProofs`, `CodisProofs`, `ExampleLibcProofs` | theorems and proofs |
| `MC...` | values of the constants for TLC |

Definitions whose names begin with `Faulty_` are plausible mistakes in the
definition they precede. No specification uses them; they are there to show that
each property notices one.

### `HostedQueue`

`queue` is `hosted_queue_t`, `memory` the caller's array, `ret` the error code
and item of the last call; one action per function. The refinement mapping reads
the items from `head` on, modulo the capacity. A failed peek or pop leaves the
output parameter alone, which `NoItem` stands for.

### `Microkitco`

| Model | Code |
|---|---|
| `running`, `state`, `next_blocked`, `private_arg` | `co_controller->running` and the TCB fields |
| `free_handle_queue`, `scheduling_queue` | the two hosted queues, as sequences (that is what `HostedQueue` justifies) |
| `sem` | every `microkit_cothread_sem_t`: the channels' (initialised by `init`) and the client's own (zeroed memory until initialised) |
| `co_active_handle`, `context` | libco: who has the CPU, and in which call each thread's saved registers resume (`entry` after `co_derive`, `dead` after a destroy of oneself) |
| `event_loop` | the root thread is in Microkit's receive (external) |
| `fault` | the panic, or the write to the root's missing stack, that crashed the PD |
| `waiters` | history variable: who blocked on each semaphore, in order; no guard reads it |

Each function of the API is one action with the same name, up to and including
the `co_switch` that leaves it; `semaphore_wait`, `semaphore_signal`, `spawn`
and `destroy` without the prefix are the bodies that two callers share. The
caller of every action is `running`, because that is how the library identifies
it; `CallerInv` states that this is right. A panic is a step that sets `fault`,
after which nothing happens in the PD. The initial state is the one a successful
`microkit_cothread_init` leaves. A client may pass any thread, or one past either
end, as a handle.

The library relies on things it does not check. They are written as *rules*, and
a configuration chooses which of them its client keeps:

| Rule | Why |
|---|---|
| `valid_arguments` | the library answers a bad argument with a panic on purpose |
| `semaphores_initialised` | a zeroed semaphore looks as if thread 0 waited on it |
| `root_never_waits` | the scheduler resumes the root thread whatever its state |
| `cothreads_destroy` | `destroy` tests its caller where it means its argument |
| `no_stale_reuse` | a handle destroyed while ready must not be spawned again before the queue has drained its entry |

Destroying a *blocked* cothread is documented as undefined behaviour, and no
client does it in any configuration.

`CothreadSystem` says what a client that keeps the rules may rely on, without
handles, queues, links or stale entries: a current thread, the set of ready ones
with the relation "became ready earlier", for each semaphore its waiters and
whether a signal is remembered. The mapping takes the ready threads from the TCB
states and the relation from their places in the scheduling queue, so that stale
entries between them are invisible.

### `StackChecks`

`microkit_cothread_init` takes all sizes and all placements of the stacks in an
address space that wraps. `Verdict` keeps the order of the checks: null and touch
(a VM fault if unmapped) stack by stack, then the comparison of every pair. The
size is then kept in an `int` (`libmicrokitco.h:74`; `ToInt`), and
`microkit_cothread_spawn` converts it back (`ToSize`) and zeroes that many bytes
from the start of the stack, up to the first that is not mapped; `memzero` counts
in an `int`, and beyond its range the outcome is "undefined". `MayWrap` says
whether a client passes a stack that runs past the last address.

### `Libco`

`regs` and `mem` hold tagged values; `co_swap` is a table of the stores and one
of the loads, read off the machine code and listed from the lowest address up,
and `co_derive` writes the words of a context that has never run. Between
switches a thread may change every register (`Compute`) and use its stack
(`Push`, `Pop`). `saved` and `frames` are history: what each thread must find
again. `thread` is whose code is meant to run; the program counter says whose
really does. RISC-V's `addiw` is modelled with its 32 bit sign extension. The
root thread's buffer has the size each file declares (`BufferSize`). What the
calling convention has a callee keep (`CalleeSaved`) is the registers that a
switch has to restore (`SavedRegisters`) and floating-point state that `co_swap`
does not touch (`FloatState`: MXCSR's and the x87's control words on x86-64,
`d8`-`d15` on an ARM with hard floats); `ChangesFloatState` says whether threads
change the latter. ARM is in the model because libco has a file for it; the
Makefile builds the library for the other targets only.

### `Simple`

The statements of `init` and `co_entry`, each together with the call of the
library it makes and the switch of registers that belongs to it: the composition
of `Microkitco` (its `co_active_handle`) and `Libco` (its own, `active_context`).
Floating-point variables are whatever the compiler keeps in registers across the
calls.

### `Codis`

The server's threads run the statements of `server.c` on an instance of
`Microkitco`, with every rule left to the server's own care. A client PD has one
cothread besides its root thread, so its library is reduced to its one semaphore
and the fact that the root thread receives exactly while the cothread is blocked
or has ended. A PD may be preempted between any two of its steps; notifications
are sets of channels, so a second one before the first is received is lost.
`InitFrame` is whether the server's `init` has returned: the arguments of the
handlers lie in its frame. The bytes of a buffer are its head (command and
bucket, a return value or the string read) and the string behind them.

### `Strings`, `Printf` and `ExampleLibc`

`Strings` computes `memchr` and `strlen` by words with the code's bit tricks.
Bytes and words are given by their bits (`BITS` to a byte, `SS` bytes to a word),
so that `HASZERO` is what the C expression computes: a subtraction whose borrows
run from one byte into the next, an and, a complement. A loop is the number of
its rounds. Copies go up or down in memory, as long as what is written and what
is read do not overlap (`restrict`); `strncpy` takes any bound. `ExampleLibc` makes one call of `Strings` or of `Printf`. `Printf` takes a
format already split into its directives and follows each conversion from the
argument (cut to its type) through digits, padding, sign and prefix in the
conversion buffer, to the output function; doubles are exact multiples of
`1/DEN`, and beyond `PRINTF_MAX_FLOAT`, or with `%e` and `%g`, the text is that of
the parameter `etoa`. It names the functions as the source does without the leading
underscore.

## 3. Model checking

| Run | Instance | Checks |
|---|---|---|
| `hosted_queue` | capacity 3, three items | `TypeOK`, `RingInv`, `ImplementsFifo` |
| `rules` | root and 3 cothreads, a channel, a semaphore, all rules, fairness | `ControlInv`, `SchedulingInv`, `HandleInv`, `WaitListInv`, `RootInv`, `NoFault`, `WaitEndsBySignal`, `ImplementsSystem`, `ReadyRuns`, `RootRunsAgain` |
| `any_client` | root and 2 cothreads, a semaphore, no rules | `TypeOK`, `CallerInv`, `LinksInv`, `ResumesSaved` |
| `stale_reuse` | all rules but `no_stale_reuse` | `NoFault`, violated |
| `destroy_root` | all rules but `cothreads_destroy` | `RootNeverDestroyed`, violated |
| `root_waits` | all rules but `root_never_waits` | `WaitEndsBySignal`, violated |
| `stack_checks` | 28 addresses, 25 of them mapped in two regions, 3 stacks, 6 sizes, ints of -4 to 3 | `OverlapExact`, `SpawnStaysInside` |
| `libco` | five architectures, root and 2 cothreads, stacks of 300 bytes | `ControlFollows`, `RegistersRestored`, `StackKept`, `NoStrayWrites`, `EntryAligned` |
| `riscv_high` | RISC-V, the stacks above `Half` | `ControlFollows`, violated |
| `codis` | 3 clients, 2 buckets of 5 bytes; the repository's client programs, and one with a delete, an unknown command and a second bucket | `LengthsInv`, `BufferHandedOver`, `ArgumentsInTime`, `ServerNoFault`, `ImplementsStore`, `AllServed` |
| `simple` | five architectures, 3 cothreads | `CpuFollowsScheduler`, `FloatsKept`, `LimitHolds`, `GreetsInOrder`, `Finishes` |
| `example_libc` | printf: ints of 4 bits, conversion buffers of 4 and 12 characters, thousands of directives whose widths and precisions lie below, at and above those sizes; strings: every memory of 6 bytes of 2 bits | `Truncated`, `ValueKept`, `DecimalsKept`, `SearchExact`, `CopyExact` |

**Bounds.** *Library*: the state space is finite for given constants; there are
no counters to cap. Three cothreads make waiting lists with a first, a middle
and a last element, a scheduling queue with several stale entries, and let the
pool be empty, full and in an order other than the initial one. Two kinds of
semaphore (one initialised by the library, one by the client) let a cothread
move between lists. Capacity 3 is the smallest that is not a power of two and in
which head and tail wrap separately. One private argument is enough: the library
stores it and decides nothing by it. For `any_client` the rules no longer
restrict the order of calls and the space is much larger (five million states),
so it has two cothreads and a single semaphore, initialised or not, which is
enough for doubled queue entries, a destroyed root thread and a root thread left
on a list. *Stacks*: two stacks are enough for a wrong comparison, three for a
loop that stops early; a hole of one address is enough to fault between two mapped
ends; the sizes include the minimum, one less, and, as an int, the largest, a
negative one and zero. *libco*: a stack just
above the largest context, of a size that is not a multiple of 8 or 16, is where
alignment goes wrong; `MaxDepth` bounds the words a thread keeps on its stack,
and one word is the one that a misplaced context would share; two values of each
register tell a restored one from the other thread's. *Codis*: the bucket is so
small that the order of the requests decides which append is refused. *printf*:
the sizes of char, short, int, long and of the conversion buffer keep the order
they have in the real build, so that numbers just fit and just do not (a long in
binary has twice the digits the buffer holds, as in the real build), and doubles
are multiples of 1/40, which meet exact halves at no, one and two decimals, 0.95
among them. `Size`, `Counts` and `Formats` bound the
watched buffer, the sizes and the formats.

`any_client` and `destroy_root` disable deadlock checking: there a crashed PD
has stopped for good. `stack_checks`, `codis`, `simple` and `example_libc` end:
a failed or repeated `init` has stopped the PD, the clients have run their
programs, the example has returned to the event loop, the call has returned. In
the other runs a deadlock would be an error.

**Fairness.** `Microkitco!FairSpec` adds weak fairness of `Switch`, the
disjunction of all ways to let go of the CPU. The documentation asks of clients
to "yield judiciously" (`README.md:92`), and a cothread that computes for ever
starves the others by design (`README.md:217`). A `yield` is always possible, so
the assumption asks no more than that the running thread eventually makes some
call that gives the CPU up. Nothing is assumed about semaphores being signalled
or notifications arriving. `ReadyRuns` therefore ends with `\/ event_loop`: once
the root thread waits in the event loop only a notification lets a ready
cothread go on. `Codis!Spec` has weak fairness of the server PD and of each
client PD: every one of them blocks after a few steps, so even under strict
priorities (`example/codis/codis.system`) each gets the CPU. `Simple!Spec` has
weak fairness of `Next`: there is one PD, and it has the CPU.

**Disagreements found, with a run.** Each violation run shows that the code does
something else than a comment or the documentation says:

* `stale_reuse`: the comment at lines 80-81 wants the stale entry of a destroyed
  ready cothread handled gracefully. If the handle is spawned again before the
  entry is popped, the entry counts as the new cothread's, the handle is queued
  twice, and doing so repeatedly overflows the queue.
* `destroy_root`: the test commented "cannot destroy root thread" (line 369) looks
  at the caller. A cothread can destroy thread 0, and the root thread can destroy
  nobody.
* `root_waits`: a wait of the root thread returns when the queue runs empty,
  signalled or not (lines 106-109), and leaves it on the waiting list.
* `riscv_high`: RISC-V's `addiw` (`libco/riscv64.c:102`) makes another address of a
  context at or above 2^31, where its comment wants the pointer shifted down 15
  words. The switch saves and loads elsewhere; nothing refuses such a stack.

**Seen while modelling, without a run.** Those that name a constant can be tried
by giving it that value.

* `README.md:94` and `:217` say notifications are received only when all cothreads
  are blocked. A root thread that yields, or signals a waiter, is queued behind the
  ready cothreads and ahead of later ones (lines 349, 165), so it gets its turn,
  and receives, while cothreads are ready.
* A stack whose two ends are mapped and whose middle is not passes the checks of
  init (lines 225-226), commented "crash if stack not as big as we think" (line
  222); the PD crashes at the spawn that zeroes it. `stack_checks` reaches such
  spawns (`spawn_vm_fault`).
* `MayWrap = TRUE` in `MCStackChecks.cfg`: with a size so large that the end of a
  stack wraps round to mapped memory (line 232), no comparison notices an overlap,
  and stacks at one and the same address are accepted. `MayWrap = FALSE` stands for
  sizes that are not negative numbers made unsigned; the top of the address space
  itself is the kernel's.
* A size beyond the range of `int` is another one by the time spawn uses it.
  `co_derive` is then given that one, not the size init has checked.
* `ChangesFloatState = TRUE` in `MCLibco.cfg`: the control words of x86-64's
  floating-point units, which the "SystemV" convention named at `libco/amd64.c:18`
  has a callee keep, pass from one thread to the next.
* `README.md:280` says `my_arg` "returns error if called from the root thread";
  the code panics (line 340).
* A comment at `example/codis/src/server/server.c:115` says execution comes back
  there after the handler does its wait; `spawn` only queues the handler, and it
  runs at the yield.
* `printf.c:302` cuts `%lb` to the 32 characters of the conversion buffer, which
  the comment at lines 48-50 wants big enough for a converted number; the high
  digits are lost. Zeros from a precision or width that fill the buffer leave no
  room for the sign or the prefix. `Fits` is what the comment demands, and
  `ValueKept` is about the directives that meet it; the inputs of the run contain
  both kinds.
* `%.1f` of 0.95 (`printf.c:403-406`): rounding a half up carries into a second
  decimal digit, the unsigned count of zeros wraps and the buffer fills with
  them, where the comment at line 395 expects the carry to be handled.
  `CarriedTie` is exactly when this happens (`RoundsToNearest`), and `DecimalsKept`
  excepts it; without the exception `example_libc` fails.
* With `#` and a width equal to the number of digits (for zero-padded hexadecimal
  numbers also one more), the prefix replaces digits (`printf.c:247-252`). No
  document says what `#` does with a width. `Swallowed` is when this happens, and
  `ValueKept` excepts it.
* `strncpy` (`string.h:58-64`) compares its bound with a counter that it never
  advances: a bound of 0 writes one byte, any other none less than the whole
  string.
* `fctprintf` counts a NUL printed by `%c`, which it does not send to the callback
  (`printf.c:167`), while `printf.h:107` says it returns the characters that were sent.

The inputs of `example_libc` leave out zero padding of infinities, of which no
document says anything.

## 4. Proofs

TLAPS checks all of the following for every value of the constants that meets
the assumptions, which TLC evaluates on each instance:

* library: at least two threads (the header refuses fewer), channels and client
  semaphores distinct;
* hosted queue: a capacity of at least 1;
* stack checks: a non-empty address space, whose addresses are at least as wide as
  an `int`, and sizes within it;
* libco and the simple example: stacks aligned to 16 bytes, overlapping neither
  each other (which init checks) nor the root thread's buffer and stack, and
  holding the largest context and what their threads push (`SizeAssumption`; the
  library insists on far more). Codis has its stacks in mapped pages, which are
  aligned; the simple example has plain `char` arrays (`client.c:13-15`), for which
  the alignment is the compiler's and linker's doing, and is an assumption;
* Codis: at least one client; programs that post at least one request, to buckets
  that exist, with strings that fit the shared buffer;
* printf: formats whose items produce characters, a positive `DEN`, and a
  `PRINTF_MAX_FLOAT` that is not negative;
* string functions: a char of at least two bits, and a memory of whole words, so
  that the word `strlen` reads around a terminator is in it.

**`HostedQueueProofs`**: `TypeCorrect`, `RingCorrect`, `QueueIsFifo`. The
argument rests on a small theory of slots: stepping from slot to slot modulo the
capacity, distinct offsets below the capacity give distinct slots, so a push
leaves the contents and a pop removes the first of them. `RingInv` is needed for
the push: the slot at `tail` is the one after the contents.

**`MicrokitcoProofs`**: whatever the client calls, `TypeOK` (`TypeCorrect`),
`CallerInv` (`CallerCorrect`), `LinksInv` (`LinksCorrect`) and `ResumesSaved`
(`ResumesOnlySaved`) hold. The inductive invariant `AnyInv` adds
* `SavedInv`: every ready or blocked cothread, and the root thread unless it is
  running, has saved registers. Without it `ResumesSaved` does not follow;
* `PoolInv`: a cothread in the pool is not active and is there once. Without it
  a spawn could restart a cothread that is linked or running.

`LinksInv` is what makes a signal safe without any rule: its target is blocked,
hence has saved registers. The root thread is exempt throughout, as the library
really does treat it badly when the rules are broken.

**`MicrokitcoRulesProofs`**: if the client keeps all the rules, `NoFault`,
`SchedulingInv`, `HandleInv`, `ControlInv` and `RootInv` hold (`RulesNoFault`,
`RulesScheduling`, `RulesHandles`, `RulesControl`, `RulesRoot`). The inductive
invariant `RulesInv` is their conjunction with `AnyInv` and `RootUnlinked` (the
root thread is on no list; a handle 0 is leftover zero memory). That the queues
never overflow is a pigeonhole argument (`NotFull`): a queue of distinct threads
in which one is missing has a free slot; the caller is missing from the
scheduling queue and the root thread from the pool. `GoNextQueue` shows that the
scheduler drops stale entries only, which needs the root thread in the queue;
that is why the proof of `NoFault` needs `RootInv`.

The same module then proves `WaitListInv` and `WaitEndsBySignal`
(`RulesWaitLists`, `RulesWaitEnds`). The invariant is `ListInv`, the conjunction
of `RulesInv` and `WaitListInv`. A wait appends the caller, which is on no list
because it is running, behind the tail, whose link is null; a signal removes the
first element, and distinctness of the waiters is what keeps every other list
untouched. A wait cannot end through the scheduler: the scheduler picks a ready
thread or the root thread, and the root thread is never blocked (`NotWaiting`),
which is where `root_never_waits` is needed.

Last, from `ListInv`, the library implements `CothreadSystem` (`RulesSystem`). One
lemma per operation maps its step to an abstract one. The heart is
`GoNextDispatches`: the first entry that is ready has no ready thread before it,
and cutting the queue after it leaves the order of the remaining ready threads as
it was, whatever was dropped. `OrderAppend` says that a thread joining the queue
is behind all others, for which it must not be in the queue already: that is
`no_stale_reuse` for a spawn and `SchedulingInv` for a caller. A `destroy` of
another thread changes the order by that thread alone (`OrderDrop`).

**`StackChecksProofs`**: for every address space and all stacks that do not wrap,
`OverlapExact` (`StacksExact`) and `SpawnStaysInside` (`SpawnsStayInside`). Of two
intervals that share a byte, the first byte of the one that starts later is in
both, which is what the comparison tests. A spawn zeroes at most as many bytes as
init was given: the int is that size or less, or negative and then larger than the
`int` counter of the loop reaches, after which nothing is claimed.

**`LibcoProofs`**: `ControlFollows`, `RegistersRestored`, `StackKept`,
`NoStrayWrites` and `EntryAligned`, on every architecture, for any number of
stacks wherever they are, and for any stack size, a multiple of 16 or not. All of
them have the hypothesis `ContextsLow`: if RISC-V is among the architectures, all
contexts lie below 2^31. No code sees to that, and `riscv_high` shows that it is
needed; on the other architectures it is true. `RegistersRestored` has the further
hypothesis that no thread changes the floating-point state `co_swap` leaves alone:
then that state is the same in all threads at all times (`FloatPart`).

* The tables of the five architectures are brought to one form (`TableFacts`): as
  many loads as stores, every callee-saved register at the same position in both,
  and one position each for the stack pointer and the place to go on. This is the
  only part that looks at an architecture's register names.
* `Loc` is where a thread keeps a register, `Cell` a word of its stack. No two of
  these addresses of all threads are equal (`LocsApart`, `CellsApart`,
  `LocIsNoCell`): each is `Within` an area, and the areas are apart because the
  stacks are and because a context leaves the rest of its stack alone.
* The inductive invariant `ContextInv` says of the running thread (`Running`) that
  its stack pointer is where its frames end and, until it reaches its own code,
  that its registers are the saved ones; of every other thread (`Parked`) that
  its context in memory holds what it had in its registers when it called
  `co_switch`, or what `co_derive` prepared; and of all handles that they are the
  derived ones.
* A switch parks the caller (`Saved`) and resumes a parked thread (`Resumed`); a
  derivation makes a parked thread (`DerivedReady`, one lemma per architecture);
  all three leave the others parked, as they write to no place of theirs.

**`SimpleProofs`**: `CpuFollowsScheduler` (`CpuFollows`) and `FloatsKept`
(`FloatsSurvive`), wherever the three stacks are, again with `ContextsLow` for
RISC-V. Here the theorems about the
components are put together: every step of the example is a step of the library
for any client, so that `AnyInv` holds and the library's caller is the thread the
CPU executes; and it is a step of libco for the thread the library chose, so that
`ContextInv` holds. What has to be added is that the pool never holds the root
thread (`FreeInv`), as a spawn derives a context in the stack of the handle it
takes, and where root's variables are meanwhile (`FloatsInv`). The `Same...` lemmas
state that an action of the composed modules is the action of the same name that
the component theorems are about.

`LimitHolds` (`LimitAlwaysHolds`) and `GreetsInOrder` (`AlwaysGreetsInOrder`) follow
the program itself. `ProgramInv` says where it can be: in `init`, with the first
so many cothreads of a round spawned and queued in that order (`InInit`), or in
the k-th cothread of a round, with the earlier ones gone and their handles back
in the pool, the later ones queued and root behind them (`InCothread(k)`). Each
spawn, the yield and each return leads from one situation to the next; the pool
is empty exactly when the spawn that must fail is made.

**`CodisProofs`**: for any number of clients and buckets, any programs and any
schedule.

* `BucketsNeverOverflow`, that is `LengthsInv`. `CodisInv` joins `PostedInv` (the
  string in a shared buffer fits it, so that `strnlen` with its bound returns its
  length), `ServingInv` (a handler beyond its wait has a valid channel, since the
  wait panics otherwise) and `StoredInv` (`data_len` is the length of the string
  and leaves room for the terminator).
* `ServerNeverFaults`, `HandlersOwnArguments` and `BuffersHandedOver`, that is
  `ServerNoFault`, `ArgumentsInTime` and `BufferHandedOver`. The invariant
  `RequestInv` adds two parts. `ServerInv` lists the four situations the server's
  threads can be in together: init spawning, the handlers starting one after the
  other, root dispatching a badge with every handler blocked, or one handler
  serving with root queued behind it. `ProtocolInv` follows each client's request:
  it is in one place at a time (notified, in a badge, with the handler or on its
  way back), only while the client waits, and until it is executed the shared
  buffer holds it. Two binary notifications suffice because of that one place.
* `CodisIsAStore`, that is `ImplementsStore`: from `RequestInv`, the handler's
  execution maps to the store's atomic operation, the client's return to its
  answer, and every other step changes nothing the store sees (`Unseen`).

**`ExampleLibcProofs`**: for bytes of at least two bits, words of any size and a
memory of whole words (`BytesAssumption`).

* `SearchesAreExact`, that is `SearchExact`. `HaszeroIsExact` is its core: the word
  test is not zero exactly when some byte of the word is. A zero byte is seen
  because the lowest one has no borrow coming in (`ZeroSeen`), and a byte that is
  not zero sets its high bit only behind a zero byte (`SeenZero`), which is why a
  test on the whole word is exact although one on its bytes is not. `MemchrFinds`
  and `StrlenCounts` follow the three loops, the number of rounds of each being
  the least count that stops it (`Least`): what a loop passed over holds no hit.
* `CopiesAreExact`, that is `CopyExact`, from `StrlenCounts` and `Copies`, for a
  destination on either side of the source. What is behind the destination's old
  end for `strcat` cannot be the source: it would end where that does.
* `NeverPastCount`, that is `Truncated`, for all formats and buffer sizes. The
  invariant `FilledInv` says that until the terminator is written the buffer
  holds exactly the part of the text below `maxlen`.
* `RoundsToNearest`: for every value up to `PRINTF_MAX_FLOAT` and each precision up
  to nine, the whole and decimal parts `%f` rounds to are within half a unit of the
  last decimal; and the decimals are fewer than 10^prec, so that they are printed
  in as many digits as asked, except exactly at the tie `CarriedTie`, where they
  are 10^prec and the digits printed are wrong. It needs that 10^prec is even.

**Only model-checked**: the liveness properties (`ReadyRuns`, `RootRunsAgain`,
`AllServed`, `Finishes`), as fairness is out of the prover's reach; `ValueKept` and
`DecimalsKept`, which are about strings of digits, whose induction the prover
cannot do (of `DecimalsKept`, `RoundsToNearest` proves the rounding). The four
violation runs are counterexamples on small instances and need no proof.

## 5. Not modelled

* The text that `%e` and `%g` of printf produce (`_etoa`): logarithms in double
  arithmetic. Which values go there is modelled, the text is the parameter `etoa`.
  Rounding errors of doubles in `%f`: the model's doubles are exact.
* The parsing of a format string into directives: the model starts from the
  directives.
* `my_handle` and `free_handle_available`: two functions that only read.
  `memzero` is modelled in `StackChecks` only, where what it clears matters.
* The signedness of `char` in the server's bucket number (`server.c:59`): the
  clients use bucket 0 only, and Codis is built for AArch64 and RISC-V, whose
  `char` is unsigned.
* A Codis client's own library: it has one cothread, so `Microkitco` would add
  nothing to the semaphore that is modelled.
* Benchmarks: they measure cycles, and call the library as the examples do.
  Build files: no behaviour.
* Destroying a blocked cothread: undefined by the documentation.
* PD crashes and restarts: Microkit does not restart a PD and the library keeps
  nothing across one. A panic is modelled as the end of the PD.
