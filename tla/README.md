# A model of the light-weight real-time kernel

TLA+ modules, TLC configurations and TLAPS proofs about the kernel in `src/`
(Tiva TM4C1294, Cortex-M4).  All line numbers are of the files in `src/src/`;
`tiva_rtos/rtos/src/` holds the same text a second time.

* `tlc -config X.cfg M` checks a run (the runs are listed below),
* `tlapm M.tla` checks the proofs of M: RingTheorems, QueueProofs, KernelProofs,
  ContextSwitchProofs, UartTxProofs, MessagesProofs, ClockProofs, ConsoleProofs.

## 1. The system

One CPU runs *processes* (thread mode, each on a stack of its own, PSP) and a
*kernel* (handler mode).  A process enters the kernel by `SVC`; two interrupts,
SysTick and UART0, enter it too, because their handlers call `k_send` directly.
PendSV, at the lowest priority, ends a time slice.

| Component | State | Operations | Correct when |
|---|---|---|---|
| general queues (`Queue.c`) | `next`, `prev` of every pcb, mail and message queue; head pointers | `enq`, `deq` | each queue holds what was put in and not taken out, newest at the head; no call disturbs another queue |
| scheduler (`Kernel.c`, `Proc_switch.c`, `Systick.c`) | `running`, `pqueue[]`, `blockq`, `pcblist`, `state`, `prio` of each pcb, the tick counter | `nice`, `terminate`, block and wake-up, `SysTickHandler`, `PendSV_Handler`/`next_process` | each pcb is in one ring, the one its fields name; the highest priority runs; equals take turns |
| inter-process communication (`Kernel.c`) | `msgq_arr[]` (owner, mails), `maillist`, the mails, `msgqptr` and `blocked_mailbox` of each pcb | `bind`, `unbind`, `send`, `recv`, `getid`, `return_mail` | no mail and no wake-up is lost, owner records agree, calls return |
| context switch (`SVCall`, `PendSV_Handler`, the switch in `k_send`) | PSP, r4-r11, `sp` of each pcb, the stacks | save, switch, restore | a process continues with its own stack and registers |
| UART output (`Buffer.c`, `Uart.c`) | `queue[UART_OUT]`, `UART_busy`, the data register | `enqueue`, `data_xmitting`, transmit interrupt | every character comes out, once, in order |
| UART input (`Uart.c`) | `esc_cmd`, `esc_cmd_count` | receive interrupt | escape sequences are left out, other characters reach `input_server` |
| servers (`main.c`) | their local variables, windows | `time_server`, `input_server`, `output_server`, `idle_proc` | requests are answered, in the window of who asked |
| clock (`Time.c`) | `decimal_time`, `decimal_date` and their texts | `update_time`, `update_date`, conversions | it is the calendar |
| windows and command line (`monitor.c`) | the window list, the shared cursor, the line buffer | `reg_windows`, `send_to_window`, `add_char`, `get_cmd` ... | output stays in its window, a command is what was typed |
| start-up (`main.c`, vector table) | -- | `reg_pcbs`, `reg_mails`, `reg_proc`, the first SVC | it leaves the initial states of the modules |

How they interact.  A process makes a kernel call: `send`, `recv`, `bind`,
`unbind` and `nice` first run *checks in the process*, then the SVC; the process
can be preempted in between for as long as the scheduler likes.  Handlers send to
the servers' message queues, which wakes a server up and switches to it at once,
also when the handler has interrupted `PendSV_Handler`.  Servers talk to each
other and to the processes by messages, and walk `blockq` from a process.
Everything that prints goes through `enqueue`, from processes, from kernel calls,
and against the transmit interrupt.

What is hard here: the instant at which a handler runs (between a check and its
SVC, inside `PendSV_Handler`, between two accesses of `enqueue`); head pointers
and fields from which the code *infers* where a node is; loops that end only if
the data is as expected; and turn-taking that depends on where wake-ups have left
the head of a ring.  `PROJECT.json` lists each of these hazards at its line, with
the properties that cover it or the reason why none does.

## 2. The hardware, as far as the models rely on it

* SVCall, SysTick and UART0 have exception priority 0 (`kernel_init` and the
  reset values): none preempts another.  A kernel call and a handler are atomic
  in module Kernel, except for the loop of `return_mail`, whose iterations are
  steps of their own since it may fail to end.
* PendSV has the lowest priority (`kernel_init`): it starts when no other
  handler is active and before any process executes.  SysTick and UART0 can
  preempt it, except between `disable()` and `enable()` in `next_process`.
* A message queue without owner gives `k_send` the NULL pcb.  Reading it reads the
  vector table; what it finds as `state` is not BLOCKED, so `k_send` stores.  A
  write to it (output_server's `request_input`) is a write to flash memory: it raises
  a fault, which ends in `FaultISR`, or has no effect.
* A handler and `k_send` leave r4-r11 alone on the way to the switch in `k_send` and back.
  In the build of the repository they do (`tiva_rtos/rtos/Debug`: `SysTickHandler`,
  `UART0_IntHandler` and `k_send` push `lr` only, `enq` and `deq` nothing).  The
  procedure call standard does not ask for it: code that pushed r4-r11 at its start would pop
  the old process's values over the new one's at its end, and the switch would break.
* A division by zero gives 0.  The build divides with `SDIV`, and nothing sets
  `DIV_0_TRP`, which would make it a fault (monitor.c:322 with no window).
* The UART runs without FIFOs: its data register holds one character, and a write
  while it is occupied is lost.

## 3. The modules

**Links** -- `enq` and `deq` of Queue.c on the record of all `next` and `prev`
fields (`EnqLinks`, `DeqLinks`) and on a head pointer (`DeqHead`).  They are total:
they say what the code does also when the head or the item is in another ring
than the caller believes, because that happens (see `NoStaleHead`).

**Rings, RingSpec, Queue** -- a ring as the sequence of its items from the head
on (`Enq`, `Deq`, `Following`); queues as such rings; and Queue.c as a state
machine on links, shown to implement RingSpec.  This is what allows Kernel to use
sequences for the rings of pcbs and message queues.  For the mails Kernel uses
Links, since the rings of mails are not always what their heads say.

**Scheduler** -- the abstract promise about the CPU: a process is ready, blocked
or ended; the CPU is at a ready one of the highest priority; it moves at the end
of a time slice, when the running process leaves, when a woken process is not
below the running one, and by `nice`.

**Kernel** -- the kernel proper.  One action for each kernel call, handler and
loop iteration:

| Action | Code |
|---|---|
| `SendCheck`, `Send` | `send` in the process up to the SVC; `k_send` from the SVC (`Resume`: the receiver is blocked on the queue; `Store`: a mail is queued, or there is none, -5) |
| `Recv` (`Block`, `Fetch`) | `recv`, `k_recv`; `Fetch` works on `mq`, a copy of the message queue, so `mailq` is not assigned |
| `Bind`, `Nice` | `bind`/`k_bind` (0 asks for any), `nice`/`k_nice` |
| `Unbind`, `return_mail`, `UnbindDone` | `unbind`/`k_unbind`, one iteration of `return_mail` |
| `Terminate`, `TerminateMsgq`, `return_mail`, `TerminateDone` | `k_terminate` and its loop over the message queues |
| `UartReceive`, `SysTick` | the handlers' `k_send`; SysTick also triggers PendSV |
| `PendSV`, `next_process` | the start of `PendSV_Handler`, and its part with interrupts disabled |

A process may make any kernel call at any time, with any arguments its own checks
let through (calls they refuse change nothing and are left out); so the models
cover the servers, the test processes and any other.  `recv`, `unbind`, `nice` and the `src`
of `send` are checked and executed in one step although the code can be preempted
between: `OwnChecksHold` shows that what they check cannot change meanwhile.  The
`dst` of `send` can, so `send` is two steps.

Left out of Kernel: what a message says, its size and its source (no guard of the
kernel reads them; modules Messages and Servers), `getid` (changes nothing), printing (UartTx), stacks
(ContextSwitch), and a pcb's `windowptr`.  After `terminate` the pcb is never
reused: `reg_proc` runs before the kernel starts only.

**ContextSwitch** -- PSP, r4-r11, saved `sp`s and stacks, in units of eight words,
each marked with its kind (hardware half, software half, own data) and with the
process whose values it holds.  Who gets the CPU is any ready process; what is
modelled is every path there: SVCall around k_recv, k_send, k_nice and
k_terminate, `PendSV_Handler`, and the switch of `k_send` in a handler that interrupts a
process or `PendSV_Handler`, with tail-chaining to PendSV.  `save_registers` and
`restore_registers` are one step where nothing can come between (SVCall, the handlers) and
an action of three in `PendSV_Handler`, one for each of `mrs`, `stmdb` or `ldmia`, and
`msr` (`PendSVSaves`, `PendSVRestores`); `r0` has the address between them, and keeps it while
a handler runs.  `mode` says which instruction is next.  When an exception return finds something that is no
frame, `mode` becomes "lost" and nothing is said of what follows.

**UartTx** -- the way of a character out: `enqueue` and `data_xmitting` one access
to shared data at a time, the transmit interrupt, and the UART's shift register.

**Mailboxes** -- the abstract promise about messages: each message queue is a FIFO,
a mail is free or in one queue.  `Kernel!MailsInOrder` reads the FIFO off the rings
(from `mailq` backwards to the oldest) and says that each step of the kernel is one of
Mailboxes, up to the first stale head.

**Messages, Letters** -- the bytes of a message.  Messages has `k_send` into the
array of a blocked receiver (`SendDirect`, with a NUL behind and the source) or into a
mail (`SendMail`), and `k_recv` from a mail (`RecvMail`: no NUL, and the number of
bytes as the result) or blocking (`RecvBlocks`: the result will be 0).  The array is
modelled with the byte behind it.  Letters is what the owner of a message queue sees:
letters with a sender, cut to the room there is, whoever came first.  The size tests
of `send` and `recv` never fire and are not guards: a size of 0 gets through, and so does one
below 0, which makes the loops copy nothing too and is represented by 0.  When a message is longer than
a mail the model stops (`spilt`): the copy then runs over the mail's own `src` and on
into the heap.

**Clock, Calendar** -- Clock is Time.c as time_server drives it: `update_time`,
`update_date` (with the day carried from one to the other) and both texts, digit by
digit.  Calendar is a count of days and of tenths of a second, one second per step.
The mapping reads the *texts* back into these counts with a reckoning of its own
(leap years before a year, days before a month).

**CommandLine, LineEditor, Console** -- CommandLine has the functions of monitor.c on
the input line: `add_char`, `remove_char`, `reset_str` on a buffer of `MAX_STR_SZ`
places, `strtok` (reading up to a NUL, in a full line also into what lies behind),
`my_atoi` (wrapping; leaving `num` uninitialised) and `get_cmd`.  LineEditor is
what a user expects: a line of characters, the words in it, escape sequences left out.
Console is the terminal: the receive half of `UART0_IntHandler`, `decode_cmd`, `update_cup`
(read and write apart), `send_to_window` step by step for output_server and at once
for the kernel's prints, the set-up of windows by `reg_proc`, which may fail, and
`seg_windows`, which is called with whatever number of windows there is, none included.

| Console | Code |
|---|---|
| `reg_proc`, `assign_window`, `main`, `seg_windows` | start-up: a pcb, a stack or a window may be missing, or all of them (`ProcessNumber` 0: `deltax` divides by `row_windows`, 0) |
| `UartReceive` | the escape filter and the message to input_server |
| `decode_cmd`, `InputStep` | one character of input, and then its cursor moves one access after the other |
| `send_to_window`, `Show`, `Advance`, `Restore` | output_server's print, one access to `cup`, the window or the terminal at a time |
| `KernelPrint` | "Nice" and "Terminate" of k_nice and k_terminate |

Abstracted: `cup`'s four digits and its two numbers are written in one step and a
cursor sequence or a text goes out in one step (what happens between its characters is
UartTx's matter); the echo of characters; upper and lower case; the word PROC is one
character; digits are 0 and 1; and nobody types a NUL (it would end the line for
`strtok` and not for `add_char`).  `ScreenOK` has what the program takes for granted of its
screen: two digits for a line and a column, an even number of columns, and a row for every
window (`MAX_WINDOWS`, 32 of at most 46 on 24 lines; more would give `seg_windows`
windows without a row, which overlap).

**Servers** -- the programs of main.c and one user's process (print, then ask
for the time, wait for input, or end) as program counters over Kernel: each step is one of
Kernel's, with the source and the kind of text of the message it carries (`mail`,
`got`), or leaves the kernel alone.  `Search` is one round of the loop of `decode_cmd`
over `blockq`, through whichever ring the pcb it looks at is in by then.
`FaultISR`: output_server has written through the pcb of an owner that is
gone.  `ServersOK` says that the processes and their message queues are distinct, as
they are in main.c and Uart.h; the user takes a number of its own.

**MC...** modules give small instances; ContextSwitch and UartTx are run as they are.
**RingTheorems** has the lemmas about rings and links, **QueueProofs, KernelProofs,
ContextSwitchProofs, UartTxProofs, MessagesProofs, ClockProofs, ConsoleProofs** the
proofs about the module each is named for; those about Servers are in KernelProofs too.  In every module an operator with a comment "Mutant of
X" is X with a plausible mistake; no specification uses it.  It documents that the runs
notice.

## 4. The runs

| Run (`.cfg`) | Instance | Checks |
|---|---|---|
| rings (`MCQueue`) | 2 queues, 5 items | `ImplementsRings`: Queue.c implements sequences; `LinksInverse`; `TypeOK` |
| kernel (`MCKernel`) | idle + 3 processes on 3 priorities, 2 message queues, 1 mail, all calls but unbind | `PlacedOnce`, `RunningIsHighest`, `CpuHasWork`, `NoLostWakeup`, `OwnChecksHold`, `ImplementsScheduler` |
| mails (`MCMails`) | idle + 2 processes, 2 message queues, 3 mails, all calls but nice | `OwnersAgree`, `MailsLinked`, `MailsConserved`, `CallInProgress`, `TypeOK`, `MailsInOrder` and `CallsReturn` |
| three_peers (`MCThreePeers`) | idle + 3 processes of one priority | `NextGetsToRun` |
| contexts (`MCContextSwitch`) | idle, two processes, one that waits for handlers | `LostOnlyInWindows`, `TypeOK` |
| uart_one (`MCUartOne`) | one printing process, 8 characters, queue of 4 | `NoneLost`, `OvertakenOnce`, `StuckOnlyInWindow`, `TypeOK` |
| messages (`MCMessages`) | mails of 3 bytes, 2 mails, messages of 0 to 4 bytes, an array of 2, of which recv is given 0 to 2 | `ImplementsLetters`, `WritesWithin`, `TypeOK` |
| clock (`MCClock`) | 4 seconds from the end of every minute of a day and of every day of ten years | `ImplementsCalendar`, `TypeOK` |
| console (`MCConsole`) | typing; typing with three printing processes; 0 to 8 windows | `ImplementsLine`, `LostOnlyWhenMixed`, `WindowsApart`, `TypeOK` |
| servers (`MCServers`) | the four processes of main and a user's, 2 mails, up to the first stale head | `SearchStays` |

All of these pass.  The following runs end in a counterexample, each of one
sentence found in the repository:

| Run | What happens |
|---|---|
| stale_head (`MCStaleHead`: `NoStaleHead`) | `k_recv` dequeues the last mail through the copy `mq` (Kernel.c:410, 429).  `msgq_arr[].mailq` still points to that mail, now in the free list.  Later receives serve free mails, and `return_mail` on such a queue may loop for ever. |
| uart_two (`MCUartTwo`: `NoneLost`) | Two processes inside `enqueue` both find the UART idle, or use the same slot. |

Where the code breaks a promise in one known way, the property of a passing run says so:

* `LostOnlyInWindows` (contexts): in `PendSV_Handler` a context is lost only if a handler
  switches to a server between the `mrs` of `save_registers` and `disable()`, or between
  `enable()` and the `msr` of `restore_registers`.  From `stmdb` to `ldmia` the half of r4-r11
  is on the stack already, or still, and the handler pushes a second one; and from
  an `mrs` to its `msr` the handler's interrupt keeps `r0`, which leads to the stack of the
  process that ran before, and `msr` makes this the PSP of the new one.  Elsewhere a
  switch by a handler is sound: before the first `mrs`, after the last `msr`, and in a
  process.
* `StuckOnlyInWindow` (uart_one): the character written at Uart.c:78 has gone out, and
  its interrupt has been served, before Uart.c:79 sets `UART_busy`; it stays set and
  nothing will ever clear it.  Output never stops in another way.
* `LostOnlyWhenMixed` (console): text goes astray only when somebody else prints between
  output_server's first and last access to `cup`.  `InPlace` says what is in its place;
  that the text is below the title is part of it only as long as every window has two
  rows (`Fit`), since a window of one row has its title where its text goes.
* `WindowsApart` (console) keeps one row for the input, the last.  The comment "save 4 rows at
  the bottom" (monitor.c:322) says more than the code does: the rows but one are divided
  among the windows, and only what the division leaves over is free besides.  With two windows
  the last row of both is 23 of 24.
* `SearchStays` (servers): the search over `blockq` leaves it when it begins with nobody
  blocked (a NULL pcb), or when the pcb it looks at is woken up.
* `NextGetsToRun` holds with three processes of the highest priority.  With four a
  process can be passed over, as the code reads (no run shows it): A wakes B, which
  becomes the head of the ring and runs; the next slice continues from there, and the
  rotation can return to A and B before it reaches the fourth, for ever.
* `ImplementsLetters` (messages): what recv *returns* is 0 after it has blocked,
  whatever was copied (Letters' `told`).

### Bounds, and why they are enough

* *rings*: five items allow a ring of three (a middle item differs from both
  ends) while another ring has two; a bigger ring has no new kind of neighbour.
* *kernel*: three processes above idle on priorities 2 and 3 give two equals, one
  between them and idle, and every way down of a walk; `nice` moves them over all
  priorities, so three equals, and sharing priority 1 with idle, occur too.  Two
  message queues, the two the handlers send to, can also be bound by any process.
  One mail is enough for "stored" and "pool empty".  `TICKS = 2`: after its first two
  ticks every second one sends.  `unbind` is left to the run mails; what it
  does to owners and mails does not depend on priorities.
* *mails*: three mails make rings of one, two and three and let stale heads lead
  into the free list and into another queue's ring; queues are bound, unbound
  and bound again.  `TICKS = 1`: every tick but the first sends.
* *contexts*: two peers, idle and one server; a process has at most one frame of its
  own (`OWN`), which is enough to see that PSP is not merely constant; stacks of
  five frames (`DEPTH`) hold it, a complete context and the surplus of one lost
  switch.  A handler that would push beyond is left out; this is only reachable
  after a context was lost.
* *UART*: eight characters through a queue of four go around its end twice, with
  full and empty queues.  The queue and the number of characters are finite, so the system
  really stops at the end (no deadlock check); likewise contexts, in "lost".
* *messages*: the array is shorter than a mail and the longest message is one longer
  than a mail, so copies end at either limit, mails can be full of bytes, and
  two mails make "oldest" and "none left" happen.
* *clock*: every carry happens at a start of `MCClock`; the years are ones with and
  without a leap day for each reason in `LEAP_YEAR`, with 3200, where the rule is
  the code's own, and 9999, which is followed by 0.  `MaxTicks = 4` goes past the carry.
* *console*: constants of the code are scaled down (a line of 6, a screen of 7 rows and 6
  columns, pids up to 15, 5-bit integers), so that full lines, overflowing
  numbers and the last row and column are reached.  Three kinds of scene: `Typing`
  has no bound on the number of keys; `Printing` has four keys and prints together, in
  any interleaving of their steps; `Starting` sets up 0 to 8 windows, of which 6 fit.
* *servers*: one user beside the four processes of main and two mails, so that the pool
  runs out.  `TICKS = 1`.  `Wanted` is the user: typing another pid does not find
  anybody who asked.  The state constraint HeadsApart ends the run at the first stale
  head, since the states beyond it are too many.  `SearchStays` is proved without it
  (`SearchLeavesInTwoWays`).  Nothing is claimed of what the servers receive: after a stale
  head an old mail can reach time_server, and one whose source `return_mail` has cleared looks
  like a tick to it.  The run may stop (a fault, a search that
  begins at NULL), so deadlock is not checked.
* Symmetry: processes that Init does not tell apart, and mails, in the kernel run,
  which checks no liveness; mails in servers; sources and characters in messages (NUL
  apart); the other runs use none.

### Fairness

`CallsReturn` and `NextGetsToRun` assume (Kernel!Fairness):

* strong fairness of SysTick: the timer goes on, and an exception that becomes
  pending during a kernel call is taken after it, before the next instruction of
  the process.  Weak fairness would not do: an endless sequence of kernel calls
  disables it again and again;
* weak fairness of PendSV and `next_process`: a pending PendSV is taken, and nothing
  but other handlers, which end, delays it;
* weak fairness of KernelStep: a kernel call executes its instructions.

Nothing is assumed of the processes or of the characters that come in.
`NextGetsToRun` has `[]<>HandlerDone` (kernel calls return) as its premise, and `CallsReturn`
has `[]NoStaleHead`, since with a stale head return_mail really diverges.

## 5. What is proved

Everything here holds for every value of the constants that the modules' named
assumptions allow.  For Kernel these are `ConstantsOK` (numbers are positive, NULL is
neither process nor mail), `RegQueueOK` (main registers every process once, idle at
priority 1) and `MailRingOK` (reg_mails links every mail once); for Queue `ItemsOK`
(finitely many items, NULL none of them); for Servers `ServersOK`; for Console `ScreenOK` and
`LineOK` (lengths and pids are numbers, an integer has a width).

| Module | Theorem | Property |
|---|---|---|
| QueueProofs | `TypeCorrect` | `TypeOK` |
| | `WalkedBothWays` | `LinksInverse` |
| | `QueuesImplemented` | `ImplementsRings`: Queue refines RingSpec |
| KernelProofs | `TypeCorrect` | `TypeOK` |
| | `RingsCorrect` | `PlacedOnce` |
| | `HighestRuns` | `RunningIsHighest` |
| | `WalkEnds` | `CpuHasWork` |
| | `WakeupsNotLost` | `NoLostWakeup` |
| | `OwnershipAgrees` | `OwnersAgree` |
| | `LoopsKeepHead` | `CallInProgress` |
| | `MailRingsWhole` | `MailsLinked` |
| | `NoMailLost` | `MailsConserved` |
| | `OwnChecksStayTrue` | `OwnChecksHold`, a property of steps |
| | `SchedulerImplemented` | `ImplementsScheduler`: Kernel refines Scheduler |
| | `MailsKeepOrder` | `MailsInOrder`: Kernel refines Mailboxes, up to the first stale head |
| | `ServersAreProcesses` | ServersSpec implies Kernel's Spec |
| | `ServersWoken`, `ServersScheduled` | `NoLostWakeup` and `ImplementsScheduler` of the servers on the kernel |
| | `SearchLeavesInTwoWays` | `SearchStays`, a property of steps |
| ContextSwitchProofs | `ContextsLostOnlyInWindows` | `LostOnlyInWindows`, a property of steps |
| | `ContextsKeptOutsideWindows` | `TypeOK` and `ContextsKept`, while no handler switches in one of the two windows |
| UartTxProofs | `TypeCorrect` | `TypeOK`, any writers |
| | `StopsOnlyInWindow` | `StuckOnlyInWindow`, any writers |
| | `OneWriterKeepsAll`, `OneWriterKeepsOrder` | `NoneLost` and `OvertakenOnce`, one writer |
| MessagesProofs | `MessagesTypeCorrect`, `OnlyMessageWritten`, `LettersImplemented` | `TypeOK`, `WritesWithin`, `ImplementsLetters` |
| ClockProofs | `ClockTypeCorrect`, `ClockImplementsCalendar` | `TypeOK`, `ImplementsCalendar` |
| ConsoleProofs | `ConsoleTyped`, `WindowsStayApart` | `TypeOK`, `WindowsApart` |
| | `LostOnlyMixed` | `LostOnlyWhenMixed`, a property of steps |
| | `LineImplemented` | `ImplementsLine`: the command line refines LineEditor |

Two kinds of theorem have a hypothesis besides the specification, since the code
does not do without:

* `ContextsKeptOutsideWindows` has `[][~HandlerSwitchesInWindow]_vars`; a handler that
  switches in a window loses a context, as `LostOnlyInWindows` says.
* `OneWriterKeepsAll` and `OneWriterKeepsOrder` have a single writer; the run uart_two
  has the counterexample with two.

### Rings and links (RingTheorems, QueueProofs)

`RingTheorems` has the lemmas about the data: members of `Enq` and `Deq`, `Following` as
a bijection, the extremes of a finite set of numbers; that `EnqLinks` and `DeqLinks` keep
the links of *all* items mutually inverse (`EnqLinksInverse`, `DeqLinksInverse`), which is
why stale heads never break a ring; and when links form a sequence (`Forms`), with
what enq and deq make of it.  What is reached along links would be an induction over
data.  Here it is a least counterexample among the numbers of steps, and a walk has a
closed form while the links form a sequence, so no induction theorem is needed.

The invariant of `QueueProofs` (`Inv`) adds to `LinksInverse` that each list's links form
the sequence met from its head, that no two lists share an item, and that an item in no list is
linked to itself.  A `deq` needs all three: its item's neighbours are of its own
list, and unlinking them leaves every other list's links as they were.

### The kernel (KernelProofs)

All rests on one inductive invariant, `IInv == SchedInv /\ IpcInv /\ RestType`.

* `SchedInv` is `PlacedOnce`, `RunningIsHighest`, `CpuHasWork` and the types they
  need.  None is inductive alone: that a walk down `pqueue` ends at a ready process
  needs idle in the ring of priority 1 (`CpuHasWork`, `PlacedOnce`); that what it
  finds is the highest needs that nobody was above the process that left
  (`RunningIsHighest`); that a `deq` removes the pcb from the ring it is in needs
  `PlacedOnce`.
* `IpcInv` is about the message queues.  `NoLostWakeup` needs that nobody else owns
  or fills the queue a process waits on; during `k_unbind` and `k_terminate`, when
  owner and list disagree, it needs `CallInProgress`: nobody owns the queue being
  emptied.  `MailsLinked` needs that `return_mail` dequeues the head it passes:
  `deq` of a one-item ring looks at the head only, so a different item would leave
  its links broken.  This too is `CallInProgress`.
* `RestType` has the types of what the other two do not depend on.

Each action has a lemma for `SchedInv` and one for `IpcInv`; `ProcessStepIInv`,
`KernelStepIInv` and `HandlersIInv` put them together, and `InductiveInvariant`
concludes.

For `SchedulerImplemented`, Init maps to Scheduler's Init (`InitRefines`) and every
step, from a state in the invariant, to a step of Scheduler or a stutter
(`StepRefines`), with one lemma for each way of moving the CPU: `BlockRefines`,
`TerminateRefines`, `ResumeRefines`, `NiceRefines`, `SliceRefines`.  That the process
the walk down `pqueue` picks is one that Scheduler may pick is `SchedInv` in the state
after the step.  `OwnChecksStayTrue` needs `OwnersAgree`: `k_terminate` gives up
the queues on the process's own list, and only because the list and `pcbptr` agree are
these nobody else's.

`NoMailLost` says more than that links stay whole: from every mail some head pointer
must be met.  Its invariant (`MailsCovered`) is put without steps: every set of mails that
`next` and `prev` do not leave holds a head.  Stale heads are allowed; a mail moved from a
ring to another then takes its covering along, whatever the heads say.

`MailsKeepOrder` needs no further invariant, but `HeadsApart` before and after the step: then
the rings of the heads are sequences without a common mail, and the lemmas on `Forms`
give what `Store`, `Fetch` and an iteration of `return_mail` do to them.

### The servers (KernelProofs, second part)

Each action of Servers is a step of Kernel or leaves its variables alone
(`ProgramStep`), so all of Kernel's theorems hold under the servers.

`SearchLeavesInTwoWays` needs only `PlacedOnce`, for the ring of the pcb that `ptr` is at, and
the types of the servers' variables (`Shape`): the search looks at a member of `blockq` and
takes `Following` of it, and the ring changes under it only by a wake-up or a block.

### The context switch (ContextSwitchProofs)

`ContextsKept` says, for every instruction of `PendSV_Handler` at which an interrupt can find
it, which part of which process's context is in the CPU, on its stack, or saved whole, and
where `r0` leads.  It is kept by every step that is not
a switch in a window (`NextKept`), given only `Shape`, which holds also after a context is
lost; that is `LostOnlyInWindows`.  For `TypeOK`, that no stack grows beyond its bound,
`SpInStack` is needed besides: every saved `sp` points into a stack.  That `r0` does follows
from `ContextsKept`.

### The UART (UartTxProofs)

That output stops in one way only needs types and `Begun`: a writer inside `enqueue` has
a character.  For one writer, `OneWriterInv` follows each character: it is at the
writer, in a used slot, in the data register, on the line, or dropped for want of a slot, and
in one of these only (`OnePlace`).  What makes it inductive is `Handshake` (register and
interrupt in turn, and neither while the UART is idle), `SlotKept` (what the writer read
of the queue stays true until it writes) and `LeftOver`: an idle UART leaves at most the
last character in the queue.  The order has two parts, that of the slots (`QueueOrdered`) and that
of what has left them (`InOrder`).  `QUEUE_SZ` may be any size.  A slot that was never
written holds NUL, which is what the queue has at the start.

### Messages and clock (MessagesProofs, ClockProofs)

In the first, `TypeOK` is inductive; the refinement needs `NoneWaits` besides (a process
blocked in recv has no mail queued), and goes by the four ways a message can go: direct,
into a mail, from a mail, and none there.  In the second the invariant (`IInv`) adds to
`TypeOK` that the date is one of update_date's own calendar, narrower than the
Gregorian one, and that char_time shows the time; the refinement splits a tick into
one within a day, into the next day of a month, into the next month and into the next
year, and shows that each date's text is the calendar's.

### The console (ConsoleProofs)

One invariant, `Inv`, holds for every size of the screen and of the line, every scene
and every interleaving (`InvHolds`), with a lemma for each action.

* Windows: none has been set up before the last is registered (`Registered`), and then
  each is its segment of the screen (`Segmented`).  `segment` divides twice, so that
  segments are apart is a matter of products of unknowns: `SegmentIs` names the band, the
  side and the height of a window, `ProductGrows` orders the bands, and `SegmentsApart`
  concludes.  `TypeOK` needs more than where windows are, because `row` runs
  ahead: a "Nice" from k_nice may step to the next row between output_server's test for the
  last row and its own step, and then the text is one row too low.  `InSegment`
  says that it is one row at most, and that output_server's next step begins inside.  One
  row below the last window is still above the input.
* Cursors: a cup that input_server writes was read before (`Ordered`), so it is on the
  screen; of output_server's list of accesses only nine endings occur (`OutputTodo`).
* The line is characters up to its length and NULs behind (`LineInv`), which is what
  makes `remove_char`'s reset and the `strtok` of a line that is not full end where they do.

`LostOnlyMixed` states `InPlace` anew by where output_server is (`PlacedAt`), and shows for
each action that it keeps it, save one that comes between while output_server is in
send_to_window (`otodo` not empty and unchanged).

`LineImplemented` maps the escape filter's statics to a number of keys to skip and the buffer
to its text.  The hard step is ENTER: `get_cmd` reads tokens off the buffer and whatever
lies behind it, LineEditor speaks of the words of the text.  Where a token ends is a
least number (`LeastIs`); a token that begins at a blank or at a character is the next word
(`WordBegins`, `WordEnds`, `NextToken`, `Tokens`); and the value of a word and `my_atoi`
go along the digits one by one, the latter wrapping (`AtoiIs`).  These inductions over
the line are put as least counterexamples (`HandedOn`), and so is that the recursive functions
of `my_atoi` and `Value` exist (`RecursionExists`).

### Model-checked only

* `CallsReturn` and `NextGetsToRun`: liveness under fairness, out of the prover's reach.
* The two counterexamples, `NoStaleHead` and `NoneLost` with two writers.

Every other property of the runs is a theorem.

## 6. Not modelled, and what is left

Left out, with the reason:

* register set-up (single writes: their effect is in section 2), the vendor's reset code
  and the table of vectors;
* `UART_IN` and `SYSTK_Q` of Buffer.c, `isFull`, `set_window`, `send_result`, `get_SP`,
  `set_MSP`: nobody uses them; `getid` changes nothing;
* what the servers make of an old mail, after a stale head;
* the test processes: main does not register them, and any process of Kernel may do what
  they do;
* what follows undefined behaviour: a message longer than a mail, an exception return to
  something that is no frame, a fault, a search that begins at NULL;
* a character that arrives between UART0_setup and the first SVC: whether the CPU takes
  interrupts by then is up to the boot code, which is not in the repository;
* texts wider than their window (the code never compares a column with `yh`), and a
  process without a window that prints.

`tiva_rtos/rtos/src/` is the same text as `src/`; what is said here of the one holds of the
other.

What could be added: a stale head followed through the servers, and the servers'
liveness (an answer to a request while mails last).
