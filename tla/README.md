# VSF kernel: TLA+ models, model checking and proofs

VSF (Versatile Software Framework) is an event driven operating system for
small devices, written in C. Everything above it, from tasks and threads to
file systems, USB and network stacks, runs as *event driven agents* (edas) whose
handlers the kernel in `src/source/kernel` dispatches. This directory holds
TLA+ models of that kernel and of the pipes of its linux shell, the TLC
configurations that check them, and TLAPS proofs of the invariants of its core
and of the refinement of the abstract event queue.

## 1. The system

| component | source | state | operations | what makes it hard |
|---|---|---|---|---|
| array event queue | `vsf_evtq_array.c` | a ring of nodes per priority, `head`, `tail`, `cur`; per eda `evt_cnt`, `is_limitted`, `is_to_exit` | post (four wrappers), poll, clean_evt, eda init and fini | producers preempt the consumer at any unprotected access; the counter decides about refusal and termination |
| list event queue | `vsf_evtq_list.c` | a list of ready edas per priority, a list of events per eda, `cur_priority`, `new_priority`, `is_ready`; a pool of nodes | the same, plus set_priority and update_priority | queues preempt each other, edas move between them, poll keeps pointers while interrupts are enabled |
| scheduler glue | `vsf_os.c` | software interrupts and their priorities | activate, set priority, interrupt handler, node pool | activation races with the end of poll |
| edas and the kernel task | `vsf_eda.c` | eda flags, frames, the kernel task's queue | start, dispatch, fini, post; timer, message and callback events of the kernel task | the kernel task carries an expired eda between two protected sections |
| sync object | `__eda/vsf_eda_sync.c` | count, maximum, pending list; per eda `is_sync_got`, `is_limitted`, `is_to_set_due` | increase, increase_isr, decrease, cancel, force_reset, get_reason | grant, timeout, cancel and reset cross; events are posted outside the section that decided them |
| timers | `__eda/vsf_eda_timer.c`, `vsf_timq_dlist.h` | the queue sorted by due, `is_timed`, `pre_tick`, `processing` | set timer, cancel, system timer interrupt, tick interrupt, callback timers | time passes and interrupts come between the read of the tick and the programming of the timer |
| callback timers | `__eda/vsf_eda_timer.c`, `vsf_eda.c`, `utilities/template/vsf_list.*` | two linked lists, one sorted by due, and the kernel task's own timer | add, add_isr, remove, callbacks | interrupts add and remove timers between the kernel task's sections; a node may be in either list or in none |
| message queue | `__eda/vsf_eda_queue.c`, `vsf_eda_slist_queue.c` | number of nodes, `readable_cnt`, `eda_tx`, `eda_rx` | send, receive, notify, cancel, calls from interrupts | two protected sections per call, notifications through the kernel task |
| bitmap event | `__eda/vsf_eda_bmpevt.c` | bits, pending list, `is_polling`, `is_to_repoll` | set, reset, pend, poll, cancel | a poll travels from pender to pender as an event, over a list that changes under it |
| mutex | `__eda/vsf_eda_sync.c` (`has_owner`) with `vsf_evtq_list.c` | owner, sorted pending list, `cur_priority`, `new_priority`, interrupt priorities | enter, leave, cancel, timeout | loans to owners that are being dispatched take effect later |
| simple stream, queue stream, pipes | `service/simple_stream`, `shell/sys/linux/kernel/fs/vsf_linux_fs.c` | buffer nodes, `ready` and `data_notified` of two terminals, event bits of two file descriptors | read, write, poll, close | three layers of "notified" flags, each with its own protection |
| tasks, threads, shell | `task/`, `shell/` | frames, saved contexts | start, call, wait | notation over edas |
| other services | `src/source/service`, `osa_service` | fifo, pool, heap, pbuf, older streams, distbus, json, loader, trace, message tree | | fifo and pool are shared between contexts; the others are sequential |
| components, shells, HAL | `src/source/component`, `shell`, `hal` | file system, USB, network, UI, POSIX interface, chip drivers | | I/O, hardware and external stacks |

Components talk in one way: a context (interrupt, task, kernel task) posts an
event to an eda, the queue of the eda's priority raises its software interrupt,
and the interrupt's handler, `vsf_evtq_poll`, calls the eda's handler. A task
that waits for a sync object or for a timer returns from its handler; the event
that wakes it is posted by the task that increases the object, by the canceller,
or by the kernel task when the timer is due. Shared state is protected by
`vsf_protect_int` (no interrupts) or `vsf_protect_sched` (no other task, no kernel
task, interrupts go on).

What makes each component correct:

* event queues: no event is lost, made up, overwritten or handled twice at once;
  an eda's events come in order; a refusal is harmless; an eda that exits is
  terminated when its last event is gone; ready edas are served; event nodes
  and interrupt priorities return to where they came from;
* sync object: counts are neither lost nor doubled, no count lies idle while a
  task waits, a wake-up belongs to the wait it was made for, timed waits end,
  the list is fair, a manual-reset event wakes everyone;
* timers: a timer leads to one event, a cancelled one to none, and every timer
  expires, whatever the system timer's interrupt interleaves with; a callback
  timer fires once, not early, not after its removal, and finally;
* message queue: the counters agree with the contents, a receiver does not wait
  for a node that is there, a notification ends exactly one wait;
* bitmap event: one poll at a time, every set leads to a poll that sees it, a
  task whose bits are set is woken;
* mutex: one owner, the most urgent waiter is next, the owner is as urgent as
  those who wait for it and no longer than that;
* pipes: a blocked end is woken when there is something for it, a write ends, the
  end of the file is seen, a closed end is left alone.

`PROJECT.json` lists the hazards behind these properties at the lines where they
bite.

## 2. Modules

One action of a module is one protected section of the code, or one unprotected
access to shared state. Events and messages are model values; events of an eda
are counted where their identity does not matter.

* **EventQueue**: the abstract promise of an event queue, a FIFO of events
  with one running handler, discards by the running agent, exit and
  termination. A discarded event leaves a place of `NoEda` behind, which is
  dropped when it comes to the head: the ring does the same, and so a discard
  changes one place and moves none.
* **EvtqArray**: `vsf_evtq_array.c` for one priority. Producers are interrupts
  (`Ctxs`) and the handler that is running (`Self`). `Post`, `PostRefused` and
  `PostFull` are the outcomes of `__vsf_evtq_post`, `Activate` is the trigger
  after its section. `vsf_evtq_poll` is `SwiEnter`, `PollPop`, `PollFetch`,
  `PollStart`, the handler's actions, `PollFinish`, `PollExit`, `PollTerminate`.
  `CleanBegin`, `CleanStep` and `CleanEnd` are `vsf_evtq_clean_evt`.
* **EvtqArrayRefines**: the refinement mapping from the ring to EventQueue.
* **EvtqList**: `vsf_evtq_list.c` for several priorities. `stack` holds the polls
  that preempt each other, `level` the priority of each software interrupt, which
  `__vsf_os_evtq_set_priority` raises. `Boost` and `Restore` are what a mutex does
  to the priority of its owner. In the inner loop of poll (`pc = "next"`)
  interrupts stay disabled from one eda to the next, hence `Unlocked`. An
  `evt_list` is its length. Edas are all started in `Init`; `Limited` names those
  that wait with a timeout. An eda that poll takes without an event, or from a
  list that it is not in, is a fault: `pc` says so and that queue does no more
  (`Halt`). `pulled` is history: the queues whose poll has enabled the interrupts
  while it remembers an eda, and has lost that eda to a higher queue, which is
  the one way to a fault (section 5).
* **VsfSync**: `__eda/vsf_eda_sync.c` together with what it needs of the queue (a
  limited and ready eda refuses an unforced post), of the timers (`is_timed`)
  and of the kernel task (`KernelTimer`, `KernelIncrease`). `op[c]` is the event a
  context is about to post outside its section. `holders`, `granted` and `made`
  are history variables. `EvtqList` (of `mode`) selects the build of
  `__vsf_eda_sync_set_timeout`; `KernelHighest` the priority of the kernel task.
  Tasks have one priority and the object no owner; `mode` says whether it is reset
  by hand. The owner is VsfMutex's.
* **KernelTimer**: `__eda/vsf_eda_timer.c` and the `VSF_EVT_TIMER` branch of
  `__vsf_kernel_evthandler`. `owner` is the context that is inside
  `vsf_protect_sched` between two of its steps; `Fire` and `Tick` are not held up by
  it. The variable `build`, which no step changes, chooses the build: `Tickless`,
  `EvtqList`, and what the system timer does, `SetRefusesPast` (a due that has
  passed is refused, as by the counters of `hal/arch/vsf_arch_abstraction.c`; with
  `FALSE` it fires at once, as the one shot of
  `hal/arch/generic/linux/linux_generic.c`). Interrupts that some counters
  raise at the end of each of their rounds are left out: they only wake the
  kernel task more often. In tick mode nothing is programmed. A task reads the
  tick in one step (`ReadTick`) and is inserted in a later one (`SetDue`), as
  `vsf_teda_set_timer_ex`, `vsf_thread.c` and `__vsf_eda_sync_set_timeout` do it:
  interrupts, the kernel task and other tasks come in between. `overlooked` is
  history: the last `__vsf_systimer_update` left out a due that had passed.
* **CallbackTimer**: `vsf_callback_timer_*` and the three events of the kernel task
  that serve them. `mem` holds the `next`, `prev`, `head` and `tail` pointers of
  both lists, and `AddToTail`, `RemoveHead`, `InsertBefore` and `RemoveNode` are
  the functions of `vsf_list.c` on them, so that unlinking a node from the wrong
  list does what it does in memory. The kernel task's own timer is abstracted to
  its due, `kdue`, which KernelTimer shows to be delivered. Tasks, interrupts and
  callbacks add and remove any timer at any time. `Add` is the unprotected test
  of `due`, `AddSection` the protected section after it (`adding` is what lies
  between), `Update` the change of the kernel task's timer. One task is in a
  call at a time; what may come between its steps are interrupts and the kernel
  task with its callbacks. `crossed` is history: a call has come to a timer
  while another one that the code does not see was under way. `CrossedAdd`,
  `CrossedRemove` and `CrossedIsrAdd` say when.
* **VsfQueue**: `__eda/vsf_eda_queue.c` in its default build with one waiting
  sender. `op[c]` is the section of a call that a context has still to
  execute; `prio` is chosen initially and says who may preempt whom. Nodes are
  counted. `tx` is the word that `eda_tx` shares with the pending list, in the four
  states it gets into (section 5). `missed`, `starved`, `late`, `crossed` and
  `stuck` are history: the orders of events in which the code loses something.
* **BmpEvt**: `__eda/vsf_eda_bmpevt.c` without adapters. `at[t]` is where a task is
  in `__vsf_eda_bmpevt_post_evt` or `vsf_eda_bmpevt_reset`; bits are sets.
  `passed` and `dropped` are history: penders the last poll has not reached, and
  whether the event of a poll met a task that did not wait any more.
* **VsfMutex**: the `has_owner` lines of `__eda/vsf_eda_sync.c` over the part of
  `vsf_evtq_list.c` that priorities depend on. `stack` and `level` are those of
  EvtqList; dispatch and its end are one step each here, EvtqList has their
  parts. `undercut` and `indebted` are history: waiters whose loan was replaced by
  a smaller one, and tasks that queued with a loan they had not given back.
* **LinuxPipe**: two threads, the queue stream between them
  (`__vsf_queue_stream_*`), the handshake of its terminals (`Notify...`,
  `Disconnect`), and `read`, `write`, `poll` and `close` with the event bits of the
  two file descriptors (`fd`). A node is its number of unread bytes. `high` names
  the thread of higher priority. The trigger a blocked thread waits for is
  latched, so that arming and waiting are one step.
* The `MC...` modules give the instances; **MCEvtqArray** also the symmetry.
* **ArrayAndCallbackProofs** (array queue and callback timers),
  **QueueAndPipeProofs** (message queue and pipe), **EvtqListProofs**,
  **VsfSyncProofs**, **VsfMutexProofs**, **KernelTimerProofs**, **BmpEvtProofs**:
  the theorems. Where two components share a proof module they share nothing but
  `ListLemmas`; the names in CallbackTimer (`CbInit`, `CbNext`, ...) and LinuxPipe
  (`PipeInit`, `PipeNext`, ...) are chosen so that both can be extended.
  **ListLemmas**: what
  `Append`, `Tail`, `RemoveAt` and `InsertAt` do to the members of a sequence, to
  their order and to sequences without repetitions.

Mutants (`Mut_...`) stand before the definition they replace; each breaks one
property and shows that the property depends on that part of the code.

### Assumptions about callers

Nobody posts to an eda after it was finalised or before it is started
(`MayReceive`); a handler waits for one thing at a time; an eda does not set a
second timer while it has one (the assertion in `__vsf_teda_timer_enqueue`).
A bitmap event's pender waits for its own fixed mask. A pipe has one reader and
one writer, with blocking calls; with different priorities its ends are not closed
in the runs (`ClosePrios`, section 5).

## 3. Runs

| run | instance | checks |
|---|---|---|
| `evtq_array` | 2 edas, 1 interrupt, ring of 4, counter modulo 8 | `CountExact`, `NoLostWakeup`, `ExitIsExact` (`NoDanglingEda`, `ExitIsFinished`), `PoppedNodeStable`, `RefusedOnlyWhilePending`, `Served` |
| `evtq_array_refine` | the same, with kills and cleans, symmetric edas | `ImplementsEventQueue` |
| `evtq_list` | 2 queues, 2 edas in the lower and 1 in the higher one, 1 interrupt, 2 nodes; one of the two is lent a priority, killed, limited and cleans its events | `ListsAreSound` (`NextIsListed`, `ReadyIsListed`), `NodesConserved`, `NoLostWakeup`, `LoanIsSound` (`RaiseIsTemporary`, `NotReentered`), `ReadyIsServed` |
| `sync` | 3 tasks, timed and endless waits, a task that cancels, resets and waits for ever, an increase from an interrupt; a semaphore of count 1 with the list queue, a manual-reset event with the array queue | `NoIdleCount`, `CountsConserved`, `NoStaleWakeup`, `WakeupsAreExact` (`LatchIsOneWakeup`, `WaiterIsAccounted`), `EventReachesAll` |
| `sync_live` | 3 tasks, one with timed waits, one that cancels, tries and endless waits, list queue | `TimedWaitEnds`, `WaiterIsServed` |
| `timer` | 2 edas, 4 ticks, delays 1 and 2, another event for the kernel task; tick mode, and tickless mode with a one shot that refuses the past or fires at once; both queues | `TimqIsSound` (`TimqSorted`, `OneTimerOneEvent`), `KernelIsTold` (`HeadIsArmed`, `TicksDeduped`), `TimerExpires` |
| `queue` | a queue of 2, the kernel task above four tasks, with the receiver below the other tasks or above them; one message of interrupts under way on each side | `QueueIsSound` (`ReadableIsAccounted`), `ReceiverIsWoken` (`RecvPendsWhileEmpty`, `ReceiverIsReachable`), `WaitEndsOnce` (`SyncEndsOneWait`, `RxIsFree`) |
| `cbtimer` | 3 timers, two of which interrupts add, too, 3 ticks, delays 1 and 2, room for one message | `TimersAreKept` (`ListsAreSound`, `WantedIsListed`, `DueIsWanted`, `HeadIsCovered`), `FiresWhenWanted`, `TimerFires` |
| `bmpevt` | 3 penders (or, and, or) of 2 bits, one reset automatically, two with timed waits, two with endless ones, a cancel; one priority, or one task above the others | `PollIsSound` (`OnePoll`, `ListedIsWaiting`), `OverlookedWasPassed` |
| `bmpevt_wake` | the same, endless waits, no cancel | violation of `SatisfiedIsWoken` |
| `mutex` | 4 tasks of 4 priorities, the lowest takes the mutex only when it is free, one waits with a timeout and cancels, two wait for ever | `MutexIsSound` (`OwnerIsInside`, `SyncUnderWay`), `OwnerInherits`, `LoanEnds` (`LoanIsReturned`, `RaiseEnds`), `MostUrgentFirst`, `NoInversion` |
| `pipe` | capacity 2, writes of 1 and 5 bytes, reads of 1 and 2, one failing allocation; equal priorities with closes, either thread above the other without | `BlockedIsWoken` (`ReaderIsWoken`, `WriterIsWoken`, `EofIsSeen`, `ClosedIsNotCalled`), `WriteReturns`, `ReadReturnsAfterClose` |

In brackets: the named parts of a property that is their conjunction. Each
module's type invariant (`TypeOK`, `CbTypeOK`, `PipeTypeOK`) is checked as well, by
itself or as a part of the
first property of its run. `bmpevt_wake`
ends in a violation: a pender is taken from the list before the poll is posted on
through its node, so that penders behind it are not woken although their bits are
set, which is not what `vsf_eda.h:3968` promises. `OverlookedWasPassed` of run
`bmpevt` states how far the promise holds: only a task that the last poll did not
reach, or that refused its event, is overlooked.

### Bounds

* Ring of 4 (three events): it becomes full and wraps with two edas, and the
  consumer can be one node behind. The counter is taken modulo 8 instead of 256:
  what matters is that it is larger than the ring, which is the assumption
  `CntAssumption` of the proofs. `CleanBound` stops cleans by an eda whose counter
  has been raised twice by earlier cleans (see 5); without it the counter leaks
  until it wraps.
* Two queues are enough for a preemption, a lent priority and a move; with two
  edas in the lower one poll has an eda to remember that a higher queue may move
  or finalise, and the run reaches the fault of section 5. Two nodes let an eda
  have an event queued while another is being posted, and the pool run empty.
* Three tasks give a holder, a waiter at the head and one behind it. `MaxMsgs`
  bounds increases under way, not their number. An increase from an interrupt
  while a task holds the only count makes the task's own increase overrun. The
  task that cancels waits for ever only; with timed waits for it, too, the
  properties of run `sync` hold as well, over 3 million states. In
  `sync_live` only one task uses timed waits: liveness of the whole instance
  takes too long, and the timer of one task is what can lose against grants and
  cancels of the others.
* Four ticks with delays of one and two let a due be read, pass, be handled and
  be asked for again while another timer is queued behind. In tickless mode time
  ends at `MaxTick`, so deadlock is not checked there; timers are only set if
  they are due within the bound.
* Three callback timers are the smallest number at which a timer has two
  neighbours in a list while a third moves to the other; in three ticks a timer
  can fire and be added again behind another one. `Rest` is the end of time, and
  of what is followed after two calls have crossed: from then on the lists may
  be damaged, and nothing is claimed. Interrupts add two of the three timers
  (`IsrTimers`) and remove all of them.
* A queue of two is neither full nor empty when one side has moved once. One
  message per kind lets a second interrupt find the kernel task's queue full.
  `CancelTx` stops once two ends of the receiver's wait have crossed (`crossed`,
  `late`). The run is not followed further where the receiver then begins a wait
  with wake-ups of an earlier one in its queue (`NoLeftOverWakeups`); without this
  constraint, of the run only, the properties hold as well, over 2.4 million
  states, and the theorems know no such bound. With the receiver below the other tasks every context can come between
  its sections; with the receiver above them it comes between theirs. The kernel
  task is the highest, which is the default. The sender's waits are timed
  ones: it cannot be woken (section 5), and only a cancel ends an endless wait of
  it. Senders and receivers may all be waiting, hence no deadlock check.
* Three penders are a head, one in the middle and one behind it; bits are
  cancelled once. With both kinds of waits for all three the properties of run
  `bmpevt` hold as well, over 1.9 million states. All tasks may wait for bits
  nobody sets, hence no deadlock check.
* Four tasks of four priorities give an owner and three waiters, one of which may
  have to queue between the others; loans come in any order, are replaced by
  smaller ones and are lent on (`undercut`, `indebted`). The properties hold with
  three tasks and every kind of wait for each of them, too.
* A write of 5 bytes needs three rounds through a pipe of 2. Capacity 3 with
  sizes 1, 2 and 4 holds as well. Both ends may be closed, hence no deadlock
  check. `MaxFails` bounds the allocations that fail: if all did, no write ended.

### Fairness

* `EvtqArray`, `EvtqList`: a pending software interrupt is taken and poll goes on
  (hardware); a preempted producer reaches its trigger, a handler that posts
  reaches the end of the post; handlers return, which the kernel's
  run-to-completion contract demands. `SF` is used where the step's guard is
  interrupted by others (an interrupt that is disabled from time to time, a
  handler that posts). In `EvtqList` nothing is assumed about posts of interrupts.
* `VsfSync`: ready contexts run and running timers become due. Nothing is
  assumed about who asks for a count, nor that a holder gives it back:
  `WaiterIsServed` speaks about executions in which counts are handed over again
  and again.
* `KernelTimer`: time goes on, interrupts are taken, the kernel task runs, a task
  finishes its call. `SF(~KernelPending /\ Tick)` says that other events leave the
  kernel task idle at some tick; the comment of `vsf_systimer_on_tick` relies on
  it: "worst case is a bounded delay (busy period + 1 tick)".
* `CallbackTimer`: time goes on, the kernel task and an interrupted call go on.
  Callbacks return (`KernelStep` includes their return).
* `LinuxPipe`: a thread that is not blocked goes on, and the reader comes back
  to read (`SF`), without which no full pipe is ever drained. Nothing is assumed
  about the writer, about `poll` and about closes.
* `VsfQueue`, `BmpEvt` and `VsfMutex` have safety properties only: in the first
  two, known losses (section 5) defeat liveness as such, and `ReceiverIsReachable`
  and `OverlookedWasPassed` say instead from which states a wake-up still comes.

## 4. Proofs

The theorems hold for every value of the constants that satisfies the named
assumptions of the modules: any ring size above 1, any number of edas,
producers, tasks, priorities and event nodes, any capacity, maximum and set of
delays. Where a theorem needs more, it says so as its `ASSUME`, and that is
repeated here. Each rests on an inductive invariant, stated in the proof module
before its proof; `Init` implies it and every action keeps it.

*Array event queue* (ArrayAndCallbackProofs)

* `TypeCorrect`; `NeverForgotten`: `head # tail` implies a poll, a pending
  interrupt or a producer before its trigger. The steps that matter are the end
  of poll, which sees `head = tail`, and the trigger, which hands the obligation
  over to the interrupt.
* `TakenNodeStable`: needs that the node taken is the one before `head`
  (`slot` and `Inc(slot) = head`), so that a full ring ends exactly there:
  `__vsf_evtq_post` gives up when `Inc(tail) = head`.
* `CountCorrect`: the counter equals the cardinality of the set of ring indices
  of the eda plus the event in poll's hands. The steps add `tail` to, or remove
  `head` from, that set, and the bound `Size < CntMod` keeps the counter from
  wrapping. `RefusalCorrect` follows: a counter that is not zero means that the
  set is not empty or poll holds an event. Both assume `CleanEvts = {}`: with cleans
  they are false (section 5).
* `ExitCorrect`: an eda that asked to exit still has an event in the ring or in
  poll's hands, so somebody will look at its counter again; and poll's last look
  (`pc = "exit"`) is at an eda that is still there. Assumes `CleanEvts = {}` and
  `Killers = {}`: an eda killed from outside is not terminated by poll.
* `RingImplementsQueue`: the refinement. The initial states map to initial
  states, and every step to a step of EventQueue or to a stutter. It needs of the
  counter that it is never below the number of events, or an eda would be
  terminated with events left; cleans make it too large (`CoverInv`). It assumes
  `CleanIsBounded`: what cleans add (`CleanBound`) and the ring together do not
  reach `CntMod`. The walk of a clean is described by distances from `head`, so
  that a producer that appends does not move it.

*List event queues* (EvtqListProofs): one inductive invariant, `IInv`.

* `ListsCorrect`: every ready eda is in one list, once, that of its priority
  (`ListInv`). A ready eda without an event is being dispatched by the queue of its
  priority (`CurInv`), which dispatches nothing when it goes on with the eda it
  remembers: that one has an event. Posts append and the end of a dispatch moves
  the eda that was dispatched, so that the one remembered stays listed; what takes
  it out from above is recorded in `pulled`.
* `WakeupKept`: a list that is not empty has its queue active or pending
  (`WakeInv`). It needs `CurInv`: an eda that is moved without an event, which does
  not activate the queue it comes to, would break it, and there is none.
* `LoanCorrect`: a priority not yet taken up belongs to an eda that is being
  dispatched, and the interrupt of a queue is raised for such an eda only
  (`LoanInv`). That a queue dispatches edas of its own priority (`CurInv`) makes
  two dispatches of one eda impossible; for that, no queue below the one that
  finalises an eda may be dispatching it (`StackInv`).
* `NoNodeIsLost`: the nodes in the event lists are the pairs of an eda and a place in
  its list (`QueuedNodes`), finitely many (`NodesInv`). A post moves one from a
  producer to a list, poll and a clean take one out, and a termination returns a
  whole list; what is left is free, with a producer (`AllocatedNodes`) or with a poll
  (`TakenNodes`). It assumes finitely many interrupts and edas.

*Sync object* (VsfSyncProofs)

* `SyncTypeCorrect`; `CountIsHandedOver`: without manual reset, a non-empty list
  implies `cur = 0`. Increase adds a count and hands it over in the same section;
  decrease appends only when nothing is free; cancel and timeouts only shorten
  the list.
* `WakeupsCorrect`: per task, either it is in the list and nothing is under way, or
  exactly one SYNC or CANCEL is, in the hands of one context, in the task's queue
  or in its handler (`WakeInv`).
* `CountsAddUp`: on top of that, the tasks that were granted a count are those a
  SYNC is under way to, and holders do not wait (`HoldInv`).
* `EventWakesAll`: a set event with a list has a context in the loop.
* `NothingIsLeft`: a timer event is queued only while its wait lasts, as the first
  event, and the reason handler has taken the timer back before the wait ends
  (`TimerInv`). Assumes `KernelHighest`, the default; without it the property is
  false (section 5).

*Mutex* (VsfMutexProofs): a chain of invariants, each proved with those before it.

* `LoansEnd`: only the owner is above its own priority once its handler has
  returned, and a queue is raised only for a task that has a priority to take up
  (`PrioInv`).
* `MutexCorrect`: who waits is in the list or was taken out of it (`PendInv`), and
  one notice is under way to exactly those that were taken out, a SYNC to the
  owner and a CANCEL to the others (`NoticeInv`, `ToldInv`).
* `UrgentFirst`: the list is sorted by base priority but for tasks that queued with
  a loan to give back (`OrderInv`).
* `OwnerIsUrgent`, `NoInversionHolds`: what a waiter lent is in `cur_priority`,
  `new_priority` or the raised interrupt of the owner (`InheritInv`), and the queues
  on the stack have rising priorities (`StackInv`).

*Message queue* (QueueAndPipeProofs)

* `QueueCorrect`: the counters, inductive as they stand.
* `ReceiverWoken`, `WaitOnce`: for every assignment of priorities. A receiver that is
  registered, or is about to register, has nothing to read or is about to be told,
  unless it was told in between (`ReadInv`); while a wait lasts at most one SYNC is
  under way, in a context or in the receiver's queue, and `is_sync_got` says so
  (`OneSync`, `Synced`), a CANCEL belongs to a wait that still lasts (`OneCancel`), and
  only a receiver that waits is registered (`Registered`). Nothing is assumed of
  callers: the orders of steps that break this are the history variables in the
  properties, and the proof shows that there are no others.

*Pipe* (QueueAndPipeProofs)

* `PipeThreadsAreWoken`: `BlockedIsWoken` with its four parts, for every capacity,
  all sizes of calls and any number of failing allocations. The invariant,
  `PipeInv`, joins the three layers of flags.
  `size` is the sum of the nodes (`HoldsBytes`, a sequence of suffix sums, so that no
  induction is needed). `data_notified` of an end implies that its `POLLIN` or
  `POLLOUT` is set, or that the other thread is about to set it (`WriterTold`,
  `ReaderTold`); this is what makes it safe to leave a notification out. A reader or
  writer clears its bit after it has cleared `data_notified`, so that the clearing
  must not fall on a notification that came between: a reader of higher
  priority that came in then has left space, a writer of higher priority has left
  data or is `Retrying` after a failed allocation, and equal threads do not come in
  at all (`BusyInv`, `WriteCallInv`, `ReadCallInv`). A thread waits only while its bit
  is not set (`WriterBits`, `ReaderBits`). Assumes `ClosePrios \subseteq {"none"}`: with
  closes between threads of different priorities it is false (section 5).

*Bitmap event* (BmpEvtProofs)

* `PollStaysSound`: the event of a poll is in one queue, once, or in the hands of one
  task, and nowhere once it was dropped; `is_to_repoll` is set only while there is a
  poll (`PollInv`). A task in a call that returns to its wait is in the list, one
  that leaves the list with a poll in its hands still is until `remove` (`AtInv`).
* `NoneIsOverlooked`: a listed task whose bits are there, and that the poll has not
  passed, is still ahead of the poll (`Reaches`: at or behind the node it comes to), or
  a poll is about to start, or is to start again (`CoverInv`). The walk uses
  `node->next` of nodes that may have left the list meanwhile; that the order of
  those who stay is kept (`RemovedOrder`) is what carries the argument. Nothing is
  claimed once a poll was dropped: `is_polling` stays set then, and it is never quiet.

*Timers* (KernelTimerProofs)

* `TimqCorrect`: the timer queue is sorted, holds the edas with `is_timed`, and a
  timer is there, with the kernel task or in its eda's queue (`TimerInv`).
* `KernelTold`: in tick mode at most one tick is queued and the comparison with
  the head is made at each. In tickless mode a due that lies in the future and was
  programmed is still programmed and is not later than the head, which is why
  `__vsf_systimer_update` may leave it out (`TicklessInv`); whoever is between
  insertion and update holds `vsf_protect_sched` (`LockInv`). A due that was read
  from the tick long ago breaks none of this: it has passed, and is programmed,
  refused or, if it is `pre_tick`, left out. The last case is `overlooked`, which the
  property names; there is no assumption about callers or builds.

*Callback timers* (ArrayAndCallbackProofs)

* `CallbackTimerInvariant`, `CallbackTimersAreKept`: the pointers of the heap, `next`,
  `prev`, `head` and `tail`, are tied to two sequences of nodes (`Holds` in `CbInv`): they
  link exactly these, in both directions, without repetition, the two are disjoint,
  and `timq` is sorted by due. Each function of `vsf_list.c` is shown to do on the
  pointers what it means on the sequence: `AddToTail` appends, `RemoveHead` takes
  the first, `InsertBefore` puts a node before the first later one (found by the walk:
  the least number lemma), `RemoveNode` takes out a node wherever it stands. Who is
  wanted is in one of the lists, in a message to the kernel task or in
  its hands (`Places`), and the first due is covered by the kernel task's own timer or
  by a message on its way (`HeadInv`, `HandInv`, `SentOnce`).
* `CallbackFiresWhenWanted`: the action property, from the same invariant.

  Both are for all uses: every timer may be added and removed at any time, by
  tasks, interrupts and callbacks. They hold until a call crosses another one
  that the code does not see (`crossed`); the proof shows that the three orders that
  `crossed` names are the only ones.

*Model-checked only*:

* liveness (`Served`, `ReadyIsServed`, `WaiterIsServed`, `TimedWaitEnds`,
  `TimerExpires`, `TimerFires`, `WriteReturns`, `ReadReturnsAfterClose`): the prover
  does not do fairness. The safety properties of the runs are all proved;
* what a definition by recursion computes: the library's induction theorems cannot
  be used with these provers. The proofs that would need it use well-founded
  minima (the first node a walk stops at) or suffix sums instead;
* `SatisfiedIsWoken` of BmpEvt is false (section 3); `NoneIsOverlooked` is what remains.

## 5. Observations

Behaviours of the code that the models reach and that contradict a comment, or
that callers have to avoid. Only the first has a run; for the others the setting
is given with which TLC finds the trace in the module named.

* *Bitmap event*, run `bmpevt_wake`: see section 3. Two more losses are built into
  `BmpEvt`: a pender that leaves with the event of a poll in its queue ends that
  poll and leaves `is_polling` set (`dropped` in `OnePoll`), and any cancel ends any
  wait (`CancelEvent`).
* *Array queue*, `CleanEvts = {v1}` in `MCEvtqArray.cfg`: `vsf_evtq_clean_evt` empties
  nodes but leaves `evt_cnt` (`vsf_evtq_array.c:204`). A limited eda without events then
  refuses posts, `RefusedOnlyWhilePending` is violated, and an exiting eda is never
  terminated. `vsf_evtq.h:130`: "VSF_ERR_FAIL if the eda is limited and already has a
  pending event".
* *List queue*, invariant `DispatchesPending` of EvtqList, with the instance of run
  `evtq_list`: `vsf_evtq_poll` keeps `node_eda` (`vsf_evtq_list.c:356`) while
  interrupts are enabled (`:383`, `:389`). If a higher queue finalises that eda
  meanwhile, or lends it a priority and so moves it, poll goes on with an eda that
  is not in its list and may have no event: it uses a NULL node, or dispatches
  the eda in the wrong queue. It takes an eda that shares its queue with another
  one. `NextIsListed` says, and `ListsCorrect` proves, that there is no other way.
* *List queue*, property `TerminatesOnce`, the same instance: an eda that is lent a
  priority during its dispatch and then finalises itself, with an event left, is
  moved to the higher queue (`vsf_evtq_list.c:379`) before `vsf_evtq_on_eda_fini`
  (`:384`). The higher queue preempts between the two (`:383`), takes the event and
  terminates the eda; then its own poll does so again, on memory that
  `on_terminate` may have given back.
* *Timed waits with the array queue*, `Semaphore` with `EvtqList |-> FALSE` in
  `MCVsfSyncLive.cfg`: a timer that expires before the waiting handler returns is
  refused and `TimedWaitEnds` is violated. The comment at `vsf_eda_sync.c:53`
  describes the loss; only the list queue avoids it.
* *Kernel task below the tasks*, `KernelHighest = FALSE` in `MCVsfSync.cfg`: it may be
  preempted between taking an expired eda from the timer queue and posting its
  event, and the event reaches a later wait; `NoStaleWakeup` is violated.
* *Tickless timers*, the consequent of `HeadIsArmed`, or `TimerExpires`, without
  `overlooked`, with the instance of run `timer`: `__vsf_systimer_update` does not
  program a due that equals `pre_tick` (`vsf_eda_timer.c:111`), although the one shot
  for it may have fired. The tick is read before the section that inserts
  (`vsf_eda_timer.c:408`, `vsf_eda_sync.c:58`, `vsf_thread.c:772`): two tasks compute the
  same due, one of them is overtaken until it has passed and served the other,
  and the timer of the first is then at the head with nothing programmed. No
  timer expires until an update with another due. The properties say, and
  `KernelTold` proves, that there is no other way.
* *Callback timers*, invariants `ListsAreSound` and `WantedIsListed` by themselves, with
  the instance of run `cbtimer`: removing a timer that has expired and waits
  in the done queue, or whose ADD message is under way, unlinks it from a list it
  is not in (`CrossedRemove`; `vsf_eda_timer.c:343` only looks at `due`). The other list
  is damaged, or the only timer of the queue is lost with the one that was removed.
  A timer that an interrupt adds between the test of `due`
  (`vsf_eda_timer.c:303`) and the section after it is in the queue twice
  (`CrossedAdd`). An add from an interrupt that finds no room leaves `due` set
  (`failed`), and the kernel task, which has cleared the `due` of that timer to add it
  again, then drops it (`CrossedIsrAdd`). `vsf_eda.h:3327` and `3386` describe the
  calls without such restrictions.
* *Message queue*, invariant `SendPendsWhileFull`: `eda_tx` and the head of the
  pending list are one word (`vsf_eda.h:1838`), so the notification of a sender that
  waits goes to the address of its list node and the sender is not woken
  (`vsf_eda.h:2186`). For the receiver, the properties without their exceptions, with
  the instance of run `queue`: a notification that falls between the two
  sections of a receive (`vsf_eda_queue.c:227`) finds nobody, and the receiver then
  waits although a node is there, against "recv pends while empty" of
  `vsf_eda.h:2186` (`missed` in `RecvPendsWhileEmpty`). The kernel task is above all by
  default, so a send from an interrupt is enough. A receiver whose node is
  taken by a `recv` without timeout is left unregistered (`vsf_eda_queue.c:275`, `starved`
  in `ReceiverIsReachable`). A notification between the decision about the
  timeout and the end of the registration (`vsf_eda_queue.c:277`) leaves a SYNC for the
  next wait (`late`), and a cancel that crosses another end of the wait leaves a
  CANCEL, or clears the registration of the next wait (`crossed` in `WaitEndsOnce`).
* *Mutex*, invariant `SupportsInheritance`: a loan to an owner that is being
  dispatched is noted in `new_priority`, the next waiter compares with
  `cur_priority` (`vsf_eda_sync.c:317`) and replaces it by a smaller one
  (`vsf_evtq_list.c:89`). A task that has left and not taken back its own priority
  yet queues again with the lent one, and lends it on (`undercut` and `indebted`).
  `OwnerInherits` excludes exactly these. `vsf_eda.h:198` speaks of priority
  inheritance without exception. The list itself goes out of order in the same
  way, when two tasks queue that both owe a loan: `MostUrgentFirst` leaves out
  `indebted` tasks.
* *Pipes*, property `WriteEndsWithoutReader`: the reader is only looked for when a
  write begins (`vsf_linux_fs.c:3243`); a write that is blocked when the reading end
  goes does not end, although the comment at line 3240 says it fails with EPIPE.
  `ClosePrios = {"rx"}` or `{"tx"}`: with threads of different priorities, `EofIsSeen` and
  `ClosedIsNotCalled` are violated, because `__vsf_stream_disconnect_terminal` tells
  the other end before it clears `ready`, and `__vsf_stream_on_write` calls a
  handler that it has tested earlier.

## 6. Plan

What a continuation of this project would take up, in this order:

1. *Sub calls and frames* of `vsf_eda.c`, the adapters of the bitmap event.
2. *Signals* of the linux shell around the trigger of a blocked thread.

## 7. Not modelled

`PROJECT.json` lists every component. The models cover the kernel, the event
driven core everything else runs on, and one path through services and shell
(pipes). The rest of the repository, by far the larger part of its lines, is chip
drivers, firmware images, vendor headers, protocol stacks and examples, whose
behaviour is I/O on hardware or data, and which has no state that these
techniques reach. Inside what is modelled, left out are: sub calls and their frames
(`vsf_eda.c:647`); the adapters of the bitmap event;
message queues for several senders, which do not compile (`vsf_eda_queue.c:203`
uses a member that `vsf_sync_t` does not have); non-blocking calls, signals and
terminals around pipes; nested mutexes. Left out for good: tracing and CPU usage,
stack switching of threads, parsers and binary formats, chip drivers and the
stacks above them, whose behaviour is I/O. The single-slot build of the kernel
(no preemption) has no queue. `is_evt_incoming`, the optimisation that drops
a yield event, is switched off in the modelled build.
