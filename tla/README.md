# Verification of Sound Open Firmware's scheduling, data flow and messaging

Sound Open Firmware runs audio on a DSP with several cores whose caches are not
coherent. A host sends commands (IPC); the firmware builds pipelines of
components and runs them in *low-latency* (LL) cycles of one millisecond on each
core, with heavier *data processing* (DP) modules in preemptible threads. This
directory holds TLA+ models of the parts where threads, interrupts and cores
meet, the TLC runs that check them on small instances, and TLAPS proofs of what
should hold for every instance. All of it follows the Zephyr build with the IPC4
protocol. Paths below are relative to `src/src/` unless they begin with `src/`.

## The system and its parts

| Part | Code | Module |
|---|---|---|
| Lockless queue between LL and DP modules, sink and source wrappers | `audio/dp_queue.c`, `module/audio/{sink,source}_api.c` | `DpQueue`, abstractly `ByteFifo` |
| LL scheduler of a core | `schedule/zephyr_ll.c` | `ZephyrLL` |
| DP scheduler of a core | `schedule/zephyr_dp_schedule.c` | `ZephyrDP` |
| Timer domain shared by the LL schedulers, and the block around a bind | `schedule/zephyr_domain.c`, `ll_schedule_domain.h`, `ipc/ipc4/helper.c` | `ZephyrDomain` |
| Pipelines, and the IPC4 command that changes their state | `audio/pipeline/*.c`, `ipc/ipc4/handler.c`, `audio/component.c`, `idc/idc.c` | `Pipeline` |
| A DP module in its surroundings: component buffers, audio streams, shadow queues, copies, module adapter | `audio/buffer.c`, `audio_stream.h`, `audio/sink_source_utils.c`, `audio/module_adapter/` | `DpStream` |
| Key phrase buffer | `audio/kpb.c`, `src/zephyr/edf_schedule.c` | `Kpb` |
| IPC transport, notification queue, core power and D3 entry | `ipc/ipc-common.c`, `ipc/ipc-zephyr.c`, `ipc/ipc4/handler.c`, `src/zephyr/lib/cpu.c` | `Ipc` |
| Messages between cores | `idc/zephyr_idc.c`, `idc/idc.c` | `Ipc` |
| Creation, binding and deletion of modules and pipelines | `ipc/ipc4/handler.c`, `helper.c` | not modelled, but for the block around a bind |
| Chain DMA, mixin/mixout, notifier, heap, probes | `audio/chain_dma.c`, `audio/mixin_mixout`, `lib/`, `src/zephyr/lib/`, `probe/` | not modelled |
| Host and DAI gateways, library loading, tracing, base firmware queries | `audio/host-*.c`, `audio/dai-*.c`, `library_manager/`, `trace/`, `audio/base_fw*.c` | not modelled |
| Signal processing, math, format conversion | `audio/<component>/`, `math/` | not modelled |
| IPC3 and XTOS schedulers | `ipc/ipc3/`, `schedule/ll_schedule.c`, `schedule/edf_schedule.c` | not modelled: other builds |
| Drivers, platform, boot | `drivers/`, `platform/`, `arch/`, `init/` | not modelled |

How they interact: the timer of the *domain* wakes one LL thread per core; the
thread runs the LL tasks of its core in priority order. A pipeline is one such
task. It executes the trigger the IPC handler left with it and then copies audio
through its components. The DP scheduler is driven by one more LL task, which
triggers the threads of DP modules; those exchange data with LL components
through `dp_queue`. The handler runs in a thread below the LL thread, on the core
of the pipelines it handles; that thread is an EDF work queue, which the draining
task of the key phrase buffer shares. `DpStream` composes an LL cycle, the DP
scheduler and a DP thread over the queues that `DpQueue` is shown to implement;
`Kpb` composes LL cycles, the work queue and a pipeline stop; `Ipc` the host, the
work queue, the message worker and the IDC threads of the other cores.

`PROJECT.json` lists every part with its status and every hazard with the line
where it bites.

## Modules, state and actions

Some choices are common to all modules. Code that runs with
interrupts off or under a spin lock is one step. A call the code refuses with an
error and no change of state is a stuttering step. A definition named
`...NoWrap`, `...Silent` and so on after another one, with a comment that begins
with "Mutant of", is a deliberately wrong variant; nothing uses it, and putting
it in place of the original makes the named property fail.

### DpQueue

State: the two offsets in the "double area" `0 .. 2*Size-1`, the fragment sizes
the wrappers remember between get and commit or release, and what the writer's
cache, memory and the reader's cache hold in every byte. Actions:
`GetBuffer`, `Fill` (the module writes into its grant), `CommitWriteBack` and
`CommitPublish` (the two halves of a commit, since the other core may look
between them), `CommitNothing`, `GetDataCheck`, `GetDataInvalidate`,
`ReleaseData`, `SetIpcParams`, and the cache hardware: a line may be filled into
the reader's cache or evicted from either at any moment. In local mode there is
one cache. The buffer size is computed as `dp_queue_create` does.

`ByteFifo` is what the queue promises: a bounded sequence of bytes of which a
prefix may be lent to the reader. `DpQueue!ImplementsFifo` states that the queue
refines it, the queue's contents being the bytes between the offsets.

### ZephyrLL

State: the scheduler's list, the temporary list on the stack of `zephyr_ll_run`,
`n_tasks`, each task's state and private data, the position of the domain thread
and of callers of `zephyr_ll_task_free`, and calls between the insertion of a
task and `domain_register`. The thread releases the lock only while a task's
`.run()` executes. Constants say how clients behave: whether they
use `schedule_task_before`/`_after` (`References`; no client schedules an active
task, as `pipeline_schedule_copy` checks first), reschedule a task in the
cycle in which it was cancelled (`Revival`), or have tasks that run longer than
the 100 periods `zephyr_ll_task_free` waits (`Overrun`).

### ZephyrDP

State: the list, whether the tick source is scheduled, and for each task its
state, semaphore, thread position, the thread's local copy of the state, and the
startup counter. `LLTick` is a whole `scheduler_dp_ll_tick`; whether a module has
enough data and space is an input. The thread's unlocked look at `task->state`
(`Check`) and its locked end of a pass (`Post`) are two steps, which is where the
schedule can race with it. Components are stopped, started again and freed at any
time, also while the thread is still busy with an earlier trigger. The history
variable `due` records that a tick has triggered the task since it was scheduled
and that no pass has ended since.

### ZephyrDomain

State: tasks of each core, how many of them have never run, the shared count,
handlers and semaphores, the kernel timer (listed, firing, with or without user
data), watchdogs, the steps of `domain_register` and `domain_unregister`, and the
block. A task ends in a cycle (`TaskDone`) or, if it has never run, in a client's
`zephyr_ll_task_free` (`TaskFree`); the thread that ends the last task of a core
unregisters it. A bind blocks the LL threads and waits for the cores of its
source and its sink, of which the IPC core may be one (`binding`, `awaited`); other
cores may be in a cycle. The LL thread looks at the block
once without and once with the mutex, then waits on the condition variable
and runs a cycle when woken without looking again. The LL thread has the highest
priority of its core, so other threads of the core step only while it sleeps;
cores are concurrent. `Overlap` allows a core to register while another
unregisters its last task. That the timer is put into the kernel's list again
before its handler runs is Zephyr's behaviour and marked external.

### Pipeline

State: for each pipeline its status, the states of its chain of components, its
task, trigger, delay and xrun flag; the LL cycle under way; the counter and error
of the compound reply; and the handler's position in the command. The prepare
and trigger loops, the reading of the status before the decision, the trigger
itself and the wait are separate steps, since an LL cycle may come between any
two of them. The task's run is one step (or two: trigger, then copy). Walks along
the chain are computed with their failure point chosen by `Fault`; `ipc4_pipeline_complete` may fail as well; a component
may lack pause support (`NoPause`), and an xrun is passed on to the feeding
pipeline (`Upstream`).

Abstractions: pipelines are linear and lists of pipelines to trigger hold one
pipeline, as IPC4 triggers them one by one, so `trigger.pending`, `.host` and
`.aborted` are constant and dropped; bytes lost in an xrun are "some"; the clock
budget walk, parameter negotiation and `pipeline_delete` are left out; the reset
that follows a failed prepare does not fail itself; the order of pipelines in a
cycle is arbitrary.

### DpStream

A DP module between two LL modules. State: two audio streams with their data,
pointers and `avail`, the two shadow queues as sequences, the position of the LL
thread in its cycle, the task's state, the block the DP thread is working on and
the startup delay. An LL cycle is `LL1`, the adapter's copy of its input
(`ReadIn`, `CopyIn`) and output (`ReadOut`, `CopyOut`), `LL2`, and the scheduler's
`Tick`; each copy is two steps, because `buffer_sync_shadow_dp_queue` reads
amount and space first and `source_to_sink_copy` checks them again. The DP thread
takes a block (`DpTake`) and gives one (`DpGive`) between any two of these. Data
are numbered units, so a lost, repeated or reordered one shows. History variables
record a missed deadline (`late`), and that LL1 found no room (`overrun`) or LL2 no
data (`underrun`) once it had begun.

The number of bytes in a unit, stream parameters and cache maintenance are left
out (`DpQueue` has the latter), and the DP module consumes and produces one block
in each pass. LL1 and LL2 are external: modules that produce and consume one
block in every cycle.

### Kpb

State: the state of the component, its sinks, the ring of segments with their
read and write pointers, `buffered` and `free`, the data of the draining task, the
EDF work queue, the IPC thread and the host's buffer. Actions: bind, prepare,
trigger, stop and reset as requests of the host, taken in turn from the work queue;
`LLCopy`, a whole `kpb_copy` in each of its states with the buffering it does, and
`LLCopyLate` where that exceeds its millisecond, with the reset of
`pipeline_xrun_recover` that follows the error; `PrepareFails`, after which
`ipc4_pcm_params` resets the component; `Detect`, which computes where the
requested history starts; and the draining task from one yield to the next. A stop
is executed by the LL thread while the IPC thread waits for it, holding up the
work queue. Samples are numbers modulo `SampleMod`. The client list of builds
without AMS, fast mode and the drain interval are left out. Behaviours end where a
NULL sink or freed memory is used.

### Ipc

State: the doorbell, the IPC task with its position in `ipc_cmd`, `task_mask`, the
reply header, the message list with its worker, and for each secondary core its
work item, payload, IDC thread and power. A request is local, is passed to
another core (`ProcessRemote`, `Delegate`, and `IdcStart` to `IdcClear` on that
core), calls one and waits (`CallCore`, `CallReturns`, `CallTimesOut`; an error ends the
request after its first call), switches a
core on or off, or prepares D3, which is refused while another core is on or
some pipeline is active, and otherwise entered or refused when the core
idles (`Suspend`, `Resume`). The looks of `ipc_cmd` at the mask and at the header
are separate steps, since both cores go through them. Meanwhile notifications are
sent from anywhere, freed with their modules, and events call other cores.

What a request does is `Pipeline`'s subject, its wait for compound messages
included. What `k_p4wq_submit` does with a work item still in use is Zephyr's
undefined case; behaviours end there (`clash`). A request whose core has gone
down between the check and the message, or whose work item was overwritten, is
`Lost`: `BUSY` stays set and nobody answers. It is the one exception of
`RequestAnswered`.

## Runs

Run one with `tlc -config <cfg> <module>`; `PROJECT.json` names both.

| Run | Instance | What it shows |
|---|---|---|
| `dp_queue_shared` | blocks 2 and 1, lines of 2, so 4 bytes in 2 lines; requests of 1 and 3 | windows are exclusive, coherent and stable; the queue is a FIFO on two cores |
| `dp_stream` | LL blocks of 1, DP blocks of 3 | the stream comes out unbroken, copies succeed, LL1 finds room as long as deadlines are met, data keep flowing even when they are not |
| `ll_tasks` | two tasks, two priorities, 2 pending ticks, also insertion next to another task by patient clients | lists, count and states agree; free is synchronous and returns; the thread exists while there are tasks; cancel takes effect |
| `dp_tasks` | two tasks of period 1 and 2 ms, restarted and freed at any time | no stranded task, lists and states agree, the tick source stays, modules run only for a trigger and once for each, triggered tasks run |
| `dp_panic` | one task | **violated**: `NoPanic` |
| `domain_serial` | two cores, two tasks in all | no cycle during a bind, ticks arrive, tasks are run, orphaned timers stop |
| `domain_race` | two cores, one task each, overlapping | **violated**: `ScheduledRuns` |
| `ppl_commands` | two pipelines of two components, every command fault, one component without pause | success is reported for what was executed, triggers keep their order, success of RESET means READY, a delayed start keeps its trigger |
| `ppl_stream` | a pipeline feeding another, copies fail, xruns | ACTIVE implies a task, success of RUNNING means active components, every command is answered |
| `kpb_drain` | segments of 2 and 1, history of 1 to 3, buffering may be late | the host gets the requested history, what came meanwhile and the live stream, unbroken; staged data are not overwritten; draining has a task and ends |
| `kpb_reset` | the same, in time | **violated**: `DrainKeepsSink` |
| `ipc_requests` | one secondary core, 3 requests, 2 events, a high and a low priority message | one reply per request, from the core that ran it, before `BUSY` clears, which happens last; the queue is sound; statuses belong to their calls; requests are answered |

Further instances are kept beside the runs. They ask the same questions of
other instances, or questions of which the answer is known:

| Configuration | Module | Result |
|---|---|---|
| `LLTasks.cfg` | `MCZephyrLL` | the invariants of `ll_tasks` hold for three tasks |
| `DpQueueFlow.cfg` | `MCDpQueue` | with the blocks of the header's example (5 and 3) neither end of a queue waits for ever, and it is a FIFO across the wrap |
| `DomainThree.cfg` | `MCZephyrDomain` | the invariants of `domain_serial` hold for three cores, of which a bind leaves one running |
| `LLFreeReference.cfg`, `DpStreamDelay.cfg`, `PplCores.cfg` | `MCZephyrLL`, `DpStream`, `MCPipeline` | violated, see below |

`TypeOK` of the modules that state it, `ZephyrDP!StartupDelayEnds`, `ZephyrDomain!CountsTasks`,
`Pipeline!CounterTells` and `Ipc!NotificationSent` hold too when they are added to the
configuration of their module's passing run, and so do the inductive invariants
`DpStream!SyncInv` and `FlowInv`, `Kpb!DrainInv`, and `Ipc!AnswerInv`, `QueueInv`,
`StatusInv`, `RequestKnown` and `ReplyKnown`.

### Bounds

Every bound is a constant. The queue needs a request larger than a
line, a request that wraps and one that does not divide the buffer: 1 and 3 in 4
bytes give all three; two byte values tell a stale byte from a fresh one, and
permuting them is sound since bytes are only compared. LL lists show every
relative order of a running and a queued or cancelled task with two tasks, and of
all three kinds with the three of `LLTasks.cfg`; the
tick semaphore's limit of 10 is lowered to 2 (`TickLimit`), which still lets
ticks pile up and be dropped. In the domain two cores are enough for one to
register or unregister while the other does; two tasks in all (`TotalLimit`) are
one on each core, or two on one that ends one of them without ending its last. Two components let a walk fail at the first, at the last or at neither;
two pipelines give an order and a feed. `WaitTicks` stands for the LL periods in
the 30 sleeps of the wait, 7 with the default tick; 3 is what an undisturbed
two-stage start with a delay of 1 needs, so a wait times out only where the trigger
was lost, as in `ppl_stream`. A delay longer than the wait is a different case,
listed below. In `DpStream` three LL cycles for a DP block let a deadline be missed
by more than one cycle, and `SampleMod` exceeds the units alive at one time. Two
segments of different sizes in `Kpb` let a search or a drain start in the middle
of either and go round; history of 1 to 3 is less than, equal to and more
than a segment. In `Ipc` three requests let one time out, a second reach the
core that is still busy with the first, and a third follow D3; one core is enough
for these, and the invariants hold with two as well.

What the runs leave out, because properties fail with it:

* `ll_tasks` and `domain_serial` restrict when clients call
  (`References = "patient"`, `Overlap = FALSE`). `LLFreeReference.cfg` and the run
  `domain_race` drop the restriction, on instances that are smaller.
* No LL run has `Revival` or `Overrun`, and `dp_tasks` has no period below the
  LL period and frees only tasks that were scheduled once.
* `ActiveIsScheduled` and `RunningMeansActive` are checked with failing copies
  and xruns but with triggers that succeed and components that all support
  pause. `ppl_commands` and `ppl_stream` keep the pipelines on one core.
* In `dp_stream` the DP block is a multiple of the LL blocks, and overruns after a
  missed deadline are not counted. In `kpb_drain` the stream need not be intact
  after a buffering that timed out or a reset during a drain, and a detection asks
  for at least one sample. In `ipc_requests`
  behaviours end when a work item is overwritten.

### Fairness

The timer keeps firing and a thread that can run is eventually given its core:
weak fairness for the LL thread, the tick, a pipeline's task, DP threads and a
core that unregisters, which does so with interrupts off or on its LL thread. A
thread below the LL thread is disabled during every cycle, so the handler, a
registration or a call of `zephyr_ll_task_free` under way has strong fairness:
cycles end and leave it time. Nothing is assumed about clients that have not
begun a call, about `.run()` beyond that it returns, or about faults. In
`DpStream` the DP thread runs eventually, with no deadline, and LL1 does not stop
producing for ever while it has room (strong fairness, as this is tried once a
cycle). In `Kpb` and `Ipc` the host takes what is sent to it; it need not send
anything, and timeouts need not happen.

## Proofs

Each `...Proofs` module extends its specification; its invariant is shown to hold initially
and to be kept by every action, for all constants that satisfy the named
`ASSUME`s, and the theorems follow from it.

* `DpQueueProofs` — `DpInv` strengthens the type invariant by `Accounting`
  (offsets are at most a buffer apart, grants fit the free space and loans the
  data), `WrittenBack` (committed bytes have reached memory) and `NotStale` (the
  reader caches no outdated byte of its window). Exclusive windows need the
  first only, by lemmas on circular ranges; coherence needs all three, because a
  prefetch may load any line between commit and get. `Exclusivity`, `Coherence`,
  the action property `Stability`, and `TypeCorrect`. `Refinement`: the queue
  implements `ByteFifo`. The abstract queue is what memory and the writer's cache
  hold between the offsets; they agree there by `DpInv`, so that evictions and
  fills are stutters, publishing a commit appends to the queue, getting data
  lends a prefix of it and releasing gives it back. Sizes, line lengths and modes
  are arbitrary.
* `DpStreamProofs` — `SyncInv` adds to the types of streams and queues that what
  was decided to copy still fits: between `ReadIn` and `CopyIn` the stream is left
  alone and the DP thread can only take from the queue, and the other way round
  for the output. `CopySafe` (no copy ever fails) and `StreamsWellFormed`.
  `FlowInv` says of each of the five places data can be in that its first unit
  follows the last of the place downstream, and of a stream that its write pointer
  is `avail` units ahead of its read pointer. Lemmas on what produce and consume do to a
  circular buffer numbered in this way, and on joining and splitting queues, show
  that each step moves units from the end of one place to that of the next.
  `ArrivesUnbroken` follows, for all block sizes, multiples of each other or not.
* `ZephyrLLProofs` — `ThreadKept` holds for every client. The other results are for
  clients that do not revive a task within the cycle of its cancellation, whose
  tasks return in time and that let a task inserted by reference run first
  (`Considerate`; the runs and the table below show that they fail otherwise).
  `LLInv`: no task is linked twice, `n_tasks` counts the linked ones, the task in
  `.run()` is on the temporary list, and its state and the position of a call of
  `zephyr_ll_task_free` say whether a task is linked. `ListsAccounted`, `StateTells`
  and `FreeSynchronous`, for any number of tasks and priorities.
* `ZephyrDPProofs` — `DPInv` adds to the checked invariants that a task without a
  thread is neither queued nor running, that the thread of a task never scheduled
  sleeps (`InitSleeps`), and that a RUNNING task whose pass has not begun is due
  (`DueBeforeRun`). `TickStays`, `ListsAgree`, `NotStranded` and the action property
  `RunsWhenTriggered`, for any number of tasks and periods, stopped and started
  again at any time.
* `ZephyrDomainProofs` — `HeldCores`: while the block is set, the core of the source
  or the sink, once it is no longer awaited,
  has its LL thread before a check of the block or asleep. It is needed because
  the property alone says nothing about cores still awaited. `ConnectsAlone` and
  `TypeCorrect`, for any number of cores, with registrations overlapping or not.
  `CountKept` (`CountsTasks`): the shared count is the number of tasks less the
  registrations that have yet to count theirs. `TickedWhenSerial` (`TimerForTasks`)
  is for cores of which none registers while another unregisters its last task;
  `TimerInv` adds that a core that clears the timer's data finds no task anywhere.
* `PipelineProofs` — `PplInv` adds that only scheduled tasks run, that the handler
  holds a proper trigger when it leaves one, and that no xrun is recorded during
  a delay; without the last an xrun could answer the trigger and end the task in
  the middle of a start. `DelayKeepsTrigger` and `TypeCorrect`, for any
  topology, chain length, delay and faults. `TurnInv` is for pipelines on one core
  whose delays the handler's wait has time for (`Timely`): a task executes a
  trigger only while the handler is with its pipeline, because the runs it still
  needs fit into what is left of the wait. `RepliesHonest` and `TriggeredInOrder`.
  `ReadyKept`: a pipeline that is INIT or READY has only READY components, unless an
  xrun meets a component without pause (`Smooth`).
  `CommandInv` (`CommandKept`): as long as no error is on record, each
  pipeline the handler is done with has the status the command asks for, or
  READY. With `ReadyInv` it gives `ResetReached`. `ActiveInv`, for components that
  support pause and do not fail pause, stop and reset (`Obedient`), gives
  `ActiveScheduled` and, with `CommandInv`, `RunningReached`.
* `IpcProofs` — `HandoverInv`: each context that works on a request is in the mask,
  at most one core has the request, none has it before it is delegated, cores at
  work are on and D3 is prepared with all of them off. `SignalLast`: `BUSY` clears
  last. `ReplyInv` says where the one reply is made: nobody has replied
  while the request is undecided or with a core that has not come to the end of
  `ipc_cmd`; a core past that point has; the EDF thread finds either its own header
  and no reply, or a reply; a request for D3 is answered by D3. `RepliedOnce`: one
  reply per request and not later than `BUSY` clears. `ReplyBelongs`: the reply is
  that of the last request, from `RequestKnown` (the request the task works on is
  the host's last) and `ReplyKnown` (a reply on its way is in one place and
  awaited). `QueueKept`: a message is queued once and never after it was freed.
  `StatusKept` rests on `StatusInv`: a work item is not queued again while it runs,
  its payload is the caller's command until `idc_cmd` is done with it, and a core
  that is waited for has nothing but the call. All for any number of cores,
  requests and messages.

* `KpbProofs` — `DrainInv` follows the work queue, which holds a request and a start
  of the task at most. A reset may find the task queued behind a request, but that
  one request cannot both bind the detector's sink anew, without which no
  prepare succeeds, and prepare for the next detection, and a second one is queued behind the task. So no detection is
  accepted while the task is queued or running, and the task starts with the
  request of its own detection. `TaskForDraining`: a KPB that is draining has a task, for
  any segments and buffers, if detections ask for some history (`0 \notin DrainReq`;
  the table below shows that it fails otherwise).

Only model-checked: all liveness, which the proof system does not handle;
`Kpb!StreamIntact` and `StagedFits`; and `DpStream!NoOverrun`, which does not hold for
all constants (see the table below). The two of `Kpb` rest on where a detection finds
the start of the history, a fold over the segments, which would need induction.

## Where code and documentation disagree

The violation runs:

1. *Timer stopped for a core with tasks* (`domain_race`). `domain_register`
   counts a task only after its thread and timer run. A core may find the timer
   running, and before it counts its task another core ends its only one, finds
   a total of 0 and stops the timer. The first core is not ticked any more
   (`zephyr_ll.c:271`: "run on each subsequent timer event").
2. *Panic in the DP thread* (`dp_panic`). A task is triggered, cancelled and
   scheduled again, as a component that stops and starts does, before its thread
   looks at the state; a tick between the
   thread's unlocked look at QUEUED and its lock makes it RUNNING, and the thread
   posts QUEUED, the state that "won't happen" (`zephyr_dp_schedule.c:343`).
3. *Reset of a draining key phrase buffer* (`kpb_reset`). `kpb_reset` between a
   detection and the start of its task, and the task itself when it finds
   RESETTING, clear `host_sink`, which the task dereferences at its end;
   `kpb.c:957` says "terminate it gently".

Three further instances, with configurations of their own:

4. *Free of a task inserted by reference* (`LLFreeReference.cfg`).
   `schedule_task_before`/`_after` link a task without setting QUEUED. Freed
   before its first run it is taken for a task at rest and stays on the list,
   against "This is synchronous - after this returns the object can be destroyed!"
   (`zephyr_ll.c:377`).
5. *Startup delay of a DP module* (`DpStream!NoUnderrun`, `DpStreamDelay.cfg`). The
   delay of one period
   starts when the task is scheduled and ends in the tick that first triggers it.
   A block that is ready early is passed on at once, and LL2 runs dry while the
   next is processed within its deadline; `module/base.h:144` says the data "must be
   held till deadline time". With the delay counted from the first trigger the
   property holds.
6. *Order of triggers across cores* (`PplCores.cfg`). The handler does not wait for
   a trigger handed to another core, although "to maintain pipeline order for
   triggers, we must do a blocking wait" (`handler.c:670`).

More properties are stated in the modules and do not hold. They are not part of
a run; each can be seen by giving the configuration of a run the constants below
and checking just that property.

| Property | Start from | Constants | What happens |
|---|---|---|---|
| `ZephyrLL!PriorityOrder` | `LLTasks.cfg` | two tasks | a task queued during a cycle goes behind less urgent ones that were already run, and stays there (`zephyr_ll.c:101`: "List order defines schedule order") |
| `ZephyrLL!FreeIsSynchronous` | `LLTasks.cfg` | `Revival = TRUE` or `Overrun = TRUE` | a task rescheduled in the cycle of its cancellation, or one that outlives the wait, is freed while linked or running (`zephyr_ll.c:377`) |
| `ZephyrDP!KeepsSchedule` | `DPPanic.cfg` | as they are | the late end of a cancelled pass takes a newly scheduled task off the list (`dp_schedule.h:33`) |
| `ZephyrDP!StartupDelayEnds` | `DPTasks.cfg` | `Period <- ShortPeriod` | a period below the LL period gives 0 cycles to start, which never count down to 0 (`module/base.h:120`) |
| `ZephyrDP!FreeSucceeds` | `DPPanic.cfg` | `FreeUnstarted = TRUE` | a task that was never scheduled has a zeroed list item, which free unlinks (`schedule.h:130`) |
| `ZephyrDomain!WatchdogGuardsThread` | `DomainRace.cfg` | `Overlap = FALSE`, `Spec` | only the first core arms its watchdog and only the last disarms its own: the first may lose its thread with the watchdog armed (`watchdog.h:8`) |
| `Pipeline!ResetSucceeds` | `PplCores.cfg` | `Core <- OneCore` | RUNNING refused for the second pipeline leaves the first in PREPARE, where RESET is refused (`handler.c:293`) |
| `Pipeline!TriggerHasTask` | `PplCores.cfg` | `Ppl <- One`, `Core <- OneCore`, `Fault <- StreamFaults` | a copy fails between the handler's look at the status and its trigger, which nobody executes; the command times out (`pipeline-stream.c:441`: "IPC response will be sent from the task") |
| `Pipeline!RunningMeansActive` | `PplCores.cfg` | `Ppl <- One`, `Core <- OneCore`, `NoPause <- MuxLast` | a pause aborted half-way leaves the first component paused in a pipeline that RUNNING finds active (`handler.c:428`) |
| `Pipeline!ReplyHonest` | `PplCores.cfg` | `Core <- OneCore`, `Delay <- LongDelay`, `WaitTicks = 2` | the reply to a command that timed out is counted for the next one (`handler.c:500`) |
| `DpStream!NoOverrun` | `DpStreamFlow.cfg` | `ChunkIn = 2`, `ChunkOut = 2`, `SampleMod = 24` | DP blocks (3) that are no multiple of the LL blocks: tasks are triggered at ticks only, and the sizes of `dp_queue_create` leave LL1 without room although no deadline was missed (`dp_queue.h:26`: "required Buffer size is 2*MAX(IBS,OBS) to allow free read/write in various data chunk sizes") |
| `Kpb!ResetHasTask` | `KpbDrain.cfg` | as they are | buffering that exceeds its millisecond fails the copy with the state BUFFERING; the reset that follows sets RESETTING and leaves the rest to a draining task, which need not exist, so KPB is never reset (`kpb.c:957`: "terminate it gently") |
| `Kpb!DrainingHasTask` | `KpbDrain.cfg` | `DrainReq = {0, 1}` | a detection that asks for no history: the task sets DRAINING and ends without a turn of its loop, where the state would become HOST_COPY, so the stream goes to the ring and never to the host (`kpb.c:1866`: "Draining is done. Now switch KPB to copy real time stream to client's sink") |
| `Ipc!IdcSerial` | `IpcRequests.cfg` | as they are | a second message reaches a core whose work item is in use, after one that did not block or whose wait timed out (`zephyr_idc.c:5-12`: "so no races can occur") |
| `Ipc!QueueDrains` | `IpcRequests.cfg` | as they are | a D3 that is refused leaves `pm_prepare_D3` set: the worker does not send what is queued (`msg.h:111`: "Queues an IPC message for transmission.") |
| `Pipeline!ActiveIsScheduled` | `PplCommands.cfg` | as they are | a pause or stop that fails at the first component ends the task and leaves the status ACTIVE (`handler.c:428`) |

## Next steps

1. Creation, bind, unbind and deletion of modules against running cycles, on the
   block of `ZephyrDomain`.
2. Several mixins of one mixout, with pipelines that start and stop between the
   copies of a cycle.

## Not modelled, and why

Signal processing, math and format conversion are sequential arithmetic over
ranges TLC cannot enumerate. Drivers, platform and boot code are register
sequences. Library loading, tracing and base firmware queries are transfers and
tables. IPC3 and the XTOS schedulers belong to builds other than the one
followed here. Performance counters, telemetry and log output have no influence
on the properties.

Chain DMA moves the positions of two DMA channels from one LL task. Whether they
stay together depends on when the hardware moves each of them, which the source
does not say, and a model would only repeat its assumption. What its error paths
leave behind (both channels running when one fails) is visible in the code
without one. Host and DAI gateways are in the same position; what they mean for
a pipeline (start delays, failing triggers, xruns) is an input of `Pipeline`. The
heap and the registries of devices are sequential code under one lock. Of the
key phrase buffer the work left queued by `kpb_free`, and of the IPC layer the
order in which a prepended message may overtake others for ever, are not
stated as properties: no comment or test of the repository promises either.
