# loac in TLA+

TLA+ models of the core of *loac*, an actor runtime in Rust: what happens
between a caller, an actor's mailbox, its lifecycle gate, its task, the
scheduler of its replies, the tree of its children and the streams it answers
with. The modules are translated from
`src/crates/loac/src`; TLC checks them on small instances, TLAPS proves
theorems about them for every value of the constants. Paths below are relative
to `src/crates/loac/src` unless they begin with `src/`.

## The system

An actor is one future, run by one executor task. It owns a mailbox receiver, a
slot map of reply futures, optionally its children, and a *gate*: a watch value
holding its lifecycle mode. Everything else (addresses, owners, response
futures, wakers) lives in other threads and meets the actor in shared state.

| Component | State | Operations | What makes it correct |
|---|---|---|---|
| Lifecycle gate (`mailbox/control.rs`, `lifecycle.rs`) | the mode, `Running … Exited(status)` | `request`, `begin_failure`, `begin_abort`, `finish`, `admit`, `begin_dispatch`, `begin_completion`, `begin_initialization`, `begin_child_hook`, `call_failure` | the first shutdown wins, only Kill upgrades; each message takes exactly one of the ways out the gate offers it |
| Addresses (`address.rs`) | the caller's future: a slot held, a wait for one | `call`, `send`, `try_call`, `try_send`, `call_to`, `send_to`, `request_shutdown`, `closed` | a refused caller's message was never accepted; a sleeping caller is released by a shutdown; a slot is never lost |
| Transport (`transport.rs`) | queue, slots, closed flag | `try_reserve`, `reserve_owned`, `send`, `poll_recv`, `close` | capacity; FIFO; closed only after the gate's cutoff |
| Mailbox (`mailbox.rs`) | envelopes: message, oneshot, phase | `dispatch`, `reject`, `Drop` of the inbox and of `DispatchReply` | every caller gets one answer, and it says what happened |
| Spawner, owner (`runtime.rs`) | an unstarted frame; the right to shut down | `spawn`, `shutdown`, both `Drop`s | an unstarted actor is killed, its callers answered |
| Actor task, guards (`runtime/task.rs`) | the pinned frame, the proposed exit | `poll`, `Drop`, `await_actor_work`, `ExitGuard::publish` | the frame is dropped, whole, before the exit is visible |
| Actor loop (`runtime/actor_loop.rs`) | the loop of the current mode | `run_actor`, `actor_turn`, `drain_turn`, `handle_child_exit` | the mode is read again before every turn |
| Shutdown (`runtime/shutdown.rs`) | `inbox_drained`, the discard budget | `drain_actor`, `stop_actor`, `graceful_finish`, `kill_actor`, `fail_actor`, `close_and_discard` | Drain completes what was accepted, Stop what was dispatched, hard modes wait for nobody |
| Reply queue (`scheduling/queue.rs`) | slot map, ready keys, lease | `schedule`, `poll`, `poll_ready`, `poll_leased`, `complete`, `clear` | no reply is stranded; none is polled after it returned |
| Wakes and lease (`scheduling/wake.rs`) | ready flag and `AtomicWaker` per reply; the holder | `mark_ready`, `take_ready`, `register`, `wake_task`, `acquire`, `release`, `force_release` | a wake from another thread is never lost; the holder runs alone |
| Lanes (`scheduling/runtime.rs`, `state.rs`) | the cursor | `poll_turn`, `poll_actor_replies` | mailbox, replies and children take turns |
| Replies, streams (`reply.rs`, `writer.rs`) | the reply future; a stream's item channel and its final oneshot | `poll`, `Drop`; `StreamReply::recv`, `finish`; `Writer::write` | a reader that reads to the end has every item; `finish` always returns, and tells the truth |
| Cx (`access.rs`) | the exclusive guard | `with`, `exclusive` | access to the actor only within a poll, or in the destructor of a future |
| Supervision (`supervision.rs`, `supervision/runtime.rs`, `runtime/scope.rs`) | `ChildSet`: registrations, exit channel, the sticky status; `ParentLink` | `spawn_child`, `reap`, `request_all`, `wait_all`; `ErasedActorOwner`'s `Drop` | children end before their parent's cleanup; `Terminated` is true of every descendant; no orphan goes on unasked |
| Cell (`runtime/access.rs`) | the actor's cell | `access`, `take` | memory safety (an argument about Rust references) |
| Trait, config, macros (`actor.rs`, `config/`, `src/crates/loac-macros`) | – | – | compile-time selection |

How they interact: a caller reserves a slot of the transport, then commits
admission *under the gate's lock*. The task polls the transport, commits each
dispatch under the same lock, and puts the handler's future into the slot map.
A completion is committed under the lock too and answers through the caller's
oneshot. Shutdown requests change the mode and notify the task. A parent holds an
owner for each child; it hears of exits through a channel, asks its children to
shut down and awaits them before its own cleanup. A streamed reply leaves this
order: its items and its final value travel through channels of their own, which
no gate guards. Event sources
hold clones of a reply's waker and call it from any thread: flag, key queue and
the task's waker are three separate atomics.

The hard behaviours are those between the locks: the mode may change between
any two reads; a caller may leave at any await; user code may panic in every
hook and in every `Drop`; the executor may drop the task wherever it is
suspended; a wake may come between any two atomic operations of a turn; a child
may end, or its parent be dropped, anywhere in the other's shutdown; a reader may
leave while the handler waits for it.
`PROJECT.json` lists them one by one under `hazards`.

## The modules

| Module | What it is |
|---|---|
| `Lifecycle` | the modes and the gate's transactions, as functions of the mode |
| `Actor` | callers, mailbox, gate and task of one actor |
| `Delivery` | what an actor promises the senders of its messages, without any of that |
| `ActorDelivery` | the refinement mapping from `Actor` to `Delivery` |
| `ActorProofs` | theorems about `Actor`, proved with TLAPS: types, cutoff, phases |
| `ActorWorkProofs` | what becomes of accepted work, the reasons, the end of the actor |
| `ActorMailboxProofs` | capacity, and the order of admission |
| `DeliveryProofs` | the refinement of `Delivery`, step by step |
| `Scheduler` | lanes, ready keys, lease and wakers at the grain of single atomic operations |
| `Pool` | what the scheduler promises the handlers, without turns, keys, flags or wakers |
| `SchedulerProofs` | theorems about `Scheduler`, proved with TLAPS: types, keys, the lease, messages, and the refinement of `Pool` |
| `SchedulerWakeProofs` | when a reply can be stranded, and when it cannot |
| `Supervision` | a tree of actors: registration, exits, shutdown, confirmation |
| `Subtree` | what `SubtreeStatus` promises about a tree, without modes, tasks or channels |
| `SupervisionProofs` | theorems about `Supervision`, proved with TLAPS |
| `Streams` | streamed replies, their readers and the callers beside them |
| `StreamsProofs` | theorems about `Streams`, proved with TLAPS |
| `MCActor`, `MCScheduler` | symmetry sets for TLC |
| `MCSupervision`, `MCStreams` | the instances' functions: profiles, requests, kinds of call |

### Actor

| TLA+ | Code |
|---|---|
| `mode`, `exit` | `Control`'s watch value: the mode, and the local reason of `Exited` |
| `closed`, `queue` | the receiver's closed flag; the accepted envelopes |
| `caller[m]` | where the sender of `m` stands: `full` is the moment between the failed `try_reserve` and the read of the mode, `permit` a slot in a local variable, `waiting` and `granted` the two states of the `reserve_owned` future, `abandoned` a dropped `Response` |
| `reply[m]` | what the oneshot carries: `Ok`, or the phase and reason of a `CallError` |
| `inflight` | the slot map |
| `pc` | where the task stands. A step ends wherever another thread can come between two reads of shared state; the values in `Suspended` are the awaits that return `Pending`, where the executor may drop the task |
| `expected` | the mode the current loop serves (`poll_turn`'s argument) |
| `inhand` | the envelope between `poll_recv` and `begin_dispatch` |
| `drained`, `proposed` | `inbox_drained`; the reason the frame's future returned |
| `admitted`, `started`, `finished`, `stopHook` | history variables, read by properties only |

Every operation of callers, owner and spawner is one action, or one action for
each of its atomic parts: `try_call` that fails is `TryFull` and then
`ReportFull`, because the gate may close between the two. The four entry points
share their steps: `call` and `send` go on from `full` to `BeginWait`, `try_call`
and `try_send` to `ReportFull`; whether the message is in `Calls` or in `Sends`
says whether somebody waits for an answer. User code is nondeterministic: a hook
or a reply returns, waits or panics, and wherever the runtime drops a user value
that drop may panic too (`AfterUserDrop`).

Abstractions: the budgets of a mailbox visit and of a teardown
(`MAILBOX_DISPATCH_BUDGET`, `TEARDOWN_DROP_BUDGET`) are choices whether to go on
or to yield, which contains every value; the lanes of a turn are polled in any
order, and a parked task may look again at any time, because the order and the
wake-ups are the subject of `Scheduler`, and so is the exclusive lease; a freed slot goes to *some* waiter
(`Regrant`), where Tokio serves the first.

Tokio is modelled from its use: the bounded channel's `poll_recv` returns
`Ready(None)` only when it is closed, empty and without outstanding permits
(`InboxEnds`); a permit taken before `close` can still send; a released permit
of an open channel goes to a waiter.

### Delivery

The abstract specification: each message has a *fate* (accepted, started,
completed, or one of the three ways not to get there), the gate says which steps
are still allowed, and the exit is published when no accepted message is without
a final fate. `ActorDelivery` reads the fate off the queue, the scheduler and
the histories.

### Scheduler

| TLA+ | Code |
|---|---|
| `items`, `keys`, `lease` | `Queue`'s slot map, the ready-key queue, `Lease`'s atomic |
| `ready[r]`, `waker[r]` | `ReplyWake`: the flag; whether its `AtomicWaker` holds the task's waker |
| `woken` | the executor has the task queued |
| `pc`, `key`, `polled`, `completed` | the task's step, and `poll_ready`'s locals |
| `cursor`, `lane`, `dispatched` | the rotation of a turn, and the mailbox's budget |
| `tpc[t]`, `fired[t]` | a thread of an event source: its step in `wake`, its events so far |
| `seen`, `begun`, `returned` | history of the futures |

A waking thread takes three steps (`MarkReady`: swap of the flag; `PushKey`;
`WakeTask`), the task takes the flag, registers and polls in three others. A
future returns from the first poll that finds all its events; one in `Leasing`
may take or give up the lease in any poll (and may return with its guard
forgotten). Of the lifecycle only one graceful shutdown is kept; hard modes drop
the queue, and are in `Actor`.

### Pool

The abstract specification of the scheduler: messages wait, become running replies
within the limit and while nobody holds the lease, are polled one at a time and only
if the holder does not pause them, return, and leave. Only Stop throws messages
away. `Scheduler` implements it; `view`, what a reply has seen of its events, is
`seen` reply by reply, so that a poll of one may change nothing for another.

### Supervision

| TLA+ | Code |
|---|---|
| `mode`, `exit`, `subtree` | each actor's gate, and the two halves of its `ExitStatus` |
| `parent`, `limit` | `ParentLink`; the `max` of the supervision profile |
| `children[p]` | `ChildSet.actors`: the slots that hold an owner |
| `sticky[p]` | `ChildSet.subtree`, the `Unconfirmed` that never goes away |
| `events[p]` | the channel a child's `ExitGuard` sends its id to |
| `pc[a]`, `polling`, `serving[a]` | the task's step; whether it is in user code, with the mode read before; the graceful shutdown its loop serves |
| `waiting[a]` | the rest of `wait_all`'s walk |
| `late` | history: living children that were born after their parent's `request_all(Kill)` |

`SpawnChild` is possible wherever user code has the scope (`HasScope`), whatever the mode
has become: `ChildSet::admit` counts registrations, not modes. User code has it in its
polls, and in the destructors of its futures too: the future of a handler owns its `Cx`,
and `SAFETY.md` (line 40) says that it may be used there. Such destructors run in three
places: when Kill or a panic interrupts an initialization or a hook, before the children
are asked to go; in `RuntimeScheduler::clear`, after that and before `wait_all` (step
`clear`); and when the frame of an aborted task is dropped (step `dropping`), before the
owners of its children are. `Dispatching` names the steps at which there may be futures
of handlers to drop. `TakeExit` is
`handle_child_exit` whole: pop, reap, `begin_child_hook`. `Serve`, `RepliesDone` and
`AskChildren` are the three reads of the mode on the way of a graceful shutdown.
`Teardown` is `request_all(Kill)`, by whichever of `kill_actor`, `fail_actor` and their
`uninitialized` forms; `Cleared` is the end of `clear`, from which `wait_all` takes the
children as it finds them; `AwaitChild` is one round of `wait_all`, which keeps what it
learns at once because the next await may be its last (`Abort`). `Abort` marks the task
and `FrameDropped` drops the rest of its frame, with the owners that each request a Kill.
`Publish` and `SendExit` are two steps, so that a parent may look in between.

What is coarser than the code. `wait_all` goes through the slots in order, here in
any order, which contains the code's. `request_all` asks one child after another,
without an await; here all at once, together with the read of the mode before it:
what another thread could do between two of these requests it can do before or
after them, each being a transaction of a different gate. The Kills that the dropped
owners of an aborted actor request are one step (`FrameDropped`), for the same reason. The
discarding of the queue, which comes between `clear` and `wait_all`, is part of the wait:
queued messages own no scope. New actors are named
in one order (`Fresh`): which of the unborn is born makes no difference. Mailboxes
and replies are a stretch of user code here.

### Subtree

Each actor ends *confirmed*, *tainted* or *aborted*: by itself it ends only after
its children, confirmed exactly when they all are; an abort may come at any time.
`Supervision` implements it with `StateOf` as its refinement mapping.

### Streams

| TLA+ | Code |
|---|---|
| `kind[m]` | `call`: the runtime makes the item channel, and the caller gets a `StreamReply` at dispatch; `call_to`, `send_to`: the message brings the writer |
| `open[m]`, `items[m]`, `final[m]` | the writer exists; the item channel; the final oneshot |
| `phase[m]`, `polling` | where the envelope or future is; what the task is doing |
| `caller[m]`, `answer[m]` | who awaits the reply, and what it was told |
| `reader[m]`, `result[m]` | where the reader of the items stands; what `finish` returned |
| `written[m]`, `got[m]` | history: items accepted by the channel, and read |

The drop orders matter and are kept: a handler's future holds the writer, so
`Return` closes the items before `Complete` sends the final value; `Cancel` and
`Cancelled` drop a cleared future field by field, which for `call` is the writer and
then the final sender (`FinishStream`), for `call_to` the answer and then the writer
(`CompleteReply`). How a message gets its slot and its turn is left to `Actor` and
`Scheduler`.

## The runs

Passing runs (deadlock is off in all: an actor that has exited, and a scheduler
whose work is done, really stop).

| Run | Question | Bounds |
|---|---|---|
| `actor_safety` | the safety invariants, and does `Actor` implement `Delivery` | two calls, two sends, capacity 2, two in flight; no bound on anything else. 835,310 states up to symmetry |
| `actor_liveness` | do shutdowns end, sleepers wake, calls get answered | two calls, capacity 1, one in flight. No symmetry |
| `scheduler_wakes` | is a reply stranded when the task sleeps; does a lease outlive its reply; does `Scheduler` implement `Pool` | three leasing replies, one event each, polls two and dispatches two per visit, two in flight |
| `scheduler_keys` | do flags and key queue agree; are stale keys harmless; does the release of a lease let messages in; what is behind a stranded reply | two replies, one of them leasing, two waking threads each, polls two per visit. About 7 million states up to symmetry |
| `scheduler_liveness` | is every event seen; do Stop and Drain end | two replies without leases, one event each, budgets of one |
| `supervision` | is `Terminated` true of the subtree; do children end first; is nobody orphaned; does every exit reach the parent; does `Supervision` implement `Subtree`; what is behind a lost confirmation; can waits block each other; does a tree go down as a whole | a root and two more actors, at most two children; from outside, Drain of the root and Stop of the first child. 64,151 states |
| `streams` | is an item lost; is the final value true; who is silent after an answer; does an exit leave anybody waiting; do `finish`, readers and shutdowns end | one stream of each origin, channel capacity 1, two items each; every shutdown. 125,766 states |

Why the bounds are enough to meet the interesting cases. With four messages on two slots
there are always callers that find the mailbox full, wait, are granted a slot and lose
it; with two in flight, one message may be queued, one in hand and two running when a
mode commits. Calls and sends are both there because only calls can be abandoned or told
anything. The actor's state is otherwise finite, so nothing else is cut. In the
scheduler a budget of one is spent in every turn (`scheduler_liveness`), and one of two
lets a lease be taken in the middle of a drain; three replies on two slots leave one in
the mailbox while the others run. `Fires` and `Wakers` are real bounds: together they
say how often the waker of one reply is called. Called twice, it reaches the state of
the first finding below, so `scheduler_wakes` and `scheduler_liveness`, which are about
the task being woken, call it once, and the violation run says what happens beyond that.
`scheduler_keys` has two threads per reply, because the flag and the key queue must
agree under that too; it also needs the second event for a holder that gives up its
lease without returning. `scheduler_liveness` leaves out the lease, which the second
finding is about, and `NoPollAfterReturn` makes its exception for the same finding.
Three actors are a chain, two siblings, and a child with its replacement (a root with
one slot must reap the first before it registers the second). The root's Drain and the
first child's Stop reach every pair of graceful modes between parent and child, and
Kill needs no request: teardowns and dropped owners send it, and a panic or an abort may
come to each actor at any step. The theorems cover every other number of actors,
profile and set of requests. A stream of capacity 1 with two items has a handler that
waits for room; one that also sees an empty channel between two items; and with one
stream of each origin the gate, which they share, commits at every point of both.
Symmetry permutes calls among themselves, sends among themselves, replies among
themselves and the threads of a reply, and is used in no run that checks liveness.

What the properties say, beyond the types:

- `CapacityKept`, `ClosedAfterCutoff`: slots in every form never exceed the
  capacity; the transport closes only after the gate has left `Running`, which is
  why `admit` may treat a closed transport as impossible.
- `TruthfulPhase`, `TruthfulReason`: the phase and the reason of every error are
  those of what happened.
- `StartedInAdmissionOrder`: handlers start in the order of admission.
- `GracefulExitKeepsWork`, `ExitLeavesNothing`, `StopHookAfterWork`: what
  `Drained` and `Stopped` promise; no answer is lost, whichever way the actor
  ends; `on_stop` runs after the work.
- `PromiseKept`: all of it step by step, as a refinement (`Delivery` for `Actor`,
  `Pool` for `Scheduler`, `Subtree` for `Supervision`).
- `ShutdownExits`, `WaitersReleased`, `CallsAnswered`: the liveness of shutdown,
  of callers waiting for capacity and of calls.
- `NoStrandedReply`, `NoStrandedMessage`, `ReadyKeyQueued`, `EventsSeen`: no wake
  is lost, at the level of a sleeping task, of the queue, and in time.
- `OnlySpentWakersStrand`: what is left of the first of these when wakers are called
  more than once. A reply is stranded only if it was polled, more than one event has
  come, and a call has taken the task's waker since.
- `NoPollAfterReturn`, `ShutdownFinishes`: finished futures, and the end of a graceful
  shutdown. That the lease excludes is part of `Pool`'s promise.

- `TerminatedMeansGone`: `Terminated` is published only when every descendant has
  exited, and confirmed the same of itself, whatever was reaped, awaited, aborted or
  replaced on the way.
- `CleanupAfterChildren`, `OrphansKilled`: `on_stop` runs when the children are gone;
  whoever outlives an aborted parent has been told to kill itself.
- `ExitsReported`, `HookEntry`: a parent at work has every exit of a registered child in
  its channel once, after its status; `on_child_exit` is entered only while the parent is
  `Running`, with the registration already free.
- `LostOnlyByAbort`: the other half of the status. `Unconfirmed` has an aborted actor at
  or below the one that publishes it; panics and Kills alone do not lose a confirmation.
- `WaitsDownwards`: parents wait for children of their own which have been told to go, and
  the tree has no cycle, so that waits cannot block each other. The one child that may be
  awaited without having been told is one that a destructor spawned after the request
  (`late`), which is the fifth finding.
- `TreeGoesDown`: when the root has left `Running`, everybody exits in the end, unless some
  actor waits for such a child and nobody ever tells it to go (`Stranded`).
- `NothingLost`, `FinalTruthful`, `SilentAfterReply`: the items and the final value of
  a stream, against each other and against what its caller was told.
- `ExitClosesStreams`: when the exit is visible, every caller has its answer, every final
  value is decided and every admitted writer is closed.
- `FinishComes`, `ReadersReleased`, `GracefulEnds`: `finish` does not wait for a reader,
  hard modes release everyone, and a graceful shutdown ends unless a reader neither
  reads nor leaves while its handler waits for room. That exception is real: Stop and
  Drain complete what was dispatched, and the runtime has no timeout for it.

`PROJECT.json` pairs each of them with the hazards it is for.

### Fairness

- The executor keeps polling the task (`WF_vars(Task)`), and one poll of user code
  returns. Weak fairness of the *whole* task is enough to say that it moves; which
  way it moves is left open.
- *Healthy* user futures finish: in a graceful mode, an initialization, a stop hook
  or a reply that is polled again and again returns in the end (strong fairness,
  since the polls come and go). Nothing of the kind is assumed once Kill, a failure
  or an abort has committed: hard shutdowns must end without it.
- In a graceful mode a mailbox with dispatchable messages is received from again
  and again (strong fairness of `Receive`); that the lanes rotate is what
  `Scheduler` models and justifies it.
- Callers poll the futures they keep (`CallerFairness`). `UnattendedSpec` drops this
  except for a caller with a permit in a local variable, which runs to its
  admission without an await.
- In `Scheduler` the task runs when it is woken, and only then: a task that sleeps
  without a wake stays asleep, so lost wakes show as violations. Threads go on, and
  every event a future waits for happens.

- In `Supervision` the executor polls every task, healthy user futures finish (while
  their actor is in a graceful mode), and a loop's turns come to the lane of child exits
  again and again (strong fairness of `TakeExit`; the rotation is in `Scheduler`).
- In `Streams` the task comes to every message again and again, a poll that began goes
  on, and a handler that is polled outside a write returns in the end. A future of
  `finish` is polled. Readers and callers otherwise owe nothing: none of them has to
  read, to leave or to finish.

No fairness is given to shutdown requests, panics, abandonment or aborts.

### Findings

Five runs show the code doing something other than what it says of itself.

1. `scheduler_lost_wake` (`scheduling/wake.rs:70`). A reply's waker called twice
   can leave the reply ready and the task asleep. `wake_task` takes the waker, so
   the first call's `wake_task` may take the one that the poll its own key caused
   has just registered; the second call raises the flag; the task runs on that
   spurious wake, finds no key and sleeps without registering; the key is pushed,
   and `wake_task` finds nobody to wake. Any later wake of the actor repairs it.
   `OnlySpentWakersStrandAlways` proves that there is no other way to strand a reply.
2. `scheduler_held_stop` (`scheduling/queue.rs:129`). `poll_leased` looks at the
   mode before the result. A leased reply that returns in the very poll during which
   Stop or Drain commits is never removed, and the shutdown never ends; should its waker
   be called once more, the finished future is polled again. By `NoPollOfReturned` this
   concerns one reply at most, and none before the shutdown.
3. `actor_drain_held` (`scheduling/runtime.rs:243`). When the last queued envelope
   of a Drain is an abandoned call, the next `poll_recv` waits for outstanding
   slots; a caller granted one and not polled holds up the drain, although
   `runtime/shutdown.rs:48` says it must not.
4. `actor_stop_hook` (`runtime/task.rs:296`). A Kill that commits between the read
   of the mode and the first poll of `on_stop` does not keep `on_stop` from running,
   against `actor.rs:145`.
5. `supervision_drop_spawn` (`runtime/shutdown.rs:196`). `kill_actor` and `fail_actor` ask
   the children to go, drop the futures of handlers, and await the children. The destructor
   of such a future may spawn a child through its `Cx`: it is registered after the request,
   asked to end by nobody and awaited, so that the parent does not exit until somebody else
   stops the child or the executor drops the parent. `lifecycle.rs:39` says of Kill that it
   reaches the children before replies are dropped, which is true of the children there
   were. In the graceful case no future of a handler is left when the children are asked.

The first two and the third need a specific interleaving of threads; the fourth is
narrow and harmless to the runtime itself; the fifth needs a destructor that spawns, and
is then deterministic.

Two more disagreements have no run of their own. The Kill that the drop of an unstarted
spawner commits (`runtime.rs:156`) is never followed by an `ExitStatus`, because no task exists
that would publish one: `closed()` on its addresses does not return, and `lifecycle.rs:59`
tells those who see such a Kill to "inspect the eventual" status. `CallsAnswered` shows that
its callers are answered all the same. The other: the frame of a run that has ended is
dropped after its last poll, and a panic of the actor's own `Drop` unwinds that poll: the
exit is published `Aborted` and `Unconfirmed` even when a Kill had committed. The comment at
`runtime/task.rs:168` and the test `runtime/tests/work.rs:168` expect the Kill to win; the
test's hand-made frame keeps its fields after `Ready`, which `run_actor`'s locals do not.
`Actor` does what the code does (`DropFrame`). And an observation: the final value of a
stream is sent past the lifecycle gate (`reply.rs:231`), so after a Kill has committed
`finish` may still return a value, where `runtime/scope.rs:125` has other replies complete
only through the gate. `FinalTruthful` holds all the same: the value is that of a handler
that returned.

## The proofs

Eight modules of theorems. Each rests on an inductive invariant that TLC checked first, on
the instances of the runs, and that is stated in parts, so that each lemma says which
step disturbs which part. `PROJECT.json` lists the theorems beside the properties of the
runs.

**`ActorProofs`**, for any value of the constants (`ActorAssumption` is not used):

- `TypeCorrect`: `Safe => [](TypeOK /\ ExitedAtEnd)`. The gate reports a reason for
  every mode but `Exited`, so `Publish` is well typed only if it is never repeated;
  `ExitedAtEnd`, that `Exited` is found only at the last step, is the strengthening.
- `CutoffBeforeClose`: `Safe => []ClosedAfterCutoff`. Not inductive alone: the step
  that closes does not look at the mode. `CutoffInv` adds that in every step of the
  task after a cutoff (`AfterCutoff`) the mode is no longer `Running`, and that a
  loop that serves another mode than `Running` has seen it; the mode never returns
  (`GateTransactions`).
- `CallersToldTheTruth`: `Safe => []TruthfulPhase`. The argument is about where a
  message can be. `PhaseInv` says that callers that are not in yet are in no
  history (`CallersApart`), that an accepted message is in one place only: the
  queue, the task's hand, or among the started (`OnePlace`), and that the answers
  given agree with the histories (`RepliesTrue`). One lemma per kind of step shows
  that it keeps all three; `PhasesTold` is the one fact about the gate that the
  answers need.

**`ActorWorkProofs`**, without `ActorAssumption` too: `NothingLeft`, `StopHookLast`,
`GracefulExits`, `ReasonsTrue`. `PlaceInv` says where work may still be at each step of the
task: what is in its hand (`HandInv`), which mode a loop serves (`Serves`) and which the gate
can have reached meanwhile (`Gates`), and from which steps on the queue and the slot map
are empty (`Emptied`). `WorkInv` says what became of the work that is nowhere any more:
every accepted message is in a place, finished or answered (`Answered`, `Settled`,
`Accepted`), and at the stop hook only the last two (`AtStop`). The reasons given are an
invariant of their own (`ReasonInv`): each fits the mode that has been reached since.

**`ActorMailboxProofs`**: `AdmissionOrder` needs that the queue is always the end of the
history of admissions, that the envelope in hand is the admission before it, and that all
starts lie earlier (`OrderInv`). `CapacityRespected` counts slots by their owner: a step of
a caller moves one slot from one form to another or frees it, and a step of the task only
frees them (`CapacityInv`); this is the only theorem about `Actor` that uses
`ActorAssumption`, for finite sets of callers.

**`DeliveryProofs`**: `Implementation == Safe => PromiseKept`. Initial states map to initial
states; under the invariants of the two modules before, each action of `Actor` maps to one
step of `Delivery` or leaves every fate alone. The cases that take work are those where a
message leaves two places at once (`TeardownRefines`), and the publication, which
`Delivery` allows only when nothing accepted is without a final fate (`PublishRefines`):
that is what the invariant says of the last step. Safety only: `Delivery` has no fairness.

**`SchedulerProofs`**, from `SchedulerAssumption`: `TypeCorrect`, `KeysAgree`,
`MailboxServed`, `NoPollOfReturned`, `LeaseExcludes`, `LimitKept`, `Refinement`, for any
number of replies and of wakers called any number of times. `HandInv`: a turn runs
without a lease and `poll_leased` with one, and what they have in hand is in the slot
map, since only the task removes replies. `PlaceInv`: no message is both scheduled and
returned, except between its last poll and its removal, or when `poll_leased` has missed
its return (finding 2); `FinishedInv` adds that this happens to one reply at most, since
a shutdown commits once. `LaneInv`, for the mailbox: a turn that has passed the mailbox
lane and left messages behind has been woken since or has completed a reply, and so
comes round again.
`KeysAgree` is inductive as it stands. `Refinement` is `Safe => PromiseKept`: the steps of
threads, lanes, flags and keys leave `Pool`'s variables alone; a poll in a turn and a
poll of the holder both map to `Poll`, which needs `HandInv` (who may be polled) and
`PlaceInv` (who has returned); a dispatch needs `Room`, that a turn waits in the
mailbox lane only with capacity left. `LimitKept` and `LeaseExcludes` say in the
scheduler's own words what two of `Pool`'s guards amount to: the replies in flight never
exceed `MaxInFlight`, and while one holds the lease no other is polled and none is added.

**`SchedulerWakeProofs`**: `OnlySpentWakersStrandAlways` and `SingleEventsStrandNothing`.
`NoStrandedReply` is false for constants that let a waker be called twice (finding 1). The
first theorem says that this is the only way: whatever the number of replies, threads and
calls, a stranded reply has had more than one event and a call has spent the task's waker
since its last poll. The second concludes `NoStrandedReply` where every reply has one event. The
invariant is one of a single reply (`WakeInv`): a reply that is due has its flag up or a
thread about to raise it (`FlagInv`); only events make threads call wakers
(`ThreadInv`); a waker is gone only if a call took it (`WakerInv`); and at every step from
which the task can go to sleep without another look at the keys, something will wake it
for the reply, or its waker is spent (`AlarmInv`). That last part is where the cursor
matters: a turn that has passed the reply lane and dispatches behind it goes round again.

**`SupervisionProofs`**, from `SupervisionAssumption`: `TypeCorrect`, `Termination`,
`Cleanup`, `Orphans`, `Reports`, `ChildHook`, `LossesTraced`, `NoWaitCycle`, and `Refinement`, that `Supervision` implements
`Subtree`. The heart is `Kept`: every actor that was ever the child of `p` is still registered
with `p`, or has been told to kill itself or is gone, and then it is gone confirmed, or `p`
has the sticky `Unconfirmed`, or `p` was aborted. A confirmed child vouches for its own children, so `Termination` follows
from a fact about one generation: the set of those that are gone and confirmed is closed
under children (`ConfirmedClosed`). Beside it: which steps of the task fit which modes
(`InStep`), who owns whom (`Owned`), which children a wait has yet to see
(`Awaited`), what the exit channel holds (`Reported`, `Heard`), and that a status has its
reason (`Reasoned`). `LossesTraced` and `NoWaitCycle` have an invariant of their own
(`TreeInv`): children are born below their parents and modes only move on, so that a
sticky `Unconfirmed` can be traced down to an abort, and what `wait_all` waits for has been
asked before. `NoWaitCycle` has the exception of `WaitsDownwards` and no more: while
an actor clears its frame the children it had are told to go at once, and those that come
are `late` (`ClearSteps`), and a late child stays one until it has exited (`LateSteps`).

**`StreamsProofs`**, from `StreamsAssumption`: `TypeCorrect`, `EverythingRead`,
`FinishTellsTheTruth`, `NothingBehindReply`, `ExitSettles`. Messages meet only in the gate, so the
invariant is one of a single message (`StreamInv`) and a step of one leaves the others
alone (`Alone`, `StreamKept`): the writer is open while the handler may write
(`OpenInv`); what was accepted is in the channel or was read (`CountInv`); the final
value is pending exactly while the future lives (`FinalInv`); and a caller that brought
its writer has no answer before the writer is gone (`AnswerInv`).

Every safety property of a passing run is stated by a theorem; for `NoStrandedReply`,
which is false in general, by one with the hypothesis of `scheduler_wakes`, one event for
every reply. Model-checked only: all liveness (temporal reasoning under fairness and
`ENABLED` are outside what the prover supports).

## Not modelled

- *The composition of all of it*: `Actor` is an actor without children (the disabled
  profile), `Supervision` a tree without mailboxes, `Scheduler` and `Streams` one actor's
  replies. Each module keeps what it shares with the others as a nondeterministic choice
  (a stretch of user code, a commit of the gate); their product is beyond TLC.
- *The unbounded transport*: it has no slots and no waiting; and `DisabledRuntime`,
  the scheduler of an actor without messages.
- *The cell* (`runtime/access.rs`, `SAFETY.md`): an argument about Rust references and not
  a protocol; the drop order it rests on is in `DropFrame`.
- *Macros, configuration, the actor traits*: compile-time code, validated options
  (the CONSTANTS here), and documentation, whose promises are among the properties.
- *The `Notify` and `watch` of the gate*: a task or a caller sees the mode when it looks; that
  it is made to look is `NotifyActor` in `Scheduler`, and fairness elsewhere.

## Plan

Done: `Lifecycle` and `Actor`; `Delivery` and its refinement; `Scheduler` and `Pool`;
`Supervision` and `Subtree`; `Streams`; the theorems above.

Left, in order of importance:

1. An abstract specification of a stream beside `Streams` (what a reader and a caller may
   observe of items, end and final value), and its refinement.
2. `Supervision` over `Actor` on one parent and one child, for the panics of a parent's
   own replies while its children end; and a larger tree, four actors, for safety.
3. A reply's wake at the grain of `AtomicWaker`'s own steps (here one swap).
4. `DisabledRuntime` and the unbounded transport as further values of constants.

## Running

    tlc -config MCActor_safety.cfg MCActor.tla
    tlc -config MCScheduler_wakes.cfg MCScheduler.tla
    tlc -config MCSupervision.cfg MCSupervision.tla
    tlc -config MCStreams.cfg MCStreams.tla
    tlapm ActorProofs.tla

and so for the other configurations and the other modules of theorems: `ActorWorkProofs`,
`ActorMailboxProofs`, `DeliveryProofs`, `SchedulerProofs`, `SchedulerWakeProofs`,
`SupervisionProofs`, `StreamsProofs`.

Operators marked as mutants in the modules are what a plausible bug would make of
the definition that follows; no specification uses them. Putting one in the place of
its definition must break the property `PROJECT.json` pairs it with.
