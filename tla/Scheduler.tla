----------------------------- MODULE Scheduler -----------------------------
(***************************************************************************)
(* The scheduler of one actor at the grain of its atomic operations: the   *)
(* lanes of a turn (poll_turn), the ready-key queue and the exclusive      *)
(* lease (Queue, Lease), the wakers that other threads fire (ReplyWake),   *)
(* and the sleep and wake-up of the actor task.                            *)
(*                                                                         *)
(* A reply's future waits for events; a thread per waker brings them, each *)
(* Fires times, by setting the event and then waking the reply.  The       *)
(* future returns from the first poll that finds every event set.  A reply *)
(* in Leasing may take the lease in any of its polls and give it up in any *)
(* later one (Cx::exclusive).  Of the lifecycle only one graceful shutdown *)
(* is kept; Actor has the rest.                                            *)
(***************************************************************************)
EXTENDS Naturals, Sequences, FiniteSets

CONSTANTS Replies,          \* the messages that arrive; each is one reply
          Leasing,          \* replies that run under Cx::exclusive
          Wakers,           \* names of the threads that each hold a clone of a reply's waker
          Fires,            \* how often each of them fires: a bound
          PollBudget,       \* ACTIVE_POLL_BUDGET
          DispatchBudget,   \* MAILBOX_DISPATCH_BUDGET
          MaxInFlight,      \* the limit of the reply profile
          Free              \* the lease's value when nobody holds it

ASSUME SchedulerAssumption ==
  /\ IsFiniteSet(Replies) /\ Leasing \subseteq Replies /\ Free \notin Replies
  /\ IsFiniteSet(Wakers) /\ Wakers # {}
  /\ {Fires, PollBudget, DispatchBudget, MaxInFlight} \subseteq Nat \ {0}

Threads == Replies \X Wakers

VARIABLES
  mode, expected,        \* the gate, and the mode the actor loop serves
  arrived,               \* messages in the mailbox
  items, keys, lease,    \* Queue: the slot map, the ready keys, the holder
  ready, waker,          \* ReplyWake: the flag; whether a task waker is registered
  woken,                 \* the executor has the task queued to run
  pc, key,               \* the task's step, and the reply in its hand
  cursor, lane,          \* where turns begin, and the lane being polled
  dispatched,            \* envelopes dispatched in this visit to the mailbox
  polled, completed,     \* poll_ready: replies polled, and whether one returned
  tpc, fired,            \* the firing threads
  seen,                  \* history: the events the last poll of a reply saw
  begun, returned        \* history: futures polled at all, futures that returned

lifeVars   == <<mode, expected, arrived>>
wakeVars   == <<ready, waker>>
queueVars  == <<items, keys, lease>>
laneVars   == <<cursor, lane, dispatched>>
drainVars  == <<key, polled, completed>>
threadVars == <<tpc, fired>>
futureVars == <<seen, begun, returned>>
vars == <<lifeVars, wakeVars, queueVars, woken, pc, laneVars, drainVars, threadVars, futureVars>>

Graceful == {"Running", "Draining", "Stopping"}
Lanes    == {"Mailbox", "Reply", "ChildExit"}
Steps    == {"asleep", "turn", "lane", "mailbox", "pop", "take", "register", "poll",
             "registerHeld", "pollHeld", "endHeld", "drained", "done"}
NextLane == [Mailbox |-> "Reply", Reply |-> "ChildExit", ChildExit |-> "Mailbox"]

Init ==
  /\ mode = "Running" /\ expected = "Running" /\ arrived = {}
  /\ items = {} /\ keys = <<>> /\ lease = Free
  /\ ready = [r \in Replies |-> FALSE] /\ waker = [r \in Replies |-> FALSE]
  /\ woken = FALSE
  /\ pc = "turn" /\ key = Free /\ polled = 0 /\ completed = FALSE
  /\ cursor = "Mailbox" /\ lane = "Mailbox" /\ dispatched = 0
  /\ tpc = [t \in Threads |-> "idle"]
  /\ fired = [t \in Threads |-> 0] /\ seen = [t \in Threads |-> 0]
  /\ begun = {} /\ returned = {}

----------------------------------------------------------------------------
(* Other threads.                                                          *)

\* A message reaches the mailbox and wakes the task through the transport.
Arrive(r) ==
  /\ mode = "Running" /\ r \notin arrived \cup items \cup returned
  /\ arrived' = arrived \cup {r}
  /\ woken' = TRUE
  /\ UNCHANGED <<mode, expected, wakeVars, queueVars, pc, laneVars, drainVars,
                 threadVars, futureVars>>

\* Mutants, here and below, are what a plausible bug would make of the
\* definition that follows; nothing uses them.
NotifyNobody == woken' = woken    \* a mutant
NotifyActor  == woken' = TRUE

\* Stop or Drain commits; actor_wake.notify_one wakes the task.
Shutdown ==
  /\ mode = "Running"
  /\ mode' \in {"Stopping", "Draining"}
  /\ NotifyActor
  /\ UNCHANGED <<expected, arrived, wakeVars, queueVars, pc, laneVars, drainVars,
                 threadVars, futureVars>>

\* An event of a scheduled reply happens.  Once the future has been polled
\* the event's source holds its waker, and goes on to call it.
Fire(t) ==
  /\ tpc[t] = "idle" /\ fired[t] < Fires /\ t[1] \in items
  /\ fired' = [fired EXCEPT ![t] = @ + 1]
  /\ tpc' = [tpc EXCEPT ![t] = IF t[1] \in begun THEN "swap" ELSE "idle"]
  /\ UNCHANGED <<lifeVars, wakeVars, queueVars, woken, pc, laneVars, drainVars, futureVars>>

\* mark_ready: swap the flag; whoever raised it pushes the key ...
MarkReady(t) ==
  /\ tpc[t] = "swap"
  /\ ready' = [ready EXCEPT ![t[1]] = TRUE]
  /\ tpc' = [tpc EXCEPT ![t] = IF ready[t[1]] THEN "wake" ELSE "push"]
  /\ UNCHANGED <<lifeVars, waker, queueVars, woken, pc, laneVars, drainVars, fired, futureVars>>

\* ... in a second atomic step.
PushKey(t) ==
  /\ tpc[t] = "push"
  /\ keys' = Append(keys, t[1])
  /\ tpc' = [tpc EXCEPT ![t] = "wake"]
  /\ UNCHANGED <<lifeVars, wakeVars, items, lease, woken, pc, laneVars, drainVars,
                 fired, futureVars>>

\* wake_task: AtomicWaker::wake takes the registered waker out and calls it.
WakeTask(t) ==
  /\ tpc[t] = "wake"
  /\ woken' = (woken \/ waker[t[1]])
  /\ waker' = [waker EXCEPT ![t[1]] = FALSE]
  /\ tpc' = [tpc EXCEPT ![t] = "idle"]
  /\ UNCHANGED <<lifeVars, ready, queueVars, pc, laneVars, drainVars, fired, futureVars>>

----------------------------------------------------------------------------
(* The task: its loop, and the lanes of a turn.                            *)

Leased == lease # Free
HasDispatchCapacity == ~Leased /\ Cardinality(items) < MaxInFlight

\* poll_turn is still serving the mode its loop serves.
Serving == mode = expected

\* The ends of a turn: progress goes round the loop and moves the cursor on;
\* a pending lane hands over to the next, until the turn is back at the lane
\* it began with and the task sleeps.
LaneProgress == pc' = "turn" /\ cursor' = NextLane[lane] /\ UNCHANGED <<lane, dispatched>>
LanePending ==
  /\ dispatched' = dispatched
  /\ IF NextLane[lane] = cursor
     THEN pc' = "asleep" /\ cursor' = NextLane[cursor] /\ lane' = lane
     ELSE pc' = "lane" /\ lane' = NextLane[lane] /\ cursor' = cursor

\* The executor polls the task again.
Resume ==
  /\ pc = "asleep" /\ woken
  /\ woken' = FALSE
  /\ pc' = "turn"
  /\ UNCHANGED <<lifeVars, wakeVars, queueVars, laneVars, drainVars, threadVars, futureVars>>

\* run_actor sees the shutdown: Stop discards the mailbox, Drain keeps it.
SwitchMode ==
  /\ pc = "turn" /\ ~Serving
  /\ expected' = mode
  /\ arrived' = IF mode = "Stopping" THEN {} ELSE arrived
  /\ UNCHANGED <<mode, wakeVars, queueVars, woken, pc, laneVars, drainVars,
                 threadVars, futureVars>>

\* finish_replies and drain_actor leave their loops.
Finish ==
  /\ pc = "turn" /\ Serving /\ expected # "Running"
  /\ items = {} /\ arrived = {}
  /\ pc' = "done"
  /\ UNCHANGED <<lifeVars, wakeVars, queueVars, woken, laneVars, drainVars,
                 threadVars, futureVars>>

\* Queue::poll goes to poll_ready: in a turn by way of the lanes, in
\* finish_replies at once.
BeginPolling ==
  /\ pc = "turn" /\ Serving /\ ~Leased
  /\ expected = "Running" \/ items \cup arrived # {}
  /\ IF expected = "Stopping"
     THEN pc' = "pop" /\ lane' = lane
     ELSE pc' = "lane" /\ lane' = cursor
  /\ polled' = 0 /\ completed' = FALSE /\ dispatched' = 0
  /\ UNCHANGED <<lifeVars, wakeVars, queueVars, woken, cursor, key, threadVars, futureVars>>

\* poll_turn polls one lane after another.
SkipLane ==
  /\ pc = "lane" /\ Serving
  /\ CASE lane = "Mailbox"   -> ~HasDispatchCapacity \/ (expected = "Draining" /\ arrived = {})
       [] lane = "Reply"     -> items = {}
       [] lane = "ChildExit" -> TRUE
  /\ LanePending
  /\ UNCHANGED <<lifeVars, wakeVars, queueVars, woken, drainVars, threadVars, futureVars>>

EnterLane ==
  /\ pc = "lane" /\ Serving
  /\ \/ /\ lane = "Mailbox" /\ HasDispatchCapacity
        /\ expected = "Running" \/ arrived # {}
        /\ pc' = "mailbox"
     \/ /\ lane = "Reply" /\ items # {}
        /\ pc' = "pop"
  /\ UNCHANGED <<lifeVars, wakeVars, queueVars, woken, laneVars, drainVars,
                 threadVars, futureVars>>

\* A turn that finds the mode changed goes back to its loop.
LifecycleHint ==
  /\ pc = "lane" /\ ~Serving
  /\ pc' = "turn"
  /\ UNCHANGED <<lifeVars, wakeVars, queueVars, woken, laneVars, drainVars,
                 threadVars, futureVars>>

\* The mailbox lane dispatches one envelope: its reply enters the slot map
\* marked ready for its first poll, or the gate refuses it.
DispatchOne ==
  /\ pc = "mailbox"
  /\ \E r \in arrived :
       /\ arrived' = arrived \ {r}
       /\ IF mode \in {"Running", "Draining"}
          THEN /\ items' = items \cup {r}
               /\ ready' = [ready EXCEPT ![r] = TRUE]
               /\ keys' = Append(keys, r)
          ELSE UNCHANGED <<items, ready, keys>>
  /\ LET capacity == ~Leased /\ Cardinality(items') < MaxInFlight
     IN  IF ~Serving \/ dispatched + 1 = DispatchBudget \/ ~capacity
         THEN LaneProgress
         ELSE pc' = "mailbox" /\ dispatched' = dispatched + 1 /\ UNCHANGED <<cursor, lane>>
  /\ UNCHANGED <<mode, expected, waker, lease, woken, drainVars, threadVars, futureVars>>

\* The mailbox is empty.  A turn that began with the replies, and so will not
\* come to them again, must go round once more for what it has dispatched; a
\* drained inbox has ended.
OnlyDrained == expected = "Draining"    \* a mutant
DispatchedBehindReplies ==
  \/ dispatched > 0 /\ cursor = "Reply" /\ items # {}
  \/ expected = "Draining"

MailboxEmpty ==
  /\ pc = "mailbox" /\ arrived = {}
  /\ IF DispatchedBehindReplies THEN LaneProgress ELSE LanePending
  /\ UNCHANGED <<lifeVars, wakeVars, queueVars, woken, drainVars, threadVars, futureVars>>

----------------------------------------------------------------------------
(* Polling replies (Queue::poll_ready and Queue::poll_leased).             *)

\* poll_ready pops one ready key, until the budget is spent, the queue is
\* empty or the mode has changed.  Keys of replies that left are skipped.
PopKey ==
  /\ pc = "pop"
  /\ IF polled < PollBudget /\ Serving /\ keys # <<>>
     THEN /\ key' = Head(keys)
          /\ keys' = Tail(keys)
          /\ pc' = IF Head(keys) \in items THEN "take" ELSE "pop"
     ELSE /\ pc' = "drained"
          /\ UNCHANGED <<key, keys>>
  /\ UNCHANGED <<lifeVars, wakeVars, items, lease, woken, laneVars, polled, completed,
                 threadVars, futureVars>>

PeekReady ==    \* a mutant: a load where the code swaps
  /\ pc = "take"
  /\ pc' = IF ready[key] THEN "register" ELSE "pop"
  /\ UNCHANGED <<lifeVars, wakeVars, queueVars, woken, laneVars, drainVars,
                 threadVars, futureVars>>

\* take_ready: a key whose flag is down is a duplicate.
TakeReady ==
  /\ pc = "take"
  /\ ready' = [ready EXCEPT ![key] = FALSE]
  /\ pc' = IF ready[key] THEN "register" ELSE "pop"
  /\ UNCHANGED <<lifeVars, waker, queueVars, woken, laneVars, drainVars, threadVars, futureVars>>

\* poll_leased looks at the holder alone; its key stays where it is.
TakeHeld ==
  /\ pc = "turn" /\ Serving /\ Leased
  /\ key' = lease
  /\ ready' = [ready EXCEPT ![lease] = FALSE]
  /\ pc' = IF ready[lease] THEN "registerHeld" ELSE "asleep"
  /\ UNCHANGED <<lifeVars, waker, queueVars, woken, laneVars, polled, completed,
                 threadVars, futureVars>>

\* poll_with_task registers the task's waker before it polls the future.
RegistersNothing ==    \* a mutant
  /\ pc \in {"register", "registerHeld"}
  /\ pc' = IF pc = "register" THEN "poll" ELSE "pollHeld"
  /\ UNCHANGED <<lifeVars, wakeVars, queueVars, woken, laneVars, drainVars, threadVars, futureVars>>

Register ==
  /\ pc \in {"register", "registerHeld"}
  /\ waker' = [waker EXCEPT ![key] = TRUE]
  /\ pc' = IF pc = "register" THEN "poll" ELSE "pollHeld"
  /\ UNCHANGED <<lifeVars, ready, queueVars, woken, laneVars, drainVars, threadVars, futureVars>>

\* One poll of the future in hand: it sees the events set so far, leaves its
\* waker with the others, and returns when none is missing.
Sources(r) == {t \in Threads : t[1] = r}
Returns(r) == \A t \in Sources(r) : fired[t] = Fires

PollFuture(r) ==
  /\ seen' = [t \in Threads |-> IF t[1] = r THEN fired[t] ELSE seen[t]]
  /\ begun' = begun \cup {r}
  /\ returned' = IF Returns(r) THEN returned \cup {r} ELSE returned

\* The lease after a poll of r: what its guard, if it has one, makes of it.
LeaseAfter(r) == IF r \in Leasing THEN {r, Free} ELSE {lease}

\* A lease taken in a poll ends the drain.
NeverEnds(l) == FALSE          \* a mutant
EndsDrain(l) == l # Free

\* Queue::complete removes a reply and clears the lease it may have left.
StillIn(r) == items            \* a mutant
Without(r) == items \ {r}
LeaseKept(r, l) == l           \* a mutant
WithoutLeaseOf(r, l) == IF l = r THEN Free ELSE l

PollReady ==
  /\ pc = "poll"
  /\ PollFuture(key)
  /\ \E l \in LeaseAfter(key) :
       IF Returns(key)
       THEN /\ items' = Without(key) /\ lease' = WithoutLeaseOf(key, l)
            /\ completed' = TRUE /\ polled' = polled + 1
            /\ pc' = "pop"
       ELSE /\ items' = items /\ lease' = l
            /\ completed' = completed
            /\ IF EndsDrain(l)
               THEN pc' = "asleep" /\ polled' = polled
               ELSE pc' = "pop" /\ polled' = polled + 1
  /\ UNCHANGED <<lifeVars, wakeVars, keys, woken, laneVars, key, threadVars>>

PollHeld ==
  /\ pc = "pollHeld"
  /\ PollFuture(key)
  /\ lease' \in LeaseAfter(key)
  /\ pc' = "endHeld"
  /\ UNCHANGED <<lifeVars, wakeVars, items, keys, woken, laneVars, drainVars, threadVars>>

\* The holder's poll leaves nothing else to do while it keeps the lease.
HeldPending    == Serving /\ key \notin returned    \* a mutant: release is no progress
HeldPausesRest == Serving /\ key \notin returned /\ lease = key

\* poll_leased looks at the mode before it looks at the result.
EndHeld ==
  /\ pc = "endHeld"
  /\ IF Serving /\ key \in returned
     THEN items' = Without(key) /\ lease' = WithoutLeaseOf(key, lease)
     ELSE UNCHANGED <<items, lease>>
  /\ pc' = IF HeldPausesRest THEN "asleep" ELSE "turn"
  /\ UNCHANGED <<lifeVars, wakeVars, keys, woken, laneVars, drainVars, threadVars, futureVars>>

\* The end of poll_ready.  With keys left the task wakes itself.
PollingProgress ==
  IF expected = "Stopping" THEN pc' = "turn" /\ UNCHANGED laneVars ELSE LaneProgress
PollingPending ==
  IF expected = "Stopping" THEN pc' = "asleep" /\ UNCHANGED laneVars ELSE LanePending
NoSelfWake == woken' = woken    \* a mutant
SelfWake   == woken' = TRUE
BudgetExhausted ==
  /\ pc' = "asleep" /\ SelfWake
  /\ cursor' = IF expected = "Stopping" THEN cursor ELSE NextLane[lane]
  /\ UNCHANGED <<lane, dispatched>>

EndPolling ==
  /\ pc = "drained"
  /\ \/ Serving /\ keys # <<>> /\ BudgetExhausted
     \/ (Serving => keys = <<>> /\ completed) /\ PollingProgress /\ woken' = woken
     \/ Serving /\ keys = <<>> /\ ~completed /\ PollingPending /\ woken' = woken
  /\ UNCHANGED <<lifeVars, wakeVars, queueVars, drainVars, threadVars, futureVars>>

----------------------------------------------------------------------------
Others ==
  \/ \E r \in Replies : Arrive(r)
  \/ Shutdown
  \/ \E t \in Threads : Fire(t) \/ MarkReady(t) \/ PushKey(t) \/ WakeTask(t)

Task ==
  \/ Resume \/ SwitchMode \/ Finish \/ BeginPolling \/ SkipLane \/ EnterLane \/ LifecycleHint
  \/ DispatchOne \/ MailboxEmpty \/ PopKey \/ TakeReady \/ TakeHeld \/ Register
  \/ PollReady \/ PollHeld \/ EndHeld \/ EndPolling

Next == Others \/ Task

Safe == Init /\ [][Next]_vars

\* The executor runs a woken task, other threads run, and the events futures
\* wait for happen.
Fairness ==
  /\ WF_vars(Task)
  /\ \A t \in Threads : WF_vars(Fire(t) \/ MarkReady(t) \/ PushKey(t) \/ WakeTask(t))

Spec == Safe /\ Fairness

----------------------------------------------------------------------------
(* Correctness.                                                            *)

\* Every variable stays in its domain.
TypeOK ==
  /\ mode \in Graceful /\ expected \in Graceful /\ arrived \subseteq Replies
  /\ items \subseteq Replies /\ keys \in Seq(Replies) /\ lease \in items \cup {Free}
  /\ ready \in [Replies -> BOOLEAN] /\ waker \in [Replies -> BOOLEAN]
  /\ woken \in BOOLEAN /\ completed \in BOOLEAN
  /\ pc \in Steps /\ key \in Replies \cup {Free}
  /\ cursor \in Lanes /\ lane \in Lanes
  /\ dispatched \in 0..DispatchBudget /\ polled \in 0..PollBudget
  /\ tpc \in [Threads -> {"idle", "swap", "push", "wake"}]
  /\ fired \in [Threads -> 0..Fires] /\ seen \in [Threads -> 0..Fires]
  /\ begun \subseteq Replies /\ returned \subseteq Replies

\* What polls, leases and dispatches do, in the words of Pool.
Promise == INSTANCE Pool WITH
  gate <- mode, waiting <- arrived, running <- items, holder <- lease,
  view <- [r \in Replies |-> [w \in Wakers |-> seen[<<r, w>>]]]

\* Whatever turns, wakes, stale keys and shutdowns do: no more replies in flight
\* than the profile allows, none dispatched or polled beside the holder of the
\* lease, none polled after its return, none gone before it (ReplyState,
\* Queue, Lease).
PromiseKept == Promise!Spec

\* No wake-up is lost: when the task sleeps, nothing has woken it and no
\* thread is inside a wake, then every reply the lease does not pause has been
\* polled once, and since its last event (ReplyWake, access.rs: "Waking
\* schedules one poll of this handler alone").
Quiet == pc = "asleep" /\ ~woken /\ \A t \in Threads : tpc[t] = "idle"

Due(r) == r \notin begun \/ \E t \in Sources(r) : seen[t] # fired[t]

NoStrandedReply == Quiet => \A r \in items : lease \in {r, Free} => ~Due(r)

\* The one way to lose a wake-up, however often and by however many threads a
\* waker is called: an earlier call has taken the task's waker, and the reply
\* was not polled since.  A reply whose events happened once is never lost.
FiredOnce(r) ==
  \A t, u \in Sources(r) : fired[t] <= 1 /\ (t # u => fired[t] = 0 \/ fired[u] = 0)

OnlySpentWakersStrand ==
  Quiet => \A r \in items : lease \in {r, Free} /\ Due(r) =>
    r \in begun /\ ~waker[r] /\ ~FiredOnce(r)

\* Nor is a message: a sleeping task has left nothing in the mailbox that it
\* could dispatch (poll_turn reaches the mailbox lane in every turn).
NoStrandedMessage ==
  Quiet /\ mode = expected /\ HasDispatchCapacity => arrived = {}

\* The flag and the queue agree: a scheduled reply that is ready has its key
\* queued, or about to be pushed by the thread that raised the flag, or in the
\* task's hand; the task's next poll of the queue will not miss it.
ReadyKeyQueued ==
  \A r \in items : ready[r] =>
    \/ \E i \in DOMAIN keys : keys[i] = r
    \/ \E t \in Sources(r) : tpc[t] = "push"
    \/ pc = "take" /\ key = r

\* A future that has returned is never polled again, whatever stale keys and
\* retained wakers are left of it (Queue::poll_ready, access.rs: "Later wakes
\* become no-ops once the reply leaves the queue").  The exception is a reply
\* that may hold the lease, once a shutdown has committed: poll_leased may
\* have left it in the queue (ShutdownFinishes), but it leaves one at most.
NoPollAfterReturn ==
  pc \in {"poll", "pollHeld"} /\ key \in returned =>
    mode # "Running" /\ key \in Leasing /\ items \cap returned = {key}

\* Every event of a scheduled reply is seen by a later poll of it, although
\* budgets cut the drain short and keys are duplicated.
EventsSeen ==
  \A t \in Threads : (fired[t] > seen[t]) ~> (seen[t] = fired[t])

\* A graceful shutdown finishes the replies it retains: once their events
\* have happened, the loops of finish_replies and drain_actor end.
ShutdownFinishes == (mode # "Running") ~> (pc = "done")
=============================================================================
