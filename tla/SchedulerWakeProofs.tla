------------------------ MODULE SchedulerWakeProofs ------------------------
(***************************************************************************)
(* When a reply may be stranded (Scheduler), for every set of replies and  *)
(* threads, every budget and every number of wakes: only when a call of    *)
(* its waker has taken the task's waker and the reply was not polled       *)
(* since, and never after a single event.  What NoStrandedReply claims     *)
(* follows where every reply has one event.                                *)
(***************************************************************************)
EXTENDS SchedulerProofs

(***************************************************************************)
(* The inductive invariant, for one reply.                                 *)
(***************************************************************************)

\* The reply's flag is down and its poll not over.
BeingPolled(r) == key = r /\ pc \in {"register", "poll", "registerHeld", "pollHeld"}

Waking(t) == tpc[t] # "idle"

\* A reply that is due has its flag up, or a thread that is about to raise it.
FlagInv(r) ==
  r \in items /\ Due(r) /\ ~BeingPolled(r) =>
    ready[r] \/ \E t \in Sources(r) : tpc[t] = "swap"

\* Wakers are called after the first poll; there was an event before.
ThreadInv(r) ==
  \A t \in Sources(r) : Waking(t) => r \in begun /\ fired[t] > 0

\* Only a call takes the task's waker.
WakerInv(r) ==
  FiredOnce(r) /\ (r \in begun \/ (key = r /\ pc \in {"poll", "pollHeld"})) =>
    waker[r] \/ \E t \in Sources(r) : fired[t] > 0 /\ ~Waking(t)

\* Somebody will wake the task for this reply, or could not.
Alarm(r) == \/ woken \/ \E t \in Sources(r) : Waking(t)
            \/ r \in begun /\ ~waker[r] /\ ~FiredOnce(r)

\* The steps from which the task goes to sleep without another look at the
\* keys.  A turn that dispatches behind the reply lane goes round once more.
RepliesBehind == \/ cursor = "Reply" /\ lane # "Reply"
                 \/ cursor = "Mailbox" /\ lane = "ChildExit"
Leaving(r) == \/ pc = "asleep" /\ lease \in {r, Free}
              \/ pc = "endHeld" /\ key = r
              \/ pc \in {"lane", "mailbox"} /\ RepliesBehind
DispatchedNow == pc = "mailbox" /\ cursor = "Reply" /\ dispatched > 0

AlarmInv(r) == r \in items /\ Due(r) /\ Leaving(r) => Alarm(r) \/ DispatchedNow

WakeInv(r) == FlagInv(r) /\ ThreadInv(r) /\ WakerInv(r) /\ AlarmInv(r)

WInv == IInv /\ \A r \in Replies : WakeInv(r)

(***************************************************************************)
(* What the invariant reads of a step.                                     *)
(***************************************************************************)

\* A poll sees every event of its reply, and none of another.
LEMMA PollSees ==
  ASSUME IInv, PollReady \/ PollHeld, NEW r \in Replies
  PROVE  IF r = key THEN ~Due(r)' ELSE Due(r)' = Due(r)
<1>1. /\ seen' = [t \in Threads |-> IF t[1] = key THEN fired[t] ELSE seen[t]]
      /\ begun' = begun \cup {key} /\ fired' = fired
  BY DEF PollReady, PollHeld, PollFuture, threadVars
<1>2. Sources(r) \subseteq Threads /\ \A t \in Sources(r) : t[1] = r
  BY DEF Sources
<1>3. CASE r = key
  BY <1>1, <1>2, <1>3 DEF Due, Sources
<1>4. CASE r # key
  <2>1. \A t \in Sources(r) : seen'[t] = seen[t]
    BY <1>1, <1>2, <1>4 DEF IInv, TypeOK
  <2> QED
    BY <1>1, <1>4, <2>1 DEF Due, Sources
<1> QED
  BY <1>3, <1>4

\* No other step makes a reply due but an event of its own.
LEMMA DueSame ==
  ASSUME UNCHANGED <<begun, seen, fired>>, NEW r
  PROVE  Due(r)' = Due(r)
  BY DEF Due, Sources

(***************************************************************************)
(* The other threads.                                                      *)
(***************************************************************************)

\* What the steps of a thread leave alone.
LEMMA ThreadSteps ==
  ASSUME NEW t \in Threads, Fire(t) \/ MarkReady(t) \/ PushKey(t) \/ WakeTask(t)
  PROVE  UNCHANGED <<items, lease, pc, key, cursor, lane, dispatched, begun, seen>>
  BY DEF Fire, MarkReady, PushKey, WakeTask, queueVars, laneVars, drainVars, futureVars

LEMMA FireKeeps ==
  ASSUME IInv, NEW r \in Replies, WakeInv(r), NEW t \in Threads, Fire(t)
  PROVE  WakeInv(r)'
<1> USE DEF WakeInv
<1>0. UNCHANGED <<items, lease, pc, key, cursor, lane, dispatched, begun, seen, ready, waker, woken>>
  BY ThreadSteps DEF Fire, wakeVars
<1>1. /\ fired' = [fired EXCEPT ![t] = @ + 1] /\ tpc[t] = "idle"
      /\ tpc' = [tpc EXCEPT ![t] = IF t[1] \in begun THEN "swap" ELSE "idle"]
      /\ fired \in [Threads -> Nat] /\ tpc \in [Threads -> {"idle", "swap", "push", "wake"}]
  BY DEF Fire, IInv, TypeOK
<1>2. CASE t \in Sources(r)
  <2>1. t[1] = r /\ Sources(r) \subseteq Threads /\ fired[t] \in Nat /\ fired'[t] = fired[t] + 1
    BY <1>1, <1>2 DEF Sources
  <2>2. \A u \in Sources(r) : u # t => tpc'[u] = tpc[u] /\ fired'[u] = fired[u]
    BY <1>1, <2>1
  <2>3. r \in begun => tpc'[t] = "swap"
    BY <1>1, <2>1
  <2>4. r \notin begun => Due(r) /\ \A u \in Sources(r) : tpc'[u] = tpc[u]
    BY <1>1, <2>1, <2>2 DEF Due
  <2>5. FlagInv(r)'
    BY <1>0, <1>2, <2>3, <2>4 DEF FlagInv, BeingPolled, Sources
  <2>6. ThreadInv(r)'
    <3> SUFFICES ASSUME NEW u \in Sources(r), tpc'[u] # "idle"
                 PROVE  r \in begun /\ fired'[u] > 0
      BY <1>0 DEF ThreadInv, Waking, Sources
    <3>1. CASE u = t
      BY <1>1, <2>1, <3>1
    <3>2. CASE u # t
      BY <2>2, <3>2 DEF ThreadInv, Waking
    <3> QED
      BY <3>1, <3>2
  <2>7. WakerInv(r)'
    <3> SUFFICES ASSUME FiredOnce(r)', r \in begun \/ (key = r /\ pc \in {"poll", "pollHeld"})
                 PROVE  waker[r]
      BY <1>0 DEF WakerInv
    <3>1. \A u, v \in Sources(r) : fired'[u] <= 1 /\ (u # v => fired'[u] = 0 \/ fired'[v] = 0)
      BY DEF FiredOnce, Sources
    <3>2. fired[t] = 0 /\ \A u \in Sources(r) : u # t => fired[u] = 0
      BY <1>2, <2>1, <2>2, <3>1
    <3>3. \A u \in Sources(r) : fired[u] = 0
      BY <3>2
    <3>4. FiredOnce(r)
      BY <3>3 DEF FiredOnce
    <3> QED
      BY <3>3, <3>4 DEF WakerInv
  <2>8. AlarmInv(r)'
    <3> SUFFICES ASSUME r \in items, Leaving(r)
                 PROVE  Alarm(r)' \/ DispatchedNow
      BY <1>0 DEF AlarmInv, Leaving, RepliesBehind, DispatchedNow
    <3>1. CASE r \in begun
      BY <1>2, <2>3, <3>1 DEF Alarm, Waking, Sources
    <3>2. CASE r \notin begun
      <4>1. Alarm(r) \/ DispatchedNow
        BY <2>4, <3>2 DEF AlarmInv
      <4> QED
        BY <1>0, <2>4, <3>2, <4>1 DEF Alarm, Waking, Sources
    <3> QED
      BY <3>1, <3>2
  <2> QED
    BY <2>5, <2>6, <2>7, <2>8
<1>3. CASE t \notin Sources(r)
  <2>1. \A u \in Sources(r) : tpc'[u] = tpc[u] /\ fired'[u] = fired[u]
    BY <1>1, <1>3 DEF Sources
  <2>2. Due(r)' = Due(r) /\ FiredOnce(r)' = FiredOnce(r)
    BY <1>0, <2>1 DEF Due, FiredOnce, Sources
  <2>3. FlagInv(r)' /\ ThreadInv(r)'
    BY <1>0, <2>1, <2>2 DEF FlagInv, ThreadInv, BeingPolled, Waking, Sources
  <2>4. WakerInv(r)'
    BY <1>0, <2>1, <2>2 DEF WakerInv, Waking, Sources
  <2>5. AlarmInv(r)'
    BY <1>0, <2>1, <2>2
    DEF AlarmInv, Alarm, Leaving, RepliesBehind, DispatchedNow, Waking, Sources
  <2> QED
    BY <2>3, <2>4, <2>5
<1> QED
  BY <1>2, <1>3

\* The flag goes up, the key is pushed; the thread is not done yet.
LEMMA SignalKeeps ==
  ASSUME IInv, NEW r \in Replies, WakeInv(r), NEW t \in Threads, MarkReady(t) \/ PushKey(t)
  PROVE  WakeInv(r)'
<1> USE DEF WakeInv
<1>0. UNCHANGED <<items, lease, pc, key, cursor, lane, dispatched, begun, seen, fired, waker, woken>>
  BY ThreadSteps DEF MarkReady, PushKey, wakeVars
<1>1. Due(r)' = Due(r) /\ FiredOnce(r)' = FiredOnce(r)
  BY <1>0 DEF Due, FiredOnce, Sources
<1>2. \A u \in Sources(r) : Waking(u)' = Waking(u)
  BY DEF MarkReady, PushKey, Waking, Sources, IInv, TypeOK
<1>3. FlagInv(r)'
  <2>1. t[1] \in Replies
    BY DEF Threads
  <2>2. ready[r] => ready'[r]
    BY <2>1 DEF MarkReady, PushKey, IInv, TypeOK, wakeVars
  <2>3. \A u \in Sources(r) : tpc[u] = "swap" => tpc'[u] = "swap" \/ ready'[r]
    BY DEF MarkReady, PushKey, Sources, IInv, TypeOK
  <2> QED
    BY <1>0, <1>1, <2>2, <2>3 DEF FlagInv, BeingPolled, Sources
<1>4. ThreadInv(r)'
  BY <1>0, <1>2 DEF ThreadInv, Sources
<1>5. WakerInv(r)'
  BY <1>0, <1>1, <1>2 DEF WakerInv, Sources
<1>6. AlarmInv(r)'
  BY <1>0, <1>1, <1>2 DEF AlarmInv, Alarm, Leaving, RepliesBehind, DispatchedNow, Sources
<1> QED
  BY <1>3, <1>4, <1>5, <1>6

\* The task's waker is taken: the task is woken, or this is not the first call.
LEMMA WakeTaskKeeps ==
  ASSUME IInv, NEW r \in Replies, WakeInv(r), NEW t \in Threads, WakeTask(t)
  PROVE  WakeInv(r)'
<1> USE DEF WakeInv
<1>0. UNCHANGED <<items, lease, pc, key, cursor, lane, dispatched, begun, seen, fired, ready>>
  BY ThreadSteps DEF WakeTask
<1>1. Due(r)' = Due(r) /\ FiredOnce(r)' = FiredOnce(r)
  BY <1>0 DEF Due, FiredOnce, Sources
<1>2. /\ tpc[t] = "wake" /\ tpc' = [tpc EXCEPT ![t] = "idle"] /\ tpc'[t] = "idle"
      /\ \A u \in Sources(r) : u # t => tpc'[u] = tpc[u]
      /\ waker' = [waker EXCEPT ![t[1]] = FALSE] /\ woken' = (woken \/ waker[t[1]])
      /\ t[1] \in Replies /\ waker \in [Replies -> BOOLEAN]
  BY DEF WakeTask, IInv, TypeOK, Sources, Threads
<1>3. FlagInv(r)'
  BY <1>0, <1>1, <1>2 DEF FlagInv, BeingPolled, Sources
<1>4. ThreadInv(r)'
  BY <1>0, <1>2 DEF ThreadInv, Waking, Sources
<1>5. CASE t \in Sources(r)
  <2>1. t[1] = r /\ Waking(t) /\ ~Waking(t)' /\ r \in begun /\ fired[t] > 0
    BY <1>2, <1>5 DEF ThreadInv, Waking, Sources
  <2>2. WakerInv(r)'
    BY <1>0, <1>5, <2>1 DEF WakerInv, Sources
  <2>3. FiredOnce(r) => waker[r]
    <3> SUFFICES ASSUME FiredOnce(r), NEW u \in Sources(r), fired[u] > 0, ~Waking(u)
                 PROVE  FALSE
      BY <2>1 DEF WakerInv
    <3>1. u # t /\ fired[u] \in Nat /\ fired[t] \in Nat
      BY <1>2 DEF Waking, IInv, TypeOK, Sources
    <3> QED
      BY <1>5, <2>1, <3>1 DEF FiredOnce
  <2>4. Alarm(r)'
    BY <1>0, <1>1, <1>2, <2>1, <2>3 DEF Alarm
  <2> QED
    BY <1>3, <1>4, <2>2, <2>4 DEF AlarmInv
<1>6. CASE t \notin Sources(r)
  <2>1. t[1] # r /\ waker'[r] = waker[r] /\ (woken => woken')
    BY <1>2, <1>6 DEF Sources
  <2>2. \A u \in Sources(r) : Waking(u)' = Waking(u)
    BY <1>2, <1>6 DEF Waking
  <2>3. WakerInv(r)'
    BY <1>0, <1>1, <2>1, <2>2 DEF WakerInv, Sources
  <2>4. AlarmInv(r)'
    BY <1>0, <1>1, <2>1, <2>2 DEF AlarmInv, Alarm, Leaving, RepliesBehind, DispatchedNow, Sources
  <2> QED
    BY <1>3, <1>4, <2>3, <2>4
<1> QED
  BY <1>5, <1>6

LEMMA OthersKeepWakes ==
  ASSUME IInv, Others, NEW r \in Replies, WakeInv(r)
  PROVE  WakeInv(r)'
<1>1. CASE Shutdown \/ \E m \in Replies : Arrive(m)
  <2>1. woken' = TRUE
        /\ UNCHANGED <<items, lease, pc, key, cursor, lane, dispatched, begun, seen, fired, ready, waker,
                       tpc>>
    BY <1>1 DEF Shutdown, NotifyActor, Arrive, queueVars, laneVars, drainVars, futureVars, threadVars,
       wakeVars
  <2>2. Due(r)' = Due(r) /\ FiredOnce(r)' = FiredOnce(r)
    BY <2>1 DEF Due, FiredOnce, Sources
  <2>3. Alarm(r)'
    BY <2>1 DEF Alarm
  <2> QED
    BY <2>1, <2>2, <2>3 DEF WakeInv, FlagInv, BeingPolled, ThreadInv, WakerInv, Waking, AlarmInv, Sources
<1> QED
  BY <1>1, FireKeeps, SignalKeeps, WakeTaskKeeps DEF Others

(***************************************************************************)
(* The task, part by part.                                                 *)
(***************************************************************************)

\* The task fires nothing and forgets no poll.
LEMMA TaskSteps ==
  ASSUME Task
  PROVE  /\ UNCHANGED <<fired, tpc>> /\ begun \subseteq begun'
         /\ PollReady \/ PollHeld \/ UNCHANGED <<begun, seen>>
  BY DEF Task, Resume, SwitchMode, Finish, BeginPolling, SkipLane, EnterLane, LifecycleHint,
     DispatchOne, MailboxEmpty, PopKey, TakeReady, TakeHeld, Register, PollReady, PollHeld,
     EndHeld, EndPolling, PollFuture, threadVars, futureVars

LEMMA TaskKeepsThreads ==
  ASSUME Task, NEW r \in Replies, ThreadInv(r)
  PROVE  ThreadInv(r)'
  BY TaskSteps DEF ThreadInv, Waking, Sources

LEMMA TaskKeepsFlags ==
  ASSUME IInv, Task, NEW r \in Replies, FlagInv(r)
  PROVE  FlagInv(r)'
<1>1. \A t \in Sources(r) : tpc'[t] = tpc[t]
  BY TaskSteps
<1>2. CASE PollReady \/ PollHeld
  <2>1. items' \subseteq items /\ UNCHANGED <<ready, key>> /\ (BeingPolled(r) => r = key)
    BY <1>2 DEF PollReady, PollHeld, Without, BeingPolled, wakeVars, drainVars
  <2> QED
    BY <1>1, <1>2, <2>1, PollSees DEF FlagInv, Sources
<1>3. CASE ~(PollReady \/ PollHeld)
  <2>1. Due(r)' = Due(r)
    BY <1>3, TaskSteps, DueSame
  <2>2. SUFFICES ASSUME r \in items', Due(r), ~BeingPolled(r)',
                        r \in items /\ ~BeingPolled(r) =>
                          ready[r] \/ \E t \in Sources(r) : tpc[t] = "swap"
                 PROVE  ready'[r] \/ \E t \in Sources(r) : tpc[t] = "swap"
    BY <1>1, <2>1 DEF FlagInv, Sources
  <2>3. CASE DispatchOne
    BY <2>2, <2>3 DEF DispatchOne, BeingPolled, IInv, TypeOK
  <2>4. CASE TakeReady \/ TakeHeld
    <3>1. pc \in {"take", "turn"} /\ items' = items
      BY <2>4 DEF TakeReady, TakeHeld, queueVars
    <3>2. ~BeingPolled(r)
      BY <3>1 DEF BeingPolled
    <3>3. ready[r] => ready'[r]
      <4>1. CASE TakeReady
        BY <2>2, <4>1 DEF TakeReady, BeingPolled, IInv, TypeOK, HandInv, InHand, drainVars
      <4>2. CASE TakeHeld
        BY <2>2, <4>2 DEF TakeHeld, BeingPolled, IInv, TypeOK, Leased
      <4> QED
        BY <2>4, <4>1, <4>2
    <3> QED
      BY <2>2, <3>1, <3>2, <3>3
  <2>5. CASE EndHeld
    BY <2>2, <2>5 DEF EndHeld, BeingPolled, Without, wakeVars
  <2>6. CASE PopKey \/ Register
    BY <2>2, <2>6 DEF PopKey, Register, BeingPolled, wakeVars, queueVars, drainVars
  <2>7. CASE Resume \/ SwitchMode \/ Finish \/ BeginPolling \/ SkipLane \/ EnterLane
               \/ LifecycleHint \/ MailboxEmpty \/ EndPolling
    <3>1. UNCHANGED <<items, ready>> /\ ~BeingPolled(r)
      BY <2>7 DEF Resume, SwitchMode, Finish, BeginPolling, SkipLane, EnterLane, LifecycleHint,
         MailboxEmpty, EndPolling, BeingPolled, wakeVars, queueVars
    <3> QED
      BY <2>2, <3>1
  <2> QED
    BY <1>3, <2>3, <2>4, <2>5, <2>6, <2>7 DEF Task
<1> QED
  BY <1>2, <1>3

LEMMA TaskKeepsWakers ==
  ASSUME IInv, Task, NEW r \in Replies, WakerInv(r)
  PROVE  WakerInv(r)'
<1>1. /\ FiredOnce(r)' = FiredOnce(r)
      /\ \A t \in Sources(r) : Waking(t)' = Waking(t) /\ fired'[t] = fired[t]
  BY TaskSteps DEF FiredOnce, Waking, Sources
<1>2. \/ waker'[r] = TRUE
      \/ waker' = waker
      \/ waker'[r] = waker[r] /\ UNCHANGED begun /\ key' # r
  BY DEF Task, Resume, SwitchMode, Finish, BeginPolling, SkipLane, EnterLane, LifecycleHint,
     DispatchOne, MailboxEmpty, PopKey, TakeReady, TakeHeld, Register, PollReady, PollHeld,
     EndHeld, EndPolling, wakeVars, drainVars, futureVars, IInv, TypeOK
<1>3. waker' = waker =>
        (r \in begun' \/ (key' = r /\ pc' \in {"poll", "pollHeld"}) =>
          r \in begun \/ (key = r /\ pc \in {"poll", "pollHeld"}) \/ waker[r])
  <2>1. CASE Register
    BY <2>1 DEF Register, IInv, TypeOK, HandInv, InHand, Holding, futureVars, drainVars
  <2>2. CASE PollReady \/ PollHeld
    BY <2>2 DEF PollReady, PollHeld, PollFuture, drainVars
  <2>3. CASE ~Register /\ ~PollReady /\ ~PollHeld
    <3>1. begun' = begun /\ pc' \notin {"poll", "pollHeld"}
      BY <2>3, TaskSteps DEF Task, Resume, SwitchMode, Finish, BeginPolling, SkipLane, EnterLane,
         LifecycleHint, DispatchOne, MailboxEmpty, PopKey, TakeReady, TakeHeld, EndHeld, EndPolling,
         LanePending, LaneProgress, BudgetExhausted, PollingProgress, PollingPending
    <3> QED
      BY <3>1
  <2> QED
    BY <2>1, <2>2, <2>3
<1> QED
  BY <1>1, <1>2, <1>3 DEF WakerInv, Sources

LEMMA TaskKeepsAlarms ==
  ASSUME IInv, Task, NEW r \in Replies, FlagInv(r), AlarmInv(r)
  PROVE  AlarmInv(r)'
<1>1. FiredOnce(r)' = FiredOnce(r) /\ \A t \in Sources(r) : Waking(t)' = Waking(t)
  BY TaskSteps DEF FiredOnce, Waking, Sources
<1>2. SUFFICES ASSUME r \in items', Due(r)', Leaving(r)'
               PROVE  Alarm(r)' \/ DispatchedNow'
  BY DEF AlarmInv
<1>3. ASSUME \E t \in Sources(r) : Waking(t)
      PROVE  Alarm(r)'
  BY <1>1, <1>3 DEF Alarm, Sources
<1>4. ASSUME UNCHANGED <<begun, waker, woken>>, Alarm(r)
      PROVE  Alarm(r)'
  BY <1>1, <1>4 DEF Alarm, Sources
<1>5. ASSUME ~(PollReady \/ PollHeld)
      PROVE  Due(r)
  BY <1>2, <1>5, TaskSteps, DueSame
<1>6. CASE Resume \/ SwitchMode \/ Finish \/ BeginPolling \/ LifecycleHint \/ PopKey \/ TakeReady
           \/ Register
  BY <1>2, <1>6 DEF Resume, SwitchMode, Finish, BeginPolling, LifecycleHint, PopKey, TakeReady,
     Register, Leaving, RepliesBehind, IInv, TypeOK, Lanes
<1>7. CASE SkipLane
  <2>1. /\ pc = "lane" /\ UNCHANGED <<items, lease, key, begun, waker, woken>> /\ LanePending
        /\ lane # "Reply"
    BY <1>2, <1>7 DEF SkipLane, queueVars, futureVars, wakeVars, drainVars
  <2>2. RepliesBehind
    BY <1>2, <2>1 DEF LanePending, NextLane, Leaving, RepliesBehind, IInv, TypeOK, Lanes
  <2> QED
    BY <1>4, <1>5, <1>7, <2>1, <2>2, <1>2 DEF AlarmInv, Leaving, DispatchedNow, SkipLane, PollReady, PollHeld
<1>8. CASE EnterLane
  <2>1. /\ pc = "lane" /\ RepliesBehind
        /\ UNCHANGED <<items, lease, key, begun, waker, woken>>
    BY <1>2, <1>8 DEF EnterLane, Leaving, RepliesBehind, queueVars, laneVars, futureVars, wakeVars,
       drainVars
  <2> QED
    BY <1>2, <1>4, <1>5, <2>1 DEF AlarmInv, Leaving, DispatchedNow, PollReady, PollHeld
<1>9. CASE DispatchOne
  <2>1. pc' = "mailbox" /\ dispatched' = dispatched + 1 /\ UNCHANGED <<cursor, lane>>
    BY <1>2, <1>9 DEF DispatchOne, LaneProgress, Leaving
  <2>2. lane = "Mailbox" /\ dispatched \in Nat
    BY <1>9, SchedulerAssumption DEF DispatchOne, IInv, LaneInv, TypeOK
  <2> QED
    BY <1>2, <2>1, <2>2 DEF Leaving, RepliesBehind, DispatchedNow
<1>10. CASE MailboxEmpty
  <2>1. /\ pc = "mailbox" /\ lane = "Mailbox" /\ LanePending /\ ~DispatchedBehindReplies
        /\ UNCHANGED <<items, lease, key, begun, waker, woken>>
    BY <1>2, <1>10 DEF MailboxEmpty, IInv, LaneInv, LaneProgress, Leaving, queueVars, futureVars,
       wakeVars, drainVars
  <2>2. RepliesBehind
    BY <1>2, <2>1 DEF LanePending, NextLane, Leaving, RepliesBehind, IInv, TypeOK, Lanes
  <2>3. ~DispatchedNow
    BY <1>2, <2>1 DEF DispatchedBehindReplies, DispatchedNow
  <2> QED
    BY <1>2, <1>4, <1>5, <2>1, <2>2, <2>3 DEF AlarmInv, Leaving, PollReady, PollHeld
<1>11. CASE TakeHeld
  <2>1. pc = "turn" /\ lease = r /\ ~ready[r] /\ items' = items
    BY <1>2, <1>11 DEF TakeHeld, Leaving, queueVars, Leased
  <2>2. \E t \in Sources(r) : tpc[t] = "swap"
    BY <1>2, <1>5, <2>1 DEF FlagInv, BeingPolled, PollReady, PollHeld
  <2> QED
    BY <1>3, <2>2 DEF Waking
<1>12. CASE PollReady
  <2>1. pc' = "asleep" /\ lease' \in LeaseAfter(key) /\ lease' # Free
    BY <1>2, <1>12 DEF PollReady, EndsDrain, Leaving
  <2>2. lease' = key
    BY <1>12, <2>1 DEF LeaseAfter, PollReady, IInv, HandInv, InTurn, Polling
  <2>3. r = key
    BY <1>2, <2>1, <2>2 DEF Leaving
  <2> QED
    BY <1>2, <1>12, <2>3, PollSees
<1>13. CASE PollHeld
  <2>1. r = key
    BY <1>2, <1>13 DEF PollHeld, Leaving, drainVars
  <2> QED
    BY <1>2, <1>13, <2>1, PollSees
<1>14. CASE EndHeld
  <2>1. /\ pc = "endHeld" /\ key \notin returned /\ lease = key /\ pc' = "asleep"
        /\ UNCHANGED <<items, lease, begun, waker, woken>>
    BY <1>2, <1>14 DEF EndHeld, HeldPausesRest, Leaving, futureVars, wakeVars
  <2>2. r = key
    BY <1>2, <2>1, SchedulerAssumption DEF Leaving, IInv, TypeOK, HandInv, Holding
  <2> QED
    BY <1>2, <1>4, <1>5, <2>1, <2>2 DEF AlarmInv, Leaving, DispatchedNow, PollReady, PollHeld
<1>15. CASE EndPolling
  <2>1. pc = "drained" /\ items' = items /\ (woken' \/ keys = <<>>)
    BY <1>2, <1>15 DEF EndPolling, BudgetExhausted, SelfWake, PollingProgress, LaneProgress, Leaving,
       queueVars
  <2>2. ASSUME keys = <<>>
        PROVE  \E t \in Sources(r) : Waking(t)
    <3>1. ready[r] \/ \E t \in Sources(r) : tpc[t] = "swap"
      BY <1>2, <1>5, <2>1 DEF FlagInv, BeingPolled, PollReady, PollHeld
    <3>2. ready[r] => \E t \in Sources(r) : tpc[t] = "push"
      BY <1>2, <2>1, <2>2 DEF IInv, ReadyKeyQueued
    <3> QED
      BY <3>1, <3>2 DEF Waking
  <2> QED
    BY <1>3, <2>1, <2>2 DEF Alarm
<1> QED
  BY <1>6, <1>7, <1>8, <1>9, <1>10, <1>11, <1>12, <1>13, <1>14, <1>15 DEF Task

(***************************************************************************)
(* The theorems.                                                           *)
(***************************************************************************)

LEMMA WInitial ==
  ASSUME Init
  PROVE  WInv
<1>1. IInv
  BY InvInit
<1>2. ASSUME NEW r \in Replies PROVE WakeInv(r)
  BY SchedulerAssumption
  DEF Init, WakeInv, FlagInv, ThreadInv, WakerInv, AlarmInv, Waking, Leaving, Sources
<1> QED
  BY <1>1, <1>2 DEF WInv

LEMMA WNext ==
  ASSUME WInv, [Next]_vars
  PROVE  WInv'
<1>1. IInv /\ IInv'
  BY InvNext DEF WInv
<1>2. ASSUME NEW r \in Replies PROVE WakeInv(r)'
  <2>1. WakeInv(r)
    BY <1>2 DEF WInv
  <2>2. CASE Others
    BY <1>1, <2>1, <2>2, OthersKeepWakes
  <2>3. CASE Task
    BY <1>1, <2>1, <2>3, TaskKeepsThreads, TaskKeepsFlags, TaskKeepsWakers, TaskKeepsAlarms DEF WakeInv
  <2>4. CASE UNCHANGED vars
    <3>1. UNCHANGED <<items, lease, pc, key, cursor, lane, dispatched, begun, seen, ready, waker, woken,
                      fired, tpc>>
      BY <2>4 DEF vars, queueVars, laneVars, drainVars, futureVars, wakeVars, threadVars
    <3> QED
      BY <2>1, <3>1 DEF WakeInv, FlagInv, Due, BeingPolled, ThreadInv, WakerInv, Waking, FiredOnce,
         AlarmInv, Alarm, Leaving, RepliesBehind, DispatchedNow, Sources
  <2> QED
    BY <2>2, <2>3, <2>4 DEF Next
<1> QED
  BY <1>1, <1>2 DEF WInv

LEMMA WInvariant == Safe => []WInv
<1>1. Init => WInv
  BY WInitial
<1>2. WInv /\ [Next]_vars => WInv'
  BY WNext
<1> QED
  BY <1>1, <1>2, PTL DEF Safe

\* A task that sleeps on a reply with an event it has not seen, or one never
\* polled, has lost its waker to an earlier call of the same waker: no
\* interleaving of polls, pushes and wakes loses one otherwise (ReplyWake,
\* Queue::poll_ready).
THEOREM OnlySpentWakersStrandAlways == Safe => []OnlySpentWakersStrand
<1>1. WInv => OnlySpentWakersStrand
  <2> SUFFICES ASSUME WInv, Quiet, NEW r \in items, lease \in {r, Free}, Due(r)
               PROVE  r \in begun /\ ~waker[r] /\ ~FiredOnce(r)
    BY DEF OnlySpentWakersStrand
  <2>1. r \in Replies /\ AlarmInv(r)
    BY DEF WInv, IInv, TypeOK, WakeInv
  <2>2. Alarm(r)
    BY <2>1 DEF AlarmInv, Leaving, DispatchedNow, Quiet
  <2> QED
    BY <2>2 DEF Alarm, Quiet, Waking, Sources
<1> QED
  BY <1>1, WInvariant, PTL

\* Where each reply waits for one event, the claim of access.rs holds as it
\* stands: nothing that sleeps is due.
THEOREM SingleEventsStrandNothing ==
  ASSUME Fires = 1, \A v, w \in Wakers : v = w
  PROVE  Safe => []NoStrandedReply
<1>1. ASSUME TypeOK, OnlySpentWakersStrand
      PROVE  NoStrandedReply
  <2>1. ASSUME NEW r PROVE FiredOnce(r)
    BY <1>1 DEF FiredOnce, Sources, Threads, TypeOK
  <2> QED
    BY <1>1, <2>1 DEF OnlySpentWakersStrand, NoStrandedReply
<1>2. WInv => TypeOK
  BY DEF WInv, IInv
<1> QED
  BY <1>1, <1>2, WInvariant, OnlySpentWakersStrandAlways, PTL
=============================================================================
