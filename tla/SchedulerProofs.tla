-------------------------- MODULE SchedulerProofs --------------------------
(***************************************************************************)
(* Theorems about Scheduler, for every set of replies and threads and every *)
(* budget: the variables stay in their domains, the lease excludes, the    *)
(* ready flags and the key queue agree, nothing is polled after it has     *)
(* returned, no message is left behind by a task that sleeps, and all of   *)
(* it implements Pool.  When a reply may be left behind is the subject of  *)
(* SchedulerWakeProofs.                                                    *)
(***************************************************************************)
EXTENDS Scheduler, FiniteSetTheorems, TLAPS

(***************************************************************************)
(* The inductive invariant, in parts.                                      *)
(***************************************************************************)

\* The steps of a turn, those that poll the key in hand, and those of the holder.
Polling == {"pop", "take", "register", "poll", "drained"}
InTurn  == {"lane", "mailbox"} \cup Polling
InHand  == {"take", "register", "poll"}
Holding == {"registerHeld", "pollHeld", "endHeld"}

\* A turn runs without a lease, poll_leased with one, and what they have in
\* hand is scheduled: only the task removes replies.
HandInv ==
  /\ pc \in InTurn => lease = Free
  /\ pc \in InHand => key \in items /\ polled < PollBudget
  /\ pc \in Holding => key \in items \cap Leasing /\ lease \in {key, Free}
  /\ pc \in {"registerHeld", "pollHeld"} => lease = key
  /\ lease # Free => lease \in Leasing
  /\ dispatched < DispatchBudget

\* A message is in the mailbox, in the slot map, or has returned.  It is in two
\* of these places only between the poll it returned from and its removal, or
\* when poll_leased has missed its return.
PlaceInv ==
  /\ arrived \cap items = {} /\ arrived \cap returned = {}
  /\ mode = "Running" => expected = "Running"
  /\ \A r \in items \cap returned : \/ mode # "Running" /\ r \in Leasing
                                    \/ pc = "endHeld" /\ key = r

\* The turn has left the mailbox lane behind.
MailboxBehind == \/ cursor = "Mailbox" /\ lane # "Mailbox"
                 \/ cursor = "ChildExit" /\ lane = "Reply"

\* A turn that has left messages behind comes round again: it was woken since,
\* or a reply has returned in it.  A task that sleeps was woken.
Behind == arrived # {} /\ HasDispatchCapacity /\ Serving
LaneInv ==
  /\ expected = "Stopping" => arrived = {}
  /\ pc = "mailbox" => lane = "Mailbox"
  /\ pc \in Polling /\ expected # "Stopping" => lane = "Reply"
  /\ pc \in {"lane", "mailbox"} => ~completed
  /\ pc = "asleep" /\ Behind => woken
  /\ pc \in InTurn /\ MailboxBehind /\ Behind => woken \/ completed

IInv == TypeOK /\ HandInv /\ PlaceInv /\ LaneInv /\ ReadyKeyQueued

(***************************************************************************)
(* Facts about the key queue, and what groups of steps leave alone.        *)
(***************************************************************************)

Queued(r, s) == \E i \in DOMAIN s : s[i] = r

\* A pushed key is queued, and those before it still are.
LEMMA Pushed ==
  ASSUME NEW s \in Seq(Replies), NEW e \in Replies
  PROVE  /\ Append(s, e) \in Seq(Replies) /\ Queued(e, Append(s, e))
         /\ \A r : Queued(r, s) => Queued(r, Append(s, e))
<1>1. /\ Append(s, e) \in Seq(Replies) /\ Len(s) \in Nat /\ Len(Append(s, e)) = Len(s) + 1
      /\ Append(s, e)[Len(s) + 1] = e
      /\ \A i \in 1..Len(s) : Append(s, e)[i] = s[i]
  OBVIOUS
<1>2. DOMAIN s = 1..Len(s) /\ DOMAIN Append(s, e) = 1..(Len(s) + 1)
  BY <1>1
<1>3. Len(s) + 1 \in 1..(Len(s) + 1) /\ \A i \in 1..Len(s) : i \in 1..(Len(s) + 1)
  BY <1>1
<1> QED
  BY <1>1, <1>2, <1>3 DEF Queued

\* Popping takes the first key away, and only that.
LEMMA Popped ==
  ASSUME NEW s \in Seq(Replies), s # <<>>
  PROVE  /\ Head(s) \in Replies /\ Tail(s) \in Seq(Replies)
         /\ \A r : Queued(r, s) => r = Head(s) \/ Queued(r, Tail(s))
<1>1. /\ Head(s) \in Replies /\ Tail(s) \in Seq(Replies)
      /\ Len(s) \in Nat /\ Len(s) > 0 /\ Len(Tail(s)) = Len(s) - 1 /\ Head(s) = s[1]
      /\ \A i \in 1..(Len(s) - 1) : Tail(s)[i] = s[i + 1]
  OBVIOUS
<1>2. DOMAIN s = 1..Len(s) /\ DOMAIN Tail(s) = 1..(Len(s) - 1)
  BY <1>1
<1>3. ASSUME NEW r, NEW i \in DOMAIN s, s[i] = r, i # 1
      PROVE  Queued(r, Tail(s))
  <2>1. i - 1 \in 1..(Len(s) - 1) /\ (i - 1) + 1 = i
    BY <1>1, <1>2, <1>3
  <2>2. Tail(s)[i - 1] = r
    BY <1>1, <1>3, <2>1
  <2> QED
    BY <1>2, <2>1, <2>2 DEF Queued
<1> QED
  BY <1>1, <1>3 DEF Queued

\* Whether there is room for a dispatch depends on the queue only.
LEMMA SameCapacity ==
  ASSUME UNCHANGED <<items, lease>>
  PROVE  HasDispatchCapacity' = HasDispatchCapacity
  BY DEF HasDispatchCapacity, Leased

(***************************************************************************)
(* Types.                                                                  *)
(***************************************************************************)

LEMMA OthersTyped ==
  ASSUME IInv, Others
  PROVE  TypeOK'
<1> USE DEF IInv, TypeOK, lifeVars, wakeVars, queueVars, laneVars, drainVars, threadVars, futureVars
<1>1. ASSUME NEW r \in Replies, Arrive(r) PROVE TypeOK'
  BY <1>1 DEF Arrive
<1>2. CASE Shutdown
  BY <1>2 DEF Shutdown, NotifyActor, Graceful
<1>3. ASSUME NEW t \in Threads, Fire(t) PROVE TypeOK'
  <2>1. Fires \in Nat /\ fired[t] + 1 \in 0..Fires
    BY <1>3, SchedulerAssumption DEF Fire
  <2> QED
    BY <1>3, <2>1 DEF Fire
<1>4. ASSUME NEW t \in Threads, MarkReady(t) \/ PushKey(t) \/ WakeTask(t) PROVE TypeOK'
  <2>1. t[1] \in Replies
    BY DEF Threads
  <2>2. Append(keys, t[1]) \in Seq(Replies)
    BY <2>1
  <2> QED
    BY <1>4, <2>1, <2>2 DEF MarkReady, PushKey, WakeTask
<1> QED
  BY <1>1, <1>2, <1>3, <1>4 DEF Others

\* The lanes a turn moves on to are lanes.
LEMMA LanesTyped ==
  ASSUME NEW l \in Lanes
  PROVE  NextLane[l] \in Lanes
  BY DEF Lanes, NextLane

LEMMA TaskTyped ==
  ASSUME IInv, Task
  PROVE  TypeOK'
<1> USE DEF IInv, TypeOK, lifeVars, wakeVars, queueVars, laneVars, drainVars, threadVars, futureVars
<1>1. CASE Resume \/ SwitchMode \/ Finish \/ LifecycleHint \/ EnterLane
  BY <1>1 DEF Resume, SwitchMode, Finish, LifecycleHint, EnterLane, Steps
<1>2. CASE BeginPolling
  <2>1. 0 \in 0..PollBudget /\ 0 \in 0..DispatchBudget
    BY SchedulerAssumption
  <2> QED
    BY <1>2, <2>1 DEF BeginPolling, Steps
<1>3. CASE SkipLane \/ MailboxEmpty
  BY <1>3, LanesTyped DEF SkipLane, MailboxEmpty, LaneProgress, LanePending, Steps
<1>4. CASE DispatchOne
  <2>1. PICK r \in arrived :
          /\ arrived' = arrived \ {r}
          /\ \/ items' = items \cup {r} /\ ready' = [ready EXCEPT ![r] = TRUE]
                /\ keys' = Append(keys, r)
             \/ UNCHANGED <<items, ready, keys>>
    BY <1>4 DEF DispatchOne
  <2>2. Append(keys, r) \in Seq(Replies)
    BY <2>1
  <2>3. dispatched + 1 # DispatchBudget => dispatched + 1 \in 0..DispatchBudget
    BY SchedulerAssumption DEF HandInv
  <2>4. /\ pc' \in Steps /\ cursor' \in Lanes /\ lane' \in Lanes
        /\ dispatched' \in 0..DispatchBudget
    BY <1>4, <2>3, LanesTyped DEF DispatchOne, LaneProgress, Steps
  <2> QED
    BY <1>4, <2>1, <2>2, <2>4 DEF DispatchOne
<1>5. CASE PopKey
  <2>1. keys # <<>> => Head(keys) \in Replies /\ Tail(keys) \in Seq(Replies)
    BY Popped
  <2> QED
    BY <1>5, <2>1 DEF PopKey, Steps
<1>6. CASE TakeReady \/ Register
  BY <1>6 DEF TakeReady, Register, Steps
<1>7. CASE TakeHeld
  BY <1>7 DEF TakeHeld, Leased, Steps
<1>8. CASE PollReady \/ PollHeld
  <2>1. /\ key \in items
        /\ seen' = [t \in Threads |-> IF t[1] = key THEN fired[t] ELSE seen[t]]
        /\ begun' \subseteq Replies /\ returned' \subseteq Replies
    BY <1>8 DEF PollReady, PollHeld, PollFuture, HandInv, InHand, Holding
  <2>2. seen' \in [Threads -> 0..Fires]
    BY <2>1
  <2>3. pc = "poll" => polled + 1 \in 0..PollBudget
    BY SchedulerAssumption DEF HandInv, InHand
  <2>4. CASE PollReady
    <3>1. PICK l \in LeaseAfter(key) :
            /\ \/ items' = items \ {key} /\ lease' = WithoutLeaseOf(key, l)
               \/ items' = items /\ lease' = l
            /\ pc' \in {"pop", "asleep"} /\ polled' \in {polled, polled + 1} /\ completed' \in BOOLEAN
      BY <2>4 DEF PollReady, Without
    <3>2. l \in {key, Free} /\ key # Free
      BY <2>1, <2>4, <3>1, SchedulerAssumption DEF LeaseAfter, PollReady, HandInv, InTurn, Polling
    <3>3. lease' \in items' \cup {Free} /\ items' \subseteq Replies
      BY <2>1, <3>1, <3>2 DEF WithoutLeaseOf
    <3> QED
      BY <2>1, <2>2, <2>3, <2>4, <3>1, <3>3 DEF PollReady, Steps
  <2>5. CASE PollHeld
    BY <2>1, <2>2, <2>5 DEF PollHeld, LeaseAfter, Steps
  <2> QED
    BY <1>8, <2>4, <2>5
<1>9. CASE EndHeld
  BY <1>9 DEF EndHeld, Without, WithoutLeaseOf, HeldPausesRest, Steps, HandInv, Holding
<1>10. CASE EndPolling
  BY <1>10, LanesTyped DEF EndPolling, BudgetExhausted, SelfWake, PollingProgress, PollingPending,
     LaneProgress, LanePending, Steps
<1> QED
  BY <1>1, <1>2, <1>3, <1>4, <1>5, <1>6, <1>7, <1>8, <1>9, <1>10 DEF Task

(***************************************************************************)
(* What the task has in hand.                                              *)
(***************************************************************************)

LEMMA OthersHand ==
  ASSUME IInv, Others
  PROVE  HandInv'
<1>1. UNCHANGED <<pc, lease, items, key, polled, dispatched>>
  BY DEF Others, Arrive, Shutdown, Fire, MarkReady, PushKey, WakeTask, queueVars, laneVars, drainVars
<1> QED
  BY <1>1 DEF IInv, HandInv

LEMMA TaskHand ==
  ASSUME IInv, Task
  PROVE  HandInv'
<1> USE DEF IInv, HandInv, InTurn, InHand, Polling, Holding, queueVars, laneVars, drainVars
<1>1. CASE Resume \/ SwitchMode \/ Finish \/ LifecycleHint
  BY <1>1 DEF Resume, SwitchMode, Finish, LifecycleHint
<1>2. CASE BeginPolling \/ EnterLane
  <2>1. 0 < DispatchBudget
    BY SchedulerAssumption
  <2> QED
    BY <1>2, <2>1 DEF BeginPolling, EnterLane, Leased
<1>3. CASE SkipLane \/ MailboxEmpty
  BY <1>3 DEF SkipLane, MailboxEmpty, LaneProgress, LanePending
<1>4. CASE DispatchOne
  <2>1. dispatched \in Nat /\ DispatchBudget \in Nat
    BY SchedulerAssumption DEF TypeOK
  <2>2. dispatched' < DispatchBudget
    BY <1>4, <2>1 DEF DispatchOne, LaneProgress
  <2>3. lease = Free /\ lease' = lease /\ pc' \in {"turn", "mailbox"}
    BY <1>4 DEF DispatchOne, LaneProgress
  <2> QED
    BY <2>2, <2>3
<1>5. CASE PopKey
  BY <1>5 DEF PopKey
<1>6. CASE TakeReady \/ Register
  BY <1>6 DEF TakeReady, Register
<1>7. CASE TakeHeld
  BY <1>7 DEF TakeHeld, Leased, TypeOK
<1>8. CASE PollReady
  <2>1. PICK l \in LeaseAfter(key) :
          \/ pc' = "pop" /\ lease' = WithoutLeaseOf(key, l)
          \/ ~EndsDrain(l) /\ pc' = "pop" /\ lease' = l
          \/ EndsDrain(l) /\ pc' = "asleep" /\ lease' = l
    BY <1>8 DEF PollReady
  <2>2. lease = Free /\ key \in items /\ dispatched' = dispatched
    BY <1>8 DEF PollReady
  <2>3. l = Free \/ (l = key /\ key \in Leasing)
    BY <2>1, <2>2 DEF LeaseAfter
  <2> QED
    BY <2>1, <2>2, <2>3 DEF WithoutLeaseOf, EndsDrain
<1>9. CASE PollHeld
  BY <1>9 DEF PollHeld, LeaseAfter
<1>10. CASE EndHeld
  BY <1>10 DEF EndHeld, WithoutLeaseOf, HeldPausesRest
<1>11. CASE EndPolling
  BY <1>11 DEF EndPolling, BudgetExhausted, PollingProgress, PollingPending, LaneProgress, LanePending
<1> QED
  BY <1>1, <1>2, <1>3, <1>4, <1>5, <1>6, <1>7, <1>8, <1>9, <1>10, <1>11 DEF Task

(***************************************************************************)
(* Where a message is.                                                     *)
(***************************************************************************)

LEMMA OthersPlace ==
  ASSUME IInv, Others
  PROVE  PlaceInv'
<1> USE DEF IInv, PlaceInv, queueVars, futureVars, lifeVars, drainVars
<1>1. CASE Shutdown
  BY <1>1 DEF Shutdown
<1>2. CASE \E r \in Replies : Arrive(r)
  BY <1>2 DEF Arrive
<1>3. CASE \E t \in Threads : Fire(t) \/ MarkReady(t) \/ PushKey(t) \/ WakeTask(t)
  BY <1>3 DEF Fire, MarkReady, PushKey, WakeTask
<1> QED
  BY <1>1, <1>2, <1>3 DEF Others

LEMMA TaskPlace ==
  ASSUME IInv, Task
  PROVE  PlaceInv'
<1> USE DEF IInv, PlaceInv, HandInv, InTurn, InHand, Polling, Holding, queueVars, futureVars, lifeVars,
        drainVars
<1>1. CASE \/ Resume \/ SwitchMode \/ Finish \/ BeginPolling \/ SkipLane \/ EnterLane
           \/ LifecycleHint \/ MailboxEmpty \/ PopKey \/ TakeReady \/ TakeHeld \/ Register
           \/ EndPolling
  <2>1. /\ UNCHANGED <<mode, items, returned>> /\ pc # "endHeld"
        /\ arrived' \subseteq arrived /\ expected' \in {expected, mode}
    BY <1>1 DEF Resume, SwitchMode, Finish, BeginPolling, SkipLane, EnterLane, LifecycleHint,
       MailboxEmpty, PopKey, TakeReady, TakeHeld, Register, EndPolling
  <2> QED
    BY <2>1
<1>2. CASE DispatchOne
  <2>1. PICK r \in arrived : arrived' = arrived \ {r} /\ items' \in {items, items \cup {r}}
    BY <1>2 DEF DispatchOne
  <2> QED
    BY <1>2, <2>1 DEF DispatchOne
<1>3. CASE PollReady
  <2>1. /\ key \in items /\ UNCHANGED <<mode, expected, arrived, key>> /\ pc = "poll"
        /\ \/ Returns(key) /\ items' = items \ {key} /\ returned' = returned \cup {key}
           \/ items' = items /\ returned' = returned
    BY <1>3 DEF PollReady, PollFuture, Without
  <2> QED
    BY <2>1
<1>4. CASE PollHeld
  <2>1. /\ key \in items \cap Leasing /\ UNCHANGED <<mode, expected, arrived, items, key>>
        /\ pc = "pollHeld" /\ pc' = "endHeld" /\ returned' \in {returned, returned \cup {key}}
    BY <1>4 DEF PollHeld, PollFuture
  <2> QED
    BY <2>1
<1>5. CASE EndHeld
  <2>1. /\ UNCHANGED <<mode, expected, arrived, returned, key>> /\ key \in Leasing
        /\ items' \subseteq items /\ (Serving /\ key \in returned => key \notin items')
    BY <1>5 DEF EndHeld, Without
  <2>2. ~Serving => mode # "Running"
    BY DEF Serving
  <2>3. ASSUME NEW r \in items' \cap returned'
        PROVE  mode # "Running" /\ r \in Leasing
    BY <1>5, <2>1, <2>2, <2>3 DEF EndHeld
  <2> QED
    BY <2>1, <2>3
<1> QED
  BY <1>1, <1>2, <1>3, <1>4, <1>5 DEF Task

(***************************************************************************)
(* The mailbox lane.                                                       *)
(***************************************************************************)

LEMMA OthersLane ==
  ASSUME IInv, Others
  PROVE  LaneInv'
<1> USE DEF IInv, LaneInv, MailboxBehind, Behind, Serving, InTurn, Polling, queueVars, laneVars,
        drainVars, lifeVars
<1>0. HasDispatchCapacity' = HasDispatchCapacity
  <2>1. UNCHANGED <<items, lease>>
    BY DEF Others, Arrive, Shutdown, Fire, MarkReady, PushKey, WakeTask
  <2> QED
    BY <2>1, SameCapacity
<1>1. CASE Shutdown \/ \E r \in Replies : Arrive(r)
  <2>1. woken' = TRUE /\ UNCHANGED <<expected, pc, cursor, lane, completed>>
        /\ (arrived' # arrived => mode = "Running")
    BY <1>1 DEF Shutdown, NotifyActor, Arrive
  <2> QED
    BY <1>0, <2>1 DEF PlaceInv
<1>2. CASE \E t \in Threads : Fire(t) \/ MarkReady(t) \/ PushKey(t) \/ WakeTask(t)
  <2>1. (woken => woken') /\ UNCHANGED <<mode, expected, arrived, pc, cursor, lane, completed>>
    BY <1>2 DEF Fire, MarkReady, PushKey, WakeTask, TypeOK
  <2> QED
    BY <1>0, <2>1
<1> QED
  BY <1>1, <1>2 DEF Others

LEMMA TaskLane ==
  ASSUME IInv, Task
  PROVE  LaneInv'
<1> USE DEF IInv, LaneInv, MailboxBehind, Behind, Serving, InTurn, Polling, queueVars, laneVars,
        drainVars, lifeVars
<1>0. UNCHANGED <<items, lease>> => HasDispatchCapacity' = HasDispatchCapacity
  BY SameCapacity
<1>1. CASE Resume \/ SwitchMode \/ Finish \/ LifecycleHint
  BY <1>1 DEF Resume, SwitchMode, Finish, LifecycleHint
<1>2. CASE BeginPolling
  BY <1>2 DEF BeginPolling
<1>3. CASE SkipLane
  <2>1. lane = "Mailbox" => ~HasDispatchCapacity \/ arrived = {}
    BY <1>3 DEF SkipLane
  <2>2. lane \in {"Mailbox", "Reply", "ChildExit"} /\ cursor \in {"Mailbox", "Reply", "ChildExit"}
    BY DEF TypeOK, Lanes
  <2> QED
    BY <1>0, <1>3, <2>1, <2>2 DEF SkipLane, LanePending, NextLane
<1>4. CASE EnterLane
  BY <1>0, <1>4 DEF EnterLane
<1>5. CASE DispatchOne
  BY <1>5 DEF DispatchOne, LaneProgress
<1>6. CASE MailboxEmpty
  BY <1>6 DEF MailboxEmpty, LaneProgress, LanePending
<1>7. CASE PopKey \/ TakeReady \/ Register
  BY <1>0, <1>7 DEF PopKey, TakeReady, Register
<1>8. CASE TakeHeld
  <2>1. ~HasDispatchCapacity' /\ expected' = expected /\ arrived' = arrived
        /\ pc' \in {"registerHeld", "asleep"}
    BY <1>8 DEF TakeHeld, HasDispatchCapacity, Leased
  <2> QED
    BY <2>1
<1>9. CASE PollReady
  <2>1. pc = "poll" /\ UNCHANGED <<mode, expected, arrived, cursor, lane, woken>>
    BY <1>9 DEF PollReady
  <2>2. \/ pc' = "pop" /\ completed'
        \/ pc' = "pop" /\ UNCHANGED <<items, lease, completed>>
        \/ pc' = "asleep" /\ lease' # Free
    BY <1>9 DEF PollReady, EndsDrain, HandInv
  <2>3. lease' # Free => ~HasDispatchCapacity'
    BY DEF HasDispatchCapacity, Leased
  <2> QED
    BY <1>0, <2>1, <2>2, <2>3
<1>10. CASE PollHeld
  BY <1>10 DEF PollHeld
<1>11. CASE EndHeld
  <2>1. \/ pc' = "turn"
        \/ pc' = "asleep" /\ UNCHANGED <<items, lease>> /\ lease # Free
    BY <1>11, SchedulerAssumption DEF EndHeld, HeldPausesRest, HandInv, Holding, TypeOK
  <2>2. lease # Free => ~HasDispatchCapacity
    BY DEF HasDispatchCapacity, Leased
  <2> QED
    BY <1>0, <1>11, <2>1, <2>2 DEF EndHeld
<1>12. CASE EndPolling
  <2>1. lane \in {"Mailbox", "Reply", "ChildExit"} /\ cursor \in {"Mailbox", "Reply", "ChildExit"}
    BY DEF TypeOK, Lanes
  <2>2. UNCHANGED <<mode, expected, arrived, completed, items, lease>> /\ pc = "drained"
    BY <1>12 DEF EndPolling
  <2>3. CASE BudgetExhausted
    BY <2>2, <2>3 DEF BudgetExhausted, SelfWake
  <2>4. CASE PollingProgress
    BY <2>2, <2>4 DEF PollingProgress, LaneProgress
  <2>5. CASE ~completed /\ PollingPending /\ woken' = woken
    BY <1>0, <2>1, <2>2, <2>5 DEF PollingPending, LanePending, NextLane
  <2> QED
    BY <1>12, <2>3, <2>4, <2>5 DEF EndPolling
<1> QED
  BY <1>1, <1>2, <1>3, <1>4, <1>5, <1>6, <1>7, <1>8, <1>9, <1>10, <1>11, <1>12 DEF Task

(***************************************************************************)
(* Flags and keys.                                                         *)
(***************************************************************************)

\* One reply's flag agrees with the queue.
Agrees(r) ==
  ready[r] => \/ Queued(r, keys)
              \/ \E t \in Sources(r) : tpc[t] = "push"
              \/ pc = "take" /\ key = r

LEMMA AllAgree == ReadyKeyQueued <=> \A r \in items : Agrees(r)
  BY DEF ReadyKeyQueued, Agrees, Queued

\* Raised flags have their thread, until it has pushed the key.
LEMMA OthersAgree ==
  ASSUME IInv, Others, NEW r \in items
  PROVE  Agrees(r)'
<1> USE DEF IInv, TypeOK, wakeVars, queueVars, drainVars
<1>0. Agrees(r)
  BY AllAgree
<1>1. CASE Shutdown \/ \E m \in Replies : Arrive(m)
  BY <1>0, <1>1 DEF Shutdown, Arrive, Agrees, Sources, threadVars
<1>2. ASSUME NEW t \in Threads, Fire(t)
      PROVE  Agrees(r)'
  <2>1. \A u \in Threads : tpc[u] = "push" => tpc'[u] = "push"
    BY <1>2 DEF Fire
  <2> QED
    BY <1>0, <1>2, <2>1 DEF Fire, Agrees, Sources
<1>3. ASSUME NEW t \in Threads, MarkReady(t)
      PROVE  Agrees(r)'
  <2>1. \A u \in Threads : tpc[u] = "push" => tpc'[u] = "push"
    BY <1>3 DEF MarkReady
  <2>2. CASE r = t[1] /\ ~ready[r]
    BY <1>3, <2>2 DEF MarkReady, Agrees, Sources
  <2>3. CASE ~(r = t[1] /\ ~ready[r])
    <3>1. ready'[r] = ready[r]
      BY <1>3, <2>3 DEF MarkReady, Threads
    <3> QED
      BY <1>0, <1>3, <2>1, <3>1 DEF MarkReady, Agrees, Sources
  <2> QED
    BY <2>2, <2>3
<1>4. ASSUME NEW t \in Threads, PushKey(t)
      PROVE  Agrees(r)'
  <2>1. t[1] \in Replies /\ keys' = Append(keys, t[1])
    BY <1>4 DEF PushKey, Threads
  <2>2. Queued(t[1], keys') /\ (Queued(r, keys) => Queued(r, keys'))
    BY <2>1, Pushed
  <2>3. \A u \in Sources(r) : tpc[u] = "push" => tpc'[u] = "push" \/ t[1] = r
    BY <1>4 DEF PushKey, Sources
  <2> QED
    BY <1>0, <1>4, <2>2, <2>3 DEF PushKey, Agrees
<1>5. ASSUME NEW t \in Threads, WakeTask(t)
      PROVE  Agrees(r)'
  <2>1. \A u \in Threads : tpc[u] = "push" => tpc'[u] = "push"
    BY <1>5 DEF WakeTask
  <2> QED
    BY <1>0, <1>5, <2>1 DEF WakeTask, Agrees, Sources
<1> QED
  BY <1>1, <1>2, <1>3, <1>4, <1>5 DEF Others

\* The task takes a flag down before it forgets the key, and schedules a reply
\* with both.
LEMMA TaskAgrees ==
  ASSUME IInv, Task, NEW r \in items'
  PROVE  Agrees(r)'
<1> USE DEF IInv, TypeOK, wakeVars, queueVars, drainVars, threadVars
<1>0. r \in items => Agrees(r)
  BY AllAgree
<1>1. CASE \/ Resume \/ SwitchMode \/ Finish \/ BeginPolling \/ SkipLane \/ EnterLane
           \/ LifecycleHint \/ MailboxEmpty \/ Register \/ PollReady \/ PollHeld \/ EndHeld
           \/ EndPolling
  <2>1. UNCHANGED <<ready, keys, tpc>> /\ items' \subseteq items /\ pc # "take"
    BY <1>1 DEF Resume, SwitchMode, Finish, BeginPolling, SkipLane, EnterLane, LifecycleHint,
       MailboxEmpty, Register, PollReady, PollHeld, EndHeld, EndPolling, Without
  <2> QED
    BY <1>0, <2>1 DEF Agrees
<1>2. CASE DispatchOne
  <2>1. PICK m \in arrived :
          \/ /\ items' = items \cup {m} /\ ready' = [ready EXCEPT ![m] = TRUE]
             /\ keys' = Append(keys, m)
          \/ UNCHANGED <<items, ready, keys>>
    BY <1>2 DEF DispatchOne
  <2>2. UNCHANGED tpc /\ pc = "mailbox" /\ m \in Replies
    BY <1>2 DEF DispatchOne
  <2>3. keys' = Append(keys, m) => Queued(m, keys') /\ (Queued(r, keys) => Queued(r, keys'))
    BY <2>2, Pushed
  <2> QED
    BY <1>0, <2>1, <2>2, <2>3 DEF Agrees
<1>3. CASE PopKey
  <2>1. UNCHANGED <<items, ready, tpc>> /\ pc = "pop"
    BY <1>3 DEF PopKey
  <2>2. CASE keys # <<>> /\ key' = Head(keys) /\ keys' = Tail(keys)
             /\ pc' = IF Head(keys) \in items THEN "take" ELSE "pop"
    <3>1. Queued(r, keys) => r = Head(keys) \/ Queued(r, keys')
      BY <2>2, Popped
    <3> QED
      BY <1>0, <2>1, <2>2, <3>1 DEF Agrees
  <2>3. CASE UNCHANGED <<key, keys>>
    BY <1>0, <2>1, <2>3 DEF Agrees
  <2> QED
    BY <1>3, <2>2, <2>3 DEF PopKey
<1>4. CASE TakeReady
  BY <1>0, <1>4 DEF TakeReady, Agrees
<1>5. CASE TakeHeld
  <2>1. UNCHANGED <<items, keys, tpc>> /\ pc = "turn" /\ (ready'[r] => ready[r])
    BY <1>5 DEF TakeHeld, Leased
  <2> QED
    BY <1>0, <2>1 DEF Agrees
<1> QED
  BY <1>1, <1>2, <1>3, <1>4, <1>5 DEF Task

(***************************************************************************)
(* The theorems.                                                           *)
(***************************************************************************)

LEMMA InvInit == Init => IInv
<1> SUFFICES ASSUME Init PROVE IInv
  OBVIOUS
<1>1. 0 < DispatchBudget /\ 0 \in 0..DispatchBudget /\ 0 \in 0..PollBudget /\ 0 \in 0..Fires
  BY SchedulerAssumption
<1>2. TypeOK
  <2>1. <<>> \in Seq(Replies)
    OBVIOUS
  <2>2. lease \in items \cup {Free} /\ key \in Replies \cup {Free}
    BY DEF Init
  <2> QED
    BY <1>1, <2>1, <2>2 DEF Init, TypeOK, Graceful, Lanes, Steps
<1>3. HandInv /\ PlaceInv /\ LaneInv /\ ReadyKeyQueued
  BY <1>1 DEF Init, HandInv, PlaceInv, LaneInv, ReadyKeyQueued, InTurn, Polling, InHand, Holding, Behind
<1> QED
  BY <1>2, <1>3 DEF IInv

LEMMA InvNext == IInv /\ [Next]_vars => IInv'
<1>1. ASSUME IInv, UNCHANGED vars
      PROVE  IInv'
  <2>1. HasDispatchCapacity' = HasDispatchCapacity
    BY <1>1, SameCapacity DEF vars, queueVars
  <2> USE <1>1 DEF IInv, vars, lifeVars, wakeVars, queueVars, laneVars, drainVars, threadVars,
                   futureVars
  <2>2. TypeOK'
    BY DEF TypeOK
  <2>3. HandInv' /\ PlaceInv'
    BY DEF HandInv, PlaceInv
  <2>4. LaneInv'
    BY <2>1 DEF LaneInv, Behind, Serving, MailboxBehind
  <2>5. ReadyKeyQueued'
    BY DEF ReadyKeyQueued, Sources
  <2> QED
    BY <2>2, <2>3, <2>4, <2>5
<1>2. ASSUME IInv, Others
      PROVE  IInv'
  <2>1. items' = items
    BY <1>2 DEF Others, Arrive, Shutdown, Fire, MarkReady, PushKey, WakeTask, queueVars
  <2>2. \A r \in items : Agrees(r)'
    BY <1>2, OthersAgree
  <2>3. ReadyKeyQueued'
    BY <2>1, <2>2 DEF ReadyKeyQueued, Agrees, Queued
  <2> QED
    BY <1>2, <2>3, OthersTyped, OthersHand, OthersPlace, OthersLane DEF IInv
<1>3. ASSUME IInv, Task
      PROVE  IInv'
  <2>1. \A r \in items' : Agrees(r)'
    BY <1>3, TaskAgrees
  <2>2. ReadyKeyQueued'
    BY <2>1 DEF ReadyKeyQueued, Agrees, Queued
  <2> QED
    BY <1>3, <2>2, TaskTyped, TaskHand, TaskPlace, TaskLane DEF IInv
<1> QED
  BY <1>1, <1>2, <1>3 DEF Next

\* All of it is invariant.
THEOREM Invariance == Safe => []IInv
  BY InvInit, InvNext, PTL DEF Safe

\* Every variable stays in its domain: the lease names a scheduled reply or
\* nobody, and the counts of a visit stay within their budgets.
THEOREM TypeCorrect == Safe => []TypeOK
  BY Invariance, PTL DEF IInv

\* A reply that is ready has its key queued, on its way, or in the task's hand:
\* no event is lost between the flag and the queue.
THEOREM KeysAgree == Safe => []ReadyKeyQueued
  BY Invariance, PTL DEF IInv

\* A task that sleeps has left no message that it could dispatch.
THEOREM MailboxServed == Safe => []NoStrandedMessage
<1>1. IInv => NoStrandedMessage
  BY DEF IInv, LaneInv, Behind, Serving, NoStrandedMessage, Quiet
<1> QED
  BY <1>1, Invariance, PTL

(***************************************************************************)
(* Replies that have returned.                                             *)
(***************************************************************************)

\* Replies that have returned and not left.  A shutdown commits once and is
\* seen by the loop right after the poll it overtook, so one may stay, and a
\* second is gone with the step after its poll.
Finished == items \cap returned

FinishedInv ==
  /\ ~Serving => \A r \in Finished : key = r /\ pc \in {"endHeld", "turn"}
  /\ \A q, r \in Finished : q = r \/ (pc = "endHeld" /\ key \in {q, r})

LEMMA FinishedNext == IInv /\ FinishedInv /\ [Next]_vars => FinishedInv'
<1> SUFFICES ASSUME IInv, FinishedInv, [Next]_vars PROVE FinishedInv'
  OBVIOUS
<1> USE DEF IInv, PlaceInv, FinishedInv, Finished, Serving
<1>1. CASE Shutdown
  <2>1. mode = "Running" /\ expected = "Running" /\ UNCHANGED <<items, returned, pc, key>>
    BY <1>1 DEF Shutdown, queueVars, futureVars, drainVars
  <2> QED
    BY <2>1
<1>2. CASE UNCHANGED <<mode, expected, items, returned, pc, key>>
  BY <1>2
<1>3. CASE Others \/ UNCHANGED vars
  BY <1>1, <1>2, <1>3 DEF Others, Arrive, Fire, MarkReady, PushKey, WakeTask, vars, lifeVars,
     queueVars, drainVars, futureVars
<1>4. CASE SwitchMode
  <2>1. pc = "turn" /\ Serving' /\ UNCHANGED <<items, returned, pc, key>>
    BY <1>4 DEF SwitchMode, queueVars, drainVars, futureVars
  <2>2. ~Serving
    BY <1>4 DEF SwitchMode
  <2> QED
    BY <2>1, <2>2
<1>5. CASE PollReady
  <2>1. /\ pc = "poll" /\ UNCHANGED <<mode, expected, key>> /\ pc' # "endHeld"
        /\ \/ items' = items \ {key} /\ returned' = returned \cup {key}
           \/ items' = items /\ returned' = returned
    BY <1>5 DEF PollReady, PollFuture, Without, lifeVars
  <2>2. Finished' \subseteq Finished
    BY <2>1
  <2> QED
    BY <2>1, <2>2
<1>6. CASE PollHeld
  <2>1. /\ pc = "pollHeld" /\ UNCHANGED <<mode, expected, items, key>> /\ pc' = "endHeld"
        /\ returned' \in {returned, returned \cup {key}}
    BY <1>6 DEF PollHeld, PollFuture, lifeVars, drainVars
  <2>2. Finished' \subseteq Finished \cup {key}
    BY <2>1
  <2> QED
    BY <2>1, <2>2
<1>7. CASE EndHeld
  <2>1. /\ pc = "endHeld" /\ UNCHANGED <<mode, expected, returned, key>>
        /\ items' \subseteq items
        /\ Serving => ~(key \in Finished')
        /\ ~Serving => pc' = "turn"
    BY <1>7 DEF EndHeld, HeldPausesRest, Without, lifeVars, drainVars, futureVars
  <2>2. Finished' \subseteq Finished
    BY <2>1
  <2> QED
    BY <2>1, <2>2
<1>8. CASE \/ DispatchOne \/ BeginPolling \/ SkipLane \/ EnterLane \/ LifecycleHint \/ MailboxEmpty
           \/ PopKey \/ TakeReady \/ TakeHeld \/ Register \/ EndPolling \/ Resume \/ Finish
  <2>1. /\ UNCHANGED <<mode, expected, returned>>
        /\ pc # "endHeld" /\ pc' # "endHeld" /\ (pc = "turn" => Serving)
        /\ items' = items \/ \E r \in arrived : items' = items \cup {r}
    BY <1>8 DEF DispatchOne, BeginPolling, SkipLane, EnterLane, LifecycleHint, MailboxEmpty, PopKey,
       TakeReady, TakeHeld, Register, EndPolling, Resume, Finish, LaneProgress, LanePending,
       BudgetExhausted, PollingProgress, PollingPending, lifeVars, queueVars, futureVars
  <2>2. Finished' \subseteq Finished
    BY <2>1
  <2> QED
    BY <2>1, <2>2
<1> QED
  BY <1>3, <1>4, <1>5, <1>6, <1>7, <1>8 DEF Next, Task

\* A future that has returned is not polled again, but for one holder whose
\* return poll_leased has missed.
THEOREM NoPollOfReturned == Safe => []NoPollAfterReturn
<1>1. Init => FinishedInv
  BY DEF Init, FinishedInv, Finished
<1>2. IInv /\ FinishedInv => NoPollAfterReturn
  <2> SUFFICES ASSUME IInv, FinishedInv, pc \in {"poll", "pollHeld"}, key \in returned
               PROVE  mode # "Running" /\ key \in Leasing /\ items \cap returned = {key}
    BY DEF NoPollAfterReturn
  <2>1. key \in Finished
    BY DEF IInv, HandInv, InHand, Holding, Finished
  <2>2. mode # "Running" /\ key \in Leasing
    BY <2>1 DEF IInv, PlaceInv, Finished
  <2>3. \A r \in Finished : r = key
    BY <2>1 DEF FinishedInv
  <2> QED
    BY <2>1, <2>2, <2>3 DEF Finished
<1> QED
  BY <1>1, <1>2, FinishedNext, Invariance, PTL DEF Safe

(***************************************************************************)
(* Scheduler implements Pool.                                              *)
(***************************************************************************)

\* The mailbox lane has room for the message it waits for.
Room == pc = "mailbox" => HasDispatchCapacity

LEMMA RoomNext == IInv /\ Room /\ [Next]_vars => Room'
<1> SUFFICES ASSUME IInv, Room, [Next]_vars PROVE Room'
  OBVIOUS
<1>0. UNCHANGED <<items, lease>> => HasDispatchCapacity' = HasDispatchCapacity
  BY SameCapacity
<1>1. CASE Others \/ UNCHANGED vars
  <2>1. UNCHANGED <<items, lease, pc>>
    BY <1>1 DEF Others, Arrive, Shutdown, Fire, MarkReady, PushKey, WakeTask, vars, queueVars
  <2> QED
    BY <1>0, <2>1 DEF Room
<1>2. CASE EnterLane
  <2>1. UNCHANGED <<items, lease>> /\ (pc' = "mailbox" => HasDispatchCapacity)
    BY <1>2 DEF EnterLane, queueVars
  <2> QED
    BY <1>0, <2>1 DEF Room
<1>3. CASE DispatchOne
  <2>1. lease' = lease /\ (pc' = "mailbox" => ~Leased /\ Cardinality(items') < MaxInFlight)
    BY <1>3 DEF DispatchOne, LaneProgress
  <2> QED
    BY <2>1 DEF Room, HasDispatchCapacity, Leased
<1>4. CASE \/ Resume \/ SwitchMode \/ Finish \/ BeginPolling \/ SkipLane \/ LifecycleHint
           \/ MailboxEmpty \/ PopKey \/ TakeReady \/ TakeHeld \/ Register \/ PollReady
           \/ PollHeld \/ EndHeld \/ EndPolling
  <2>1. pc' # "mailbox"
    BY <1>4 DEF Resume, SwitchMode, Finish, BeginPolling, SkipLane, LifecycleHint, MailboxEmpty,
       PopKey, TakeReady, TakeHeld, Register, PollReady, PollHeld, EndHeld, EndPolling,
       LaneProgress, LanePending, BudgetExhausted, PollingProgress, PollingPending
  <2> QED
    BY <2>1 DEF Room
<1> QED
  BY <1>1, <1>2, <1>3, <1>4 DEF Next, Task

\* So a turn in the mailbox lane may dispatch, at any time of it.
THEOREM RoomInvariance == Safe => [](IInv /\ Room)
<1>1. Init => IInv /\ Room
  BY InvInit DEF Init, Room
<1> QED
  BY <1>1, InvNext, RoomNext, PTL DEF Safe

\* What Pool sees of the events.
View == [r \in Replies |-> [w \in Wakers |-> seen[<<r, w>>]]]

\* Lanes, keys, flags and wakers are none of Pool's business.
LEMMA Unseen ==
  ASSUME UNCHANGED <<mode, arrived, items, lease, returned, begun, seen>>
  PROVE  UNCHANGED Promise!vars
  BY DEF Promise!vars

LEMMA OthersRefine ==
  ASSUME IInv, Others
  PROVE  Promise!Next \/ UNCHANGED Promise!vars
<1> USE DEF IInv, TypeOK, queueVars, lifeVars, futureVars
<1>1. CASE Shutdown
  <2>1. Promise!Close
    BY <1>1 DEF Shutdown, Promise!Close
  <2> QED
    BY <2>1 DEF Promise!Next
<1>2. ASSUME NEW r \in Replies, Arrive(r)
      PROVE  Promise!Next
  <2>1. Promise!Arrive(r)
    BY <1>2 DEF Arrive, Promise!Arrive
  <2> QED
    BY <2>1 DEF Promise!Next
<1>3. ASSUME NEW t \in Threads, Fire(t) \/ MarkReady(t) \/ PushKey(t) \/ WakeTask(t)
      PROVE  UNCHANGED Promise!vars
  <2>1. UNCHANGED <<mode, arrived, items, lease, returned, begun, seen>>
    BY <1>3 DEF Fire, MarkReady, PushKey, WakeTask
  <2> QED
    BY <2>1, Unseen
<1> QED
  BY <1>1, <1>2, <1>3 DEF Others

\* A poll changes what one reply has seen.
LEMMA PollView ==
  ASSUME IInv, NEW r \in Replies, PollFuture(r)
  PROVE  \A q \in Replies \ {r} : View'[q] = View[q]
<1> SUFFICES ASSUME NEW q \in Replies \ {r} PROVE View'[q] = View[q]
  OBVIOUS
<1>1. \A w \in Wakers : seen'[<<q, w>>] = seen[<<q, w>>]
  BY DEF PollFuture, Threads
<1>2. /\ View'[q] = [w \in Wakers |-> seen'[<<q, w>>]]
      /\ View[q] = [w \in Wakers |-> seen[<<q, w>>]]
  BY DEF View
<1> QED
  BY <1>1, <1>2

\* Pool counts as Scheduler does.
LEMMA SameCount ==
  ASSUME NEW S
  PROVE  Promise!Cardinality(S) = Cardinality(S)
  BY Zenon DEF Promise!Cardinality, Cardinality

\* The mailbox lane dispatches, or the gate refuses.
LEMMA DispatchRefines ==
  ASSUME IInv, Room, DispatchOne
  PROVE  Promise!Next
<1> USE DEF IInv, TypeOK
<1>1. PICK r \in arrived :
        /\ arrived' = arrived \ {r}
        /\ \/ mode # "Stopping" /\ items' = items \cup {r}
           \/ mode = "Stopping" /\ items' = items
  BY DEF DispatchOne, Graceful
<1>2. UNCHANGED <<mode, lease, returned, begun, seen>> /\ pc = "mailbox"
  BY DEF DispatchOne, futureVars
<1>3. lease = Free /\ Cardinality(items) < MaxInFlight
  BY <1>2 DEF Room, HasDispatchCapacity, Leased
<1>4. CASE mode # "Stopping"
  <2>1. UNCHANGED View /\ items' = items \cup {r}
    BY <1>1, <1>2, <1>4 DEF View
  <2>2. Promise!Dispatch(r)
    <3>1. mode # "Stopping" /\ r \in arrived /\ lease = Free /\ Cardinality(items) < MaxInFlight
      BY <1>3, <1>4
    <3>2. /\ arrived' = arrived \ {r} /\ items' = items \cup {r}
          /\ UNCHANGED <<mode, returned, lease, begun, View>>
      BY <1>1, <1>2, <2>1
    <3> QED
      BY <3>1, <3>2, SameCount DEF Promise!Dispatch, View
  <2>3. r \in Replies
    OBVIOUS
  <2> QED
    BY <2>2, <2>3 DEF Promise!Next
<1>5. CASE mode = "Stopping"
  <2>1. Promise!Discard
    BY <1>1, <1>2, <1>5 DEF Promise!Discard
  <2> QED
    BY <2>1 DEF Promise!Next
<1> QED
  BY <1>4, <1>5

\* A poll in a turn and a poll of the holder.
LEMMA PollRefines ==
  ASSUME IInv, PollReady \/ PollHeld
  PROVE  Promise!Next
<1> USE DEF IInv, TypeOK
<1>1. /\ key \in items /\ key \in Replies /\ PollFuture(key)
      /\ UNCHANGED <<mode, arrived>> /\ key # Free
      /\ lease \in {key, Free} /\ (key \notin Leasing => lease = Free)
  BY SchedulerAssumption
     DEF PollReady, PollHeld, HandInv, InTurn, Polling, InHand, Holding, lifeVars
<1>2. key \notin returned \/ (key \in Leasing /\ mode # "Running")
  BY <1>1 DEF PlaceInv, PollReady, PollHeld
<1>3. lease' \in IF key \in Leasing THEN {key, Free} ELSE {Free}
  BY <1>1 DEF PollReady, PollHeld, LeaseAfter, WithoutLeaseOf
<1>4. \/ items' = items /\ returned' \in {returned, returned \cup {key}}
      \/ items' = items \ {key} /\ returned' = returned \cup {key} /\ lease' = Free
  <2>1. CASE PollHeld
    BY <2>1 DEF PollHeld, PollFuture
  <2>2. CASE PollReady
    <3>1. PICK l \in LeaseAfter(key) :
            \/ items' = items \ {key} /\ lease' = WithoutLeaseOf(key, l) /\ Returns(key)
            \/ items' = items /\ lease' = l /\ ~Returns(key)
      BY <2>2 DEF PollReady, Without
    <3>2. l \in {key, Free}
      BY <1>1, <3>1 DEF LeaseAfter
    <3> QED
      BY <1>1, <3>1, <3>2 DEF PollFuture, WithoutLeaseOf
  <2> QED
    BY <2>1, <2>2
<1>5. begun' = begun \cup {key}
  BY <1>1 DEF PollFuture
<1>6. \A q \in Replies \ {key} : View'[q] = View[q]
  BY <1>1, PollView
<1>7. PICK r \in Replies : r = key
  BY <1>1
<1>8. Promise!Poll(r)
  BY <1>1, <1>2, <1>3, <1>4, <1>5, <1>6, <1>7 DEF Promise!Poll, View
<1> QED
  BY <1>8 DEF Promise!Next

\* The holder leaves when its return is seen.
LEMMA LeaveRefines ==
  ASSUME IInv, EndHeld
  PROVE  Promise!Next \/ UNCHANGED Promise!vars
<1> USE DEF IInv, TypeOK
<1>1. /\ UNCHANGED <<mode, arrived, returned, begun, seen>> /\ key \in items
      /\ \/ key \in returned /\ items' = items \ {key} /\ lease' = IF lease = key THEN Free ELSE lease
         \/ UNCHANGED <<items, lease>>
  BY DEF EndHeld, Without, WithoutLeaseOf, HandInv, Holding, lifeVars, futureVars
<1>2. CASE UNCHANGED <<items, lease>>
  BY <1>1, <1>2, Unseen
<1>3. CASE ~UNCHANGED <<items, lease>>
  <2>1. Promise!Leave(key)
    BY <1>1, <1>3 DEF Promise!Leave
  <2> QED
    BY <1>1, <2>1 DEF Promise!Next
<1> QED
  BY <1>2, <1>3

\* Only Stop throws away what the mailbox holds.
LEMMA SwitchRefines ==
  ASSUME IInv, SwitchMode
  PROVE  Promise!Next \/ UNCHANGED Promise!vars
<1>1. UNCHANGED <<mode, items, lease, returned, begun, seen>>
  BY DEF SwitchMode, queueVars, futureVars
<1>2. CASE mode = "Stopping"
  <2>1. Promise!Discard
    BY <1>1, <1>2 DEF SwitchMode, Promise!Discard
  <2> QED
    BY <2>1 DEF Promise!Next
<1>3. CASE mode # "Stopping"
  BY <1>1, <1>3, Unseen DEF SwitchMode
<1> QED
  BY <1>2, <1>3

LEMMA TaskRefines ==
  ASSUME IInv, Room, Task
  PROVE  Promise!Next \/ UNCHANGED Promise!vars
<1>1. CASE \/ Resume \/ Finish \/ BeginPolling \/ SkipLane \/ EnterLane \/ LifecycleHint
           \/ MailboxEmpty \/ PopKey \/ TakeReady \/ TakeHeld \/ Register \/ EndPolling
  <2>1. UNCHANGED <<mode, arrived, items, lease, returned, begun, seen>>
    BY <1>1 DEF Resume, Finish, BeginPolling, SkipLane, EnterLane, LifecycleHint, MailboxEmpty,
       PopKey, TakeReady, TakeHeld, Register, EndPolling, lifeVars, queueVars, futureVars
  <2> QED
    BY <2>1, Unseen
<1> QED
  BY <1>1, DispatchRefines, PollRefines, LeaveRefines, SwitchRefines DEF Task

\* The scheduler keeps the promise of Pool: every step of its turns, threads
\* and shutdowns is a step of Pool or none.
THEOREM Refinement == Safe => PromiseKept
<1>1. Init => Promise!Init
  BY DEF Init, Promise!Init
<1>2. ASSUME IInv, Room, [Next]_vars
      PROVE  Promise!Next \/ UNCHANGED Promise!vars
  <2>1. CASE UNCHANGED vars
    BY <2>1, Unseen DEF vars, lifeVars, queueVars, futureVars
  <2> QED
    BY <1>2, <2>1, OthersRefine, TaskRefines DEF Next
<1> QED
  BY <1>1, <1>2, RoomInvariance, PTL DEF Safe, PromiseKept, Promise!Spec

\* No more replies are in flight than the profile allows, however turns, holders
\* and shutdowns add and remove them.
WithinLimit == Cardinality(items) <= MaxInFlight

\* The limit of the reply profile holds (ReplyState::has_dispatch_capacity).
THEOREM LimitKept == Safe => []WithinLimit
<1>1. Init => WithinLimit
  BY FS_EmptySet, SchedulerAssumption DEF Init, WithinLimit
<1>2. ASSUME IInv, Room, WithinLimit, [Next]_vars
      PROVE  WithinLimit'
  <2>1. IsFiniteSet(items) /\ Cardinality(items) \in Nat /\ MaxInFlight \in Nat
    BY <1>2, SchedulerAssumption, FS_Subset, FS_CardinalityType DEF IInv, TypeOK
  <2>2. ASSUME items' \subseteq items PROVE WithinLimit'
    <3>1. IsFiniteSet(items') /\ Cardinality(items') <= Cardinality(items)
      BY <2>1, <2>2, FS_Subset
    <3>2. Cardinality(items') \in Nat
      BY <3>1, FS_CardinalityType
    <3> QED
      BY <1>2, <2>1, <3>1, <3>2 DEF WithinLimit
  <2>3. ASSUME DispatchOne PROVE WithinLimit'
    <3>1. PICK r \in arrived : items' = items \/ items' = items \cup {r}
      BY <2>3 DEF DispatchOne
    <3>2. CASE items' = items
      BY <2>2, <3>2
    <3>3. CASE items' = items \cup {r}
      <4>1. Cardinality(items) < MaxInFlight
        BY <1>2, <2>3 DEF Room, HasDispatchCapacity, DispatchOne
      <4>2. /\ IsFiniteSet(items \cup {r})
            /\ \/ Cardinality(items \cup {r}) = Cardinality(items)
               \/ Cardinality(items \cup {r}) = Cardinality(items) + 1
        BY <2>1, FS_AddElement
      <4>3. Cardinality(items \cup {r}) <= MaxInFlight
        BY <2>1, <4>1, <4>2
      <4> QED
        BY <3>3, <4>3 DEF WithinLimit
    <3> QED
      BY <3>1, <3>2, <3>3
  <2>4. ASSUME PollReady \/ PollHeld \/ EndHeld PROVE items' \subseteq items
    BY <2>4 DEF PollReady, PollHeld, EndHeld, Without
  <2>5. ASSUME \/ Others \/ UNCHANGED vars
               \/ Resume \/ SwitchMode \/ Finish \/ BeginPolling \/ SkipLane \/ EnterLane
               \/ LifecycleHint \/ MailboxEmpty \/ PopKey \/ TakeReady \/ TakeHeld \/ Register
               \/ EndPolling
        PROVE  items' \subseteq items
    BY <2>5 DEF Others, Arrive, Shutdown, Fire, MarkReady, PushKey, WakeTask, Resume, SwitchMode,
       Finish, BeginPolling, SkipLane, EnterLane, LifecycleHint, MailboxEmpty, PopKey, TakeReady,
       TakeHeld, Register, EndPolling, vars, queueVars
  <2> QED
    BY <1>2, <2>2, <2>3, <2>4, <2>5 DEF Next, Task
<1> QED
  BY <1>1, <1>2, RoomInvariance, PTL DEF Safe

\* While one reply holds the lease no other is polled and none is dispatched
\* (Cx::exclusive: "A retained guard pauses every other scheduled reply").
LeaseExclusive ==
  [][lease # Free =>
       /\ items' \subseteq items
       /\ key = lease \/ UNCHANGED <<seen, begun>>]_vars

\* While a reply holds the lease nothing else is polled and nothing dispatched.
THEOREM LeaseExcludes == Safe => LeaseExclusive
<1>1. ASSUME IInv, [Next]_vars, lease # Free
      PROVE  items' \subseteq items /\ (key = lease \/ UNCHANGED <<seen, begun>>)
  <2>1. CASE DispatchOne \/ PollReady
    BY <1>1, <2>1 DEF DispatchOne, PollReady, IInv, HandInv, InTurn, Polling
  <2>2. CASE PollHeld
    BY <1>1, <2>2 DEF PollHeld, IInv, HandInv, queueVars
  <2>3. CASE Others \/ UNCHANGED vars
    BY <2>3 DEF Others, Arrive, Shutdown, Fire, MarkReady, PushKey, WakeTask, vars, queueVars,
       futureVars
  <2>4. CASE \/ Resume \/ SwitchMode \/ Finish \/ BeginPolling \/ SkipLane \/ EnterLane
             \/ LifecycleHint \/ MailboxEmpty \/ PopKey \/ TakeReady \/ TakeHeld \/ Register
             \/ EndHeld \/ EndPolling
    BY <2>4 DEF Resume, SwitchMode, Finish, BeginPolling, SkipLane, EnterLane, LifecycleHint,
       MailboxEmpty, PopKey, TakeReady, TakeHeld, Register, EndHeld, EndPolling, Without, queueVars,
       futureVars
  <2> QED
    BY <1>1, <2>1, <2>2, <2>3, <2>4 DEF Next, Task
<1> QED
  BY <1>1, Invariance, PTL DEF Safe, LeaseExclusive
=============================================================================
