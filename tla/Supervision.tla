---------------------------- MODULE Supervision ----------------------------
(***************************************************************************)
(* A tree of actors: how a parent owns its children, hears of their exits, *)
(* takes them down with it, and what its exit says of them.  ChildSet and  *)
(* ParentLink (supervision/runtime.rs), spawn_child (runtime/scope.rs) and *)
(* the shutdown paths of the actor task, seen from the tree.               *)
(*                                                                         *)
(* Mailboxes and replies are in Actor and Scheduler: here a turn, an       *)
(* initialization or a hook is a stretch of user code that may spawn       *)
(* children, return, wait or panic.  An actor is in `polling' from the     *)
(* moment its task has read the mode and goes into user code until that    *)
(* poll is over; what other threads do meanwhile, the poll does not see.   *)
(* The destructors of user futures are user code too: a handler future     *)
(* owns its Cx, whose `with' gives them the scope (SAFETY.md: "Future      *)
(* destructors may call `Cx::with`").                                      *)
(***************************************************************************)
EXTENDS Lifecycle, Naturals, Sequences, FiniteSets

CONSTANTS Actors,      \* every actor there will ever be: a bound
          Root,        \* the one that is spawned by no actor
          Nobody,
          Profiles,    \* how many children each actor may have (Fixed, Dynamic)
          Requests     \* the shutdowns that others ask of each actor: a bound

ASSUME SupervisionAssumption ==
  /\ IsFiniteSet(Actors) /\ Root \in Actors /\ Nobody \notin Actors
  /\ Profiles \subseteq [Actors -> Nat \ {0}] /\ Requests \in [Actors -> SUBSET Shutdowns]

VARIABLES
  mode, exit, subtree,  \* Control: the gate, and the two parts of the published status
  parent,               \* ParentLink: who registered the actor
  limit,                \* of its profile; it does not change
  children,             \* ChildSet.actors: the registrations it holds
  sticky,               \* ChildSet.subtree
  events,               \* the child-exit channel of each parent
  pc, polling,          \* the task: its step, and whether it is inside user code
  serving,              \* the graceful shutdown its loop serves, while it does
  waiting,              \* wait_all: registrations not yet looked at
  late                  \* history: living children born after their parent's request_all(Kill)

gateVars == <<mode, exit, subtree>>
setVars  == <<limit, children, sticky, events>>
taskVars == <<pc, polling, serving, waiting>>
vars     == <<gateVars, parent, setVars, taskVars, late>>

Statuses == {"Terminated", "Unconfirmed"}

\* The awaits where the task may be suspended, and the executor drop it.
Waits == {"new", "init", "loop", "hook", "replies", "children", "onStop", "teardown"}
Steps == Waits \cup {"unborn", "clear", "ask", "dropping", "dropped", "ended", "exited", "gone"}

\* The steps where the frame may hold futures of handlers: from the first turn
\* until finish_replies has seen its scheduler idle.  Before them an
\* initialization holds the scope.
Dispatching == {"loop", "hook", "replies"}

Born(a)   == pc[a] # "unborn"
\* The next actor to be born; which one it is makes no difference.
Fresh == LET unborn == {a \in Actors : ~Born(a)}
         IN  IF unborn = {} THEN {} ELSE {CHOOSE a \in unborn : TRUE}
Exited(a) == mode[a] = "Exited"
Leave(a)  == polling' = polling \ {a}
Enter(a)  == polling' = polling \cup {a}
Goto(a, step) == pc' = [pc EXCEPT ![a] = step]

\* ActorRef::request_shutdown by anybody, and request_all by the parent.
Requested(targets, shutdown) ==
  [a \in Actors |-> IF a \in targets THEN RequestedMode(mode[a], shutdown) ELSE mode[a]]

\* kill_actor, fail_actor and their uninitialized forms, for an actor whose own
\* mode is or becomes hard: request_all(Kill) comes first, then the futures of
\* handlers are dropped, if there may be any, and only then comes wait_all.
DropWork(a) ==
  LET next == IF pc[a] \in Dispatching THEN "clear" ELSE "teardown"
  IN  /\ waiting' = [waiting EXCEPT ![a] = IF next = "clear" THEN {} ELSE children[a]]
      /\ Goto(a, next)
      /\ serving' = [serving EXCEPT ![a] = "none"]
TeardownAlone(a, hard) ==    \* a mutant
  /\ mode' = [mode EXCEPT ![a] = hard]
  /\ DropWork(a)
Teardown(a, hard) ==
  /\ mode' = [Requested(children[a], "Kill") EXCEPT ![a] = hard]
  /\ DropWork(a)

Init ==
  /\ mode = [a \in Actors |-> "Running"]
  /\ exit = [a \in Actors |-> NoReason]
  /\ subtree = [a \in Actors |-> "none"]
  /\ parent = [a \in Actors |-> Nobody]
  /\ limit \in Profiles
  /\ children = [a \in Actors |-> {}]
  /\ sticky = [a \in Actors |-> "Terminated"]
  /\ events = [a \in Actors |-> <<>>]
  /\ pc = [a \in Actors |-> IF a = Root THEN "new" ELSE "unborn"]
  /\ polling = {}
  /\ serving = [a \in Actors |-> "none"]
  /\ waiting = [a \in Actors |-> {}]
  /\ late = {}

----------------------------------------------------------------------------
(* User code, between the start of a poll and its end.                     *)

\* Mutants, here and below, are what a plausible bug would make of the
\* definition that follows; nothing uses them.
Register(p, c) == children' = [children EXCEPT ![p] = @ \cup {c}]

AdmitOneMore(p) == Cardinality(children[p]) <= limit[p]    \* a mutant
Admit(p) == Cardinality(children[p]) < limit[p]

\* Where user code has the scope: a poll, except that of on_stop, whatever the
\* mode has become meanwhile; and the destructors of the futures that a hard
\* mode interrupts (before request_all), that clear drops (after it), and that
\* the frame of an aborted task takes with it.
HasScope(p) ==
  \/ p \in polling /\ pc[p] # "onStop"
  \/ pc[p] \in {"init", "hook"} /\ mode[p] \in Hard
  \/ pc[p] \in {"clear", "dropping"}

\* spawn_child: admit, register, and only then start the child's task.  It
\* looks at no mode.
SpawnChild(p, c) ==
  /\ HasScope(p) /\ ~Born(c)
  /\ Admit(p)
  /\ Register(p, c)
  /\ parent' = [parent EXCEPT ![c] = p]
  /\ Goto(c, "new")
  /\ late' = IF pc[p] = "clear" THEN late \cup {c} ELSE late
  /\ UNCHANGED <<gateVars, limit, sticky, events, polling, serving, waiting>>

\* The poll ends; its future waits, or a turn is over.
Yield(a) ==
  /\ a \in polling
  /\ Leave(a)
  /\ UNCHANGED <<gateVars, parent, setVars, pc, serving, waiting, late>>

\* User code, or the drop of its future, panics: fail_actor follows.
UserPanics(a) ==
  /\ a \in polling
  /\ Teardown(a, FailureMode(mode[a])) /\ Leave(a)
  /\ UNCHANGED <<exit, subtree, parent, setVars, late>>

InitDone(a) ==
  /\ a \in polling /\ pc[a] = "init"
  /\ Goto(a, "loop") /\ Leave(a)
  /\ UNCHANGED <<gateVars, parent, setVars, serving, waiting, late>>

HookDone(a) ==
  /\ a \in polling /\ pc[a] = "hook"
  /\ Goto(a, "loop") /\ Leave(a)
  /\ UNCHANGED <<gateVars, parent, setVars, serving, waiting, late>>

\* The work that Stop or Drain keeps is finished: on to graceful_finish.
RepliesDone(a) ==
  /\ a \in polling /\ pc[a] = "replies"
  /\ Goto(a, "ask") /\ Leave(a)
  /\ UNCHANGED <<gateVars, parent, setVars, serving, waiting, late>>

\* on_stop returns, and the frame with it.
StopHookDone(a) ==
  /\ a \in polling /\ pc[a] = "onStop"
  /\ Goto(a, "ended") /\ Leave(a)
  /\ UNCHANGED <<gateVars, parent, setVars, serving, waiting, late>>

----------------------------------------------------------------------------
(* The task of an actor: starting, its turns, and its children's exits.    *)

\* begin_initialization: only a hard mode that came first skips initialization.
Start(a) ==
  /\ pc[a] = "new" /\ MayInit(mode[a])
  /\ Goto(a, "init") /\ Enter(a)
  /\ UNCHANGED <<gateVars, parent, setVars, serving, waiting, late>>

\* The mode is read before every poll of user code: by await_actor_work in
\* init and the hooks, by the loops before every turn.
Poll(a) ==
  /\ a \notin polling
  /\ \/ pc[a] \in {"init", "hook", "replies", "onStop"} /\ mode[a] \in Graceful
     \/ pc[a] = "loop" /\ mode[a] = "Running"
  /\ Enter(a)
  /\ UNCHANGED <<gateVars, parent, setVars, pc, serving, waiting, late>>

\* A hard mode is read instead: what was interrupted is dropped.
Interrupt(a) ==
  /\ a \notin polling
  /\ pc[a] \in {"new", "init", "loop", "hook", "replies", "ask", "children", "onStop"}
  /\ mode[a] \in Hard
  /\ Teardown(a, mode[a])
  /\ UNCHANGED <<exit, subtree, parent, setVars, polling, late>>

\* ChildSet::reap frees the registration and keeps a lost confirmation.
ReapForgets(p, c) ==    \* a mutant
  /\ children' = [children EXCEPT ![p] = @ \ {c}]
  /\ sticky' = sticky
Reap(p, c) ==
  /\ children' = [children EXCEPT ![p] = @ \ {c}]
  /\ sticky' = [sticky EXCEPT ![p] =
       IF c \in children[p] /\ subtree[c] = "Unconfirmed" THEN "Unconfirmed" ELSE @]

\* begin_child_hook, for an event that found its registration.
HookNeedsGrace(p, c) == c \in children[p] /\ mode[p] \in Graceful    \* a mutant
MayEnterHook(p, c)   == c \in children[p] /\ mode[p] = "Running"

\* handle_child_exit: a turn takes the oldest event, reaps its child and, if
\* the gate still allows it, enters on_child_exit.  Stop does not poll events.
TakeExit(p) ==
  /\ p \in polling /\ events[p] # <<>>
  /\ pc[p] = "loop" \/ (pc[p] = "replies" /\ serving[p] = "Drain")
  /\ LET c == Head(events[p])
     IN  /\ Reap(p, c)
         /\ Goto(p, IF MayEnterHook(p, c) THEN "hook" ELSE pc[p])
  /\ events' = [events EXCEPT ![p] = Tail(@)]
  /\ Leave(p)
  /\ UNCHANGED <<gateVars, parent, limit, serving, waiting, late>>

----------------------------------------------------------------------------
(* Shutdown and teardown.                                                  *)

\* RuntimeScheduler::clear is over, which contains what a destructor panics
\* with; wait_all takes the children as it finds them.
Cleared(a) ==
  /\ pc[a] = "clear"
  /\ waiting' = [waiting EXCEPT ![a] = children[a]]
  /\ Goto(a, "teardown")
  /\ UNCHANGED <<gateVars, parent, setVars, polling, serving, late>>

\* The loop reads a graceful shutdown and calls on_shutdown ...
Serve(a) ==
  /\ pc[a] = "loop" /\ a \notin polling
  /\ \/ mode[a] = "Stopping" /\ serving' = [serving EXCEPT ![a] = "Stop"]
     \/ mode[a] = "Draining" /\ serving' = [serving EXCEPT ![a] = "Drain"]
  /\ Goto(a, "replies")
  /\ UNCHANGED <<gateVars, parent, setVars, polling, waiting, late>>

\* ... which may panic.
OnShutdownPanics(a) ==
  /\ pc[a] = "loop" /\ a \notin polling /\ mode[a] \in {"Stopping", "Draining"}
  /\ Teardown(a, "Failing")
  /\ UNCHANGED <<exit, subtree, parent, setVars, polling, late>>

\* graceful_finish reads the mode once more; request_all then sends the
\* children the shutdown that is being served, and wait_all begins.
WaitUnasked(a) ==    \* a mutant
  /\ pc[a] = "ask" /\ mode[a] \in Graceful
  /\ waiting' = [waiting EXCEPT ![a] = children[a]]
  /\ Goto(a, "children")
  /\ UNCHANGED <<gateVars, parent, setVars, polling, serving, late>>
AskChildren(a) ==
  /\ pc[a] = "ask" /\ mode[a] \in Graceful
  /\ mode' = Requested(children[a], serving[a])
  /\ waiting' = [waiting EXCEPT ![a] = children[a]]
  /\ Goto(a, "children")
  /\ UNCHANGED <<exit, subtree, parent, setVars, polling, serving, late>>

\* wait_all takes the children one after another and keeps each result at
\* once: the next await may be the last.
Forget(a, c) == sticky' = sticky    \* a mutant
Persist(a, c) ==
  sticky' = [sticky EXCEPT ![a] = IF subtree[c] = "Unconfirmed" THEN "Unconfirmed" ELSE @]

AwaitChild(a, c) ==
  /\ pc[a] \in {"children", "teardown"} /\ c \in waiting[a]
  /\ Exited(c)
  /\ Persist(a, c)
  /\ waiting' = [waiting EXCEPT ![a] = @ \ {c}]
  /\ UNCHANGED <<gateVars, parent, limit, children, events, pc, polling, serving, late>>

\* All of them have ended: the set is cleared.
WaitIgnored(a) == TRUE    \* a mutant
WaitOver(a)    == waiting[a] = {}

AllAwaited(a) ==
  /\ pc[a] \in {"children", "teardown"} /\ WaitOver(a)
  /\ children' = [children EXCEPT ![a] = {}]
  /\ Goto(a, IF pc[a] = "children" THEN "onStop" ELSE "ended")
  /\ UNCHANGED <<gateVars, parent, limit, sticky, events, polling, serving, waiting, late>>

\* The executor drops the suspended task.  ActorTask::drop marks the abort,
\* then drops the frame: the scheduler or the initialization with their futures
\* first.  A panic of the actor's own Drop, which unwinds the last poll, comes
\* to the same.
Abort(a) ==
  /\ pc[a] \in Waits \cup {"ended"} /\ a \notin polling
  /\ mode[a] # "Aborting"
  /\ mode' = [mode EXCEPT ![a] = AbortMode(@)]
  /\ waiting' = [waiting EXCEPT ![a] = {}]
  /\ serving' = [serving EXCEPT ![a] = "none"]
  /\ Goto(a, IF pc[a] \in Dispatching \cup {"init"} THEN "dropping" ELSE "dropped")
  /\ UNCHANGED <<exit, subtree, parent, setVars, polling, late>>

\* The rest of the frame goes, with it the owners of the children it still
\* holds, each of which requests a Kill.
OwnersReleased(a) == mode    \* a mutant
OwnersDropped(a)  == Requested(children[a], "Kill")

FrameDropped(a) ==
  /\ pc[a] \in {"dropping", "dropped"}
  /\ mode' = OwnersDropped(a)
  /\ children' = [children EXCEPT ![a] = {}]
  /\ Goto(a, "ended")
  /\ UNCHANGED <<exit, subtree, parent, limit, sticky, events, polling, serving, waiting, late>>

\* The status that the frame returned, or ExitGuard put in its place.
ProposedReason(a) ==
  CASE mode[a] = "Aborting"  -> "Aborted"
    [] serving[a] = "Stop"   -> "Stopped"
    [] serving[a] = "Drain"  -> "Drained"
    [] OTHER                 -> "Killed"

\* ExitStatus::new: an aborted actor confirms nothing.
StatusOfPanic(a, reason) ==    \* a mutant
  IF reason \in {"Aborted", "Panicked"} THEN "Unconfirmed" ELSE sticky[a]
StatusOf(a, reason) == IF reason = "Aborted" THEN "Unconfirmed" ELSE sticky[a]

\* ExitGuard::publish commits the status ...
Publish(a) ==
  /\ pc[a] = "ended"
  /\ LET reason == FinishReason(mode[a], ProposedReason(a))
     IN  /\ exit' = [exit EXCEPT ![a] = reason]
         /\ subtree' = [subtree EXCEPT ![a] = StatusOf(a, reason)]
  /\ mode' = [mode EXCEPT ![a] = "Exited"]
  /\ serving' = [serving EXCEPT ![a] = "none"]
  /\ events' = [events EXCEPT ![a] = <<>>]
  /\ Goto(a, "exited")
  /\ late' = late \ {a}
  /\ UNCHANGED <<parent, limit, children, sticky, polling, waiting>>

\* A parent that still has its receiver.
Listening(p) == p # Nobody /\ pc[p] \notin {"ended", "exited", "gone"}

\* ... and only then sends it to the parent, whoever that was.
SendOnlyRunning(a) ==    \* a mutant: as if an abort sent nothing
  events' = IF Listening(parent[a]) /\ exit[a] # "Aborted"
            THEN [events EXCEPT ![parent[a]] = Append(@, a)] ELSE events
Send(a) ==
  events' = IF Listening(parent[a])
            THEN [events EXCEPT ![parent[a]] = Append(@, a)] ELSE events

SendExit(a) ==
  /\ pc[a] = "exited"
  /\ Send(a)
  /\ Goto(a, "gone")
  /\ UNCHANGED <<gateVars, parent, limit, children, sticky, polling, serving, waiting, late>>

----------------------------------------------------------------------------
\* Anybody with an address asks for a shutdown.
RequestShutdown(a, shutdown) ==
  /\ Born(a)
  /\ mode' = Requested({a}, shutdown)
  /\ UNCHANGED <<exit, subtree, parent, setVars, taskVars, late>>

UserCode(a) ==
  \/ Yield(a) \/ UserPanics(a) \/ InitDone(a) \/ HookDone(a) \/ RepliesDone(a)
  \/ StopHookDone(a) \/ OnShutdownPanics(a) \/ \E c \in Fresh : SpawnChild(a, c)

Runtime(a) ==
  \/ Start(a) \/ Poll(a) \/ Interrupt(a) \/ TakeExit(a) \/ Serve(a)
  \/ AskChildren(a) \/ AllAwaited(a) \/ Cleared(a) \/ FrameDropped(a)
  \/ Publish(a) \/ SendExit(a)
  \/ \E c \in Actors : AwaitChild(a, c)

Task(a) == Runtime(a) \/ UserCode(a)

Next ==
  \E a \in Actors :
    Task(a) \/ Abort(a) \/ \E shutdown \in Requests[a] : RequestShutdown(a, shutdown)

Safe == Init /\ [][Next]_vars

\* The executor polls every task; user futures of an actor in no hard mode
\* finish if they are polled again and again, and its turns reach the lane of
\* child exits again and again (Scheduler shows the rotation).
Healthy(a) == mode[a] \in Graceful

Fairness ==
  \A a \in Actors :
    /\ WF_vars(Task(a))
    /\ SF_vars(Healthy(a) /\ (InitDone(a) \/ HookDone(a) \/ RepliesDone(a) \/ StopHookDone(a)))
    /\ SF_vars(Healthy(a) /\ TakeExit(a))

Spec == Safe /\ Fairness

----------------------------------------------------------------------------
(* Correctness.                                                            *)

\* Every variable stays in its domain, and no actor holds more registrations
\* than its profile admits.
TypeOK ==
  /\ mode \in [Actors -> Modes] /\ exit \in [Actors -> Reasons \cup {NoReason}]
  /\ subtree \in [Actors -> Statuses \cup {"none"}]
  /\ parent \in [Actors -> Actors \cup {Nobody}]
  /\ limit \in Profiles /\ \A a \in Actors : Cardinality(children[a]) <= limit[a]
  /\ children \in [Actors -> SUBSET Actors] /\ waiting \in [Actors -> SUBSET Actors]
  /\ sticky \in [Actors -> Statuses]
  /\ events \in [Actors -> Seq(Actors)]
  /\ pc \in [Actors -> Steps] /\ polling \subseteq Actors
  /\ serving \in [Actors -> {"none", "Stop", "Drain"}] /\ late \subseteq Actors

\* What becomes of an actor, in the words of Subtree.
StateOf(a) ==
  IF ~Born(a) THEN "unborn"
  ELSE IF ~Exited(a) THEN "alive"
  ELSE IF exit[a] = "Aborted" THEN "aborted"
  ELSE IF subtree[a] = "Terminated" THEN "confirmed" ELSE "tainted"

Promise == INSTANCE Subtree WITH state <- [a \in Actors |-> StateOf(a)]

\* Every exit says of the subtree what Subtree allows it to say.
PromiseKept == Promise!Spec

\* Terminated means what lifecycle.rs says of it, for the whole subtree: when
\* an actor publishes it, every descendant has exited, and confirmed the same
\* of itself.
TerminatedMeansGone ==
  \A a \in Actors : subtree[a] = "Terminated" =>
    \A d \in Promise!Descendants(a) : Exited(d) /\ subtree[d] = "Terminated"

\* Nor does a confirmation get lost for less: a subtree is Unconfirmed only if
\* some actor in it was aborted itself, however many others panicked, were
\* killed or were given up on by parents of their own (lifecycle.rs:
\* "`Panicked` may retain `Terminated`").
LostOnlyByAbort ==
  \A a \in Actors : subtree[a] = "Unconfirmed" =>
    \E d \in {a} \cup Promise!Descendants(a) : exit[d] = "Aborted"

\* No deadlock among the waits of wait_all: they go down the tree, which has no
\* cycles, and an actor waits only for children of its own that it, or somebody
\* else, has told to go, and to go at once if it gave up its grace itself.  The
\* one exception is exact: a child that a destructor spawned after the request.
WaitsDownwards ==
  \A a \in Actors :
    /\ a \notin Promise!Descendants(a)
    /\ \A c \in waiting[a] :
         /\ parent[c] = a
         /\ c \notin late =>
              /\ mode[c] # "Running"
              /\ pc[a] = "teardown" => mode[c] \in Hard \cup {"Exited"}

\* lifecycle.rs says of Kill, without the exception, that it "then reaches
\* children before active replies and queued messages are dropped": no killed
\* actor waits for a child that nobody told to go.
KillReachesChildren ==
  \A a \in Actors :
    pc[a] = "teardown" /\ mode[a] = "Killing" => \A c \in waiting[a] : mode[c] # "Running"

\* on_stop runs post-order (actor.rs, shutdown.rs): every direct child has
\* exited, and unless some confirmation was lost so has every descendant.
CleanupAfterChildren ==
  \A a \in Actors : pc[a] = "onStop" =>
    /\ \A c \in Promise!Children(a) : Exited(c)
    /\ sticky[a] = "Terminated" => \A d \in Promise!Descendants(a) : Exited(d)

\* Nobody outlives its parent unasked: a child whose parent has exited has
\* been told to kill itself, if it is not gone already (ErasedActorOwner).
OrphansKilled ==
  \A c \in Actors :
    parent[c] # Nobody /\ Exited(parent[c]) => mode[c] \in Hard \cup {"Exited"}

\* A parent at work hears of every child that ends, and once: what waits in
\* its channel are exactly the registered children that have sent their exit,
\* each of them after its status, and each once.
Receiving == {"new", "init", "loop", "hook", "replies", "ask"}

ExitsReported ==
  \A p \in Actors : pc[p] \in Receiving =>
    /\ {events[p][i] : i \in DOMAIN events[p]} = {c \in children[p] : pc[c] = "gone"}
    /\ Len(events[p]) = Cardinality({c \in children[p] : pc[c] = "gone"})

\* on_child_exit is entered before any shutdown commits, although the turn
\* read the mode earlier; it is about one child that was registered, whose
\* status is published and which has no registration any more, so that there
\* is room for a replacement (actor.rs, scope.rs).
EntersHook(p) ==
  pc[p] # "hook" /\ pc'[p] = "hook" =>
    /\ mode[p] = "Running" /\ Cardinality(children'[p]) < limit[p]
    /\ \E c \in children[p] : Exited(c) /\ children'[p] = children[p] \ {c}
HookEntry == [][\A p \in Actors : EntersHook(p)]_vars

\* Whatever panics or aborts on the way, a tree goes down as a whole: when its
\* root has left Running, every actor that was ever born exits in the end ...
AllGone == \A a \in Actors : Born(a) => Exited(a)

\* ... unless some actor in teardown waits for the child of a destructor that
\* nobody ever tells to go.
Stranded == \E c \in late : mode[c] = "Running" /\ pc[parent[c]] = "teardown"

TreeGoesDown == [](mode[Root] # "Running" => <>(AllGone \/ []Stranded))
=============================================================================
