------------------------- MODULE SupervisionProofs -------------------------
(***************************************************************************)
(* Theorems about Supervision, for every set of actors, every profile and  *)
(* every set of requests.  Safety only: Safe is Spec without its fairness. *)
(***************************************************************************)
EXTENDS Supervision, FunctionTheorems, FiniteSetTheorems, TLAPS

(***************************************************************************)
(* The inductive invariant.  Its heart is Kept: of every child its parent  *)
(* still holds the registration, or has counted its result, or has given   *)
(* up on it in an abort.  The other parts are what the steps that remove a *)
(* registration rely on.                                                   *)
(***************************************************************************)

\* The gate, the task and the published status agree.
InStep(a) ==
  /\ mode[a] = "Exited" <=> pc[a] \in {"exited", "gone"}
  /\ subtree[a] = "none" <=> mode[a] # "Exited"
  /\ mode[a] # "Exited" => exit[a] = NoReason
  /\ mode[a] = "Aborting" => pc[a] \in {"dropping", "dropped", "ended"}
  /\ pc[a] \in {"dropping", "dropped"} => mode[a] = "Aborting"
  /\ a \in polling => pc[a] \in {"init", "loop", "hook", "replies", "onStop"}
  /\ pc[a] \in {"replies", "ask", "children"} => serving[a] # "none"
  /\ pc[a] \in {"onStop", "ended", "exited", "gone"} => children[a] = {}
  /\ subtree[a] = "Terminated" => sticky[a] = "Terminated" /\ exit[a] # "Aborted"

\* The result of c is known to p, and not forgotten.
Accounted(p, c) ==
  Exited(c) /\ (subtree[c] = "Unconfirmed" => sticky[p] = "Unconfirmed")

Owned(p) == \A c \in children[p] : parent[c] = p /\ Born(c)

Kept(p) ==
  \A c \in Actors : parent[c] = p =>
    \/ c \in children[p]
    \/ mode[c] \in Hard \cup {"Exited"}
         /\ (Accounted(p, c) \/ mode[p] = "Aborting" \/ exit[p] = "Aborted")

Awaited(p) ==
  pc[p] \in {"children", "teardown"} =>
    waiting[p] \subseteq children[p] /\ \A c \in children[p] \ waiting[p] : Accounted(p, c)

Reported(p) == \A i \in DOMAIN events[p] : Exited(events[p][i])

\* No confirmation is denied without a reason.
Reasoned(p) ==
  sticky[p] = "Unconfirmed" => \E c \in Actors : parent[c] = p /\ subtree[c] = "Unconfirmed"

IInv ==
  /\ TypeOK
  /\ \A p \in Actors :
       InStep(p) /\ Owned(p) /\ Kept(p) /\ Awaited(p) /\ Reported(p) /\ Reasoned(p)

----------------------------------------------------------------------------
(* The gate, for any actor.                                                *)

\* No request brings an actor back, and Kill always takes hold.
LEMMA RequestGate ==
  ASSUME NEW g \in Modes, NEW s \in Shutdowns
  PROVE  /\ RequestedMode(g, s) \in Modes
         /\ RequestedMode(g, s) = "Exited" <=> g = "Exited"
         /\ RequestedMode(g, s) = "Aborting" <=> g = "Aborting"
         /\ g \in Hard \cup {"Exited"} => RequestedMode(g, s) = g
         /\ RequestedMode(g, "Kill") \in Hard \cup {"Exited"}
  BY DEF Modes, Graceful, Hard, Shutdowns, RequestedMode, CutoffMode

\* The same of a request to several actors.
LEMMA RequestAll ==
  ASSUME TypeOK, NEW S, NEW s \in Shutdowns
  PROVE  /\ Requested(S, s) \in [Actors -> Modes]
         /\ \A x \in Actors :
              /\ Requested(S, s)[x] = "Exited" <=> mode[x] = "Exited"
              /\ Requested(S, s)[x] = "Aborting" <=> mode[x] = "Aborting"
              /\ mode[x] \in Hard \cup {"Exited"} => Requested(S, s)[x] = mode[x]
              /\ x \in S => Requested(S, "Kill")[x] \in Hard \cup {"Exited"}
  BY RequestGate DEF TypeOK, Requested

\* A panic or an abort makes an actor that is not gone hard, and a task that
\* ends publishes a reason.
LEMMA HardGate ==
  ASSUME NEW g \in Modes \ {"Exited"}
  PROVE  /\ FailureMode(g) \in Hard /\ AbortMode(g) = "Aborting"
         /\ FailureMode(g) = "Aborting" => g = "Aborting"
         /\ \A r \in Reasons : FinishReason(g, r) \in Reasons
         /\ g = "Aborting" => \A r \in Reasons : FinishReason(g, r) = "Aborted"
  BY DEF Modes, Graceful, Hard, Reasons, FailureMode, AbortMode, FinishReason, HardReason

\* The next actor to be born is one that is not born yet.
LEMMA FreshUnborn ==
  ASSUME NEW c \in Fresh
  PROVE  c \in Actors /\ ~Born(c)
<1> DEFINE unborn == {a \in Actors : ~Born(a)}
<1>1. unborn # {} /\ c = CHOOSE a \in unborn : TRUE
  BY DEF Fresh
<1>2. c \in unborn
  BY <1>1
<1> QED
  BY <1>2

----------------------------------------------------------------------------
(* Type correctness.                                                       *)

\* The initial state is well typed.
LEMMA TypeInit == Init => TypeOK
<1> SUFFICES ASSUME Init PROVE TypeOK
  OBVIOUS
<1>1. Cardinality({}) = 0
  BY FS_EmptySet
<1>2. limit \in [Actors -> Nat \ {0}]
  BY SupervisionAssumption DEF Init
<1>3. \A a \in Actors : Cardinality(children[a]) <= limit[a]
  BY <1>1, <1>2 DEF Init
<1> QED
  BY <1>3 DEF Init, TypeOK, Modes, Graceful, Steps, Waits, Statuses

\* Sets of children are finite, and a step that only removes registrations
\* keeps the limits.
LEMMA LimitKept ==
  ASSUME TypeOK, limit' = limit,
         NEW a \in Actors, NEW S \in SUBSET children[a],
         children' = [children EXCEPT ![a] = S]
  PROVE  \A x \in Actors : Cardinality(children'[x]) <= limit'[x]
<1>1. limit \in [Actors -> Nat \ {0}] /\ IsFiniteSet(Actors)
  BY SupervisionAssumption DEF TypeOK
<1>2. IsFiniteSet(children[a])
  BY <1>1, FS_Subset DEF TypeOK
<1>3. Cardinality(S) <= Cardinality(children[a])
  BY <1>2, FS_Subset
<1>4. IsFiniteSet(S)
  BY <1>2, FS_Subset
<1>5. Cardinality(S) \in Nat /\ Cardinality(children[a]) \in Nat
  BY <1>2, <1>4, FS_CardinalityType
<1>6. Cardinality(S) <= limit[a]
  <2>1. Cardinality(children[a]) <= limit[a] /\ limit[a] \in Nat
    BY <1>1 DEF TypeOK
  <2> QED
    BY <1>3, <1>5, <2>1
<1> QED
  BY <1>6 DEF TypeOK

\* A registration that was admitted keeps the limits too.
LEMMA LimitAdmits ==
  ASSUME TypeOK, NEW p \in Actors, NEW c \in Actors, SpawnChild(p, c)
  PROVE  \A x \in Actors : Cardinality(children'[x]) <= limit'[x]
<1>1. limit \in [Actors -> Nat \ {0}] /\ IsFiniteSet(Actors)
  BY SupervisionAssumption DEF TypeOK
<1>2. IsFiniteSet(children[p])
  BY <1>1, FS_Subset DEF TypeOK
<1>3. /\ Cardinality(children[p]) \in Nat
      /\ Cardinality(children[p] \cup {c}) = IF c \in children[p] THEN Cardinality(children[p])
                                             ELSE Cardinality(children[p]) + 1
  BY <1>2, FS_CardinalityType, FS_AddElement
<1>4. Cardinality(children[p] \cup {c}) <= limit[p]
  BY <1>1, <1>3 DEF SpawnChild, Admit
<1> QED
  BY <1>4 DEF SpawnChild, Register, TypeOK

----------------------------------------------------------------------------
(* Steps that leave registrations and statuses alone.                      *)

\* No gate goes back, and none opens or closes the last door.
Forward ==
  \A x \in Actors :
    /\ mode'[x] = "Exited" <=> mode[x] = "Exited"
    /\ mode'[x] = "Aborting" <=> mode[x] = "Aborting"
    /\ mode[x] \in Hard => mode'[x] \in Hard

\* What such a step of one actor cannot disturb.
LEMMA Undisturbed ==
  ASSUME IInv, Forward, NEW a \in Actors,
         UNCHANGED <<exit, subtree, parent, children, sticky, events>>,
         \A x \in Actors \ {a} : pc'[x] = pc[x] /\ waiting'[x] = waiting[x],
         pc'[a] # "unborn" \/ pc'[a] = pc[a],
         \/ pc'[a] = pc[a] /\ waiting'[a] = waiting[a]
         \/ pc'[a] \notin {"children", "teardown"}
         \/ waiting'[a] = children[a]
  PROVE  \A p \in Actors : Owned(p)' /\ Kept(p)' /\ Awaited(p)' /\ Reported(p)' /\ Reasoned(p)'
<1> SUFFICES ASSUME NEW p \in Actors
             PROVE  Owned(p)' /\ Kept(p)' /\ Awaited(p)' /\ Reported(p)' /\ Reasoned(p)'
  OBVIOUS
<1> USE DEF IInv
<1>1. \A x \in Actors : Exited(x)' <=> Exited(x)
  BY DEF Forward, Exited
<1>2. \A x \in Actors : Born(x) => Born(x)'
  BY DEF Born
<1>3. \A x \in Actors : Accounted(p, x) => Accounted(p, x)'
  BY <1>1 DEF Accounted
<1>4. Owned(p)'
  BY <1>2 DEF Owned, TypeOK
<1>5. Kept(p)'
  BY <1>3 DEF Kept, Forward
<1>6. Awaited(p)'
  BY <1>3 DEF Awaited, TypeOK
<1>7. Reported(p)'
  <2>1. \A i \in DOMAIN events[p] : events[p][i] \in Actors
    BY DEF TypeOK
  <2> QED
    BY <1>1, <2>1 DEF Reported
<1>8. Reasoned(p)'
  BY DEF Reasoned
<1> QED
  BY <1>4, <1>5, <1>6, <1>7, <1>8

\* Steps of the task and of user code that move nothing but the task itself.
LEMMA QuietSteps ==
  ASSUME IInv, NEW a \in Actors,
         \/ Yield(a) \/ InitDone(a) \/ HookDone(a) \/ RepliesDone(a)
         \/ StopHookDone(a) \/ Start(a) \/ Poll(a) \/ Serve(a)
  PROVE  IInv'
<1> USE DEF Yield, InitDone, HookDone, RepliesDone, StopHookDone, Start, Poll, Serve,
            Goto, Leave, Enter, gateVars, setVars
<1>1. /\ UNCHANGED <<mode, exit, subtree, parent, limit, children, sticky, events, waiting, late>>
      /\ \A x \in Actors \ {a} : pc'[x] = pc[x]
  BY DEF IInv, TypeOK
<1>2. pc'[a] \in Steps \ {"unborn", "children", "teardown"} \/ pc'[a] = pc[a]
  BY DEF IInv, TypeOK, Steps, Waits
<1>3. TypeOK'
  <2>1. pc' \in [Actors -> Steps] /\ polling' \subseteq Actors
    <3>1. pc' \in [Actors -> Steps]
      <4>1. pc \in [Actors -> Steps]
        BY DEF IInv, TypeOK
      <4>2. pc' = pc \/ \E step \in Steps : pc' = [pc EXCEPT ![a] = step]
        BY DEF Steps, Waits
      <4> QED
        BY ONLY <4>1, <4>2
    <3>2. polling' \subseteq Actors
      BY DEF IInv, TypeOK
    <3> QED
      BY <3>1, <3>2
  <2>2. serving' \in [Actors -> {"none", "Stop", "Drain"}]
    BY DEF IInv, TypeOK
  <2>3. TypeOK
    BY DEF IInv
  <2> QED
    BY ONLY <1>1, <2>1, <2>2, <2>3 DEF TypeOK
<1>4. Forward
  BY <1>1 DEF Forward
<1>5. \A p \in Actors : InStep(p)'
  BY DEF IInv, TypeOK, InStep, Graceful
<1>6. \A p \in Actors : Owned(p)' /\ Kept(p)' /\ Awaited(p)' /\ Reported(p)' /\ Reasoned(p)'
  BY <1>1, <1>2, <1>4, Undisturbed
<1> QED
  BY <1>3, <1>5, <1>6 DEF IInv

\* Steps that take an actor into its teardown.
LEMMA TeardownSteps ==
  ASSUME IInv, NEW a \in Actors, UserPanics(a) \/ Interrupt(a) \/ OnShutdownPanics(a)
  PROVE  IInv'
<1> USE DEF UserPanics, Interrupt, OnShutdownPanics, setVars
<1>1. PICK hard \in Hard :
        /\ Teardown(a, hard) /\ polling' \in {polling, polling \ {a}}
        /\ UNCHANGED <<exit, subtree, parent, limit, children, sticky, events, late>>
        /\ hard = "Aborting" => mode[a] = "Aborting"
        /\ a \notin polling'
  <2>1. mode[a] \in Modes \ {"Exited"}
    BY DEF IInv, TypeOK, InStep, Hard
  <2>2. FailureMode(mode[a]) \in Hard /\ (FailureMode(mode[a]) = "Aborting" => mode[a] = "Aborting")
    BY <2>1, HardGate
  <2> QED
    BY <2>2 DEF Leave, Hard
<1>2. /\ mode[a] \in Modes \ {"Exited", "Aborting"}
      /\ pc[a] \notin {"unborn", "dropping", "dropped", "ended", "exited", "gone"}
  BY DEF IInv, TypeOK, InStep, Hard
<1> HIDE DEF UserPanics, Interrupt, OnShutdownPanics
<1>3. PICK next \in {"clear", "teardown"} :
        /\ mode' = [Requested(children[a], "Kill") EXCEPT ![a] = hard]
        /\ waiting' = [waiting EXCEPT ![a] = IF next = "clear" THEN {} ELSE children[a]]
        /\ pc' = [pc EXCEPT ![a] = next]
        /\ serving' = [serving EXCEPT ![a] = "none"]
  BY <1>1 DEF Teardown, DropWork, Goto
<1>4. /\ Requested(children[a], "Kill") \in [Actors -> Modes]
      /\ \A x \in Actors :
           /\ Requested(children[a], "Kill")[x] = "Exited" <=> mode[x] = "Exited"
           /\ Requested(children[a], "Kill")[x] = "Aborting" <=> mode[x] = "Aborting"
           /\ mode[x] \in Hard \cup {"Exited"} => Requested(children[a], "Kill")[x] = mode[x]
  BY RequestAll DEF IInv, Shutdowns
<1>5. mode' \in [Actors -> Modes] /\ Forward
  BY <1>1, <1>2, <1>3, <1>4 DEF Forward, Hard, Modes
<1>6. TypeOK'
  <2>1. pc' \in [Actors -> Steps]
    BY <1>3 DEF IInv, TypeOK, Steps, Waits
  <2>2. /\ polling' \subseteq Actors /\ waiting' \in [Actors -> SUBSET Actors]
        /\ serving' \in [Actors -> {"none", "Stop", "Drain"}]
    BY <1>1, <1>3 DEF IInv, TypeOK
  <2> QED
    BY <1>1, <1>5, <2>1, <2>2 DEF IInv, TypeOK
<1>7. \A p \in Actors : InStep(p)'
  <2> SUFFICES ASSUME NEW p \in Actors PROVE InStep(p)'
    OBVIOUS
  <2>1. CASE p = a
    <3>1. /\ mode'[a] \in Hard \ {"Aborting"} /\ pc'[a] \in {"clear", "teardown"}
          /\ a \notin polling'
      BY <1>1, <1>2, <1>3, <1>4 DEF IInv, TypeOK
    <3>2. mode[a] # "Exited" /\ mode'[a] # "Exited"
      BY <1>2, <3>1 DEF Hard
    <3>3. subtree'[a] = "none" /\ exit'[a] = NoReason
      BY <1>1, <3>2 DEF IInv, InStep
    <3> QED
      BY <2>1, <3>1, <3>2, <3>3 DEF InStep
  <2>2. CASE p # a
    <3>1. pc'[p] = pc[p] /\ serving'[p] = serving[p] /\ (p \in polling' => p \in polling)
      BY <1>1, <1>3, <2>2 DEF IInv, TypeOK
    <3> QED
      BY <1>1, <1>5, <3>1 DEF IInv, InStep, Forward
  <2> QED
    BY <2>1, <2>2
<1>8. \A p \in Actors : Owned(p)' /\ Kept(p)' /\ Awaited(p)' /\ Reported(p)' /\ Reasoned(p)'
  <2>1. \A x \in Actors \ {a} : pc'[x] = pc[x] /\ waiting'[x] = waiting[x]
    BY <1>3 DEF IInv, TypeOK
  <2>2. pc'[a] = "clear" \/ (pc'[a] = "teardown" /\ waiting'[a] = children[a])
    BY <1>3 DEF IInv, TypeOK
  <2> QED
    BY <1>1, <1>5, <2>1, <2>2, Undisturbed
<1> QED
  BY <1>6, <1>7, <1>8 DEF IInv

\* A request from outside, and the one that graceful_finish makes of the
\* children.
LEMMA RequestSteps ==
  ASSUME IInv, NEW a \in Actors, NEW request \in Shutdowns,
         AskChildren(a) \/ RequestShutdown(a, request)
  PROVE  IInv'
<1> USE DEF setVars, taskVars
<1>1. PICK S \in SUBSET Actors, shutdown \in Shutdowns : mode' = Requested(S, shutdown)
  <2>1. CASE AskChildren(a)
    <3>1. serving[a] \in Shutdowns /\ children[a] \in SUBSET Actors
      BY <2>1 DEF AskChildren, IInv, TypeOK, InStep, Shutdowns
    <3>2. mode' = Requested(children[a], serving[a])
      BY <2>1 DEF AskChildren
    <3> QED
      BY <3>1, <3>2, Zenon
  <2>2. CASE RequestShutdown(a, request)
    <3>1. mode' = Requested({a}, request) /\ {a} \in SUBSET Actors
      BY <2>2 DEF RequestShutdown
    <3> QED
      BY <3>1, Zenon
  <2> QED
    BY <2>1, <2>2
<1>2. /\ UNCHANGED <<exit, subtree, parent, limit, children, sticky, events, polling, serving, late>>
      /\ \/ UNCHANGED <<pc, waiting>>
         \/ /\ pc[a] = "ask" /\ pc' = [pc EXCEPT ![a] = "children"]
            /\ waiting' = [waiting EXCEPT ![a] = children[a]]
  BY DEF AskChildren, RequestShutdown, Goto
<1>3. mode' \in [Actors -> Modes] /\ Forward
  <2>1. TypeOK
    BY DEF IInv
  <2> QED
    BY <1>1, <2>1, RequestAll DEF Forward
<1>4. TypeOK'
  <2>1. pc' \in [Actors -> Steps]
    <3>1. pc \in [Actors -> Steps] /\ "children" \in Steps
      BY DEF IInv, TypeOK, Steps, Waits
    <3> QED
      BY <1>2, <3>1
  <2>2. waiting' \in [Actors -> SUBSET Actors]
    BY <1>2 DEF IInv, TypeOK
  <2> QED
    BY <1>2, <1>3, <2>1, <2>2 DEF IInv, TypeOK
<1>5. \A p \in Actors : InStep(p)'
  <2> SUFFICES ASSUME NEW p \in Actors PROVE InStep(p)'
    OBVIOUS
  <2>1. \/ pc'[p] = pc[p]
        \/ pc[p] = "ask" /\ pc'[p] = "children"
    BY <1>2 DEF IInv, TypeOK
  <2> QED
    BY <1>2, <1>3, <2>1 DEF IInv, InStep, Forward
<1>6. \A p \in Actors : Owned(p)' /\ Kept(p)' /\ Awaited(p)' /\ Reported(p)' /\ Reasoned(p)'
  <2>1. \A x \in Actors \ {a} : pc'[x] = pc[x] /\ waiting'[x] = waiting[x]
    BY <1>2 DEF IInv, TypeOK
  <2>2. \/ pc'[a] = pc[a] /\ waiting'[a] = waiting[a]
        \/ pc'[a] = "children" /\ waiting'[a] = children[a]
    BY <1>2 DEF IInv, TypeOK
  <2> QED
    BY <1>2, <1>3, <2>1, <2>2, Undisturbed
<1> QED
  BY <1>4, <1>5, <1>6 DEF IInv

\* The futures of handlers are dropped, and the wait begins.
LEMMA ClearedStep ==
  ASSUME IInv, NEW a \in Actors, Cleared(a)
  PROVE  IInv'
<1>1. /\ UNCHANGED <<mode, exit, subtree, parent, limit, children, sticky, events, polling, serving, late>>
      /\ pc[a] = "clear" /\ pc' = [pc EXCEPT ![a] = "teardown"]
      /\ waiting' = [waiting EXCEPT ![a] = children[a]]
  BY DEF Cleared, Goto, gateVars, setVars
<1>2. TypeOK'
  <2>1. pc' \in [Actors -> Steps]
    BY <1>1 DEF IInv, TypeOK, Steps, Waits
  <2>2. waiting' \in [Actors -> SUBSET Actors]
    BY <1>1 DEF IInv, TypeOK
  <2> QED
    BY <1>1, <2>1, <2>2 DEF IInv, TypeOK
<1>3. Forward
  BY <1>1 DEF Forward
<1>4. \A p \in Actors : InStep(p)'
  <2> SUFFICES ASSUME NEW p \in Actors PROVE InStep(p)'
    OBVIOUS
  <2>1. pc'[p] = pc[p] \/ (pc[p] = "clear" /\ pc'[p] = "teardown")
    BY <1>1 DEF IInv, TypeOK
  <2> QED
    BY <1>1, <2>1 DEF IInv, InStep
<1>5. \A p \in Actors : Owned(p)' /\ Kept(p)' /\ Awaited(p)' /\ Reported(p)' /\ Reasoned(p)'
  <2>1. \A x \in Actors \ {a} : pc'[x] = pc[x] /\ waiting'[x] = waiting[x]
    BY <1>1 DEF IInv, TypeOK
  <2>2. pc'[a] = "teardown" /\ waiting'[a] = children[a]
    BY <1>1 DEF IInv, TypeOK
  <2> QED
    BY <1>1, <1>3, <2>1, <2>2, Undisturbed
<1> QED
  BY <1>2, <1>4, <1>5 DEF IInv

----------------------------------------------------------------------------
(* Steps that add or remove a registration, or count a result.             *)

\* The steps where an actor may have its scope.
Scoped == {"init", "loop", "hook", "replies", "clear", "dropping"}

LEMMA ScopeWhere ==
  ASSUME NEW a \in Actors, InStep(a), HasScope(a)
  PROVE  pc[a] \in Scoped
  BY DEF InStep, HasScope, Scoped

\* A child that is spawned was nobody's child before.
LEMMA SpawnStep ==
  ASSUME IInv, NEW a \in Actors, NEW c \in Actors, SpawnChild(a, c)
  PROVE  IInv'
<1>1. /\ UNCHANGED <<mode, exit, subtree, limit, sticky, events, polling, serving, waiting>>
      /\ HasScope(a) /\ pc[c] = "unborn" /\ late' \in {late, late \cup {c}}
      /\ children' = [children EXCEPT ![a] = @ \cup {c}]
      /\ parent' = [parent EXCEPT ![c] = a] /\ pc' = [pc EXCEPT ![c] = "new"]
  BY DEF SpawnChild, gateVars, Register, Goto, Born
<1>2. TypeOK
  BY DEF IInv
<1>3. /\ \A x \in Actors : InStep(x) /\ Owned(x) /\ Kept(x) /\ Awaited(x) /\ Reported(x) /\ Reasoned(x)
      /\ c # a /\ pc[a] \in Scoped
  BY <1>1, ScopeWhere DEF IInv, Scoped
<1>4. TypeOK'
  <2>1. \A x \in Actors : Cardinality(children'[x]) <= limit'[x]
    BY <1>2, LimitAdmits
  <2>2. pc' \in [Actors -> Steps]
    BY <1>1, <1>2 DEF TypeOK, Steps, Waits
  <2>3. parent' \in [Actors -> Actors \cup {Nobody}] /\ children' \in [Actors -> SUBSET Actors]
    BY <1>1, <1>2 DEF TypeOK
  <2> QED
    BY <1>1, <1>2, <2>1, <2>2, <2>3 DEF TypeOK
<1>5. \A q \in Actors : c \notin children[q]
  BY <1>1, <1>3 DEF Owned, Born
<1>6. \A x \in Actors : Exited(x)' <=> Exited(x)
  BY <1>1 DEF Exited
<1> SUFFICES ASSUME NEW q \in Actors
             PROVE  InStep(q)' /\ Owned(q)' /\ Kept(q)' /\ Awaited(q)' /\ Reported(q)' /\ Reasoned(q)'
  BY <1>4 DEF IInv
<1>7. InStep(q)'
  <2>1. pc'[q] = (IF q = c THEN "new" ELSE pc[q])
    BY <1>1, <1>2 DEF TypeOK
  <2>2. children'[q] = children[q] \/ q = a
    BY <1>1, <1>2 DEF TypeOK
  <2>3. pc[a] \notin {"onStop", "ended", "exited", "gone"}
    BY <1>3 DEF Scoped
  <2> QED
    BY <1>1, <1>3, <2>1, <2>2, <2>3 DEF InStep
<1>8. Owned(q)'
  BY <1>1, <1>2, <1>3, <1>5 DEF Owned, Born, TypeOK
<1>9. Kept(q)'
  BY <1>1, <1>2, <1>3, <1>6 DEF Kept, Accounted, TypeOK
<1>10. Awaited(q)'
  <2> SUFFICES ASSUME pc'[q] \in {"children", "teardown"} PROVE Awaited(q)'
    BY DEF Awaited
  <2>1. pc[q] = pc'[q]
    BY <1>1, <1>2 DEF TypeOK
  <2>2. q # a
    BY <1>3, <2>1 DEF Scoped
  <2> QED
    BY <1>1, <1>2, <1>3, <1>6, <2>1, <2>2 DEF Awaited, Accounted, TypeOK
<1>11. Reported(q)'
  <2>1. \A i \in DOMAIN events[q] : events[q][i] \in Actors
    BY <1>2 DEF TypeOK
  <2> QED
    BY <1>1, <1>3, <1>6, <2>1 DEF Reported
<1>12. Reasoned(q)'
  <2>1. subtree[c] = "none"
    BY <1>1, <1>3 DEF InStep
  <2> QED
    BY <1>1, <1>2, <1>3, <2>1 DEF Reasoned, TypeOK
<1> QED
  BY <1>7, <1>8, <1>9, <1>10, <1>11, <1>12

\* What is left to show of a step that counts the result of one child, by
\* reaping it or by waiting for it.
LEMMA Counted ==
  ASSUME IInv, NEW a \in Actors, NEW c \in Actors,
         UNCHANGED <<mode, exit, subtree, parent>>,
         Exited(c), c \in children[a],
         sticky' = [sticky EXCEPT ![a] = IF subtree[c] = "Unconfirmed" THEN "Unconfirmed" ELSE @],
         \/ children' = children
         \/ children' = [children EXCEPT ![a] = @ \ {c}]
  PROVE  /\ \A q \in Actors : Kept(q)' /\ Reasoned(q)'
         /\ \A q, x \in Actors : Accounted(q, x) => Accounted(q, x)'
         /\ Accounted(a, c)'
<1>1. TypeOK /\ \A q \in Actors : Owned(q) /\ Kept(q) /\ Reasoned(q)
  BY DEF IInv
<1>2. \A x \in Actors : Exited(x)' <=> Exited(x)
  BY DEF Exited
<1>3. \A q, x \in Actors : Accounted(q, x) => Accounted(q, x)'
  BY <1>1, <1>2 DEF Accounted, TypeOK
<1>4. Accounted(a, c)'
  BY <1>1, <1>2 DEF Accounted, TypeOK
<1>5. ASSUME NEW q \in Actors PROVE Kept(q)'
  <2> SUFFICES ASSUME NEW x \in Actors, parent[x] = q
               PROVE \/ x \in children'[q]
                     \/ mode[x] \in Hard \cup {"Exited"}
                          /\ (Accounted(q, x)' \/ mode[q] = "Aborting" \/ exit[q] = "Aborted")
    BY DEF Kept
  <2>1. CASE q = a /\ x = c
    BY <1>4, <2>1 DEF Exited
  <2>2. CASE ~(q = a /\ x = c)
    <3>1. x \in children[q] => x \in children'[q]
      BY <1>1, <2>2 DEF TypeOK
    <3> QED
      BY <1>1, <1>3, <3>1 DEF Kept
  <2> QED
    BY <2>1, <2>2
<1>6. ASSUME NEW q \in Actors PROVE Reasoned(q)'
  <2>1. parent[c] = a
    BY <1>1 DEF Owned
  <2> QED
    BY <1>1, <2>1 DEF Reasoned, TypeOK
<1> QED
  BY <1>3, <1>4, <1>5, <1>6

\* A turn that takes an exit.
LEMMA TakeExitStep ==
  ASSUME IInv, NEW a \in Actors, TakeExit(a)
  PROVE  IInv'
<1> DEFINE c == Head(events[a])
<1>1. /\ UNCHANGED <<mode, exit, subtree, parent, limit, serving, waiting, late>>
      /\ events[a] # <<>> /\ polling' = polling \ {a}
      /\ children' = [children EXCEPT ![a] = @ \ {c}]
      /\ sticky' = [sticky EXCEPT ![a] =
           IF c \in children[a] /\ subtree[c] = "Unconfirmed" THEN "Unconfirmed" ELSE @]
      /\ events' = [events EXCEPT ![a] = Tail(@)]
      /\ \/ pc[a] = "loop"
         \/ pc[a] = "replies"
      /\ pc' = [pc EXCEPT ![a] = "hook"] \/ pc' = [pc EXCEPT ![a] = pc[a]]
  BY DEF TakeExit, gateVars, Reap, Goto, Leave
<1>2. TypeOK
  BY DEF IInv
<1>3. \A x \in Actors : InStep(x) /\ Owned(x) /\ Kept(x) /\ Awaited(x) /\ Reported(x) /\ Reasoned(x)
  BY DEF IInv
<1>4. /\ Tail(events[a]) \in Seq(Actors) /\ c \in Actors /\ Len(events[a]) \in Nat \ {0}
      /\ Len(Tail(events[a])) = Len(events[a]) - 1
      /\ \A i \in 1 .. Len(Tail(events[a])) : Tail(events[a])[i] = events[a][i + 1]
      /\ c = events[a][1]
  BY <1>1, <1>2 DEF TypeOK
<1>5. Exited(c)
  BY <1>3, <1>4 DEF Reported
<1> HIDE DEF c
<1>6. TypeOK'
  <2>1. children[a] \ {c} \in SUBSET children[a]
    OBVIOUS
  <2>2. \A x \in Actors : Cardinality(children'[x]) <= limit'[x]
    BY <1>1, <1>2, <2>1, LimitKept
  <2>3. pc' \in [Actors -> Steps]
    BY <1>1, <1>2 DEF TypeOK, Steps, Waits
  <2>4. children' \in [Actors -> SUBSET Actors] /\ sticky' \in [Actors -> Statuses]
    BY <1>1, <1>2 DEF TypeOK, Statuses
  <2>5. events' \in [Actors -> Seq(Actors)] /\ polling' \subseteq Actors
    BY <1>1, <1>2, <1>4 DEF TypeOK
  <2> QED
    BY <1>1, <1>2, <2>2, <2>3, <2>4, <2>5 DEF TypeOK
<1>7. /\ \A q \in Actors : Kept(q)' /\ Reasoned(q)'
      /\ \A q, x \in Actors : Accounted(q, x) => Accounted(q, x)'
  <2>1. CASE c \in children[a]
    <3>1. sticky' = [sticky EXCEPT ![a] = IF subtree[c] = "Unconfirmed" THEN "Unconfirmed" ELSE @]
      BY <1>1, <2>1
    <3> QED
      BY <1>1, <1>4, <1>5, <2>1, <3>1, Counted
  <2>2. CASE c \notin children[a]
    <3>1. children' = children /\ sticky' = sticky
      BY <1>1, <1>2, <2>2 DEF TypeOK
    <3>2. \A x \in Actors : Exited(x)' <=> Exited(x)
      BY <1>1 DEF Exited
    <3> QED
      BY <1>1, <1>3, <3>1, <3>2 DEF Kept, Reasoned, Accounted
  <2> QED
    BY <2>1, <2>2
<1> SUFFICES ASSUME NEW q \in Actors
             PROVE  InStep(q)' /\ Owned(q)' /\ Awaited(q)' /\ Reported(q)'
  BY <1>6, <1>7 DEF IInv
<1>8. /\ q # a => pc'[q] = pc[q] /\ children'[q] = children[q] /\ sticky'[q] = sticky[q]
                    /\ events'[q] = events[q]
      /\ pc'[a] \in {"hook", pc[a]} /\ children'[q] \subseteq children[q]
      /\ \A x \in Actors : Born(x) => Born(x)'
  BY <1>1, <1>2 DEF TypeOK, Born
<1>9. InStep(q)'
  <2>1. CASE q = a
    <3>1. mode[a] # "Exited" /\ mode[a] # "Aborting"
      BY <1>1, <1>3 DEF InStep
    <3> QED
      BY <1>1, <1>3, <1>8, <2>1, <3>1 DEF InStep
  <2>2. CASE q # a
    BY <1>1, <1>3, <1>8, <2>2 DEF InStep
  <2> QED
    BY <2>1, <2>2
<1>10. Owned(q)'
  BY <1>1, <1>2, <1>3, <1>8 DEF Owned, TypeOK
<1>11. Awaited(q)'
  BY <1>1, <1>2, <1>3, <1>7, <1>8 DEF Awaited, TypeOK
<1>12. Reported(q)'
  <2>1. \A i \in DOMAIN events[q] : events[q][i] \in Actors
    BY <1>2 DEF TypeOK
  <2>2. CASE q = a
    <3>1. events'[a] = Tail(events[a])
      BY <1>1, <1>2 DEF TypeOK
    <3>2. \A i \in 1 .. Len(events[a]) : Exited(events[a][i])
      BY <1>3, <1>2 DEF Reported, TypeOK
    <3>3. \A i \in 1 .. Len(Tail(events[a])) : Exited(Tail(events[a])[i])
      BY <1>4, <3>2
    <3>4. DOMAIN Tail(events[a]) = 1 .. Len(Tail(events[a]))
      BY <1>4
    <3> QED
      BY <1>1, <2>2, <3>1, <3>3, <3>4 DEF Reported, Exited
  <2>3. CASE q # a
    BY <1>1, <1>3, <1>8, <2>1, <2>3 DEF Reported, Exited
  <2> QED
    BY <2>2, <2>3
<1> QED
  BY <1>9, <1>10, <1>11, <1>12

\* wait_all counts one child ...
LEMMA AwaitChildStep ==
  ASSUME IInv, NEW a \in Actors, NEW c \in Actors, AwaitChild(a, c)
  PROVE  IInv'
<1>1. /\ UNCHANGED <<mode, exit, subtree, parent, limit, children, events, pc, polling, serving, late>>
      /\ pc[a] \in {"children", "teardown"} /\ c \in waiting[a] /\ Exited(c)
      /\ sticky' = [sticky EXCEPT ![a] = IF subtree[c] = "Unconfirmed" THEN "Unconfirmed" ELSE @]
      /\ waiting' = [waiting EXCEPT ![a] = @ \ {c}]
  BY DEF AwaitChild, gateVars, Persist
<1>2. TypeOK
  BY DEF IInv
<1>3. \A x \in Actors : InStep(x) /\ Owned(x) /\ Kept(x) /\ Awaited(x) /\ Reported(x) /\ Reasoned(x)
  BY DEF IInv
<1>4. c \in children[a]
  BY <1>1, <1>3 DEF Awaited
<1>5. TypeOK'
  <2>1. sticky' \in [Actors -> Statuses] /\ waiting' \in [Actors -> SUBSET Actors]
    BY <1>1, <1>2 DEF TypeOK, Statuses
  <2> QED
    BY <1>1, <1>2, <2>1 DEF TypeOK
<1>6. /\ \A q \in Actors : Kept(q)' /\ Reasoned(q)'
      /\ \A q, x \in Actors : Accounted(q, x) => Accounted(q, x)'
      /\ Accounted(a, c)'
  BY <1>1, <1>4, Counted
<1> SUFFICES ASSUME NEW q \in Actors
             PROVE  InStep(q)' /\ Owned(q)' /\ Awaited(q)' /\ Reported(q)'
  BY <1>5, <1>6 DEF IInv
<1>7. InStep(q)'
  <2>1. mode[a] # "Exited" /\ subtree[a] = "none"
    BY <1>1, <1>3 DEF InStep
  <2>2. q # a => sticky'[q] = sticky[q]
    BY <1>1, <1>2 DEF TypeOK
  <2> QED
    BY <1>1, <1>3, <2>1, <2>2 DEF InStep
<1>8. Owned(q)'
  BY <1>1, <1>3 DEF Owned, Born
<1>9. Awaited(q)'
  <2> SUFFICES ASSUME pc[q] \in {"children", "teardown"}
               PROVE /\ waiting'[q] \subseteq children[q]
                     /\ \A x \in children[q] \ waiting'[q] : Accounted(q, x)'
    BY <1>1 DEF Awaited
  <2>1. waiting'[q] = IF q = a THEN waiting[q] \ {c} ELSE waiting[q]
    BY <1>1, <1>2 DEF TypeOK
  <2>2. /\ waiting[q] \subseteq children[q] /\ children[q] \subseteq Actors
        /\ \A x \in children[q] \ waiting[q] : Accounted(q, x)
    BY <1>2, <1>3 DEF Awaited, TypeOK
  <2> QED
    BY <1>6, <2>1, <2>2
<1>10. Reported(q)'
  <2>1. \A i \in DOMAIN events[q] : events[q][i] \in Actors
    BY <1>2 DEF TypeOK
  <2> QED
    BY <1>1, <1>3, <2>1 DEF Reported, Exited
<1> QED
  BY <1>7, <1>8, <1>9, <1>10

\* ... and clears the set when it has counted all of them.
LEMMA AllAwaitedStep ==
  ASSUME IInv, NEW a \in Actors, AllAwaited(a)
  PROVE  IInv'
<1>1. /\ UNCHANGED <<mode, exit, subtree, parent, limit, sticky, events, polling, serving, waiting, late>>
      /\ pc[a] \in {"children", "teardown"} /\ waiting[a] = {}
      /\ children' = [children EXCEPT ![a] = {}]
      /\ pc' = [pc EXCEPT ![a] = "onStop"] \/ pc' = [pc EXCEPT ![a] = "ended"]
  BY DEF AllAwaited, WaitOver, gateVars, Goto
<1>2. TypeOK
  BY DEF IInv
<1>3. \A x \in Actors : InStep(x) /\ Owned(x) /\ Kept(x) /\ Awaited(x) /\ Reported(x) /\ Reasoned(x)
  BY DEF IInv
<1>4. TypeOK'
  <2>1. \A x \in Actors : Cardinality(children'[x]) <= limit'[x]
    BY <1>1, <1>2, LimitKept
  <2>2. pc' \in [Actors -> Steps] /\ children' \in [Actors -> SUBSET Actors]
    BY <1>1, <1>2 DEF TypeOK, Steps, Waits
  <2> QED
    BY <1>1, <1>2, <2>1, <2>2 DEF TypeOK
<1> SUFFICES ASSUME NEW q \in Actors
             PROVE  InStep(q)' /\ Owned(q)' /\ Kept(q)' /\ Awaited(q)' /\ Reported(q)' /\ Reasoned(q)'
  BY <1>4 DEF IInv
<1>5. /\ \A x \in Actors : (Exited(x)' <=> Exited(x)) /\ (Accounted(q, x)' <=> Accounted(q, x))
      /\ \A x \in Actors : Born(x) => Born(x)'
      /\ q # a => pc'[q] = pc[q] /\ children'[q] = children[q]
      /\ q = a => pc'[q] \in {"onStop", "ended"} /\ children'[q] = {}
  BY <1>1, <1>2 DEF Exited, Accounted, Born, TypeOK
<1>6. InStep(q)'
  <2>1. mode[a] \notin {"Exited", "Aborting"} /\ a \notin polling
    BY <1>1, <1>3 DEF InStep
  <2> QED
    BY <1>1, <1>3, <1>5, <2>1 DEF InStep
<1>7. Owned(q)'
  BY <1>1, <1>2, <1>3, <1>5 DEF Owned, TypeOK
<1>8. Kept(q)'
  <2>1. q = a => \A x \in children[q] : Accounted(q, x)
    BY <1>1, <1>3 DEF Awaited
  <2> QED
    BY <1>1, <1>2, <1>3, <1>5, <2>1 DEF Kept, Accounted, Exited
<1>9. Awaited(q)'
  BY <1>1, <1>2, <1>3, <1>5 DEF Awaited, TypeOK
<1>10. Reported(q)'
  <2>1. \A i \in DOMAIN events[q] : events[q][i] \in Actors
    BY <1>2 DEF TypeOK
  <2> QED
    BY <1>1, <1>3, <2>1 DEF Reported, Exited
<1>11. Reasoned(q)'
  BY <1>1, <1>3 DEF Reasoned
<1> QED
  BY <1>6, <1>7, <1>8, <1>9, <1>10, <1>11

----------------------------------------------------------------------------
(* The end of an actor.                                                    *)

\* An abort gives up on the actor's own confirmation.
LEMMA AbortStep ==
  ASSUME IInv, NEW a \in Actors, Abort(a)
  PROVE  IInv'
<1>1. /\ UNCHANGED <<exit, subtree, parent, limit, children, sticky, events, polling, late>>
      /\ pc[a] \in Waits \cup {"ended"} /\ a \notin polling
      /\ mode' = [mode EXCEPT ![a] = AbortMode(@)]
      /\ waiting' = [waiting EXCEPT ![a] = {}]
      /\ serving' = [serving EXCEPT ![a] = "none"]
      /\ \E next \in {"dropping", "dropped"} : pc' = [pc EXCEPT ![a] = next]
  BY DEF Abort, Goto, setVars
<1>2. TypeOK
  BY DEF IInv
<1>3. \A x \in Actors : InStep(x) /\ Owned(x) /\ Kept(x) /\ Awaited(x) /\ Reported(x) /\ Reasoned(x)
  BY DEF IInv
<1>4. mode[a] # "Exited" /\ pc[a] # "unborn"
  BY <1>1, <1>3 DEF InStep, Waits
<1>5. /\ mode'[a] = "Aborting" /\ mode' \in [Actors -> Modes]
      /\ \A x \in Actors \ {a} : mode'[x] = mode[x]
  BY <1>1, <1>2, <1>4 DEF AbortMode, TypeOK, Modes, Hard
<1>6. TypeOK'
  <2>1. pc' \in [Actors -> Steps]
    BY <1>1, <1>2 DEF TypeOK, Steps
  <2>2. /\ waiting' \in [Actors -> SUBSET Actors]
        /\ serving' \in [Actors -> {"none", "Stop", "Drain"}]
    BY <1>1, <1>2 DEF TypeOK
  <2> QED
    BY <1>1, <1>2, <1>5, <2>1, <2>2 DEF TypeOK
<1> SUFFICES ASSUME NEW q \in Actors
             PROVE  InStep(q)' /\ Owned(q)' /\ Kept(q)' /\ Awaited(q)' /\ Reported(q)' /\ Reasoned(q)'
  BY <1>6 DEF IInv
<1>7. /\ \A x \in Actors : (Exited(x)' <=> Exited(x)) /\ (Accounted(q, x) => Accounted(q, x)')
      /\ \A x \in Actors : Born(x) => Born(x)'
      /\ q # a => pc'[q] = pc[q] /\ waiting'[q] = waiting[q] /\ serving'[q] = serving[q]
      /\ q = a => pc'[q] \in {"dropping", "dropped"}
  BY <1>1, <1>2, <1>4, <1>5 DEF Exited, Accounted, Born, TypeOK
<1>8. InStep(q)'
  <2>1. CASE q = a
    BY <1>1, <1>3, <1>4, <1>5, <1>7, <2>1 DEF InStep
  <2>2. CASE q # a
    BY <1>1, <1>3, <1>5, <1>7, <2>2 DEF InStep
  <2> QED
    BY <2>1, <2>2
<1>9. Owned(q)'
  BY <1>1, <1>2, <1>3, <1>7 DEF Owned, TypeOK
<1>10. Kept(q)'
  BY <1>1, <1>3, <1>5, <1>7 DEF Kept, Hard
<1>11. Awaited(q)'
  BY <1>1, <1>2, <1>3, <1>7 DEF Awaited, TypeOK
<1>12. Reported(q)'
  <2>1. \A i \in DOMAIN events[q] : events[q][i] \in Actors
    BY <1>2 DEF TypeOK
  <2> QED
    BY <1>1, <1>3, <1>7, <2>1 DEF Reported
<1>13. Reasoned(q)'
  BY <1>1, <1>3 DEF Reasoned
<1> QED
  BY <1>8, <1>9, <1>10, <1>11, <1>12, <1>13

\* The frame of an aborted task takes the owners of its children with it.
LEMMA FrameDroppedStep ==
  ASSUME IInv, NEW a \in Actors, FrameDropped(a)
  PROVE  IInv'
<1>1. /\ UNCHANGED <<exit, subtree, parent, limit, sticky, events, polling, serving, waiting, late>>
      /\ pc[a] \in {"dropping", "dropped"}
      /\ mode' = Requested(children[a], "Kill")
      /\ children' = [children EXCEPT ![a] = {}]
      /\ pc' = [pc EXCEPT ![a] = "ended"]
  BY DEF FrameDropped, OwnersDropped, Goto
<1>2. TypeOK
  BY DEF IInv
<1>3. \A x \in Actors : InStep(x) /\ Owned(x) /\ Kept(x) /\ Awaited(x) /\ Reported(x) /\ Reasoned(x)
  BY DEF IInv
<1>4. mode[a] = "Aborting" /\ pc[a] # "unborn" /\ a \notin polling
  BY <1>1, <1>3 DEF InStep
<1>5. /\ Requested(children[a], "Kill") \in [Actors -> Modes]
      /\ \A x \in Actors :
           /\ Requested(children[a], "Kill")[x] = "Exited" <=> mode[x] = "Exited"
           /\ Requested(children[a], "Kill")[x] = "Aborting" <=> mode[x] = "Aborting"
           /\ mode[x] \in Hard \cup {"Exited"} => Requested(children[a], "Kill")[x] = mode[x]
           /\ x \in children[a] => Requested(children[a], "Kill")[x] \in Hard \cup {"Exited"}
  BY <1>2, RequestAll DEF Shutdowns
<1>6. mode'[a] = "Aborting" /\ mode' \in [Actors -> Modes]
  BY <1>1, <1>4, <1>5
<1>7. /\ \A x \in Actors : mode'[x] = "Exited" <=> mode[x] = "Exited"
      /\ \A x \in Actors : mode[x] \in Hard \cup {"Exited"} \/ x \in children[a]
                             => mode'[x] \in Hard \cup {"Exited"}
      /\ \A x \in Actors : mode'[x] = "Aborting" <=> mode[x] = "Aborting"
  BY <1>1, <1>5
<1>8. TypeOK'
  <2>1. \A x \in Actors : Cardinality(children'[x]) <= limit'[x]
    BY <1>1, <1>2, LimitKept
  <2>2. pc' \in [Actors -> Steps]
    BY <1>1, <1>2 DEF TypeOK, Steps
  <2>3. children' \in [Actors -> SUBSET Actors]
    BY <1>1, <1>2 DEF TypeOK
  <2> QED
    BY <1>1, <1>2, <1>6, <2>1, <2>2, <2>3 DEF TypeOK
<1> SUFFICES ASSUME NEW q \in Actors
             PROVE  InStep(q)' /\ Owned(q)' /\ Kept(q)' /\ Awaited(q)' /\ Reported(q)' /\ Reasoned(q)'
  BY <1>8 DEF IInv
<1>9. /\ \A x \in Actors : (Exited(x)' <=> Exited(x)) /\ (Accounted(q, x) => Accounted(q, x)')
      /\ \A x \in Actors : Born(x) => Born(x)'
      /\ q # a => pc'[q] = pc[q] /\ children'[q] = children[q]
      /\ q = a => pc'[q] = "ended" /\ children'[q] = {}
  BY <1>1, <1>2, <1>7 DEF Exited, Accounted, Born, TypeOK
<1>10. InStep(q)'
  <2>1. CASE q = a
    BY <1>1, <1>3, <1>4, <1>6, <1>9, <2>1 DEF InStep
  <2>2. CASE q # a
    BY <1>1, <1>3, <1>7, <1>9, <2>2 DEF InStep
  <2> QED
    BY <2>1, <2>2
<1>11. Owned(q)'
  BY <1>1, <1>2, <1>3, <1>9 DEF Owned, TypeOK
<1>12. Kept(q)'
  BY <1>1, <1>2, <1>3, <1>6, <1>7, <1>9 DEF Kept
<1>13. Awaited(q)'
  BY <1>1, <1>2, <1>3, <1>9 DEF Awaited, TypeOK
<1>14. Reported(q)'
  <2>1. \A i \in DOMAIN events[q] : events[q][i] \in Actors
    BY <1>2 DEF TypeOK
  <2> QED
    BY <1>1, <1>3, <1>9, <2>1 DEF Reported
<1>15. Reasoned(q)'
  BY <1>1, <1>3 DEF Reasoned
<1> QED
  BY <1>10, <1>11, <1>12, <1>13, <1>14, <1>15

\* What a task that ends publishes: a reason, and a confirmation only when
\* none was lost and it was not aborted.
LEMMA Published ==
  ASSUME IInv, NEW a \in Actors, Publish(a)
  PROVE  /\ exit'[a] \in Reasons
         /\ subtree'[a] = IF exit'[a] = "Aborted" THEN "Unconfirmed" ELSE sticky[a]
         /\ mode[a] = "Aborting" <=> exit'[a] = "Aborted"
<1>1. mode[a] \in Modes \ {"Exited"} /\ ProposedReason(a) \in Reasons
  BY DEF IInv, TypeOK, InStep, Publish, ProposedReason, Reasons
<1>2. mode[a] # "Aborting" => ProposedReason(a) # "Aborted"
  BY DEF ProposedReason
<1>3. /\ exit' = [exit EXCEPT ![a] = FinishReason(mode[a], ProposedReason(a))]
      /\ subtree' = [subtree EXCEPT ![a] = StatusOf(a, FinishReason(mode[a], ProposedReason(a)))]
  BY DEF Publish
<1>4. /\ exit'[a] = FinishReason(mode[a], ProposedReason(a))
      /\ subtree'[a] = StatusOf(a, FinishReason(mode[a], ProposedReason(a)))
  BY <1>3 DEF IInv, TypeOK
<1>5. FinishReason(mode[a], ProposedReason(a)) \in Reasons
  BY <1>1, HardGate
<1>6. mode[a] = "Aborting" <=> FinishReason(mode[a], ProposedReason(a)) = "Aborted"
  BY <1>1, <1>2 DEF FinishReason, HardReason, Modes, Graceful, Hard
<1> QED
  BY <1>4, <1>5, <1>6 DEF StatusOf

\* The status is published while nobody has counted the actor yet.
LEMMA PublishStep ==
  ASSUME IInv, NEW a \in Actors, Publish(a)
  PROVE  IInv'
<1>1. /\ UNCHANGED <<parent, limit, children, sticky, polling, waiting>>
      /\ pc[a] = "ended"
      /\ serving' = [serving EXCEPT ![a] = "none"] /\ late' = late \ {a}
      /\ \A x \in Actors \ {a} : exit'[x] = exit[x] /\ subtree'[x] = subtree[x]
      /\ mode' = [mode EXCEPT ![a] = "Exited"]
      /\ events' = [events EXCEPT ![a] = <<>>]
      /\ pc' = [pc EXCEPT ![a] = "exited"]
  BY DEF Publish, Goto, IInv, TypeOK
<1>2. TypeOK
  BY DEF IInv
<1>3. \A x \in Actors : InStep(x) /\ Owned(x) /\ Kept(x) /\ Awaited(x) /\ Reported(x) /\ Reasoned(x)
  BY DEF IInv
<1>4. /\ exit'[a] \in Reasons
      /\ subtree'[a] = IF exit'[a] = "Aborted" THEN "Unconfirmed" ELSE sticky[a]
      /\ mode[a] = "Aborting" <=> exit'[a] = "Aborted"
  BY Published
<1>5. ~Exited(a) /\ subtree[a] = "none" /\ a \notin polling /\ children[a] = {} /\ exit[a] = NoReason
  BY <1>1, <1>3 DEF InStep, Exited
<1>6. TypeOK'
  <2>1. exit' \in [Actors -> Reasons \cup {NoReason}]
    BY <1>2, <1>4 DEF TypeOK, Publish
  <2>2. subtree' \in [Actors -> Statuses \cup {"none"}]
    <3>1. sticky[a] \in Statuses
      BY <1>2 DEF TypeOK
    <3>2. \A r : StatusOf(a, r) \in Statuses
      BY <3>1 DEF StatusOf, Statuses
    <3> QED
      BY <1>2, <3>2 DEF TypeOK, Publish
  <2>3. /\ mode' \in [Actors -> Modes] /\ pc' \in [Actors -> Steps]
        /\ events' \in [Actors -> Seq(Actors)]
        /\ serving' \in [Actors -> {"none", "Stop", "Drain"}]
    BY <1>1, <1>2 DEF TypeOK, Modes, Steps
  <2> QED
    BY <1>1, <1>2, <2>1, <2>2, <2>3 DEF TypeOK
<1> SUFFICES ASSUME NEW q \in Actors
             PROVE  InStep(q)' /\ Owned(q)' /\ Kept(q)' /\ Awaited(q)' /\ Reported(q)' /\ Reasoned(q)'
  BY <1>6 DEF IInv
<1>7. /\ \A x \in Actors : Exited(x)' <=> (x = a \/ Exited(x))
      /\ \A x \in Actors \ {a} : Accounted(q, x) => Accounted(q, x)'
      /\ \A x \in Actors : Born(x) => Born(x)'
      /\ q # a => pc'[q] = pc[q] /\ mode'[q] = mode[q] /\ events'[q] = events[q]
                    /\ serving'[q] = serving[q]
      /\ pc'[a] = "exited" /\ mode'[a] = "Exited" /\ events'[a] = <<>>
  BY <1>1, <1>2 DEF Exited, Accounted, Born, TypeOK
<1>8. InStep(q)'
  <2>1. CASE q = a
    <3>1. subtree'[a] # "none" /\ (subtree'[a] = "Terminated" => sticky[a] = "Terminated" /\ exit'[a] # "Aborted")
      BY <1>2, <1>4 DEF TypeOK, Statuses
    <3> QED
      BY <1>1, <1>5, <1>7, <2>1, <3>1 DEF InStep
  <2>2. CASE q # a
    BY <1>1, <1>3, <1>7, <2>2 DEF InStep
  <2> QED
    BY <2>1, <2>2
<1>9. Owned(q)'
  BY <1>1, <1>2, <1>3, <1>7 DEF Owned, TypeOK
<1>10. Kept(q)'
  <2> SUFFICES ASSUME NEW x \in Actors, parent[x] = q, x \notin children[q]
               PROVE  /\ mode'[x] \in Hard \cup {"Exited"}
                      /\ Accounted(q, x)' \/ mode'[q] = "Aborting" \/ exit'[q] = "Aborted"
    BY <1>1 DEF Kept
  <2>1. /\ mode[x] \in Hard \cup {"Exited"}
        /\ Accounted(q, x) \/ mode[q] = "Aborting" \/ exit[q] = "Aborted"
    BY <1>3 DEF Kept
  <2>2. mode'[x] \in Hard \cup {"Exited"}
    BY <1>1, <1>2, <2>1 DEF TypeOK
  <2>3. Accounted(q, x) => x # a
    BY <1>5 DEF Accounted
  <2>4. mode[q] = "Aborting" => mode'[q] = "Aborting" \/ exit'[q] = "Aborted"
    BY <1>4, <1>7
  <2>5. exit[q] = "Aborted" => exit'[q] = "Aborted"
    BY <1>1, <1>5 DEF NoReason
  <2> QED
    BY <1>7, <2>1, <2>2, <2>3, <2>4, <2>5
<1>11. Awaited(q)'
  <2> SUFFICES ASSUME pc'[q] \in {"children", "teardown"} PROVE Awaited(q)'
    BY DEF Awaited
  <2>1. q # a /\ pc[q] \in {"children", "teardown"}
    BY <1>7
  <2>2. /\ waiting[q] \subseteq children[q] /\ children[q] \subseteq Actors
        /\ \A x \in children[q] \ waiting[q] : Accounted(q, x)
    BY <1>2, <1>3, <2>1 DEF Awaited, TypeOK
  <2>3. \A x \in children[q] \ waiting[q] : x # a
    BY <1>5, <2>2 DEF Accounted
  <2> QED
    BY <1>1, <1>7, <2>2, <2>3 DEF Awaited
<1>12. Reported(q)'
  <2>1. \A i \in DOMAIN events[q] : events[q][i] \in Actors
    BY <1>2 DEF TypeOK
  <2>2. CASE q = a
    BY <1>7, <2>2 DEF Reported
  <2>3. CASE q # a
    BY <1>3, <1>7, <2>1, <2>3 DEF Reported
  <2> QED
    BY <2>2, <2>3
<1>13. Reasoned(q)'
  BY <1>1, <1>3, <1>5 DEF Reasoned
<1> QED
  BY <1>8, <1>9, <1>10, <1>11, <1>12, <1>13

\* Its exit is sent only after that.
LEMMA SendExitStep ==
  ASSUME IInv, NEW a \in Actors, SendExit(a)
  PROVE  IInv'
<1>1. /\ UNCHANGED <<mode, exit, subtree, parent, limit, children, sticky, polling, serving, waiting, late>>
      /\ pc[a] = "exited" /\ pc' = [pc EXCEPT ![a] = "gone"]
      /\ \/ events' = events
         \/ parent[a] # Nobody /\ events' = [events EXCEPT ![parent[a]] = Append(@, a)]
  BY DEF SendExit, Send, Listening, gateVars, Goto
<1>2. TypeOK
  BY DEF IInv
<1>3. \A x \in Actors : InStep(x) /\ Owned(x) /\ Kept(x) /\ Awaited(x) /\ Reported(x) /\ Reasoned(x)
  BY DEF IInv
<1>4. \A q \in Actors : events'[q] \in {events[q], Append(events[q], a)}
  BY <1>1, <1>2 DEF TypeOK
<1>5. TypeOK'
  <2>1. pc' \in [Actors -> Steps]
    BY <1>1, <1>2 DEF TypeOK, Steps
  <2>2. events' \in [Actors -> Seq(Actors)]
    <3>1. \A s \in Seq(Actors) : Append(s, a) \in Seq(Actors)
      OBVIOUS
    <3>2. events \in [Actors -> Seq(Actors)] /\ (parent[a] # Nobody => parent[a] \in Actors)
      BY <1>2 DEF TypeOK
    <3> QED
      BY <1>1, <3>1, <3>2
  <2> QED
    BY <1>1, <1>2, <2>1, <2>2 DEF TypeOK
<1> SUFFICES ASSUME NEW q \in Actors
             PROVE  InStep(q)' /\ Owned(q)' /\ Kept(q)' /\ Awaited(q)' /\ Reported(q)' /\ Reasoned(q)'
  BY <1>5 DEF IInv
<1>6. /\ \A x \in Actors : (Exited(x)' <=> Exited(x)) /\ (Accounted(q, x)' <=> Accounted(q, x))
      /\ \A x \in Actors : Born(x) => Born(x)'
      /\ q # a => pc'[q] = pc[q]
      /\ q = a => pc'[q] = "gone"
  BY <1>1, <1>2 DEF Exited, Accounted, Born, TypeOK
<1>7. InStep(q)'
  BY <1>1, <1>3, <1>6 DEF InStep
<1>8. Owned(q)'
  BY <1>1, <1>2, <1>3, <1>6 DEF Owned, TypeOK
<1>9. Kept(q)'
  BY <1>1, <1>3, <1>6 DEF Kept
<1>10. Awaited(q)'
  BY <1>1, <1>2, <1>3, <1>6 DEF Awaited, TypeOK
<1>11. Reported(q)'
  <2>1. Exited(a) /\ events[q] \in Seq(Actors)
    BY <1>1, <1>2, <1>3 DEF InStep, Exited, TypeOK
  <2>2. \A i \in 1 .. Len(events[q]) : events[q][i] \in Actors /\ Exited(events[q][i])
    BY <1>2, <1>3 DEF Reported, TypeOK
  <2>3. CASE events'[q] = events[q]
    BY <1>1, <2>1, <2>2, <2>3 DEF Reported, Exited
  <2>4. CASE events'[q] = Append(events[q], a)
    <3>1. /\ Len(events'[q]) = Len(events[q]) + 1 /\ DOMAIN events'[q] = 1 .. Len(events'[q])
          /\ \A i \in 1 .. Len(events[q]) : events'[q][i] = events[q][i]
          /\ events'[q][Len(events[q]) + 1] = a /\ Len(events[q]) \in Nat
      BY <2>1, <2>4
    <3>2. \A i \in DOMAIN events'[q] : Exited(events'[q][i])
      BY <2>1, <2>2, <3>1
    <3> QED
      BY <1>1, <3>2 DEF Reported, Exited
  <2> QED
    BY <1>4, <2>3, <2>4
<1>12. Reasoned(q)'
  BY <1>1, <1>3 DEF Reasoned
<1> QED
  BY <1>7, <1>8, <1>9, <1>10, <1>11, <1>12

----------------------------------------------------------------------------
(* The invariant.                                                          *)

\* The initial state satisfies it: there is only the root.
LEMMA InvInit == Init => IInv
<1> SUFFICES ASSUME Init PROVE IInv
  OBVIOUS
<1>1. TypeOK
  BY TypeInit
<1> SUFFICES ASSUME NEW q \in Actors
             PROVE  InStep(q) /\ Owned(q) /\ Kept(q) /\ Awaited(q) /\ Reported(q) /\ Reasoned(q)
  BY <1>1 DEF IInv
<1>2. \A x \in Actors : parent[x] # q
  BY SupervisionAssumption DEF Init
<1>3. InStep(q)
  BY DEF Init, InStep
<1>4. Owned(q) /\ Kept(q) /\ Awaited(q) /\ Reasoned(q)
  BY <1>2 DEF Init, Owned, Kept, Awaited, Reasoned
<1>5. Reported(q)
  <2>1. events[q] = <<>>
    BY DEF Init
  <2> QED
    BY <2>1 DEF Reported
<1> QED
  BY <1>3, <1>4, <1>5

\* Every step of the task, of user code, of an executor and of a client
\* keeps it.
LEMMA InvNext == IInv /\ [Next]_vars => IInv'
<1> SUFFICES ASSUME IInv, [Next]_vars PROVE IInv'
  OBVIOUS
<1>1. CASE UNCHANGED vars
  BY <1>1 DEF vars, gateVars, setVars, taskVars, IInv, TypeOK, InStep, Owned, Kept,
              Awaited, Reported, Reasoned, Accounted, Exited, Born
<1>2. ASSUME NEW a \in Actors, Runtime(a) PROVE IInv'
  <2>1. CASE Start(a) \/ Poll(a) \/ Serve(a)
    BY <2>1, QuietSteps
  <2>2. CASE Interrupt(a)
    BY <2>2, TeardownSteps
  <2>3. CASE TakeExit(a)
    BY <2>3, TakeExitStep
  <2>4. CASE AskChildren(a)
    BY <2>4, RequestSteps DEF Shutdowns
  <2>5. CASE AllAwaited(a)
    BY <2>5, AllAwaitedStep
  <2>6. CASE Publish(a)
    BY <2>6, PublishStep
  <2>7. CASE SendExit(a)
    BY <2>7, SendExitStep
  <2>8. CASE \E c \in Actors : AwaitChild(a, c)
    BY <2>8, AwaitChildStep
  <2>9. CASE Cleared(a)
    BY <2>9, ClearedStep
  <2>10. CASE FrameDropped(a)
    BY <2>10, FrameDroppedStep
  <2> QED
    BY <1>2, <2>1, <2>2, <2>3, <2>4, <2>5, <2>6, <2>7, <2>8, <2>9, <2>10 DEF Runtime
<1>3. ASSUME NEW a \in Actors, UserCode(a) PROVE IInv'
  <2>1. CASE Yield(a) \/ InitDone(a) \/ HookDone(a) \/ RepliesDone(a) \/ StopHookDone(a)
    BY <2>1, QuietSteps
  <2>2. CASE UserPanics(a) \/ OnShutdownPanics(a)
    BY <2>2, TeardownSteps
  <2>3. CASE \E c \in Fresh : SpawnChild(a, c)
    BY <2>3, FreshUnborn, SpawnStep
  <2> QED
    BY <1>3, <2>1, <2>2, <2>3 DEF UserCode
<1>4. ASSUME NEW a \in Actors, Abort(a) PROVE IInv'
  BY <1>4, AbortStep
<1>5. ASSUME NEW a \in Actors, NEW shutdown \in Requests[a], RequestShutdown(a, shutdown)
      PROVE  IInv'
  <2>1. shutdown \in Shutdowns
    BY SupervisionAssumption
  <2> QED
    BY <1>5, <2>1, RequestSteps
<1> QED
  BY <1>1, <1>2, <1>3, <1>4, <1>5 DEF Next, Task

\* It holds in every reachable state.
THEOREM Invariance == Safe => []IInv
<1>1. Init => IInv
  BY InvInit
<1>2. IInv /\ [Next]_vars => IInv'
  BY InvNext
<1> QED
  BY <1>1, <1>2, PTL DEF Safe

----------------------------------------------------------------------------
(* What it is for.                                                         *)

\* Every variable stays in its domain and every limit is kept.
THEOREM TypeCorrect == Safe => []TypeOK
<1>1. IInv => TypeOK
  BY DEF IInv
<1> QED
  BY <1>1, Invariance, PTL

\* The children of an actor that confirmed its subtree have confirmed theirs,
\* so the confirmed actors contain every descendant of each of them.
LEMMA ConfirmedClosed ==
  ASSUME IInv, NEW a \in Actors, NEW c \in Actors, parent[c] = a,
         \/ subtree[a] = "Terminated"
         \/ pc[a] = "onStop" /\ sticky[a] = "Terminated"
  PROVE  Exited(c) /\ subtree[c] = "Terminated"
<1>1. InStep(a) /\ Kept(a) /\ InStep(c) /\ TypeOK
  BY DEF IInv
<1>2. /\ children[a] = {} /\ sticky[a] = "Terminated"
      /\ mode[a] # "Aborting" /\ exit[a] # "Aborted"
  BY <1>1 DEF InStep, NoReason
<1>3. Accounted(a, c)
  BY <1>1, <1>2 DEF Kept
<1> QED
  BY <1>1, <1>2, <1>3 DEF Accounted, InStep, TypeOK, Statuses, Exited

\* Whoever publishes Terminated leaves no descendant behind, and none whose
\* own confirmation is missing.
THEOREM Termination == Safe => []TerminatedMeansGone
<1>1. IInv => TerminatedMeansGone
  <2> SUFFICES ASSUME IInv, NEW a \in Actors, subtree[a] = "Terminated",
                      NEW d \in Promise!Descendants(a)
               PROVE  Exited(d) /\ subtree[d] = "Terminated"
    BY DEF TerminatedMeansGone
  <2> DEFINE heirs == {x \in Actors : Exited(x) /\ subtree[x] = "Terminated"}
  <2>1. Promise!Children(a) \subseteq heirs
    BY ConfirmedClosed DEF Promise!Children
  <2>2. \A h \in heirs : Promise!Children(h) \subseteq heirs
    BY ConfirmedClosed DEF Promise!Children
  <2>3. heirs \in SUBSET Actors
    OBVIOUS
  <2>4. d \in heirs
    BY <2>1, <2>2, <2>3 DEF Promise!Descendants
  <2> QED
    BY <2>4
<1> QED
  BY <1>1, Invariance, PTL

\* on_stop runs after every direct child, and after every descendant unless a
\* confirmation was lost.
THEOREM Cleanup == Safe => []CleanupAfterChildren
<1>1. IInv => CleanupAfterChildren
  <2> SUFFICES ASSUME IInv, NEW a \in Actors, pc[a] = "onStop"
               PROVE  /\ \A c \in Promise!Children(a) : Exited(c)
                      /\ sticky[a] = "Terminated" => \A d \in Promise!Descendants(a) : Exited(d)
    BY DEF CleanupAfterChildren
  <2>1. \A c \in Promise!Children(a) : Exited(c)
    <3>1. Kept(a) /\ children[a] = {} /\ mode[a] # "Aborting" /\ exit[a] # "Aborted"
      BY DEF IInv, InStep, NoReason
    <3> QED
      BY <3>1 DEF Kept, Accounted, Promise!Children
  <2>2. ASSUME sticky[a] = "Terminated", NEW d \in Promise!Descendants(a) PROVE Exited(d)
    <3> DEFINE heirs == {x \in Actors : Exited(x) /\ subtree[x] = "Terminated"}
    <3>1. Promise!Children(a) \subseteq heirs
      BY <2>2, ConfirmedClosed DEF Promise!Children
    <3>2. \A h \in heirs : Promise!Children(h) \subseteq heirs
      BY ConfirmedClosed DEF Promise!Children
    <3>3. heirs \in SUBSET Actors
      OBVIOUS
    <3>4. d \in heirs
      BY <3>1, <3>2, <3>3 DEF Promise!Descendants
    <3> QED
      BY <3>4
  <2> QED
    BY <2>1, <2>2
<1> QED
  BY <1>1, Invariance, PTL

\* No child outlives its parent without having been told to kill itself.
THEOREM Orphans == Safe => []OrphansKilled
<1>1. IInv => OrphansKilled
  <2> SUFFICES ASSUME IInv, NEW c \in Actors, parent[c] # Nobody, Exited(parent[c])
               PROVE  mode[c] \in Hard \cup {"Exited"}
    BY DEF OrphansKilled
  <2>1. parent[c] \in Actors
    BY DEF IInv, TypeOK
  <2>2. Kept(parent[c]) /\ children[parent[c]] = {}
    BY <2>1 DEF IInv, InStep, Exited
  <2> QED
    BY <2>2 DEF Kept
<1> QED
  BY <1>1, Invariance, PTL

\* Only a turn that takes an exit enters the hook.
LEMMA OnlyTakeExit ==
  ASSUME IInv, [Next]_vars, NEW p \in Actors, pc[p] # "hook", pc'[p] = "hook"
  PROVE  TakeExit(p)
<1>1. pc \in [Actors -> Steps]
  BY DEF IInv, TypeOK
<1>2. CASE UNCHANGED vars
  BY <1>2 DEF vars, taskVars
<1>3. ASSUME NEW a \in Actors, Runtime(a) PROVE TakeExit(p)
  <2>1. CASE TakeExit(a)
    <3>1. \E step : pc' = [pc EXCEPT ![a] = step]
      BY <2>1 DEF TakeExit, Goto
    <3>2. a = p
      BY <1>1, <3>1
    <3> QED
      BY <2>1, <3>2
  <2>2. CASE ~TakeExit(a)
    BY <1>1, <1>3, <2>2 DEF Runtime, Start, Poll, Interrupt, Teardown, DropWork, Serve,
                            AskChildren, AllAwaited, Cleared, FrameDropped, Publish, SendExit,
                            AwaitChild, Goto
  <2> QED
    BY <2>1, <2>2
<1>4. ASSUME NEW a \in Actors, UserCode(a) PROVE FALSE
  BY <1>1, <1>4 DEF UserCode, Yield, UserPanics, InitDone, HookDone, RepliesDone, StopHookDone,
                    OnShutdownPanics, SpawnChild, Teardown, DropWork, Goto
<1>5. ASSUME NEW a \in Actors, Abort(a) PROVE FALSE
  BY <1>1, <1>5 DEF Abort, Goto
<1>6. ASSUME NEW a \in Actors, NEW shutdown \in Requests[a], RequestShutdown(a, shutdown)
      PROVE  FALSE
  BY <1>6 DEF RequestShutdown, taskVars
<1> QED
  BY <1>2, <1>3, <1>4, <1>5, <1>6 DEF Next, Task

\* on_child_exit is entered while the actor is still Running, for a registered
\* child whose status is published, with room for a replacement.
THEOREM ChildHook == Safe => HookEntry
<1>1. IInv /\ [Next]_vars => [\A p \in Actors : EntersHook(p)]_vars
  <2> SUFFICES ASSUME IInv, [Next]_vars, NEW p \in Actors, pc[p] # "hook", pc'[p] = "hook"
               PROVE  /\ mode[p] = "Running" /\ Cardinality(children'[p]) < limit[p]
                      /\ \E c \in children[p] : Exited(c) /\ children'[p] = children[p] \ {c}
    BY DEF EntersHook
  <2> DEFINE c == Head(events[p])
  <2>1. TakeExit(p)
    BY OnlyTakeExit
  <2>2. TypeOK /\ Reported(p)
    BY DEF IInv
  <2>3. /\ events[p] # <<>>
        /\ children' = [children EXCEPT ![p] = @ \ {c}]
        /\ pc' = [pc EXCEPT ![p] = IF MayEnterHook(p, c) THEN "hook" ELSE pc[p]]
    BY <2>1 DEF TakeExit, Reap, Goto
  <2>4. c \in children[p] /\ mode[p] = "Running"
    BY <2>2, <2>3 DEF TypeOK, MayEnterHook
  <2>5. Exited(c)
    BY <2>2, <2>3 DEF TypeOK, Reported
  <2>6. children'[p] = children[p] \ {c}
    BY <2>2, <2>3 DEF TypeOK
  <2>7. IsFiniteSet(children[p]) /\ limit[p] \in Nat /\ Cardinality(children[p]) <= limit[p]
    BY <2>2, SupervisionAssumption, FS_Subset DEF TypeOK
  <2>8. /\ Cardinality(children[p]) \in Nat
        /\ Cardinality(children[p] \ {c}) = Cardinality(children[p]) - 1
    BY <2>4, <2>7, FS_CardinalityType, FS_RemoveElement
  <2>9. Cardinality(children'[p]) < limit[p]
    BY <2>6, <2>7, <2>8
  <2> QED
    BY <2>4, <2>5, <2>6, <2>9
<1> QED
  BY <1>1, Invariance, PTL DEF Safe, HookEntry

----------------------------------------------------------------------------
(* Supervision implements Subtree.                                         *)

\* A step that neither starts nor ends an actor is none of Subtree.
LEMMA Silent ==
  ASSUME TypeOK, UNCHANGED <<exit, subtree, parent>>,
         \A x \in Actors : (Born(x)' <=> Born(x)) /\ (Exited(x)' <=> Exited(x))
  PROVE  UNCHANGED Promise!vars
<1>1. \A x \in Actors : StateOf(x)' = StateOf(x)
  BY DEF StateOf
<1>2. [x \in Actors |-> StateOf(x)]' = [x \in Actors |-> StateOf(x)]
  BY <1>1
<1> QED
  BY <1>2 DEF Promise!vars

\* A request is silent: it moves no actor out of or into Exited.
LEMMA RequestSilent ==
  ASSUME TypeOK, NEW S, NEW s \in Shutdowns
  PROVE  \A x \in Actors : Requested(S, s)[x] = "Exited" <=> mode[x] = "Exited"
  BY RequestAll

\* A spawn is a spawn.
LEMMA SpawnRefines ==
  ASSUME IInv, NEW a \in Actors, NEW c \in Actors, SpawnChild(a, c)
  PROVE  Promise!Spawn(a, c)
<1>1. /\ UNCHANGED <<mode, exit, subtree>>
      /\ HasScope(a) /\ pc[c] = "unborn"
      /\ parent' = [parent EXCEPT ![c] = a] /\ pc' = [pc EXCEPT ![c] = "new"]
  BY DEF SpawnChild, gateVars, Goto, Born
<1>2. pc \in [Actors -> Steps] /\ InStep(a) /\ InStep(c) /\ pc[a] \in Scoped
  BY <1>1, ScopeWhere DEF IInv, TypeOK
<1>3. Born(a) /\ ~Exited(a) /\ ~Born(c) /\ ~Exited(c)
  BY <1>1, <1>2 DEF InStep, Born, Exited, Scoped
<1>4. StateOf(a) = "alive" /\ StateOf(c) = "unborn"
  BY <1>3 DEF StateOf
<1>5. StateOf(c)' = "alive" /\ \A x \in Actors \ {c} : StateOf(x)' = StateOf(x)
  BY <1>1, <1>2, <1>3 DEF StateOf, Born, Exited
<1>6. [x \in Actors |-> StateOf(x)]' = [[x \in Actors |-> StateOf(x)] EXCEPT ![c] = "alive"]
  BY <1>5
<1> QED
  BY <1>1, <1>4, <1>6 DEF Promise!Spawn

\* Publishing a status is an abort, or the end of an actor that has outlived
\* its children and knows of each whether it confirmed.
LEMMA PublishRefines ==
  ASSUME IInv, NEW a \in Actors, Publish(a)
  PROVE  Promise!Abort(a) \/ Promise!Finish(a)
<1>1. /\ UNCHANGED parent
      /\ pc[a] = "ended" /\ mode' = [mode EXCEPT ![a] = "Exited"]
      /\ pc' = [pc EXCEPT ![a] = "exited"]
      /\ \A x \in Actors \ {a} : exit'[x] = exit[x] /\ subtree'[x] = subtree[x]
  BY DEF Publish, Goto, IInv, TypeOK
<1>2. TypeOK /\ \A x \in Actors : InStep(x) /\ Kept(x) /\ Reasoned(x)
  BY DEF IInv
<1>3. /\ subtree'[a] = IF exit'[a] = "Aborted" THEN "Unconfirmed" ELSE sticky[a]
      /\ mode[a] = "Aborting" <=> exit'[a] = "Aborted"
  BY Published
<1>4. Born(a) /\ ~Exited(a) /\ Born(a)' /\ Exited(a)'
  BY <1>1, <1>2 DEF InStep, Born, Exited, TypeOK
<1>5. \A x \in Actors \ {a} : StateOf(x)' = StateOf(x)
  BY <1>1, <1>2 DEF StateOf, Born, Exited, TypeOK
<1>6. StateOf(a) = "alive"
  BY <1>4 DEF StateOf
<1>7. \A s : StateOf(a)' = s =>
        [x \in Actors |-> StateOf(x)]' = [[x \in Actors |-> StateOf(x)] EXCEPT ![a] = s]
  BY <1>5
<1>8. CASE exit'[a] = "Aborted"
  <2>1. StateOf(a)' = "aborted"
    BY <1>4, <1>8 DEF StateOf
  <2> QED
    BY <1>1, <1>6, <1>7, <2>1 DEF Promise!Abort
<1>9. CASE exit'[a] # "Aborted"
  <2>1. StateOf(a)' = IF sticky[a] = "Terminated" THEN "confirmed" ELSE "tainted"
    BY <1>3, <1>4, <1>9 DEF StateOf
  <2>2. children[a] = {} /\ mode[a] # "Aborting" /\ exit[a] # "Aborted"
    BY <1>1, <1>2, <1>3, <1>9 DEF InStep, NoReason
  <2>3. \A c \in Actors : parent[c] = a => Accounted(a, c) /\ Born(c)
    BY <1>2, <2>2 DEF Kept, Accounted, InStep, Exited, Born
  <2>4. \A c \in Actors : parent[c] = a => StateOf(c) \in Promise!Ended
    BY <2>3 DEF Accounted, StateOf, Promise!Ended
  <2>5. (\A c \in Actors : parent[c] = a => StateOf(c) = "confirmed") <=> sticky[a] = "Terminated"
    <3>1. ASSUME sticky[a] = "Terminated", NEW c \in Actors, parent[c] = a
          PROVE  StateOf(c) = "confirmed"
      <4>1. Born(c) /\ Exited(c) /\ subtree[c] = "Terminated"
        BY <1>2, <2>3, <3>1 DEF Accounted, TypeOK, Statuses, InStep, Exited
      <4> QED
        BY <1>2, <4>1 DEF StateOf, InStep
    <3>2. ASSUME sticky[a] # "Terminated"
          PROVE  \E c \in Actors : parent[c] = a /\ StateOf(c) # "confirmed"
      <4>1. sticky[a] = "Unconfirmed"
        BY <1>2, <3>2 DEF TypeOK, Statuses
      <4> QED
        BY <1>2, <4>1 DEF Reasoned, StateOf
    <3> QED
      BY <3>1, <3>2
  <2>6. [x \in Actors |-> StateOf(x)]' =
          [[x \in Actors |-> StateOf(x)] EXCEPT ![a] =
             IF \A c \in Promise!Children(a) : StateOf(c) = "confirmed"
             THEN "confirmed" ELSE "tainted"]
    BY <1>7, <2>1, <2>5 DEF Promise!Children
  <2>7. \A c \in Promise!Children(a) : [x \in Actors |-> StateOf(x)][c] = StateOf(c)
    BY DEF Promise!Children
  <2> QED
    BY <1>1, <1>6, <2>4, <2>6, <2>7 DEF Promise!Finish, Promise!Children
<1> QED
  BY <1>8, <1>9

\* Every other step is silent.
LEMMA RestSilent ==
  ASSUME IInv, [Next]_vars,
         \A a \in Actors : ~Publish(a) /\ \A c \in Fresh : ~SpawnChild(a, c)
  PROVE  UNCHANGED Promise!vars
<1>1. TypeOK /\ \A x \in Actors : InStep(x)
  BY DEF IInv
<1>2. /\ UNCHANGED <<exit, subtree, parent>>
      /\ \A x \in Actors : Born(x)' <=> Born(x)
  <2>1. CASE UNCHANGED vars
    BY <2>1 DEF vars, gateVars, taskVars, Born
  <2>2. ASSUME NEW a \in Actors, Task(a) \/ Abort(a)
                                 \/ \E shutdown \in Requests[a] : RequestShutdown(a, shutdown)
        PROVE  /\ UNCHANGED <<exit, subtree, parent>>
               /\ \/ pc' = pc
                  \/ pc[a] # "unborn" /\ \E step \in Steps \ {"unborn"} : pc' = [pc EXCEPT ![a] = step]
    <3>1. UNCHANGED <<exit, subtree, parent>>
      BY <2>2 DEF Task, Runtime, UserCode, Start, Poll, Interrupt, TakeExit, Serve, AskChildren,
                  AllAwaited, SendExit, AwaitChild, Yield, UserPanics, InitDone, HookDone,
                  RepliesDone, StopHookDone, OnShutdownPanics, Cleared, FrameDropped, Abort,
                  RequestShutdown, gateVars
    <3>2. a \in polling => pc[a] # "unborn"
      BY <1>1 DEF InStep
    <3>3. CASE pc' = pc
      BY <3>1, <3>3
    <3>4. CASE TakeExit(a)
      <4>1. pc[a] \in {"loop", "replies"}
            /\ pc' = [pc EXCEPT ![a] = IF MayEnterHook(a, Head(events[a])) THEN "hook" ELSE pc[a]]
        BY <3>4 DEF TakeExit, Goto
      <4>2. (IF MayEnterHook(a, Head(events[a])) THEN "hook" ELSE pc[a]) \in Steps \ {"unborn"}
        BY <4>1 DEF Steps, Waits
      <4> QED
        BY <3>1, <4>1, <4>2
    <3>5. CASE pc' # pc /\ ~TakeExit(a)
      <4>1. pc[a] # "unborn" /\ \E step \in Steps \ {"unborn"} : pc' = [pc EXCEPT ![a] = step]
        BY <2>2, <3>2, <3>5
        DEF Task, Runtime, UserCode, Start, Poll, Interrupt, Serve, AskChildren,
            AllAwaited, SendExit, AwaitChild, Yield, UserPanics, InitDone, HookDone,
            RepliesDone, StopHookDone, OnShutdownPanics, Cleared, FrameDropped, Abort,
            RequestShutdown, taskVars, Teardown, DropWork, Goto, Steps, Waits
      <4> QED
        BY <3>1, <4>1
    <3> QED
      BY <3>3, <3>4, <3>5
  <2>3. \A a \in Actors, step \in Steps \ {"unborn"} :
          pc[a] # "unborn" /\ pc' = [pc EXCEPT ![a] = step] =>
            \A x \in Actors : Born(x)' <=> Born(x)
    BY <1>1 DEF TypeOK, Born
  <2> QED
    BY <2>1, <2>2, <2>3 DEF Next, Born
<1>3. \A x \in Actors : Exited(x)' <=> Exited(x)
  <2>1. CASE UNCHANGED mode
    BY <2>1 DEF Exited
  <2>2. ASSUME NEW a \in Actors, NEW hard \in Hard, Teardown(a, hard), mode[a] # "Exited"
        PROVE  \A x \in Actors : mode'[x] = "Exited" <=> mode[x] = "Exited"
    <3>1. \A x \in Actors : Requested(children[a], "Kill")[x] = "Exited" <=> mode[x] = "Exited"
      BY <1>1, RequestSilent DEF Shutdowns
    <3>2. mode' = [Requested(children[a], "Kill") EXCEPT ![a] = hard]
      BY <2>2 DEF Teardown
    <3>3. Requested(children[a], "Kill") \in [Actors -> Modes]
      BY <1>1, RequestAll DEF Shutdowns
    <3> QED
      BY <2>2, <3>1, <3>2, <3>3 DEF Hard
  <2>3. ASSUME NEW a \in Actors, UserPanics(a) \/ Interrupt(a) \/ OnShutdownPanics(a)
        PROVE  \A x \in Actors : mode'[x] = "Exited" <=> mode[x] = "Exited"
    <3>1. mode[a] \in Modes \ {"Exited"}
      BY <1>1, <2>3 DEF TypeOK, InStep, UserPanics, Interrupt, OnShutdownPanics, Hard
    <3>2. FailureMode(mode[a]) \in Hard
      BY <3>1, HardGate
    <3>3. PICK hard \in Hard : Teardown(a, hard)
      BY <2>3, <3>2 DEF UserPanics, Interrupt, OnShutdownPanics, Hard
    <3> QED
      BY <2>2, <3>1, <3>3
  <2>4. ASSUME NEW a \in Actors, AskChildren(a)
        PROVE  \A x \in Actors : mode'[x] = "Exited" <=> mode[x] = "Exited"
    <3>1. serving[a] \in Shutdowns /\ mode' = Requested(children[a], serving[a])
      BY <1>1, <2>4 DEF AskChildren, TypeOK, InStep, Shutdowns
    <3> QED
      BY <1>1, <3>1, RequestSilent
  <2>5. ASSUME NEW a \in Actors, NEW shutdown \in Requests[a], RequestShutdown(a, shutdown)
        PROVE  \A x \in Actors : mode'[x] = "Exited" <=> mode[x] = "Exited"
    <3>1. shutdown \in Shutdowns /\ mode' = Requested({a}, shutdown)
      BY <2>5, SupervisionAssumption DEF RequestShutdown
    <3> QED
      BY <1>1, <3>1, RequestSilent
  <2>6. ASSUME NEW a \in Actors, Abort(a)
        PROVE  \A x \in Actors : mode'[x] = "Exited" <=> mode[x] = "Exited"
    <3>1. mode' = [mode EXCEPT ![a] = AbortMode(@)] /\ mode \in [Actors -> Modes]
      BY <1>1, <2>6 DEF Abort, TypeOK
    <3>2. mode[a] # "Exited"
      BY <1>1, <2>6 DEF Abort, InStep, Waits
    <3> QED
      BY <3>1, <3>2 DEF AbortMode
  <2>7. CASE UNCHANGED vars
    BY <2>1, <2>7 DEF vars, gateVars
  <2>8. ASSUME NEW a \in Actors, Runtime(a) PROVE \A x \in Actors : Exited(x)' <=> Exited(x)
    <3>1. \/ UNCHANGED mode
          \/ Interrupt(a)
          \/ AskChildren(a)
          \/ mode' = Requested(children[a], "Kill")
      BY <2>8 DEF Runtime, Start, Poll, TakeExit, Serve, AllAwaited, Cleared, FrameDropped,
                  OwnersDropped, SendExit, AwaitChild, gateVars
    <3>2. CASE mode' = Requested(children[a], "Kill")
      BY <1>1, <3>2, RequestSilent DEF Exited, Shutdowns
    <3> QED
      BY <2>1, <2>3, <2>4, <3>1, <3>2 DEF Exited
  <2>9. ASSUME NEW a \in Actors, UserCode(a) PROVE \A x \in Actors : Exited(x)' <=> Exited(x)
    <3>1. \/ UNCHANGED mode
          \/ UserPanics(a)
          \/ OnShutdownPanics(a)
      BY <2>9 DEF UserCode, Yield, InitDone, HookDone, RepliesDone, StopHookDone, gateVars
    <3> QED
      BY <2>1, <2>3, <3>1 DEF Exited
  <2> QED
    BY <2>5, <2>6, <2>7, <2>8, <2>9 DEF Next, Task, Exited
<1> QED
  BY <1>1, <1>2, <1>3, Silent

\* What the exits of a tree say of their subtrees is what Subtree allows:
\* every step of Supervision is a step of Subtree or none.
THEOREM Refinement == Safe => PromiseKept
<1>1. Init => Promise!Init
  <2> SUFFICES ASSUME Init PROVE Promise!Init
    OBVIOUS
  <2>1. \A x \in Actors : StateOf(x) = IF x = Root THEN "alive" ELSE "unborn"
    BY DEF Init, StateOf, Born, Exited
  <2> QED
    BY <2>1 DEF Init, Promise!Init
<1>2. IInv /\ [Next]_vars => [Promise!Next]_(Promise!vars)
  <2> SUFFICES ASSUME IInv, [Next]_vars PROVE [Promise!Next]_(Promise!vars)
    OBVIOUS
  <2>1. ASSUME NEW a \in Actors, Publish(a) PROVE Promise!Next
    BY <2>1, PublishRefines DEF Promise!Next
  <2>2. ASSUME NEW a \in Actors, NEW c \in Fresh, SpawnChild(a, c) PROVE Promise!Next
    BY <2>2, FreshUnborn, SpawnRefines DEF Promise!Next
  <2>3. CASE \A a \in Actors : ~Publish(a) /\ \A c \in Fresh : ~SpawnChild(a, c)
    BY <2>3, RestSilent
  <2> QED
    BY <2>1, <2>2, <2>3
<1> QED
  BY <1>1, <1>2, Invariance, PTL DEF Safe, PromiseKept, Promise!Spec

----------------------------------------------------------------------------
(* Every exit is reported, and once.                                       *)

\* Of a parent at work: its channel holds the registered children that are
\* gone, each once, and a child without registration is gone.
Heard(p) ==
  /\ pc[p] = "unborn" => children[p] = {} /\ events[p] = <<>> /\ \A c \in Actors : parent[c] # p
  /\ pc[p] \in Receiving =>
       /\ \A i \in DOMAIN events[p] : events[p][i] \in children[p] /\ pc[events[p][i]] = "gone"
       /\ \A c \in children[p] : pc[c] = "gone" => \E i \in DOMAIN events[p] : events[p][i] = c
       /\ \A i, j \in DOMAIN events[p] : events[p][i] = events[p][j] => i = j
       /\ \A c \in Actors : parent[c] = p /\ c \notin children[p] => pc[c] = "gone"

HInv == \A p \in Actors : Heard(p)

\* What a step keeps when it ends no child and reports none.
LEMMA HeardKept ==
  ASSUME IInv, HInv, NEW a \in Actors, parent' = parent,
         \A x \in Actors \ {a} : children'[x] = children[x] /\ events'[x] = events[x],
         \/ children'[a] = children[a] /\ events'[a] = events[a]
         \/ pc'[a] \notin Receiving \cup {"unborn"},
         \A x \in Actors : /\ pc[x] = "gone" <=> pc'[x] = "gone"
                           /\ pc'[x] = "unborn" => pc[x] = "unborn"
                           /\ pc'[x] \in Receiving => pc[x] \in Receiving
  PROVE  HInv'
<1> SUFFICES ASSUME NEW p \in Actors PROVE Heard(p)'
  BY DEF HInv
<1>1. CASE pc'[p] \notin Receiving \cup {"unborn"}
  BY <1>1 DEF Heard, Receiving
<1>2. CASE pc'[p] \in Receiving \cup {"unborn"}
  <2>1. children'[p] = children[p] /\ events'[p] = events[p]
    BY <1>2
  <2>2. Heard(p) /\ children[p] \subseteq Actors /\ \A i \in DOMAIN events[p] : events[p][i] \in Actors
    BY DEF HInv, IInv, TypeOK
  <2>3. pc[p] \in Receiving \cup {"unborn"} /\ (pc'[p] = "unborn" => pc[p] = "unborn")
    BY <1>2
  <2> QED
    BY <2>1, <2>2, <2>3 DEF Heard, Receiving
<1> QED
  BY <1>1, <1>2

\* Most steps are of that kind.
LEMMA HeardOrdinary ==
  ASSUME IInv, HInv, NEW a \in Actors, ~TakeExit(a), ~SendExit(a),
         \A c \in Fresh : ~SpawnChild(a, c),
         \/ Task(a) \/ Abort(a)
         \/ \E shutdown \in Requests[a] : RequestShutdown(a, shutdown)
  PROVE  HInv'
<1>1. TypeOK /\ InStep(a)
  BY DEF IInv
<1>2. /\ parent' = parent
      /\ UNCHANGED <<children, events>> \/ AllAwaited(a) \/ FrameDropped(a) \/ Publish(a)
  BY DEF Task, Runtime, UserCode, Start, Poll, Interrupt, Serve, AskChildren, Cleared, FrameDropped,
         AllAwaited, AwaitChild, Yield, UserPanics, InitDone, HookDone, RepliesDone, Publish,
         StopHookDone, OnShutdownPanics, Abort, RequestShutdown, setVars
<1>3. AllAwaited(a) \/ FrameDropped(a) \/ Publish(a) =>
        /\ \A x \in Actors \ {a} : children'[x] = children[x] /\ events'[x] = events[x]
        /\ pc'[a] \notin Receiving \cup {"unborn"}
  BY <1>1 DEF AllAwaited, FrameDropped, Publish, Goto, TypeOK, Receiving
<1>4. \/ pc' = pc
      \/ /\ pc[a] \notin {"unborn", "gone"} /\ pc'[a] \notin {"unborn", "gone"}
         /\ pc'[a] \in Receiving => pc[a] \in Receiving
         /\ \A x \in Actors \ {a} : pc'[x] = pc[x]
  BY <1>1 DEF Task, Runtime, UserCode, Start, Poll, Interrupt, Teardown, DropWork, Serve,
         AskChildren, AllAwaited, Cleared, FrameDropped, AwaitChild, Yield, UserPanics, InitDone, HookDone, RepliesDone, Publish,
         StopHookDone, OnShutdownPanics, Abort, RequestShutdown, taskVars, Goto, Receiving,
         TypeOK, InStep, Waits
<1> QED
  BY <1>2, <1>3, <1>4, HeardKept

\* A child that is spawned is registered, and not gone.
LEMMA HeardSpawn ==
  ASSUME IInv, HInv, NEW a \in Actors, NEW c \in Actors, SpawnChild(a, c)
  PROVE  HInv'
<1>1. /\ UNCHANGED events
      /\ HasScope(a) /\ pc[c] = "unborn"
      /\ children' = [children EXCEPT ![a] = @ \cup {c}]
      /\ parent' = [parent EXCEPT ![c] = a] /\ pc' = [pc EXCEPT ![c] = "new"]
  BY DEF SpawnChild, Register, Goto, Born
<1>2. TypeOK /\ InStep(a) /\ \A x \in Actors : Owned(x) /\ Heard(x)
  BY DEF IInv, HInv
<1> SUFFICES ASSUME NEW p \in Actors PROVE Heard(p)'
  BY DEF HInv
<1>3. \A i \in DOMAIN events[p] : events[p][i] \in Actors
  BY <1>2 DEF TypeOK
<1>4. c # a /\ pc[a] # "unborn"
  BY <1>1, <1>2, ScopeWhere DEF Scoped
<1>5. /\ \A x \in Actors : pc'[x] = (IF x = c THEN "new" ELSE pc[x])
      /\ \A x \in Actors : parent'[x] = (IF x = c THEN a ELSE parent[x])
      /\ children'[p] = (IF p = a THEN children[p] \cup {c} ELSE children[p])
      /\ children[p] \subseteq Actors
  BY <1>1, <1>2 DEF TypeOK
<1>6. CASE p = c
  <2>1. children'[p] = {} /\ events'[p] = <<>> /\ \A x \in Actors : parent'[x] # p
    BY <1>1, <1>2, <1>4, <1>5, <1>6 DEF Heard
  <2> QED
    BY <2>1 DEF Heard
<1>7. CASE p # c
  <2>1. pc'[p] = pc[p] /\ events'[p] = events[p]
    BY <1>1, <1>5, <1>7
  <2>2. \A x \in Actors : pc'[x] = "gone" <=> pc[x] = "gone"
    BY <1>1, <1>5
  <2>3. children[p] \subseteq children'[p] /\ children'[p] \subseteq children[p] \cup {c}
        /\ (p # a => children'[p] = children[p])
    BY <1>5
  <2>4. \A x \in Actors : parent'[x] = p => x \in children'[p] \/ parent[x] = p
    BY <1>5
  <2>5. pc[c] # "gone" /\ pc'[c] # "gone"
    BY <1>1, <1>5
  <2>6. pc'[p] = "unborn" => p # a
    BY <1>4, <2>1
  <2>7. Heard(p)
    BY <1>2
  <2>8. pc'[p] = "unborn" =>
          children'[p] = {} /\ events'[p] = <<>> /\ \A x \in Actors : parent'[x] # p
    BY <1>5, <2>1, <2>3, <2>6, <2>7 DEF Heard
  <2>9. ASSUME pc'[p] \in Receiving
        PROVE  /\ \A i \in DOMAIN events[p] : events[p][i] \in children'[p] /\ pc'[events[p][i]] = "gone"
               /\ \A x \in children'[p] : pc'[x] = "gone" => \E i \in DOMAIN events[p] : events[p][i] = x
               /\ \A i, j \in DOMAIN events[p] : events[p][i] = events[p][j] => i = j
               /\ \A x \in Actors : parent'[x] = p /\ x \notin children'[p] => pc'[x] = "gone"
    BY <1>3, <1>5, <2>1, <2>2, <2>3, <2>4, <2>5, <2>7, <2>9 DEF Heard
  <2> QED
    BY <2>1, <2>8, <2>9 DEF Heard
<1> QED
  BY <1>6, <1>7

\* A turn takes the oldest event and its registration together.
LEMMA HeardTakeExit ==
  ASSUME IInv, HInv, NEW a \in Actors, TakeExit(a)
  PROVE  HInv'
<1> DEFINE c == Head(events[a])
<1>1. /\ UNCHANGED parent
      /\ events[a] # <<>>
      /\ children' = [children EXCEPT ![a] = @ \ {c}]
      /\ events' = [events EXCEPT ![a] = Tail(@)]
      /\ pc[a] \in {"loop", "replies"}
      /\ pc' = [pc EXCEPT ![a] = "hook"] \/ pc' = [pc EXCEPT ![a] = pc[a]]
  BY DEF TakeExit, gateVars, Reap, Goto
<1>2. TypeOK /\ \A x \in Actors : Heard(x)
  BY DEF IInv, HInv
<1>3. /\ c \in Actors /\ Len(events[a]) \in Nat \ {0} /\ DOMAIN events[a] = 1 .. Len(events[a])
      /\ Len(Tail(events[a])) = Len(events[a]) - 1
      /\ DOMAIN Tail(events[a]) = 1 .. Len(Tail(events[a]))
      /\ \A i \in 1 .. Len(Tail(events[a])) : Tail(events[a])[i] = events[a][i + 1]
      /\ c = events[a][1]
  BY <1>1, <1>2 DEF TypeOK
<1> HIDE DEF c
<1> SUFFICES ASSUME NEW p \in Actors PROVE Heard(p)'
  BY DEF HInv
<1>4. /\ \A i \in DOMAIN events[p] : events[p][i] \in Actors
      /\ \A x \in Actors : pc'[x] = "gone" <=> pc[x] = "gone"
      /\ \A x \in Actors \ {a} : pc'[x] = pc[x] /\ children'[x] = children[x] /\ events'[x] = events[x]
      /\ pc'[a] \in {"hook", "loop", "replies"}
      /\ children[p] \subseteq Actors
  BY <1>1, <1>2 DEF TypeOK
<1>5. CASE p # a
  BY <1>1, <1>2, <1>4, <1>5 DEF Heard
<1>6. CASE p = a
  <2>1. children'[a] = children[a] \ {c} /\ events'[a] = Tail(events[a])
    BY <1>1, <1>2 DEF TypeOK
  <2>2. /\ \A i \in DOMAIN events[a] : events[a][i] \in children[a] /\ pc[events[a][i]] = "gone"
        /\ \A x \in children[a] : pc[x] = "gone" => \E i \in DOMAIN events[a] : events[a][i] = x
        /\ \A i, j \in DOMAIN events[a] : events[a][i] = events[a][j] => i = j
        /\ \A x \in Actors : parent[x] = a /\ x \notin children[a] => pc[x] = "gone"
    BY <1>1, <1>2 DEF Heard, Receiving
  <2>3. \A i \in DOMAIN Tail(events[a]) :
          /\ i + 1 \in DOMAIN events[a] /\ Tail(events[a])[i] = events[a][i + 1]
          /\ events[a][i + 1] # c
    <3> SUFFICES ASSUME NEW i \in DOMAIN Tail(events[a])
                 PROVE  /\ i + 1 \in DOMAIN events[a] /\ Tail(events[a])[i] = events[a][i + 1]
                        /\ events[a][i + 1] # c
      OBVIOUS
    <3>1. i \in 1 .. Len(events[a]) - 1 /\ i + 1 # 1 /\ 1 \in DOMAIN events[a]
      BY <1>3
    <3>2. i + 1 \in DOMAIN events[a]
      BY <1>3, <3>1
    <3> QED
      BY <1>3, <2>2, <3>1, <3>2
  <2>4. \A i \in DOMAIN Tail(events[a]) :
          Tail(events[a])[i] \in children'[a] /\ pc'[Tail(events[a])[i]] = "gone"
    BY <1>4, <1>6, <2>1, <2>2, <2>3
  <2>5. ASSUME NEW x \in children'[a], pc'[x] = "gone"
        PROVE  \E i \in DOMAIN Tail(events[a]) : Tail(events[a])[i] = x
    <3>1. x \in children[a] /\ x # c /\ pc[x] = "gone"
      BY <1>4, <1>6, <2>1, <2>5
    <3>2. PICK i \in DOMAIN events[a] : events[a][i] = x
      BY <2>2, <3>1
    <3>3. i # 1 /\ i \in 1 .. Len(events[a])
      BY <1>3, <3>1, <3>2
    <3>4. i - 1 \in DOMAIN Tail(events[a]) /\ Tail(events[a])[i - 1] = events[a][(i - 1) + 1]
      BY <1>3, <3>3
    <3> QED
      BY <3>2, <3>3, <3>4
  <2>6. \A i, j \in DOMAIN Tail(events[a]) : Tail(events[a])[i] = Tail(events[a])[j] => i = j
    <3> SUFFICES ASSUME NEW i \in DOMAIN Tail(events[a]), NEW j \in DOMAIN Tail(events[a]),
                        Tail(events[a])[i] = Tail(events[a])[j]
                 PROVE  i = j
      OBVIOUS
    <3>1. i + 1 = j + 1
      BY <2>2, <2>3
    <3> QED
      BY <1>3, <3>1
  <2>7. \A x \in Actors : parent'[x] = a /\ x \notin children'[a] => pc'[x] = "gone"
    <3>1. c \in children[a] /\ pc[c] = "gone"
      BY <1>3, <2>2
    <3> QED
      BY <1>1, <1>4, <2>1, <2>2, <3>1
  <2> QED
    BY <1>4, <1>6, <2>1, <2>4, <2>5, <2>6, <2>7 DEF Heard
<1> QED
  BY <1>5, <1>6

\* The one who ends is appended, for the first time, if the parent listens.
LEMMA HeardSendExit ==
  ASSUME IInv, HInv, NEW a \in Actors, SendExit(a)
  PROVE  HInv'
<1>1. /\ UNCHANGED <<parent, children>>
      /\ pc[a] = "exited" /\ pc' = [pc EXCEPT ![a] = "gone"]
      /\ events' = IF Listening(parent[a])
                   THEN [events EXCEPT ![parent[a]] = Append(@, a)] ELSE events
  BY DEF SendExit, Send, Goto
<1>2. TypeOK /\ \A x \in Actors : Heard(x)
  BY DEF IInv, HInv
<1> SUFFICES ASSUME NEW p \in Actors PROVE Heard(p)'
  BY DEF HInv
<1>3. \A x \in Actors : pc'[x] = (IF x = a THEN "gone" ELSE pc[x])
  BY <1>1, <1>2 DEF TypeOK
<1>4. /\ children[p] \subseteq Actors /\ events[p] \in Seq(Actors)
      /\ \A i \in DOMAIN events[p] : events[p][i] \in Actors
  BY <1>2 DEF TypeOK
<1>5. CASE p = a
  BY <1>3, <1>5 DEF Heard, Receiving
<1>6. CASE p # a /\ parent[a] # p
  <2>1. events'[p] = events[p] /\ pc'[p] = pc[p]
    BY <1>1, <1>2, <1>3, <1>6 DEF TypeOK
  <2>2. a \notin children[p]
    BY <1>6 DEF IInv, Owned
  <2> QED
    BY <1>1, <1>2, <1>3, <1>4, <1>6, <2>1, <2>2 DEF Heard
<1>7. CASE p # a /\ parent[a] = p
  <2>1. pc'[p] = pc[p] /\ pc[p] # "unborn"
    BY <1>2, <1>3, <1>7 DEF Heard
  <2> SUFFICES ASSUME pc[p] \in Receiving PROVE Heard(p)'
    BY <2>1 DEF Heard
  <2>2. events'[p] = Append(events[p], a)
    <3>1. Listening(p)
      BY <1>7, SupervisionAssumption DEF Listening, Receiving
    <3> QED
      BY <1>1, <1>2, <1>7, <3>1 DEF TypeOK
  <2>3. /\ \A i \in DOMAIN events[p] : events[p][i] \in children[p] /\ pc[events[p][i]] = "gone"
        /\ \A x \in children[p] : pc[x] = "gone" => \E i \in DOMAIN events[p] : events[p][i] = x
        /\ \A i, j \in DOMAIN events[p] : events[p][i] = events[p][j] => i = j
        /\ \A x \in Actors : parent[x] = p /\ x \notin children[p] => pc[x] = "gone"
    BY <1>2 DEF Heard
  <2>4. a \in children[p]
    BY <1>1, <1>7, <2>3
  <2> DEFINE n == Len(events[p])
  <2>5. /\ n \in Nat /\ DOMAIN events[p] = 1 .. n /\ DOMAIN events'[p] = 1 .. (n + 1)
        /\ \A i \in 1 .. n : events'[p][i] = events[p][i]
        /\ events'[p][n + 1] = a
    BY <1>4, <2>2
  <2> HIDE DEF n
  <2>6. \A i \in DOMAIN events[p] : events[p][i] # a
    BY <1>1, <2>3
  <2>7. \A i \in 1 .. (n + 1) : i \in 1 .. n \/ i = n + 1
    BY <2>5
  <2>8. \A i \in DOMAIN events'[p] : events'[p][i] \in children'[p] /\ pc'[events'[p][i]] = "gone"
    BY <1>1, <1>3, <1>4, <2>3, <2>4, <2>5, <2>7
  <2>9. ASSUME NEW x \in children'[p], pc'[x] = "gone"
        PROVE  \E i \in DOMAIN events'[p] : events'[p][i] = x
    <3>1. CASE x = a
      <4>1. n + 1 \in DOMAIN events'[p]
        BY <2>5
      <4> QED
        BY <2>5, <3>1, <4>1
    <3>2. CASE x # a
      <4>1. PICK i \in DOMAIN events[p] : events[p][i] = x
        BY <1>1, <1>3, <1>4, <2>3, <2>9, <3>2
      <4>2. i \in DOMAIN events'[p] /\ events'[p][i] = x
        BY <2>5, <4>1
      <4> QED
        BY <4>2
    <3> QED
      BY <3>1, <3>2
  <2>10. \A i, j \in DOMAIN events'[p] : events'[p][i] = events'[p][j] => i = j
    BY <2>3, <2>5, <2>6, <2>7
  <2>11. \A x \in Actors : parent'[x] = p /\ x \notin children'[p] => pc'[x] = "gone"
    BY <1>1, <1>3, <2>3
  <2> QED
    BY <2>1, <2>8, <2>9, <2>10, <2>11 DEF Heard
<1> QED
  BY <1>5, <1>6, <1>7

\* A sequence that enumerates a set without repetition is as long as the set
\* is large.
LEMMA Enumerated ==
  ASSUME NEW S, NEW s \in Seq(S), \A x \in S : \E i \in DOMAIN s : s[i] = x,
         \A i, j \in DOMAIN s : s[i] = s[j] => i = j
  PROVE  Len(s) = Cardinality(S)
<1>1. Len(s) \in Nat /\ DOMAIN s = 1 .. Len(s) /\ s \in [1 .. Len(s) -> S]
  OBVIOUS
<1>2. s \in Bijection(1 .. Len(s), S)
  BY <1>1, Fun_IsBij
<1>3. ExistsBijection(1 .. Len(s), S)
  BY <1>2 DEF ExistsBijection
<1> QED
  BY <1>1, <1>3, FS_CountingElements

\* A parent at work has been sent the exit of every child that is gone, and
\* of no other, once each.
THEOREM Reports == Safe => []ExitsReported
<1>1. Init => HInv
  <2> SUFFICES ASSUME Init, NEW p \in Actors PROVE Heard(p)
    BY DEF HInv
  <2>1. /\ events[p] = <<>> /\ children[p] = {} /\ \A x \in Actors : parent[x] # p
    BY SupervisionAssumption DEF Init
  <2> QED
    BY <2>1 DEF Heard
<1>2. IInv /\ HInv /\ [Next]_vars => HInv'
  <2> SUFFICES ASSUME IInv, HInv, [Next]_vars PROVE HInv'
    OBVIOUS
  <2>1. CASE UNCHANGED vars
    BY <2>1 DEF vars, setVars, taskVars, HInv, Heard
  <2>2. ASSUME NEW a \in Actors,
               Task(a) \/ Abort(a) \/ \E shutdown \in Requests[a] : RequestShutdown(a, shutdown)
        PROVE  HInv'
    <3>1. CASE TakeExit(a)
      BY <3>1, HeardTakeExit
    <3>2. CASE SendExit(a)
      BY <3>2, HeardSendExit
    <3>3. CASE \E c \in Fresh : SpawnChild(a, c)
      BY <3>3, FreshUnborn, HeardSpawn
    <3> QED
      BY <2>2, <3>1, <3>2, <3>3, HeardOrdinary
  <2> QED
    BY <2>1, <2>2 DEF Next
<1>3. IInv /\ HInv => ExitsReported
  <2> SUFFICES ASSUME IInv, HInv, NEW p \in Actors, pc[p] \in Receiving
               PROVE  /\ {events[p][i] : i \in DOMAIN events[p]} = {c \in children[p] : pc[c] = "gone"}
                      /\ Len(events[p]) = Cardinality({c \in children[p] : pc[c] = "gone"})
    BY DEF ExitsReported
  <2> DEFINE gone == {c \in children[p] : pc[c] = "gone"}
  <2>1. Heard(p) /\ events[p] \in Seq(Actors)
    BY DEF HInv, IInv, TypeOK
  <2>2. {events[p][i] : i \in DOMAIN events[p]} = gone
    BY <2>1 DEF Heard
  <2>3. events[p] \in Seq(gone)
    BY <2>1, <2>2
  <2>4. Len(events[p]) = Cardinality(gone)
    BY <2>1, <2>2, <2>3, Enumerated DEF Heard
  <2> QED
    BY <2>2, <2>4
<1> QED
  BY <1>1, <1>2, <1>3, Invariance, PTL DEF Safe

----------------------------------------------------------------------------
(* The tree has no cycles; waits and lost confirmations follow it.         *)

\* An actor that is not born has no parent and no children yet.
Grounded(x) == ~Born(x) => parent[x] = Nobody /\ \A c \in Actors : parent[c] # x

Downwards(a) ==
  /\ a \notin Promise!Descendants(a)
  /\ \A c \in waiting[a] :
       /\ parent[c] = a
       /\ c \notin late =>
            /\ mode[c] # "Running"
            /\ pc[a] = "teardown" => mode[c] \in Hard \cup {"Exited"}
  /\ pc[a] = "clear" => \A c \in children[a] : c \notin late => mode[c] \in Hard \cup {"Exited"}

Lost(a) ==
  subtree[a] = "Unconfirmed" =>
    \E d \in {a} \cup Promise!Descendants(a) : exit[d] = "Aborted"

TreeInv == \A a \in Actors : Grounded(a) /\ Downwards(a) /\ Lost(a)

\* What is below a child is below its parent.
LEMMA BelowChild ==
  ASSUME NEW a \in Actors, NEW c \in Actors, parent[c] = a,
         NEW d \in {c} \cup Promise!Descendants(c)
  PROVE  d \in Promise!Descendants(a)
<1>1. d \in Actors
  BY DEF Promise!Descendants
<1>2. ASSUME NEW heirs \in SUBSET Actors, Promise!Children(a) \subseteq heirs,
             \A h \in heirs : Promise!Children(h) \subseteq heirs
      PROVE  d \in heirs
  <2>1. c \in heirs
    BY <1>2 DEF Promise!Children
  <2> QED
    BY <1>2, <2>1 DEF Promise!Descendants
<1> QED
  BY <1>1, <1>2 DEF Promise!Descendants

\* A birth takes nobody away from anybody's descendants, and puts nobody
\* below itself.
LEMMA BirthBelow ==
  ASSUME TypeOK, \A x \in Actors : Grounded(x),
         NEW p \in Actors, NEW c \in Actors, Born(p), ~Born(c),
         parent' = [parent EXCEPT ![c] = p], NEW a \in Actors
  PROVE  /\ Promise!Descendants(a) \subseteq Promise!Descendants(a)'
         /\ a \notin Promise!Descendants(a) => a \notin Promise!Descendants(a)'
<1>1. /\ p # c /\ parent[c] = Nobody /\ Nobody \notin Actors
      /\ \A x \in Actors : parent[x] # c /\ parent'[x] = IF x = c THEN p ELSE parent[x]
  BY SupervisionAssumption DEF TypeOK, Grounded
<1>2. \A x \in Actors : /\ Promise!Children(x) \subseteq Promise!Children(x)'
                        /\ Promise!Children(x)' \subseteq Promise!Children(x) \cup {c}
  BY <1>1 DEF Promise!Children
<1>3. Promise!Children(c)' = {}
  BY <1>1 DEF Promise!Children
<1>4. Promise!Descendants(a) \subseteq Promise!Descendants(a)'
  <2> SUFFICES ASSUME NEW d \in Promise!Descendants(a), NEW heirs \in SUBSET Actors,
                      Promise!Children(a)' \subseteq heirs,
                      \A h \in heirs : Promise!Children(h)' \subseteq heirs
               PROVE  d \in heirs
    BY DEF Promise!Descendants
  <2>1. /\ Promise!Children(a) \subseteq heirs
        /\ \A h \in heirs : Promise!Children(h) \subseteq heirs
    BY <1>2
  <2> QED
    BY <2>1 DEF Promise!Descendants
<1>5. ASSUME a \notin Promise!Descendants(a)
      PROVE  a \notin Promise!Descendants(a)'
  <2>1. CASE a = c
    BY <1>3, <2>1 DEF Promise!Descendants
  <2>2. CASE a # c
    <3>1. PICK heirs \in SUBSET Actors :
            /\ Promise!Children(a) \subseteq heirs /\ a \notin heirs
            /\ \A h \in heirs : Promise!Children(h) \subseteq heirs
      BY <1>5 DEF Promise!Descendants
    <3> DEFINE wider == heirs \cup {c}
    <3>2. /\ wider \in SUBSET Actors /\ a \notin wider
          /\ Promise!Children(a)' \subseteq wider
          /\ \A h \in wider : Promise!Children(h)' \subseteq wider
      BY <1>2, <1>3, <2>2, <3>1
    <3> QED
      BY <3>2 DEF Promise!Descendants
  <2> QED
    BY <2>1, <2>2
<1> QED
  BY <1>4, <1>5

\* No gate goes back to Running, or to grace.
LEMMA ModesForward ==
  ASSUME IInv, NEW a \in Actors,
         \/ Task(a) \/ Abort(a)
         \/ \E shutdown \in Requests[a] : RequestShutdown(a, shutdown)
  PROVE  \A x \in Actors :
           /\ mode[x] # "Running" => mode'[x] # "Running"
           /\ mode[x] \in Hard \cup {"Exited"} => mode'[x] \in Hard \cup {"Exited"}
<1>1. TypeOK /\ mode[a] \in Modes /\ mode \in [Actors -> Modes]
  BY DEF IInv, TypeOK
<1>2. ASSUME NEW S, NEW s \in Shutdowns
      PROVE  \A x \in Actors :
               /\ mode[x] # "Running" \/ x \in S => Requested(S, s)[x] # "Running"
               /\ mode[x] \in Hard \cup {"Exited"} => Requested(S, s)[x] = mode[x]
  BY <1>1 DEF Requested, RequestedMode, CutoffMode, Shutdowns, Hard
<1>3. ASSUME NEW hard \in Hard, Teardown(a, hard) PROVE
        \A x \in Actors :
           /\ mode[x] # "Running" => mode'[x] # "Running"
           /\ mode[x] \in Hard \cup {"Exited"} => mode'[x] \in Hard \cup {"Exited"}
  <2>1. mode' = [Requested(children[a], "Kill") EXCEPT ![a] = hard]
    BY <1>3 DEF Teardown
  <2>2. Requested(children[a], "Kill") \in [Actors -> Modes]
    BY <1>1, RequestAll DEF Shutdowns
  <2> QED
    BY <1>2, <2>1, <2>2 DEF Hard, Shutdowns
<1>4. CASE UserPanics(a) \/ Interrupt(a) \/ OnShutdownPanics(a)
  <2>1. mode[a] \in Modes \ {"Exited"}
    BY <1>1, <1>4 DEF UserPanics, Interrupt, OnShutdownPanics, IInv, InStep, Hard
  <2> QED
    BY <1>3, <1>4, <2>1, HardGate DEF UserPanics, Interrupt, OnShutdownPanics, Hard
<1>5. CASE AskChildren(a)
  <2>1. serving[a] \in Shutdowns /\ mode' = Requested(children[a], serving[a])
    BY <1>5 DEF AskChildren, IInv, TypeOK, InStep, Shutdowns
  <2> QED
    BY <1>2, <2>1
<1>6. CASE Abort(a)
  <2>1. mode' = [mode EXCEPT ![a] = AbortMode(@)] /\ AbortMode(mode[a]) \in {"Exited", "Aborting"}
    BY <1>6 DEF Abort, AbortMode
  <2> QED
    BY <1>1, <2>1 DEF Hard
<1>7. CASE Publish(a)
  BY <1>1, <1>7 DEF Publish
<1>8. CASE \E shutdown \in Requests[a] : RequestShutdown(a, shutdown)
  <2>1. PICK shutdown \in Shutdowns : mode' = Requested({a}, shutdown)
    BY <1>8, SupervisionAssumption DEF RequestShutdown
  <2> QED
    BY <1>2, <2>1
<1>9. CASE UNCHANGED mode
  BY <1>9
<1>10. CASE FrameDropped(a)
  BY <1>2, <1>10 DEF FrameDropped, OwnersDropped, Shutdowns
<1> QED
  BY <1>4, <1>5, <1>6, <1>7, <1>8, <1>9, <1>10
  DEF Task, Runtime, UserCode, Start, Poll, TakeExit, Serve, Cleared, AllAwaited, SendExit,
      AwaitChild, Yield, InitDone, HookDone, RepliesDone, StopHookDone, SpawnChild, gateVars

\* A wait goes on with fewer children, or begins with those that were just
\* told to go, or with those that clear has left.
LEMMA WaitSteps ==
  ASSUME IInv, NEW a \in Actors,
         \/ Task(a) \/ Abort(a)
         \/ \E shutdown \in Requests[a] : RequestShutdown(a, shutdown)
  PROVE  \A x \in Actors :
           \/ waiting'[x] \subseteq waiting[x] /\ (pc'[x] = "teardown" => pc[x] = "teardown")
           \/ Cleared(x)
           \/ /\ waiting'[x] = children[x] /\ parent' = parent
              /\ \A c \in children[x] :
                   /\ mode'[c] # "Running"
                   /\ pc'[x] = "teardown" => mode'[c] \in Hard \cup {"Exited"}
<1> DEFINE Begins(x) == /\ waiting'[x] = children[x] /\ parent' = parent
                        /\ \A c \in children[x] :
                             /\ mode'[c] # "Running"
                             /\ pc'[x] = "teardown" => mode'[c] \in Hard \cup {"Exited"}
           Goes(x) == waiting'[x] \subseteq waiting[x] /\ (pc'[x] = "teardown" => pc[x] = "teardown")
<1>1. TypeOK /\ pc \in [Actors -> Steps] /\ waiting \in [Actors -> SUBSET Actors]
      /\ children \in [Actors -> SUBSET Actors]
  BY DEF IInv, TypeOK
<1>2. CASE UserPanics(a) \/ Interrupt(a) \/ OnShutdownPanics(a)
  <2>1. mode[a] \in Modes \ {"Exited"}
    BY <1>1, <1>2 DEF UserPanics, Interrupt, OnShutdownPanics, IInv, InStep, Hard, TypeOK
  <2>2. PICK hard \in Hard : Teardown(a, hard) /\ parent' = parent
    BY <1>2, <2>1, HardGate DEF UserPanics, Interrupt, OnShutdownPanics, Hard
  <2>3. PICK next \in {"clear", "teardown"} :
          /\ mode' = [Requested(children[a], "Kill") EXCEPT ![a] = hard]
          /\ waiting' = [waiting EXCEPT ![a] = IF next = "clear" THEN {} ELSE children[a]]
          /\ pc' = [pc EXCEPT ![a] = next]
    BY <2>2 DEF Teardown, DropWork, Goto
  <2>4. /\ Requested(children[a], "Kill") \in [Actors -> Modes]
        /\ \A x \in children[a] : Requested(children[a], "Kill")[x] \in Hard \cup {"Exited"}
    BY <1>1, RequestAll DEF Shutdowns
  <2>5. CASE next = "teardown"
    <3>1. Begins(a)
      BY <1>1, <2>2, <2>3, <2>4, <2>5 DEF Hard
    <3> QED
      BY <1>1, <2>3, <3>1
  <2>6. CASE next = "clear"
    BY <1>1, <2>3, <2>6
  <2> QED
    BY <2>5, <2>6
<1>3. CASE AskChildren(a)
  <2>1. /\ serving[a] \in Shutdowns /\ mode' = Requested(children[a], serving[a])
        /\ waiting' = [waiting EXCEPT ![a] = children[a]]
        /\ pc' = [pc EXCEPT ![a] = "children"] /\ parent' = parent
    BY <1>3 DEF AskChildren, Goto, IInv, TypeOK, InStep, Shutdowns
  <2>2. \A x \in children[a] : mode'[x] # "Running"
    BY <1>1, <2>1 DEF Requested, RequestedMode, CutoffMode, Shutdowns, TypeOK
  <2>3. Begins(a)
    BY <1>1, <2>1, <2>2
  <2>4. \A x \in Actors \ {a} : Goes(x)
    BY <1>1, <2>1
  <2> QED
    BY <2>3, <2>4
<1>4. CASE \E c \in Actors : AwaitChild(a, c)
  BY <1>1, <1>4 DEF AwaitChild
<1>5. CASE Abort(a)
  BY <1>1, <1>5 DEF Abort, Goto
<1>6. CASE \/ Start(a) \/ Poll(a) \/ TakeExit(a) \/ Serve(a) \/ AllAwaited(a) \/ Publish(a)
           \/ FrameDropped(a) \/ SendExit(a) \/ Yield(a) \/ InitDone(a) \/ HookDone(a) \/ RepliesDone(a)
           \/ StopHookDone(a)
  <2>1. waiting' = waiting /\ (pc' = pc \/ \E step \in Steps \ {"teardown"} : pc' = [pc EXCEPT ![a] = step])
    <3>1. CASE TakeExit(a)
      BY <1>1, <3>1 DEF TakeExit, Goto, Steps, Waits
    <3>2. CASE ~TakeExit(a)
      BY <1>1, <1>6, <3>2
      DEF Start, Poll, Serve, AllAwaited, Publish, FrameDropped, SendExit, Yield, InitDone,
          HookDone, RepliesDone, StopHookDone, Goto, Steps, Waits
    <3> QED
      BY <3>1, <3>2
  <2> QED
    BY <1>1, <2>1
<1>7. CASE \E c \in Fresh : SpawnChild(a, c)
  <2>1. PICK c \in Actors : SpawnChild(a, c)
    BY <1>7, FreshUnborn
  <2>2. waiting' = waiting /\ pc' = [pc EXCEPT ![c] = "new"]
    BY <2>1 DEF SpawnChild, Goto
  <2> QED
    BY <1>1, <2>2
<1>8. CASE \E shutdown \in Requests[a] : RequestShutdown(a, shutdown)
  BY <1>8 DEF RequestShutdown, taskVars
<1>9. CASE Cleared(a)
  BY <1>1, <1>9 DEF Cleared, Goto
<1> QED
  BY <1>2, <1>3, <1>4, <1>5, <1>6, <1>7, <1>8, <1>9 DEF Task, Runtime, UserCode

\* While an actor clears its frame it gets no children but late ones, and
\* before that it has told the others to go at once.
LEMMA ClearSteps ==
  ASSUME IInv, NEW a \in Actors,
         \/ Task(a) \/ Abort(a)
         \/ \E shutdown \in Requests[a] : RequestShutdown(a, shutdown)
  PROVE  \A x \in Actors : pc'[x] = "clear" =>
           \/ /\ pc[x] = "clear"
              /\ \A c \in children'[x] : c \in children[x] \/ c \in late'
           \/ \A c \in children'[x] : mode'[c] \in Hard \cup {"Exited"}
<1>1. TypeOK /\ pc \in [Actors -> Steps] /\ children \in [Actors -> SUBSET Actors]
  BY DEF IInv, TypeOK
<1>2. CASE UserPanics(a) \/ Interrupt(a) \/ OnShutdownPanics(a)
  <2>1. mode[a] \in Modes \ {"Exited"}
    BY <1>1, <1>2 DEF UserPanics, Interrupt, OnShutdownPanics, IInv, InStep, Hard, TypeOK
  <2>2. PICK hard \in Hard : Teardown(a, hard) /\ children' = children
    BY <1>2, <2>1, HardGate DEF UserPanics, Interrupt, OnShutdownPanics, Hard, setVars
  <2>3. /\ mode' = [Requested(children[a], "Kill") EXCEPT ![a] = hard]
        /\ \E step \in Steps : pc' = [pc EXCEPT ![a] = step]
    BY <2>2 DEF Teardown, DropWork, Goto, Steps, Waits
  <2>4. /\ Requested(children[a], "Kill") \in [Actors -> Modes]
        /\ \A x \in children[a] : Requested(children[a], "Kill")[x] \in Hard \cup {"Exited"}
    BY <1>1, RequestAll DEF Shutdowns
  <2>5. \A c \in children[a] : mode'[c] \in Hard \cup {"Exited"}
    BY <1>1, <2>3, <2>4
  <2> QED
    BY <1>1, <2>2, <2>3, <2>5
<1>3. CASE \E c \in Fresh : SpawnChild(a, c)
  <2>1. PICK c \in Actors : SpawnChild(a, c)
    BY <1>3, FreshUnborn
  <2>2. /\ pc' = [pc EXCEPT ![c] = "new"] /\ children' = [children EXCEPT ![a] = @ \cup {c}]
        /\ pc[a] = "clear" => c \in late'
    BY <2>1 DEF SpawnChild, Register, Goto
  <2> QED
    BY <1>1, <2>2
<1>4. CASE \/ Start(a) \/ Poll(a) \/ TakeExit(a) \/ Serve(a) \/ AskChildren(a) \/ AllAwaited(a)
           \/ Cleared(a) \/ FrameDropped(a) \/ Publish(a) \/ SendExit(a)
           \/ (\E c \in Actors : AwaitChild(a, c)) \/ Yield(a) \/ InitDone(a) \/ HookDone(a)
           \/ RepliesDone(a) \/ StopHookDone(a) \/ Abort(a)
           \/ \E shutdown \in Requests[a] : RequestShutdown(a, shutdown)
  <2>1. pc' = pc \/ \E step \in Steps \ {"clear"} : pc' = [pc EXCEPT ![a] = step]
    <3>1. CASE TakeExit(a)
      BY <1>1, <3>1 DEF TakeExit, Goto, Steps, Waits
    <3>2. CASE ~TakeExit(a)
      BY <1>1, <1>4, <3>2
      DEF Start, Poll, Serve, AskChildren, AllAwaited, Cleared, FrameDropped, Publish, SendExit,
          AwaitChild, Yield, InitDone, HookDone, RepliesDone, StopHookDone, Abort,
          RequestShutdown, taskVars, Goto, Steps, Waits
    <3> QED
      BY <3>1, <3>2
  <2>2. \A x \in Actors : children'[x] \subseteq children[x]
    BY <1>1, <1>4
    DEF Start, Poll, TakeExit, Reap, Serve, AskChildren, AllAwaited, Cleared, FrameDropped, Publish,
        SendExit, AwaitChild, Yield, InitDone, HookDone, RepliesDone, StopHookDone, Abort,
        RequestShutdown, setVars
  <2> QED
    BY <1>1, <2>1, <2>2
<1> QED
  BY <1>2, <1>3, <1>4 DEF Task, Runtime, UserCode

\* A late child stays one until it has exited.
LEMMA LateSteps ==
  ASSUME IInv, NEW a \in Actors,
         \/ Task(a) \/ Abort(a)
         \/ \E shutdown \in Requests[a] : RequestShutdown(a, shutdown)
  PROVE  \A c \in late : c \in late' \/ mode'[c] = "Exited"
<1>1. CASE Publish(a)
  BY <1>1 DEF Publish, IInv, TypeOK
<1>2. CASE ~Publish(a)
  BY <1>2 DEF Task, Runtime, UserCode, Start, Poll, Interrupt, TakeExit, Serve, AskChildren,
     AllAwaited, Cleared, FrameDropped, SendExit, AwaitChild, Yield, UserPanics, InitDone, HookDone,
     RepliesDone, StopHookDone, OnShutdownPanics, Abort, RequestShutdown, SpawnChild
<1> QED
  BY <1>1, <1>2

\* Parents are given at birth, and statuses at the end.
LEMMA TreeSteps ==
  ASSUME IInv, NEW a \in Actors,
         \/ Task(a) \/ Abort(a)
         \/ \E shutdown \in Requests[a] : RequestShutdown(a, shutdown)
  PROVE  /\ \A x \in Actors : Born(x) => Born(x)'
         /\ parent' = parent \/ \E c \in Actors : SpawnChild(a, c)
         /\ UNCHANGED <<exit, subtree>> \/ Publish(a)
<1>1. pc \in [Actors -> Steps]
  BY DEF IInv, TypeOK
<1>2. pc' = pc \/ \E x \in Actors, step \in Steps \ {"unborn"} : pc' = [pc EXCEPT ![x] = step]
  <2>1. CASE TakeExit(a)
    <3>1. pc[a] # "unborn"
      BY <2>1 DEF TakeExit
    <3> QED
      BY <1>1, <2>1, <3>1 DEF TakeExit, Goto, Steps, Waits
  <2>2. CASE \E c \in Fresh : SpawnChild(a, c)
    BY <2>2, FreshUnborn DEF SpawnChild, Goto, Steps, Waits
  <2>3. CASE ~TakeExit(a) /\ ~\E c \in Fresh : SpawnChild(a, c)
    BY <2>3 DEF Task, Runtime, UserCode, Start, Poll, Interrupt, Serve, AskChildren, AllAwaited,
       Publish, SendExit, AwaitChild, Yield, UserPanics, InitDone, HookDone, RepliesDone,
       StopHookDone, OnShutdownPanics, Cleared, FrameDropped, Abort, RequestShutdown, Teardown,
       DropWork, Goto, taskVars, Steps, Waits
  <2> QED
    BY <2>1, <2>2, <2>3
<1>3. \A x \in Actors : Born(x) => Born(x)'
  BY <1>1, <1>2 DEF Born
<1>4. parent' = parent \/ \E c \in Fresh : SpawnChild(a, c)
  BY DEF Task, Runtime, UserCode, Start, Poll, Interrupt, TakeExit, Serve, AskChildren, AllAwaited,
     Publish, SendExit, AwaitChild, Yield, UserPanics, InitDone, HookDone, RepliesDone, StopHookDone,
     OnShutdownPanics, Cleared, FrameDropped, Abort, RequestShutdown
<1>5. UNCHANGED <<exit, subtree>> \/ Publish(a)
  BY DEF Task, Runtime, UserCode, Start, Poll, Interrupt, TakeExit, Serve, AskChildren, AllAwaited,
     SendExit, AwaitChild, Yield, UserPanics, InitDone, HookDone, RepliesDone, StopHookDone,
     OnShutdownPanics, Cleared, FrameDropped, Abort, RequestShutdown, SpawnChild, gateVars
<1> QED
  BY <1>3, <1>4, <1>5, FreshUnborn

LEMMA TreeKept ==
  ASSUME IInv, IInv', TreeInv, NEW a \in Actors,
         \/ Task(a) \/ Abort(a)
         \/ \E shutdown \in Requests[a] : RequestShutdown(a, shutdown)
  PROVE  TreeInv'
<1>1. TypeOK /\ \A x \in Actors : InStep(x) /\ Owned(x) /\ Reasoned(x)
  BY DEF IInv
<1>2. \A x \in Actors : Grounded(x) /\ Downwards(x) /\ Lost(x)
  BY DEF TreeInv
<1>3. ASSUME NEW c \in Actors, SpawnChild(a, c)
      PROVE  Born(a) /\ ~Born(c) /\ parent' = [parent EXCEPT ![c] = a] /\ Born(c)'
             /\ parent[c] = Nobody /\ Nobody \notin Actors
             /\ UNCHANGED <<exit, subtree>>
  BY <1>1, <1>2, <1>3, ScopeWhere, SupervisionAssumption
  DEF Scoped, SpawnChild, Goto, Born, InStep, Grounded, TypeOK, gateVars
<1> SUFFICES ASSUME NEW x \in Actors PROVE Grounded(x)' /\ Downwards(x)' /\ Lost(x)'
  BY DEF TreeInv
<1>4. Grounded(x)'
  <2>1. CASE parent' = parent
    BY <1>2, <2>1, TreeSteps DEF Grounded
  <2>2. ASSUME NEW c \in Actors, SpawnChild(a, c) PROVE Grounded(x)'
    <3>1. ASSUME ~Born(x)' PROVE x # c /\ x # a /\ ~Born(x)
      BY <1>3, <2>2, <3>1, TreeSteps
    <3> QED
      BY <1>1, <1>2, <1>3, <2>2, <3>1 DEF Grounded, TypeOK
  <2> QED
    BY <2>1, <2>2, TreeSteps
<1>5. /\ Promise!Descendants(x) \subseteq Promise!Descendants(x)'
      /\ x \notin Promise!Descendants(x)'
  <2>1. CASE parent' = parent
    BY <1>2, <2>1 DEF Downwards, Promise!Descendants, Promise!Children
  <2>2. ASSUME NEW c \in Actors, SpawnChild(a, c)
        PROVE  /\ Promise!Descendants(x) \subseteq Promise!Descendants(x)'
               /\ x \notin Promise!Descendants(x)'
    BY <1>1, <1>2, <1>3, <2>2, BirthBelow DEF Downwards
  <2> QED
    BY <2>1, <2>2, TreeSteps
<1>6. \A c \in Actors : c \notin late' => c \notin late \/ mode'[c] = "Exited"
  BY LateSteps
<1>7. ASSUME NEW c \in waiting'[x]
      PROVE  /\ parent'[c] = x
             /\ c \notin late' =>
                  /\ mode'[c] # "Running"
                  /\ pc'[x] = "teardown" => mode'[c] \in Hard \cup {"Exited"}
  <2>1. CASE waiting'[x] \subseteq waiting[x] /\ (pc'[x] = "teardown" => pc[x] = "teardown")
    <3>1. c \in waiting[x] /\ c \in Actors
      BY <1>1, <1>7, <2>1 DEF TypeOK
    <3>2. /\ parent[c] = x
          /\ c \notin late =>
               /\ mode[c] # "Running"
               /\ pc[x] = "teardown" => mode[c] \in Hard \cup {"Exited"}
      BY <1>2, <3>1 DEF Downwards
    <3>3. parent'[c] = x
      <4>1. ASSUME NEW b \in Actors, SpawnChild(a, b) PROVE b # c
        BY <1>3, <3>2, <4>1
      <4>2. ASSUME NEW b \in Actors, SpawnChild(a, b) PROVE parent'[c] = x
        BY <1>1, <1>3, <3>1, <3>2, <4>1, <4>2 DEF TypeOK
      <4> QED
        BY <3>2, <4>2, TreeSteps
    <3> QED
      BY <1>6, <2>1, <3>1, <3>2, <3>3, ModesForward DEF Hard
  <2>2. CASE Cleared(x)
    <3>1. /\ pc[x] = "clear" /\ c \in children[x] /\ c \in Actors
          /\ UNCHANGED <<mode, parent, late>>
      BY <1>1, <1>7, <2>2 DEF Cleared, TypeOK, gateVars
    <3>2. parent[c] = x /\ (c \notin late => mode[c] \in Hard \cup {"Exited"})
      BY <1>1, <1>2, <3>1 DEF Downwards, Owned
    <3> QED
      BY <3>1, <3>2 DEF Hard
  <2>3. CASE /\ waiting'[x] = children[x] /\ parent' = parent
             /\ \A y \in children[x] :
                  /\ mode'[y] # "Running"
                  /\ pc'[x] = "teardown" => mode'[y] \in Hard \cup {"Exited"}
    BY <1>1, <1>7, <2>3 DEF Owned
  <2> QED
    BY <2>1, <2>2, <2>3, WaitSteps
<1>8. ASSUME pc'[x] = "clear", NEW c \in children'[x], c \notin late'
      PROVE  mode'[c] \in Hard \cup {"Exited"}
  <2>1. CASE pc[x] = "clear" /\ c \in children[x]
    <3>1. c \in Actors /\ (c \notin late => mode[c] \in Hard \cup {"Exited"})
      BY <1>1, <1>2, <2>1 DEF Downwards, TypeOK
    <3> QED
      BY <1>6, <1>8, <3>1, ModesForward
  <2> QED
    BY <1>8, <2>1, ClearSteps
<1>9. Downwards(x)'
  BY <1>5, <1>7, <1>8 DEF Downwards
<1>10. Lost(x)'
  <2> SUFFICES ASSUME subtree'[x] = "Unconfirmed"
               PROVE  \E d \in {x} \cup Promise!Descendants(x)' : exit'[d] = "Aborted"
    BY DEF Lost
  <2>1. CASE UNCHANGED <<exit, subtree>>
    BY <1>2, <1>5, <2>1 DEF Lost
  <2>2. CASE Publish(a)
    <3>1. /\ exit[a] = NoReason /\ pc[a] = "ended" /\ parent' = parent
          /\ \E reason : /\ exit' = [exit EXCEPT ![a] = reason]
                         /\ subtree' = [subtree EXCEPT ![a] = StatusOf(a, reason)]
      BY <1>1, <2>2 DEF Publish, InStep
    <3>2. \A d \in Actors : exit[d] = "Aborted" => exit'[d] = "Aborted"
      BY <1>1, <3>1 DEF TypeOK, NoReason
    <3>3. Promise!Descendants(x) \subseteq Actors
      BY DEF Promise!Descendants
    <3>4. CASE x # a
      <4>1. subtree[x] = "Unconfirmed"
        BY <1>1, <3>1, <3>4 DEF TypeOK
      <4> QED
        BY <1>2, <1>5, <3>2, <3>3, <4>1 DEF Lost
    <3>5. CASE x = a /\ exit'[a] = "Aborted"
      BY <3>5
    <3>6. CASE x = a /\ exit'[a] # "Aborted"
      <4>1. sticky[a] = "Unconfirmed"
        BY <1>1, <3>1, <3>6 DEF StatusOf, TypeOK
      <4>2. PICK c \in Actors : parent[c] = a /\ subtree[c] = "Unconfirmed"
        BY <1>1, <4>1 DEF Reasoned
      <4>3. PICK d \in {c} \cup Promise!Descendants(c) : exit[d] = "Aborted"
        BY <1>2, <4>2 DEF Lost
      <4>4. d \in Promise!Descendants(a)
        BY <4>2, <4>3, BelowChild
      <4> QED
        BY <1>5, <3>2, <3>3, <3>6, <4>3, <4>4
    <3> QED
      BY <3>4, <3>5, <3>6
  <2> QED
    BY <2>1, <2>2, TreeSteps
<1> QED
  BY <1>4, <1>9, <1>10

LEMMA TreeInvariant == Safe => []TreeInv
<1>1. Init => TreeInv
  <2> SUFFICES ASSUME Init, NEW a \in Actors PROVE Grounded(a) /\ Downwards(a) /\ Lost(a)
    BY DEF TreeInv
  <2>1. \A c \in Actors : parent[c] = Nobody /\ parent[c] # a
    BY SupervisionAssumption DEF Init
  <2>2. Promise!Children(a) = {}
    BY <2>1 DEF Promise!Children
  <2>3. a \notin Promise!Descendants(a)
    BY <2>2 DEF Promise!Descendants
  <2> QED
    BY <2>1, <2>3 DEF Init, Grounded, Downwards, Lost
<1>2. IInv /\ IInv' /\ TreeInv /\ [Next]_vars => TreeInv'
  <2> SUFFICES ASSUME IInv, IInv', TreeInv, [Next]_vars PROVE TreeInv'
    OBVIOUS
  <2>1. CASE UNCHANGED vars
    BY <2>1 DEF vars, gateVars, setVars, taskVars, TreeInv, Grounded, Downwards, Lost, Born,
       Promise!Descendants, Promise!Children
  <2> QED
    BY <2>1, TreeKept DEF Next
<1> QED
  BY <1>1, <1>2, Invariance, PTL DEF Safe

\* A subtree is Unconfirmed only because some actor of it was aborted itself.
THEOREM LossesTraced == Safe => []LostOnlyByAbort
<1>1. TreeInv => LostOnlyByAbort
  BY DEF TreeInv, Lost, LostOnlyByAbort
<1> QED
  BY <1>1, TreeInvariant, PTL

\* Waits follow the tree, which has no cycles, and every awaited child has been
\* told to go, but for those that a destructor spawned after the request.
THEOREM NoWaitCycle == Safe => []WaitsDownwards
<1>1. TreeInv => WaitsDownwards
  BY DEF TreeInv, Downwards, WaitsDownwards
<1> QED
  BY <1>1, TreeInvariant, PTL
=============================================================================
