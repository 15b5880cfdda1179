---------------------------- MODULE DeadlineGuard ----------------------------
(***************************************************************************)
(* deadline_guard of grapharc/runtime/budget.py, in its thread form        *)
(* (mechanism 2): one pooled thread runs node after node, each under a     *)
(* guard of its own; timer threads queue an asynchronous exception in it   *)
(* once the node's deadline has passed, again and again, until the guard   *)
(* is torn down.                                                           *)
(*                                                                         *)
(* CPython is external: a queued exception is raised in the pooled thread  *)
(* at whatever bytecode boundary it reaches next, which is any of its      *)
(* steps here but a blocked lock acquisition.                              *)
(***************************************************************************)
EXTENDS Naturals

CONSTANTS
  MaxGuards,   \* bound: nodes the thread runs
  Attempts,    \* _DISARM_ATTEMPTS
  Swallows     \* may a node catch the interrupt and go on?

ASSUME GuardAssumption ==
  /\ MaxGuards \in Nat \ {0} /\ Attempts \in Nat \ {0} /\ Swallows \in BOOLEAN

Guard == 1..MaxGuards

(* A guard has two timers alive at most: the one whose fire() is re-arming, *)
(* and the one it starts, which waits for the first to release the lock.    *)
TimerId == {1, 2}

VARIABLES
  pc,       \* where the pooled thread is
  cur,      \* its latest guard
  state,    \* guard -> its `state` dict, its lock, and whether its deadline is past
  timer,    \* guard -> timer -> where that thread is
  slot,     \* the guard whose exception is queued in the pooled thread, or 0
  attempt,  \* interrupted attempts at the current teardown
  raising,  \* is a NodeDeadlineExceeded on its way out of the current guard?
  landed,   \* guards whose node returned its writes
  torn      \* ghost: guards whose teardown ran to its end

vars == <<pc, cur, state, timer, slot, attempt, raising, landed, torn>>

Mine == state[cur]

(***************************************************************************)
(* fire(), on a timer thread.                                              *)
(***************************************************************************)
Move(g, i, step) == timer' = [timer EXCEPT ![g][i] = step]

(* The deadline of a node that is still guarded passes.                     *)
DeadlinePasses(g) ==
  /\ g <= cur
  /\ ~state[g].late
  /\ state' = [state EXCEPT ![g].late = TRUE]
  /\ UNCHANGED <<pc, cur, timer, slot, attempt, raising, landed, torn>>

TimerElapses(g, i) ==
  /\ timer[g][i] = "waiting"
  /\ state[g].late
  /\ Move(g, i, "firing")
  /\ UNCHANGED <<pc, cur, state, slot, attempt, raising, landed, torn>>

(* Mutant: armed is read and the exception queued without the lock.         *)
FireLocks_Lockless(g, i) ==
  /\ timer[g][i] = "firing"
  /\ Move(g, i, "locked")
  /\ UNCHANGED <<pc, cur, state, slot, attempt, raising, landed, torn>>

FireLocks(g, i) ==
  /\ timer[g][i] = "firing"
  /\ state[g].lock = "free"
  /\ state' = [state EXCEPT ![g].lock = "timer"]
  /\ Move(g, i, "locked")
  /\ UNCHANGED <<pc, cur, slot, attempt, raising, landed, torn>>

FireDisarmed(g, i) ==
  /\ timer[g][i] = "locked"
  /\ ~state[g].armed
  /\ state' = [state EXCEPT ![g].lock = "free"]
  /\ Move(g, i, "dead")
  /\ UNCHANGED <<pc, cur, slot, attempt, raising, landed, torn>>

(* armed is looked at before anything is queued.                            *)
FireArmed(g, i) ==
  /\ timer[g][i] = "locked"
  /\ state[g].armed
  /\ state' = [state EXCEPT ![g].fired = TRUE]
  /\ Move(g, i, "raising")
  /\ UNCHANGED <<pc, cur, slot, attempt, raising, landed, torn>>

(* PyThreadState_SetAsyncExc: a thread has one slot.                        *)
FireRaises(g, i) ==
  /\ timer[g][i] = "raising"
  /\ slot' = g
  /\ Move(g, i, "rearming")
  /\ UNCHANGED <<pc, cur, state, attempt, raising, landed, torn>>

(* Mutant: the interrupt is queued once.                                    *)
FireRearms_Once(g, i) ==
  /\ timer[g][i] = "rearming"
  /\ Move(g, i, "dead")
  /\ state' = [state EXCEPT ![g].lock = "free"]
  /\ UNCHANGED <<pc, cur, slot, attempt, raising, landed, torn>>

FireRearms(g, i) ==
  /\ timer[g][i] = "rearming"
  /\ timer' = [timer EXCEPT ![g] = [j \in TimerId |-> IF j = i THEN "dead" ELSE "waiting"]]
  /\ state' = [state EXCEPT ![g] = [@ EXCEPT !.lock = "free", !.timer = 3 - i]]
  /\ UNCHANGED <<pc, cur, slot, attempt, raising, landed, torn>>

(***************************************************************************)
(* The guarded thread.                                                     *)
(***************************************************************************)
Goto(step) == pc' = step

(* Nothing but the thread's place changes, and what is named.               *)
Local(step) == Goto(step) /\ UNCHANGED <<cur, timer, slot, landed, torn>>

(* A run whose deadline is already past is refused before this.             *)
Arm ==
  /\ pc = "free"
  /\ cur < MaxGuards
  /\ cur' = cur + 1
  /\ timer' = [timer EXCEPT ![cur + 1][1] = "waiting"]
  /\ state' = [state EXCEPT ![cur + 1].armed = TRUE]
  /\ attempt' = 0
  /\ raising' = FALSE
  /\ Goto("armed")
  /\ UNCHANGED <<slot, landed, torn>>

BeginBody ==
  /\ pc = "armed"
  /\ Local("body")
  /\ UNCHANGED <<state, attempt, raising>>

(* The node returns.                                                        *)
EndBody ==
  /\ pc = "body"
  /\ Local("teardown")
  /\ UNCHANGED <<state, attempt, raising>>

BeginAttempt ==
  /\ pc = "teardown"
  /\ attempt < Attempts
  /\ Local("acquire")
  /\ UNCHANGED <<state, attempt, raising>>

Acquire ==
  /\ pc = "acquire"
  /\ Mine.lock = "free"
  /\ state' = [state EXCEPT ![cur].lock = "owner"]
  /\ Local("held")
  /\ UNCHANGED <<attempt, raising>>

Disarm(from, to) ==
  /\ pc = from
  /\ state' = [state EXCEPT ![cur].armed = FALSE]
  /\ Local(to)
  /\ UNCHANGED <<attempt, raising>>

(* Timer.cancel(): too late for one whose fire() has begun.                 *)
Cancel(from, to) ==
  /\ pc = from
  /\ timer' = [timer EXCEPT ![cur][Mine.timer] = IF @ = "waiting" THEN "dead" ELSE @]
  /\ Goto(to)
  /\ UNCHANGED <<cur, state, slot, attempt, raising, landed, torn>>

Clear ==
  /\ pc = "clear"
  /\ slot' = IF Mine.fired THEN 0 ELSE slot
  /\ Goto("release")
  /\ UNCHANGED <<cur, state, timer, attempt, raising, landed, torn>>

Release ==
  /\ pc = "release"
  /\ state' = [state EXCEPT ![cur].lock = "free"]
  /\ torn' = torn \cup {cur}
  /\ Goto("exit")
  /\ UNCHANGED <<cur, timer, slot, attempt, raising, landed>>

(* Every attempt was interrupted: the last resort, outside the lock.        *)
GiveUp ==
  /\ pc = "teardown"
  /\ attempt = Attempts
  /\ Local("last_disarm")
  /\ UNCHANGED <<state, attempt, raising>>

LastClear ==
  /\ pc = "last_clear"
  /\ slot' = 0
  /\ Goto("exit")
  /\ UNCHANGED <<cur, state, timer, attempt, raising, landed, torn>>

(* The node's writes land unless the guard raises.                          *)
Exit ==
  /\ pc = "exit"
  /\ landed' = IF raising \/ Mine.fired \/ Mine.late THEN landed ELSE landed \cup {cur}
  /\ Goto("free")
  /\ UNCHANGED <<cur, state, timer, slot, attempt, raising, torn>>

(***************************************************************************)
(* The queued exception is raised.                                         *)
(***************************************************************************)
(* Where an exception leaves the guard, whatever of it is still armed: the  *)
(* arming, the call of disarm(), its loop head and its last resort are      *)
(* outside every try of the guard.                                          *)
Exposed == {"armed", "teardown", "last_disarm", "last_cancel", "last_clear", "exit"}

InTry == {"held", "cancel", "clear"}

Deliver(step) ==
  /\ slot # 0
  /\ slot' = 0
  /\ Goto(step)
  /\ UNCHANGED <<cur, timer, landed, torn>>

DeliverInBody ==
  /\ pc = "body"
  /\ \/ Deliver("teardown") /\ raising' = TRUE
     \/ Swallows /\ Deliver("body") /\ UNCHANGED raising
  /\ UNCHANGED <<state, attempt>>

(* Caught by the teardown's own except: an interrupt here is the deadline.  *)
DeliverInTry ==
  /\ pc \in InTry
  /\ Deliver("teardown")
  /\ state' = [state EXCEPT ![cur] = [@ EXCEPT !.lock = "free", !.fired = TRUE]]
  /\ attempt' = attempt + 1
  /\ UNCHANGED raising

DeliverExposed ==
  /\ pc \in Exposed
  /\ Deliver("free")
  /\ raising' = TRUE
  /\ UNCHANGED <<state, attempt>>

(* An interrupt in whatever the thread runs next.                           *)
DeliverStray ==
  /\ pc = "free"
  /\ Deliver("free")
  /\ UNCHANGED <<state, attempt, raising>>

Init ==
  /\ pc = "free"
  /\ cur = 0
  /\ state = [g \in Guard |-> [armed |-> FALSE, fired |-> FALSE, late |-> FALSE,
                               lock |-> "free", timer |-> 1]]
  /\ timer = [g \in Guard |-> [i \in TimerId |-> "dead"]]
  /\ slot = 0
  /\ attempt = 0
  /\ raising = FALSE
  /\ landed = {}
  /\ torn = {}

Fire(g, i) ==
  \/ TimerElapses(g, i) \/ FireLocks(g, i) \/ FireDisarmed(g, i)
  \/ FireArmed(g, i) \/ FireRaises(g, i) \/ FireRearms(g, i)

Teardown ==
  \/ BeginAttempt \/ Acquire \/ Disarm("held", "cancel") \/ Cancel("cancel", "clear")
  \/ Clear \/ Release
  \/ GiveUp \/ Disarm("last_disarm", "last_cancel") \/ Cancel("last_cancel", "last_clear")
  \/ LastClear \/ Exit

Interrupted == DeliverInBody \/ DeliverInTry \/ DeliverExposed \/ DeliverStray

Next ==
  \/ \E g \in Guard : DeadlinePasses(g) \/ \E i \in TimerId : Fire(g, i)
  \/ Arm \/ BeginBody \/ EndBody \/ Teardown \/ Interrupted

Spec == Init /\ [][Next]_vars

(* Time passes, timer threads are scheduled; a node may run for ever.       *)
FairSpec ==
  /\ Spec
  /\ \A g \in Guard : WF_vars(DeadlinePasses(g))
  /\ \A g \in Guard, i \in TimerId : WF_vars(Fire(g, i))
  /\ WF_vars(Teardown \/ Interrupted)

(***************************************************************************)
(* Properties.                                                             *)
(***************************************************************************)
(* The values the variables range over.                                     *)
TypeOK ==
  /\ pc \in {"free", "armed", "body", "acquire", "release"}
              \cup Exposed \cup InTry
  /\ cur \in 0..MaxGuards
  /\ state \in [Guard -> [armed : BOOLEAN, fired : BOOLEAN, late : BOOLEAN,
                          lock : {"free", "owner", "timer"}, timer : TimerId]]
  /\ timer \in [Guard -> [TimerId -> {"dead", "waiting", "firing", "locked",
                                      "raising", "rearming"}]]
  /\ slot \in 0..MaxGuards
  /\ attempt \in 0..Attempts
  /\ raising \in BOOLEAN
  /\ landed \subseteq Guard
  /\ torn \subseteq Guard

(* A guard that has disarmed can never be handed a late exception to leak   *)
(* into the next node scheduled on the thread: once a teardown ran to its   *)
(* end, its guard's exception is not queued and no fire() of it will queue  *)
(* one.                                                                     *)
TornDownIsQuiet ==
  \A g \in torn :
    /\ slot # g
    /\ ~state[g].armed
    /\ \A i \in TimerId : timer[g][i] \notin {"raising", "rearming"}

(* Swallowing the interrupt buys a node one scheduling quantum: past the    *)
(* deadline, another interrupt is always on its way.                        *)
SwallowedIsFollowed ==
  \A g \in Guard : (pc = "body" /\ cur = g /\ state[g].late) ~> (pc # "body" \/ slot = g)
=============================================================================
