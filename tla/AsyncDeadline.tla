----------------------------- MODULE AsyncDeadline -----------------------------
(***************************************************************************)
(* runtime/graph.py's _async_deadline: max_seconds enforced on a coroutine *)
(* by cancelling its task, over and over, and handing the cancellations    *)
(* back on the way out. The caller may cancel the same task at any moment, *)
(* and a node may catch what is thrown into it.                            *)
(*                                                                         *)
(* asyncio is external: cancel() counts a request and makes the suspended  *)
(* task ready, with CancelledError to be thrown at its next step.          *)
(***************************************************************************)
EXTENDS Integers

CONSTANTS
  MaxFires,  \* times the timer fires (bound)
  MaxCancels \* times the caller cancels (bound)

VARIABLES
  at,       \* running, waiting (for a future), ready (to be resumed), out
  requests, \* Task.cancelling()
  thrown,   \* CancelledError is to be thrown at the next step
  fired,    \* cancellations this guard asked for
  armed,
  late,     \* the deadline has passed
  caller,   \* what the caller asked for while the node ran
  baseline, \* what it had asked for before
  outcome   \* how the node ended

asyncVars == <<at, requests, thrown, fired, armed, late, caller, baseline, outcome>>

AsyncInit ==
  /\ at = "running" /\ baseline \in 0..1 /\ requests = baseline
  /\ thrown = FALSE /\ fired = 0 /\ armed = TRUE /\ late = FALSE
  /\ caller = 0 /\ outcome = "none"

Awaits ==
  /\ at = "running" /\ at' = "waiting"
  /\ UNCHANGED <<requests, thrown, fired, armed, late, caller, baseline, outcome>>

FutureIsDone ==
  /\ at = "waiting" /\ at' = "ready"
  /\ UNCHANGED <<requests, thrown, fired, armed, late, caller, baseline, outcome>>

TimePasses ==
  /\ ~late /\ late' = TRUE
  /\ UNCHANGED <<at, requests, thrown, fired, armed, caller, baseline, outcome>>

(* The loop runs a callback or another coroutine while the task is          *)
(* suspended.                                                               *)
Cancelled == at' = "ready" /\ requests' = requests + 1 /\ thrown' = TRUE

(* fire, and its re-arming: it may come as often as it likes.               *)
TimerFires ==
  /\ at \in {"waiting", "ready"} /\ late /\ armed /\ fired < MaxFires
  /\ fired' = fired + 1 /\ Cancelled
  /\ UNCHANGED <<armed, late, caller, baseline, outcome>>

CallerCancels ==
  /\ at \in {"waiting", "ready"} /\ caller < MaxCancels
  /\ caller' = caller + 1 /\ Cancelled
  /\ UNCHANGED <<fired, armed, late, baseline, outcome>>

(* disarm: every cancellation of ours is retracted. Mutant: one is.         *)
Retracted_One == IF fired > 0 THEN requests - 1 ELSE requests

Retracted == requests - fired

(* Mutant: a cancellation is ours as soon as the timer has fired.           *)
WasOurs_Fired == fired > 0

WasOurs == fired > 0 /\ Retracted <= baseline

Leave(how) ==
  /\ at' = "out" /\ armed' = FALSE /\ requests' = Retracted /\ outcome' = how
  /\ UNCHANGED <<fired, late, caller, baseline>>

(* The task goes on: the node catches what is thrown, or lets it through.   *)
Resumes ==
  /\ at = "ready"
  /\ \/ /\ at' = "running" /\ thrown' = FALSE
        /\ UNCHANGED <<requests, fired, armed, late, caller, baseline, outcome>>
     \/ /\ thrown /\ thrown' = FALSE
        /\ Leave(IF WasOurs THEN "deadline thrown" ELSE "cancelled")

(* The node returns; what comes too late is refused, whether or not the     *)
(* timer ran.                                                               *)
TooLate == fired > 0 \/ late

Returns ==
  /\ at = "running"
  /\ Leave(IF TooLate THEN "deadline" ELSE "result") /\ UNCHANGED thrown

RaisesItsOwn == at = "running" /\ Leave("error") /\ UNCHANGED thrown

AsyncNext ==
  \/ Awaits \/ FutureIsDone \/ TimePasses \/ TimerFires \/ CallerCancels
  \/ Resumes \/ Returns \/ RaisesItsOwn

AsyncSpec == AsyncInit /\ [][AsyncNext]_asyncVars

(***************************************************************************)
(* Properties.                                                             *)
(***************************************************************************)
(* The caller's cancellations are the caller's: one it asked for leaves     *)
(* untouched, only ours become NodeDeadlineExceeded, and none of ours is    *)
(* left on the task for whatever it does next.                              *)
OursAreHandedBack ==
  at = "out" =>
    /\ requests = baseline + caller /\ ~thrown
    /\ outcome = "deadline thrown" => caller = 0
    /\ outcome = "cancelled" => caller > 0
=============================================================================
