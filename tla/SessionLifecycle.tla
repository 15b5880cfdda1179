-------------------------- MODULE SessionLifecycle --------------------------
(***************************************************************************)
(* What one row of the session store promises, whoever drives it: the      *)
(* status moves along the adjacency table of grapharc/session/store.py and *)
(* nowhere else, a session is claimed by one process, and while that       *)
(* process lives only it (or a terminate) ends the claim.                  *)
(*                                                                         *)
(* SessionRuntime, with the steps of Session.run, is shown to implement    *)
(* this module; SessionTable says the same of many sessions.               *)
(***************************************************************************)
EXTENDS SessionStatus

CONSTANTS
  Proc,      \* the processes (pids) that can drive or administer a session
  NoProc     \* "runner_pid IS NULL"

VARIABLES
  status,    \* sessions.status, or "absent" before the row is inserted
  runner,    \* sessions.runner_pid
  alive      \* the pids that name a live process on this host

vars == <<status, runner, alive>>

Init ==
  /\ status \in {"absent", "created"}
  /\ runner = NoProc
  /\ alive = Proc

Create ==
  /\ status = "absent"
  /\ status' = "created"
  /\ UNCHANGED <<runner, alive>>

Claim(p) ==
  /\ p \in alive
  /\ status \in Resumable
  /\ status' = "running"
  /\ runner' = p
  /\ UNCHANGED alive

(* Only the claimant, and only while it lives, settles its claim.           *)
Settle(p) ==
  /\ p \in alive
  /\ status = "running"
  /\ runner = p
  /\ status' \in Settled
  /\ runner' = NoProc
  /\ UNCHANGED alive

Terminate ==
  /\ status \in Status \ {"terminated"}
  /\ status' = "terminated"
  /\ runner' = NoProc
  /\ UNCHANGED alive

(* A claim is taken away only from a process that is gone.                  *)
Reclaim(q) ==
  /\ q \in alive
  /\ status = "running"
  /\ runner \in Proc \ alive
  /\ status' = "failed"
  /\ runner' = NoProc
  /\ UNCHANGED alive

Die(p) ==
  /\ p \in alive
  /\ alive' = alive \ {p}
  /\ UNCHANGED <<status, runner>>

(* A new process under a recycled pid.                                      *)
Respawn(p) ==
  /\ p \in Proc \ alive
  /\ alive' = alive \cup {p}
  /\ UNCHANGED <<status, runner>>

Next ==
  \/ Create
  \/ Terminate
  \/ \E p \in Proc : Claim(p) \/ Settle(p) \/ Reclaim(p) \/ Die(p) \/ Respawn(p)

Spec == Init /\ [][Next]_vars
=============================================================================
