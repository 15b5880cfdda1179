-------------------------------- MODULE ToolRun --------------------------------
(***************************************************************************)
(* One tool call, from the executor that starts a process for it to the    *)
(* answer: the forked child of SandboxedExecutor (harness/executor.py), the*)
(* container of ContainerExecutor (harness/container.py), and the command  *)
(* run_command starts (tools/shell.py). A call that takes too long is ended*)
(* by its caller while what it started goes on.                            *)
(***************************************************************************)
EXTENDS Naturals, Sequences

CONSTANT MaxLines  \* envelopes on a container's output (bound)

ASSUME ToolAssumption == MaxLines \in Nat \ {0}

VARIABLES
  how,     \* what runs the tool: sandbox, container or command
  waiter,  \* waits, kills, removes, reaps or returned
  answer,  \* what the caller returned or raised
  tool,    \* what was started: absent, started, working, answered or dead
  group,   \* a process it started, in its process group, is alive
  stray,   \* one that left the group is alive, and holds the output open
  output,  \* what was written to the pipe, or the result lines of a container
  printed, \* a command printed something
  failed   \* the runtime's kill and rm that did not work

toolVars == <<how, waiter, answer, tool, group, stray, output, printed, failed>>

ToolInit ==
  /\ how \in {"sandbox", "container", "command"}
  /\ waiter = "waits" /\ answer = "none" /\ failed = 0 /\ printed = FALSE
  /\ tool = IF how = "sandbox" THEN "started" ELSE "absent"
  /\ group = FALSE /\ stray = FALSE /\ output = <<>>

Runs(by) == how = by /\ tool = "working"
Waits(by) == how = by /\ waiter = "waits"
Becomes(t) == tool' = t /\ UNCHANGED <<how, waiter, answer, group, stray, output, printed, failed>>
Answers(a) == waiter' = "returned" /\ answer' = a

(***************************************************************************)
(* SandboxedExecutor. The child makes a group of its own, sends one        *)
(* message, and exits when its threads do.                                 *)
(***************************************************************************)
SetsUp == how = "sandbox" /\ tool = "started" /\ Becomes("working")

Sends(kind) ==
  /\ Runs("sandbox")
  /\ tool' = "answered" /\ output' = Append(output, kind)
  /\ UNCHANGED <<how, waiter, answer, group, stray, printed, failed>>

Exits == how = "sandbox" /\ tool \in {"started", "working", "answered"} /\ Becomes("dead")

(* poll is true at the end of the pipe as well as on a message.             *)
Receives ==
  /\ Waits("sandbox") /\ (output # <<>> \/ tool = "dead")
  /\ Answers(IF output = <<>> THEN "died" ELSE output[1])
  /\ UNCHANGED <<how, tool, group, stray, output, printed, failed>>

(* _kill: SIGTERM, which a tool may handle, then SIGKILL.                   *)
Terminates ==
  /\ Waits("sandbox") /\ output = <<>> /\ tool # "dead"
  /\ waiter' = "kills" /\ tool' \in {tool, "dead"}
  /\ UNCHANGED <<how, answer, group, stray, output, printed, failed>>

(* Mutant: a child that handles SIGTERM is left alone.                      *)
Survivor_Joined == tool

Survivor == "dead"

Kills ==
  /\ how = "sandbox" /\ waiter = "kills"
  /\ tool' = Survivor /\ Answers("timeout")
  /\ UNCHANGED <<how, group, stray, output, printed, failed>>

(***************************************************************************)
(* ContainerExecutor. The runtime is another process: killing the client   *)
(* does not stop the container, nor keep one from being created.           *)
(***************************************************************************)
(* No name to import, arguments that are no JSON, or no runtime.            *)
CannotRun ==
  /\ Waits("container") /\ tool = "absent" /\ Answers("refused")
  /\ UNCHANGED <<how, tool, group, stray, output, printed, failed>>

(* The client is gone once its call was given up, its request may not be.   *)
Creates ==
  /\ how = "container" /\ tool = "absent" /\ answer # "refused"
  /\ Becomes("working")

(* The bootstrap writes one line; the tool, in its address space, any.      *)
Prints(line) ==
  /\ Runs("container") /\ Len(output) < MaxLines
  /\ output' = Append(output, line)
  /\ UNCHANGED <<how, waiter, answer, tool, group, stray, printed, failed>>

Stops == Runs("container") /\ Becomes("dead")

(* parse_envelope. Mutant: the last line that is one is the answer.         *)
Whole(lines) == {i \in DOMAIN lines : lines[i] # "torn"}

Envelope_Last(lines) ==
  IF Whole(lines) = {} THEN "missing"
  ELSE lines[CHOOSE i \in Whole(lines) : \A j \in Whole(lines) : j <= i]

Envelope(lines) ==
  CASE Len(lines) \notin Whole(lines) -> "missing"
    [] Len(lines) \in Whole(lines) /\ Whole(lines) # {Len(lines)} -> "violation"
    [] OTHER -> lines[Len(lines)]

(* _unwrap and _missing_envelope_error: a container that was killed broke a *)
(* limit, one that wrote nothing has no Python.                             *)
Unwrapped(line) ==
  CASE line \in {"ok", "error"} -> {line}
    [] line = "missing" -> {"violation", "error"}
    [] OTHER -> {"violation"}

Unwraps ==
  /\ Waits("container") /\ tool = "dead"
  /\ \E a \in Unwrapped(Envelope(output)) : Answers(a)
  /\ UNCHANGED <<how, tool, group, stray, output, printed, failed>>

GivesUp ==
  /\ Waits("container") /\ tool # "dead"
  /\ waiter' = "kills"
  /\ UNCHANGED <<how, answer, tool, group, stray, output, printed, failed>>

(* kill, then rm --force; neither may mask the timeout.                     *)
Tries ==
  \/ tool = "working" /\ tool' = "dead" /\ UNCHANGED failed
  \/ failed' = failed + 1 /\ UNCHANGED tool

KillsContainer ==
  /\ how = "container" /\ waiter = "kills" /\ Tries /\ waiter' = "removes"
  /\ UNCHANGED <<how, answer, group, stray, output, printed>>

RemovesContainer ==
  /\ how = "container" /\ waiter = "removes" /\ Answers("timeout") /\ Tries
  /\ UNCHANGED <<how, group, stray, output, printed>>

(***************************************************************************)
(* run_command: communicate returns when nobody holds the output open.     *)
(***************************************************************************)
Begins == how = "command" /\ tool = "absent" /\ waiter = "waits" /\ Becomes("working")

CannotBegin ==
  /\ Waits("command") /\ tool = "absent" /\ Answers("refused")
  /\ UNCHANGED <<how, tool, group, stray, output, printed, failed>>

Writes ==
  /\ Runs("command") /\ printed' = TRUE
  /\ UNCHANGED <<how, waiter, answer, tool, group, stray, output, failed>>

Forks ==
  /\ Runs("command")
  /\ \/ group' = TRUE /\ UNCHANGED stray
     \/ stray' = TRUE /\ UNCHANGED group
  /\ UNCHANGED <<how, waiter, answer, tool, output, printed, failed>>

Finishes == Runs("command") /\ Becomes("dead")

ChildFinishes ==
  /\ how = "command"
  /\ \/ group /\ group' = FALSE /\ UNCHANGED stray
     \/ stray /\ stray' = FALSE /\ UNCHANGED group
  /\ UNCHANGED <<how, waiter, answer, tool, output, printed, failed>>

Closed == tool = "dead" /\ ~group /\ ~stray

Collects ==
  /\ Waits("command") /\ Closed /\ Answers("ok")
  /\ UNCHANGED <<how, tool, group, stray, output, printed, failed>>

(* _kill_group. Mutant: the child alone.                                    *)
GroupKept_Child == group

GroupKept == FALSE

Expires ==
  /\ Waits("command") /\ tool # "absent" /\ ~Closed
  /\ tool' = "dead" /\ group' = GroupKept /\ waiter' = "reaps"
  /\ UNCHANGED <<how, answer, stray, output, printed, failed>>

(* The second communicate has a deadline of its own: a process that is not  *)
(* in the group may hold the output for ever. Mutant: it has none.          *)
Reaped_Closed == Closed

Reaped == TRUE

Reaps ==
  /\ how = "command" /\ waiter = "reaps" /\ Reaped
  /\ Answers(IF Closed THEN "timeout" ELSE "lost")
  /\ UNCHANGED <<how, tool, group, stray, output, printed, failed>>

Caller ==
  \/ Receives \/ Terminates \/ Kills
  \/ CannotRun \/ Unwraps \/ GivesUp \/ KillsContainer \/ RemovesContainer
  \/ Begins \/ CannotBegin \/ Collects \/ Expires \/ Reaps

ToolNext ==
  \/ Caller
  \/ SetsUp \/ Exits \/ Creates \/ Stops
  \/ (\E kind \in {"ok", "error", "violation"} : Sends(kind))
  \/ (\E line \in {"ok", "error", "resolve_error", "torn"} : Prints(line))
  \/ Writes \/ Forks \/ Finishes \/ ChildFinishes

(* A tool may hang and its processes too: only the caller's clock is fair.  *)
ToolSpec == ToolInit /\ [][ToolNext]_toolVars /\ WF_toolVars(Caller)

ToolTypeOK ==
  /\ waiter \in {"waits", "kills", "removes", "reaps", "returned"}
  /\ tool \in {"absent", "started", "working", "answered", "dead"}
  /\ failed \in 0..2 /\ Len(output) <= MaxLines
  /\ waiter = "returned" <=> answer # "none"

(***************************************************************************)
(* Properties.                                                             *)
(***************************************************************************)
(* Every call returns, whatever its tool does: a process that holds the    *)
(* output of a command that was killed holds nobody up.                    *)
CallsReturn == <>(waiter = "returned")

(* What a call that timed out started is over: the child, though it handles *)
(* SIGTERM; the command with all its process group; the container, unless   *)
(* kill and rm both failed.                                                 *)
TimeoutEndsIt ==
  answer \in {"timeout", "lost"} =>
    /\ ~group
    /\ tool = "dead" \/ (how = "container" /\ failed = 2)

(* A result is the one result there was: of a container that wrote two, or  *)
(* whose last is torn, none is believed.                                    *)
OneResult ==
  how = "container" /\ answer = "ok" => Whole(output) = {Len(output)} /\ output[Len(output)] = "ok"

(* What a call leaves behind is neither a process nor a wrong answer.       *)
CallsEndClean == ToolTypeOK /\ TimeoutEndsIt /\ OneResult

(* Said in the repository and refuted by TLC; README.md tells each.         *)

(* Whatever a command printed before it was killed is still returned.       *)
OutputIsKept == printed => answer # "lost"
=============================================================================
