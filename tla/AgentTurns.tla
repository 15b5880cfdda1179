----------------------------- MODULE AgentTurns -----------------------------
(***************************************************************************)
(* The agent nodes of one superstep, each on a thread of its own: the loop *)
(* of AgentNode.run (harness/agent.py) over Harness.call (harness/core.py) *)
(* with the executor default_harness wires (LocalExecutor, the tool runs   *)
(* in the node's thread), the PathLeases of the run, the file tools, and   *)
(* the bodies of registries/fix_issues.py that release the leases; a node  *)
(* on the Claude CLI hands its task to a child process instead.            *)
(*                                                                         *)
(* Once the run's deadline has passed its guard raises in a node's thread  *)
(* at any step, again and again until the node is out (DeadlineGuard.tla). *)
(* The model and the approver are external.                                *)
(***************************************************************************)
EXTENDS Naturals, Sequences, Harness

CONSTANTS
  Agent, Path,
  Kinds,          \* what the agents of a superstep may be, see `kind`
  MaxIterations, MaxStalled,
  MaxCalls,       \* bound: tool calls in one reply
  Documents,      \* the policy documents the run may be under
  Tenant, Handlers,
  None

ASSUME AgentAssumption ==
  /\ MaxCalls \in Nat /\ None \notin Agent \cup Path
  /\ \A d \in Documents : d.default \in {"deny", "allow"}
  /\ \A d \in Documents : \A r \in d.rules : r.effect \in {"deny", "ask", "allow"}

VARIABLES
  doc,       \* the policy document
  kind,      \* agent -> "fix_one", "verify_fixes", or "claude" for one on the CLI
  pc,        \* agent -> where its node is
  node,      \* agent -> its loop: iterations, stalled, progressed, seen, calls, reason
  approved,  \* agent -> was the call under way granted?
  buffer,    \* agent -> what edit_file read
  lease,     \* PathLeases._holders
  file,      \* path -> the edits in it, and whether it was truncated
  child,     \* agent -> the `claude` process it spawned
  late,      \* has the run's deadline passed?
  sure,      \* ghost: path -> the edits whose tool call returned
  torn,      \* ghost: paths whose writer was interrupted between truncation and write
  cut        \* ghost: agents interrupted while they released

vars == <<doc, kind, pc, node, approved, buffer, lease, file, child, late, sure, torn, cut>>

ReadTools == {"read_file", "grep"}
WriteTools == ReadTools \cup {"edit_file", "write_file"}
ToolsFor(a) == IF kind[a] = "fix_one" THEN WriteTools ELSE ReadTools
LeasedTools == {"write_file", "edit_file"}

(* What a reply may call: the tools of every kind, one nobody registered,   *)
(* and a call whose arguments are not valid JSON.                           *)
Call == [tool : {"read_file", "edit_file", "write_file", "run_command"}, path : Path]
Invalid == [tool |-> "invalid", path |-> None]

Fresh == [iterations |-> 0, stalled |-> 0, progressed |-> FALSE, seen |-> {},
          calls |-> <<>>, reason |-> ""]

Init ==
  /\ doc \in Documents /\ kind \in Kinds
  /\ pc = [a \in Agent |-> "idle"]
  /\ node = [a \in Agent |-> Fresh]
  /\ approved = [a \in Agent |-> FALSE]
  /\ buffer = [a \in Agent |-> {}]
  /\ lease = [p \in Path |-> None]
  /\ file = [p \in Path |-> [edits |-> {}, whole |-> TRUE]]
  /\ child = [a \in Agent |-> "none"]
  /\ late = FALSE
  /\ sure = [p \in Path |-> {}] /\ torn = {} /\ cut = {}

At(a, step) == pc[a] = step
Goto(a, step) == pc' = [pc EXCEPT ![a] = step]
Stop(a, why) == Goto(a, "release") /\ node' = [node EXCEPT ![a].reason = why]

Same == UNCHANGED <<doc, kind, late, child, sure, torn, cut>>
SameFiles == UNCHANGED <<lease, file>>

(***************************************************************************)
(* The loop of AgentNode.run.                                              *)
(***************************************************************************)
Start(a) ==
  /\ At(a, "idle")
  /\ Goto(a, IF kind[a] = "claude" THEN "delegate" ELSE "top")
  /\ Same /\ SameFiles /\ UNCHANGED <<node, approved, buffer>>

Top(a) ==
  /\ At(a, "top")
  /\ IF late THEN Stop(a, "budget_exhausted")
     ELSE IF node[a].iterations >= MaxIterations THEN Stop(a, "max_iterations")
     ELSE /\ Goto(a, "model")
          /\ node' = [node EXCEPT ![a].iterations = @ + 1, ![a].progressed = FALSE]
  /\ Same /\ SameFiles /\ UNCHANGED <<approved, buffer>>

(* The model raises, answers, or calls tools; invalid calls come last.      *)
Replies(a) ==
  /\ At(a, "model")
  /\ \/ Stop(a, "error")
     \/ Stop(a, "target_met")
     \/ \E n \in 0..MaxCalls : \E calls \in [1..n -> Call], invalid \in {<<>>, <<Invalid>>} :
          /\ n + Len(invalid) \in 1..MaxCalls
          /\ node' = [node EXCEPT ![a].calls = calls \o invalid]
          /\ Goto(a, "call")
  /\ Same /\ SameFiles /\ UNCHANGED <<approved, buffer>>

Now(a) == Head(node[a].calls)

(* Mutant: a call that did not return is tried again.                       *)
Record_Retries(a, ok, detail) ==
  /\ node' = IF ok THEN [node EXCEPT ![a].calls = Tail(@)] ELSE node
  /\ approved' = [approved EXCEPT ![a] = FALSE]
  /\ buffer' = [buffer EXCEPT ![a] = {}]
  /\ Goto(a, "call")

(* A call is over: only one that returned can be progress, and only the     *)
(* first time this tool gave this answer for these arguments.               *)
Record(a, ok, detail) ==
  LET key == <<Now(a).tool, Now(a).path, detail>> IN
  /\ node' = [node EXCEPT ![a].calls = Tail(@),
       ![a].progressed = @ \/ (ok /\ key \notin node[a].seen),
       ![a].seen = IF ok THEN @ \cup {key} ELSE @]
  /\ approved' = [approved EXCEPT ![a] = FALSE]
  /\ buffer' = [buffer EXCEPT ![a] = {}]
  /\ Goto(a, "call")

(* A turn is over: stalled counts the turns in a row without progress.      *)
EndTurn(a) ==
  LET stalled == IF node[a].progressed THEN 0 ELSE node[a].stalled + 1 IN
  /\ At(a, "call") /\ node[a].calls = <<>>
  /\ node' = [node EXCEPT ![a].stalled = stalled,
       ![a].reason = IF stalled >= MaxStalled THEN "no_progress" ELSE @]
  /\ Goto(a, IF stalled >= MaxStalled THEN "release" ELSE "top")
  /\ Same /\ SameFiles /\ UNCHANGED <<approved, buffer>>

(***************************************************************************)
(* Harness.call.                                                           *)
(***************************************************************************)
(* Mutant: the kind's allowlist alone decides.                              *)
Decision_Allowlist(a, tool) ==
  IF tool \notin WriteTools THEN "deny" ELSE Decide(Allowlist(ToolsFor(a)), tool)

Decision(a, tool) ==
  IF tool \notin WriteTools THEN "deny"     \* not in the registry
  ELSE Combined({Allowlist(ToolsFor(a)), Compiled(doc, Tenant)}, tool)

Permit(a) ==
  /\ At(a, "call") /\ node[a].calls # <<>>
  /\ LET decision == IF Now(a) = Invalid THEN "deny" ELSE Decision(a, Now(a).tool) IN
     \/ decision = "deny" /\ Record(a, FALSE, "denied")
     \/ decision = "ask" /\ Goto(a, "approval") /\ UNCHANGED <<node, approved, buffer>>
     \/ decision = "allow" /\ Goto(a, "hook") /\ UNCHANGED <<node, approved, buffer>>
  /\ Same /\ SameFiles

Approval(a) ==
  /\ At(a, "approval")
  /\ \E answer \in {"yes", "no", "raises"} :
       \E granted \in Routed(doc, Tenant, Handlers, Now(a).tool, answer) :
         IF granted
         THEN /\ approved' = [approved EXCEPT ![a] = TRUE]
              /\ Goto(a, "hook") /\ UNCHANGED <<node, buffer>>
         ELSE Record(a, FALSE, "refused")
  /\ Same /\ SameFiles

(* Mutant: only write_file takes a lease.                                   *)
Leased_WriteOnly(tool) == tool = "write_file"

Leased(tool) == tool \in LeasedTools

(* lease_gate: the first writer claims the path, another is refused.        *)
Hook(a) ==
  LET p == Now(a).path IN
  /\ At(a, "hook")
  /\ IF Leased(Now(a).tool) /\ lease[p] \notin {None, a}
     THEN Record(a, FALSE, "leased") /\ UNCHANGED lease
     ELSE /\ lease' = IF Leased(Now(a).tool) THEN [lease EXCEPT ![p] = a] ELSE lease
          /\ Goto(a, IF Now(a).tool = "write_file" THEN "open" ELSE "read")
          /\ UNCHANGED <<node, approved, buffer>>
  /\ Same /\ UNCHANGED file

(***************************************************************************)
(* The tools. An edit replaces the one text its agent was told to change:  *)
(* it is refused once that text is gone.                                   *)
(***************************************************************************)
Read(a) ==
  LET here == file[Now(a).path] IN
  /\ At(a, "read")
  /\ CASE Now(a).tool # "edit_file" -> Record(a, TRUE, here)
       [] Now(a).tool = "edit_file" /\ (a \in here.edits \/ ~here.whole) -> Record(a, FALSE, "not found")
       [] OTHER -> /\ buffer' = [buffer EXCEPT ![a] = here.edits]
                   /\ Goto(a, "open") /\ UNCHANGED <<node, approved>>
  /\ Same /\ SameFiles

(* write_bytes: os.open with O_TRUNC ...                                    *)
Open(a) ==
  /\ At(a, "open")
  /\ file' = [file EXCEPT ![Now(a).path] = [edits |-> {}, whole |-> FALSE]]
  /\ Goto(a, "write")
  /\ Same /\ UNCHANGED <<lease, node, approved, buffer>>

(* ... and the write. write_file replaces what was there.                   *)
Write(a) ==
  LET p == Now(a).path
      kept == IF Now(a).tool = "edit_file" THEN buffer[a] ELSE {}
  IN
  /\ At(a, "write")
  /\ file' = [file EXCEPT ![p] = [edits |-> kept \cup {a}, whole |-> TRUE]]
  /\ sure' = [sure EXCEPT ![p] = {a} \cup IF Now(a).tool = "edit_file" THEN @ ELSE {}]
  /\ torn' = IF Now(a).tool = "edit_file" THEN torn ELSE torn \ {p}
  /\ Record(a, TRUE, "written")
  /\ UNCHANGED <<doc, kind, late, child, cut, lease>>

(***************************************************************************)
(* The node's body is over: its finally releases every lease of its own.   *)
(***************************************************************************)
(* Mutant: only a node that met its target releases.                        *)
Released_OnSuccess(a) ==
  IF node[a].reason = "target_met"
  THEN [p \in Path |-> IF lease[p] = a THEN None ELSE lease[p]] ELSE lease

Released(a) == [p \in Path |-> IF lease[p] = a THEN None ELSE lease[p]]

Release(a) ==
  /\ At(a, "release")
  /\ lease' = Released(a)
  /\ Goto(a, "done")
  /\ Same /\ UNCHANGED <<node, approved, buffer, file>>

(***************************************************************************)
(* AgentNode._run_delegated over cli/delegate.py.                          *)
(***************************************************************************)
Spawn(a) ==
  /\ At(a, "delegate")
  /\ IF late THEN Stop(a, "error") /\ UNCHANGED child
     ELSE /\ Goto(a, "communicate") /\ child' = [child EXCEPT ![a] = "running"]
          /\ UNCHANGED node
  /\ SameFiles /\ UNCHANGED <<doc, kind, late, sure, torn, cut, approved, buffer>>

(* The report says success, says anything else, or cannot be read.          *)
Reports(a) ==
  /\ At(a, "communicate")
  /\ child' = [child EXCEPT ![a] = "exited"]
  /\ \E why \in {"target_met", "error"} : Stop(a, why)
  /\ SameFiles /\ UNCHANGED <<doc, kind, late, sure, torn, cut, approved, buffer>>

(* communicate(timeout=remaining): the process group is killed.             *)
TimesOut(a) ==
  /\ At(a, "communicate") /\ late
  /\ child' = [child EXCEPT ![a] = "killed"]
  /\ Stop(a, "error")
  /\ SameFiles /\ UNCHANGED <<doc, kind, late, sure, torn, cut, approved, buffer>>

(***************************************************************************)
(* The deadline.                                                           *)
(***************************************************************************)
DeadlinePasses ==
  /\ ~late /\ late' = TRUE
  /\ UNCHANGED <<doc, kind, pc, node, approved, buffer, lease, file, child, sure, torn, cut>>

Running(a) == pc[a] \notin {"idle", "done"}

(* NodeDeadlineExceeded is raised in a node's thread. Nothing on its way    *)
(* out catches it but the router, for which a handler that raises refused.  *)
Interrupt(a) ==
  /\ late /\ Running(a)
  /\ CASE At(a, "approval") -> Record(a, FALSE, "refused") /\ UNCHANGED <<torn, cut>>
       [] At(a, "release") ->
            /\ Goto(a, "done") /\ cut' = cut \cup {a}
            /\ UNCHANGED <<node, approved, buffer, torn>>
       [] OTHER ->
            /\ Stop(a, "deadline")
            /\ torn' = IF At(a, "write") THEN torn \cup {Now(a).path} ELSE torn
            /\ UNCHANGED <<approved, buffer, cut>>
  /\ UNCHANGED <<doc, kind, late, lease, file, child, sure>>

Step(a) ==
  \/ Start(a) \/ Top(a) \/ Replies(a) \/ EndTurn(a) \/ Permit(a) \/ Approval(a) \/ Hook(a)
  \/ Read(a) \/ Open(a) \/ Write(a) \/ Release(a) \/ Spawn(a) \/ Reports(a) \/ TimesOut(a)

Next == DeadlinePasses \/ \E a \in Agent : Step(a) \/ Interrupt(a)

Spec == Init /\ [][Next]_vars

(* A node's thread goes on while it can; the model, the approver and the    *)
(* child answer in the end.                                                 *)
FairSpec == Spec /\ \A a \in Agent : WF_vars(Step(a))

(***************************************************************************)
(* Properties.                                                             *)
(***************************************************************************)
(* leases.py: whatever the fixers of a superstep do at once, an edit whose  *)
(* tool call returned stays in its file until write_file replaces the file, *)
(* but for a write that was cut between the truncation and the data.        *)
EditsSurvive ==
  \A p \in Path :
    (\A a \in Agent : ~(At(a, "write") /\ Now(a).path = p)) =>
      sure[p] \subseteq file[p].edits \/ p \in torn

(* fix_issues.py: "a lease lives exactly as long as its node's execution",  *)
(* but for a node interrupted again inside the finally that releases.       *)
LeaseEndsWithItsNode ==
  \A p \in Path : lease[p] # None => Running(lease[p]) \/ lease[p] \in cut

(* While a node writes, and no longer, what it writes is its own.           *)
LeasesHold == EditsSurvive /\ LeaseEndsWithItsNode

LicensedChange ==
  \A p \in Path : file'[p] # file[p] =>
    \E a \in Agent : /\ lease[p] = a /\ Now(a).path = p /\ kind[a] = "fix_one"
                    /\ \/ Evaluate(doc, Tenant, Now(a).tool) = "allow"
                       \/ Evaluate(doc, Tenant, Now(a).tool) = "ask" /\ approved[a]

(* A file is only ever changed by the agent that holds its lease, whose     *)
(* kind has the tool, in a call the document allows or an approver granted. *)
ChangesAreLicensed == [][LicensedChange]_vars

(* AgentNode.run always terminates, with a reason, whatever the others do.  *)
AgentsStop == <>(\A a \in Agent : At(a, "done") /\ node[a].reason # "")

(* Said in the repository and refuted by TLC; README.md tells each.         *)

(* What agent.py says of a delegated run: max_seconds is enforced from      *)
(* outside, killing the whole process group on the deadline.                *)
ChildEndsWithItsNode == \A a \in Agent : At(a, "done") => child[a] # "running"
=============================================================================
