----------------------------- MODULE ApprovalFile -----------------------------
(***************************************************************************)
(* The approval handshake of grapharc/planner/approval_file.py: a run's    *)
(* gate parks its question in a file, whoever approves answers in another. *)
(*                                                                         *)
(* Gates are the processes whose loop asks; several runs may share one     *)
(* directory.  Approvers are processes of `grapharc approve` and the       *)
(* buttons of the Slack bot.  A step is one call of the file system.  The  *)
(* files are named by path, so an open descriptor follows its file through *)
(* a rename and is left with no name when the file is unlinked.            *)
(***************************************************************************)
EXTENDS Naturals, Sequences, FiniteSets

CONSTANTS
  Gates, Approvers,
  Plans,            \* fingerprints
  MaxAsked,         \* bound: questions asked, by all gates together
  MaxDecisions,     \* bound: decisions taken, by all approvers together
  MaxGateKills          \* bound: gates killed

HandshakeAssumption ==
  /\ Gates \cap Approvers = {}
  /\ MaxAsked \in Nat /\ MaxDecisions \in Nat /\ MaxGateKills \in Nat

VARIABLES
  files,     \* what each path holds
  fd,        \* the path of the file a process is writing
  pc,
  plan,      \* gate: the fingerprint it asks about
  verdict,   \* gate: the answer it returns
  choice,    \* approver: the decision it is delivering
  asked, kills,
  given,     \* ghost: every decision an approver took
  before     \* ghost: gate: the decision on disk when it was called

approvalVars == <<files, fd, pc, plan, verdict, choice, asked, kills, given, before>>

Processes == Gates \cup Approvers

Paths == {"request", "request.tmp", "decision", "decision.tmp"}

Decisions == [fp : Plans, says : {"approved", "denied"}, id : 1..MaxDecisions]

Requests == [fp : Plans, says : {"asked"}, id : {0}]

(* No file, and a file that is not (yet) JSON: a reader gets None of both.  *)
Absent == [fp |-> "absent", says |-> "nothing", id |-> 0]
Torn   == [fp |-> "torn", says |-> "nothing", id |-> 0]

Timeout == [fp |-> "none", says |-> "timeout", id |-> 0]
Raised  == [fp |-> "none", says |-> "raised", id |-> 0]

Complete(path) == files[path] \notin {Absent, Torn}

Goto(p, step) == pc' = [pc EXCEPT ![p] = step]

Gate == <<plan, verdict, asked, before>>

(***************************************************************************)
(* The file system.                                                        *)
(***************************************************************************)
Unlink(path) ==
  /\ files' = [files EXCEPT ![path] = Absent]
  /\ fd' = [p \in Processes |-> IF fd[p] = path THEN "nowhere" ELSE fd[p]]

(* open(path, "w") truncates, whoever wrote it and whoever is writing it.   *)
Open(p, path) ==
  /\ files' = [files EXCEPT ![path] = Torn]
  /\ fd' = [fd EXCEPT ![p] = path]

(* The buffer is written out and the file closed.  Over bytes another one   *)
(* wrote meanwhile, a longer tail of those may be left.                     *)
WriteOut(p, payload) ==
  /\ fd' = [fd EXCEPT ![p] = "none"]
  /\ IF fd[p] = "nowhere" THEN UNCHANGED files
     ELSE \E data \in IF files[fd[p]] = Torn THEN {payload} ELSE {payload, Torn} :
            files' = [files EXCEPT ![fd[p]] = data]

(* os.replace.                                                              *)
Rename(tmp, path) ==
  /\ files' = [files EXCEPT ![path] = files[tmp], ![tmp] = Absent]
  /\ fd' = [p \in Processes |-> IF fd[p] = tmp THEN path
                                ELSE IF fd[p] = path THEN "nowhere" ELSE fd[p]]

(***************************************************************************)
(* The gate.                                                               *)
(***************************************************************************)
(* Mutant: a decision is believed whatever plan it names.                   *)
Mine_Any(g) == Complete("decision")

Mine(g) == Complete("decision") /\ files["decision"].fp = plan[g]

(* What _discard_own_stale_decision would delete.                           *)
Own(g) == Mine(g)

Ask(g, p) ==
  /\ pc[g] = "idle" /\ asked < MaxAsked
  /\ asked' = asked + 1
  /\ plan' = [plan EXCEPT ![g] = p]
  /\ verdict' = [verdict EXCEPT ![g] = Timeout]
  /\ before' = [before EXCEPT ![g] = files["decision"].id]
  /\ Goto(g, "discard")
  /\ UNCHANGED <<files, fd, choice, kills, given>>

(* Mutant: only the end of a question discards its decision.                *)
Discard_AtTheEnd(g) ==
  /\ pc[g] = "discard"
  /\ Goto(g, "open")
  /\ UNCHANGED <<files, fd, choice, kills, given, Gate>>

(* _discard_own_stale_decision reads; before the question ...               *)
Discard(g) ==
  /\ pc[g] = "discard"
  /\ Goto(g, IF Own(g) THEN "unlinkStale" ELSE "open")
  /\ UNCHANGED <<files, fd, choice, kills, given, Gate>>

(* ... and unlinks.                                                         *)
UnlinkStale(g) ==
  /\ pc[g] = "unlinkStale"
  /\ Unlink("decision")
  /\ Goto(g, "open")
  /\ UNCHANGED <<choice, kills, given, Gate>>

OpenRequest(g) ==
  /\ pc[g] = "open"
  /\ Open(g, "request.tmp")
  /\ Goto(g, "write")
  /\ UNCHANGED <<choice, kills, given, Gate>>

WriteRequest(g) ==
  /\ pc[g] = "write"
  /\ WriteOut(g, [fp |-> plan[g], says |-> "asked", id |-> 0])
  /\ Goto(g, "publish")
  /\ UNCHANGED <<choice, kills, given, Gate>>

(* The rename finds no file when a neighbour renamed the same one.          *)
PublishRequest(g) ==
  /\ pc[g] = "publish"
  /\ IF files["request.tmp"] = Absent
     THEN /\ verdict' = [verdict EXCEPT ![g] = Raised]
          /\ Goto(g, "finally")
          /\ UNCHANGED <<files, fd>>
     ELSE /\ Rename("request.tmp", "request")
          /\ Goto(g, "poll")
          /\ UNCHANGED verdict
  /\ UNCHANGED <<plan, choice, asked, kills, given, before>>

(* Mutant: a timeout leaves at once, round the finally.                     *)
GiveUp_NoFinally(g) ==
  /\ pc[g] = "poll"
  /\ Goto(g, "idle")
  /\ UNCHANGED <<files, fd, choice, kills, given, Gate>>

(* The deadline passed, or should_stop fired.                               *)
GiveUp(g) ==
  /\ pc[g] = "poll"
  /\ Goto(g, "finally")
  /\ UNCHANGED <<files, fd, choice, kills, given, Gate>>

(* A matching decision ends the wait; any other is left where it is.        *)
Poll(g) ==
  /\ pc[g] = "poll"
  /\ Mine(g)
  /\ verdict' = [verdict EXCEPT ![g] = files["decision"]]
  /\ Goto(g, "finally")
  /\ UNCHANGED <<files, fd, plan, choice, asked, kills, given, before>>

Withdraw(g) ==
  /\ pc[g] = "finally"
  /\ Unlink("request")
  /\ Goto(g, "clean")
  /\ UNCHANGED <<choice, kills, given, Gate>>

Return(g) ==
  /\ Goto(g, "idle")
  /\ UNCHANGED <<plan, verdict, asked, before, choice, kills, given>>

(* Mutant: having looked, the gate looks again.                             *)
Clean_Again(g) ==
  /\ pc[g] = "clean"
  /\ IF Own(g) THEN Return(g) /\ UNCHANGED <<files, fd>>
     ELSE Goto(g, "finally") /\ UNCHANGED <<files, fd, choice, kills, given, Gate>>

(* _discard_own_stale_decision, once more: it reads ...                     *)
Clean(g) ==
  /\ pc[g] = "clean"
  /\ UNCHANGED <<files, fd>>
  /\ IF Own(g)
     THEN Goto(g, "unlinkOwn") /\ UNCHANGED <<choice, kills, given, Gate>>
     ELSE Return(g)

UnlinkOwn(g) ==
  /\ pc[g] = "unlinkOwn"
  /\ Unlink("decision")
  /\ Return(g)

(* The run's process is killed; what it wrote stays.                        *)
KillGate(g) ==
  /\ pc[g] # "idle" /\ kills < MaxGateKills
  /\ kills' = kills + 1
  /\ fd' = [fd EXCEPT ![g] = "none"]
  /\ Goto(g, "idle")
  /\ UNCHANGED <<files, choice, given, Gate>>

(***************************************************************************)
(* The approver: approve(), and the button's handler.                      *)
(***************************************************************************)
(* What is parked is read and decided on; the decision quotes the plan.     *)
Decide(a, says) ==
  /\ pc[a] = "idle" /\ Cardinality(given) < MaxDecisions
  /\ Complete("request")
  /\ LET decision == [fp |-> files["request"].fp, says |-> says, id |-> Cardinality(given) + 1]
     IN choice' = [choice EXCEPT ![a] = decision] /\ given' = given \cup {decision}
  /\ Goto(a, "open")
  /\ UNCHANGED <<files, fd, kills, Gate>>

OpenDecision(a) ==
  /\ pc[a] = "open"
  /\ Open(a, "decision.tmp")
  /\ Goto(a, "write")
  /\ UNCHANGED <<choice, kills, given, Gate>>

WriteDecision(a) ==
  /\ pc[a] = "write"
  /\ WriteOut(a, choice[a])
  /\ Goto(a, "publish")
  /\ UNCHANGED <<choice, kills, given, Gate>>

PublishDecision(a) ==
  /\ pc[a] = "publish"
  /\ IF files["decision.tmp"] = Absent THEN UNCHANGED <<files, fd>>
     ELSE Rename("decision.tmp", "decision")
  /\ Goto(a, "idle")
  /\ UNCHANGED <<choice, kills, given, Gate>>

ApprovalInit ==
  /\ files = [path \in Paths |-> Absent]
  /\ fd = [p \in Processes |-> "none"]
  /\ pc = [p \in Processes |-> "idle"]
  /\ plan \in [Gates -> Plans]
  /\ verdict = [g \in Gates |-> Timeout]
  /\ choice = [a \in Approvers |-> Timeout]
  /\ asked = 0 /\ kills = 0
  /\ given = {}
  /\ before = [g \in Gates |-> 0]

GateStep(g) ==
  \/ Discard(g) \/ UnlinkStale(g) \/ OpenRequest(g) \/ WriteRequest(g) \/ PublishRequest(g)
  \/ GiveUp(g) \/ Poll(g) \/ Withdraw(g) \/ Clean(g) \/ UnlinkOwn(g)

ApproverStep(a) ==
  \/ \E says \in {"approved", "denied"} : Decide(a, says)
  \/ OpenDecision(a) \/ WriteDecision(a) \/ PublishDecision(a)

ApprovalNext ==
  \/ \E g \in Gates : GateStep(g) \/ KillGate(g) \/ \E p \in Plans : Ask(g, p)
  \/ \E a \in Approvers : ApproverStep(a)

ApprovalSpec == ApprovalInit /\ [][ApprovalNext]_approvalVars

(* A gate's thread runs, and its deadline passes.                           *)
FairSpec == ApprovalSpec /\ \A g \in Gates : WF_approvalVars(GateStep(g))

(***************************************************************************)
(* Properties.                                                             *)
(***************************************************************************)
Contents == {Absent, Torn} \cup Requests \cup Decisions

(* The values the variables range over.                                     *)
ApprovalTypeOK ==
  /\ files \in [Paths -> Contents]
  /\ \A path \in {"decision", "decision.tmp"} : files[path] \notin Requests
  /\ \A path \in {"request", "request.tmp"} : files[path] \notin Decisions
  /\ fd \in [Processes -> Paths \cup {"none", "nowhere"}]
  /\ pc \in [Processes -> {"idle", "discard", "unlinkStale", "open", "write", "publish",
                           "poll", "finally", "clean", "unlinkOwn"}]
  /\ plan \in [Gates -> Plans]
  /\ verdict \in [Gates -> Decisions \cup {Timeout, Raised}]
  /\ choice \in [Approvers -> Decisions \cup {Timeout}]
  /\ asked \in 0..MaxAsked /\ kills \in 0..MaxGateKills
  /\ given \subseteq Decisions
  /\ before \in [Gates -> 0..MaxDecisions]

(* "Approve what was shown": a gate's answer was taken, in those words, by  *)
(* somebody who had its plan before them, however many runs and approvers   *)
(* share the directory and what is left in it.  (With the type invariant.)  *)
AnswerWasGiven ==
  /\ ApprovalTypeOK
  /\ \A g \in Gates : verdict[g].id # 0 => verdict[g] \in given /\ verdict[g].fp = plan[g]

(* A decision on disk when the gate is called never answers it, though the  *)
(* gate it was meant for was killed before it could clean up.               *)
NoStaleAnswer ==
  \A g \in Gates : verdict[g].id # 0 => verdict[g].id # before[g]

(* A question nobody is asking any more is off the disk.                    *)
NoQuestionLeaks ==
  kills = 0 /\ (\A g \in Gates : pc[g] = "idle") => files["request"] = Absent

(* A gate's answer was given to its plan and came after it was called, and  *)
(* nobody killed leaves a question behind.                                  *)
AnswerIsTheirs == AnswerWasGiven /\ NoStaleAnswer /\ NoQuestionLeaks

(* Every question gets an answer, if only "timeout".                        *)
GateReturns == \A g \in Gates : pc[g] = "discard" ~> pc[g] = "idle"
=============================================================================
