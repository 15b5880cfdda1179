------------------------------ MODULE SlackBot --------------------------------
(***************************************************************************)
(* slack/bot.py: one message, from the gate to the reply. An admitted      *)
(* command runs in a child process under the runner's timeout; a thread    *)
(* narrates its trace by editing one status message, which shows Approve   *)
(* and Deny while a plan is parked; a click writes the answer the parked   *)
(* process polls for; and the last edit, or a plain reply, is the result.  *)
(*                                                                         *)
(* Any call to Slack may fail. Time is ticks of ten seconds, counted while *)
(* the child runs.                                                         *)
(***************************************************************************)
EXTENDS SlackGate, FiniteSets

CONSTANTS
  Requests,  \* what is typed: [name, tokens]
  Followed,  \* those whose command is followed to its end (bound): requests as below
  Plans,     \* fingerprints a planner may propose
  MaxRounds, \* rounds (bound)
  MaxClicks  \* clicks (bound)

Word ==
  [flag : STRING, form : {"bare", "split", "inline"}, value : STRING, num : Int]

ASSUME RequestsAssumption ==
  \A r \in Requests : r.name \in {"plan", "agent", "trace"} /\ r.tokens \in Seq(Word)

VARIABLES
  request, \* [name, tokens, allow]
  argv,    \* what the gate made of it
  bot,     \* the worker that handles it: [at, told]
  child,   \* the command: [at, round, plan, clock, waited]
  trace,   \* the plan its trace shows as waiting, or none
  files,   \* [request, decision] on disk
  tail,    \* the narrating thread: [at, view]
  message, \* what Slack shows: [text, button]
  click,   \* a click being handled: [at, plan, yes]
  person,  \* [seen: buttons drawn so far, yes: plans somebody approved, used]
  accepted \* plans the gate took a yes for

vars == <<request, argv, bot, child, trace, files, tail, message, click, person, accepted>>

None == "none"
NoDecision == [plan |-> None, yes |-> FALSE]
View(text, button) == [text |-> text, button |-> button]
Live == {"planning", "asking", "parked", "working"}

Go == IsSet(argv, "--go")
IsFollowed == request \in Followed
RunBudget == Budget(request.name, argv)
Wait == LastOf(argv, "--approval-timeout").num

(* handle_text_live: the gate is a function of the message; a refusal is the *)
(* reply.                                                                   *)
Init ==
  /\ request \in {[name |-> r.name, tokens |-> r.tokens, allow |-> allow] :
                    r \in Requests, allow \in [model : BOOLEAN, agent : BOOLEAN]}
  /\ argv \in {AdmitCommand(request.name, request.allow, request.tokens)}
  /\ bot = [at |-> IF argv = Refused THEN "done" ELSE "start", told |-> argv = Refused]
  /\ child = [at |-> "none", round |-> 0, plan |-> None, clock |-> 0, waited |-> 0]
  /\ trace = None /\ files = [request |-> None, decision |-> NoDecision]
  /\ tail = [at |-> "off", view |-> View(None, None)]
  /\ message = View(None, None)
  /\ click = [at |-> "none", plan |-> None, yes |-> FALSE]
  /\ person = [seen |-> {}, yes |-> {}, used |-> 0]
  /\ accepted = {}

-------------------------------------------------------------------------------
(* The status message is posted, or could not be; and the child starts.     *)
StartsChild ==
  child' = [child EXCEPT !.at = IF Runs(argv) THEN "planning" ELSE "exited",
                         !.round = 1]

Starts ==
  /\ bot.at = "start" /\ IsFollowed
  /\ StartsChild
  /\ \/ /\ bot' = [bot EXCEPT !.at = "plain"] /\ UNCHANGED <<tail, message>>
     \/ /\ bot' = [bot EXCEPT !.at = "live"]
        /\ tail' = [tail EXCEPT !.at = "poll"] /\ message' = View("starting", None)
  /\ UNCHANGED <<request, argv, trace, files, click, person, accepted>>

-------------------------------------------------------------------------------
(* The child: a governed loop, as the command line runs it. The question is *)
(* an event in the trace before it is a file on disk.                       *)
Proposes(p) ==
  /\ child.at = "planning" /\ request.name = "plan"
  /\ child' = [child EXCEPT !.at = IF IsSet(argv, "--approve") THEN "asking" ELSE "working",
                            !.plan = p]
  /\ trace' = IF IsSet(argv, "--approve") THEN p ELSE None
  /\ UNCHANGED <<request, argv, bot, files, tail, message, click, person, accepted>>

Clear(decision, p) == IF decision.plan = p THEN NoDecision ELSE decision

Asks ==
  /\ child.at = "asking"
  /\ child' = [child EXCEPT !.at = "parked", !.waited = 0]
  /\ files' = [request |-> child.plan, decision |-> Clear(files.decision, child.plan)]
  /\ UNCHANGED <<request, argv, bot, trace, tail, message, click, person, accepted>>

Unpark(at) ==
  /\ child' = [child EXCEPT !.at = at]
  /\ trace' = None
  /\ files' = [request |-> None, decision |-> Clear(files.decision, child.plan)]
  /\ UNCHANGED <<request, argv, bot, tail, message, click, person>>

Answered ==
  /\ child.at = "parked" /\ files.decision.plan = child.plan
  /\ accepted' = IF files.decision.yes THEN accepted \union {child.plan} ELSE accepted
  /\ Unpark(IF files.decision.yes /\ Go THEN "working" ELSE "exited")

WaitEnds ==
  /\ child.at = "parked" /\ child.waited >= Wait
  /\ UNCHANGED accepted /\ Unpark("exited")

(* A round's work is done, or any other command is; the loop goes on or not.*)
Ends ==
  /\ child.at \in {"planning", "working"}
  /\ child' = IF child.at = "working" /\ child.round < MaxRounds
              THEN [child EXCEPT !.at = "planning", !.round = @ + 1, !.plan = None]
              ELSE [child EXCEPT !.at = "exited"]
  /\ UNCHANGED <<request, argv, bot, trace, files, tail, message, click, person, accepted>>

Tick ==
  /\ child.at \in Live /\ child.clock < RunBudget
  /\ child.at = "parked" => child.waited < Wait
  /\ child' = [child EXCEPT !.clock = @ + 1, !.waited = IF child.at = "parked" THEN @ + 1 ELSE @]
  /\ UNCHANGED <<request, argv, bot, trace, files, tail, message, click, person, accepted>>

(* The runner's timeout: SIGKILL, whatever the child was doing.             *)
Killed ==
  /\ child.at \in Live /\ child.clock >= RunBudget
  /\ child' = [child EXCEPT !.at = IF @ = "parked" THEN "killed parked" ELSE "killed"]
  /\ UNCHANGED <<request, argv, bot, trace, files, tail, message, click, person, accepted>>

-------------------------------------------------------------------------------
(* LiveTail._loop: render, edit, and see whether to stop; an edit begun     *)
(* before the stop lands after it.                                          *)
Rendered == View("progress", trace)

Renders ==
  /\ tail.at = "poll" /\ tail.view # Rendered
  /\ tail' = [at |-> "sending", view |-> Rendered]
  /\ UNCHANGED <<request, argv, bot, child, trace, files, message, click, person, accepted>>

(* chat_update replaces the blocks. Mutant: blocks that are not mentioned   *)
(* are kept, as Slack does.                                                 *)
Blocks_Kept(button) == IF button = None THEN message.button ELSE button

Blocks(button) == button

Shows(view) ==
  /\ message' = [text |-> view.text, button |-> Blocks(view.button)]
  /\ person' = [person EXCEPT !.seen = @ \union ({Blocks(view.button)} \ {None})]

Narrates ==
  /\ tail.at = "sending"
  /\ \/ tail' = [tail EXCEPT !.at = IF bot.at = "live" THEN "poll" ELSE "off"] /\ Shows(tail.view)
     \/ tail' = [tail EXCEPT !.at = "dead"] /\ UNCHANGED <<message, person>>
  /\ UNCHANGED <<request, argv, bot, child, trace, files, click, accepted>>

(* __exit__: the thread is told to stop and joined, for so long.            *)
Joined == tail.at # "sending"

Returns ==
  /\ bot.at \in {"plain", "live"} /\ child.at \notin Live
  /\ bot' = [bot EXCEPT !.at = IF @ = "plain" THEN "reply" ELSE "joining"]
  /\ tail' = IF tail.at = "poll" THEN [tail EXCEPT !.at = "off"] ELSE tail
  /\ UNCHANGED <<request, argv, child, trace, files, message, click, person, accepted>>

Joins ==
  /\ bot.at = "joining"
  /\ \/ Joined /\ bot' = [bot EXCEPT !.at = "final"]
     \/ ~Joined /\ bot' = [bot EXCEPT !.at = "final late"]
  /\ UNCHANGED <<request, argv, child, trace, files, tail, message, click, person, accepted>>

(* The last edit. Mutant: a failed one is taken for a delivery.             *)
Undelivered_Quiet == "done"

Undelivered == "reply"

Finishes ==
  /\ bot.at \in {"final", "final late"}
  /\ \/ /\ bot' = [at |-> IF bot.at = "final" THEN "done" ELSE "done late", told |-> TRUE]
        /\ Shows(View("final", None))
     \/ bot' = [bot EXCEPT !.at = Undelivered] /\ UNCHANGED <<message, person>>
  /\ UNCHANGED <<request, argv, child, trace, files, tail, click, accepted>>

Replies ==
  /\ bot.at = "reply"
  /\ bot' = [at |-> "done", told |-> TRUE]
  /\ UNCHANGED <<request, argv, child, trace, files, tail, message, click, person, accepted>>

-------------------------------------------------------------------------------
(* handle_approval_action: a click on a button that is or was on screen;    *)
(* the request on disk is read, compared, and answered.                     *)
Clicks(p, yes) ==
  /\ click.at = "none" /\ p \in person.seen /\ person.used < MaxClicks
  /\ click' = [at |-> "clicked", plan |-> p, yes |-> yes]
  /\ person' = [person EXCEPT !.used = @ + 1, !.yes = IF yes THEN @ \union {p} ELSE @]
  /\ UNCHANGED <<request, argv, bot, child, trace, files, tail, message, accepted>>

Unclicked == [at |-> "none", plan |-> None, yes |-> FALSE]

(* Mutant: what is waiting is answered, whatever the button was drawn for.  *)
Meant_Any(c, waiting) == waiting

Meant(c, waiting) == IF waiting = c.plan THEN c.plan ELSE None

ClickReads ==
  /\ click.at = "clicked"
  /\ click' = IF files.request = None \/ Meant(click, files.request) = None THEN Unclicked
              ELSE [click EXCEPT !.at = "checked", !.plan = Meant(click, files.request)]
  /\ UNCHANGED <<request, argv, bot, child, trace, files, tail, message, person, accepted>>

ClickWrites ==
  /\ click.at = "checked"
  /\ files' = [files EXCEPT !.decision = [plan |-> click.plan, yes |-> click.yes]]
  /\ click' = Unclicked
  /\ UNCHANGED <<request, argv, bot, child, trace, tail, message, person, accepted>>

-------------------------------------------------------------------------------
BotStep == Starts \/ Returns \/ Joins \/ Finishes \/ Replies
ChildEnds == Tick \/ Killed \/ WaitEnds

Next ==
  \/ BotStep \/ ChildEnds
  \/ \E p \in Plans : Proposes(p) \/ \E yes \in BOOLEAN : Clicks(p, yes)
  \/ Asks \/ Answered \/ Ends
  \/ Renders \/ Narrates \/ ClickReads \/ ClickWrites

Spec == Init /\ [][Next]_vars /\ WF_vars(BotStep) /\ WF_vars(ChildEnds)

(***************************************************************************)
(* Properties.                                                             *)
(***************************************************************************)
TypeOK ==
  /\ bot.at \in {"start", "plain", "live", "joining", "final", "final late", "reply",
                 "done", "done late"}
  /\ child.at \in Live \union {"none", "exited", "killed", "killed parked"}
  /\ tail.at \in {"off", "poll", "sending", "dead"}
  /\ click.at \in {"none", "clicked", "checked"}

(* What the gate admitted is what the command line runs: whichever way the  *)
(* flags were written, a run that executes a plan or has tools on the host  *)
(* is opted in and parked, its paths are inside, its wait ends before the   *)
(* runner's kill, and the trace that is followed is the one it writes.      *)
AdmittedIsWhatRuns ==
  LET name == request.name
      registry == FlagValue(argv, "--registry") IN
  bot.at = "start" /\ Runs(argv) =>
    /\ IsSet(argv, "--model") => request.allow.model
    /\ name = "agent" \/ registry = "stdlib" => request.allow.model /\ request.allow.agent
    /\ name = "plan" /\ (Go \/ registry = "stdlib") => IsSet(argv, "--approve")
    /\ "out" \notin Paths(name, argv)
    /\ IsSet(argv, "--approve") => Wait \in 1..(RunBudget - 1)
    /\ name # "trace" => IsSet(argv, "--trace")

(* The gate takes a yes for a plan only if somebody clicked Approve on a    *)
(* button drawn for that plan, whatever was parked in between.              *)
YesIsForThePlanShown == accepted \subseteq person.yes

(* A finished command's message is its result, without a live button, once  *)
(* the thread was joined in time and the last edit was made.                *)
FinalIsClean ==
  bot.at = "done" /\ message.text = "final" => message.button = None

(* What somebody approves in Slack is the plan they were shown, and a       *)
(* finished command asks for nothing.                                       *)
ButtonsAreTrue == TypeOK /\ YesIsForThePlanShown /\ FinalIsClean

(* The result reaches the requester through one route or the other.         *)
RequesterIsTold == <>(~IsFollowed \/ bot.told)

(* What runs is what was typed and approved, and nothing else.              *)
BotIsSafe == AdmittedIsWhatRuns /\ ButtonsAreTrue

(* Said in the repository and refuted by TLC; README.md tells each.         *)

(* "so a late tick can never overwrite it": the result stays on screen.     *)
FinalStands == [][message.text = "final" => message' = message]_vars

(* "a park that outlives the runner is a hard kill mid-wait": it does not.  *)
ParkEndsFirst == child.at # "killed parked"
=============================================================================
