------------------------------ MODULE SlackGate -------------------------------
(***************************************************************************)
(* slack/command.py: what of a Slack message becomes an argv, and what the *)
(* command line makes of that argv. Anybody may type; the gate admits by   *)
(* an allowlist, adds the flags that bound a run, and refuses the rest.    *)
(*                                                                         *)
(* A token is [flag, form, value, num]: form is bare, split ("--f v") or   *)
(* inline ("--f=v"); a positional's flag is "none"; num is what a value    *)
(* that is a number says, in units of ten seconds. A path is "in" or "out" *)
(* of the bot's directory; an argv is a sequence of [flag, value, num].    *)
(***************************************************************************)
EXTENDS Integers, Sequences, SequencesExt

CONSTANTS
  Reader,  \* timeout_seconds: the runner's budget for a command that reads
  Work,    \* work_timeout_seconds: for one that works
  Margin,  \* ten seconds: the least wait, and what is kept from the kill
  Cap      \* APPROVAL_WAIT_CAP_SECONDS

ASSUME BudgetsAssumption ==
  /\ {Reader, Work, Margin, Cap} \subseteq Nat \ {0}
  /\ 2 * Margin <= Reader /\ Reader <= Work

Token(flag, form, value, num) == [flag |-> flag, form |-> form, value |-> value, num |-> num]

(* ALLOWED_COMMANDS, the part of it that differs in kind.                   *)
Command(bools, values, paths, models, choices, repeats, pathArg) ==
  [bools |-> bools, values |-> values, paths |-> paths, models |-> models,
   choices |-> choices, repeats |-> repeats, pathArg |-> pathArg]

Allowed == [
  plan |-> Command({"--approve", "--go"}, {"--trace", "--tenant", "--approval-timeout"},
                 {"--trace"}, {"--model"},
                 [registry |-> {"demo", "stdlib"}, executor |-> {}], {}, FALSE),
  agent |-> Command({}, {"--workspace", "--max-seconds", "--deny"}, {"--workspace"}, {"--model"},
                  [registry |-> {}, executor |-> {"sandbox", "claude-cli"}], {"--deny"}, FALSE),
  trace |-> Command({}, {}, {}, {}, [registry |-> {}, executor |-> {}], {}, TRUE)]

ChoicesOf(name, flag) ==
  CASE flag = "--registry" -> Allowed[name].choices.registry
    [] flag = "--executor" -> Allowed[name].choices.executor
    [] OTHER -> {}

(* parse_command's loop: every token is of the allowlist, and no flag is    *)
(* given twice but those the command line accumulates.                      *)
TokenAllowed(name, allow, t) ==
  LET spec == Allowed[name] IN
  IF t.flag = "none" THEN spec.pathArg => t.value # "out"
  ELSE \/ t.flag \in spec.bools /\ t.form = "bare"
       \/ /\ t.form # "bare"
          /\ \/ t.flag \in spec.models /\ allow.model
             \/ t.value \in ChoicesOf(name, t.flag)
             \/ t.flag \in spec.values /\ (t.flag \in spec.paths => t.value # "out")

Repeated(name, tokens) ==
  \E i, j \in DOMAIN tokens :
    i < j /\ tokens[i].flag = tokens[j].flag /\ tokens[i].flag # "none"
          /\ tokens[i].flag \notin Allowed[name].repeats

-------------------------------------------------------------------------------
(* _has_flag reads the strings of an argv, the values among them;           *)
(* _flag_value reads the last occurrence.                                   *)
Arg(flag, value, num) == [flag |-> flag, value |-> value, num |-> num]
NoArg == Arg("none", "none", 0)

HasFlag(argv, flag) == \E i \in DOMAIN argv : flag \in {argv[i].flag, argv[i].value}

LastOf(argv, flag) ==
  LET is == {i \in DOMAIN argv : argv[i].flag = flag} IN
  IF is = {} THEN NoArg ELSE argv[Max(is)]

FlagValue(argv, flag) == LastOf(argv, flag).value

Default(argv, arg) == IF HasFlag(argv, arg.flag) THEN argv ELSE Append(argv, arg)

(* effective_timeout.                                                       *)
Budget(name, argv) ==
  IF name = "agent" \/ (name = "plan" /\ HasFlag(argv, "--go")) THEN Work ELSE Reader

(* The park's share of it, and the longest a requester may ask for.         *)
Smallest(a, b) == IF a < b THEN a ELSE b
Largest(a, b) == IF a > b THEN a ELSE b
WaitCeiling(budget) == Largest(Margin, budget - Margin)
Share(budget, go) ==
  Largest(Margin, Smallest(Smallest(WaitCeiling(budget), Cap), budget \div (IF go THEN 3 ELSE 2)))

-------------------------------------------------------------------------------
(* What is added to an argv. Mutant: only the agent registry is parked.     *)
Approve == Arg("--approve", "none", 0)
ForcedApproval_Stdlib(argv) ==
  IF FlagValue(argv, "--registry") = "stdlib" THEN Default(argv, Approve) ELSE argv

ForcedApproval(argv) ==
  IF FlagValue(argv, "--registry") = "stdlib" \/ HasFlag(argv, "--go")
  THEN Default(argv, Approve) ELSE argv

Timed(argv) ==
  IF HasFlag(argv, "--approve")
  THEN Default(argv, Arg("--approval-timeout", "number",
                         Share(Budget("plan", argv), HasFlag(argv, "--go"))))
  ELSE argv

Tempered(argv) ==
  IF FlagValue(argv, "--executor") = "claude-cli"
  THEN Default(argv, Arg("--deny", "Bash", 0)) ELSE argv

Traced(argv) == Default(argv, Arg("--trace", "in", 0))

Injected(name, argv) ==
  CASE name = "plan" -> Traced(Timed(ForcedApproval(argv)))
    [] name = "agent" ->
         Traced(Tempered(Default(Default(argv, Arg("--workspace", "in", 0)),
                  Arg("--max-seconds", "number", Largest(Margin, Work - Margin)))))
    [] OTHER -> argv

HostTools(name, argv) == name = "agent" \/ FlagValue(argv, "--registry") = "stdlib"

TooLong(name, argv) ==
  /\ name = "plan" /\ HasFlag(argv, "--approve")
  /\ LastOf(argv, "--approval-timeout").num \notin 1..WaitCeiling(Budget(name, argv))

Refused == <<[flag |-> "refused", value |-> "none", num |-> 0]>>

AdmitCommand(name, allow, tokens) ==
  LET typed == [i \in DOMAIN tokens |-> Arg(tokens[i].flag, tokens[i].value, tokens[i].num)]
      argv == Injected(name, typed)
  IN IF \/ \E i \in DOMAIN tokens : ~TokenAllowed(name, allow, tokens[i])
        \/ Repeated(name, tokens)
        \/ HostTools(name, typed) /\ ~(allow.model /\ allow.agent)
        \/ TooLong(name, argv)
     THEN Refused ELSE argv

-------------------------------------------------------------------------------
(* The command line's reading: a store action keeps its last value, and a   *)
(* value that looks like an option is an error.                             *)
Options ==
  {"--approve", "--go", "--registry", "--tenant", "--approval-timeout", "--executor",
   "--workspace", "--max-seconds", "--deny", "--trace", "--model"}
IsSet(argv, flag) == \E i \in DOMAIN argv : argv[i].flag = flag
Paths(name, argv) ==
  {argv[i].value : i \in {j \in DOMAIN argv :
     argv[j].flag \in {"--trace", "--workspace"} \/ (argv[j].flag = "none" /\ name = "trace")}}

Runs(argv) == \A i \in DOMAIN argv : argv[i].value \notin Options
=============================================================================
