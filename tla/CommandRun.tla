------------------------------ MODULE CommandRun ------------------------------
(***************************************************************************)
(* grapharc run, plan, go and agent as processes that share a directory:   *)
(* how each settles what it was told (cli/config.py), which registry and   *)
(* which policy it runs under (cli/plan.py, cli/generate.py), whether its  *)
(* run id is taken (cli/runid.py), and how run takes a topology through    *)
(* admission to the end of its nodes (cli/graphrun.py). Nothing locks what *)
(* they share: the generated policies and the trace.                       *)
(***************************************************************************)
EXTENDS Integers, FiniteSets

CONSTANTS
  Command,     \* processes (bound)
  Lines,       \* the command lines somebody gives
  Env,         \* [settings], Unset where nothing is
  Configs,     \* grapharc.toml by directory: [is: absent, broken or read, set: settings]
  Here,        \* registry.py is in the working directory
  Targets,     \* registries: [found, imports, attribute, workspace, default], what each has
  Policies,    \* policy files that can be read and compiled, as <<directory, name>>
  Legacy,      \* an un-keyed generated policy of an earlier version is there
  Seconds,     \* what a text that is a number of seconds stands for
  AgentSeconds, \* DEFAULT_MAX_SECONDS of agent
  MaxLate      \* seconds anything is followed past its ceiling (bound)

Unset == "unset"

(* What the parser of cli/main.py lets through; a registry has a name.     *)
ASSUME CommandAssumption ==
  /\ \A line \in Lines : line.does \in {"run", "plan", "go", "agent"}
  /\ \A line \in Lines : line.does = "agent" => line.seconds \in DOMAIN Seconds \cup {Unset}
  /\ "" \notin DOMAIN Targets

Stdlib == "stdlib"
Demo == "plan_incident"

VARIABLES
  command,   \* each process, once it was started
  generated, \* .grapharc/generated-policy.*.toml, by registry ("" is un-keyed)
  trace      \* the events of a trace file several commands name: [run, by]

vars == <<command, generated, trace>>

(* A policy document: what it is, what it is about, who wrote it.           *)
Doc(is, of, by) == [is |-> is, of |-> of, by |-> by]
Nothing == Doc("absent", "", 0)

Waiting == [line |-> [does |-> "nothing"], at |-> "waiting", target |-> Unset, doc |-> Nothing,
            before |-> {}, elapsed |-> 0]

Init ==
  /\ command = [c \in Command |-> Waiting]
  /\ generated = [t \in DOMAIN Targets \cup {""} |->
       IF t = "" /\ Legacy THEN Doc("generated", "unknown", 0) ELSE Nothing]
  /\ trace = {}

(* Refused before it wrote anything, failed or killed, or at its end.      *)
Over == {"refused", "failed", "ended"}
At(c) == command[c].at
Line(c) == command[c].line
Moves(c, at) == command' = [command EXCEPT ![c].at = at]

(***************************************************************************)
(* load: --config names a file that has to be there, the working directory *)
(* need not have one; one that does not parse, or holds what is no setting *)
(* or no value of it, is refused.                                          *)
(***************************************************************************)
ConfigDir(line) == IF line.config = Unset THEN "cwd" ELSE line.config
ConfigLoads(line) ==
  Configs[ConfigDir(line)].is \in IF line.config = Unset THEN {"read", "absent"} ELSE {"read"}

(* Settings.resolve: a flag, else the environment, else grapharc.toml, else *)
(* the default. An empty variable is none.                                  *)
Resolve(line, key, default) ==
  LET set == Configs[ConfigDir(line)].set IN
  CASE line[key] # Unset -> <<"flag", line[key]>>
    [] line[key] = Unset /\ Env[key] \notin {Unset, ""} -> <<"env", Env[key]>>
    [] line[key] = Unset /\ Env[key] \in {Unset, ""} /\ set[key] # Unset -> <<"config", set[key]>>
    [] OTHER -> <<"default", default>>

(* resolve_path: the file's own paths are relative to the file.             *)
PolicyPath(line) ==
  LET found == Resolve(line, "policy", Unset)
  IN IF found[1] = "config" THEN <<ConfigDir(line), found[2]>> ELSE <<"cwd", found[2]>>

(* resolve_registry_target for plan; run has a default of its own, and go   *)
(* the registry its plan was made with.                                     *)
TargetOf(line) ==
  LET configured == Resolve(line, "registry", Unset)[2] IN
  CASE line.does = "go" -> line.registry
    [] line.does = "run" -> Resolve(line, "registry", Demo)[2]
    [] line.does = "plan" /\ line.useDefault -> Stdlib
    [] line.does = "plan" /\ ~line.useDefault /\ configured # Unset -> configured
    [] OTHER -> IF Here THEN "registry.py" ELSE IF line.model THEN Stdlib ELSE Demo

(* generated_policy_path. Mutant: the file does not say of which registry.  *)
PolicyKey_None(line, target) == ""

(* run does not say which registry it is about.                             *)
PolicyKey(line, target) == IF line.does = "run" THEN "" ELSE target

(* What is left when nothing was named, cached or generated.                *)
Settled(target) ==
  IF Targets[target].default THEN Doc("default", target, 0) ELSE Doc("builtin", Stdlib, 0)

(***************************************************************************)
(* A command starts. plan looks at its run id first of all, run after its  *)
(* setup, agent before it reads its policy document, and go, when it runs  *)
(* a saved plan, does not look.                                            *)
(***************************************************************************)
First(line) == IF line.does = "plan" THEN "guard" ELSE "setup"

After(line, at) ==
  CASE at = "setup" /\ line.does \in {"run", "agent"} -> "guard"
    [] at = "guard" /\ line.does = "plan" -> "setup"
    [] at = "guard" /\ line.does = "agent" -> "document"
    [] OTHER -> "judge"

Start(c, line) ==
  /\ At(c) = "waiting" /\ \A d \in Command : d < c => At(d) # "waiting"
  /\ command' = [command EXCEPT ![c] =
       [Waiting EXCEPT !.line = line, !.at = First(line),
                       !.before = {d \in Command : At(d) \in Over}]]
  /\ UNCHANGED <<generated, trace>>

(* refuse_reused_run_id. Only an id somebody typed is looked for. Mutant:   *)
(* an id is taken once its run is over as it should be.                     *)
Reused_Ended(c) ==
  /\ Line(c).run # Unset /\ Line(c).shared
  /\ \E e \in trace : e.run = Line(c).run /\ At(e.by) = "ended"

Reused(c) ==
  /\ Line(c).run # Unset /\ Line(c).shared
  /\ \E e \in trace : e.run = Line(c).run

Guard(c) ==
  /\ At(c) = "guard"
  /\ Moves(c, IF Reused(c) THEN "refused" ELSE After(Line(c), "guard"))
  /\ UNCHANGED <<generated, trace>>

(***************************************************************************)
(* The setup: everything that can be wrong with it is found before a run.  *)
(***************************************************************************)
SetUp(c, doc) ==
  command' = [command EXCEPT ![c].at = After(Line(c), "setup"), ![c].doc = doc,
                             ![c].target = TargetOf(Line(c))]

(* resolve_registry: the module is found and runs, it has the attribute, and *)
(* --workspace is refused when its factory takes none.                      *)
Loads(line, target) ==
  /\ target \in DOMAIN Targets
  /\ Targets[target].found /\ Targets[target].imports /\ Targets[target].attribute
  /\ line.workspace => Targets[target].workspace

(* resolve_policy: a document that is not there or does not compile is       *)
(* refused. Mutant: an empty one is one that says nothing.                  *)
Readable_Empty(doc) == TRUE

Readable(doc) == doc.is # "empty"

(* plan: a rehearsal has no model, anything else needs one.                 *)
PlanRefuses(line) == line.does = "plan" /\ (line.model <=> line.scripted)

(* agent: what a process it hands its task to could not be held to, and a   *)
(* tenant of no document.                                                   *)
AgentRefuses(line) ==
  LET named == PolicyPath(line)[2] # Unset IN
  \/ line.delegates /\ (named \/ line.tokens)
  \/ line.tenant /\ ~named

Unusable(line) ==
  LET target == TargetOf(line) path == PolicyPath(line) IN
  \/ ~ConfigLoads(line) \/ PlanRefuses(line)
  \/ line.does = "run" /\ Resolve(line, "seconds", Unset)[2] \notin DOMAIN Seconds \cup {Unset}
  \/ ~Loads(line, target)
  \/ path[2] # Unset /\ path \notin Policies
  \/ path[2] = Unset /\ ~Readable(generated[PolicyKey(line, target)])

SetupFails(c) ==
  /\ At(c) = "setup"
  /\ IF Line(c).does = "agent" THEN ~ConfigLoads(Line(c)) \/ AgentRefuses(Line(c)) ELSE Unusable(Line(c))
  /\ Moves(c, "refused")
  /\ UNCHANGED <<generated, trace>>

(* resolve_or_generate_policy: a named file, what was generated before, a   *)
(* new one when there is a model to ask, the registry's own. go never asks. *)
Cached(c) == generated[PolicyKey(Line(c), TargetOf(Line(c)))]

Governs(c) == At(c) = "setup" /\ Line(c).does # "agent"

Named(c) ==
  /\ Governs(c) /\ ~Unusable(Line(c)) /\ PolicyPath(Line(c))[2] # Unset
  /\ SetUp(c, Doc("named", PolicyPath(Line(c))[2], 0))
  /\ UNCHANGED <<generated, trace>>

ReadsBack(c) ==
  /\ Governs(c) /\ ~Unusable(Line(c)) /\ PolicyPath(Line(c))[2] = Unset
  /\ Cached(c).is # "absent"
  /\ SetUp(c, Cached(c))
  /\ UNCHANGED <<generated, trace>>

Asks(c) ==
  /\ Governs(c) /\ ~Unusable(Line(c)) /\ PolicyPath(Line(c))[2] = Unset
  /\ Cached(c).is = "absent"
  /\ IF Line(c).does = "plan" /\ Line(c).model THEN Moves(c, "asking")
     ELSE SetUp(c, Settled(TargetOf(Line(c))))
  /\ UNCHANGED <<generated, trace>>

(* What the model answered is no policy.                                    *)
NoPolicy(c) ==
  /\ At(c) = "asking"
  /\ SetUp(c, Settled(TargetOf(Line(c))))
  /\ UNCHANGED <<generated, trace>>

(* write_text empties the file and then writes it; the run is governed by   *)
(* the text it has, whatever the file holds by then.                        *)
Empties(c) ==
  /\ At(c) = "asking"
  /\ generated' = [generated EXCEPT ![PolicyKey(Line(c), TargetOf(Line(c)))] = Doc("empty", "", c)]
  /\ Moves(c, "writing")
  /\ UNCHANGED trace

Writes(c) ==
  LET target == TargetOf(Line(c)) doc == Doc("generated", target, c) IN
  /\ At(c) = "writing"
  /\ generated' = [generated EXCEPT ![PolicyKey(Line(c), target)] = doc]
  /\ SetUp(c, doc)
  /\ UNCHANGED trace

(* An id nobody typed is like no other.                                    *)
Events(c) ==
  IF Line(c).shared /\ Line(c).run # Unset THEN {[run |-> Line(c).run, by |-> c]} ELSE {}

(* agent is governed by its document and its flags, or by its flags alone.  *)
AgentSetUp(c) ==
  /\ At(c) = "setup" /\ Line(c).does = "agent"
  /\ ConfigLoads(Line(c)) /\ ~AgentRefuses(Line(c))
  /\ Moves(c, "guard")
  /\ UNCHANGED <<generated, trace>>

ReadsDocument(c) ==
  LET path == PolicyPath(Line(c)) IN
  /\ At(c) = "document"
  /\ IF path[2] # Unset /\ path \notin Policies THEN Moves(c, "refused") /\ UNCHANGED trace
     ELSE /\ command' = [command EXCEPT ![c].at = "running",
               ![c].doc = IF path[2] = Unset THEN Doc("flags", "", 0) ELSE Doc("named", path[2], 0)]
          /\ trace' = trace \cup Events(c)
  /\ UNCHANGED generated

(***************************************************************************)
(* Admission, the build, and the run. Events are in the trace from the     *)
(* verdict on; a plan without --go ends there, as run --check-only does.   *)
(***************************************************************************)
Judge(c, admitted) ==
  /\ At(c) = "judge"
  /\ trace' = trace \cup Events(c)
  /\ Moves(c, IF ~admitted THEN "failed" ELSE IF Line(c).checkOnly THEN "ended" ELSE "running")
  /\ UNCHANGED generated

(* run's ceiling may come from anywhere; agent's from its flag alone. That   *)
(* one is its meter's, and a guard interrupts it. Of run's, the             *)
(* Materializer is given no budget and invoke no meter: the flag is only    *)
(* what admission holds an estimate against.                                *)
Told(c) ==
  IF Line(c).does = "agent" THEN Line(c).seconds ELSE Resolve(Line(c), "seconds", Unset)[2]
Limited(c) == Line(c).does = "agent" \/ Told(c) \in DOMAIN Seconds
Ceiling(c) ==
  IF Told(c) \in DOMAIN Seconds THEN Seconds[Told(c)]
  ELSE IF Limited(c) THEN AgentSeconds ELSE 0

Works(c) ==
  /\ At(c) = "running" /\ Line(c).does \in {"run", "agent"}
  /\ command[c].elapsed < Ceiling(c) + IF Line(c).does = "run" THEN MaxLate ELSE 0
  /\ command' = [command EXCEPT ![c].elapsed = @ + 1]
  /\ UNCHANGED <<generated, trace>>

Ends(c) ==
  /\ At(c) = "running" /\ \E at \in {"ended", "failed"} : Moves(c, at)
  /\ UNCHANGED <<generated, trace>>

Killed(c) ==
  /\ At(c) \notin Over \cup {"waiting"} /\ Moves(c, "failed")
  /\ UNCHANGED <<generated, trace>>

Next ==
  \E c \in Command :
    \/ \E line \in Lines : Start(c, line)
    \/ \E admitted \in BOOLEAN : Judge(c, admitted)
    \/ Guard(c) \/ SetupFails(c) \/ Named(c) \/ ReadsBack(c) \/ Asks(c) \/ NoPolicy(c)
    \/ Empties(c) \/ Writes(c) \/ AgentSetUp(c) \/ ReadsDocument(c) \/ Works(c) \/ Ends(c) \/ Killed(c)

Spec == Init /\ [][Next]_vars

TypeOK ==
  /\ trace \subseteq [run : {l.run : l \in Lines}, by : Command]
  /\ \A t \in DOMAIN generated : generated[t].is \in {"absent", "empty", "generated"}
  /\ \A c \in Command :
       /\ command[c].before \subseteq Command
       /\ command[c].doc.is \in {"absent", "empty", "named", "generated", "default", "builtin", "flags"}

(***************************************************************************)
(* Properties.                                                             *)
(***************************************************************************)
(* An id in a trace is one run's: a command that was given an id another    *)
(* one wrote events under, and that started when the other was over, or     *)
(* killed, wrote none. go does not look, and two that overlap both look     *)
(* before either writes.                                                    *)
OneRunPerId ==
  \A e, f \in trace :
    e.run = f.run /\ e.by \in command[f.by].before => Line(f.by).does = "go"

(* What a plan's registry was given as its policy is whole and written for  *)
(* it, and it governs every later plan and go of that registry: two that    *)
(* ran under different documents had them written by commands that          *)
(* overlapped, however many were killed while they wrote one.               *)
PolicyStands ==
  LET ran == {c \in Command : command[c].doc.is # "absent" /\ Line(c).does \in {"plan", "go"}}
      wrote == {c \in ran : command[c].doc.is = "generated"}
  IN /\ \A c \in ran : command[c].doc.is # "empty"
     /\ \A c \in wrote : command[c].doc.of = command[c].target
     /\ \A c, d \in wrote :
          command[c].target = command[d].target /\ command[c].doc # command[d].doc
            => command[c].doc.by \notin command[command[d].doc.by].before

(* Commands that share a directory leave each other alone.                  *)
CommandsKeepApart == OneRunPerId /\ PolicyStands

(* Said in the repository and refuted by TLC; README.md tells each.         *)

(* --run-id is refused when the trace already holds it.                     *)
IdNamesOneRun ==
  \A e, f \in trace : e.run = f.run => e.by \notin command[f.by].before

(* --max-seconds is a wall-clock ceiling that interrupts a running node.    *)
CeilingIsHeld ==
  \A c \in Command :
    At(c) # "waiting" /\ Limited(c) => command[c].elapsed <= Ceiling(c)
=============================================================================
