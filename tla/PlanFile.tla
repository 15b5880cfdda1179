------------------------------- MODULE PlanFile -------------------------------
(***************************************************************************)
(* cli/plan.py, mcp/driver.py: plan saves an admitted plan in a run        *)
(* directory; go, or an MCP client's execute, runs it, records that it     *)
(* ran, and is refused when it has, or when a run of it began and never    *)
(* recorded finishing, unless --again asks for it. Commands are processes: *)
(* they overlap, and are killed when their work budget ends.               *)
(***************************************************************************)
EXTENDS Integers, Sequences, FiniteSets, FiniteSetsExt, SequencesExt

CONSTANTS
  Procs,
  Dirs,    \* run directories, a later one has a greater name
  MaxPlans, \* plan commands that admit a plan, in all (bound)
  MaxGos,  \* go commands in all (bound)
  MaxKills \* processes killed (bound)

VARIABLES
  record, \* plan.json of each directory: [is: absent, torn or saved, runs it names]
  traced,  \* what the directory's trace shows: the runs whose nodes began
  torn,   \* the trace ends in, or holds, a line that does not parse
  proc,   \* each process: [at, dir, again, saw, run]
  began,  \* [run, again] of all runs whose nodes began, by directory
  wrote,  \* the runs go has recorded of the directory's latest plan
  shared, \* directories two commands were at work on at once
  used    \* [plans, gos, kills]

planVars == <<record, traced, torn, proc, began, wrote, shared, used>>

Idle == [at |-> "idle", dir |-> 0, again |-> FALSE, saw |-> <<>>, run |-> 0]
Saved(d) == record[d].is = "saved"
Runs(d) == record[d].runs
File(is, runs) == [is |-> is, runs |-> runs]

PlanInit ==
  /\ record = [d \in Dirs |-> File("absent", <<>>)]
  /\ traced = [d \in Dirs |-> {}] /\ torn = [d \in Dirs |-> FALSE]
  /\ proc = [p \in Procs |-> Idle]
  /\ began = [d \in Dirs |-> {}] /\ wrote = [d \in Dirs |-> {}]
  /\ shared = {} /\ used = [plans |-> 0, gos |-> 0, kills |-> 0]

(* A command comes to a directory where another may be at work.             *)
Meets(d) ==
  shared' = IF \E q \in Procs : proc[q].at # "idle" /\ proc[q].dir = d
            THEN shared \union {d} ELSE shared

(* plan: an admitted plan is written next to its trace, over the plan that  *)
(* was there, executed or not. write_text empties the file first.           *)
PlanTruncates(p, d) ==
  /\ proc[p].at = "idle" /\ used.plans < MaxPlans
  /\ used' = [used EXCEPT !.plans = @ + 1]
  /\ record' = [record EXCEPT ![d] = File("torn", <<>>)]
  /\ proc' = [proc EXCEPT ![p] =
       [at |-> "saving", dir |-> d, again |-> FALSE, saw |-> <<>>, run |-> 0]]
  /\ Meets(d)
  /\ UNCHANGED <<traced, torn, began, wrote>>

PlanSaves(p) ==
  /\ proc[p].at = "saving"
  /\ record' = [record EXCEPT ![proc[p].dir] = File("saved", <<>>)]
  /\ wrote' = [wrote EXCEPT ![proc[p].dir] = {}]
  /\ proc' = [proc EXCEPT ![p] = Idle]
  /\ UNCHANGED <<traced, torn, began, shared, used>>

(* find_unexecuted_plan: the newest one whose record names no run.          *)
Unexecuted == {d \in Dirs : Saved(d) /\ Runs(d) = <<>>}

(* execute_plan: the record is read, of a named directory or of the newest  *)
(* unexecuted plan, and one that was executed is refused.                   *)
Go(p, named, d, again) ==
  /\ proc[p].at = "idle" /\ used.gos < MaxGos
  /\ IF named THEN Saved(d) ELSE d \in Unexecuted /\ \A e \in Unexecuted : e <= d
  /\ Runs(d) = <<>> \/ again
  /\ used' = [used EXCEPT !.gos = @ + 1]
  /\ proc' = [proc EXCEPT ![p] =
       [at |-> "read", dir |-> d, again |-> again, saw |-> Runs(d), run |-> used.gos + 1]]
  /\ Meets(d)
  /\ UNCHANGED <<record, traced, torn, began, wrote>>

(* _unfinished_execution: a run that began and that the record does not     *)
(* name; a torn trace is no evidence. Mutant: only the newest run counts.   *)
Unfinished_Newest(d, saw) ==
  /\ ~torn[d] /\ traced[d] # {} /\ saw # <<>> /\ Max(traced[d]) \notin ToSet(saw)

Unfinished(d, saw) == ~torn[d] /\ \E r \in traced[d] : r \notin ToSet(saw)

Refused(p) ==
  /\ proc[p].at = "read"
  /\ Unfinished(proc[p].dir, proc[p].saw) /\ ~proc[p].again
  /\ proc' = [proc EXCEPT ![p] = Idle]
  /\ UNCHANGED <<record, traced, torn, began, wrote, shared, used>>

(* The loop runs: admission judges the plan again, the gate parks it when   *)
(* there is one, for as long as the approver takes.                         *)
Starts(p) ==
  /\ proc[p].at = "read"
  /\ ~Unfinished(proc[p].dir, proc[p].saw) \/ proc[p].again
  /\ proc' = [proc EXCEPT ![p].at = "parked"]
  /\ UNCHANGED <<record, traced, torn, began, wrote, shared, used>>

(* The plan is refused, denied, or timed out: nothing ran.                  *)
NotExecuted(p) ==
  /\ proc[p].at = "parked"
  /\ proc' = [proc EXCEPT ![p] = Idle]
  /\ UNCHANGED <<record, traced, torn, began, wrote, shared, used>>

(* The first node starts. The kernel cannot seed a run from a trace with a   *)
(* torn line, so that nothing runs beside one.                              *)
Begins(p) ==
  /\ proc[p].at = "parked" /\ ~torn[proc[p].dir]
  /\ LET d == proc[p].dir IN
     /\ traced' = [traced EXCEPT ![d] = @ \union {proc[p].run}]
     /\ began' = [began EXCEPT ![d] = @ \union {[run |-> proc[p].run, again |-> proc[p].again]}]
  /\ proc' = [proc EXCEPT ![p].at = "working"]
  /\ UNCHANGED <<record, torn, wrote, shared, used>>

(* A node fails: the run was not executed, and is not recorded.             *)
Fails(p) ==
  /\ proc[p].at = "working"
  /\ proc' = [proc EXCEPT ![p] = Idle]
  /\ UNCHANGED <<record, traced, torn, began, wrote, shared, used>>

(* write_text: the file is emptied, then written. Mutant: the record keeps  *)
(* the newest run.                                                          *)
History_Newest(p) == <<proc[p].run>>

History(p) == Append(proc[p].saw, proc[p].run)

Truncates(p) ==
  /\ proc[p].at = "working"
  /\ record' = [record EXCEPT ![proc[p].dir] = File("torn", <<>>)]
  /\ proc' = [proc EXCEPT ![p].at = "stamping"]
  /\ UNCHANGED <<traced, torn, began, wrote, shared, used>>

Stamps(p) ==
  /\ proc[p].at = "stamping"
  /\ record' = [record EXCEPT ![proc[p].dir] = File("saved", History(p))]
  /\ wrote' = [wrote EXCEPT ![proc[p].dir] = @ \union {proc[p].run}]
  /\ proc' = [proc EXCEPT ![p] = Idle]
  /\ UNCHANGED <<traced, torn, began, shared, used>>

(* run_cli's timeout, or the machine, kills it, within an event's line too. *)
Kill(p) ==
  /\ proc[p].at # "idle" /\ used.kills < MaxKills
  /\ \E half \in BOOLEAN :
       /\ half => proc[p].at = "working"
       /\ torn' = [torn EXCEPT ![proc[p].dir] = @ \/ half]
  /\ proc' = [proc EXCEPT ![p] = Idle]
  /\ used' = [used EXCEPT !.kills = @ + 1]
  /\ UNCHANGED <<record, traced, began, wrote, shared>>

PlanNext ==
  \E p \in Procs :
    \/ \E d \in Dirs : PlanTruncates(p, d)
    \/ PlanSaves(p)
    \/ \E named, again \in BOOLEAN, d \in Dirs : Go(p, named, d, again)
    \/ Refused(p) \/ Starts(p) \/ NotExecuted(p) \/ Begins(p) \/ Fails(p)
    \/ Truncates(p) \/ Stamps(p) \/ Kill(p)

PlanSpec == PlanInit /\ [][PlanNext]_planVars

(* graph_status, once nobody is at work on the plan: the record's word.     *)
ShownPlanned(d) ==
  Saved(d) /\ Runs(d) = <<>> /\ \A p \in Procs : proc[p].dir # d

(***************************************************************************)
(* Properties.                                                             *)
(***************************************************************************)
Process ==
  [at : {"idle", "saving", "read", "parked", "working", "stamping"},
   dir : Dirs \cup {0}, again : BOOLEAN, saw : Seq(Nat), run : Nat]

(* The values the variables range over.                                     *)
PlanTypeOK ==
  /\ record \in [Dirs -> [is : {"absent", "torn", "saved"}, runs : Seq(Nat)]]
  /\ traced \in [Dirs -> SUBSET Nat] /\ torn \in [Dirs -> BOOLEAN]
  /\ proc \in [Procs -> Process]
  /\ began \in [Dirs -> SUBSET [run : Nat, again : BOOLEAN]]
  /\ wrote \in [Dirs -> SUBSET Nat] /\ shared \subseteq Dirs
  /\ used \in [plans : Nat, gos : Nat, kills : Nat]

(* An executed plan is not executed again by accident: unless two commands  *)
(* were at work on it at once, only the first run to begin in a directory   *)
(* began without --again, however the runs ended, and whatever plan was     *)
(* written over the one they executed.                                      *)
NotByAccident ==
  \A d \in Dirs \ shared : \A b, c \in began[d] : b.run < c.run => c.again

(* The record forgets no run of its plan: plan.json names what go recorded  *)
(* since the plan was written, and nothing else, as long as no two commands *)
(* overlapped and none was killed as it wrote. A plan over an executed one  *)
(* starts a record of its own.                                              *)
HistoryIsKept ==
  \A d \in Dirs \ shared : Saved(d) => ToSet(Runs(d)) = wrote[d]

(* The record can be trusted, when nobody overlapped.                       *)
PlanRunsOnce == PlanTypeOK /\ NotByAccident /\ HistoryIsKept

(* Said in the repository and refuted by TLC; README.md tells each.         *)

(* "show_graph on the same run_dir says which happened": a plan shown as    *)
(* planned has not begun to run.                                            *)
ShowGraphSaysWhich == \A d \in Dirs : ShownPlanned(d) => began[d] = {}
=============================================================================
