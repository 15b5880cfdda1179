---------------------------- MODULE MCCommandRun ----------------------------
(* Three commands of six command lines, in a directory with a policy file *)
(* and an un-keyed policy of an earlier version, and a grapharc.toml        *)
(* elsewhere that sets a ceiling.                                           *)
EXTENDS CommandRun, TLC

None == [registry |-> Unset, policy |-> Unset, seconds |-> Unset]
Base == [does |-> "plan", run |-> Unset, shared |-> TRUE, model |-> TRUE, scripted |-> FALSE,
         checkOnly |-> FALSE,
         useDefault |-> FALSE, workspace |-> FALSE, config |-> Unset,
         delegates |-> FALSE, tokens |-> FALSE, tenant |-> FALSE,
         registry |-> Unset, policy |-> Unset, seconds |-> Unset]
MCLines == {
  [Base EXCEPT !.run = "r"],
  [Base EXCEPT !.does = "go", !.registry = Stdlib, !.run = "r"],
  [Base EXCEPT !.does = "run", !.run = "r", !.config = "conf", !.policy = "p"],
  [Base EXCEPT !.does = "agent", !.run = "r", !.config = "conf", !.policy = "p"],
  [Base EXCEPT !.does = "agent", !.delegates = TRUE, !.tenant = TRUE],
  [Base EXCEPT !.model = FALSE, !.scripted = TRUE, !.checkOnly = TRUE]}
MCEnv == [None EXCEPT !.registry = ""]
MCConfigs == "cwd" :> [is |-> "absent", set |-> None]
          @@ "conf" :> [is |-> "read", set |-> [None EXCEPT !.seconds = "1"]]
MCPolicies == {<<"cwd", "p">>}
Loading == [found |-> TRUE, imports |-> TRUE, attribute |-> TRUE, workspace |-> TRUE, default |-> TRUE]
MCTargets == Stdlib :> Loading @@ Demo :> [Loading EXCEPT !.workspace = FALSE]
MCSeconds == "1" :> 1
=============================================================================
