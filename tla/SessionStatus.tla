---------------------------- MODULE SessionStatus ----------------------------
(***************************************************************************)
(* The statuses of a session and the moves between them: the adjacency     *)
(* table of grapharc/session/store.py.                                     *)
(***************************************************************************)
Status == {"created", "running", "idle", "interrupted",
           "awaiting_approval", "failed", "terminated"}

(* The statuses transition() accepts from status s.                         *)
Allowed(s) ==
  CASE s = "running"    -> {"idle", "interrupted", "awaiting_approval",
                            "failed", "terminated"}
    [] s = "terminated" -> {}
    [] OTHER            -> {"running", "terminated"}

(* Statuses a runner may claim a session from.                              *)
Resumable == {s \in Status : "running" \in Allowed(s)}

(* Where a claim may be settled: every way out of running but the terminal  *)
(* one, which only terminate() takes.                                       *)
Settled == Allowed("running") \ {"terminated"}
=============================================================================
