----------------------------- MODULE SessionTable ----------------------------
(***************************************************************************)
(* What grapharc/session/store.py promises its callers: the three tables   *)
(* of the session database change as if every call were one indivisible    *)
(* operation, whoever else has the file open and whoever crashes.          *)
(***************************************************************************)
EXTENDS Naturals, Sequences, SessionStatus

CONSTANTS
  Id,        \* session ids
  Thread,    \* checkpoint thread ids; a session's default is its own id
  Proc,      \* pids
  NoProc,    \* NULL, in runner_pid
  Kind       \* event kinds

VARIABLES
  rows,      \* sessions: id -> [thread, status, runner]
  trail,     \* session_transitions, in seq order
  events     \* session_events, in seq order

vars == <<rows, trail, events>>

Row == [thread : Thread, status : Status, runner : Proc \cup {NoProc}]

Change == [id : Id, from : Status \cup {"absent"}, to : Status]

Event == [id : Id, kind : Kind, used : BOOLEAN]

(* The rows with session s set to row.                                      *)
Put(table, s, row) == [x \in DOMAIN table \cup {s} |-> IF x = s THEN row ELSE table[x]]

Init == rows = <<>> /\ trail = <<>> /\ events = <<>>

(* A checkpoint thread belongs to exactly one session.                      *)
Create(s, t) ==
  /\ s \notin DOMAIN rows
  /\ \A x \in DOMAIN rows : rows[x].thread # t
  /\ rows' = Put(rows, s, [thread |-> t, status |-> "created", runner |-> NoProc])
  /\ trail' = Append(trail, [id |-> s, from |-> "absent", to |-> "created"])
  /\ UNCHANGED events

(* A legal edge of the lifecycle, with its row in the trail.                *)
Move(s, to, runner) ==
  /\ s \in DOMAIN rows
  /\ to \in Allowed(rows[s].status)
  /\ rows' = Put(rows, s, [rows[s] EXCEPT !.status = to, !.runner = runner])
  /\ trail' = Append(trail, [id |-> s, from |-> rows[s].status, to |-> to])
  /\ UNCHANGED events

Push(s, kind) ==
  /\ s \in DOMAIN rows
  /\ rows[s].status # "terminated"
  /\ events' = Append(events, [id |-> s, kind |-> kind, used |-> FALSE])
  /\ UNCHANGED <<rows, trail>>

(* Consume events nobody has consumed.                                      *)
Use(S) ==
  /\ \A i \in S : ~events[i].used
  /\ events' = [i \in DOMAIN events |->
                  IF i \in S THEN [events[i] EXCEPT !.used = TRUE] ELSE events[i]]
  /\ UNCHANGED <<rows, trail>>

Next ==
  \/ \E s \in Id, t \in Thread : Create(s, t)
  \/ \E s \in Id, p \in Proc : Move(s, "running", p)
  \/ \E s \in Id, to \in Status \ {"running"} : Move(s, to, NoProc)
  \/ \E s \in Id, kind \in Kind : Push(s, kind)
  \/ \E S \in SUBSET DOMAIN events : Use(S)

Spec == Init /\ [][Next]_vars
=============================================================================
