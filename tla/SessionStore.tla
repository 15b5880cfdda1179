----------------------------- MODULE SessionStore ----------------------------
(***************************************************************************)
(* The session database of grapharc/session/store.py, statement by         *)
(* statement: several processes have the file open, every operation is a   *)
(* BEGIN IMMEDIATE transaction whose statements are steps of their own,    *)
(* and a process may die between any two of them.                          *)
(*                                                                         *)
(* sqlite is external: one writer at a time holds the write lock, its      *)
(* statements work on `draft`, COMMIT publishes it, ROLLBACK or the death  *)
(* of the process drops it.                                                *)
(***************************************************************************)
EXTENDS Naturals, Sequences, SessionStatus

CONSTANTS
  Id,           \* session ids
  Thread,       \* checkpoint thread ids; a session's default is its own id
  Proc,         \* processes (pids), one connection each
  NoProc,       \* NULL
  Kind,         \* event kinds
  MaxRows,      \* bound: no call that adds to the trail or the queue is made beyond that
  MaxEvents,    \* bound: no event is queued beyond that
  MaxCrashes    \* bound: process deaths

StoreAssumption ==
  /\ NoProc \notin Proc
  /\ Id \subseteq Thread
  /\ "interrupt" \in Kind
  /\ MaxRows \in Nat /\ MaxEvents \in Nat /\ MaxCrashes \in Nat

VARIABLES
  rows, trail, events,   \* the three tables, as committed
  lock,                  \* the process that holds the write lock
  txn,                   \* the call each process is in
  mine,                  \* the sessions each process claimed and has not settled
  alive, crashes,
  acted                  \* ghost: how often each event was handed out by take()

tables == <<rows, trail, events>>
storeVars == <<tables, lock, txn, mine, alive, crashes, acted>>

Table == INSTANCE SessionTable WITH rows <- rows, trail <- trail, events <- events

(***************************************************************************)
(* The calls.                                                              *)
(***************************************************************************)
Create(s, t) == [call |-> "create", id |-> s, thread |-> t]

Transition(s, expect, to) ==
  [call |-> "transition", id |-> s, expect |-> expect, to |-> to]

Release(s) == [call |-> "release", id |-> s]

Push(s, kind) == [call |-> "push", id |-> s, kind |-> kind]

Take(s, kind) == [call |-> "take", id |-> s, kind |-> kind]

Consume(seqs) == [call |-> "consume", seqs |-> seqs]

NoCall == [call |-> "none"]

Calls ==
  [call : {"create"}, id : Id, thread : Thread]
    \cup [call : {"transition"}, id : Id, expect : SUBSET Status, to : Status]
    \cup [call : {"release"}, id : Id]
    \cup [call : {"push", "take"}, id : Id, kind : Kind]
    \cup [call : {"consume"}, seqs : SUBSET Nat]
    \cup {NoCall}

Committed == [rows |-> rows, trail |-> trail, events |-> events]

Empty == [rows |-> <<>>, trail |-> <<>>, events |-> <<>>]

Resting == [pc |-> "idle", op |-> NoCall, draft |-> Empty, got |-> {}]

At(p, step) == p \in alive /\ txn[p].pc = step

Op(p) == txn[p].op

Draft(p) == txn[p].draft

Become(p, local) == txn' = [txn EXCEPT ![p] = local]

(* Statement of p's transaction: the tables are now draft, step is next.    *)
Execute(p, draft, step) ==
  /\ Become(p, [txn[p] EXCEPT !.draft = draft, !.pc = step])
  /\ UNCHANGED <<tables, lock, mine, alive, crashes, acted>>

Call(p, op) ==
  /\ At(p, "idle")
  /\ Become(p, [Resting EXCEPT !.pc = "begin", !.op = op])
  /\ UNCHANGED <<tables, lock, mine, alive, crashes, acted>>

HasRoom == Len(trail) + Len(events) < MaxRows

(* What a process calls, given what it last read of the committed tables.   *)
CallCreate(p) ==
  \E s \in Id, t \in Thread : HasRoom /\ Call(p, Create(s, t))

(* Session.run claims a session it is not running already ...               *)
CallClaim(p) ==
  \E s \in DOMAIN rows \ mine[p] :
    HasRoom /\ Call(p, Transition(s, Resumable, "running"))

(* ... and settles it once.                                                 *)
CallSettle(p) ==
  \E s \in mine[p], to \in Settled : Call(p, Transition(s, {"running"}, to))

(* Session.terminate reads the row first; transition() then expects nothing.*)
CallTerminate(p) ==
  \E s \in DOMAIN rows :
    /\ HasRoom
    /\ rows[s].status # "terminated"
    /\ Call(p, Transition(s, Status, "terminated"))

CallRelease(p) ==
  \E s \in DOMAIN rows : HasRoom /\ Call(p, Release(s))

CallPush(p) ==
  \E s \in DOMAIN rows, kind \in Kind :
    HasRoom /\ Len(events) < MaxEvents /\ Call(p, Push(s, kind))

(* The runner polls for a stop ...                                          *)
CallTake(p) == \E s \in mine[p] : Call(p, Take(s, "interrupt"))

(* ... and consumes everything else an earlier pending() returned to it.    *)
CallConsume(p) ==
  \E s \in mine[p] :
    LET seqs == {i \in DOMAIN events : /\ events[i].id = s
                                        /\ events[i].kind # "interrupt"
                                        /\ ~events[i].used}
    IN  seqs # {} /\ Call(p, Consume(seqs))

(***************************************************************************)
(* The transaction.                                                        *)
(***************************************************************************)
(* Mutant: a deferred transaction, which takes its lock at the first write. *)
Begin_Deferred(p) ==
  /\ At(p, "begin")
  /\ lock' = p
  /\ Become(p, [txn[p] EXCEPT !.pc = "check", !.draft = Committed])
  /\ UNCHANGED <<tables, mine, alive, crashes, acted>>

(* BEGIN IMMEDIATE: the write lock is taken before the read, not after it.  *)
BeginImmediate(p) ==
  /\ At(p, "begin")
  /\ lock = NoProc
  /\ lock' = p
  /\ Become(p, [txn[p] EXCEPT !.pc = "check", !.draft = Committed])
  /\ UNCHANGED <<tables, mine, alive, crashes, acted>>

(* A settle that is refused or raises ends its run() all the same.          *)
Forget(p) ==
  mine' = IF Op(p).call = "transition" /\ Op(p).expect = {"running"}
          THEN [mine EXCEPT ![p] = @ \ {Op(p).id}] ELSE mine

(* The busy timeout ends the wait: the call raises, nothing has happened.   *)
Busy(p) ==
  /\ At(p, "begin")
  /\ lock # NoProc
  /\ Become(p, Resting)
  /\ Forget(p)
  /\ UNCHANGED <<tables, lock, alive, crashes, acted>>

Known(p) == Op(p).id \in DOMAIN Draft(p).rows

RowOf(p) == Draft(p).rows[Op(p).id]

(* create: ThreadInUse; the primary key is checked by the insert itself.    *)
CreateOK(p) ==
  \A x \in DOMAIN Draft(p).rows :
    Draft(p).rows[x].thread = Op(p).thread => x = Op(p).id

(* transition: SessionBusy, then InvalidTransition.                         *)
TransitionOK(p) ==
  /\ Known(p)
  /\ RowOf(p).status \in Op(p).expect
  /\ Op(p).to \in Allowed(RowOf(p).status)

(* Mutant: the pid is not looked up.                                        *)
ReleaseOK_LivePid(p) ==
  Known(p) /\ RowOf(p).status = "running" /\ RowOf(p).runner # p

(* release_dead_runner: nothing but a running row whose recorded pid is     *)
(* another process's and names no live process is released.                 *)
ReleaseOK(p) ==
  /\ Known(p)
  /\ RowOf(p).status = "running"
  /\ RowOf(p).runner \in Proc \ alive

PushOK(p) == Known(p) /\ RowOf(p).status # "terminated"

(* Mutant: consumed events are not left out.                                *)
Candidates_AnyUsed(p) ==
  {i \in DOMAIN Draft(p).events :
     Draft(p).events[i].id = Op(p).id /\ Draft(p).events[i].kind = Op(p).kind}

(* The events take() selects the oldest of.                                 *)
Candidates(p) ==
  {i \in DOMAIN Draft(p).events :
     /\ Draft(p).events[i].id = Op(p).id
     /\ Draft(p).events[i].kind = Op(p).kind
     /\ ~Draft(p).events[i].used}

TakeOK(p) == Candidates(p) # {}

Accepted(p) ==
  CASE Op(p).call = "create"     -> CreateOK(p)
    [] Op(p).call = "transition" -> TransitionOK(p)
    [] Op(p).call = "release"    -> ReleaseOK(p)
    [] Op(p).call = "push"       -> PushOK(p)
    [] Op(p).call = "take"       -> TakeOK(p)
    [] OTHER                     -> TRUE

(* The reads a call makes before it writes.                                 *)
Check(p) ==
  /\ At(p, "check")
  /\ Accepted(p)
  /\ Execute(p, Draft(p), "write")

(* Mutant: the exception skips the ROLLBACK.                                *)
Refuse_KeepsLock(p) ==
  /\ \/ At(p, "check") /\ ~Accepted(p)
     \/ At(p, "write") /\ Op(p).call = "create" /\ Known(p)
  /\ Become(p, Resting)
  /\ Forget(p)
  /\ UNCHANGED <<tables, lock, alive, crashes, acted>>

(* The exception rolls the transaction back and leaves the call.            *)
Refuse(p) ==
  /\ \/ At(p, "check") /\ ~Accepted(p)
     \/ At(p, "write") /\ Op(p).call = "create" /\ Known(p)
  /\ lock' = NoProc
  /\ Become(p, Resting)
  /\ Forget(p)
  /\ UNCHANGED <<tables, alive, crashes, acted>>

WriteTable(p, new) == [Draft(p) EXCEPT !.rows = Table!Put(@, Op(p).id, new)]

(* SessionExists is what remains of Create once its id is known.            *)
WriteCreate(p) ==
  /\ At(p, "write")
  /\ Op(p).call = "create"
  /\ ~Known(p)
  /\ Execute(p, WriteTable(p, [thread |-> Op(p).thread, status |-> "created",
                               runner |-> NoProc]), "trail")

(* runner_pid is stamped on the way into running and cleared on the way out.*)
WriteTransition(p) ==
  /\ At(p, "write")
  /\ Op(p).call = "transition"
  /\ Execute(p, WriteTable(p, [RowOf(p) EXCEPT !.status = Op(p).to,
                                 !.runner = IF Op(p).to = "running" THEN p ELSE NoProc]),
             "trail")

(* Mutant: the hand-written UPDATE, which writes no transition row.         *)
WriteRelease_NoTrail(p) ==
  /\ At(p, "write")
  /\ Op(p).call = "release"
  /\ Execute(p, WriteTable(p, [RowOf(p) EXCEPT !.status = "failed", !.runner = NoProc]),
             "commit")

WriteRelease(p) ==
  /\ At(p, "write")
  /\ Op(p).call = "release"
  /\ Execute(p, WriteTable(p, [RowOf(p) EXCEPT !.status = "failed", !.runner = NoProc]),
             "trail")

Target(p) ==
  CASE Op(p).call = "create"  -> "created"
    [] Op(p).call = "release" -> "failed"
    [] OTHER                  -> Op(p).to

(* The row before this transaction, which holds the lock, changed it.       *)
Origin(p) == IF Op(p).id \in DOMAIN rows THEN rows[Op(p).id].status ELSE "absent"

WriteTrail(p) ==
  /\ At(p, "trail")
  /\ Execute(p, [Draft(p) EXCEPT !.trail =
                   Append(@, [id |-> Op(p).id, from |-> Origin(p), to |-> Target(p)])],
             "commit")

WriteEvent(p) ==
  /\ At(p, "write")
  /\ Op(p).call = "push"
  /\ Execute(p, [Draft(p) EXCEPT !.events =
                   Append(@, [id |-> Op(p).id, kind |-> Op(p).kind, used |-> FALSE])],
             "commit")

(* The rows the UPDATE of take() and of consume() touches.                  *)
Oldest(S) == CHOOSE i \in S : \A j \in S : i <= j

Touched(p) ==
  IF Op(p).call = "take" THEN {Oldest(Candidates(p))}
  ELSE {i \in Op(p).seqs \cap DOMAIN Draft(p).events : ~Draft(p).events[i].used}

Marked(queue, S) == [i \in DOMAIN queue |-> [queue[i] EXCEPT !.used = @ \/ i \in S]]

WriteUse(p) ==
  /\ At(p, "write")
  /\ Op(p).call \in {"take", "consume"}
  /\ Become(p, [txn[p] EXCEPT !.pc = "commit", !.got = Touched(p),
                          !.draft = [Draft(p) EXCEPT !.events = Marked(@, Touched(p))]])
  /\ UNCHANGED <<tables, lock, mine, alive, crashes, acted>>

(* What the caller knows once its call has returned.                        *)
Returned(p) ==
  /\ mine' = CASE Op(p).call = "transition" /\ Op(p).to = "running" ->
                    [mine EXCEPT ![p] = @ \cup {Op(p).id}]
               [] Op(p).call = "transition" /\ Op(p).to # "running" /\ Op(p).to # "terminated" ->
                    [mine EXCEPT ![p] = @ \ {Op(p).id}]
               [] OTHER -> mine
  /\ acted' = IF Op(p).call # "take" THEN acted
              ELSE [i \in DOMAIN acted |->
                      IF i \in txn[p].got THEN acted[i] + 1 ELSE acted[i]]

Commit(p) ==
  /\ At(p, "commit")
  /\ rows' = Draft(p).rows
  /\ trail' = Draft(p).trail
  /\ events' = Draft(p).events
  /\ lock' = NoProc
  /\ Become(p, Resting)
  /\ Returned(p)
  /\ UNCHANGED <<alive, crashes>>

(***************************************************************************)
(* Processes.                                                              *)
(***************************************************************************)
Crash(p) ==
  /\ p \in alive
  /\ crashes < MaxCrashes
  /\ crashes' = crashes + 1
  /\ alive' = alive \ {p}
  /\ lock' = IF lock = p THEN NoProc ELSE lock
  /\ mine' = [mine EXCEPT ![p] = {}]
  /\ Become(p, Resting)
  /\ UNCHANGED <<tables, acted>>

(* A new process under the pid of a dead one.                               *)
Respawn(p) ==
  /\ p \in Proc \ alive
  /\ alive' = alive \cup {p}
  /\ UNCHANGED <<tables, lock, txn, mine, crashes, acted>>

StoreInit ==
  /\ rows = <<>> /\ trail = <<>> /\ events = <<>>
  /\ lock = NoProc
  /\ txn = [p \in Proc |-> Resting]
  /\ mine = [p \in Proc |-> {}]
  /\ alive = Proc
  /\ crashes = 0
  /\ acted = [i \in 1..MaxEvents |-> 0]

(* One step of the call process p is in.                                    *)
Statement(p) ==
  \/ BeginImmediate(p) \/ Busy(p) \/ Check(p) \/ Refuse(p)
  \/ WriteCreate(p) \/ WriteTransition(p) \/ WriteRelease(p) \/ WriteTrail(p)
  \/ WriteEvent(p) \/ WriteUse(p) \/ Commit(p)

StoreNext ==
  \E p \in Proc :
    \/ CallCreate(p) \/ CallClaim(p) \/ CallSettle(p) \/ CallTerminate(p)
    \/ CallRelease(p) \/ CallPush(p) \/ CallTake(p) \/ CallConsume(p)
    \/ Statement(p)
    \/ Crash(p) \/ Respawn(p)

StoreSpec == StoreInit /\ [][StoreNext]_storeVars

(***************************************************************************)
(* Properties.                                                             *)
(***************************************************************************)
(* The values the variables range over.                                     *)
Database == [rows : UNION {[D -> Table!Row] : D \in SUBSET Id},
             trail : Seq(Table!Change), events : Seq(Table!Event)]

Local == [pc : {"idle", "begin", "check", "write", "trail", "commit"}, op : Calls,
          draft : Database, got : SUBSET Nat]

StoreTypeOK ==
  /\ Committed \in Database
  /\ lock \in Proc \cup {NoProc}
  /\ txn \in [Proc -> Local]
  /\ mine \in [Proc -> SUBSET Id]
  /\ alive \subseteq Proc
  /\ crashes \in Nat
  /\ acted \in [1..MaxEvents -> Nat]

(* The audit trail tells each session's whole life: the changes recorded    *)
(* for it start at its creation, follow one another along legal edges and   *)
(* end at the status its row has, through every reclaim and crash.          *)
ChangesOf(s) == {i \in DOMAIN trail : trail[i].id = s}

Follows(j, i, s) == j < i /\ \A k \in ChangesOf(s) : k <= j \/ i <= k

EndsAtTheRow(s) ==
  IF s \in DOMAIN rows
  THEN \E n \in ChangesOf(s) : (\A i \in ChangesOf(s) : i <= n) /\ trail[n].to = rows[s].status
  ELSE ChangesOf(s) = {}

Continues(i, s) ==
  \/ trail[i].from = "absent" /\ trail[i].to = "created" /\ \A j \in ChangesOf(s) : i <= j
  \/ \E j \in ChangesOf(s) : /\ Follows(j, i, s)
                             /\ trail[i].from = trail[j].to
                             /\ trail[i].to \in Allowed(trail[i].from)

TrailTellsTheRow ==
  \A s \in Id : EndsAtTheRow(s) /\ \A i \in ChangesOf(s) : Continues(i, s)

(* A claim is exclusive: a process that holds one is the process the row    *)
(* names, until the session is terminated under it.  In particular no       *)
(* reclaim takes it from a process that lives, even when the pid it looked  *)
(* up was dead, and is taken by another process before the reclaim lands.   *)
ClaimIsExclusive ==
  \A p \in Proc : \A s \in mine[p] :
    \/ rows[s].status = "terminated"
    \/ rows[s].status = "running" /\ rows[s].runner = p

(* Two runners polling the same session cannot both act on one interrupt.   *)
TakenOnce == \A i \in DOMAIN acted : acted[i] <= 1

(* Readers outside the transaction, and whoever opens the file after a      *)
(* crash, only ever see whole operations.                                   *)
ImplementsTable == Table!Spec

(* No refusal, no error and no crash leaves the database locked: whoever    *)
(* holds the write lock lives and is inside its transaction.  (With the     *)
(* type invariant.)                                                         *)
LockIsInUse ==
  /\ StoreTypeOK
  /\ lock # NoProc =>
       lock \in alive /\ txn[lock].pc \in {"check", "write", "trail", "commit"}

(* What the tables say of a session is one story, whoever died in it.       *)
TablesAreSound == TrailTellsTheRow /\ ClaimIsExclusive /\ TakenOnce /\ LockIsInUse
=============================================================================
