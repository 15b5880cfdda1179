------------------------------ MODULE StoreProofs ------------------------------
(* Proofs about what outlives a process: SessionStore, for any sessions,     *)
(* threads, processes and bounds; ArtifactStore, for any contents, writers   *)
(* and bounds; ClaimStore, for any claims and any number of agents.          *)
(* StoreAssumption and ArtifactAssumption are what the instances of the two  *)
(* modules meet.                                                             *)
EXTENDS SessionStore, ArtifactStore, Retrieval, WellFoundedInduction, FiniteSetTheorems, TLAPS

(***************************************************************************)
(* The inductive invariant.                                                *)
(***************************************************************************)
Inside == {"check", "write", "trail", "commit"}

(* What a process that makes a call asks for.                               *)
Asked(p) ==
  Op(p).call = "transition" =>
    \/ Op(p).expect = Resumable /\ Op(p).to = "running"
    \/ Op(p).expect = {"running"} /\ Op(p).to \in Settled /\ Op(p).id \in mine[p]
    \/ Op(p).expect = Status /\ Op(p).to = "terminated"

(* What its reads have settled, of the tables as they are committed: nobody *)
(* else writes before it is done, so this stays true.                       *)
Row(p) == rows[Op(p).id]

Granted(p) ==
  CASE Op(p).call = "create" -> \A x \in DOMAIN rows : rows[x].thread = Op(p).thread => x = Op(p).id
    [] Op(p).call = "transition" ->
         /\ Op(p).id \in DOMAIN rows /\ Row(p).status \in Op(p).expect
         /\ Op(p).to \in Allowed(Row(p).status)
    [] Op(p).call = "release" ->
         /\ Op(p).id \in DOMAIN rows /\ Row(p).status = "running"
         /\ \A q \in Proc : Op(p).id \notin mine[q]
    [] Op(p).call = "push" -> Op(p).id \in DOMAIN rows /\ Row(p).status # "terminated"
    [] OTHER -> TRUE

Moves(p) == Op(p).call \in {"create", "transition", "release"}

NewRow(p) ==
  CASE Op(p).call = "create" -> [thread |-> Op(p).thread, status |-> "created", runner |-> NoProc]
    [] Op(p).call = "release" -> [Row(p) EXCEPT !.status = "failed", !.runner = NoProc]
    [] OTHER -> [Row(p) EXCEPT !.status = Op(p).to,
                               !.runner = IF Op(p).to = "running" THEN p ELSE NoProc]

NewRows(p) == Table!Put(rows, Op(p).id, NewRow(p))

(* The draft of a transaction, statement by statement.                      *)
Drafted(p) ==
  /\ txn[p].pc = "check" => Draft(p) = Committed
  /\ txn[p].pc = "write" =>
       Draft(p) = Committed /\ Granted(p) /\ (Op(p).call = "take" => Candidates(p) # {})
  /\ txn[p].pc = "trail" =>
       /\ Draft(p) = [rows |-> NewRows(p), trail |-> trail, events |-> events]
       /\ Moves(p) /\ Granted(p) /\ (Op(p).call = "create" => Op(p).id \notin DOMAIN rows)
  /\ txn[p].pc = "commit" /\ Moves(p) =>
       /\ Draft(p) = [rows |-> NewRows(p),
                      trail |-> Append(trail, [id |-> Op(p).id, from |-> Origin(p), to |-> Target(p)]),
                      events |-> events]
       /\ Granted(p) /\ (Op(p).call = "create" => Op(p).id \notin DOMAIN rows)
  /\ txn[p].pc = "commit" /\ ~Moves(p) =>
       /\ Draft(p).rows = rows /\ Draft(p).trail = trail
       /\ \/ /\ Op(p).call = "push" /\ Granted(p)
             /\ Draft(p).events =
                  Append(events, [id |-> Op(p).id, kind |-> Op(p).kind, used |-> FALSE])
          \/ /\ Op(p).call \in {"take", "consume"}
             /\ txn[p].got \subseteq {i \in DOMAIN events : ~events[i].used}
             /\ Draft(p).events = Marked(events, txn[p].got)

(* Who is inside holds the lock, whoever holds it lives and is inside, and  *)
(* a dead process has nothing.                                              *)
Locking ==
  /\ \A p \in Proc : txn[p].pc \in Inside => lock = p
  /\ lock # NoProc => lock \in alive /\ txn[lock].pc \in Inside
  /\ \A p \in Proc \ alive : mine[p] = {} /\ txn[p].pc = "idle"

(* An interrupt that was handed out is marked.                              *)
HandedOut ==
  \A i \in 1..MaxEvents : acted[i] = 0 \/ (acted[i] = 1 /\ i \in DOMAIN events /\ events[i].used)

IInv ==
  /\ StoreTypeOK /\ Locking /\ HandedOut /\ ClaimIsExclusive /\ TrailTellsTheRow
  /\ \A p \in Proc : txn[p].pc # "idle" => Asked(p) /\ Drafted(p)
  /\ \A p \in Proc : mine[p] \subseteq DOMAIN rows

(***************************************************************************)
(* Calls, tables and drafts.                                               *)
(***************************************************************************)
LEMMA CallIs ==
  ASSUME NEW op \in Calls
  PROVE  /\ op.call \in {"create", "transition", "release", "push", "take", "consume", "none"}
         /\ op.call \in {"create", "transition", "release", "push", "take"} => op.id \in Id
         /\ op.call = "create" => op.thread \in Thread
         /\ op.call = "transition" => op.expect \subseteq Status /\ op.to \in Status
         /\ op.call \in {"push", "take"} => op.kind \in Kind
BY DEF Calls, NoCall

LEMMA CallsAre ==
  /\ \A s \in Id, t \in Thread : Create(s, t) \in Calls
  /\ \A s \in Id, e \in SUBSET Status, to \in Status : Transition(s, e, to) \in Calls
  /\ \A s \in Id : Release(s) \in Calls
  /\ \A s \in Id, k \in Kind : Push(s, k) \in Calls /\ Take(s, k) \in Calls
  /\ \A S \in SUBSET Nat : Consume(S) \in Calls
  /\ NoCall \in Calls
BY DEF Calls, Create, Transition, Release, Push, Take, Consume, NoCall

Tables == UNION {[D -> Table!Row] : D \in SUBSET Id}

LEMMA TablesAre ==
  ASSUME NEW f
  PROVE  f \in Tables <=> /\ f = [x \in DOMAIN f |-> f[x]] /\ DOMAIN f \subseteq Id
                          /\ \A x \in DOMAIN f : f[x] \in Table!Row
<1>1. ASSUME f \in Tables
      PROVE  /\ f = [x \in DOMAIN f |-> f[x]] /\ DOMAIN f \subseteq Id
             /\ \A x \in DOMAIN f : f[x] \in Table!Row
  <2>1. PICK D \in SUBSET Id : f \in [D -> Table!Row]
    BY <1>1 DEF Tables
  <2>. QED  BY <2>1
<1>2. ASSUME f = [x \in DOMAIN f |-> f[x]], DOMAIN f \subseteq Id,
             \A x \in DOMAIN f : f[x] \in Table!Row
      PROVE  f \in Tables
  <2>1. f \in [DOMAIN f -> Table!Row]
    BY <1>2
  <2>. QED  BY <2>1, <1>2 DEF Tables
<1>. QED  BY <1>1, <1>2

LEMMA PutIs ==
  ASSUME NEW table \in Tables, NEW s \in Id, NEW row \in Table!Row
  PROVE  /\ Table!Put(table, s, row) \in Tables
         /\ DOMAIN Table!Put(table, s, row) = DOMAIN table \cup {s}
         /\ Table!Put(table, s, row)[s] = row
         /\ \A x \in DOMAIN table : x # s => Table!Put(table, s, row)[x] = table[x]
<1>. DEFINE f == Table!Put(table, s, row)
<1>1. f = [x \in DOMAIN table \cup {s} |-> IF x = s THEN row ELSE table[x]]
  BY DEF Table!Put
<1>2. DOMAIN table \subseteq Id /\ \A x \in DOMAIN table : table[x] \in Table!Row
  BY TablesAre
<1>. HIDE DEF f
<1>3. DOMAIN f = DOMAIN table \cup {s} /\ f = [x \in DOMAIN f |-> f[x]]
  BY <1>1
<1>4. f[s] = row /\ \A x \in DOMAIN table : x # s => f[x] = table[x]
  BY <1>1
<1>5. \A x \in DOMAIN f : f[x] \in Table!Row
  BY <1>2, <1>3, <1>4
<1>6. f \in Tables
  BY <1>2, <1>3, <1>5, TablesAre
<1>. QED  BY <1>3, <1>4, <1>6 DEF f

LEMMA DatabaseIs ==
  ASSUME NEW db
  PROVE  /\ db \in Database =>
              /\ db.rows \in Tables /\ db.trail \in Seq(Table!Change) /\ db.events \in Seq(Table!Event)
              /\ db = [rows |-> db.rows, trail |-> db.trail, events |-> db.events]
         /\ \A r \in Tables, t \in Seq(Table!Change), e \in Seq(Table!Event) :
              [rows |-> r, trail |-> t, events |-> e] \in Database
BY DEF Database, Tables

(* A nonempty set of places has a first one.                                *)
LEMMA OldestIs ==
  ASSUME NEW S \in SUBSET Nat, S # {}
  PROVE  Oldest(S) \in S /\ \A j \in S : Oldest(S) <= j
<1>1. \E x \in S : \A y \in S : ~ (<<y, x>> \in OpToRel(<, Nat))
  BY NatLessThanWellFounded, WFMin
<1>2. \A x, y \in Nat : y < x => <<y, x>> \in OpToRel(<, Nat)
  BY DEF OpToRel
<1>3. \E x \in S : \A y \in S : x <= y
  <2>1. PICK x \in S : \A y \in S : ~ (<<y, x>> \in OpToRel(<, Nat))
    BY <1>1
  <2>2. \A y \in S : ~ (y < x)
    BY <1>2, <2>1
  <2>. QED  BY <2>2
<1>. QED  BY <1>3 DEF Oldest

LEMMA IdleIs == Resting \in Local /\ Resting.pc = "idle" /\ Empty \in Database
<1>1. <<>> \in [{} -> Table!Row]
  <2>1. <<>> \in Seq(Table!Row) /\ Len(<<>>) = 0
    OBVIOUS
  <2>2. <<>> \in [1..0 -> Table!Row] /\ 1..0 = {}
    BY <2>1
  <2>. QED  BY <2>2
<1>2. <<>> \in Tables /\ <<>> \in Seq(Table!Change) /\ <<>> \in Seq(Table!Event)
  BY <1>1 DEF Tables
<1>3. Empty \in Database
  BY <1>2, DatabaseIs, Zenon DEF Empty
<1>. QED  BY <1>3, CallsAre DEF Resting, Local

LEMMA InitIsInv == ASSUME StoreAssumption PROVE StoreInit => IInv
<1>. SUFFICES ASSUME StoreInit PROVE IInv
  OBVIOUS
<1>1. /\ rows = <<>> /\ trail = <<>> /\ events = <<>> /\ lock = NoProc /\ alive = Proc
      /\ txn = [p \in Proc |-> Resting] /\ mine = [p \in Proc |-> {}] /\ crashes = 0
      /\ acted = [i \in 1..MaxEvents |-> 0]
  BY DEF StoreInit
<1>3. Committed \in Database
  <2>1. Committed = Empty
    BY <1>1 DEF Committed, Empty
  <2>. QED  BY <2>1, IdleIs
<1>4. Resting \in Local
  BY IdleIs
<1>5. StoreTypeOK
  BY <1>1, <1>3, <1>4 DEF StoreTypeOK
<1>6. \A p \in Proc : txn[p].pc = "idle"
  BY <1>1 DEF Resting
<1>7. Locking
  BY <1>1, <1>6, StoreAssumption DEF Locking, Inside
<1>8. HandedOut /\ ClaimIsExclusive
  BY <1>1 DEF HandedOut, ClaimIsExclusive
<1>9. TrailTellsTheRow
  BY <1>1 DEF TrailTellsTheRow, EndsAtTheRow, ChangesOf
<1>. QED  BY <1>1, <1>5, <1>6, <1>7, <1>8, <1>9 DEF IInv

(***************************************************************************)
(* The steps before a commit.                                              *)
(***************************************************************************)
(* Another process is outside, or nothing it has read changes under it.     *)
LEMMA OthersKeep ==
  ASSUME StoreAssumption, IInv, NEW p \in Proc, NEW q \in Proc, q # p,
         txn'[q] = txn[q], mine'[q] = mine[q],
         \/ UNCHANGED tables /\ \A r \in Proc : mine'[r] \subseteq mine[r]
         \/ lock \in {p, NoProc}
  PROVE  txn'[q].pc # "idle" => Asked(q)' /\ Drafted(q)'
<1>. SUFFICES ASSUME txn'[q].pc # "idle" PROVE Asked(q)' /\ Drafted(q)'
  OBVIOUS
<1>1. Asked(q) /\ Drafted(q)
  BY DEF IInv
<1>2. Op(q)' = Op(q) /\ Draft(q)' = Draft(q)
  BY DEF Op, Draft
<1>3. Asked(q)'
  BY <1>1, <1>2 DEF Asked
<1>4. CASE lock \in {p, NoProc}
  <2>1. txn'[q].pc \notin Inside
    BY <1>4, StoreAssumption DEF IInv, Locking, StoreAssumption
  <2>2. Drafted(q)'
    BY <2>1 DEF Drafted, Inside
  <2>. QED  BY <1>3, <2>2
<1>5. CASE UNCHANGED tables /\ \A r \in Proc : mine'[r] \subseteq mine[r]
  <2>1. rows' = rows /\ trail' = trail /\ events' = events /\ Committed' = Committed
    BY <1>5 DEF tables, Committed
  <2>2. Row(q)' = Row(q) /\ Moves(q)' = Moves(q) /\ Origin(q)' = Origin(q) /\ Target(q)' = Target(q)
    BY <1>2, <2>1 DEF Row, Moves, Origin, Target
  <2>3. NewRows(q)' = NewRows(q) /\ Candidates(q)' = Candidates(q)
    BY <1>2, <2>1, <2>2 DEF NewRows, NewRow, Candidates
  <2>4. Granted(q) => Granted(q)'
    <3>1. (\A r \in Proc : Op(q).id \notin mine[r]) => (\A r \in Proc : Op(q).id \notin mine'[r])
      BY <1>5
    <3>. QED  BY <1>2, <2>1, <2>2, <3>1 DEF Granted
  <2>5. Drafted(q)'
    BY <1>1, <1>2, <2>1, <2>2, <2>3, <2>4 DEF Drafted
  <2>. QED  BY <1>3, <2>5
<1>. QED  BY <1>4, <1>5

(* The tables and what take() handed out stay as they are.                  *)
LEMMA QuietKeeps ==
  ASSUME StoreAssumption, IInv, NEW p \in Proc, UNCHANGED <<tables, acted>>,
         txn' \in [Proc -> Local], mine' \in [Proc -> SUBSET Id],
         \A q \in Proc : q # p => txn'[q] = txn[q] /\ mine'[q] = mine[q],
         mine'[p] \subseteq mine[p],
         lock' \in Proc \cup {NoProc}, alive' \subseteq Proc, crashes' \in Nat, Locking',
         txn'[p].pc # "idle" => Asked(p)' /\ Drafted(p)'
  PROVE  IInv'
<1>1. rows' = rows /\ trail' = trail /\ events' = events /\ acted' = acted /\ Committed' = Committed
  BY DEF tables, Committed
<1>2. \A r \in Proc : mine'[r] \subseteq mine[r]
  OBVIOUS
<1>3. StoreTypeOK'
  BY <1>1 DEF IInv, StoreTypeOK
<1>4. HandedOut' /\ ClaimIsExclusive' /\ \A q \in Proc : mine'[q] \subseteq DOMAIN rows'
  BY <1>1, <1>2 DEF IInv, HandedOut, ClaimIsExclusive
<1>5. TrailTellsTheRow'
  BY <1>1 DEF IInv, TrailTellsTheRow, EndsAtTheRow, Continues, ChangesOf, Follows
<1>6. ASSUME NEW q \in Proc, txn'[q].pc # "idle"
      PROVE  Asked(q)' /\ Drafted(q)'
  <2>1. CASE q = p
    BY <1>6, <2>1
  <2>2. CASE q # p
    <3>1. UNCHANGED tables
      OBVIOUS
    <3>. QED  BY <1>2, <1>6, <2>2, <3>1, OthersKeep
  <2>. QED  BY <2>1, <2>2
<1>. QED  BY <1>3, <1>4, <1>5, <1>6 DEF IInv

LEMMA CallKeeps ==
  ASSUME StoreAssumption, IInv, NEW p \in Proc, NEW op \in Calls, Call(p, op),
         op.call = "transition" =>
           \/ op.expect = Resumable /\ op.to = "running"
           \/ op.expect = {"running"} /\ op.to \in Settled /\ op.id \in mine[p]
           \/ op.expect = Status /\ op.to = "terminated"
  PROVE  IInv'
<1>. DEFINE new == [Resting EXCEPT !.pc = "begin", !.op = op]
<1>1. /\ p \in alive /\ txn[p].pc = "idle" /\ txn' = [txn EXCEPT ![p] = new]
      /\ UNCHANGED <<tables, lock, mine, alive, crashes, acted>>
  BY DEF Call, At, Become
<1>2. new.pc = "begin" /\ new.op = op /\ new \in Local
  <2>1. Resting \in Local /\ Resting.pc = "idle"
    BY IdleIs
  <2>. HIDE DEF Resting
  <2>. QED  BY <2>1 DEF Local
<1>. HIDE DEF new
<1>3. /\ txn' \in [Proc -> Local] /\ txn'[p] = new
      /\ \A q \in Proc : q # p => txn'[q] = txn[q]
  BY <1>1, <1>2 DEF IInv, StoreTypeOK
<1>4. Asked(p)' /\ Drafted(p)'
  BY <1>1, <1>2, <1>3 DEF Asked, Drafted, Op
<1>5. Locking'
  BY <1>1, <1>2, <1>3 DEF IInv, Locking, Inside
<1>. QED  BY <1>1, <1>3, <1>4, <1>5, QuietKeeps DEF IInv, StoreTypeOK

LEMMA RowsAre ==
  ASSUME StoreTypeOK
  PROVE  /\ rows \in Tables /\ DOMAIN rows \subseteq Id /\ \A s \in DOMAIN rows : rows[s] \in Table!Row
         /\ trail \in Seq(Table!Change) /\ events \in Seq(Table!Event)
<1>1. Committed \in Database
  BY DEF StoreTypeOK
<1>2. rows \in Tables /\ trail \in Seq(Table!Change) /\ events \in Seq(Table!Event)
  BY <1>1, DatabaseIs DEF Committed
<1>. QED  BY <1>2, TablesAre

LEMMA CallsKeep ==
  ASSUME StoreAssumption, IInv, NEW p \in Proc,
         \/ CallCreate(p) \/ CallClaim(p) \/ CallSettle(p) \/ CallTerminate(p)
         \/ CallRelease(p) \/ CallPush(p) \/ CallTake(p) \/ CallConsume(p)
  PROVE  IInv'
<1>. USE DEF Create, Transition, Release, Push, Take, Consume
<1>0. /\ DOMAIN rows \subseteq Id /\ mine[p] \subseteq Id
      /\ Resumable \subseteq Status /\ Settled \subseteq Status /\ "running" \in Status
      /\ "terminated" \in Status /\ "interrupt" \in Kind
  BY RowsAre DEF IInv, StoreTypeOK, Resumable, Settled, Allowed, Status, StoreAssumption
<1>1. ASSUME NEW s \in Id, NEW t \in Thread, Call(p, Create(s, t)) PROVE IInv'
  <2>1. Create(s, t) \in Calls /\ Create(s, t).call # "transition"
    BY CallsAre
  <2>. QED  BY <1>1, <2>1, CallKeeps
<1>2. ASSUME NEW s \in Id, NEW e \in SUBSET Status, NEW to \in Status, Call(p, Transition(s, e, to)),
             \/ e = Resumable /\ to = "running"
             \/ e = {"running"} /\ to \in Settled /\ s \in mine[p]
             \/ e = Status /\ to = "terminated"
      PROVE  IInv'
  <2>1. /\ Transition(s, e, to) \in Calls /\ Transition(s, e, to).expect = e
        /\ Transition(s, e, to).to = to /\ Transition(s, e, to).id = s
    BY CallsAre
  <2>. QED  BY <1>2, <2>1, CallKeeps
<1>3. ASSUME NEW s \in Id, Call(p, Release(s)) PROVE IInv'
  <2>1. Release(s) \in Calls /\ Release(s).call # "transition"
    BY CallsAre
  <2>. QED  BY <1>3, <2>1, CallKeeps
<1>4. ASSUME NEW s \in Id, NEW k \in Kind, Call(p, Push(s, k)) \/ Call(p, Take(s, k)) PROVE IInv'
  <2>1. /\ Push(s, k) \in Calls /\ Push(s, k).call # "transition"
        /\ Take(s, k) \in Calls /\ Take(s, k).call # "transition"
    BY CallsAre
  <2>. QED  BY <1>4, <2>1, CallKeeps
<1>5. ASSUME NEW S \in SUBSET Nat, Call(p, Consume(S)) PROVE IInv'
  <2>1. Consume(S) \in Calls /\ Consume(S).call # "transition"
    BY CallsAre
  <2>. QED  BY <1>5, <2>1, CallKeeps
<1>6. CASE CallCreate(p)
  BY <1>1, <1>6 DEF CallCreate
<1>7. CASE CallClaim(p)
  BY <1>0, <1>2, <1>7 DEF CallClaim
<1>8. CASE CallSettle(p)
  <2>1. {"running"} \in SUBSET Status
    BY <1>0
  <2>. QED  BY <1>0, <1>2, <1>8, <2>1 DEF CallSettle
<1>9. CASE CallTerminate(p)
  <2>1. Status \in SUBSET Status
    OBVIOUS
  <2>. QED  BY <1>0, <1>2, <1>9, <2>1 DEF CallTerminate
<1>10. CASE CallRelease(p)
  BY <1>0, <1>3, <1>10 DEF CallRelease
<1>11. CASE CallPush(p) \/ CallTake(p)
  BY <1>0, <1>4, <1>11 DEF CallPush, CallTake
<1>12. CASE CallConsume(p)
  <2>1. PICK s \in mine[p] : Call(p, Consume({i \in DOMAIN events : /\ events[i].id = s
                                        /\ events[i].kind # "interrupt" /\ ~events[i].used}))
    BY <1>12 DEF CallConsume
  <2>2. DOMAIN events \subseteq Nat
    BY RowsAre DEF IInv
  <2>. QED  BY <1>5, <2>1, <2>2
<1>. QED  BY <1>6, <1>7, <1>8, <1>9, <1>10, <1>11, <1>12

(***************************************************************************)
(* The statements of a transaction.                                        *)
(***************************************************************************)
LEMMA LocalIs ==
  ASSUME NEW l \in Local
  PROVE  /\ l.op \in Calls /\ l.draft \in Database /\ l.got \in SUBSET Nat
         /\ l.pc \in {"idle", "begin", "check", "write", "trail", "commit"}
BY DEF Local

Stepped(l, d, step) == [l EXCEPT !.draft = d, !.pc = step]

LEMMA SteppedIs ==
  ASSUME NEW l \in Local, NEW d \in Database, NEW step \in Inside
  PROVE  /\ Stepped(l, d, step) \in Local
         /\ Stepped(l, d, step).draft = d
         /\ Stepped(l, d, step).pc = step
         /\ Stepped(l, d, step).op = l.op
         /\ Stepped(l, d, step).got = l.got
BY DEF Local, Inside, Stepped

(* A process inside its transaction is the only one that is.                *)
LEMMA AloneInside ==
  ASSUME StoreAssumption, IInv, NEW p \in Proc, txn[p].pc \in Inside
  PROVE  /\ lock = p /\ p \in alive /\ txn[p] \in Local /\ Op(p) \in Calls
         /\ Draft(p) \in Database /\ Asked(p) /\ Drafted(p)
         /\ Committed \in Database
<1>1. lock = p /\ p \in alive
  BY StoreAssumption DEF IInv, Locking, StoreAssumption
<1>2. txn[p] \in Local /\ Committed \in Database
  BY DEF IInv, StoreTypeOK
<1>3. Op(p) \in Calls /\ Draft(p) \in Database
  BY <1>2, LocalIs DEF Op, Draft
<1>4. Asked(p) /\ Drafted(p)
  BY DEF IInv, Inside
<1>. QED  BY <1>1, <1>2, <1>3, <1>4

LEMMA InsideKeeps ==
  ASSUME StoreAssumption, IInv, NEW p \in Proc, txn[p].pc \in Inside, NEW new \in Local,
         new.pc \in Inside, new.op = txn[p].op, txn' = [txn EXCEPT ![p] = new],
         UNCHANGED <<tables, lock, mine, alive, crashes, acted>>
  PROVE  /\ txn'[p] = new /\ Op(p)' = Op(p) /\ Draft(p)' = new.draft
         /\ rows' = rows /\ trail' = trail /\ events' = events /\ mine' = mine
         /\ Drafted(p)' => IInv'
<1>1. lock = p /\ p \in alive /\ Asked(p)
  BY AloneInside
<1>2. txn \in [Proc -> Local]
  BY DEF IInv, StoreTypeOK
<1>3. txn' \in [Proc -> Local] /\ txn'[p] = new /\ \A q \in Proc : q # p => txn'[q] = txn[q]
  BY <1>2
<1>4. Op(p)' = Op(p) /\ Draft(p)' = new.draft
  BY <1>3 DEF Op, Draft
<1>5. ASSUME Drafted(p)' PROVE IInv'
  <2>1. Asked(p)'
    BY <1>1, <1>4 DEF Asked
  <2>2. Locking'
    <3>1. \A q \in Proc : txn'[q].pc \in Inside => lock' = q
      BY <1>1, <1>3 DEF IInv, Locking
    <3>2. lock' = p /\ p \in alive' /\ txn'[p].pc \in Inside
      BY <1>1, <1>3
    <3>3. \A q \in Proc \ alive' : q # p /\ mine'[q] = {} /\ txn'[q].pc = "idle"
      BY <1>1, <1>3 DEF IInv, Locking
    <3>4. txn'[lock'].pc \in Inside
      BY <3>2, Zenon
    <3>. QED  BY <3>1, <3>2, <3>3, <3>4 DEF Locking, Inside
  <2>3. /\ mine' \in [Proc -> SUBSET Id] /\ lock' \in Proc \cup {NoProc}
        /\ alive' \subseteq Proc /\ crashes' \in Nat
    BY DEF IInv, StoreTypeOK
  <2>. QED  BY <1>3, <1>5, <2>1, <2>2, <2>3, QuietKeeps
<1>. QED  BY <1>3, <1>4, <1>5 DEF tables

LEMMA ExecuteIs ==
  ASSUME StoreAssumption, IInv, NEW p \in Proc, txn[p].pc \in Inside,
         NEW d \in Database, NEW step \in Inside, Execute(p, d, step)
  PROVE  /\ txn'[p].pc = step /\ Op(p)' = Op(p) /\ Draft(p)' = d
         /\ rows' = rows /\ trail' = trail /\ events' = events /\ mine' = mine
         /\ Drafted(p)' => IInv'
<1>. DEFINE new == Stepped(txn[p], d, step)
<1>1. /\ txn' = [txn EXCEPT ![p] = new]
      /\ UNCHANGED <<tables, lock, mine, alive, crashes, acted>>
  BY DEF Execute, Become, Stepped
<1>2. txn[p] \in Local
  BY AloneInside
<1>3. new \in Local /\ new.draft = d /\ new.pc = step /\ new.op = txn[p].op
  BY <1>2, SteppedIs
<1>. HIDE DEF new
<1>. QED  BY <1>1, <1>3, InsideKeeps

LEMMA BeginKeeps ==
  ASSUME StoreAssumption, IInv, NEW p \in Proc, BeginImmediate(p)
  PROVE  IInv'
<1>. DEFINE new == Stepped(txn[p], Committed, "check")
<1>1. /\ p \in alive /\ txn[p].pc = "begin" /\ lock = NoProc /\ lock' = p
      /\ txn' = [txn EXCEPT ![p] = new]
      /\ UNCHANGED <<tables, mine, alive, crashes, acted>>
  BY DEF BeginImmediate, At, Become, Stepped
<1>2. txn \in [Proc -> Local] /\ Committed \in Database /\ Asked(p)
  BY <1>1 DEF IInv, StoreTypeOK
<1>3. new \in Local /\ new.draft = Committed /\ new.pc = "check" /\ new.op = txn[p].op
  BY <1>2, SteppedIs DEF Inside
<1>. HIDE DEF new
<1>4. txn' \in [Proc -> Local] /\ txn'[p] = new /\ \A q \in Proc : q # p => txn'[q] = txn[q]
  BY <1>1, <1>2, <1>3
<1>5. Committed' = Committed
  BY <1>1 DEF Committed, tables
<1>6. Asked(p)' /\ Drafted(p)'
  BY <1>1, <1>2, <1>3, <1>4, <1>5 DEF Asked, Drafted, Op, Draft
<1>7. \A q \in Proc : txn[q].pc \notin Inside
  BY <1>1, StoreAssumption DEF IInv, Locking, StoreAssumption
<1>8. Locking'
  BY <1>1, <1>3, <1>4, <1>7 DEF IInv, Locking, Inside
<1>. QED  BY <1>1, <1>4, <1>6, <1>8, QuietKeeps DEF IInv, StoreTypeOK

LEMMA CheckKeeps ==
  ASSUME StoreAssumption, IInv, NEW p \in Proc, Check(p)
  PROVE  IInv'
<1>1. p \in alive /\ txn[p].pc = "check" /\ Accepted(p) /\ Execute(p, Draft(p), "write")
  BY DEF Check, At
<1>2. lock = p /\ Op(p) \in Calls /\ Draft(p) \in Database /\ Asked(p) /\ Drafted(p)
  BY <1>1, AloneInside DEF Inside
<1>3. Draft(p) = Committed /\ Draft(p).rows = rows /\ Draft(p).events = events
  BY <1>1, <1>2 DEF Drafted, Committed
<1>4. /\ txn'[p].pc = "write" /\ Op(p)' = Op(p) /\ Draft(p)' = Draft(p)
      /\ rows' = rows /\ trail' = trail /\ events' = events /\ mine' = mine
      /\ Drafted(p)' => IInv'
  BY <1>1, <1>2, ExecuteIs DEF Inside
<1>5. Granted(p)
  <2>1. CASE Op(p).call = "create"
    BY <1>1, <1>3, <2>1 DEF Accepted, CreateOK, Granted
  <2>2. CASE Op(p).call = "transition"
    BY <1>1, <1>3, <2>2 DEF Accepted, TransitionOK, Known, RowOf, Granted, Row
  <2>3. CASE Op(p).call = "release"
    <3>1. /\ Op(p).id \in DOMAIN rows /\ rows[Op(p).id].status = "running"
          /\ rows[Op(p).id].runner \in Proc \ alive
      BY <1>1, <1>3, <2>3 DEF Accepted, ReleaseOK, Known, RowOf
    <3>2. ASSUME NEW q \in Proc, Op(p).id \in mine[q] PROVE FALSE
      <4>1. rows[Op(p).id].runner = q
        BY <3>1, <3>2 DEF IInv, ClaimIsExclusive
      <4>2. q \in Proc \ alive
        BY <3>1, <4>1
      <4>3. mine[q] = {}
        BY <4>2 DEF IInv, Locking
      <4>. QED  BY <3>2, <4>3
    <3>. QED  BY <2>3, <3>1, <3>2 DEF Granted, Row
  <2>4. CASE Op(p).call = "push"
    BY <1>1, <1>3, <2>4 DEF Accepted, PushOK, Known, RowOf, Granted, Row
  <2>5. CASE Op(p).call \notin {"create", "transition", "release", "push"}
    BY <2>5 DEF Granted
  <2>. QED  BY <2>1, <2>2, <2>3, <2>4, <2>5
<1>6. Op(p).call = "take" => Candidates(p) # {}
  BY <1>1 DEF Accepted, TakeOK
<1>7. Drafted(p)'
  <2>1. rows' = rows /\ mine' = mine /\ Committed' = Committed
    BY <1>4 DEF Committed
  <2>2. Granted(p)' /\ (Op(p)'.call = "take" => Candidates(p)' # {})
    BY <1>4, <1>5, <1>6, <2>1 DEF Granted, Row, Candidates
  <2>. QED  BY <1>3, <1>4, <2>1, <2>2 DEF Drafted
<1>. QED  BY <1>4, <1>7

(* A call is over, its process has ended, or both, with nothing done.       *)
LEMMA LeaveKeeps ==
  ASSUME StoreAssumption, IInv, NEW p \in Proc, UNCHANGED <<tables, acted>>,
         txn' = [txn EXCEPT ![p] = Resting], mine' \in [Proc -> SUBSET Id],
         \A q \in Proc : q # p => mine'[q] = mine[q], mine'[p] \subseteq mine[p],
         lock' = IF lock = p THEN NoProc ELSE lock, crashes' \in Nat,
         \/ p \in alive /\ alive' = alive
         \/ alive' = alive \ {p} /\ mine'[p] = {}
  PROVE  IInv'
<1>1. txn \in [Proc -> Local] /\ lock \in Proc \cup {NoProc} /\ alive \subseteq Proc
  BY DEF IInv, StoreTypeOK
<1>2. /\ txn' \in [Proc -> Local] /\ txn'[p].pc = "idle"
      /\ \A q \in Proc : q # p => txn'[q] = txn[q]
  BY <1>1, IdleIs
<1>3. lock' \in Proc \cup {NoProc} /\ alive' \subseteq Proc
  BY <1>1
<1>4. Locking'
  <2>1. \A q \in Proc : txn'[q].pc \in Inside => lock' = q
    BY <1>2 DEF IInv, Locking, Inside
  <2>2. lock' # NoProc => lock' = lock /\ lock # p
    OBVIOUS
  <2>3. lock' # NoProc => lock' \in alive' /\ txn'[lock'].pc \in Inside
    BY <1>1, <1>2, <2>2 DEF IInv, Locking
  <2>4. \A q \in Proc \ alive' : mine'[q] = {} /\ txn'[q].pc = "idle"
    BY <1>2 DEF IInv, Locking
  <2>. QED  BY <2>1, <2>3, <2>4 DEF Locking, Inside
<1>. QED  BY <1>2, <1>3, <1>4, QuietKeeps

LEMMA ForgetIs ==
  ASSUME IInv, NEW p \in Proc, Forget(p)
  PROVE  /\ mine' \in [Proc -> SUBSET Id] /\ mine'[p] \subseteq mine[p]
         /\ \A q \in Proc : q # p => mine'[q] = mine[q]
BY DEF IInv, StoreTypeOK, Forget

LEMMA BusyKeeps ==
  ASSUME StoreAssumption, IInv, NEW p \in Proc, Busy(p)
  PROVE  IInv'
<1>1. /\ p \in alive /\ txn[p].pc = "begin" /\ txn' = [txn EXCEPT ![p] = Resting] /\ Forget(p)
      /\ UNCHANGED <<tables, lock, alive, crashes, acted>>
  BY DEF Busy, At, Become
<1>2. lock # p
  BY <1>1, StoreAssumption DEF IInv, Locking, Inside, StoreAssumption
<1>3. crashes' \in Nat
  BY <1>1 DEF IInv, StoreTypeOK
<1>. QED  BY <1>1, <1>2, <1>3, ForgetIs, LeaveKeeps

LEMMA RefuseKeeps ==
  ASSUME StoreAssumption, IInv, NEW p \in Proc, Refuse(p)
  PROVE  IInv'
<1>1. /\ p \in alive /\ txn[p].pc \in Inside /\ txn' = [txn EXCEPT ![p] = Resting] /\ Forget(p)
      /\ lock' = NoProc /\ UNCHANGED <<tables, alive, crashes, acted>>
  BY DEF Refuse, At, Become, Inside
<1>2. lock = p
  BY <1>1, AloneInside
<1>3. crashes' \in Nat
  BY <1>1 DEF IInv, StoreTypeOK
<1>. QED  BY <1>1, <1>2, <1>3, ForgetIs, LeaveKeeps

LEMMA CrashKeeps ==
  ASSUME StoreAssumption, IInv, NEW p \in Proc, Crash(p)
  PROVE  IInv'
<1>1. /\ alive' = alive \ {p} /\ txn' = [txn EXCEPT ![p] = Resting] /\ mine' = [mine EXCEPT ![p] = {}]
      /\ lock' = IF lock = p THEN NoProc ELSE lock
      /\ crashes' = crashes + 1 /\ UNCHANGED <<tables, acted>>
  BY DEF Crash, Become
<1>2. /\ mine' \in [Proc -> SUBSET Id] /\ mine'[p] = {} /\ crashes' \in Nat
      /\ \A q \in Proc : q # p => mine'[q] = mine[q]
  BY <1>1 DEF IInv, StoreTypeOK
<1>. QED  BY <1>1, <1>2, LeaveKeeps

LEMMA RespawnKeeps ==
  ASSUME StoreAssumption, IInv, NEW p \in Proc, Respawn(p)
  PROVE  IInv'
<1>1. /\ p \notin alive /\ alive' = alive \cup {p}
      /\ UNCHANGED <<tables, lock, txn, mine, crashes, acted>>
  BY DEF Respawn
<1>2. txn'[p].pc = "idle"
  BY <1>1 DEF IInv, Locking
<1>3. Locking'
  BY <1>1 DEF IInv, Locking, Inside
<1>. QED  BY <1>1, <1>2, <1>3, QuietKeeps DEF IInv, StoreTypeOK

LEMMA RowFieldsAre ==
  ASSUME NEW row \in Table!Row
  PROVE  row.thread \in Thread /\ row.status \in Status /\ row.runner \in Proc \cup {NoProc}
<1>1. Table!Status = Status
  BY DEF Table!Status, Status
<1>. QED  BY <1>1 DEF Table!Row

Moved(row, st, r) == [row EXCEPT !.status = st, !.runner = r]

LEMMA MovedRowIs ==
  ASSUME NEW row \in Table!Row, NEW st \in Status, NEW r \in Proc \cup {NoProc}
  PROVE  Moved(row, st, r) \in Table!Row /\ Moved(row, st, r).status = st /\ Moved(row, st, r).runner = r
<1>1. Table!Status = Status
  BY DEF Table!Status, Status
<1>. QED  BY <1>1 DEF Table!Row, Moved

LEMMA FirstRowIs ==
  ASSUME NEW t \in Thread, NEW st \in Status, NEW r \in Proc \cup {NoProc}
  PROVE  [thread |-> t, status |-> st, runner |-> r] \in Table!Row
<1>1. Table!Status = Status
  BY DEF Table!Status, Status
<1>. QED  BY <1>1 DEF Table!Row

(* The row and the change a call that moves a session publishes.            *)
LEMMA NewRowIs ==
  ASSUME StoreAssumption, StoreTypeOK, NEW p \in Proc, Op(p) \in Calls, Moves(p), Granted(p)
  PROVE  /\ Op(p).id \in Id /\ NewRow(p) \in Table!Row /\ NewRow(p).status = Target(p)
         /\ NewRow(p).runner = IF Target(p) = "running" THEN p ELSE NoProc
         /\ NewRows(p) \in Tables /\ DOMAIN NewRows(p) = DOMAIN rows \cup {Op(p).id}
         /\ NewRows(p)[Op(p).id] = NewRow(p)
         /\ \A x \in DOMAIN rows : x # Op(p).id => NewRows(p)[x] = rows[x]
         /\ Target(p) \in Status /\ Origin(p) \in Status \cup {"absent"}
<1>1. /\ rows \in Tables /\ DOMAIN rows \subseteq Id
      /\ \A s \in DOMAIN rows : rows[s] \in Table!Row /\ rows[s].status \in Status
  BY RowsAre, RowFieldsAre
<1>2. /\ Op(p).call \in {"create", "transition", "release"} /\ Op(p).id \in Id
      /\ Op(p).call = "create" => Op(p).thread \in Thread
      /\ Op(p).call = "transition" => Op(p).to \in Status
  BY CallIs DEF Moves
<1>3. {"created", "failed", "running"} \subseteq Status
  BY DEF Status
<1>4. Target(p) \in Status
  BY <1>2, <1>3 DEF Target
<1>5. /\ NewRow(p) \in Table!Row /\ NewRow(p).status = Target(p)
      /\ NewRow(p).runner = IF Target(p) = "running" THEN p ELSE NoProc
  <2>1. CASE Op(p).call = "create"
    <3>1. NewRow(p) = [thread |-> Op(p).thread, status |-> "created", runner |-> NoProc]
          /\ Target(p) = "created"
      BY <2>1 DEF NewRow, Target
    <3>2. [thread |-> Op(p).thread, status |-> "created", runner |-> NoProc] \in Table!Row
      BY <1>2, <1>3, <2>1, FirstRowIs
    <3>. QED  BY <3>1, <3>2
  <2>2. CASE Op(p).call = "release"
    <3>1. Row(p) \in Table!Row
      BY <1>1, <2>2 DEF Granted, Row
    <3>2. NewRow(p) = Moved(Row(p), "failed", NoProc) /\ Target(p) = "failed"
      BY <2>2 DEF NewRow, Target, Moved
    <3>. QED  BY <1>3, <3>1, <3>2, MovedRowIs
  <2>3. CASE Op(p).call = "transition"
    <3>. DEFINE r == IF Op(p).to = "running" THEN p ELSE NoProc
    <3>1. Row(p) \in Table!Row
      BY <1>1, <2>3 DEF Granted, Row
    <3>2. NewRow(p) = Moved(Row(p), Op(p).to, r) /\ Target(p) = Op(p).to
      BY <2>3 DEF NewRow, Target, Moved
    <3>3. r \in Proc \cup {NoProc}
      OBVIOUS
    <3>. HIDE DEF r
    <3>4. NewRow(p) \in Table!Row /\ NewRow(p).status = Target(p) /\ NewRow(p).runner = r
      BY <1>2, <2>3, <3>1, <3>2, <3>3, MovedRowIs
    <3>. QED  BY <3>2, <3>4 DEF r
  <2>. QED  BY <1>2, <2>1, <2>2, <2>3
<1>6. Origin(p) \in Status \cup {"absent"}
  BY <1>1 DEF Origin
<1>7. /\ NewRows(p) \in Tables /\ DOMAIN NewRows(p) = DOMAIN rows \cup {Op(p).id}
      /\ NewRows(p)[Op(p).id] = NewRow(p)
      /\ \A x \in DOMAIN rows : x # Op(p).id => NewRows(p)[x] = rows[x]
  <2>. DEFINE s == Op(p).id
              row == NewRow(p)
              new == NewRows(p)
  <2>1. rows \in Tables /\ s \in Id /\ row \in Table!Row /\ new = Table!Put(rows, s, row)
    BY <1>1, <1>2, <1>5 DEF NewRows
  <2>2. /\ new \in Tables /\ DOMAIN new = DOMAIN rows \cup {s} /\ new[s] = row
        /\ \A x \in DOMAIN rows : x # s => new[x] = rows[x]
    <3>. HIDE DEF s, row, new
    <3>. QED  BY <2>1, PutIs
  <2>. QED  BY <2>2
<1>. QED  BY <1>2, <1>4, <1>5, <1>6, <1>7

(* The update of the row.                                                   *)
LEMMA WriteRowKeeps ==
  ASSUME StoreAssumption, IInv, NEW p \in Proc,
         WriteCreate(p) \/ WriteTransition(p) \/ WriteRelease(p)
  PROVE  IInv'
<1>1. txn[p].pc = "write"
  BY DEF WriteCreate, WriteTransition, WriteRelease, At
<1>2. /\ Op(p) \in Calls /\ Draft(p) = Committed /\ Granted(p) /\ StoreTypeOK
      /\ Draft(p).rows = rows
  <2>1. Op(p) \in Calls /\ Drafted(p) /\ StoreTypeOK
    BY <1>1, AloneInside DEF Inside, IInv
  <2>2. Draft(p) = Committed /\ Granted(p)
    BY <1>1, <2>1 DEF Drafted
  <2>. QED  BY <2>1, <2>2 DEF Committed
<1>3. Moves(p) /\ (Op(p).call = "create" => Op(p).id \notin DOMAIN rows)
  BY <1>2 DEF WriteCreate, WriteTransition, WriteRelease, Moves, Known
<1>4. Execute(p, WriteTable(p, NewRow(p)), "trail")
  BY <1>2 DEF WriteCreate, WriteTransition, WriteRelease, NewRow, RowOf, Row
<1>5. WriteTable(p, NewRow(p)) = [rows |-> NewRows(p), trail |-> trail, events |-> events]
  BY <1>2 DEF WriteTable, NewRows, Committed
<1>6. WriteTable(p, NewRow(p)) \in Database
  <2>1. NewRows(p) \in Tables /\ trail \in Seq(Table!Change) /\ events \in Seq(Table!Event)
    BY <1>2, <1>3, NewRowIs, RowsAre
  <2>. QED  BY <1>5, <2>1, DatabaseIs
<1>7. /\ txn'[p].pc = "trail" /\ Op(p)' = Op(p) /\ Draft(p)' = WriteTable(p, NewRow(p))
      /\ rows' = rows /\ trail' = trail /\ events' = events /\ mine' = mine
      /\ Drafted(p)' => IInv'
  BY <1>1, <1>4, <1>6, ExecuteIs DEF Inside
<1>8. /\ Granted(p)' /\ Moves(p)' /\ NewRows(p)' = NewRows(p)
      /\ Op(p)'.call = "create" => Op(p)'.id \notin DOMAIN rows'
  BY <1>2, <1>3, <1>7 DEF Granted, Moves, NewRows, NewRow, Row
<1>9. Drafted(p)'
  BY <1>5, <1>7, <1>8 DEF Drafted
<1>. QED  BY <1>7, <1>9

LEMMA WriteTrailKeeps ==
  ASSUME StoreAssumption, IInv, NEW p \in Proc, WriteTrail(p)
  PROVE  IInv'
<1>. DEFINE change == [id |-> Op(p).id, from |-> Origin(p), to |-> Target(p)]
            d == [rows |-> NewRows(p), trail |-> Append(trail, change), events |-> events]
<1>1. txn[p].pc = "trail"
  BY DEF WriteTrail, At
<1>2. /\ Op(p) \in Calls /\ Granted(p) /\ Moves(p) /\ StoreTypeOK
      /\ Draft(p) = [rows |-> NewRows(p), trail |-> trail, events |-> events]
      /\ Op(p).call = "create" => Op(p).id \notin DOMAIN rows
  BY <1>1, AloneInside DEF Drafted, Inside, IInv
<1>3. Execute(p, d, "commit")
  BY <1>2 DEF WriteTrail
<1>4. change \in Table!Change
  BY <1>2, NewRowIs DEF Table!Change, Table!Status, Status
<1>5. Append(trail, change) \in Seq(Table!Change) /\ events \in Seq(Table!Event)
  BY <1>2, <1>4, RowsAre
<1>. HIDE DEF change
<1>6. d \in Database
  BY <1>2, <1>5, NewRowIs, DatabaseIs
<1>. HIDE DEF d
<1>7. /\ txn'[p].pc = "commit" /\ Op(p)' = Op(p) /\ Draft(p)' = d
      /\ rows' = rows /\ trail' = trail /\ events' = events /\ mine' = mine
      /\ Drafted(p)' => IInv'
  BY <1>1, <1>3, <1>6, ExecuteIs DEF Inside
<1>8. /\ Granted(p)' /\ Moves(p)' /\ NewRows(p)' = NewRows(p)
      /\ Origin(p)' = Origin(p) /\ Target(p)' = Target(p)
      /\ Op(p)'.call = "create" => Op(p)'.id \notin DOMAIN rows'
  BY <1>2, <1>7 DEF Granted, Moves, NewRows, NewRow, Row, Origin, Target
<1>9. Drafted(p)'
  BY <1>7, <1>8 DEF Drafted, change, d
<1>. QED  BY <1>7, <1>9

LEMMA WriteEventKeeps ==
  ASSUME StoreAssumption, IInv, NEW p \in Proc, WriteEvent(p)
  PROVE  IInv'
<1>. DEFINE event == [id |-> Op(p).id, kind |-> Op(p).kind, used |-> FALSE]
            d == [rows |-> rows, trail |-> trail, events |-> Append(events, event)]
<1>1. txn[p].pc = "write" /\ Op(p).call = "push"
  BY DEF WriteEvent, At
<1>2. Op(p) \in Calls /\ Granted(p) /\ StoreTypeOK /\ Draft(p) = Committed
  BY <1>1, AloneInside DEF Drafted, Inside, IInv
<1>3. Execute(p, d, "commit")
  BY <1>2 DEF WriteEvent, Committed
<1>4. event \in Table!Event
  BY <1>1, <1>2, CallIs DEF Table!Event
<1>5. rows \in Tables /\ trail \in Seq(Table!Change) /\ Append(events, event) \in Seq(Table!Event)
  BY <1>2, <1>4, RowsAre
<1>. HIDE DEF event
<1>6. d \in Database
  BY <1>5, DatabaseIs
<1>7. d.rows = rows /\ d.trail = trail /\ d.events = Append(events, event)
  OBVIOUS
<1>. HIDE DEF d
<1>8. /\ txn'[p].pc = "commit" /\ Op(p)' = Op(p) /\ Draft(p)' = d
      /\ rows' = rows /\ trail' = trail /\ events' = events /\ mine' = mine
      /\ Drafted(p)' => IInv'
  BY <1>1, <1>3, <1>6, ExecuteIs DEF Inside
<1>9. Granted(p)' /\ ~Moves(p)'
  BY <1>1, <1>2, <1>8 DEF Granted, Moves, Row
<1>10. Drafted(p)'
  BY <1>1, <1>7, <1>8, <1>9 DEF Drafted, event
<1>. QED  BY <1>8, <1>10

WithUse(event, b) == [event EXCEPT !.used = b]

LEMMA EventIs ==
  ASSUME NEW event \in Table!Event, NEW b \in BOOLEAN
  PROVE  /\ event.used \in BOOLEAN
         /\ WithUse(event, b) \in Table!Event /\ WithUse(event, b).used = b
BY DEF Table!Event, WithUse

LEMMA MarkedIs ==
  ASSUME NEW queue \in Seq(Table!Event), NEW S
  PROVE  /\ Marked(queue, S) \in Seq(Table!Event)
         /\ DOMAIN Marked(queue, S) = DOMAIN queue
         /\ \A i \in DOMAIN queue : Marked(queue, S)[i].used <=> (queue[i].used \/ i \in S)
<1>. DEFINE b(i) == queue[i].used \/ i \in S
            new == Marked(queue, S)
<1>1. \A i \in DOMAIN queue : queue[i] \in Table!Event
  OBVIOUS
<1>2. \A i \in DOMAIN queue : b(i) \in BOOLEAN
  OBVIOUS
<1>3. new = [i \in DOMAIN queue |-> WithUse(queue[i], b(i))]
  BY DEF Marked, WithUse
<1>. HIDE DEF new, b
<1>4. \A i \in DOMAIN queue : new[i] = WithUse(queue[i], b(i))
  BY <1>3
<1>5. \A i \in DOMAIN queue : new[i] \in Table!Event /\ new[i].used = b(i)
  <2>. SUFFICES ASSUME NEW i \in DOMAIN queue PROVE new[i] \in Table!Event /\ new[i].used = b(i)
    OBVIOUS
  <2>1. queue[i] \in Table!Event /\ b(i) \in BOOLEAN /\ new[i] = WithUse(queue[i], b(i))
    BY <1>1, <1>2, <1>4, Zenon
  <2>2. WithUse(queue[i], b(i)) \in Table!Event
    BY <2>1, EventIs, Zenon
  <2>3. WithUse(queue[i], b(i)).used = b(i)
    BY <2>1, EventIs, Zenon
  <2>. QED  BY <2>1, <2>2, <2>3, Zenon
<1>6. Len(queue) \in Nat /\ DOMAIN queue = 1..Len(queue)
  OBVIOUS
<1>7. new = [i \in 1..Len(queue) |-> new[i]]
  BY <1>3, <1>6
<1>8. new \in Seq(Table!Event)
  <2>1. new \in [1..Len(queue) -> Table!Event]
    BY <1>5, <1>6, <1>7
  <2>. QED  BY <1>6, <2>1
<1>9. DOMAIN new = DOMAIN queue
  BY <1>3
<1>10. \A i \in DOMAIN queue : new[i].used <=> b(i)
  BY <1>5, Zenon
<1>. QED  BY <1>8, <1>9, <1>10, Zenon DEF new, b

LEMMA TouchedAre ==
  ASSUME IInv, NEW p \in Proc, Draft(p) = Committed, Op(p).call \in {"take", "consume"},
         Op(p).call = "take" => Candidates(p) # {}
  PROVE  Touched(p) \subseteq {i \in DOMAIN events : ~events[i].used}
<1>1. DOMAIN events \subseteq Nat /\ Draft(p).events = events
  BY RowsAre DEF IInv, Committed
<1>2. CASE Op(p).call = "take"
  <2>1. /\ Candidates(p) \in SUBSET Nat /\ Candidates(p) # {}
        /\ Candidates(p) \subseteq {i \in DOMAIN events : ~events[i].used}
    BY <1>1, <1>2 DEF Candidates
  <2>2. Oldest(Candidates(p)) \in Candidates(p)
    BY <2>1, OldestIs
  <2>. QED  BY <1>2, <2>1, <2>2 DEF Touched
<1>3. CASE Op(p).call = "consume"
  BY <1>1, <1>3 DEF Touched
<1>. QED  BY <1>2, <1>3

UsedUp(l, d, S) == [l EXCEPT !.pc = "commit", !.got = S, !.draft = d]

LEMMA UsedUpIs ==
  ASSUME NEW l \in Local, NEW d \in Database, NEW S \in SUBSET Nat
  PROVE  /\ UsedUp(l, d, S) \in Local
         /\ UsedUp(l, d, S).draft = d
         /\ UsedUp(l, d, S).pc = "commit"
         /\ UsedUp(l, d, S).op = l.op
         /\ UsedUp(l, d, S).got = S
BY DEF Local, UsedUp

LEMMA WriteUseKeeps ==
  ASSUME StoreAssumption, IInv, NEW p \in Proc, WriteUse(p)
  PROVE  IInv'
<1>. DEFINE d == [rows |-> rows, trail |-> trail, events |-> Marked(events, Touched(p))]
            new == UsedUp(txn[p], d, Touched(p))
<1>1. /\ txn[p].pc = "write" /\ Op(p).call \in {"take", "consume"}
      /\ UNCHANGED <<tables, lock, mine, alive, crashes, acted>>
  BY DEF WriteUse, At
<1>2. /\ Op(p) \in Calls /\ StoreTypeOK /\ txn[p] \in Local
      /\ Draft(p) = Committed /\ (Op(p).call = "take" => Candidates(p) # {})
  <2>1. Op(p) \in Calls /\ Drafted(p) /\ StoreTypeOK /\ txn[p] \in Local
    BY <1>1, AloneInside DEF Inside, IInv
  <2>. QED  BY <1>1, <2>1 DEF Drafted
<1>3. Touched(p) \subseteq {i \in DOMAIN events : ~events[i].used} /\ Touched(p) \in SUBSET Nat
  <2>1. DOMAIN events \subseteq Nat
    BY <1>2, RowsAre
  <2>. QED  BY <1>1, <1>2, <2>1, TouchedAre
<1>4. txn' = [txn EXCEPT ![p] = new]
  <2>1. txn' = [txn EXCEPT ![p] =
                  [txn[p] EXCEPT !.pc = "commit", !.got = Touched(p),
                    !.draft = [Draft(p) EXCEPT !.events = Marked(@, Touched(p))]]]
    BY DEF WriteUse, Become
  <2>2. [Draft(p) EXCEPT !.events = Marked(@, Touched(p))] = d
    BY <1>2 DEF Committed
  <2>. HIDE DEF d
  <2>. QED  BY <2>1, <2>2 DEF UsedUp
<1>5. d \in Database
  <2>1. Marked(events, Touched(p)) \in Seq(Table!Event)
    BY <1>2, RowsAre, MarkedIs
  <2>. QED  BY <1>2, <2>1, RowsAre, DatabaseIs
<1>6. d.rows = rows /\ d.trail = trail /\ d.events = Marked(events, Touched(p))
  OBVIOUS
<1>. HIDE DEF d
<1>7. /\ new \in Local /\ new.pc = "commit" /\ new.op = txn[p].op /\ new.draft = d
      /\ new.got = Touched(p)
  BY <1>2, <1>3, <1>5, UsedUpIs
<1>. HIDE DEF new
<1>8. /\ txn'[p] = new /\ Op(p)' = Op(p) /\ Draft(p)' = d
      /\ rows' = rows /\ trail' = trail /\ events' = events
      /\ Drafted(p)' => IInv'
  BY <1>1, <1>4, <1>7, InsideKeeps DEF Inside
<1>9. Drafted(p)'
  BY <1>1, <1>3, <1>6, <1>7, <1>8 DEF Drafted, Moves
<1>. QED  BY <1>8, <1>9

(***************************************************************************)
(* The commit.                                                             *)
(***************************************************************************)
(* What a commit leaves to prove, whatever it publishes.                    *)
LEMMA CommitKeeps ==
  ASSUME StoreAssumption, IInv, NEW p \in Proc, Commit(p),
         mine' \in [Proc -> SUBSET Id], \A q \in Proc : q # p => mine'[q] = mine[q],
         \A q \in Proc : mine'[q] \subseteq DOMAIN rows',
         acted' \in [1..MaxEvents -> Nat],
         HandedOut', ClaimIsExclusive', TrailTellsTheRow'
  PROVE  IInv'
<1>1. /\ txn[p].pc = "commit" /\ txn' = [txn EXCEPT ![p] = Resting] /\ lock' = NoProc
      /\ rows' = Draft(p).rows /\ trail' = Draft(p).trail /\ events' = Draft(p).events
      /\ UNCHANGED <<alive, crashes>>
  BY DEF Commit, At, Become
<1>2. lock = p /\ Draft(p) \in Database /\ txn \in [Proc -> Local] /\ p \in alive
  BY <1>1, AloneInside DEF Inside, IInv, StoreTypeOK
<1>3. /\ txn' \in [Proc -> Local] /\ txn'[p].pc = "idle"
      /\ \A q \in Proc : q # p => txn'[q] = txn[q]
  BY <1>1, <1>2, IdleIs
<1>4. Committed' \in Database
  BY <1>1, <1>2, DatabaseIs DEF Committed
<1>5. StoreTypeOK'
  BY <1>1, <1>3, <1>4 DEF IInv, StoreTypeOK
<1>6. Locking'
  <2>1. \A q \in Proc : txn'[q].pc \notin Inside
    BY <1>2, <1>3 DEF IInv, Locking, Inside
  <2>2. \A q \in Proc \ alive' : mine'[q] = {} /\ txn'[q].pc = "idle"
    BY <1>1, <1>2, <1>3 DEF IInv, Locking
  <2>. QED  BY <1>1, <2>1, <2>2 DEF Locking, Inside
<1>7. ASSUME NEW q \in Proc, txn'[q].pc # "idle"
      PROVE  Asked(q)' /\ Drafted(q)'
  <2>1. q # p
    BY <1>3, <1>7
  <2>2. lock \in {p, NoProc}
    BY <1>2
  <2>. QED  BY <1>3, <1>7, <2>1, <2>2, OthersKeep
<1>. QED  BY <1>5, <1>6, <1>7 DEF IInv

(* A change at the end of the trail that starts where the row was.          *)
LEMMA TrailGrows ==
  ASSUME StoreTypeOK, TrailTellsTheRow, NEW s \in Id, NEW from, NEW to,
         trail' = Append(trail, [id |-> s, from |-> from, to |-> to]),
         s \in DOMAIN rows', rows'[s].status = to,
         \A x \in Id : x # s => (x \in DOMAIN rows' <=> x \in DOMAIN rows),
         \A x \in DOMAIN rows : x # s => rows'[x] = rows[x],
         IF s \in DOMAIN rows THEN from = rows[s].status /\ to \in Allowed(from)
         ELSE from = "absent" /\ to = "created"
  PROVE  TrailTellsTheRow'
<1>0. trail \in Seq(Table!Change) /\ Len(trail) \in Nat
  <2>1. trail \in Seq(Table!Change)
    BY RowsAre
  <2>. QED  BY <2>1
<1>. PICK n \in Nat : n = Len(trail) + 1
  BY <1>0
<1>1. /\ DOMAIN trail = 1..Len(trail) /\ DOMAIN trail' = 1..n
      /\ \A i \in 1..Len(trail) : trail'[i] = trail[i]
      /\ trail'[n].id = s /\ trail'[n].from = from /\ trail'[n].to = to
  BY <1>0
<1>2. \A x \in Id : ChangesOf(x) \subseteq 1..Len(trail)
  BY <1>1 DEF ChangesOf
<1>3. \A x \in Id : x # s => ChangesOf(x)' = ChangesOf(x)
  BY <1>0, <1>1 DEF ChangesOf
<1>4. ChangesOf(s)' = ChangesOf(s) \cup {n}
  BY <1>0, <1>1 DEF ChangesOf
<1>5. (\A i \in 1..Len(trail) : i < n) /\ 1..Len(trail) \subseteq Nat
  BY <1>0
<1>6. ASSUME NEW x \in Id, x # s
      PROVE  EndsAtTheRow(x)' /\ \A i \in ChangesOf(x)' : Continues(i, x)'
  <2>1. ChangesOf(x)' = ChangesOf(x) /\ \A i \in ChangesOf(x) : trail'[i] = trail[i]
    BY <1>1, <1>2, <1>3, <1>6
  <2>2. (x \in DOMAIN rows' <=> x \in DOMAIN rows) /\ (x \in DOMAIN rows => rows'[x] = rows[x])
    BY <1>6
  <2>3. EndsAtTheRow(x)'
    <3>1. EndsAtTheRow(x)
      BY DEF TrailTellsTheRow
    <3>. QED  BY <2>1, <2>2, <3>1 DEF EndsAtTheRow
  <2>4. ASSUME NEW i \in ChangesOf(x)
        PROVE  Continues(i, x)'
    <3>1. Continues(i, x)
      BY DEF TrailTellsTheRow
    <3>. QED  BY <2>1, <3>1 DEF Continues, Follows
  <2>. QED  BY <2>1, <2>3, <2>4
<1>7. EndsAtTheRow(s)'
  BY <1>0, <1>1, <1>2, <1>4, <1>5 DEF EndsAtTheRow
<1>8. ASSUME NEW i \in ChangesOf(s)
      PROVE  Continues(i, s)'
  <2>1. i <= n /\ i \in Nat /\ \A j \in ChangesOf(s) : trail'[j] = trail[j]
    BY <1>1, <1>2, <1>5
  <2>2. Continues(i, s)
    BY DEF TrailTellsTheRow
  <2>. QED  BY <1>4, <2>1, <2>2 DEF Continues, Follows
<1>9. CASE s \notin DOMAIN rows
  <2>1. ChangesOf(s) = {}
    BY <1>9 DEF TrailTellsTheRow, EndsAtTheRow
  <2>2. Continues(n, s)'
    BY <1>1, <1>4, <1>9, <2>1 DEF Continues
  <2>. QED  BY <1>4, <1>6, <1>7, <2>1, <2>2 DEF TrailTellsTheRow
<1>10. CASE s \in DOMAIN rows
  <2>1. PICK m \in ChangesOf(s) : (\A i \in ChangesOf(s) : i <= m) /\ trail[m].to = rows[s].status
    BY <1>10 DEF TrailTellsTheRow, EndsAtTheRow
  <2>2. m \in 1..Len(trail) /\ m < n /\ m \in ChangesOf(s)'
    BY <1>2, <1>4, <1>5
  <2>3. Follows(m, n, s)'
    BY <1>4, <2>1, <2>2 DEF Follows
  <2>4. trail'[n].from = trail'[m].to /\ trail'[n].to \in Allowed(trail'[n].from)
    BY <1>1, <1>10, <2>1, <2>2
  <2>5. Continues(n, s)'
    BY <2>2, <2>3, <2>4 DEF Continues
  <2>. QED  BY <1>4, <1>6, <1>7, <1>8, <2>5 DEF TrailTellsTheRow
<1>. QED  BY <1>9, <1>10

(* A call that moves a session: its claim has no rival.                     *)
LEMMA MoveCommits ==
  ASSUME StoreAssumption, IInv, NEW p \in Proc, Commit(p), Moves(p)
  PROVE  IInv'
<1>. DEFINE s == Op(p).id
<1>1. txn[p].pc = "commit" /\ Returned(p)
  BY DEF Commit, At
<1>2. Op(p) \in Calls /\ Asked(p) /\ Drafted(p) /\ StoreTypeOK
  BY <1>1, AloneInside DEF Inside, IInv
<1>3. /\ Draft(p) = [rows |-> NewRows(p),
                     trail |-> Append(trail, [id |-> s, from |-> Origin(p), to |-> Target(p)]),
                     events |-> events]
      /\ Granted(p) /\ (Op(p).call = "create" => s \notin DOMAIN rows)
  BY <1>1, <1>2 DEF Drafted
<1>4. /\ rows' = NewRows(p) /\ events' = events
      /\ trail' = Append(trail, [id |-> s, from |-> Origin(p), to |-> Target(p)])
  BY <1>3 DEF Commit
<1>5. /\ s \in Id /\ DOMAIN rows' = DOMAIN rows \cup {s} /\ rows'[s].status = Target(p)
      /\ rows'[s].runner = IF Target(p) = "running" THEN p ELSE NoProc
      /\ \A x \in DOMAIN rows : x # s => rows'[x] = rows[x]
  BY <1>2, <1>3, <1>4, NewRowIs
<1>6. /\ Op(p).call \in {"create", "transition", "release"}
      /\ mine \in [Proc -> SUBSET Id] /\ \A q \in Proc : mine[q] \subseteq DOMAIN rows
  BY DEF Moves, IInv, StoreTypeOK
<1>7. TrailTellsTheRow'
  <2>1. IF s \in DOMAIN rows THEN Origin(p) = rows[s].status /\ Target(p) \in Allowed(Origin(p))
        ELSE Origin(p) = "absent" /\ Target(p) = "created"
    <3>1. CASE Op(p).call = "create"
      BY <1>3, <3>1 DEF Origin, Target
    <3>2. CASE Op(p).call = "release"
      <4>1. s \in DOMAIN rows /\ Origin(p) = "running" /\ Target(p) = "failed" /\ rows[s].status = "running"
        BY <1>3, <3>2 DEF Origin, Target, Granted, Row
      <4>. QED  BY <4>1 DEF Allowed
    <3>3. CASE Op(p).call = "transition"
      BY <1>3, <3>3 DEF Origin, Target, Granted, Row
    <3>. QED  BY <1>6, <3>1, <3>2, <3>3
  <2>2. TrailTellsTheRow
    BY DEF IInv
  <2>. HIDE DEF s
  <2>. QED  BY <1>2, <1>4, <1>5, <2>1, <2>2, TrailGrows
<1>8. /\ mine' \in [Proc -> SUBSET Id] /\ (\A q \in Proc : q # p => mine'[q] = mine[q])
      /\ mine'[p] \subseteq mine[p] \cup {s} /\ acted' = acted
      /\ Op(p).call # "transition" => mine' = mine
      /\ Op(p).call = "transition" /\ Op(p).to = "terminated" => mine' = mine
      /\ Op(p).call = "transition" /\ Op(p).to # "terminated" /\ Op(p).to # "running"
           => s \notin mine'[p]
  BY <1>1, <1>5, <1>6 DEF Returned
<1>9. HandedOut' /\ acted' \in [1..MaxEvents -> Nat]
  BY <1>4, <1>8 DEF IInv, HandedOut, StoreTypeOK
<1>10. \A q \in Proc : mine'[q] \subseteq DOMAIN rows'
  BY <1>5, <1>6, <1>8
<1>11. ASSUME NEW q \in Proc, s \in mine'[q]
       PROVE  \/ rows'[s].status = "terminated"
              \/ rows'[s].status = "running" /\ rows'[s].runner = q
  <2>1. CASE Op(p).call = "create"
    BY <1>3, <1>6, <1>8, <1>11, <2>1
  <2>2. CASE Op(p).call = "release"
    BY <1>3, <1>8, <1>11, <2>2 DEF Granted
  <2>3. CASE Op(p).call = "transition" /\ Op(p).to = "terminated"
    BY <1>5, <2>3 DEF Target
  <2>4. CASE Op(p).call = "transition" /\ Op(p).to # "terminated"
    <3>1. s \in mine[q] => \/ rows[s].status = "terminated"
                           \/ rows[s].status = "running" /\ rows[s].runner = q
      BY DEF IInv, ClaimIsExclusive
    <3>2. rows[s].status \in Op(p).expect
      BY <1>3, <2>4 DEF Granted, Row
    <3>3. CASE Op(p).expect = Resumable /\ Op(p).to = "running"
      <4>1. rows[s].status # "terminated" /\ rows[s].status # "running"
        BY <3>2, <3>3 DEF Resumable, Allowed
      <4>2. s \notin mine[q] /\ q = p
        BY <1>8, <1>11, <3>1, <4>1
      <4>. QED  BY <1>5, <2>4, <3>3, <4>2 DEF Target
    <3>4. CASE Op(p).expect = {"running"} /\ Op(p).to \in Settled /\ s \in mine[p]
      <4>1. rows[s].status = "running"
        BY <3>2, <3>4
      <4>2. rows[s].runner = p
        BY <3>4, <4>1 DEF IInv, ClaimIsExclusive
      <4>3. Op(p).to # "running"
        BY <3>4 DEF Settled, Allowed
      <4>4. q # p /\ s \in mine[q]
        BY <1>8, <1>11, <2>4, <4>3
      <4>. QED  BY <3>1, <4>1, <4>2, <4>4
    <3>. QED  BY <1>2, <2>4, <3>3, <3>4 DEF Asked
  <2>. QED  BY <1>6, <2>1, <2>2, <2>3, <2>4
<1>12. ClaimIsExclusive'
  <2>1. ASSUME NEW q \in Proc, NEW x \in mine'[q], x # s
        PROVE  \/ rows'[x].status = "terminated"
               \/ rows'[x].status = "running" /\ rows'[x].runner = q
    <3>1. x \in mine[q] /\ x \in DOMAIN rows
      BY <1>6, <1>8, <2>1
    <3>2. rows'[x] = rows[x]
      BY <1>5, <2>1, <3>1
    <3>. QED  BY <3>1, <3>2 DEF IInv, ClaimIsExclusive
  <2>. QED  BY <1>11, <2>1 DEF ClaimIsExclusive
<1>. QED  BY <1>7, <1>8, <1>9, <1>10, <1>12, CommitKeeps

(* A call that queues an event or uses some.                                *)
LEMMA QueueCommits ==
  ASSUME StoreAssumption, IInv, NEW p \in Proc, Commit(p), ~Moves(p)
  PROVE  IInv'
<1>1. txn[p].pc = "commit" /\ Returned(p)
  BY DEF Commit, At
<1>2. Op(p) \in Calls /\ Drafted(p) /\ StoreTypeOK
  BY <1>1, AloneInside DEF Inside, IInv
<1>3. /\ Draft(p).rows = rows /\ Draft(p).trail = trail
      /\ \/ /\ Op(p).call = "push"
            /\ Draft(p).events =
                 Append(events, [id |-> Op(p).id, kind |-> Op(p).kind, used |-> FALSE])
         \/ /\ Op(p).call \in {"take", "consume"}
            /\ txn[p].got \subseteq {i \in DOMAIN events : ~events[i].used}
            /\ Draft(p).events = Marked(events, txn[p].got)
  BY <1>1, <1>2 DEF Drafted
<1>4. rows' = rows /\ trail' = trail /\ events' = Draft(p).events
  BY <1>3 DEF Commit
<1>5. mine' = mine /\ mine \in [Proc -> SUBSET Id] /\ events \in Seq(Table!Event)
  BY <1>1, <1>2, RowsAre DEF Returned, Moves, StoreTypeOK
<1>6. TrailTellsTheRow' /\ ClaimIsExclusive' /\ \A q \in Proc : mine'[q] \subseteq DOMAIN rows'
  BY <1>4, <1>5 DEF IInv, TrailTellsTheRow, EndsAtTheRow, Continues, ChangesOf, Follows, ClaimIsExclusive
<1>7. CASE Op(p).call = "push"
  <2>1. acted' = acted
    BY <1>1, <1>7 DEF Returned
  <2>2. \A i \in DOMAIN events : i \in DOMAIN events' /\ events'[i] = events[i]
    BY <1>3, <1>4, <1>5, <1>7
  <2>3. HandedOut' /\ acted' \in [1..MaxEvents -> Nat]
    BY <1>2, <2>1, <2>2 DEF IInv, HandedOut, StoreTypeOK
  <2>. QED  BY <1>5, <1>6, <2>3, CommitKeeps
<1>8. CASE Op(p).call \in {"take", "consume"}
  <2>1. /\ txn[p].got \subseteq {i \in DOMAIN events : ~events[i].used}
        /\ events' = Marked(events, txn[p].got)
    BY <1>3, <1>4, <1>8
  <2>2. /\ DOMAIN events' = DOMAIN events
        /\ \A i \in DOMAIN events : events'[i].used <=> (events[i].used \/ i \in txn[p].got)
    BY <1>5, <2>1, MarkedIs, Zenon
  <2>3. /\ acted \in [1..MaxEvents -> Nat] /\ acted' \in [1..MaxEvents -> Nat]
        /\ \A i \in 1..MaxEvents : \/ acted'[i] = acted[i]
                                   \/ i \in txn[p].got /\ acted'[i] = acted[i] + 1
    BY <1>1, <1>2, <1>8 DEF Returned, StoreTypeOK
  <2>4. ASSUME NEW i \in 1..MaxEvents
        PROVE  acted'[i] = 0 \/ (acted'[i] = 1 /\ i \in DOMAIN events' /\ events'[i].used)
    <3>1. acted[i] = 0 \/ (acted[i] = 1 /\ i \in DOMAIN events /\ events[i].used)
      BY DEF IInv, HandedOut
    <3>2. CASE acted'[i] = acted[i]
      BY <2>2, <3>1, <3>2
    <3>3. CASE i \in txn[p].got /\ acted'[i] = acted[i] + 1
      <4>1. i \in DOMAIN events /\ ~events[i].used
        BY <2>1, <3>3
      <4>2. acted[i] = 0 /\ acted'[i] = 1
        BY <3>1, <3>3, <4>1
      <4>3. i \in DOMAIN events' /\ events'[i].used
        BY <2>2, <3>3, <4>1
      <4>. QED  BY <4>2, <4>3
    <3>. QED  BY <2>3, <3>2, <3>3
  <2>5. HandedOut'
    BY <2>4 DEF HandedOut
  <2>. QED  BY <1>5, <1>6, <2>3, <2>5, CommitKeeps
<1>. QED  BY <1>3, <1>7, <1>8

(***************************************************************************)
(* The invariant is inductive.                                             *)
(***************************************************************************)
LEMMA StepKeepsInv ==
  ASSUME StoreAssumption, IInv, [StoreNext]_storeVars
  PROVE  IInv'
<1>1. CASE UNCHANGED storeVars
  <2>1. /\ rows' = rows /\ trail' = trail /\ events' = events /\ lock' = lock /\ txn' = txn
        /\ mine' = mine /\ alive' = alive /\ crashes' = crashes /\ acted' = acted
        /\ Committed' = Committed
    BY <1>1 DEF storeVars, tables, Committed
  <2>2. StoreTypeOK' /\ Locking' /\ HandedOut' /\ ClaimIsExclusive'
    BY <2>1 DEF IInv, StoreTypeOK, Locking, Inside, HandedOut, ClaimIsExclusive
  <2>3. TrailTellsTheRow' /\ \A p \in Proc : mine'[p] \subseteq DOMAIN rows'
    BY <2>1 DEF IInv, TrailTellsTheRow, EndsAtTheRow, Continues, ChangesOf, Follows
  <2>4. ASSUME NEW q \in Proc, txn'[q].pc # "idle"
        PROVE  Asked(q)' /\ Drafted(q)'
    <3>1. Asked(q) /\ Drafted(q)
      BY <2>1, <2>4 DEF IInv
    <3>2. Op(q)' = Op(q) /\ Draft(q)' = Draft(q) /\ Row(q)' = Row(q)
      BY <2>1 DEF Op, Draft, Row
    <3>3. /\ Moves(q)' = Moves(q) /\ Origin(q)' = Origin(q) /\ Target(q)' = Target(q)
          /\ Granted(q)' = Granted(q) /\ NewRows(q)' = NewRows(q) /\ Candidates(q)' = Candidates(q)
      BY <2>1, <3>2 DEF Moves, Origin, Target, Granted, NewRows, NewRow, Candidates
    <3>. QED  BY <2>1, <3>1, <3>2, <3>3 DEF Asked, Drafted
  <2>. QED  BY <2>2, <2>3, <2>4 DEF IInv
<1>2. ASSUME NEW p \in Proc,
             \/ CallCreate(p) \/ CallClaim(p) \/ CallSettle(p) \/ CallTerminate(p)
             \/ CallRelease(p) \/ CallPush(p) \/ CallTake(p) \/ CallConsume(p)
             \/ Statement(p)
             \/ Crash(p) \/ Respawn(p)
      PROVE  IInv'
  <2>1. CASE \/ CallCreate(p) \/ CallClaim(p) \/ CallSettle(p) \/ CallTerminate(p)
             \/ CallRelease(p) \/ CallPush(p) \/ CallTake(p) \/ CallConsume(p)
    BY <2>1, CallsKeep
  <2>2. CASE BeginImmediate(p) \/ Busy(p) \/ Check(p) \/ Refuse(p)
    BY <2>2, BeginKeeps, BusyKeeps, CheckKeeps, RefuseKeeps
  <2>3. CASE WriteCreate(p) \/ WriteTransition(p) \/ WriteRelease(p)
    BY <2>3, WriteRowKeeps
  <2>4. CASE WriteTrail(p) \/ WriteEvent(p) \/ WriteUse(p)
    BY <2>4, WriteTrailKeeps, WriteEventKeeps, WriteUseKeeps
  <2>5. CASE Commit(p)
    BY <2>5, MoveCommits, QueueCommits
  <2>6. CASE Crash(p) \/ Respawn(p)
    BY <2>6, CrashKeeps, RespawnKeeps
  <2>. QED  BY <1>2, <2>1, <2>2, <2>3, <2>4, <2>5, <2>6 DEF Statement
<1>. QED  BY <1>1, <1>2 DEF StoreNext

(***************************************************************************)
(* Theorems.                                                               *)
(***************************************************************************)
LEMMA InvIsInvariant == ASSUME StoreAssumption PROVE StoreSpec => []IInv
<1>1. StoreInit => IInv
  BY InitIsInv
<1>2. IInv /\ [StoreNext]_storeVars => IInv'
  BY StepKeepsInv
<1>. QED  BY <1>1, <1>2, PTL DEF StoreSpec

(* Every variable keeps to its values.                                      *)
THEOREM TypeCorrect == ASSUME StoreAssumption PROVE StoreSpec => []StoreTypeOK
<1>1. IInv => StoreTypeOK
  BY DEF IInv
<1>. QED  BY <1>1, InvIsInvariant, PTL

(* However many processes have the file open, and whoever dies in the       *)
(* middle of whatever: the trail tells each session's life along legal      *)
(* edges and ends where its row is, a claim has one holder and no reclaim   *)
(* takes it from a process that lives, an interrupt is acted on once, and   *)
(* nobody who is dead or done holds the write lock.                         *)
THEOREM TablesAreSoundAlways == ASSUME StoreAssumption PROVE StoreSpec => []TablesAreSound
<1>1. IInv => TablesAreSound
  <2>. SUFFICES ASSUME IInv PROVE TablesAreSound
    OBVIOUS
  <2>1. TakenOnce
    <3>1. \A i \in 1..MaxEvents : acted[i] <= 1
      BY DEF IInv, HandedOut
    <3>. QED  BY <3>1 DEF IInv, StoreTypeOK, TakenOnce
  <2>2. LockIsInUse
    BY DEF IInv, Locking, Inside, LockIsInUse
  <2>. QED  BY <2>1, <2>2 DEF IInv, TablesAreSound
<1>. QED  BY <1>1, InvIsInvariant, PTL

(* A commit is the operation the table promises for the call.               *)
LEMMA CommitIsOneOperation ==
  ASSUME StoreAssumption, IInv, NEW p \in Proc, Commit(p)
  PROVE  [Table!Next]_(Table!vars)
<1>. DEFINE s == Op(p).id
<1>1. txn[p].pc = "commit"
  BY DEF Commit, At
<1>2. Op(p) \in Calls /\ Asked(p) /\ Drafted(p) /\ StoreTypeOK
  BY <1>1, AloneInside DEF Inside, IInv
<1>3. rows' = Draft(p).rows /\ trail' = Draft(p).trail /\ events' = Draft(p).events
  BY DEF Commit
<1>4. \A st \in Status : Table!Allowed(st) = Allowed(st)
  BY DEF Allowed, Table!Allowed
<1>5. CASE Moves(p)
  <2>1. /\ rows' = NewRows(p) /\ events' = events
        /\ trail' = Append(trail, [id |-> s, from |-> Origin(p), to |-> Target(p)])
        /\ Granted(p) /\ (Op(p).call = "create" => s \notin DOMAIN rows)
    BY <1>1, <1>2, <1>3, <1>5 DEF Drafted
  <2>2. s \in Id /\ Target(p) \in Status
    BY <1>2, <1>5, <2>1, NewRowIs
  <2>3. CASE Op(p).call = "create"
    <3>1. Op(p).thread \in Thread
      BY <1>2, <2>3, CallIs
    <3>2. Table!Create(s, Op(p).thread)
      BY <2>1, <2>3 DEF Table!Create, NewRows, NewRow, Granted, Origin, Target
    <3>. QED  BY <2>2, <3>1, <3>2 DEF Table!Next
  <2>4. CASE Op(p).call \in {"transition", "release"}
    <3>. DEFINE r == IF Target(p) = "running" THEN p ELSE NoProc
    <3>1. s \in DOMAIN rows /\ Target(p) \in Allowed(rows[s].status) /\ Origin(p) = rows[s].status
      BY <2>1, <2>4 DEF Granted, Row, Target, Origin, Allowed
    <3>2. NewRow(p) = [rows[s] EXCEPT !.status = Target(p), !.runner = r]
      BY <2>4 DEF NewRow, Target, Row
    <3>3. rows[s].status \in Status
      BY <1>2, <3>1, RowsAre, RowFieldsAre
    <3>. HIDE DEF r, s
    <3>4. Table!Move(s, Target(p), r)
      BY <1>4, <2>1, <3>1, <3>2, <3>3 DEF Table!Move, NewRows, s
    <3>5. CASE Target(p) = "running"
      BY <2>2, <3>4, <3>5 DEF Table!Next, r
    <3>6. CASE Target(p) # "running"
      <4>1. Target(p) \in Table!Status \ {"running"}
        BY <2>2, <3>6 DEF Table!Status, Status
      <4>. QED  BY <2>2, <3>4, <3>6, <4>1 DEF Table!Next, r
    <3>. QED  BY <3>5, <3>6
  <2>. QED  BY <1>5, <2>3, <2>4 DEF Moves
<1>6. CASE ~Moves(p)
  <2>1. /\ rows' = rows /\ trail' = trail
        /\ \/ /\ Op(p).call = "push" /\ Granted(p)
              /\ events' = Append(events, [id |-> Op(p).id, kind |-> Op(p).kind, used |-> FALSE])
           \/ /\ txn[p].got \subseteq {i \in DOMAIN events : ~events[i].used}
              /\ events' = Marked(events, txn[p].got)
    BY <1>1, <1>2, <1>3, <1>6 DEF Drafted
  <2>2. CASE /\ Op(p).call = "push" /\ Granted(p)
             /\ events' = Append(events, [id |-> Op(p).id, kind |-> Op(p).kind, used |-> FALSE])
    <3>1. s \in Id /\ Op(p).kind \in Kind
      BY <1>2, <2>2, CallIs
    <3>2. Table!Push(s, Op(p).kind)
      BY <2>1, <2>2 DEF Table!Push, Granted, Row
    <3>. QED  BY <3>1, <3>2 DEF Table!Next
  <2>3. CASE /\ txn[p].got \subseteq {i \in DOMAIN events : ~events[i].used}
             /\ events' = Marked(events, txn[p].got)
    <3>. DEFINE S == txn[p].got
    <3>1. S \in SUBSET DOMAIN events /\ \A i \in S : ~events[i].used
      BY <2>3
    <3>2. events' = [i \in DOMAIN events |->
                       IF i \in S THEN [events[i] EXCEPT !.used = TRUE] ELSE events[i]]
      <4>1. \A i \in DOMAIN events : events[i] \in Table!Event
        BY <1>2, RowsAre
      <4>2. ASSUME NEW i \in DOMAIN events
            PROVE  WithUse(events[i], events[i].used \/ i \in S)
                     = IF i \in S THEN WithUse(events[i], TRUE) ELSE events[i]
        <5>1. events[i].used \in BOOLEAN /\ WithUse(events[i], events[i].used) = events[i]
          BY <4>1 DEF Table!Event, WithUse
        <5>2. CASE i \in S
          <6>1. (events[i].used \/ i \in S) = TRUE
            BY <5>2
          <6>. QED  BY <5>2, <6>1, Zenon
        <5>3. CASE i \notin S
          <6>1. (events[i].used \/ i \in S) = events[i].used
            BY <5>1, <5>3
          <6>. QED  BY <5>1, <5>3, <6>1, Zenon
        <5>. QED  BY <5>2, <5>3
      <4>3. events' = [i \in DOMAIN events |-> WithUse(events[i], events[i].used \/ i \in S)]
        BY <2>3 DEF Marked, WithUse
      <4>. QED  BY <4>2, <4>3 DEF WithUse
    <3>. HIDE DEF S
    <3>3. Table!Use(S)
      BY <2>1, <3>1, <3>2 DEF Table!Use
    <3>. QED  BY <3>1, <3>3 DEF Table!Next
  <2>. QED  BY <2>1, <2>2, <2>3
<1>. QED  BY <1>5, <1>6

(* Every step of the database is one operation of the table, or none at     *)
(* all: no reader, and nobody who opens the file after a crash, sees a part *)
(* of a call.                                                               *)
THEOREM ImplementsTableAlways == ASSUME StoreAssumption PROVE StoreSpec => ImplementsTable
<1>1. StoreInit => Table!Init
  BY DEF StoreInit, Table!Init
<1>2. IInv /\ [StoreNext]_storeVars => [Table!Next]_(Table!vars)
  <2>. SUFFICES ASSUME IInv, [StoreNext]_storeVars PROVE [Table!Next]_(Table!vars)
    OBVIOUS
  <2>1. CASE UNCHANGED tables
    BY <2>1 DEF tables, Table!vars
  <2>2. CASE \E p \in Proc : Commit(p)
    BY <2>2, CommitIsOneOperation
  <2>3. UNCHANGED tables \/ \E p \in Proc : Commit(p)
    BY DEF StoreNext, storeVars, CallCreate, CallClaim, CallSettle, CallTerminate, CallRelease, CallPush,
       CallTake, CallConsume, Call, Statement, BeginImmediate, Busy, Check, Refuse, WriteCreate,
       WriteTransition, WriteRelease, WriteTrail, WriteEvent, WriteUse, Execute, Crash, Respawn
  <2>. QED  BY <2>1, <2>2, <2>3
<1>. QED  BY <1>1, <1>2, InvIsInvariant, PTL DEF StoreSpec, ImplementsTable, Table!Spec

(***************************************************************************)
(* put(): ArtifactStore.                                                   *)
(***************************************************************************)
Bytes == {"absent", "part", "whole"}

ArtifactTyped ==
  /\ blob \in [Contents -> Bytes] /\ onDisk \subseteq Contents
  /\ tmp \in [Writers -> Bytes] /\ named \subseteq Contents
  /\ putting \in [Writers -> Contents \cup {Nothing}] /\ putAt \in [Writers -> 1..6]
  /\ handle \in [Writers -> {"tmp", "blob"}]
  /\ cuts \in Nat /\ trusted \subseteq Contents

(* What a writer that got so far relies on.                                 *)
Halfway ==
  \A w \in Writers :
    /\ putting[w] = Nothing => putAt[w] = 1
    /\ putAt[w] = 3 => handle[w] = "tmp"
    /\ putAt[w] = 4 => tmp[w] = "whole"
    /\ putAt[w] \in {5, 6} => blob[putting[w]] = "whole"
    /\ putAt[w] = 6 => putting[w] \in onDisk \cup trusted

ContentInv ==
  /\ ArtifactTyped /\ Halfway /\ ContentIsKept
  /\ \A c \in onDisk : blob[c] = "whole"

LEMMA PutStepsAre ==
  /\ Len(Put) = 6 /\ Put[1] = "look" /\ Put[2] = "open" /\ Put[3] = "write" /\ Put[4] = "replace"
  /\ Put[5] = "sync" /\ Put[6] = "insert"
BY DEF Put

LEMMA InPutIs ==
  ASSUME ArtifactTyped, NEW w \in Writers
  PROVE  /\ InPut(w, "look") => putAt[w] = 1
         /\ InPut(w, "open") => putAt[w] = 2
         /\ InPut(w, "write") => putAt[w] = 3
         /\ InPut(w, "replace") => putAt[w] = 4
         /\ InPut(w, "sync") => putAt[w] = 5
         /\ InPut(w, "insert") => putAt[w] = 6
         /\ \A call : InPut(w, call) => putting[w] \in Contents
<1>1. putAt[w] \in {1, 2, 3, 4, 5, 6}
  BY DEF ArtifactTyped
<1>. QED  BY <1>1, PutStepsAre DEF InPut, ArtifactTyped

LEMMA SkipIs ==
  ASSUME NEW w \in Writers, putAt[w] = 1, Skip(w)
  PROVE  putAt' = [putAt EXCEPT ![w] = 6] /\ putting' = putting
<1>. DEFINE inserts == {i \in 1..6 : Put[i] = "insert"}
<1>1. \A i \in 1..6 : Put[i] = "insert" <=> i = 6
  <2>1. \A i \in 1..6 : i \in {1, 2, 3, 4, 5, 6}
    OBVIOUS
  <2>. QED  BY <2>1, PutStepsAre
<1>2. putAt[w]..Len(Put) = 1..6 /\ 6 \in 1..6
  BY PutStepsAre
<1>3. (CHOOSE i \in 1..6 : Put[i] = "insert") = 6
  BY <1>1, <1>2
<1>. QED  BY <1>1, <1>2, <1>3 DEF Skip

LEMMA ContentInit == ArtifactInit => ContentInv
BY DEF ArtifactInit, ContentInv, ArtifactTyped, Halfway, ContentIsKept, RowsHaveContent, BlobsAreWhole,
       RowsAreDurable, Bytes

LEMMA WriterKeeps ==
  ASSUME ArtifactAssumption, ContentInv, NEW w \in Writers,
         \/ \E c \in Contents : BeginPut(w, c)
         \/ Look(w) \/ Open(w) \/ Write(w) \/ Replace(w) \/ Sync(w) \/ Insert(w) \/ Fault(w) \/ Kill(w)
  PROVE  ContentInv'
<1>. USE DEF ContentInv, ArtifactTyped, Halfway, ContentIsKept, RowsHaveContent, BlobsAreWhole, RowsAreDurable,
             Bytes, TmpOf, Count
<1>1. CASE \E c \in Contents : BeginPut(w, c)
  BY <1>1 DEF BeginPut, ArtifactAssumption
<1>2. CASE Look(w) /\ blob[putting[w]] # "absent"
  <2>1. putAt[w] = 1 /\ putting[w] \in Contents
    BY <1>2, InPutIs DEF Look
  <2>2. putAt' = [putAt EXCEPT ![w] = 6] /\ putting' = putting
    BY <1>2, <2>1, SkipIs DEF Look
  <2>. QED  BY <1>2, <2>1, <2>2 DEF Look, ArtifactAssumption
<1>3. CASE Look(w) /\ blob[putting[w]] = "absent"
  <2>1. putAt[w] = 1 /\ putting[w] \in Contents
    BY <1>3, InPutIs DEF Look
  <2>. QED  BY <1>3, <2>1, PutStepsAre DEF Look, Go, ArtifactAssumption
<1>4. CASE Open(w)
  <2>1. putAt[w] = 2 /\ putting[w] \in Contents
    BY <1>4, InPutIs DEF Open
  <2>. QED  BY <1>4, <2>1, PutStepsAre DEF Open, Go, ArtifactAssumption
<1>5. CASE Write(w)
  <2>1. putAt[w] = 3 /\ putting[w] \in Contents
    BY <1>5, InPutIs DEF Write
  <2>. QED  BY <1>5, <2>1, PutStepsAre DEF Write, Go, ArtifactAssumption
<1>6. CASE Replace(w)
  <2>1. putAt[w] = 4 /\ putting[w] \in Contents /\ tmp[w] = "whole"
    BY <1>6, InPutIs DEF Replace
  <2>. QED  BY <1>6, <2>1, PutStepsAre DEF Replace, Go, ArtifactAssumption
<1>7. CASE Sync(w)
  <2>1. putAt[w] = 5 /\ putting[w] \in Contents
    BY <1>7, InPutIs DEF Sync
  <2>. QED  BY <1>7, <2>1, PutStepsAre DEF Sync, Go, ArtifactAssumption
<1>8. CASE Insert(w)
  <2>1. putAt[w] = 6 /\ putting[w] \in Contents
    BY <1>8, InPutIs DEF Insert
  <2>. QED  BY <1>8, <2>1, PutStepsAre DEF Insert, Go, Done, ArtifactAssumption
<1>9. CASE Fault(w) \/ Kill(w)
  BY <1>9 DEF Fault, Kill, Done, ArtifactAssumption
<1>. QED  BY <1>1, <1>2, <1>3, <1>4, <1>5, <1>6, <1>7, <1>8, <1>9

(* What was synced stays, and no put() goes on.                             *)
LEMMA CutKeeps == ASSUME ArtifactAssumption, ContentInv, PowerCut PROVE ContentInv'
<1>1. PICK lost \in SUBSET {c \in Contents \ onDisk : blob[c] # "absent"} :
        /\ blob' = [c \in Contents |-> IF c \in lost THEN "absent" ELSE blob[c]]
        /\ onDisk' = {c \in Contents : blob'[c] # "absent"}
  BY DEF PowerCut
<1>2. UNCHANGED <<tmp, named, handle, trusted>> /\ cuts' = cuts + 1
      /\ \A w \in Writers : putting'[w] = Nothing /\ putAt'[w] = 1
  BY DEF PowerCut
<1>3. \A c \in onDisk : blob'[c] = "whole" /\ c \in onDisk'
  BY <1>1 DEF ContentInv, ArtifactTyped
<1>4. ArtifactTyped'
  BY <1>1, <1>2 DEF ContentInv, ArtifactTyped, PowerCut, Bytes
<1>5. Halfway'
  BY <1>2 DEF Halfway
<1>6. \A c \in Contents : blob'[c] # "part" /\ (c \in onDisk' => blob'[c] = "whole")
  BY <1>1 DEF ContentInv, ArtifactTyped, ContentIsKept, BlobsAreWhole, Bytes
<1>7. ContentIsKept'
  BY <1>2, <1>3, <1>6 DEF ContentInv, ArtifactTyped, ContentIsKept, RowsHaveContent, RowsAreDurable, BlobsAreWhole
<1>. QED  BY <1>1, <1>4, <1>5, <1>6, <1>7 DEF ContentInv

(* What put() said is stored can be read, whole, and survives a power cut,  *)
(* whoever else stores it and whatever is killed or fails: but for the rows *)
(* of a put() that trusted a name nobody had synced.                        *)
THEOREM ContentIsKeptAlways == ASSUME ArtifactAssumption PROVE ArtifactSpec => []ContentIsKept
<1>1. ContentInv /\ [ArtifactNext]_artifactVars => ContentInv'
  <2>1. ContentInv /\ UNCHANGED artifactVars => ContentInv'
    BY DEF ContentInv, ArtifactTyped, Halfway, ContentIsKept, RowsHaveContent, BlobsAreWhole, RowsAreDurable,
           artifactVars
  <2>. QED  BY <2>1, WriterKeeps, CutKeeps DEF ArtifactNext
<1>2. ContentInv => ContentIsKept
  BY DEF ContentInv
<1>. QED  BY <1>1, <1>2, ContentInit, PTL DEF ArtifactSpec

-------------------------------------------------------------------------------
(***************************************************************************)
(* ClaimStore, for any claims and any number of agents.                    *)
(***************************************************************************)
Inv == TypeOK /\ EdgesAgree

(* What an upsert of a copy does to the column and to the edges: they go on *)
(* agreeing.                                                                *)
LEMMA ReconcileAgrees ==
  ASSUME TypeOK, EdgesAgree, NEW copy \in Copy,
         NEW there, there = stored \cup {copy.id},
         NEW m, m = Upsert(copy)
  PROVE  /\ m \in [Claims -> Claims \cup {None}]
         /\ \A c \in Claims \ there : m[c] = None
         /\ \A d, n : <<d, n>> \in Reconcile(copy.id, there, m)
                       <=> d \in there /\ n \in there /\ m[d] = n
         /\ \A e \in Reconcile(copy.id, there, m) : \E d, n : e = <<d, n>>
<1>. DEFINE c == copy.id  R == Reconcile(c, there, m)
<1>1. c \in Claims /\ copy.by \in Claims \cup {None}
  BY DEF Copy
<1>2. m \in [Claims -> Claims \cup {None}] /\ m[c] = copy.by
       /\ \A d \in Claims : d # c => m[d] = marks[d]
  BY <1>1 DEF Upsert, TypeOK
<1>3. \A d \in Claims \ there : m[d] = None
  BY <1>2 DEF TypeOK
<1>4. there \subseteq Claims /\ stored \subseteq Claims
  BY <1>1 DEF TypeOK
<1>5. \A d, n : <<d, n>> \in edges <=> d \in stored /\ n \in stored /\ marks[d] = n
  BY DEF EdgesAgree
<1>6. \A d, n : <<d, n>> \in R <=>
        \/ <<d, n>> \in edges /\ (d = c => n = m[c])
        \/ d = c /\ n = m[c] /\ c \in there /\ m[c] \in there
        \/ n = c /\ d \in there /\ m[d] = c
  BY DEF Reconcile
<1>7. \A d, n : <<d, n>> \in R <=> d \in there /\ n \in there /\ m[d] = n
  <2>. SUFFICES ASSUME NEW d, NEW n
                PROVE  <<d, n>> \in R <=> d \in there /\ n \in there /\ m[d] = n
    OBVIOUS
  <2>1. CASE d = c
    BY <2>1, <1>2, <1>4, <1>5, <1>6
  <2>2. CASE d # c
    BY <2>2, <1>2, <1>4, <1>5, <1>6
  <2>. QED  BY <2>1, <2>2
<1>8. \A e \in R : \E d, n : e = <<d, n>>
  <2>1. \A e \in edges : \E d, n : e = <<d, n>>
    BY DEF EdgesAgree
  <2>. QED  BY <2>1 DEF Reconcile
<1>. QED  BY <1>2, <1>3, <1>7, <1>8

LEMMA AddKeeps ==
  ASSUME Inv, NEW c \in Claims, AddClaim(c)
  PROVE  /\ stored' \subseteq Claims
         /\ marks' \in [Claims -> Claims \cup {None}]
         /\ \A d \in Claims \ stored' : marks'[d] = None
         /\ edges' = {e \in stored' \X stored' : marks'[e[1]] = e[2]}
<1>1. New(c) \in Copy /\ New(c).id = c
  BY DEF New, Copy
<1>2. stored' = stored \cup {New(c).id} /\ marks' = Upsert(New(c))
  BY <1>1 DEF AddClaim
<1>3. edges' = Reconcile(New(c).id, stored', marks')
  BY <1>1 DEF AddClaim
<1>4. stored' \subseteq Claims
  BY <1>2, <1>1 DEF Inv, TypeOK
<1>5. /\ marks' \in [Claims -> Claims \cup {None}]
      /\ \A d \in Claims \ stored' : marks'[d] = None
      /\ \A d, n : <<d, n>> \in edges' <=> d \in stored' /\ n \in stored' /\ marks'[d] = n
      /\ \A e \in edges' : \E d, n : e = <<d, n>>
  BY <1>1, <1>2, <1>3, ReconcileAgrees DEF Inv
<1>. QED  BY <1>4, <1>5

LEMMA SupersedeKeeps ==
  ASSUME Inv, NEW r \in [incoming : Copy, existing : Copy], Supersedable(r), SupersedeClaim(r)
  PROVE  /\ stored' \subseteq Claims
         /\ marks' \in [Claims -> Claims \cup {None}]
         /\ \A d \in Claims \ stored' : marks'[d] = None
         /\ edges' = {e \in stored' \X stored' : marks'[e[1]] = e[2]}
<1>. DEFINE new == r.incoming.id  old == r.existing.id  m == Upsert(r.incoming)
            R == Reconcile(new, stored', m)
<1>1. r.incoming \in Copy /\ new \in Claims /\ old \in Claims /\ old # new /\ old \in stored
  BY DEF Copy, Supersedable
<1>2. stored' = stored \cup {new} /\ marks' = [m EXCEPT ![old] = new]
      /\ edges' = R \cup {<<old, new>>}
  BY DEF SupersedeClaim
<1>3. /\ m \in [Claims -> Claims \cup {None}]
      /\ \A c \in Claims \ stored' : m[c] = None
      /\ \A d, n : <<d, n>> \in R <=> d \in stored' /\ n \in stored' /\ m[d] = n
      /\ \A e \in R : \E d, n : e = <<d, n>>
  BY <1>1, <1>2, ReconcileAgrees DEF Inv
<1>4. m[old] = None
  BY <1>1 DEF Upsert, Supersedable, Inv, TypeOK
<1>5. /\ marks' \in [Claims -> Claims \cup {None}] /\ marks'[old] = new
      /\ \A d \in Claims : d # old => marks'[d] = m[d]
  BY <1>1, <1>2, <1>3
<1>6. stored' \subseteq Claims
  BY <1>1, <1>2 DEF Inv, TypeOK
<1>7. \A d \in Claims \ stored' : marks'[d] = None
  BY <1>1, <1>2, <1>3, <1>5
<1>8. \A d, n : <<d, n>> \in edges' <=> d \in stored' /\ n \in stored' /\ marks'[d] = n
  <2>. SUFFICES ASSUME NEW d, NEW n
                PROVE  <<d, n>> \in edges' <=> d \in stored' /\ n \in stored' /\ marks'[d] = n
    OBVIOUS
  <2>1. <<d, n>> \in R <=> d \in stored' /\ n \in stored' /\ m[d] = n
    BY <1>3
  <2>2. None \notin stored'
    BY <1>6, ClaimAssumption
  <2>3. <<d, n>> \in edges' <=> <<d, n>> \in R \/ (d = old /\ n = new)
    BY <1>2
  <2>4. CASE d = old
    BY <2>4, <2>1, <2>2, <2>3, <1>1, <1>2, <1>4, <1>5
  <2>5. CASE d # old
    BY <2>5, <2>1, <2>3, <1>5, <1>6
  <2>. QED  BY <2>4, <2>5
<1>9. \A e \in edges' : \E d, n : e = <<d, n>>
  BY <1>2, <1>3
<1>. QED  BY <1>5, <1>6, <1>7, <1>8, <1>9

LEMMA InitInv == Init => Inv
<1>. SUFFICES ASSUME Init PROVE Inv
  OBVIOUS
<1>1. restored \in BOOLEAN
  BY Zenon DEF Init
<1>. QED  BY <1>1, ClaimAssumption DEF Init, Inv, TypeOK, EdgesAgree

(* Which part of the state each action leaves alone is what keeps the rest. *)
LEMMA NextInv == Inv /\ [Next]_vars => Inv'
<1>. SUFFICES ASSUME Inv, [Next]_vars PROVE Inv'
  OBVIOUS
<1>. USE ClaimAssumption
<1>1. CASE UNCHANGED vars
  BY <1>1 DEF Inv, TypeOK, EdgesAgree, vars, store, agent, ghost
<1>2. ASSUME NEW a \in Agents, NEW c \in Claims, Observe(a, c) PROVE Inv'
  BY <1>2 DEF Observe, Inv, TypeOK, EdgesAgree, store, ghost
<1>3. ASSUME NEW a \in Agents, NEW c \in Claims, Correct(a, c) PROVE Inv'
  <2>1. PICK d \in Current :
          report' = [report EXCEPT ![a] = [incoming |-> New(c), existing |-> Read(d)]]
    BY <1>3 DEF Correct
  <2>2. New(c) \in Copy /\ Read(d) \in Copy
    BY DEF New, Read, Copy, Current, Inv, TypeOK
  <2>. QED  BY <1>3, <2>1, <2>2 DEF Correct, Inv, TypeOK, EdgesAgree, store, ghost
<1>4. ASSUME NEW a \in Agents, Add(a) PROVE Inv'
  <2>1. held[a] \in Claims
    BY <1>4 DEF Add, Inv, TypeOK
  <2>2. AddClaim(held[a]) /\ After(a) /\ UNCHANGED <<report, ghost>>
    BY <1>4 DEF Add
  <2>3. held' \in [Agents -> Claims \cup {None}] /\ place' \in [Agents -> 0..2]
    BY <2>2 DEF After, AddAndDetect, Inv, TypeOK
  <2>4. EdgesAgree' /\ edges' \subseteq stored' \X stored'
    BY <2>1, <2>2, AddKeeps DEF EdgesAgree
  <2>. QED  BY <2>1, <2>2, <2>3, <2>4, AddKeeps DEF Inv, TypeOK, ghost
<1>5. ASSUME NEW a \in Agents, Detect(a) PROVE Inv'
  <2>1. held[a] \in Claims
    BY <1>5 DEF Detect, Inv, TypeOK
  <2>2. held' \in [Agents -> Claims \cup {None}] /\ place' \in [Agents -> 0..2]
    BY <1>5 DEF Detect, After, AddAndDetect, Inv, TypeOK
  <2>3. Rivals(held[a]) \subseteq Claims
    BY DEF Rivals, Current, Inv, TypeOK
  <2>4. \A d \in Rivals(held[a]) : New(held[a]) \in Copy /\ Read(d) \in Copy
    BY <2>1, <2>3 DEF New, Read, Copy, Inv, TypeOK
  <2>5. report' \in [Agents -> [incoming : Copy, existing : Copy] \cup {None}]
    BY <1>5, <2>4 DEF Detect, Inv, TypeOK
  <2>6. told' \subseteq Claims \X Claims /\ reported' \subseteq Claims
    BY <1>5, <2>1, <2>3 DEF Detect, Inv, TypeOK
  <2>. QED  BY <1>5, <2>2, <2>5, <2>6 DEF Detect, Inv, TypeOK, EdgesAgree, store
<1>6. ASSUME NEW a \in Agents, Scan(a) PROVE Inv'
  <2>. PICK c \in Current : \E d \in Rivals(c) :
          report' = [report EXCEPT ![a] = [incoming |-> Read(c), existing |-> Read(d)]]
    BY <1>6 DEF Scan
  <2>1. PICK d \in Rivals(c) :
          report' = [report EXCEPT ![a] = [incoming |-> Read(c), existing |-> Read(d)]]
    OBVIOUS
  <2>2. Read(c) \in Copy /\ Read(d) \in Copy
    BY DEF Read, Copy, Rivals, Current, Inv, TypeOK
  <2>. QED  BY <1>6, <2>1, <2>2 DEF Scan, Inv, TypeOK, EdgesAgree, store, ghost
<1>7. ASSUME NEW a \in Agents, PutBack(a) PROVE Inv'
  <2>1. PICK c \in DeadEnds : report' =
          [report EXCEPT ![a] = [incoming |-> Read(c), existing |-> Read(marks[c])]]
    BY <1>7 DEF PutBack
  <2>2. c \in Claims /\ marks[c] \in Claims
    BY DEF DeadEnds, Inv, TypeOK, EdgesAgree
  <2>3. Read(c) \in Copy /\ Read(marks[c]) \in Copy
    BY <2>2 DEF Read, Copy, Inv, TypeOK
  <2>. QED  BY <1>7, <2>1, <2>3 DEF PutBack, Inv, TypeOK, EdgesAgree, store
<1>8. ASSUME NEW a \in Agents, Supersede(a) PROVE Inv'
  <2>1. report[a] \in [incoming : Copy, existing : Copy]
    BY <1>8 DEF Supersede, Inv, TypeOK
  <2>2. report' \in [Agents -> [incoming : Copy, existing : Copy] \cup {None}]
        /\ UNCHANGED <<held, place, told, reported, restored>>
    BY <1>8 DEF Supersede, Inv, TypeOK
  <2>3. CASE Supersedable(report[a])
    <3>1. SupersedeClaim(report[a]) /\ corrected' \subseteq Claims
      BY <1>8, <2>1, <2>3 DEF Supersede, Copy, Inv, TypeOK
    <3>2. EdgesAgree' /\ edges' \subseteq stored' \X stored'
      BY <2>1, <2>3, <3>1, SupersedeKeeps DEF EdgesAgree
    <3>. QED  BY <2>1, <2>2, <2>3, <3>1, <3>2, SupersedeKeeps DEF Inv, TypeOK
  <2>4. CASE ~Supersedable(report[a])
    BY <1>8, <2>2, <2>4 DEF Supersede, Inv, TypeOK, EdgesAgree, store
  <2>. QED  BY <2>3, <2>4
<1>9. ASSUME NEW a \in Agents, Leave(a) PROVE Inv'
  BY <1>9 DEF Leave, Inv, TypeOK, EdgesAgree, store, ghost
<1>. QED  BY <1>1, <1>2, <1>3, <1>4, <1>5, <1>6, <1>7, <1>8, <1>9 DEF Next

(* Every reachable state of the store and of its callers is well typed.     *)
THEOREM ClaimTypeCorrect == Spec => []TypeOK
<1>1. Spec => []Inv
  BY InitInv, NextInv, PTL DEF Spec
<1>2. Inv => TypeOK
  BY DEF Inv
<1>. QED  BY <1>1, <1>2, PTL

(* The graph backend answers from its edges what the others answer from     *)
(* their column, whatever was superseded, revived or put back.              *)
THEOREM BackendsAgree == Spec => []EdgesAgree
<1>1. Spec => []Inv
  BY InitInv, NextInv, PTL DEF Spec
<1>2. Inv => EdgesAgree
  BY DEF Inv
<1>. QED  BY <1>1, <1>2, PTL

(* Until somebody puts a dead end back, the copies callers hold are unmarked.*)
HeldUnmarked ==
  ~restored => \A a \in Agents : report[a] # None => report[a].incoming.by = None

EndInv == Inv /\ HeldUnmarked /\ ChainsEnd

LEMMA HeldUnmarkedNext ==
  ASSUME Inv, HeldUnmarked, [Next]_vars
  PROVE  HeldUnmarked'
<1>. USE ClaimAssumption
<1>1. CASE UNCHANGED vars
  BY <1>1 DEF HeldUnmarked, vars, agent, ghost
<1>2. ASSUME NEW a \in Agents, NEW c \in Claims, Observe(a, c) PROVE HeldUnmarked'
  BY <1>2 DEF Observe, HeldUnmarked, ghost
<1>3. ASSUME NEW a \in Agents, NEW c \in Claims, Correct(a, c) PROVE HeldUnmarked'
  BY <1>3 DEF Correct, HeldUnmarked, New, ghost, Inv, TypeOK
<1>4. ASSUME NEW a \in Agents, Add(a) PROVE HeldUnmarked'
  BY <1>4 DEF Add, HeldUnmarked, ghost
<1>5. ASSUME NEW a \in Agents, Detect(a) PROVE HeldUnmarked'
  BY <1>5 DEF Detect, HeldUnmarked, New, Inv, TypeOK
<1>6. ASSUME NEW a \in Agents, Scan(a) PROVE HeldUnmarked'
  BY <1>6 DEF Scan, HeldUnmarked, Read, ghost, Current, Inv, TypeOK
<1>7. ASSUME NEW a \in Agents, PutBack(a) PROVE HeldUnmarked'
  BY <1>7 DEF PutBack, HeldUnmarked
<1>8. ASSUME NEW a \in Agents, Supersede(a) PROVE HeldUnmarked'
  BY <1>8 DEF Supersede, HeldUnmarked, Inv, TypeOK
<1>9. ASSUME NEW a \in Agents, Leave(a) PROVE HeldUnmarked'
  BY <1>9 DEF Leave, HeldUnmarked, ghost, Inv, TypeOK
<1>. QED  BY <1>1, <1>2, <1>3, <1>4, <1>5, <1>6, <1>7, <1>8, <1>9 DEF Next

(* An upsert of an unmarked copy makes it an end, and takes no end away.    *)
LEMMA AddKeepsEnds ==
  ASSUME Inv, ChainsEnd, NEW c \in Claims, AddClaim(c), UNCHANGED restored
  PROVE  ChainsEnd'
<1>. SUFFICES ASSUME ~restored' PROVE ChainsEnd'
  BY DEF ChainsEnd
<1>1. stored' = stored \cup {c} /\ marks' = [marks EXCEPT ![c] = None]
  BY DEF AddClaim, Upsert, New
<1>2. marks'[c] = None /\ \A d \in Claims : d # c => marks'[d] = marks[d]
  BY <1>1 DEF Inv, TypeOK
<1>3. stored \subseteq Claims /\ None \notin stored'
  BY <1>1, ClaimAssumption DEF Inv, TypeOK
<1>. SUFFICES ASSUME NEW S \in SUBSET stored', S # {}
              PROVE  \E d \in S : marks'[d] \notin S /\ (marks'[d] # None => marks'[d] \in stored')
  BY DEF ChainsEnd
<1>4. CASE c \in S
  BY <1>4, <1>2, <1>3
<1>5. CASE c \notin S
  <2>1. PICK d \in S : marks[d] \notin S /\ (marks[d] # None => marks[d] \in stored)
    BY <1>1, <1>5 DEF ChainsEnd
  <2>. QED  BY <2>1, <1>1, <1>2, <1>3, <1>5
<1>. QED  BY <1>4, <1>5

(* A correction ends the old claim's chain at the new claim, which stands.  *)
LEMMA SupersedeKeepsEnds ==
  ASSUME Inv, ChainsEnd, NEW r \in [incoming : Copy, existing : Copy],
         Supersedable(r), ~restored => r.incoming.by = None, SupersedeClaim(r),
         UNCHANGED restored
  PROVE  ChainsEnd'
<1>. DEFINE new == r.incoming.id  old == r.existing.id
<1>. SUFFICES ASSUME ~restored' PROVE ChainsEnd'
  BY DEF ChainsEnd
<1>1. stored' = stored \cup {new} /\ marks' = [marks EXCEPT ![new] = None, ![old] = new]
  BY DEF SupersedeClaim, Upsert
<1>2. new \in Claims /\ old \in Claims /\ old # new
  BY DEF Supersedable, Copy
<1>3. /\ marks'[new] = None /\ marks'[old] = new
      /\ \A d \in Claims : d # new /\ d # old => marks'[d] = marks[d]
  BY <1>1, <1>2 DEF Inv, TypeOK
<1>4. stored \subseteq Claims /\ None \notin stored'
  BY <1>1, <1>2, ClaimAssumption DEF Inv, TypeOK
<1>. SUFFICES ASSUME NEW S \in SUBSET stored', S # {}
              PROVE  \E d \in S : marks'[d] \notin S /\ (marks'[d] # None => marks'[d] \in stored')
  BY DEF ChainsEnd
<1>5. CASE new \in S
  BY <1>5, <1>3, <1>4
<1>6. CASE new \notin S
  <2>1. PICK d \in S : marks[d] \notin S /\ (marks[d] # None => marks[d] \in stored)
    BY <1>1, <1>6 DEF ChainsEnd
  <2>2. CASE d = old
    <3>1. old \in S /\ marks'[old] = new /\ new \notin S /\ new \in stored'
      BY <2>2, <1>1, <1>3, <1>6
    <3>. QED  BY <3>1
  <2>3. CASE d # old
    <3>1. d \in Claims /\ d # new
      BY <1>1, <1>4, <1>6
    <3>2. marks'[d] = marks[d]
      BY <3>1, <2>3, <1>3
    <3>. QED  BY <3>2, <2>1, <1>1
  <2>. QED  BY <2>2, <2>3
<1>. QED  BY <1>5, <1>6

LEMMA ChainsEndNext ==
  ASSUME Inv, HeldUnmarked, ChainsEnd, [Next]_vars
  PROVE  ChainsEnd'
<1>1. CASE UNCHANGED store /\ (restored => restored')
  BY <1>1 DEF ChainsEnd, store
<1>2. ASSUME NEW a \in Agents, Add(a) PROVE ChainsEnd'
  BY <1>2, AddKeepsEnds DEF Add, ghost, Inv, TypeOK
<1>3. ASSUME NEW a \in Agents, Supersede(a) PROVE ChainsEnd'
  <2>1. report[a] \in [incoming : Copy, existing : Copy] /\ (~restored => report[a].incoming.by = None)
    BY <1>3 DEF Supersede, HeldUnmarked, Inv, TypeOK
  <2>2. CASE Supersedable(report[a])
    BY <1>3, <2>1, <2>2, SupersedeKeepsEnds DEF Supersede
  <2>3. CASE ~Supersedable(report[a])
    BY <1>3, <2>3, <1>1 DEF Supersede
  <2>. QED  BY <2>2, <2>3
<1>. QED  BY <1>1, <1>2, <1>3 DEF Next, vars, ghost, Observe, Correct, Detect, Scan, PutBack, Leave

(* No question goes dark: until somebody puts a dead end back, however the  *)
(* corrections of any number of agents race, they lead to a claim that      *)
(* stands.                                                                  *)
THEOREM ChainsEndAlways == Spec => []ChainsEnd
<1>1. Init => EndInv
  BY InitInv DEF EndInv, Init, HeldUnmarked, ChainsEnd
<1>2. EndInv /\ [Next]_vars => EndInv'
  BY NextInv, HeldUnmarkedNext, ChainsEndNext DEF EndInv
<1>3. EndInv => ChainsEnd
  BY DEF EndInv
<1>. QED  BY <1>1, <1>2, <1>3, PTL DEF Spec

(* A mark, in the store or on a copy somebody holds, is that of a           *)
(* correction; a claim is in the store before its detection runs.           *)
Detecting ==
  /\ \A c \in stored : marks[c] # None => c \in corrected
  /\ \A a \in Agents : report[a] # None =>
       (report[a].incoming.by # None => report[a].incoming.id \in corrected)
  /\ reported \subseteq stored
  /\ \A a \in Agents : held[a] # None =>
       place[a] \in {1, 2} /\ (place[a] = 2 => held[a] \in stored)

RaceInv == Inv /\ Detecting /\ RacersAreTold

LEMMA DetectingNext ==
  ASSUME Inv, Detecting, [Next]_vars
  PROVE  Detecting'
<1>. USE ClaimAssumption
<1>1. CASE UNCHANGED vars
  BY <1>1 DEF Detecting, vars, store, agent, ghost
<1>2. ASSUME NEW a \in Agents, NEW c \in Claims, Observe(a, c) PROVE Detecting'
  BY <1>2 DEF Observe, Detecting, store, ghost, Inv, TypeOK
<1>3. ASSUME NEW a \in Agents, NEW c \in Claims, Correct(a, c) PROVE Detecting'
  BY <1>3 DEF Correct, Detecting, New, store, ghost, Inv, TypeOK
<1>4. ASSUME NEW a \in Agents, Add(a) PROVE Detecting'
  <2>1. held[a] \in Claims /\ AddClaim(held[a]) /\ After(a) /\ UNCHANGED <<report, ghost>>
    BY <1>4 DEF Add, Inv, TypeOK
  <2>2. /\ stored' = stored \cup {held[a]}
        /\ \A c \in Claims : marks'[c] = IF c = held[a] THEN None ELSE marks[c]
    BY <2>1 DEF AddClaim, Upsert, New, Inv, TypeOK
  <2>3. \A c \in stored' : marks'[c] # None => c \in corrected'
    BY <2>1, <2>2 DEF Detecting, ghost, Inv, TypeOK
  <2>4. \A b \in Agents : held'[b] # None =>
          place'[b] \in {1, 2} /\ (place'[b] = 2 => held'[b] \in stored')
    BY <1>4, <2>1, <2>2 DEF Detecting, After, AddAndDetect, Inv, TypeOK
  <2>. QED  BY <2>1, <2>2, <2>3, <2>4 DEF Detecting, ghost
<1>5. ASSUME NEW a \in Agents, Detect(a) PROVE Detecting'
  <2>1. place[a] = 2 /\ held[a] \in stored
    BY <1>5 DEF Detect, Detecting, AddAndDetect
  <2>2. UNCHANGED <<store, corrected>> /\ reported' \subseteq stored
    BY <1>5, <2>1 DEF Detect, Detecting
  <2>3. held' = [held EXCEPT ![a] = None] /\ place' = [place EXCEPT ![a] = 0]
    BY <1>5, <2>1 DEF Detect, After, AddAndDetect
  <2>4. \A b \in Agents : report'[b] = report[b] \/ report'[b].incoming.by = None
    BY <1>5 DEF Detect, New, Inv, TypeOK
  <2>. QED  BY <2>2, <2>3, <2>4 DEF Detecting, store, Inv, TypeOK
<1>6. ASSUME NEW a \in Agents, Scan(a) PROVE Detecting'
  BY <1>6 DEF Scan, Detecting, Read, Current, store, ghost, Inv, TypeOK
<1>7. ASSUME NEW a \in Agents, PutBack(a) PROVE Detecting'
  BY <1>7 DEF PutBack, Detecting, Read, DeadEnds, store, Inv, TypeOK
<1>8. ASSUME NEW a \in Agents, Supersede(a) PROVE Detecting'
  <2>1. /\ report[a] \in [incoming : Copy, existing : Copy]
        /\ UNCHANGED <<held, place, told, reported, restored>>
        /\ \A b \in Agents : report'[b] = report[b] \/ report'[b] = None
    BY <1>8 DEF Supersede, Inv, TypeOK
  <2>2. CASE ~Supersedable(report[a])
    BY <1>8, <2>1, <2>2 DEF Supersede, Detecting, store
  <2>3. CASE Supersedable(report[a])
    <3>. DEFINE new == report[a].incoming.id  old == report[a].existing.id
                by == report[a].incoming.by
    <3>1. new \in Claims /\ old \in Claims /\ by \in Claims \cup {None}
      BY <2>1 DEF Copy
    <3>2. /\ stored' = stored \cup {new} /\ corrected' = corrected \cup {old}
          /\ marks' = [[marks EXCEPT ![new] = by] EXCEPT ![old] = new]
      BY <1>8, <2>3 DEF Supersede, SupersedeClaim, Upsert
    <3>3. by # None => new \in corrected
      BY <1>8 DEF Supersede, Detecting
    <3>. HIDE DEF new, old, by
    <3>4. \A c \in Claims : marks'[c] = IF c = old THEN new ELSE IF c = new THEN by ELSE marks[c]
      BY <3>1, <3>2 DEF Inv, TypeOK
    <3>5. \A c \in stored' : marks'[c] # None => c \in corrected'
      BY <3>1, <3>2, <3>3, <3>4 DEF Detecting, Inv, TypeOK
    <3>. QED  BY <2>1, <3>2, <3>5 DEF Detecting
  <2>. QED  BY <2>2, <2>3
<1>9. ASSUME NEW a \in Agents, Leave(a) PROVE Detecting'
  BY <1>9 DEF Leave, Detecting, store, ghost, Inv, TypeOK
<1>. QED  BY <1>1, <1>2, <1>3, <1>4, <1>5, <1>6, <1>7, <1>8, <1>9 DEF Next

(* The second of two detections finds the first claim current, or corrected.*)
LEMMA RacersNext ==
  ASSUME Inv, Detecting, RacersAreTold, [Next]_vars
  PROVE  RacersAreTold'
<1>1. CASE reported' = reported /\ told' = told /\ corrected \subseteq corrected'
  BY <1>1 DEF RacersAreTold
<1>2. ASSUME NEW a \in Agents, Detect(a) PROVE RacersAreTold'
  <2>. DEFINE h == held[a]
  <2>1. /\ told' = told \cup {<<h, d>> : d \in Rivals(h)} /\ reported' = reported \cup {h}
        /\ corrected' = corrected
    BY <1>2 DEF Detect
  <2>2. ASSUME NEW d \in reported, Disagree(h, d) PROVE <<h, d>> \in told' \/ d \in corrected
    <3>1. d \in stored
      BY DEF Detecting
    <3>2. CASE marks[d] = None
      BY <2>1, <2>2, <3>1, <3>2 DEF Rivals, Current
    <3>3. CASE marks[d] # None
      BY <3>1, <3>3 DEF Detecting
    <3>. QED  BY <3>2, <3>3
  <2>. SUFFICES ASSUME NEW c \in reported', NEW d \in reported', Disagree(c, d)
                PROVE  <<c, d>> \in told' \/ <<d, c>> \in told' \/ {c, d} \cap corrected' # {}
    BY DEF RacersAreTold
  <2>3. CASE c = h
    BY <2>1, <2>2, <2>3 DEF Disagree
  <2>4. CASE d = h
    BY <2>1, <2>2, <2>4 DEF Disagree
  <2>5. CASE c # h /\ d # h
    BY <2>1, <2>5 DEF RacersAreTold
  <2>. QED  BY <2>3, <2>4, <2>5
<1>3. [Next]_vars => \/ \E a \in Agents : Detect(a)
                     \/ reported' = reported /\ told' = told /\ corrected \subseteq corrected'
  BY DEF Next, vars, ghost, Observe, Correct, Add, Scan, PutBack, Supersede, Leave
<1>. QED  BY <1>1, <1>2, <1>3

(* Two runs that raced and both landed: whoever adds which claim when, and  *)
(* whatever is corrected or put back between, of two claims that disagree   *)
(* and were both checked one caller was told, or one claim was corrected.   *)
THEOREM RacersAreToldAlways == Spec => []RacersAreTold
<1>1. Init => RaceInv
  BY InitInv DEF RaceInv, Init, Detecting, RacersAreTold
<1>2. RaceInv /\ [Next]_vars => RaceInv'
  BY NextInv, DetectingNext, RacersNext DEF RaceInv
<1>3. RaceInv => RacersAreTold
  BY DEF RaceInv
<1>. QED  BY <1>1, <1>2, <1>3, PTL DEF Spec

(* Both, for any agents and claims.                                         *)
THEOREM CorrectionsAreSoundAlways == Spec => []CorrectionsAreSound
<1>1. ChainsEnd /\ RacersAreTold => CorrectionsAreSound
  BY DEF CorrectionsAreSound
<1>. QED  BY <1>1, ChainsEndAlways, RacersAreToldAlways, PTL

(***************************************************************************)
(* A brief that is made while claims are corrected (Retrieval).            *)
(***************************************************************************)
(* A claim on its way into the store is in nobody else's hands.             *)
NewIsNew ==
  \A a \in Agents : held[a] # None /\ place[a] = 1 =>
    /\ held[a] \notin stored
    /\ \A b \in Agents : /\ b # a => held[b] # held[a]
                         /\ report[b] # None => report[b].incoming.id # held[a]

InHand ==
  /\ held \in [Agents -> Claims \cup {None}] /\ place \in [Agents -> 0..2]
  /\ \A a \in Agents : held[a] # None => place[a] \in {1, 2}
  /\ report \in [Agents -> [incoming : Copy, existing : Copy] \cup {None}]

(* What was retracted is stored and marked, and either found or still to be *)
(* asked for.                                                               *)
ToWarnOf == stage \in {"warn", "walk", "done"} =>
  \A c \in before : Subject(c) \in Warned(facts) => c \in dead \/ Subject(c) \in warned

WarnInv ==
  /\ stored \subseteq Claims /\ marks \in [Claims -> Claims \cup {None}] /\ InHand /\ NewIsNew
  /\ half \in Claims \cup {None} /\ dead \subseteq Claims
  /\ before \subseteq {c \in stored : marks[c] # None}
  /\ stage = "done" => warned = {}
  /\ ToWarnOf

LEMMA WarnInit == RInit => WarnInv
BY DEF RInit, Init, WarnInv, InHand, NewIsNew, ToWarnOf

(* A step of the reader's leaves the store and its writers alone.           *)
LEMMA ReaderKeeps ==
  ASSUME WarnInv, Begin \/ Walk \/ Walked \/ Render
  PROVE  WarnInv'
<1>1. UNCHANGED <<stored, marks, held, place, report, half>>
  BY DEF Begin, Walk, Walked, Render, vars, store, agent
<1>2. (stored \subseteq Claims /\ marks \in [Claims -> Claims \cup {None}] /\ InHand /\ NewIsNew
       /\ half \in Claims \cup {None})'
  BY <1>1 DEF WarnInv, InHand, NewIsNew
<1>3. (before \subseteq {c \in stored : marks[c] # None})'
  BY <1>1 DEF WarnInv, Begin, Walk, Walked, Render
<1>4. (stage = "done" => warned = {})' /\ dead' \subseteq Claims
  BY DEF WarnInv, Begin, Walk, Walked, Render
<1>5. ToWarnOf'
  <2>1. CASE Begin
    BY <2>1 DEF Begin, ToWarnOf
  <2>2. CASE Walk \/ Render
    BY <2>2 DEF Walk, Render, WarnInv, ToWarnOf, Warned
  <2>3. CASE Walked
    <3>1. CASE stage' = "raised"
      BY <3>1 DEF ToWarnOf
    <3>2. ASSUME NEW e \in warned, warned' = warned \ {e},
                 dead' = dead \cup {c \in stored : marks[c] # None /\ Subject(c) = e}
          PROVE  ToWarnOf'
      <4>. SUFFICES ASSUME NEW c \in before, Subject(c) \in Warned(facts)
                    PROVE  c \in dead' \/ Subject(c) \in warned'
        BY <2>3 DEF Walked, ToWarnOf, Warned
      <4>1. c \in dead \/ Subject(c) \in warned
        BY <2>3 DEF Walked, WarnInv, ToWarnOf
      <4>2. c \in stored /\ marks[c] # None
        BY DEF WarnInv
      <4>. QED  BY <3>2, <4>1, <4>2
    <3>. QED  BY <2>3, <3>1, <3>2 DEF Walked
  <2>. QED  BY <2>1, <2>2, <2>3
<1>. QED  BY <1>2, <1>3, <1>4, <1>5 DEF WarnInv

(* A step of a writer's leaves the reader alone, but for what it reopens.   *)
LEMMA WriterLeaves ==
  ASSUME WarnInv, UNCHANGED <<stage, facts, warned, dead>>, before' \subseteq before,
         (stored \subseteq Claims /\ marks \in [Claims -> Claims \cup {None}])', InHand', NewIsNew',
         (half \in Claims \cup {None})', stored \subseteq stored', \A c \in before' : marks'[c] # None
  PROVE  WarnInv'
<1>1. (before \subseteq {c \in stored : marks[c] # None})'
  BY DEF WarnInv
<1>2. ToWarnOf'
  BY DEF WarnInv, ToWarnOf, Warned
<1>. QED  BY <1>1, <1>2 DEF WarnInv

LEMMA BeginsKeeps == ASSUME WarnInv, NEW a \in Agents, SupersedeBegins(a) PROVE WarnInv'
<1>1. /\ stored' = stored \cup {report[a].incoming.id} /\ marks' = Upsert(report[a].incoming)
      /\ half' = report[a].existing.id /\ report[a] # None
      /\ UNCHANGED <<held, place, report, stage, facts, warned, dead>>
      /\ before' = {c \in before : marks'[c] # None}
  BY DEF SupersedeBegins, agent
<1>2. report[a].incoming \in Copy /\ report[a].existing \in Copy
  BY <1>1 DEF WarnInv, InHand
<1>3. (stored \subseteq Claims /\ marks \in [Claims -> Claims \cup {None}] /\ half \in Claims \cup {None})'
  BY <1>1, <1>2 DEF WarnInv, Upsert, Copy
<1>4. InHand' /\ NewIsNew'
  BY <1>1 DEF WarnInv, InHand, NewIsNew
<1>. QED  BY <1>1, <1>3, <1>4, WriterLeaves

LEMMA EndsKeeps == ASSUME WarnInv, NEW a \in Agents, SupersedeEnds(a) PROVE WarnInv'
<1>1. /\ marks' = [marks EXCEPT ![half] = report[a].incoming.id] /\ report[a] # None /\ half # None
      /\ stored' = stored /\ half' = None /\ report' = [report EXCEPT ![a] = None]
      /\ UNCHANGED <<held, place, stage, facts, warned, dead, before>>
  BY DEF SupersedeEnds, reader
<1>2. report[a].incoming.id \in Claims /\ half \in Claims
  BY <1>1 DEF WarnInv, InHand, Copy
<1>3. marks' \in [Claims -> Claims \cup {None}] /\ \A c \in before : marks'[c] # None
  BY <1>1, <1>2, ClaimAssumption DEF WarnInv
<1>4. InHand' /\ NewIsNew'
  BY <1>1 DEF WarnInv, InHand, NewIsNew
<1>. QED  BY <1>1, <1>3, <1>4, WriterLeaves DEF WarnInv

LEMMA WritesKeeps == ASSUME WarnInv, NEW a \in Agents, Writes(a) PROVE WarnInv'
<1>1. UNCHANGED <<half, stage, facts, warned, dead, before>>
  BY DEF Writes, reader
<1>2. /\ stored \subseteq stored' /\ stored' \subseteq Claims
      /\ marks' \in [Claims -> Claims \cup {None}] /\ \A c \in before : marks'[c] # None
  <2>1. CASE Add(a)
    <3>1. held[a] \in Claims /\ held[a] \notin stored
      BY <2>1 DEF Add, AddAndDetect, WarnInv, InHand, NewIsNew
    <3>. QED  BY <2>1, <3>1 DEF Add, AddClaim, Upsert, New, WarnInv
  <2>2. CASE ~Add(a)
    <3>1. UNCHANGED store
      BY <2>2 DEF Writes, Observe, Correct, Detect, Scan, Leave
    <3>. QED  BY <3>1 DEF store, WarnInv
  <2>. QED  BY <2>1, <2>2
<1>3. InHand' /\ NewIsNew'
  <2>1. ASSUME NEW c \in Claims, Observe(a, c) PROVE InHand' /\ NewIsNew'
    BY <2>1 DEF Observe, Fresh, store, Idle, WarnInv, InHand, NewIsNew
  <2>2. ASSUME NEW c \in Claims, Correct(a, c) PROVE InHand' /\ NewIsNew'
    <3>1. PICK d \in Current :
            report' = [report EXCEPT ![a] = [incoming |-> New(c), existing |-> Read(d)]]
      BY <2>2 DEF Correct
    <3>2. New(c) \in Copy /\ Read(d) \in Copy /\ New(c).id = c
      BY DEF New, Read, Copy, Current, WarnInv
    <3>. QED  BY <2>2, <3>1, <3>2 DEF Correct, Fresh, store, WarnInv, InHand, NewIsNew
  <2>3. CASE Add(a)
    <3>1. held[a] # None /\ stored' = stored \cup {held[a]} /\ place[a] = 1 /\ report' = report
      BY <2>3 DEF Add, AddAndDetect, AddClaim, WarnInv, InHand
    <3>2. place' = [place EXCEPT ![a] = 2] /\ held' = held
      BY <2>3, <3>1 DEF Add, After, AddAndDetect, WarnInv, InHand
    <3>. QED  BY <3>1, <3>2 DEF WarnInv, InHand, NewIsNew
  <2>4. CASE Detect(a)
    <3>1. held[a] # None /\ stored' = stored /\ place[a] = 2
      BY <2>4 DEF Detect, AddAndDetect, store, WarnInv, InHand
    <3>2. place' = [place EXCEPT ![a] = 0] /\ held' = [held EXCEPT ![a] = None]
      BY <2>4, <3>1 DEF Detect, After, AddAndDetect
    <3>3. \/ report' = report
          \/ \E d \in Rivals(held[a]) :
               report' = [report EXCEPT ![a] = [incoming |-> New(held[a]), existing |-> Read(d)]]
      BY <2>4 DEF Detect
    <3>4. \A d \in Rivals(held[a]) : New(held[a]) \in Copy /\ Read(d) \in Copy /\ New(held[a]).id = held[a]
      BY <3>1 DEF Rivals, Current, New, Read, Copy, WarnInv, InHand
    <3>. QED  BY <3>1, <3>2, <3>3, <3>4 DEF WarnInv, InHand, NewIsNew
  <2>5. CASE Scan(a)
    <3>1. PICK c \in stored, d \in stored :
            report' = [report EXCEPT ![a] = [incoming |-> Read(c), existing |-> Read(d)]]
      BY <2>5 DEF Scan, Current, Rivals
    <3>2. Read(c) \in Copy /\ Read(d) \in Copy /\ Read(c).id = c
      BY DEF Read, Copy, WarnInv
    <3>3. UNCHANGED <<stored, held, place>>
      BY <2>5 DEF Scan, store
    <3>. QED  BY <3>1, <3>2, <3>3 DEF WarnInv, InHand, NewIsNew
  <2>6. CASE Leave(a)
    BY <2>6 DEF Leave, store, WarnInv, InHand, NewIsNew
  <2>. QED  BY <2>1, <2>2, <2>3, <2>4, <2>5, <2>6 DEF Writes
<1>. QED  BY <1>1, <1>2, <1>3, WriterLeaves DEF WarnInv

LEMMA WarnStep == WarnInv /\ [RNext]_rvars => WarnInv'
<1>. SUFFICES ASSUME WarnInv, [RNext]_rvars PROVE WarnInv'
  OBVIOUS
<1>1. CASE UNCHANGED rvars
  BY <1>1 DEF rvars, vars, store, agent, reader, WarnInv, InHand, NewIsNew, ToWarnOf, Warned
<1>. QED  BY <1>1, ReaderKeeps, BeginsKeeps, EndsKeeps, WritesKeeps DEF RNext

(* One section of a brief: what it takes fits and is no more than it has,   *)
(* and what it does not take is counted.                                    *)
Page == [spent : Int, kept : Seq(Int), dropped : Int]

Fitted(acc, n, after) ==
  /\ after \in Page /\ after.spent <= Room
  /\ \E m \in Int : /\ after.kept = Append(acc.kept, m) /\ after.dropped = acc.dropped + (n - m)
                    /\ n >= 0 => m <= n

LEMMA FitAccounts ==
  ASSUME NEW acc \in Page, acc.spent <= Room, NEW n \in Int, Room \in Nat
  PROVE  Fitted(acc, n, Fit(acc, n))
<1>. DEFINE head == IF acc.spent > 0 THEN 2 ELSE 1
            space == Room - acc.spent - head
            fits == IF space < 0 THEN 0 ELSE IF space < n THEN space ELSE n
            spent == IF fits = 0 THEN acc.spent ELSE acc.spent + head + fits
<1>1. acc.spent \in Int /\ acc.kept \in Seq(Int) /\ acc.dropped \in Int
  BY DEF Page
<1>2. fits \in Int /\ spent \in Int /\ spent <= Room /\ (n >= 0 => fits <= n)
  <2>1. head \in Int
    OBVIOUS
  <2>. HIDE DEF head
  <2>2. space \in Int /\ acc.spent + head + space = Room
    BY <1>1, <2>1
  <2>. HIDE DEF space
  <2>3. fits \in Int /\ (fits = 0 \/ fits <= space) /\ (n >= 0 => fits <= n)
    BY <2>2
  <2>. HIDE DEF fits
  <2>. QED  BY <1>1, <2>1, <2>2, <2>3
<1>3. Fit(acc, n) = [spent |-> spent, kept |-> Append(acc.kept, fits), dropped |-> acc.dropped + (n - fits)]
  BY DEF Fit
<1>. HIDE DEF fits, spent
<1>4. Append(acc.kept, fits) \in Seq(Int) /\ acc.dropped + (n - fits) \in Int
  BY <1>1, <1>2
<1>. QED  BY <1>2, <1>3, <1>4 DEF Fitted, Page

LEMMA AppendIs ==
  ASSUME NEW q \in Seq(Int), NEW m \in Int
  PROVE  /\ Append(q, m) \in Seq(Int) /\ Len(Append(q, m)) = Len(q) + 1
         /\ Append(q, m)[Len(q) + 1] = m
         /\ \A i \in 1..Len(q) : Append(q, m)[i] = q[i]
OBVIOUS

LEMMA ThreeAppended ==
  ASSUME NEW m1 \in Int, NEW m2 \in Int, NEW m3 \in Int,
         NEW q1, q1 = Append(<<>>, m1), NEW q2, q2 = Append(q1, m2), NEW q3, q3 = Append(q2, m3)
  PROVE  q3[1] = m1 /\ q3[2] = m2 /\ q3[3] = m3
<1>1. q1 \in Seq(Int) /\ Len(q1) = 1 /\ q1[1] = m1
  OBVIOUS
<1>2. q2 \in Seq(Int) /\ Len(q2) = 2
  BY <1>1, AppendIs
<1>3. q2[1] = m1 /\ q2[2] = m2
  BY <1>1, AppendIs
<1>4. q3[1] = m1 /\ q3[2] = m2 /\ q3[3] = m3
  BY <1>2, <1>3, AppendIs
<1>. QED  BY <1>4

(* What a brief keeps of each section, and what its note counts.            *)
LEMMA FilledParts ==
  ASSUME Room \in Nat, NEW s \in [1..3 -> Int]
  PROVE  /\ Filled(s).spent <= Room
         /\ \A i \in 1..3 : Filled(s).kept[i] \in Int /\ (s[i] >= 0 => Filled(s).kept[i] <= s[i])
         /\ Filled(s).dropped = (s[1] - Filled(s).kept[1]) + (s[2] - Filled(s).kept[2])
                               + (s[3] - Filled(s).kept[3])
<1>. DEFINE first == Fit(Blank, s[1])  second == Fit(first, s[2])  third == Fit(second, s[3])
<1>1. s[1] \in Int /\ s[2] \in Int /\ s[3] \in Int
  OBVIOUS
<1>2. Fitted(Blank, s[1], first)
  <2>1. Blank \in Page /\ Blank.spent <= Room
    BY DEF Blank, Page
  <2>. QED  BY <1>1, <2>1, FitAccounts
<1>3. Fitted(first, s[2], second)
  <2>. HIDE DEF first
  <2>. QED  BY <1>1, <1>2, FitAccounts DEF Fitted
<1>4. Fitted(second, s[3], third)
  <2>. HIDE DEF second
  <2>. QED  BY <1>1, <1>3, FitAccounts DEF Fitted
<1>5. Filled(s) = third
  BY DEF Filled
<1>. HIDE DEF first, second, third
<1>6. PICK m1 \in Int : /\ first.kept = Append(<<>>, m1) /\ first.dropped = s[1] - m1
                        /\ s[1] >= 0 => m1 <= s[1]
  BY <1>1, <1>2 DEF Fitted, Blank
<1>7. PICK m2 \in Int : /\ second.kept = Append(first.kept, m2) /\ second.dropped = first.dropped + (s[2] - m2)
                        /\ s[2] >= 0 => m2 <= s[2]
  BY <1>3 DEF Fitted
<1>8. PICK m3 \in Int : /\ third.kept = Append(second.kept, m3) /\ third.dropped = second.dropped + (s[3] - m3)
                        /\ s[3] >= 0 => m3 <= s[3]
  BY <1>4 DEF Fitted
<1>9. third.kept[1] = m1 /\ third.kept[2] = m2 /\ third.kept[3] = m3
  BY <1>6, <1>7, <1>8, ThreeAppended
<1>10. third.dropped = (s[1] - m1) + (s[2] - m2) + (s[3] - m3)
  BY <1>6, <1>7, <1>8
<1>11. \A i \in 1..3 : third.kept[i] \in Int /\ (s[i] >= 0 => third.kept[i] <= s[i])
  <2>1. third.kept[1] \in Int /\ (s[1] >= 0 => third.kept[1] <= s[1])
    BY <1>6, <1>9
  <2>2. third.kept[2] \in Int /\ (s[2] >= 0 => third.kept[2] <= s[2])
    BY <1>7, <1>9
  <2>3. third.kept[3] \in Int /\ (s[3] >= 0 => third.kept[3] <= s[3])
    BY <1>8, <1>9
  <2>. QED  BY <2>1, <2>2, <2>3
<1>12. third.spent <= Room
  BY <1>4 DEF Fitted
<1>. QED  BY <1>5, <1>9, <1>10, <1>11, <1>12

(* Whatever the three sections hold, what a brief keeps fits the room it    *)
(* was given and its note counts every line it left out: of the budget of   *)
(* render_context.                                                          *)
THEOREM FilledIsAccounted ==
  ASSUME Room \in Nat, NEW s \in [1..3 -> Int]
  PROVE  Accounted(Filled(s), s)
<1>1. s[1] \in Int /\ s[2] \in Int /\ s[3] \in Int
  OBVIOUS
<1>2. /\ Filled(s).spent <= Room
      /\ Filled(s).kept[1] \in Int /\ Filled(s).kept[2] \in Int /\ Filled(s).kept[3] \in Int
      /\ Filled(s).dropped = (s[1] - Filled(s).kept[1]) + (s[2] - Filled(s).kept[2])
                            + (s[3] - Filled(s).kept[3])
  BY <1>1, FilledParts
<1>. QED  BY <1>1, <1>2 DEF Accounted

(* A brief that left nothing out shows the whole of its last section.       *)
LEMMA LastIsWhole ==
  ASSUME Room \in Nat, NEW s \in [1..3 -> Nat]
  PROVE  Filled(s).dropped > 0 \/ Filled(s).kept[3] = s[3]
<1>1. /\ s \in [1..3 -> Int] /\ s[1] \in Int /\ s[2] \in Int /\ s[3] \in Int
      /\ s[1] >= 0 /\ s[2] >= 0 /\ s[3] >= 0
  OBVIOUS
<1>2. /\ Filled(s).kept[1] \in Int /\ Filled(s).kept[2] \in Int /\ Filled(s).kept[3] \in Int
      /\ Filled(s).kept[1] <= s[1] /\ Filled(s).kept[2] <= s[2] /\ Filled(s).kept[3] <= s[3]
      /\ Filled(s).dropped = (s[1] - Filled(s).kept[1]) + (s[2] - Filled(s).kept[2])
                            + (s[3] - Filled(s).kept[3])
  BY <1>1, FilledParts
<1>3. \A m, n \in Int : m <= n => m = n \/ n - m >= 1
  OBVIOUS
<1>4. Filled(s).kept[3] = s[3] \/ s[3] - Filled(s).kept[3] >= 1
  BY <1>1, <1>2, <1>3, Zenon
<1>5. ASSUME s[3] - Filled(s).kept[3] >= 1 PROVE Filled(s).dropped > 0
  BY <1>1, <1>2, <1>5
<1>. QED  BY <1>4, <1>5

LEMMA ClaimsAreFinite == RetrievalAssumption => IsFiniteSet(Claims)
<1>. SUFFICES ASSUME RetrievalAssumption PROVE IsFiniteSet(Claims)
  OBVIOUS
<1>1. Seen \in [1..Len(Seen) -> Claims] /\ Len(Seen) \in Nat /\ Range(Seen) = Claims
  BY DEF RetrievalAssumption
<1>2. IsFiniteSet(1..Len(Seen))
  BY <1>1, FS_Interval
<1>3. Seen \in Surjection(1..Len(Seen), Claims)
  BY <1>1 DEF Range, Surjection
<1>. QED  BY <1>2, <1>3, FS_Surjection

(* A section of dead ends shows each of them or says that there are more.   *)
LEMMA SectionSays ==
  ASSUME RetrievalAssumption, MaxDeadEnds > 0, NEW hits, NEW found, found \subseteq Claims
  PROVE  /\ Sections(hits, found) \in [1..3 -> Nat]
         /\ \/ Sections(hits, found)[3] = Cardinality(found)
            \/ Sections(hits, found)[3] > MaxDeadEnds
<1>. DEFINE lines == Cardinality({c \in Claims : c \in Range(hits)})
            disputed == IF Disputed(hits) = {} THEN 0 ELSE 1
            shown == ShownDead(found)
            last == IF Cardinality(found) - shown > 0 /\ shown > 0 THEN shown + 1 ELSE shown
<1>1. Cardinality(found) \in Nat /\ lines \in Nat /\ MaxDeadEnds \in Nat
  <2>1. IsFiniteSet(found) /\ IsFiniteSet({c \in Claims : c \in Range(hits)})
    BY ClaimsAreFinite, FS_Subset
  <2>. QED  BY <2>1, FS_CardinalityType DEF RetrievalAssumption
<1>2. Sections(hits, found) = <<lines, disputed, last>>
  BY DEF Sections
<1>3. shown \in Nat /\ shown = IF Cardinality(found) < MaxDeadEnds THEN Cardinality(found) ELSE MaxDeadEnds
  BY <1>1 DEF ShownDead
<1>. HIDE DEF lines, shown
<1>4. last \in Nat /\ disputed \in Nat /\ (last = Cardinality(found) \/ last > MaxDeadEnds)
  BY <1>1, <1>3
<1>. HIDE DEF last, disputed
<1>. QED  BY <1>1, <1>2, <1>4

(* A brief finds what was retracted about the subjects of its facts, and    *)
(* shows all of it or says that it left some out: of render_context against *)
(* supersede(), for any number of agents that correct claims on copies      *)
(* however old, any claims and queries, any room, and any max_dead_ends     *)
(* from 1 on.                                                               *)
THEOREM WarnsOfItsFactsAlways == RSpec => []WarnsOfItsFacts
<1>1. WarnInv => WarnsOfItsFacts
  <2>. SUFFICES ASSUME WarnInv, stage = "done"
                PROVE  /\ Due \subseteq dead
                       /\ MaxDeadEnds > 0 => \/ Brief(facts, dead).kept[3] = Cardinality(dead)
                                             \/ SaysLess(Brief(facts, dead))
    BY DEF WarnsOfItsFacts
  <2>1. Due \subseteq dead
    BY DEF WarnInv, ToWarnOf, Due, Warned
  <2>2. ASSUME MaxDeadEnds > 0
        PROVE  \/ Brief(facts, dead).kept[3] = Cardinality(dead)
               \/ SaysLess(Brief(facts, dead))
    <3>. DEFINE s == Sections(facts, dead)
    <3>1. s \in [1..3 -> Nat] /\ (s[3] = Cardinality(dead) \/ s[3] > MaxDeadEnds)
      BY <2>2, RetrievalAssumption, SectionSays DEF WarnInv
    <3>. HIDE DEF s
    <3>2. Filled(s).dropped > 0 \/ Filled(s).kept[3] = s[3]
      BY <3>1, RetrievalAssumption, LastIsWhole DEF RetrievalAssumption
    <3>3. Brief(facts, dead) = Filled(s)
      BY DEF Brief, s
    <3>. QED  BY <3>1, <3>2, <3>3 DEF SaysLess
  <2>. QED  BY <2>1, <2>2
<1>. QED  BY <1>1, WarnInit, WarnStep, PTL DEF RSpec
================================================================================
