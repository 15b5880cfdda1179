---------------------------- MODULE DirectoryProofs ----------------------------
(***************************************************************************)
(* Proofs about the files processes meet in: plan.json (PlanFile), the      *)
(* approval handshake (ApprovalFile), and the generated policies and the   *)
(* trace the commands share (CommandRun), for any processes, directories,  *)
(* plans, registries, command lines and bounds. CommandAssumption is what  *)
(* the parser of cli/main.py lets through.                                 *)
(***************************************************************************)
EXTENDS CommandRun, PlanFile, ApprovalFile, FiniteSetTheorems, TLAPS

(***************************************************************************)
(* plan.json: PlanFile.                                                    *)
(***************************************************************************)

AtWork(p) == proc[p].at # "idle"

(* What a command can rely on while nobody else is at work on the           *)
(* directory: the file is empty while it writes it; a go that has read the  *)
(* record finds there what it read until it empties it, no later run has    *)
(* begun there, and once it is parked without --again there is no run at    *)
(* all.                                                                     *)
AtFile(p) == proc[p].at \in {"saving", "stamping"}

Undisturbed(p, d) ==
  /\ \A q \in Procs : AtWork(q) /\ proc[q].dir = d => q = p
  /\ IF AtFile(p) THEN record[d].is = "torn"
     ELSE record[d].is = "saved" /\ record[d].runs = proc[p].saw
  /\ proc[p].at # "saving" => /\ \A b \in began[d] : b.run <= proc[p].run
                              /\ ToSet(proc[p].saw) = wrote[d]
  /\ proc[p].at = "parked" /\ ~proc[p].again /\ torn[d] = FALSE => began[d] = {}

Reliable(p) ==
  /\ proc[p].dir \in Dirs /\ proc[p].run <= used.gos
  /\ ~proc[p].again => proc[p].saw = <<>>
  /\ proc[p].dir \notin shared => Undisturbed(p, proc[p].dir)

Working == \A p \in Procs : AtWork(p) => Reliable(p)

(* What a directory shows of the runs in it, whoever is at work.            *)
Kept ==
  \A d \in Dirs :
    /\ \A b \in began[d] : b.run \in traced[d] /\ b.run <= used.gos
    /\ record[d].is = "absent" => wrote[d] = {}

PlanInv == PlanTypeOK /\ Working /\ Kept /\ NotByAccident /\ HistoryIsKept

LEMMA EmptyToSet == ToSet(<<>>) = {}
BY DEF ToSet

LEMMA AppendToSet ==
  ASSUME NEW s \in Seq(Nat), NEW r \in Nat
  PROVE  Append(s, r) \in Seq(Nat) /\ ToSet(Append(s, r)) = ToSet(s) \cup {r}
<1>1. Append(s, r) \in Seq(Nat) /\ DOMAIN Append(s, r) = 1..(Len(s) + 1)
  OBVIOUS
<1>2. DOMAIN s = 1..Len(s) /\ Len(s) \in Nat
  OBVIOUS
<1>3. \A i \in DOMAIN Append(s, r) : Append(s, r)[i] = IF i = Len(s) + 1 THEN r ELSE s[i]
  OBVIOUS
<1>4. \A i \in DOMAIN s : i \in DOMAIN Append(s, r) /\ i # Len(s) + 1
  BY <1>1, <1>2
<1>5. \A i \in DOMAIN Append(s, r) : i \in DOMAIN s \/ i = Len(s) + 1
  BY <1>1, <1>2
<1>6. Len(s) + 1 \in DOMAIN Append(s, r)
  BY <1>1, <1>2
<1>. QED  BY <1>1, <1>3, <1>4, <1>5, <1>6 DEF ToSet

LEMMA PlanInitInv == PlanInit => PlanInv
<1>. SUFFICES ASSUME PlanInit PROVE PlanInv
  OBVIOUS
<1>1. PlanTypeOK
  BY DEF PlanInit, PlanTypeOK, File, Idle, Process
<1>2. Working
  BY DEF PlanInit, Working, AtWork, Idle
<1>3. Kept /\ NotByAccident /\ HistoryIsKept
  BY DEF PlanInit, Kept, NotByAccident, HistoryIsKept, Saved, File
<1>. QED  BY <1>1, <1>2, <1>3 DEF PlanInv

(* A process that stops working leaves the others undisturbed.              *)
LEMMA LeavingKeeps ==
  ASSUME PlanInv, NEW p \in Procs, AtWork(p), proc' = [proc EXCEPT ![p] = Idle],
         UNCHANGED <<record, traced, began, wrote, shared>>,
         torn' \in [Dirs -> BOOLEAN], \A d \in Dirs : torn[d] => torn'[d],
         used' \in [plans : Nat, gos : Nat, kills : Nat], used'.gos = used.gos
  PROVE  PlanInv'
<1>1. PlanTypeOK'
  BY DEF PlanInv, PlanTypeOK, Idle, Process
<1>2. \A q \in Procs : AtWork(q)' => q # p /\ AtWork(q) /\ proc'[q] = proc[q]
  BY DEF PlanInv, PlanTypeOK, AtWork, Idle
<1>3. Working'
  <2>. SUFFICES ASSUME NEW q \in Procs, AtWork(q)'
                PROVE  Reliable(q)'
    BY DEF Working
  <2>1. AtWork(q) /\ proc'[q] = proc[q]
    BY <1>2
  <2>2. Reliable(q)
    BY <2>1 DEF PlanInv, Working
  <2>. QED  BY <1>2, <2>1, <2>2 DEF Reliable, Undisturbed, AtFile
<1>4. Kept' /\ NotByAccident' /\ HistoryIsKept'
  BY DEF PlanInv, Kept, NotByAccident, HistoryIsKept, Saved, Runs
<1>. QED  BY <1>1, <1>3, <1>4 DEF PlanInv

(* A process that goes on to another step of its own.                       *)
LEMMA AdvancingKeeps ==
  ASSUME PlanInv, NEW p \in Procs, AtWork(p), NEW step,
         step \in {"parked", "working"}, ~AtFile(p),
         proc' = [proc EXCEPT ![p].at = step],
         step = "parked" /\ ~proc[p].again /\ torn[proc[p].dir] = FALSE /\ proc[p].dir \notin shared
           => began[proc[p].dir] = {},
         UNCHANGED <<record, traced, torn, began, wrote, shared, used>>
  PROVE  PlanInv'
<1>1. PlanTypeOK'
  <2>1. [proc[p] EXCEPT !.at = step] \in Process
    BY DEF PlanInv, PlanTypeOK, Process
  <2>. QED  BY <2>1 DEF PlanInv, PlanTypeOK
<1>2. \A q \in Procs : /\ AtWork(q)' = AtWork(q) /\ proc'[q].dir = proc[q].dir
                       /\ proc'[q].again = proc[q].again /\ proc'[q].saw = proc[q].saw
                       /\ proc'[q].run = proc[q].run
                       /\ proc'[q].at = IF q = p THEN step ELSE proc[q].at
  BY DEF PlanInv, PlanTypeOK, AtWork, Process
<1>3. Working'
  <2>. SUFFICES ASSUME NEW q \in Procs, AtWork(q)'
                PROVE  Reliable(q)'
    BY DEF Working
  <2>1. Reliable(q)
    BY <1>2 DEF PlanInv, Working
  <2>. QED  BY <1>2, <2>1 DEF Reliable, Undisturbed, AtFile
<1>4. Kept' /\ NotByAccident' /\ HistoryIsKept'
  BY DEF PlanInv, Kept, NotByAccident, HistoryIsKept, Saved, Runs
<1>. QED  BY <1>1, <1>3, <1>4 DEF PlanInv

LEMMA GoKeeps ==
  ASSUME PlanInv, NEW p \in Procs, NEW named \in BOOLEAN, NEW again \in BOOLEAN, NEW d \in Dirs,
         Go(p, named, d, again)
  PROVE  PlanInv'
<1>. DEFINE new == [at |-> "read", dir |-> d, again |-> again, saw |-> Runs(d), run |-> used.gos + 1]
<1>1. /\ proc[p].at = "idle" /\ Saved(d) /\ (~again => Runs(d) = <<>>)
      /\ used' = [used EXCEPT !.gos = @ + 1] /\ proc' = [proc EXCEPT ![p] = new]
      /\ UNCHANGED <<record, traced, torn, began, wrote>>
  BY DEF Go, Unexecuted
<1>2. shared' = IF \E q \in Procs : AtWork(q) /\ proc[q].dir = d THEN shared \cup {d} ELSE shared
  BY DEF Go, Meets, AtWork
<1>3. Runs(d) \in Seq(Nat) /\ used.gos \in Nat /\ used'.gos = used.gos + 1
  BY <1>1 DEF PlanInv, PlanTypeOK, Runs
<1>4. PlanTypeOK'
  <2>1. new \in Process
    BY <1>3 DEF Process
  <2>2. shared' \subseteq Dirs
    BY <1>2 DEF PlanInv, PlanTypeOK
  <2>3. used' \in [plans : Nat, gos : Nat, kills : Nat]
    <3>1. used \in [plans : Nat, gos : Nat, kills : Nat] /\ used.gos + 1 \in Nat
      BY <1>3 DEF PlanInv, PlanTypeOK
    <3>. QED  BY <1>1, <3>1
  <2>. QED  BY <1>1, <2>1, <2>2, <2>3 DEF PlanInv, PlanTypeOK
<1>5. proc'[p] = new /\ \A q \in Procs : q # p => proc'[q] = proc[q]
  BY <1>1 DEF PlanInv, PlanTypeOK
<1>6. Working'
  <2>. SUFFICES ASSUME NEW q \in Procs, AtWork(q)'
                PROVE  Reliable(q)'
    BY DEF Working
  <2>1. CASE q = p
    <3>1. d \notin shared' => /\ d \notin shared
                              /\ \A r \in Procs : AtWork(r) /\ proc[r].dir = d => FALSE
      BY <1>2
    <3>2. \A r \in Procs : AtWork(r)' /\ proc'[r].dir = d /\ d \notin shared' => r = p
      BY <1>5, <3>1 DEF AtWork
    <3>3. \A b \in began'[d] : b.run <= used.gos + 1
      BY <1>1, <1>3 DEF PlanInv, Kept, PlanTypeOK
    <3>4. d \notin shared' => ToSet(Runs(d)) = wrote'[d]
      BY <1>1, <3>1 DEF PlanInv, HistoryIsKept
    <3>5. record'[d].is = "saved" /\ record'[d].runs = Runs(d)
      BY <1>1 DEF Saved, Runs
    <3>6. d \notin shared' => Undisturbed(p, d)'
      BY <1>5, <3>2, <3>3, <3>4, <3>5 DEF Undisturbed, AtFile
    <3>. QED  BY <1>1, <1>3, <1>5, <2>1, <3>6 DEF Reliable
  <2>2. CASE q # p
    <3>1. AtWork(q) /\ proc'[q] = proc[q]
      BY <1>5, <2>2 DEF AtWork
    <3>2. Reliable(q)
      BY <3>1 DEF PlanInv, Working
    <3>3. proc[q].run \in Nat
      BY DEF PlanInv, PlanTypeOK, Process
    <3>4. proc[q].dir \notin shared' => proc[q].dir \notin shared /\ proc[q].dir # d
      BY <1>2, <3>1
    <3>5. proc[q].dir \notin shared' => Undisturbed(q, proc[q].dir)'
      BY <1>1, <1>5, <3>1, <3>2, <3>4 DEF Reliable, Undisturbed, AtFile, AtWork
    <3>. QED  BY <1>3, <3>1, <3>2, <3>3, <3>5 DEF Reliable
  <2>. QED  BY <2>1, <2>2
<1>7. Kept'
  BY <1>1, <1>3 DEF PlanInv, Kept, PlanTypeOK
<1>8. shared \subseteq shared'
  BY <1>2
<1>9. NotByAccident' /\ HistoryIsKept'
  BY <1>1, <1>8 DEF PlanInv, NotByAccident, HistoryIsKept, Saved, Runs
<1>. QED  BY <1>4, <1>6, <1>7, <1>9 DEF PlanInv

(* plan empties the file, whatever it named; whoever was at work there is   *)
(* disturbed by it.                                                         *)
LEMMA PlanTruncatesKeeps ==
  ASSUME PlanInv, NEW p \in Procs, NEW d \in Dirs, PlanTruncates(p, d)
  PROVE  PlanInv'
<1>. DEFINE new == [at |-> "saving", dir |-> d, again |-> FALSE, saw |-> <<>>, run |-> 0]
<1>1. /\ proc[p].at = "idle" /\ used' = [used EXCEPT !.plans = @ + 1]
      /\ record' = [record EXCEPT ![d] = File("torn", <<>>)] /\ proc' = [proc EXCEPT ![p] = new]
      /\ UNCHANGED <<traced, torn, began, wrote>>
  BY DEF PlanTruncates
<1>2. shared' = IF \E q \in Procs : AtWork(q) /\ proc[q].dir = d THEN shared \cup {d} ELSE shared
  BY DEF PlanTruncates, Meets, AtWork
<1>3. /\ new.at = "saving" /\ new.dir = d /\ new.again = FALSE /\ new.saw = <<>> /\ new.run = 0
      /\ new \in Process
  BY DEF Process
<1>. HIDE DEF new
<1>4. proc'[p] = new /\ \A q \in Procs : q # p => proc'[q] = proc[q]
  BY <1>1 DEF PlanInv, PlanTypeOK
<1>5. record'[d].is = "torn" /\ \A e \in Dirs : e # d => record'[e] = record[e]
  BY <1>1 DEF PlanInv, PlanTypeOK, File
<1>6. PlanTypeOK' /\ used'.gos = used.gos /\ used.gos \in Nat
  <2>1. used \in [plans : Nat, gos : Nat, kills : Nat] /\ used.plans + 1 \in Nat
    BY DEF PlanInv, PlanTypeOK
  <2>2. used' \in [plans : Nat, gos : Nat, kills : Nat] /\ used'.gos = used.gos
    BY <1>1, <2>1
  <2>3. shared' \subseteq Dirs
    BY <1>2 DEF PlanInv, PlanTypeOK
  <2>. QED  BY <1>1, <1>3, <2>1, <2>2, <2>3 DEF PlanInv, PlanTypeOK, File
<1>7. Working'
  <2>. SUFFICES ASSUME NEW q \in Procs, AtWork(q)'
                PROVE  Reliable(q)'
    BY DEF Working
  <2>1. CASE q = p
    <3>1. d \notin shared' => \A r \in Procs : AtWork(r) => proc[r].dir # d
      BY <1>2
    <3>2. d \notin shared' => \A r \in Procs : AtWork(r)' /\ proc'[r].dir = d => r = p
      BY <1>4, <3>1 DEF AtWork
    <3>3. d \notin shared' => Undisturbed(p, d)'
      BY <1>3, <1>4, <1>5, <3>2 DEF Undisturbed, AtFile
    <3>. QED  BY <1>3, <1>4, <1>6, <2>1, <3>3 DEF Reliable
  <2>2. CASE q # p
    <3>1. AtWork(q) /\ proc'[q] = proc[q]
      BY <1>4, <2>2 DEF AtWork
    <3>2. Reliable(q)
      BY <3>1 DEF PlanInv, Working
    <3>3. proc[q].dir \notin shared' => proc[q].dir \notin shared /\ proc[q].dir # d
      BY <1>2, <3>1
    <3>4. proc[q].dir \notin shared' => Undisturbed(q, proc[q].dir)'
      BY <1>1, <1>3, <1>4, <1>5, <3>1, <3>2, <3>3 DEF Reliable, Undisturbed, AtFile, AtWork
    <3>. QED  BY <1>6, <3>1, <3>2, <3>4 DEF Reliable
  <2>. QED  BY <2>1, <2>2
<1>8. Kept'
  BY <1>1, <1>5, <1>6 DEF PlanInv, Kept
<1>9. shared \subseteq shared'
  BY <1>2
<1>10. NotByAccident' /\ HistoryIsKept'
  BY <1>1, <1>5, <1>9 DEF PlanInv, NotByAccident, HistoryIsKept, Saved, Runs
<1>. QED  BY <1>6, <1>7, <1>8, <1>10 DEF PlanInv

(* No run of the directory began that the record does not name, and the     *)
(* record names none: nothing began.                                        *)
LEMMA StartsKeeps == ASSUME PlanInv, NEW p \in Procs, Starts(p) PROVE PlanInv'
<1>. DEFINE d == proc[p].dir
<1>1. /\ proc[p].at = "read" /\ proc' = [proc EXCEPT ![p].at = "parked"]
      /\ UNCHANGED <<record, traced, torn, began, wrote, shared, used>>
      /\ ~Unfinished(d, proc[p].saw) \/ proc[p].again
  BY DEF Starts
<1>2. d \in Dirs /\ (~proc[p].again => proc[p].saw = <<>>)
  BY <1>1 DEF PlanInv, Working, AtWork, Reliable
<1>3. ASSUME ~proc[p].again, torn[d] = FALSE
      PROVE  began[d] = {}
  <2>1. \A r \in traced[d] : r \in ToSet(<<>>)
    BY <1>1, <1>2, <1>3 DEF Unfinished
  <2>. QED  BY <1>2, <2>1, EmptyToSet DEF PlanInv, Kept
<1>. QED  BY <1>1, <1>3, AdvancingKeeps DEF AtWork, AtFile

LEMMA BeginsKeeps == ASSUME PlanInv, NEW p \in Procs, Begins(p) PROVE PlanInv'
<1>. DEFINE d == proc[p].dir
            b == [run |-> proc[p].run, again |-> proc[p].again]
<1>1. /\ proc[p].at = "parked" /\ ~torn[d]
      /\ traced' = [traced EXCEPT ![d] = @ \cup {proc[p].run}]
      /\ began' = [began EXCEPT ![d] = @ \cup {b}]
      /\ proc' = [proc EXCEPT ![p].at = "working"]
      /\ UNCHANGED <<record, torn, wrote, shared, used>>
  BY DEF Begins
<1>2. /\ d \in Dirs /\ proc[p].run <= used.gos
      /\ d \notin shared => Undisturbed(p, d)
  BY <1>1 DEF PlanInv, Working, AtWork, Reliable
<1>3. proc[p] \in Process /\ [proc[p] EXCEPT !.at = "working"] \in Process
  BY DEF PlanInv, PlanTypeOK, Process
<1>4. PlanTypeOK'
  <2>1. proc' \in [Procs -> Process]
    BY <1>1, <1>3 DEF PlanInv, PlanTypeOK
  <2>2. b \in [run : Nat, again : BOOLEAN] /\ proc[p].run \in Nat
    BY <1>3 DEF Process
  <2>. QED  BY <1>1, <1>2, <2>1, <2>2 DEF PlanInv, PlanTypeOK
<1>5. /\ began'[d] = began[d] \cup {b} /\ traced'[d] = traced[d] \cup {proc[p].run}
      /\ \A e \in Dirs : e # d => began'[e] = began[e] /\ traced'[e] = traced[e]
  BY <1>1, <1>2 DEF PlanInv, PlanTypeOK
<1>6. \A q \in Procs : /\ AtWork(q)' = AtWork(q) /\ proc'[q].dir = proc[q].dir
                       /\ proc'[q].again = proc[q].again /\ proc'[q].saw = proc[q].saw
                       /\ proc'[q].run = proc[q].run
                       /\ proc'[q].at = IF q = p THEN "working" ELSE proc[q].at
  BY <1>1 DEF PlanInv, PlanTypeOK, AtWork, Process
<1>7. Working'
  <2>. SUFFICES ASSUME NEW q \in Procs, AtWork(q)'
                PROVE  Reliable(q)'
    BY <1>6 DEF Working
  <2>1. Reliable(q)
    BY <1>6 DEF PlanInv, Working
  <2>2. ASSUME proc[q].dir \notin shared PROVE Undisturbed(q, proc[q].dir)'
    <3>1. CASE q = p
      <4>1. \A c \in began'[d] : c.run <= proc[p].run
        BY <1>1, <1>3, <1>5, <2>1, <2>2, <3>1 DEF Reliable, Undisturbed, Process
      <4>. QED  BY <1>1, <1>6, <2>1, <2>2, <3>1, <4>1 DEF Reliable, Undisturbed, AtFile
    <3>2. CASE q # p
      <4>1. proc[q].dir # d
        BY <1>1, <1>6, <2>1, <2>2, <3>2 DEF Reliable, Undisturbed, AtFile, AtWork
      <4>. QED  BY <1>1, <1>5, <1>6, <2>1, <2>2, <3>2, <4>1 DEF Reliable, Undisturbed, AtFile
    <3>. QED  BY <3>1, <3>2
  <2>. QED  BY <1>1, <1>6, <2>1, <2>2 DEF Reliable
<1>8. Kept'
  BY <1>1, <1>2, <1>5 DEF PlanInv, Kept
<1>9. NotByAccident'
  <2>. SUFFICES ASSUME NEW e \in Dirs, e \notin shared,
                       NEW c \in began'[e], NEW f \in began'[e], c.run < f.run
                PROVE  f.again
    BY <1>1 DEF NotByAccident
  <2>1. CASE e # d \/ (c # b /\ f # b)
    BY <1>5, <2>1 DEF PlanInv, NotByAccident
  <2>2. CASE e = d /\ f = b /\ c # b
    <3>1. c \in began[d]
      BY <1>5, <2>2
    <3>2. torn[d] = FALSE
      BY <1>1, <1>2 DEF PlanInv, PlanTypeOK
    <3>3. proc[p].again
      BY <1>1, <1>2, <2>2, <3>1, <3>2 DEF Undisturbed, AtFile
    <3>. QED  BY <2>2, <3>3
  <2>3. CASE e = d /\ c = b
    <3>1. f.run <= proc[p].run
      BY <1>1, <1>2, <1>3, <1>5, <2>3 DEF Undisturbed, AtFile, Process
    <3>2. f.run \in Nat /\ c.run = proc[p].run /\ proc[p].run \in Nat
      BY <1>3, <1>4, <2>3 DEF PlanTypeOK, Process
    <3>. QED  BY <3>1, <3>2
  <2>. QED  BY <1>5, <2>1, <2>2, <2>3
<1>10. HistoryIsKept'
  BY <1>1 DEF PlanInv, HistoryIsKept, Saved, Runs
<1>. QED  BY <1>4, <1>7, <1>8, <1>9, <1>10 DEF PlanInv

(* What both steps of write_text do to everybody else: a record changes     *)
(* that only its writer relies on.                                          *)
LEMMA OthersWork ==
  ASSUME PlanInv, NEW p \in Procs, AtWork(p), NEW q \in Procs, AtWork(q), q # p,
         proc'[q] = proc[q], \A r \in Procs : AtWork(r)' => AtWork(r) /\ proc'[r].dir = proc[r].dir,
         UNCHANGED <<torn, began, shared, used>>,
         \A e \in Dirs : e # proc[p].dir => record'[e] = record[e] /\ wrote'[e] = wrote[e]
  PROVE  Reliable(q)'
<1>1. Reliable(q)
  BY DEF PlanInv, Working
<1>2. ASSUME proc[q].dir \notin shared PROVE Undisturbed(q, proc[q].dir)'
  <2>1. proc[q].dir # proc[p].dir
    BY <1>1, <1>2 DEF Reliable, Undisturbed, AtFile
  <2>2. Undisturbed(q, proc[q].dir) /\ proc[q].dir \in Dirs
    BY <1>1, <1>2 DEF Reliable
  <2>3. /\ record'[proc[q].dir] = record[proc[q].dir] /\ wrote'[proc[q].dir] = wrote[proc[q].dir]
    BY <2>1, <2>2
  <2>. QED  BY <2>2, <2>3 DEF Undisturbed, AtFile
<1>. QED  BY <1>1, <1>2 DEF Reliable

LEMMA EmptiesKeeps == ASSUME PlanInv, NEW p \in Procs, Truncates(p) PROVE PlanInv'
<1>. DEFINE d == proc[p].dir
<1>1. /\ proc[p].at = "working"
      /\ record' = [record EXCEPT ![d] = File("torn", <<>>)]
      /\ proc' = [proc EXCEPT ![p].at = "stamping"]
      /\ UNCHANGED <<traced, torn, began, wrote, shared, used>>
  BY DEF Truncates
<1>2. /\ d \in Dirs /\ proc[p].run <= used.gos
      /\ ~proc[p].again => proc[p].saw = <<>>
      /\ d \notin shared => Undisturbed(p, d)
  BY <1>1 DEF PlanInv, Working, AtWork, Reliable
<1>3. PlanTypeOK'
  <2>1. [proc[p] EXCEPT !.at = "stamping"] \in Process
    BY DEF PlanInv, PlanTypeOK, Process
  <2>. QED  BY <1>1, <1>2, <2>1 DEF PlanInv, PlanTypeOK, File
<1>4. /\ record'[d].is = "torn"
      /\ \A e \in Dirs : e # d => record'[e] = record[e]
  BY <1>1, <1>2 DEF PlanInv, PlanTypeOK, File
<1>5. /\ proc'[p] = [proc[p] EXCEPT !.at = "stamping"]
      /\ \A q \in Procs : q # p => proc'[q] = proc[q]
  BY <1>1 DEF PlanInv, PlanTypeOK
<1>6. /\ proc'[p].at = "stamping" /\ proc'[p].dir = d /\ proc'[p].run = proc[p].run
      /\ proc'[p].again = proc[p].again /\ proc'[p].saw = proc[p].saw
  BY <1>5 DEF PlanInv, PlanTypeOK, Process
<1>7. Working'
  <2>. SUFFICES ASSUME NEW q \in Procs, AtWork(q)'
                PROVE  Reliable(q)'
    BY DEF Working
  <2>1. \A r \in Procs : AtWork(r)' => AtWork(r) /\ proc'[r].dir = proc[r].dir
    BY <1>1, <1>5, <1>6 DEF AtWork
  <2>2. CASE q = p
    <3>1. d \notin shared => Undisturbed(p, d)'
      BY <1>1, <1>2, <1>4, <1>6, <2>1 DEF Undisturbed, AtFile
    <3>. QED  BY <1>1, <1>2, <1>6, <2>2, <3>1 DEF Reliable
  <2>3. CASE q # p
    <3>1. AtWork(q) /\ proc'[q] = proc[q] /\ AtWork(p)
      BY <1>1, <1>5, <2>3 DEF AtWork
    <3>. QED  BY <1>1, <1>4, <2>1, <2>3, <3>1, OthersWork
  <2>. QED  BY <2>2, <2>3
<1>8. Kept'
  BY <1>1, <1>4 DEF PlanInv, Kept
<1>9. NotByAccident'
  BY <1>1 DEF PlanInv, NotByAccident
<1>10. HistoryIsKept'
  BY <1>1, <1>4 DEF PlanInv, HistoryIsKept, Saved, Runs
<1>. QED  BY <1>3, <1>7, <1>8, <1>9, <1>10 DEF PlanInv

LEMMA StampsKeeps == ASSUME PlanInv, NEW p \in Procs, Stamps(p) PROVE PlanInv'
<1>. DEFINE d == proc[p].dir
            run == proc[p].run
<1>1. /\ proc[p].at = "stamping"
      /\ record' = [record EXCEPT ![d] = File("saved", Append(proc[p].saw, run))]
      /\ wrote' = [wrote EXCEPT ![d] = @ \cup {run}]
      /\ proc' = [proc EXCEPT ![p] = Idle]
      /\ UNCHANGED <<traced, torn, began, shared, used>>
  BY DEF Stamps, History
<1>2. d \in Dirs /\ (d \notin shared => Undisturbed(p, d))
  BY <1>1 DEF PlanInv, Working, AtWork, Reliable
<1>3. proc[p].saw \in Seq(Nat) /\ run \in Nat
  BY DEF PlanInv, PlanTypeOK, Process
<1>4. /\ Append(proc[p].saw, run) \in Seq(Nat)
      /\ ToSet(Append(proc[p].saw, run)) = ToSet(proc[p].saw) \cup {run}
  BY <1>3, AppendToSet
<1>5. PlanTypeOK'
  BY <1>1, <1>2, <1>3, <1>4 DEF PlanInv, PlanTypeOK, File, Idle, Process
<1>6. /\ record'[d] = File("saved", Append(proc[p].saw, run)) /\ wrote'[d] = wrote[d] \cup {run}
      /\ \A e \in Dirs : e # d => record'[e] = record[e] /\ wrote'[e] = wrote[e]
  BY <1>1, <1>2 DEF PlanInv, PlanTypeOK
<1>7. \A q \in Procs : AtWork(q)' => q # p /\ AtWork(q) /\ proc'[q] = proc[q]
  BY <1>1 DEF PlanInv, PlanTypeOK, AtWork, Idle
<1>8. Working'
  <2>. SUFFICES ASSUME NEW q \in Procs, AtWork(q)'
                PROVE  Reliable(q)'
    BY DEF Working
  <2>1. \A r \in Procs : AtWork(r)' => AtWork(r) /\ proc'[r].dir = proc[r].dir
    BY <1>7
  <2>2. q # p /\ AtWork(q) /\ proc'[q] = proc[q] /\ AtWork(p)
    BY <1>1, <1>7 DEF AtWork
  <2>. QED  BY <1>1, <1>6, <2>1, <2>2, OthersWork
<1>9. record'[d].is = "saved" /\ record'[d].runs = Append(proc[p].saw, run)
  BY <1>6 DEF File
<1>10. Kept'
  BY <1>1, <1>6, <1>9 DEF PlanInv, Kept
<1>11. NotByAccident'
  BY <1>1 DEF PlanInv, NotByAccident
<1>12. HistoryIsKept'
  <2>. SUFFICES ASSUME NEW e \in Dirs, e \notin shared, Saved(e)'
                PROVE  ToSet(Runs(e)') = wrote'[e]
    BY <1>1 DEF HistoryIsKept
  <2>1. CASE e = d
    BY <1>1, <1>2, <1>4, <1>6, <1>9, <2>1 DEF Undisturbed, Runs
  <2>2. CASE e # d
    BY <1>6, <2>2 DEF PlanInv, HistoryIsKept, Saved, Runs
  <2>. QED  BY <2>1, <2>2
<1>. QED  BY <1>5, <1>8, <1>10, <1>11, <1>12 DEF PlanInv

LEMMA PlanSavesKeeps == ASSUME PlanInv, NEW p \in Procs, PlanSaves(p) PROVE PlanInv'
<1>. DEFINE d == proc[p].dir
<1>1. /\ proc[p].at = "saving" /\ record' = [record EXCEPT ![d] = File("saved", <<>>)]
      /\ wrote' = [wrote EXCEPT ![d] = {}] /\ proc' = [proc EXCEPT ![p] = Idle]
      /\ UNCHANGED <<traced, torn, began, shared, used>>
  BY DEF PlanSaves
<1>2. d \in Dirs
  BY <1>1 DEF PlanInv, Working, AtWork, Reliable
<1>3. PlanTypeOK'
  BY <1>1, <1>2 DEF PlanInv, PlanTypeOK, File, Idle, Process
<1>4. /\ record'[d].is = "saved" /\ record'[d].runs = <<>> /\ wrote'[d] = {}
      /\ \A e \in Dirs : e # d => record'[e] = record[e] /\ wrote'[e] = wrote[e]
  BY <1>1, <1>2 DEF PlanInv, PlanTypeOK, File
<1>5. \A q \in Procs : AtWork(q)' => q # p /\ AtWork(q) /\ proc'[q] = proc[q]
  BY <1>1 DEF PlanInv, PlanTypeOK, AtWork, Idle
<1>6. Working'
  <2>. SUFFICES ASSUME NEW q \in Procs, AtWork(q)'
                PROVE  Reliable(q)'
    BY DEF Working
  <2>1. \A r \in Procs : AtWork(r)' => AtWork(r) /\ proc'[r].dir = proc[r].dir
    BY <1>5
  <2>2. q # p /\ AtWork(q) /\ proc'[q] = proc[q] /\ AtWork(p)
    BY <1>1, <1>5 DEF AtWork
  <2>. QED  BY <1>1, <1>4, <2>1, <2>2, OthersWork
<1>7. Kept' /\ NotByAccident'
  BY <1>1, <1>4 DEF PlanInv, Kept, NotByAccident
<1>8. HistoryIsKept'
  BY <1>1, <1>4, EmptyToSet DEF PlanInv, HistoryIsKept, Saved, Runs
<1>. QED  BY <1>3, <1>6, <1>7, <1>8 DEF PlanInv

LEMMA PlanStepInv == PlanInv /\ [PlanNext]_planVars => PlanInv'
<1>. SUFFICES ASSUME PlanInv, [PlanNext]_planVars PROVE PlanInv'
  OBVIOUS
<1>1. ASSUME NEW p \in Procs, PlanSaves(p) \/ \E d \in Dirs : PlanTruncates(p, d)
      PROVE  PlanInv'
  BY <1>1, PlanTruncatesKeeps, PlanSavesKeeps
<1>2. ASSUME NEW p \in Procs,
             Refused(p) \/ NotExecuted(p) \/ Fails(p) \/ Kill(p)
      PROVE  PlanInv'
  <2>1. /\ AtWork(p) /\ proc' = [proc EXCEPT ![p] = Idle]
        /\ UNCHANGED <<record, traced, began, wrote, shared>>
    BY <1>2 DEF Refused, NotExecuted, Fails, Kill, AtWork
  <2>2. torn' \in [Dirs -> BOOLEAN] /\ \A d \in Dirs : torn[d] => torn'[d]
    <3>1. CASE torn' = torn
      BY <3>1 DEF PlanInv, PlanTypeOK
    <3>2. ASSUME NEW half \in BOOLEAN, torn' = [torn EXCEPT ![proc[p].dir] = @ \/ half]
          PROVE  torn' \in [Dirs -> BOOLEAN] /\ \A d \in Dirs : torn[d] => torn'[d]
      BY <3>2 DEF PlanInv, PlanTypeOK
    <3>. QED  BY <1>2, <3>1, <3>2 DEF Refused, NotExecuted, Fails, Kill
  <2>3. used' \in [plans : Nat, gos : Nat, kills : Nat] /\ used'.gos = used.gos
    BY <1>2 DEF PlanInv, PlanTypeOK, Refused, NotExecuted, Fails, Kill
  <2>. QED  BY <2>1, <2>2, <2>3, LeavingKeeps
<1>3. ASSUME NEW p \in Procs, NEW named \in BOOLEAN, NEW again \in BOOLEAN, NEW d \in Dirs,
             Go(p, named, d, again)
      PROVE  PlanInv'
  BY <1>3, GoKeeps
<1>4. ASSUME NEW p \in Procs, Starts(p) \/ Begins(p) \/ Truncates(p) \/ Stamps(p)
      PROVE  PlanInv'
  BY <1>4, StartsKeeps, BeginsKeeps, EmptiesKeeps, StampsKeeps
<1>5. CASE UNCHANGED planVars
  BY <1>5 DEF planVars, PlanInv, PlanTypeOK, Working, AtWork, Reliable, Undisturbed, AtFile, Kept, NotByAccident,
             HistoryIsKept, Saved, Runs
<1>. QED  BY <1>1, <1>2, <1>3, <1>4, <1>5 DEF PlanNext

LEMMA PlanInvAlways == PlanSpec => []PlanInv
BY PlanInitInv, PlanStepInv, PTL DEF PlanSpec

(* Every reachable state of plan.json, its readers and its trace is well    *)
(* typed.                                                                   *)
THEOREM PlanTypeCorrect == PlanSpec => []PlanTypeOK
<1>1. PlanInv => PlanTypeOK
  BY DEF PlanInv
<1>. QED  BY <1>1, PlanInvAlways, PTL

(* For any directories, plans written over plans, commands and kills: where *)
(* no two commands overlapped, no directory's plan is executed after        *)
(* another run there without --again, and plan.json names exactly the runs  *)
(* that go recorded of the plan it holds.                                   *)
THEOREM PlanRunsOnceAlways == PlanSpec => []PlanRunsOnce
<1>1. PlanInv => PlanRunsOnce
  BY DEF PlanInv, PlanRunsOnce
<1>. QED  BY <1>1, PlanInvAlways, PTL

(***************************************************************************)
(* The approval handshake: ApprovalFile.                                   *)
(***************************************************************************)
(* What processes and files have to do with each other: a descriptor names  *)
(* a file that is there, a gate's the question, an approver's the answer.    *)
DecisionFiles == {"decision", "decision.tmp"}
RequestFiles == {"request", "request.tmp"}

Linked ==
  /\ \A p \in Processes : fd[p] \in Paths => files[fd[p]] # Absent
  /\ \A g \in Gates : fd[g] \in {"none", "nowhere"} \cup RequestFiles
  /\ \A a \in Approvers : fd[a] \in {"none", "nowhere"} \cup DecisionFiles

(* Who is about to write, and nobody else, has something open.              *)
Writing == \A p \in Processes : pc[p] = "write" <=> fd[p] # "none"

OpenInv ==
  /\ Linked /\ Writing
  /\ \A a \in Approvers : pc[a] \in {"idle", "open", "write", "publish"}

Pending(a) == pc[a] \in {"open", "write"}

(* A decision on its way or on disk was taken by somebody, and none was     *)
(* taken later than the last.                                               *)
GivenInv ==
  /\ IsFiniteSet(given)
  /\ \A d \in given : d.id <= Cardinality(given)
  /\ \A path \in {"decision", "decision.tmp"} : files[path].id # 0 => files[path] \in given
  /\ \A a \in Approvers : Pending(a) => choice[a] \in given
  /\ \A g \in Gates : verdict[g].id # 0 => verdict[g] \in given /\ verdict[g].fp = plan[g]

(* It is in one place: with its approver, in the file it is written to or   *)
(* in the one the gates read.                                               *)
PlaceInv ==
  /\ \A a, b \in Approvers : Pending(a) /\ Pending(b) /\ choice[a].id = choice[b].id => a = b
  /\ \A a \in Approvers, path \in {"decision", "decision.tmp"} :
       Pending(a) => files[path].id # choice[a].id
  /\ files["decision"].id # 0 => files["decision"].id # files["decision.tmp"].id

(* So the one that lay there when a gate was called does not come back, and *)
(* past its first look a gate does not find it under its own plan.          *)
Asking == {"open", "write", "publish", "poll", "finally", "clean", "unlinkOwn"}

StaleInv ==
  \A g \in Gates : before[g] # 0 =>
    /\ before[g] <= Cardinality(given)
    /\ files["decision.tmp"].id # before[g]
    /\ \A a \in Approvers : Pending(a) => choice[a].id # before[g]
    /\ pc[g] \in Asking => files["decision"].id # before[g] \/ files["decision"].fp # plan[g]
    /\ verdict[g].id # before[g]

(* A question on disk is somebody's who is still there to withdraw it.      *)
AskedInv ==
  kills = 0 /\ files["request"] # Absent => \E g \in Gates : pc[g] \in {"poll", "finally"}

AnswerInv == ApprovalTypeOK /\ OpenInv /\ GivenInv /\ PlaceInv /\ StaleInv /\ AskedInv

(***************************************************************************)
(* Contents.                                                               *)
(***************************************************************************)
TypeFiles ==
  /\ files \in [Paths -> Contents]
  /\ \A path \in {"decision", "decision.tmp"} : files[path] \notin Requests
  /\ \A path \in {"request", "request.tmp"} : files[path] \notin Decisions

TypeFd == fd \in [Processes -> Paths \cup {"none", "nowhere"}]

TypePc == pc \in [Processes -> {"idle", "discard", "unlinkStale", "open", "write", "publish",
                                "poll", "finally", "clean", "unlinkOwn"}]

TypeRest ==
  /\ plan \in [Gates -> Plans]
  /\ verdict \in [Gates -> Decisions \cup {Timeout, Raised}]
  /\ choice \in [Approvers -> Decisions \cup {Timeout}]
  /\ asked \in 0..MaxAsked /\ kills \in 0..MaxGateKills
  /\ given \subseteq Decisions
  /\ before \in [Gates -> 0..MaxDecisions]

LEMMA HandshakeTyped == ApprovalTypeOK <=> TypeFiles /\ TypeFd /\ TypePc /\ TypeRest
BY DEF ApprovalTypeOK, TypeFiles, TypeFd, TypePc, TypeRest

LEMMA HandshakeTypedNext ==
  TypeFiles' /\ TypeFd' /\ TypePc' /\ TypeRest' => ApprovalTypeOK'
BY DEF ApprovalTypeOK, TypeFiles, TypeFd, TypePc, TypeRest

LEMMA Shapes ==
  ASSUME HandshakeAssumption
  PROVE  /\ Absent.id = 0 /\ Torn.id = 0 /\ Timeout.id = 0 /\ Raised.id = 0 /\ Absent # Torn
         /\ {Absent, Torn} \subseteq Contents /\ {Absent, Torn} \cap (Requests \cup Decisions) = {}
         /\ Decisions \cap Requests = {}
         /\ \A d \in Decisions : d.id \in 1..MaxDecisions /\ d.id # 0 /\ d.fp \in Plans /\ d # Timeout
         /\ \A r \in Requests : r.id = 0
         /\ \A c \in Contents : c.id # 0 => c \in Decisions
BY DEF HandshakeAssumption, Absent, Torn, Timeout, Raised, Contents, Decisions, Requests

(***************************************************************************)
(* What the calls of the file system do.                                   *)
(***************************************************************************)
(* What a call leaves as it was: the other paths, and who has nothing open. *)
LEMMA UnlinkDoes ==
  ASSUME HandshakeAssumption, TypeFiles, TypeFd, Linked, NEW path \in {"request", "decision"},
         Unlink(path)
  PROVE  /\ TypeFiles' /\ TypeFd' /\ Linked'
         /\ files'[path] = Absent /\ \A q \in Paths : q # path => files'[q] = files[q]
         /\ \A p \in Processes : fd'[p] = "none" <=> fd[p] = "none"
BY Shapes DEF Unlink, TypeFiles, TypeFd, Linked, Paths, RequestFiles, DecisionFiles, Processes

(* The file a process writes, the one it renames it to, and what it writes. *)
Draft(p) == IF p \in Gates THEN "request.tmp" ELSE "decision.tmp"
Final(p) == IF p \in Gates THEN "request" ELSE "decision"
Payloads(p) == IF p \in Gates THEN Requests ELSE Decisions

LEMMA OpenDoes ==
  ASSUME HandshakeAssumption, TypeFiles, TypeFd, Linked, NEW p \in Processes, Open(p, Draft(p))
  PROVE  /\ TypeFiles' /\ TypeFd' /\ Linked'
         /\ files'[Draft(p)] = Torn /\ \A q \in Paths : q # Draft(p) => files'[q] = files[q]
         /\ fd'[p] # "none" /\ \A q \in Processes : q # p => fd'[q] = fd[q]
BY Shapes DEF Open, TypeFiles, TypeFd, Linked, Paths, RequestFiles, DecisionFiles, Processes,
              HandshakeAssumption, Draft

LEMMA WriteDoes ==
  ASSUME HandshakeAssumption, TypeFiles, TypeFd, Linked, NEW p \in Processes,
         NEW payload \in Payloads(p), fd[p] # "none", WriteOut(p, payload)
  PROVE  /\ TypeFiles' /\ TypeFd' /\ Linked'
         /\ fd'[p] = "none" /\ \A q \in Processes : q # p => fd'[q] = fd[q]
         /\ \/ files' = files
            \/ /\ fd[p] \in Paths /\ files'[fd[p]] \in {payload, Torn}
               /\ \A q \in Paths : q # fd[p] => files'[q] = files[q]
<1>1. fd'[p] = "none" /\ (\A q \in Processes : q # p => fd'[q] = fd[q]) /\ TypeFd'
  BY DEF WriteOut, TypeFd
<1>2. CASE fd[p] = "nowhere"
  BY <1>1, <1>2 DEF WriteOut, TypeFiles, Linked, Paths, Processes
<1>3. CASE fd[p] # "nowhere"
  <2>. DEFINE path == fd[p]
  <2>1. path \in Paths /\ (p \in Gates => path \in RequestFiles)
        /\ (p \in Approvers => path \in DecisionFiles)
    BY <1>3 DEF TypeFd, Linked
  <2>2. PICK data \in {payload, Torn} : files' = [files EXCEPT ![path] = data]
    BY <1>3 DEF WriteOut
  <2>. HIDE DEF path
  <2>3. files'[path] = data /\ \A q \in Paths : q # path => files'[q] = files[q]
    BY <2>1, <2>2 DEF TypeFiles
  <2>4. data \in Contents /\ data # Absent
        /\ (p \in Gates => data \notin Decisions) /\ (p \in Approvers => data \notin Requests)
    BY Shapes DEF Contents, HandshakeAssumption, Payloads
  <2>5. TypeFiles'
    BY <2>1, <2>2, <2>3, <2>4 DEF TypeFiles, Paths, RequestFiles, DecisionFiles, Processes
  <2>6. Linked'
    BY <1>1, <2>1, <2>3, <2>4 DEF Linked, Paths, RequestFiles, DecisionFiles, Processes
  <2>. QED  BY <1>1, <2>1, <2>3, <2>5, <2>6 DEF path
<1>. QED  BY <1>2, <1>3

LEMMA RenameDoes ==
  ASSUME HandshakeAssumption, TypeFiles, TypeFd, Linked, NEW p \in Processes,
         files[Draft(p)] # Absent, Rename(Draft(p), Final(p))
  PROVE  /\ TypeFiles' /\ TypeFd' /\ Linked'
         /\ files'[Final(p)] = files[Draft(p)] /\ files'[Draft(p)] = Absent
         /\ \A q \in Paths : q # Final(p) /\ q # Draft(p) => files'[q] = files[q]
         /\ \A q \in Processes : fd'[q] = "none" <=> fd[q] = "none"
<1>. DEFINE tmp == Draft(p)
            path == Final(p)
<1>1. \/ tmp = "request.tmp" /\ path = "request"
      \/ tmp = "decision.tmp" /\ path = "decision"
  BY DEF Draft, Final
<1>11. files[tmp] # Absent /\ Rename(tmp, path)
  OBVIOUS
<1>. HIDE DEF tmp, path
<1>2. tmp \in Paths /\ path \in Paths /\ tmp # path /\ path \notin {"none", "nowhere"}
  BY <1>1 DEF Paths
<1>3. files'[path] = files[tmp] /\ files'[tmp] = Absent
      /\ \A q \in Paths : q # path /\ q # tmp => files'[q] = files[q]
  BY <1>11, <1>1, <1>2 DEF Rename, TypeFiles
<1>4. \A q \in Processes : fd'[q] = IF fd[q] = tmp THEN path
                                   ELSE IF fd[q] = path THEN "nowhere" ELSE fd[q]
  BY <1>11, <1>1 DEF Rename
<1>5. files' \in [Paths -> Contents]
  BY <1>1, <1>2, <1>11, Shapes DEF Rename, TypeFiles
<1>6. TypeFiles'
  BY <1>1, <1>3, <1>5, Shapes DEF TypeFiles, Paths
<1>7. TypeFd'
  BY <1>11, <1>1, <1>2 DEF Rename, TypeFd
<1>8. \A q \in Processes : fd'[q] \in Paths => files'[fd'[q]] # Absent
  <2>. SUFFICES ASSUME NEW q \in Processes, fd'[q] \in Paths PROVE files'[fd'[q]] # Absent
    OBVIOUS
  <2>1. CASE fd[q] = tmp
    BY <1>1, <1>3, <1>4, <2>1, <1>11 DEF Linked
  <2>2. CASE fd[q] # tmp
    <3>1. fd[q] # path /\ fd'[q] = fd[q]
      BY <1>1, <1>4, <2>2 DEF Paths
    <3>. QED  BY <1>3, <2>2, <3>1 DEF Linked
  <2>. QED  BY <2>1, <2>2
<1>9. Linked'
  <2>1. ASSUME NEW g \in Gates PROVE fd'[g] \in {"none", "nowhere"} \cup RequestFiles
    <3>1. g \in Processes /\ fd[g] \in {"none", "nowhere", "request", "request.tmp"}
      BY <2>1, <1>11 DEF Linked, RequestFiles, Processes
    <3>. QED  BY <1>1, <1>4, <3>1 DEF RequestFiles
  <2>2. ASSUME NEW a \in Approvers PROVE fd'[a] \in {"none", "nowhere"} \cup DecisionFiles
    <3>1. a \in Processes /\ fd[a] \in {"none", "nowhere", "decision", "decision.tmp"}
      BY <2>2 DEF Linked, DecisionFiles, Processes
    <3>. QED  BY <1>1, <1>4, <3>1 DEF DecisionFiles
  <2>. QED  BY <1>8, <2>1, <2>2 DEF Linked
<1>10. \A q \in Processes : fd'[q] = "none" <=> fd[q] = "none"
  BY <1>1, <1>2, <1>4
<1>. QED  BY <1>3, <1>6, <1>7, <1>9, <1>10 DEF tmp, path

(***************************************************************************)
(* A step of one process.                                                  *)
(***************************************************************************)
Alone(p) == \A q \in Processes : q # p => pc'[q] = pc[q]

LEMMA GotoDoes ==
  ASSUME TypePc, NEW p \in Processes, NEW to, Goto(p, to),
         to \in {"idle", "discard", "unlinkStale", "open", "write", "publish", "poll", "finally",
                 "clean", "unlinkOwn"}
  PROVE  TypePc' /\ pc'[p] = to /\ Alone(p)
BY DEF TypePc, Goto, Alone

LEMMA AskedStays ==
  ASSUME AskedInv, NEW p \in Processes, Alone(p), kills' = kills,
         files'["request"] # Absent =>
           files["request"] # Absent \/ (p \in Gates /\ pc'[p] = "poll"),
         p \in Gates /\ pc[p] \in {"poll", "finally"} =>
           pc'[p] \in {"poll", "finally"} \/ files'["request"] = Absent
  PROVE  AskedInv'
<1>. SUFFICES ASSUME kills = 0, files'["request"] # Absent
              PROVE  \E g \in Gates : pc'[g] \in {"poll", "finally"}
  BY DEF AskedInv
<1>1. CASE p \in Gates /\ pc'[p] = "poll"
  BY <1>1
<1>2. CASE files["request"] # Absent
  <2>1. PICK g \in Gates : pc[g] \in {"poll", "finally"}
    BY <1>2 DEF AskedInv
  <2>2. g \in Processes
    BY DEF Processes
  <2>. QED  BY <2>1, <2>2 DEF Alone
<1>. QED  BY <1>1, <1>2

(* A gate reads its answer and may take it off the disk; it writes none.    *)
LEMMA GateMoves ==
  ASSUME HandshakeAssumption, AnswerInv, NEW g \in Gates, Alone(g),
         TypeFiles', TypeFd', TypePc', kills' \in 0..MaxGateKills, Linked', Writing', AskedInv',
         files'["decision.tmp"] = files["decision.tmp"],
         files'["decision"] \in {files["decision"], Absent},
         UNCHANGED <<choice, given, plan, asked, before>>,
         \/ verdict' = verdict
         \/ verdict' = [verdict EXCEPT ![g] = Raised]
         \/ Mine(g) /\ pc[g] = "poll" /\ verdict' = [verdict EXCEPT ![g] = files["decision"]],
         pc'[g] \in Asking /\ pc[g] \notin Asking => files'["decision"] = Absent \/ ~Mine(g)
  PROVE  AnswerInv'
<1>0. /\ TypeFiles /\ TypeFd /\ TypePc /\ TypeRest
      /\ OpenInv /\ GivenInv /\ PlaceInv /\ StaleInv /\ AskedInv
  BY HandshakeTyped DEF AnswerInv
<1>1. g \in Processes /\ g \notin Approvers /\ Approvers \subseteq Processes
  BY DEF Processes, HandshakeAssumption
<1>2. \A a \in Approvers : pc'[a] = pc[a] /\ Pending(a)' = Pending(a)
  BY <1>1 DEF Alone, Pending
<1>3. OpenInv'
  BY <1>0, <1>2 DEF OpenInv
<1>4. Mine(g) => files["decision"] \in Decisions /\ files["decision"].id # 0
                /\ files["decision"].fp = plan[g]
  BY <1>0, Shapes DEF Mine, Complete, TypeFiles, Contents, Paths
<1>5. \A h \in Gates : \/ verdict'[h] = verdict[h]
                       \/ verdict'[h] = Raised
                       \/ h = g /\ Mine(g) /\ pc[g] = "poll" /\ verdict'[g] = files["decision"]
  BY <1>0 DEF TypeRest
<1>6. TypeRest'
  BY <1>0, <1>4 DEF TypeRest
<1>7. GivenInv'
  <2>1. \A path \in DecisionFiles : files'[path].id # 0 => files'[path] \in given
    BY <1>0, Shapes DEF GivenInv, DecisionFiles
  <2>2. \A h \in Gates : verdict'[h].id # 0 => verdict'[h] \in given /\ verdict'[h].fp = plan[h]
    BY <1>0, <1>4, <1>5, Shapes DEF GivenInv
  <2>. QED  BY <1>0, <1>2, <2>1, <2>2 DEF GivenInv, DecisionFiles
<1>8. PlaceInv'
  <2>1. \A a \in Approvers : Pending(a) => choice[a].id # 0
    BY <1>0, Shapes DEF GivenInv, TypeRest
  <2>. QED  BY <1>0, <1>2, <2>1, Shapes DEF PlaceInv
<1>9. StaleInv'
  <2>. SUFFICES ASSUME NEW h \in Gates, before[h] # 0
                PROVE  /\ before[h] <= Cardinality(given)
                       /\ files'["decision.tmp"].id # before[h]
                       /\ \A a \in Approvers : Pending(a)' => choice[a].id # before[h]
                       /\ pc'[h] \in Asking => \/ files'["decision"].id # before[h]
                                               \/ files'["decision"].fp # plan[h]
                       /\ verdict'[h].id # before[h]
    BY DEF StaleInv
  <2>1. pc'[h] \in Asking => \/ files'["decision"].id # before[h]
                            \/ files'["decision"].fp # plan[h]
    <3>1. CASE files'["decision"] = Absent
      BY <3>1, Shapes
    <3>2. CASE files'["decision"] = files["decision"] /\ pc[h] \in Asking
      BY <1>0, <3>2 DEF StaleInv
    <3>3. CASE files'["decision"] = files["decision"] /\ pc[h] \notin Asking /\ pc'[h] \in Asking
      <4>1. h = g
        BY <3>3 DEF Alone, Processes
      <4>2. CASE ~Mine(g)
        <5>1. files["decision"] \in {Absent, Torn} \/ files["decision"].fp # plan[g]
          BY <4>2 DEF Mine, Complete
        <5>. QED  BY <3>3, <4>1, <5>1, Shapes
      <4>. QED  BY <3>3, <4>1, <4>2, Shapes
    <3>. QED  BY <3>1, <3>2, <3>3
  <2>2. verdict'[h].id # before[h]
    <3>1. CASE h = g /\ Mine(g) /\ pc[g] = "poll" /\ verdict'[g] = files["decision"]
      BY <1>0, <1>4, <3>1 DEF StaleInv, Asking
    <3>. QED  BY <1>0, <1>5, <3>1, Shapes DEF StaleInv
  <2>. QED  BY <1>0, <1>2, <2>1, <2>2 DEF StaleInv
<1>. QED  BY <1>3, <1>6, <1>7, <1>8, <1>9, HandshakeTypedNext DEF AnswerInv

(* The question: the decision that lies there is noted, whatever it says.   *)
LEMMA AskKeeps ==
  ASSUME HandshakeAssumption, AnswerInv, NEW g \in Gates, NEW p \in Plans, Ask(g, p)
  PROVE  AnswerInv'
<1>0. /\ TypeFiles /\ TypeFd /\ TypePc /\ TypeRest
      /\ OpenInv /\ GivenInv /\ PlaceInv /\ StaleInv /\ AskedInv
  BY HandshakeTyped DEF AnswerInv
<1>1. g \in Processes /\ g \notin Approvers /\ Approvers \subseteq Processes /\ Gates \subseteq Processes
  BY DEF Processes, HandshakeAssumption
<1>2. UNCHANGED <<files, fd, choice, kills, given>>
  BY DEF Ask
<1>3. TypePc' /\ pc'[g] = "discard" /\ Alone(g) /\ pc[g] = "idle"
  BY <1>0, <1>1, GotoDoes DEF Ask
<1>4. \A a \in Approvers : pc'[a] = pc[a] /\ Pending(a)' = Pending(a)
  BY <1>1, <1>3 DEF Alone, Pending
<1>5. files["decision"].id \in 0..MaxDecisions
  <2>1. files["decision"] \in {Absent, Torn} \cup Decisions
    BY <1>0 DEF TypeFiles, Contents, Paths
  <2>. QED  BY <2>1, Shapes DEF HandshakeAssumption
<1>6. /\ plan'[g] = p /\ \A h \in Gates : h # g => plan'[h] = plan[h]
      /\ verdict'[g] = Timeout /\ \A h \in Gates : h # g => verdict'[h] = verdict[h]
      /\ before'[g] = files["decision"].id /\ \A h \in Gates : h # g => before'[h] = before[h]
  BY <1>0 DEF Ask, TypeRest
<1>7. TypeRest'
  BY <1>0, <1>2, <1>5 DEF Ask, TypeRest, HandshakeAssumption
<1>8. TypeFiles' /\ TypeFd' /\ Linked'
  BY <1>0, <1>2 DEF TypeFiles, TypeFd, Linked, OpenInv
<1>9. OpenInv'
  BY <1>0, <1>1, <1>2, <1>3, <1>4, <1>8 DEF OpenInv, Writing, Alone
<1>10. GivenInv'
  BY <1>0, <1>2, <1>4, <1>6, Shapes DEF GivenInv
<1>11. PlaceInv'
  BY <1>0, <1>2, <1>4 DEF PlaceInv
<1>12. StaleInv'
  <2>. SUFFICES ASSUME NEW h \in Gates, before'[h] # 0
                PROVE  /\ before'[h] <= Cardinality(given)
                       /\ files["decision.tmp"].id # before'[h]
                       /\ \A a \in Approvers : Pending(a) => choice[a].id # before'[h]
                       /\ pc'[h] \in Asking => \/ files["decision"].id # before'[h]
                                               \/ files["decision"].fp # plan'[h]
                       /\ verdict'[h].id # before'[h]
    BY <1>2, <1>4 DEF StaleInv
  <2>1. CASE h = g
    <3>1. files["decision"] \in given
      BY <1>0, <1>6, <2>1 DEF GivenInv
    <3>2. before'[h] <= Cardinality(given)
      BY <1>0, <1>6, <2>1, <3>1 DEF GivenInv
    <3>3. pc'[h] \notin Asking
      BY <1>3, <2>1 DEF Asking
    <3>4. files["decision.tmp"].id # before'[h]
      BY <1>0, <1>6, <2>1 DEF PlaceInv
    <3>5. \A a \in Approvers : Pending(a) => choice[a].id # before'[h]
      BY <1>0, <1>6, <2>1 DEF PlaceInv
    <3>. QED  BY <1>6, <2>1, <3>2, <3>3, <3>4, <3>5, Shapes
  <2>2. CASE h # g
    <3>1. pc'[h] = pc[h]
      BY <1>1, <1>3, <2>2 DEF Alone
    <3>. QED  BY <1>0, <1>6, <2>2, <3>1 DEF StaleInv
  <2>. QED  BY <2>1, <2>2
<1>13. AskedInv'
  BY <1>0, <1>1, <1>2, <1>3, AskedStays
<1>. QED  BY <1>3, <1>7, <1>8, <1>9, <1>10, <1>11, <1>12, <1>13, HandshakeTypedNext DEF AnswerInv

(* The gate's other steps.                                                  *)
LEMMA GateStepKeeps ==
  ASSUME HandshakeAssumption, AnswerInv, NEW g \in Gates, GateStep(g) \/ KillGate(g)
  PROVE  AnswerInv'
<1>0. /\ TypeFiles /\ TypeFd /\ TypePc /\ TypeRest
      /\ Linked /\ Writing /\ OpenInv /\ GivenInv /\ PlaceInv /\ StaleInv /\ AskedInv
  BY HandshakeTyped DEF AnswerInv, OpenInv
<1>1. g \in Processes /\ g \notin Approvers /\ Gates \subseteq Processes
      /\ {"request", "request.tmp", "decision", "decision.tmp"} = Paths
      /\ Draft(g) = "request.tmp" /\ Final(g) = "request" /\ Payloads(g) = Requests
  BY DEF Processes, HandshakeAssumption, Paths, Draft, Final, Payloads
<1>2. UNCHANGED <<choice, given, plan, asked, before>> /\ kills' \in 0..MaxGateKills
  <2>1. kills \in 0..MaxGateKills /\ MaxGateKills \in Nat
    BY <1>0 DEF TypeRest, HandshakeAssumption
  <2>2. CASE KillGate(g)
    BY <2>1, <2>2 DEF KillGate, Gate
  <2>3. CASE GateStep(g)
    BY <2>1, <2>3 DEF GateStep, Discard, UnlinkStale, OpenRequest, WriteRequest, PublishRequest, GiveUp,
       Poll, Withdraw, Clean, UnlinkOwn, Return, Gate
  <2>. QED  BY <2>2, <2>3
<1>3. \A to : Goto(g, to) /\ to \in {"idle", "open", "write", "publish", "poll", "finally", "clean",
                 "unlinkOwn", "unlinkStale"} => TypePc' /\ pc'[g] = to /\ Alone(g)
  BY <1>0, <1>1, GotoDoes
<1>4. CASE Discard(g)
  <2>1. UNCHANGED <<files, fd, kills, verdict>> /\ pc[g] = "discard"
    BY <1>4 DEF Discard, Gate
  <2>2. TypePc' /\ Alone(g) /\ pc'[g] = IF Mine(g) THEN "unlinkStale" ELSE "open"
    BY <1>3, <1>4 DEF Discard, Own
  <2>3. TypeFiles' /\ TypeFd' /\ Linked'
    BY <1>0, <2>1 DEF TypeFiles, TypeFd, Linked
  <2>4. Writing'
    BY <1>0, <1>1, <2>1, <2>2 DEF Writing, Alone
  <2>5. AskedInv'
    BY <1>0, <1>1, <2>1, <2>2, AskedStays
  <2>6. pc'[g] \in Asking /\ pc[g] \notin Asking => files'["decision"] = Absent \/ ~Mine(g)
    BY <2>2 DEF Asking
  <2>. QED  BY <1>2, <2>1, <2>2, <2>3, <2>4, <2>5, <2>6, GateMoves
<1>5. CASE UnlinkStale(g)
  <2>1. UNCHANGED <<kills, verdict>> /\ pc[g] = "unlinkStale" /\ Unlink("decision")
    BY <1>5 DEF UnlinkStale, Gate
  <2>2. TypePc' /\ Alone(g) /\ pc'[g] = "open"
    BY <1>3, <1>5 DEF UnlinkStale
  <2>3. /\ TypeFiles' /\ TypeFd' /\ Linked'
        /\ files'["decision"] = Absent /\ \A q \in Paths : q # "decision" => files'[q] = files[q]
        /\ \A p \in Processes : fd'[p] = "none" <=> fd[p] = "none"
    BY <1>0, <2>1, UnlinkDoes
  <2>4. Writing'
    BY <1>0, <1>1, <2>1, <2>2, <2>3 DEF Writing, Alone
  <2>5. AskedInv'
    BY <1>0, <1>1, <2>1, <2>2, <2>3, AskedStays
  <2>. QED  BY <1>1, <1>2, <2>1, <2>2, <2>3, <2>4, <2>5, GateMoves
<1>6. CASE OpenRequest(g)
  <2>1. UNCHANGED <<kills, verdict>> /\ pc[g] = "open" /\ Open(g, "request.tmp")
    BY <1>6 DEF OpenRequest, Gate
  <2>2. TypePc' /\ Alone(g) /\ pc'[g] = "write"
    BY <1>3, <1>6 DEF OpenRequest
  <2>3. /\ TypeFiles' /\ TypeFd' /\ Linked'
        /\ \A q \in Paths : q # "request.tmp" => files'[q] = files[q]
        /\ fd'[g] # "none" /\ \A q \in Processes : q # g => fd'[q] = fd[q]
    BY ONLY HandshakeAssumption, <1>0, <1>1, <2>1, <2>2, OpenDoes
  <2>4. Writing'
    BY <1>0, <1>1, <2>1, <2>2, <2>3 DEF Writing, Alone
  <2>5. AskedInv'
    BY <1>0, <1>1, <2>1, <2>2, <2>3, AskedStays
  <2>6. pc[g] \in Asking
    BY <2>1 DEF Asking
  <2>. QED  BY <1>1, <1>2, <2>1, <2>2, <2>3, <2>4, <2>5, <2>6, GateMoves
<1>7. CASE WriteRequest(g)
  <2>. DEFINE request == [fp |-> plan[g], says |-> "asked", id |-> 0]
  <2>1. UNCHANGED <<kills, verdict>> /\ pc[g] = "write" /\ WriteOut(g, request)
    BY <1>7 DEF WriteRequest, Gate
  <2>2. TypePc' /\ Alone(g) /\ pc'[g] = "publish"
    BY <1>3, <1>7 DEF WriteRequest
  <2>3. request \in Requests /\ request \in Contents
    BY <1>0 DEF Requests, TypeRest, Contents
  <2>. HIDE DEF request
  <2>4. /\ TypeFiles' /\ TypeFd' /\ Linked'
        /\ fd'[g] = "none" /\ \A q \in Processes : q # g => fd'[q] = fd[q]
        /\ \/ files' = files
           \/ /\ fd[g] \in Paths /\ files'[fd[g]] \in {request, Torn}
              /\ \A q \in Paths : q # fd[g] => files'[q] = files[q]
    <3>1. fd[g] # "none"
      BY <1>0, <1>1, <2>1 DEF Writing
    <3>. QED  BY ONLY HandshakeAssumption, <1>0, <1>1, <2>1, <2>3, <3>1, WriteDoes
  <2>5. fd[g] \in {"none", "nowhere", "request", "request.tmp"}
    BY <1>0 DEF Linked, RequestFiles
  <2>6. files'["decision"] = files["decision"] /\ files'["decision.tmp"] = files["decision.tmp"]
    BY <1>1, <2>4, <2>5
  <2>7. files'["request"] # Absent => files["request"] # Absent
    BY <1>0, <1>1, <2>4 DEF Linked
  <2>8. Writing'
    BY <1>0, <1>1, <2>1, <2>2, <2>4 DEF Writing, Alone
  <2>9. AskedInv'
    BY <1>0, <1>1, <2>1, <2>2, <2>7, AskedStays
  <2>10. pc[g] \in Asking
    BY <2>1 DEF Asking
  <2>. QED  BY <1>2, <2>1, <2>2, <2>4, <2>6, <2>8, <2>9, <2>10, GateMoves
<1>8. CASE PublishRequest(g) /\ files["request.tmp"] = Absent
  <2>1. UNCHANGED <<files, fd, kills>> /\ pc[g] = "publish"
        /\ verdict' = [verdict EXCEPT ![g] = Raised]
    BY <1>8 DEF PublishRequest
  <2>2. TypePc' /\ Alone(g) /\ pc'[g] = "finally"
    BY <1>3, <1>8 DEF PublishRequest
  <2>3. TypeFiles' /\ TypeFd' /\ Linked'
    BY <1>0, <2>1 DEF TypeFiles, TypeFd, Linked
  <2>4. Writing'
    BY <1>0, <1>1, <2>1, <2>2 DEF Writing, Alone
  <2>5. AskedInv'
    BY <1>0, <1>1, <2>1, <2>2, AskedStays
  <2>6. pc[g] \in Asking
    BY <2>1 DEF Asking
  <2>. QED  BY <1>2, <2>1, <2>2, <2>3, <2>4, <2>5, <2>6, GateMoves
<1>9. CASE PublishRequest(g) /\ files["request.tmp"] # Absent
  <2>1. UNCHANGED <<kills, verdict>> /\ pc[g] = "publish" /\ Rename("request.tmp", "request")
    BY <1>9 DEF PublishRequest
  <2>2. TypePc' /\ Alone(g) /\ pc'[g] = "poll"
    BY <1>3, <1>9 DEF PublishRequest
  <2>3. /\ TypeFiles' /\ TypeFd' /\ Linked'
        /\ \A q \in Paths : q # "request" /\ q # "request.tmp" => files'[q] = files[q]
        /\ \A p \in Processes : fd'[p] = "none" <=> fd[p] = "none"
    BY ONLY HandshakeAssumption, <1>0, <1>1, <1>9, <2>1, RenameDoes
  <2>4. Writing'
    BY <1>0, <1>1, <2>1, <2>2, <2>3 DEF Writing, Alone
  <2>5. AskedInv'
    BY <1>0, <1>1, <2>1, <2>2, AskedStays
  <2>6. pc[g] \in Asking
    BY <2>1 DEF Asking
  <2>. QED  BY <1>1, <1>2, <2>1, <2>2, <2>3, <2>4, <2>5, <2>6, GateMoves
<1>10. CASE GiveUp(g) \/ Poll(g)
  <2>1. UNCHANGED <<files, fd, kills>> /\ pc[g] = "poll"
        /\ \/ verdict' = verdict
           \/ Mine(g) /\ verdict' = [verdict EXCEPT ![g] = files["decision"]]
    BY <1>10 DEF GiveUp, Poll, Gate
  <2>2. TypePc' /\ Alone(g) /\ pc'[g] = "finally"
    BY <1>3, <1>10 DEF GiveUp, Poll
  <2>3. TypeFiles' /\ TypeFd' /\ Linked'
    BY <1>0, <2>1 DEF TypeFiles, TypeFd, Linked
  <2>4. Writing'
    BY <1>0, <1>1, <2>1, <2>2 DEF Writing, Alone
  <2>5. AskedInv'
    BY <1>0, <1>1, <2>1, <2>2, AskedStays
  <2>6. pc[g] \in Asking
    BY <2>1 DEF Asking
  <2>. QED  BY <1>2, <2>1, <2>2, <2>3, <2>4, <2>5, <2>6, GateMoves
<1>11. CASE Withdraw(g)
  <2>1. UNCHANGED <<kills, verdict>> /\ pc[g] = "finally" /\ Unlink("request")
    BY <1>11 DEF Withdraw, Gate
  <2>2. TypePc' /\ Alone(g) /\ pc'[g] = "clean"
    BY <1>3, <1>11 DEF Withdraw
  <2>3. /\ TypeFiles' /\ TypeFd' /\ Linked'
        /\ files'["request"] = Absent /\ \A q \in Paths : q # "request" => files'[q] = files[q]
        /\ \A p \in Processes : fd'[p] = "none" <=> fd[p] = "none"
    BY <1>0, <2>1, UnlinkDoes
  <2>4. Writing'
    BY <1>0, <1>1, <2>1, <2>2, <2>3 DEF Writing, Alone
  <2>5. AskedInv'
    BY <1>0, <1>1, <2>1, <2>2, <2>3, AskedStays
  <2>6. pc[g] \in Asking
    BY <2>1 DEF Asking
  <2>. QED  BY <1>1, <1>2, <2>1, <2>2, <2>3, <2>4, <2>5, <2>6, GateMoves
<1>12. CASE Clean(g)
  <2>1. UNCHANGED <<files, fd, kills, verdict>> /\ pc[g] = "clean"
    BY <1>12 DEF Clean, Return, Gate
  <2>2. TypePc' /\ Alone(g) /\ pc'[g] \in {"unlinkOwn", "idle"}
    BY <1>3, <1>12 DEF Clean, Return
  <2>3. TypeFiles' /\ TypeFd' /\ Linked'
    BY <1>0, <2>1 DEF TypeFiles, TypeFd, Linked
  <2>4. Writing'
    BY <1>0, <1>1, <2>1, <2>2 DEF Writing, Alone
  <2>5. AskedInv'
    BY <1>0, <1>1, <2>1, <2>2, AskedStays
  <2>6. pc[g] \in Asking
    BY <2>1 DEF Asking
  <2>. QED  BY <1>2, <2>1, <2>2, <2>3, <2>4, <2>5, <2>6, GateMoves
<1>13. CASE UnlinkOwn(g)
  <2>1. UNCHANGED <<kills, verdict>> /\ pc[g] = "unlinkOwn" /\ Unlink("decision")
    BY <1>13 DEF UnlinkOwn, Return
  <2>2. TypePc' /\ Alone(g) /\ pc'[g] = "idle"
    BY <1>3, <1>13 DEF UnlinkOwn, Return
  <2>3. /\ TypeFiles' /\ TypeFd' /\ Linked'
        /\ files'["decision"] = Absent /\ \A q \in Paths : q # "decision" => files'[q] = files[q]
        /\ \A p \in Processes : fd'[p] = "none" <=> fd[p] = "none"
    BY <1>0, <2>1, UnlinkDoes
  <2>4. Writing'
    BY <1>0, <1>1, <2>1, <2>2, <2>3 DEF Writing, Alone
  <2>5. AskedInv'
    BY <1>0, <1>1, <2>1, <2>2, <2>3, AskedStays
  <2>. QED  BY <1>1, <1>2, <2>1, <2>2, <2>3, <2>4, <2>5, GateMoves
<1>14. CASE KillGate(g)
  <2>1. UNCHANGED <<files, verdict>> /\ kills' = kills + 1 /\ fd' = [fd EXCEPT ![g] = "none"]
    BY <1>14 DEF KillGate, Gate
  <2>2. TypePc' /\ Alone(g) /\ pc'[g] = "idle"
    BY <1>3, <1>14 DEF KillGate
  <2>3. fd'[g] = "none" /\ \A q \in Processes : q # g => fd'[q] = fd[q]
    BY <1>0, <1>1, <2>1 DEF TypeFd
  <2>4. TypeFiles' /\ TypeFd' /\ Linked'
    BY <1>0, <1>1, <2>1, <2>3 DEF TypeFiles, TypeFd, Linked, Processes, Paths
  <2>5. Writing'
    BY <1>0, <1>1, <2>2, <2>3 DEF Writing, Alone
  <2>6. AskedInv'
    BY <1>0, <2>1 DEF AskedInv, TypeRest
  <2>7. pc'[g] \notin Asking
    BY <2>2 DEF Asking
  <2>. QED  BY <1>2, <2>1, <2>2, <2>4, <2>5, <2>6, <2>7, GateMoves
<1>. QED  BY <1>4, <1>5, <1>6, <1>7, <1>8, <1>9, <1>10, <1>11, <1>12, <1>13, <1>14 DEF GateStep

(* A decision is taken: it is newer than all there are.                     *)
LEMMA DecideKeeps ==
  ASSUME HandshakeAssumption, AnswerInv, NEW a \in Approvers,
         NEW says \in {"approved", "denied"}, Decide(a, says)
  PROVE  AnswerInv'
<1>0. /\ TypeFiles /\ TypeFd /\ TypePc /\ TypeRest
      /\ OpenInv /\ GivenInv /\ PlaceInv /\ StaleInv /\ AskedInv
  BY HandshakeTyped DEF AnswerInv
<1>1. a \in Processes /\ a \notin Gates /\ Approvers \subseteq Processes /\ Gates \subseteq Processes
  BY DEF Processes, HandshakeAssumption
<1>. DEFINE taken == Cardinality(given)
            decision == [fp |-> files["request"].fp, says |-> says, id |-> taken + 1]
<1>2. UNCHANGED <<files, fd, kills, plan, verdict, asked, before>>
      /\ choice' = [choice EXCEPT ![a] = decision] /\ given' = given \cup {decision}
      /\ taken < MaxDecisions
  BY DEF Decide, Gate
<1>3. TypePc' /\ pc'[a] = "open" /\ Alone(a)
  BY <1>0, <1>1, GotoDoes DEF Decide
<1>4. taken \in Nat /\ MaxDecisions \in Nat
  BY <1>0, FS_CardinalityType DEF GivenInv, HandshakeAssumption
<1>5. files["request"] \in Requests
  BY <1>0 DEF Decide, Complete, TypeFiles, Contents, Paths
<1>6. decision \in Decisions
  BY <1>2, <1>4, <1>5 DEF Decisions, Requests
<1>7. decision.id = taken + 1
  OBVIOUS
<1>. HIDE DEF decision
<1>8. \A d \in given : d.id \in Nat /\ d.id <= taken
  BY <1>0, <1>4, Shapes DEF GivenInv, TypeRest
<1>9. decision \notin given
  BY <1>4, <1>7, <1>8
<1>10. IsFiniteSet(given') /\ Cardinality(given') = taken + 1
  BY <1>0, <1>2, <1>9, FS_AddElement DEF GivenInv
<1>. HIDE DEF taken
<1>11. choice'[a] = decision /\ \A b \in Approvers : b # a => choice'[b] = choice[b]
  BY <1>0, <1>2 DEF TypeRest
<1>12. \A b \in Approvers : b # a => (Pending(b)' <=> Pending(b))
  BY <1>1, <1>3 DEF Alone, Pending
<1>13. \A path \in DecisionFiles : files[path].id # 0 => files[path].id # taken + 1
  BY <1>0, <1>4, <1>8 DEF GivenInv, DecisionFiles
<1>14. \A b \in Approvers : Pending(b) => choice[b].id # taken + 1
  BY <1>0, <1>4, <1>8 DEF GivenInv
<1>15. TypeRest'
  BY <1>0, <1>2, <1>6 DEF TypeRest
<1>16. TypeFiles' /\ TypeFd' /\ Linked'
  BY <1>0, <1>2 DEF TypeFiles, TypeFd, Linked, OpenInv
<1>17. OpenInv'
  BY <1>0, <1>1, <1>2, <1>3, <1>16 DEF OpenInv, Writing, Alone, Decide
<1>18. GivenInv'
  <2>1. \A d \in given' : d.id <= taken + 1
    BY <1>2, <1>4, <1>7, <1>8
  <2>2. \A b \in Approvers : Pending(b)' => choice'[b] \in given'
    BY <1>0, <1>2, <1>11, <1>12 DEF GivenInv
  <2>. QED  BY <1>0, <1>2, <1>10, <2>1, <2>2 DEF GivenInv
<1>19. PlaceInv'
  <2>1. taken + 1 # 0
    BY <1>4
  <2>2. \A path \in DecisionFiles : files[path].id # taken + 1
    BY <1>13, <2>1
  <2>. QED  BY <1>0, <1>2, <1>7, <1>11, <1>12, <1>14, <2>2 DEF PlaceInv, DecisionFiles
<1>20. StaleInv'
  <2>. SUFFICES ASSUME NEW g \in Gates, before[g] # 0
                PROVE  /\ before[g] <= taken + 1
                       /\ files["decision.tmp"].id # before[g]
                       /\ \A b \in Approvers : Pending(b)' => choice'[b].id # before[g]
                       /\ pc'[g] \in Asking => \/ files["decision"].id # before[g]
                                               \/ files["decision"].fp # plan[g]
                       /\ verdict[g].id # before[g]
    BY <1>2, <1>10 DEF StaleInv
  <2>1. before[g] \in Nat /\ before[g] <= taken
    BY <1>0, <1>4 DEF StaleInv, TypeRest, taken
  <2>2. before[g] <= taken + 1 /\ before[g] # taken + 1
    BY <1>4, <2>1
  <2>3. pc'[g] = pc[g]
    BY <1>1, <1>3 DEF Alone
  <2>. QED  BY <1>0, <1>7, <1>11, <1>12, <2>2, <2>3 DEF StaleInv
<1>21. AskedInv'
  BY <1>0, <1>1, <1>2, <1>3, AskedStays
<1>. QED  BY <1>3, <1>15, <1>16, <1>17, <1>18, <1>19, <1>20, <1>21, HandshakeTypedNext DEF AnswerInv

(* An approver writes no question, and decides nothing between deciding and *)
(* being done: a decision goes from it to the file it writes to and on to   *)
(* the one the gates read.                                                  *)
LEMMA ApproverMoves ==
  ASSUME HandshakeAssumption, AnswerInv, NEW a \in Approvers, Alone(a),
         TypeFiles', TypeFd', TypePc', Linked', Writing',
         pc[a] \in {"open", "write", "publish"}, pc'[a] \in {"idle", "write", "publish"},
         UNCHANGED <<choice, kills, given, plan, verdict, asked, before>>,
         files'["request"] = files["request"],
         (* what a file holds: what it held, nothing, the other file's or the approver's *)
         \/ /\ files'["decision"] = files["decision"] /\ files'["decision.tmp"] = Torn
            /\ pc[a] = "open" /\ pc'[a] = "write"
         \/ /\ files' = files
            /\ pc'[a] \in {"publish", "idle"}
         \/ /\ pc[a] = "write" /\ pc'[a] = "publish"
            /\ files'["decision"] = files["decision"]
            /\ files'["decision.tmp"] \in {choice[a], Torn}
         \/ /\ pc[a] = "write" /\ pc'[a] = "publish"
            /\ files'["decision.tmp"] = files["decision.tmp"]
            /\ files'["decision"] \in {choice[a], Torn}
         \/ /\ pc'[a] = "idle"
            /\ files'["decision"] = files["decision.tmp"] /\ files'["decision.tmp"] = Absent
  PROVE  AnswerInv'
<1>0. /\ TypeFiles /\ TypeFd /\ TypePc /\ TypeRest
      /\ OpenInv /\ GivenInv /\ PlaceInv /\ StaleInv /\ AskedInv
  BY HandshakeTyped DEF AnswerInv
<1>1. a \in Processes /\ a \notin Gates /\ Approvers \subseteq Processes /\ Gates \subseteq Processes
  BY DEF Processes, HandshakeAssumption
<1>2. \A g \in Gates : pc'[g] = pc[g]
  BY <1>1 DEF Alone
<1>3. \A b \in Approvers : Pending(b)' => Pending(b)
  BY <1>1 DEF Alone, Pending
<1>4. pc[a] = "write" => Pending(a)
  BY DEF Pending
<1>5. pc'[a] \in {"publish", "idle"} => ~Pending(a)'
  BY DEF Pending
<1>6. \A b \in Approvers : Pending(b) => choice[b].id # 0 /\ choice[b] \in given
  BY <1>0, Shapes DEF GivenInv, TypeRest
<1>7. TypeRest'
  BY <1>0 DEF TypeRest
<1>8. OpenInv'
  BY <1>0, <1>1 DEF OpenInv, Alone
<1>9. GivenInv'
  <2>1. \A path \in DecisionFiles : files'[path].id # 0 => files'[path] \in given
    BY <1>0, <1>4, <1>6, Shapes DEF GivenInv, DecisionFiles
  <2>. QED  BY <1>0, <1>3, <2>1 DEF GivenInv, DecisionFiles
<1>10. PlaceInv'
  <2>1. \A b \in Approvers, path \in DecisionFiles : Pending(b)' => files'[path].id # choice[b].id
    BY <1>0, <1>3, <1>4, <1>5, <1>6, Shapes DEF PlaceInv, DecisionFiles
  <2>2. files'["decision"].id # 0 => files'["decision"].id # files'["decision.tmp"].id
    BY <1>0, <1>4, <1>6, Shapes DEF PlaceInv
  <2>. QED  BY <1>0, <1>3, <2>1, <2>2 DEF PlaceInv, DecisionFiles
<1>11. StaleInv'
  <2>. SUFFICES ASSUME NEW g \in Gates, before[g] # 0
                PROVE  /\ before[g] <= Cardinality(given)
                       /\ files'["decision.tmp"].id # before[g]
                       /\ \A b \in Approvers : Pending(b)' => choice[b].id # before[g]
                       /\ pc[g] \in Asking => \/ files'["decision"].id # before[g]
                                              \/ files'["decision"].fp # plan[g]
                       /\ verdict[g].id # before[g]
    BY <1>2 DEF StaleInv
  <2>1. files["decision.tmp"].id # before[g] /\ (pc[a] = "write" => choice[a].id # before[g])
    BY <1>0, <1>4 DEF StaleInv
  <2>2. files'["decision.tmp"].id # before[g]
    BY <2>1, Shapes
  <2>3. files'["decision"] = files["decision"] \/ files'["decision"].id # before[g]
    BY <2>1, Shapes
  <2>. QED  BY <1>0, <1>3, <2>2, <2>3 DEF StaleInv
<1>12. AskedInv'
  BY <1>0, <1>1, AskedStays
<1>. QED  BY <1>7, <1>8, <1>9, <1>10, <1>11, <1>12, HandshakeTypedNext DEF AnswerInv

LEMMA ApproverStepKeeps ==
  ASSUME HandshakeAssumption, AnswerInv, NEW a \in Approvers, ApproverStep(a)
  PROVE  AnswerInv'
<1>0. TypeFiles /\ TypeFd /\ TypePc /\ TypeRest /\ Linked /\ Writing
  BY HandshakeTyped DEF AnswerInv, OpenInv
<1>1. a \in Processes /\ a \notin Gates
      /\ {"request", "request.tmp", "decision", "decision.tmp"} = Paths
      /\ Draft(a) = "decision.tmp" /\ Final(a) = "decision" /\ Payloads(a) = Decisions
  BY DEF Processes, HandshakeAssumption, Paths, Draft, Final, Payloads
<1>2. \A to : Goto(a, to) /\ to \in {"idle", "write", "publish"} => TypePc' /\ pc'[a] = to /\ Alone(a)
  BY <1>0, <1>1, GotoDoes
<1>3. CASE \E says \in {"approved", "denied"} : Decide(a, says)
  BY <1>3, DecideKeeps
<1>4. CASE OpenDecision(a)
  <2>1. UNCHANGED <<choice, kills, given, plan, verdict, asked, before>>
        /\ pc[a] = "open" /\ Open(a, "decision.tmp")
    BY <1>4 DEF OpenDecision, Gate
  <2>2. TypePc' /\ Alone(a) /\ pc'[a] = "write"
    BY <1>2, <1>4 DEF OpenDecision
  <2>3. /\ TypeFiles' /\ TypeFd' /\ Linked' /\ files'["decision.tmp"] = Torn
        /\ \A q \in Paths : q # "decision.tmp" => files'[q] = files[q]
        /\ fd'[a] # "none" /\ \A q \in Processes : q # a => fd'[q] = fd[q]
    BY ONLY HandshakeAssumption, <1>0, <1>1, <2>1, OpenDoes
  <2>4. Writing'
    BY <1>0, <1>1, <2>1, <2>2, <2>3 DEF Writing, Alone
  <2>. QED  BY <1>1, <2>1, <2>2, <2>3, <2>4, ApproverMoves
<1>5. CASE WriteDecision(a)
  <2>1. UNCHANGED <<choice, kills, given, plan, verdict, asked, before>>
        /\ pc[a] = "write" /\ WriteOut(a, choice[a])
    BY <1>5 DEF WriteDecision, Gate
  <2>2. TypePc' /\ Alone(a) /\ pc'[a] = "publish"
    BY <1>2, <1>5 DEF WriteDecision
  <2>3. choice[a] \in Payloads(a) /\ fd[a] # "none"
    <3>1. choice[a] \in given /\ given \subseteq Decisions
      BY <1>0, <2>1 DEF AnswerInv, GivenInv, Pending, TypeRest
    <3>. QED  BY <1>0, <1>1, <2>1, <3>1 DEF Writing
  <2>4. /\ TypeFiles' /\ TypeFd' /\ Linked'
        /\ fd'[a] = "none" /\ \A q \in Processes : q # a => fd'[q] = fd[q]
        /\ \/ files' = files
           \/ /\ fd[a] \in Paths /\ files'[fd[a]] \in {choice[a], Torn}
              /\ \A q \in Paths : q # fd[a] => files'[q] = files[q]
    BY ONLY HandshakeAssumption, <1>0, <1>1, <2>1, <2>3, WriteDoes
  <2>5. fd[a] \in {"none", "nowhere", "decision", "decision.tmp"}
    BY <1>0 DEF Linked, DecisionFiles
  <2>6. \/ files' = files
        \/ /\ files'["request"] = files["request"] /\ files'["decision"] = files["decision"]
           /\ files'["decision.tmp"] \in {choice[a], Torn}
        \/ /\ files'["request"] = files["request"] /\ files'["decision.tmp"] = files["decision.tmp"]
           /\ files'["decision"] \in {choice[a], Torn}
    BY <1>1, <2>4, <2>5
  <2>7. Writing'
    BY <1>0, <1>1, <2>1, <2>2, <2>4 DEF Writing, Alone
  <2>. QED  BY <2>1, <2>2, <2>4, <2>6, <2>7, ApproverMoves
<1>6. CASE PublishDecision(a)
  <2>1. UNCHANGED <<choice, kills, given, plan, verdict, asked, before>> /\ pc[a] = "publish"
    BY <1>6 DEF PublishDecision, Gate
  <2>2. TypePc' /\ Alone(a) /\ pc'[a] = "idle"
    BY <1>2, <1>6 DEF PublishDecision
  <2>3. CASE files["decision.tmp"] = Absent
    <3>1. UNCHANGED <<files, fd>>
      BY <1>6, <2>3 DEF PublishDecision
    <3>2. TypeFiles' /\ TypeFd' /\ Linked'
      BY <1>0, <3>1 DEF TypeFiles, TypeFd, Linked
    <3>3. Writing'
      BY <1>0, <1>1, <2>1, <2>2, <3>1 DEF Writing, Alone
    <3>. QED  BY <2>1, <2>2, <3>1, <3>2, <3>3, ApproverMoves
  <2>4. CASE files["decision.tmp"] # Absent
    <3>1. Rename("decision.tmp", "decision")
      BY <1>6, <2>4 DEF PublishDecision
    <3>2. /\ TypeFiles' /\ TypeFd' /\ Linked'
          /\ files'["decision"] = files["decision.tmp"] /\ files'["decision.tmp"] = Absent
          /\ \A q \in Paths : q # "decision" /\ q # "decision.tmp" => files'[q] = files[q]
          /\ \A q \in Processes : fd'[q] = "none" <=> fd[q] = "none"
      BY ONLY HandshakeAssumption, <1>0, <1>1, <2>4, <3>1, RenameDoes
    <3>3. Writing'
      BY <1>0, <1>1, <2>1, <2>2, <3>2 DEF Writing, Alone
    <3>. QED  BY <1>1, <2>1, <2>2, <3>2, <3>3, ApproverMoves
  <2>. QED  BY <2>3, <2>4
<1>. QED  BY <1>3, <1>4, <1>5, <1>6 DEF ApproverStep

LEMMA AnswerInit == ASSUME HandshakeAssumption, ApprovalInit PROVE AnswerInv
<1>1. given = {} /\ IsFiniteSet(given) /\ Cardinality(given) = 0
  BY FS_EmptySet DEF ApprovalInit
<1>2. TypeFiles /\ TypeFd /\ TypePc /\ TypeRest
  <2>1. TypeFiles
    BY Shapes DEF ApprovalInit, TypeFiles, Paths
  <2>2. TypeFd /\ TypePc
    BY DEF ApprovalInit, TypeFd, TypePc
  <2>3. 0 \in 0..MaxAsked /\ 0 \in 0..MaxGateKills /\ 0 \in 0..MaxDecisions
    BY DEF HandshakeAssumption
  <2>4. TypeRest
    BY <1>1, <2>3 DEF ApprovalInit, TypeRest
  <2>. QED  BY <2>1, <2>2, <2>4
<1>3. \A path \in Paths : files[path] = Absent
  BY DEF ApprovalInit
<1>4. OpenInv
  BY DEF ApprovalInit, OpenInv, Linked, Writing, Processes, Paths
<1>5. \A a \in Approvers : ~Pending(a)
  BY DEF ApprovalInit, Pending, Processes
<1>6. {"request", "decision", "decision.tmp"} \subseteq Paths
  BY DEF Paths
<1>7. GivenInv /\ PlaceInv
  BY <1>1, <1>3, <1>5, <1>6, Shapes DEF GivenInv, PlaceInv, ApprovalInit
<1>8. StaleInv /\ AskedInv
  BY <1>3, <1>6 DEF StaleInv, AskedInv, ApprovalInit
<1>. QED  BY <1>2, <1>4, <1>7, <1>8, HandshakeTyped DEF AnswerInv

LEMMA AnswerNext ==
  ASSUME HandshakeAssumption, AnswerInv, [ApprovalNext]_approvalVars PROVE AnswerInv'
<1>1. CASE UNCHANGED approvalVars
  BY <1>1 DEF approvalVars, AnswerInv, ApprovalTypeOK, OpenInv, Linked, Writing, GivenInv, PlaceInv, StaleInv,
              AskedInv, Pending
<1>2. CASE \E g \in Gates : GateStep(g) \/ KillGate(g) \/ \E p \in Plans : Ask(g, p)
  BY <1>2, GateStepKeeps, AskKeeps
<1>3. CASE \E a \in Approvers : ApproverStep(a)
  BY <1>3, ApproverStepKeeps
<1>. QED  BY <1>1, <1>2, <1>3 DEF ApprovalNext

LEMMA AnswerImplies == ASSUME HandshakeAssumption, AnswerInv PROVE AnswerIsTheirs
<1>1. NoStaleAnswer
  BY DEF AnswerInv, StaleInv, GivenInv, NoStaleAnswer
<1>2. NoQuestionLeaks
  BY DEF AnswerInv, AskedInv, NoQuestionLeaks
<1>3. AnswerWasGiven
  BY DEF AnswerInv, GivenInv, AnswerWasGiven
<1>. QED  BY <1>1, <1>2, <1>3 DEF AnswerIsTheirs

LEMMA AnswerAlways == ASSUME HandshakeAssumption PROVE ApprovalSpec => []AnswerInv
BY AnswerInit, AnswerNext, PTL DEF ApprovalSpec

(* The handshake's variables have their types.                              *)
THEOREM HandshakeTypeCorrect == ASSUME HandshakeAssumption PROVE ApprovalSpec => []ApprovalTypeOK
<1>1. AnswerInv => ApprovalTypeOK
  BY DEF AnswerInv
<1>. QED  BY <1>1, AnswerAlways, PTL

(* A gate's answer was given to its question, while it asked it: whatever   *)
(* was left in the directory, however many gates and approvers share it     *)
(* and whichever gates are killed.                                          *)
THEOREM AnswerIsTheirsAlways == ASSUME HandshakeAssumption PROVE ApprovalSpec => []AnswerIsTheirs
BY AnswerImplies, AnswerAlways, PTL

(***************************************************************************)
(* The commands of a directory: CommandRun.                                *)
(***************************************************************************)
Places == Over \cup {"waiting", "guard", "setup", "document", "asking", "writing", "judge", "running"}
Names == {"", "unknown", Stdlib, Unset} \cup DOMAIN Targets
           \cup {TargetOf(line) : line \in Lines} \cup {PolicyPath(line)[2] : line \in Lines}
Docs == [is : {"absent", "empty", "named", "generated", "default", "builtin", "flags"},
         of : Names, by : Command \cup {0}]
CommandRecs == [line : Lines \cup {[does |-> "nothing"]}, at : Places, target : Names, doc : Docs,
              before : SUBSET Command, elapsed : Nat]

CommandTyped ==
  /\ command \in [Command -> CommandRecs]
  /\ generated \in [DOMAIN Targets \cup {""} -> Docs]
  /\ \A t \in DOMAIN generated : generated[t].is \in {"absent", "empty", "generated"}
  /\ trace \subseteq [run : {l.run : l \in Lines}, by : Command]
  /\ \A c \in Command : At(c) # "waiting" => Line(c) \in Lines

(* A command that looked for its id, and found it in nobody's events.       *)
Cleared(c) ==
  /\ \/ At(c) \in {"judge", "document", "running"}
     \/ At(c) \in {"setup", "asking", "writing"} /\ Line(c).does = "plan"
  /\ Line(c).does # "go" /\ Line(c).run # Unset /\ Line(c).shared

(* What is over writes no more: so no command that was over when another    *)
(* started has written an event since it looked.                            *)
RunInv ==
  /\ OneRunPerId
  /\ \A c \in Command, d \in Command : d \in command[c].before => At(d) \in Over
  /\ \A e \in trace : At(e.by) # "waiting"
  /\ \A c \in Command : Cleared(c) => \A e \in trace : e.run = Line(c).run => e.by \notin command[c].before

(* Who wrote the policy of a registry, and is governed by it.               *)
Author(w, t) == Line(w).does = "plan" /\ command[w].doc = Doc("generated", t, w)

Unruled(c) ==
  \/ At(c) \in {"waiting", "setup", "asking", "writing"}
  \/ At(c) = "guard" /\ Line(c).does = "plan"

(* A policy that is there was written for its registry by a plan that is    *)
(* governed by it, and never goes again: so a plan that finds none started  *)
(* before each of its authors was over.                                     *)
RuledLast ==
  /\ \A c \in Command : Unruled(c) => command[c].doc.is = "absent"
  /\ \A c \in Command : At(c) = "document" => Line(c).does = "agent"

Ruled ==
  \A c \in Command : Line(c).does \in {"plan", "go"} =>
    /\ command[c].doc.is # "empty"
    /\ command[c].doc.is = "generated" =>
         /\ command[c].doc.of = command[c].target /\ command[c].target \in DOMAIN Targets
         /\ command[c].doc.by \in Command /\ Author(command[c].doc.by, command[c].target)

Written ==
  \A t \in DOMAIN Targets : generated[t].is = "generated" =>
    generated[t].of = t /\ generated[t].by \in Command /\ Author(generated[t].by, t)

Standing == \A t \in DOMAIN Targets, w \in Command : Author(w, t) => generated[t].is # "absent"

AskedBefore ==
  \A c \in Command : At(c) \in {"asking", "writing"} =>
    /\ Line(c).does = "plan" /\ TargetOf(Line(c)) \in DOMAIN Targets
    /\ \A w \in Command : Author(w, TargetOf(Line(c))) => w \notin command[c].before

Overlapped ==
  \A t \in DOMAIN Targets, v \in Command, w \in Command :
    Author(v, t) /\ Author(w, t) => v \notin command[w].before

PolicyInv == RuledLast /\ Ruled /\ Written /\ Standing /\ AskedBefore /\ Overlapped

ApartInv == CommandTyped /\ RunInv /\ PolicyInv

OthersKept(c) ==
  /\ command' \in [Command -> CommandRecs]
  /\ \A d \in Command : d # c => command'[d] = command[d]
  /\ command'[c].line = command[c].line /\ command'[c].before = command[c].before

LEMMA MovesIs ==
  ASSUME CommandTyped, NEW c \in Command, NEW at \in Places, Moves(c, at)
  PROVE  /\ OthersKept(c) /\ command'[c].at = at
         /\ command'[c].doc = command[c].doc /\ command'[c].target = command[c].target
<1>. DEFINE new == [command[c] EXCEPT !.at = at]
<1>1. command[c] \in CommandRecs /\ command \in [Command -> CommandRecs]
  BY DEF CommandTyped
<1>2. command' = [command EXCEPT ![c] = new]
  BY <1>1 DEF Moves, CommandRecs
<1>3. new \in CommandRecs /\ new.line = command[c].line /\ new.before = command[c].before
      /\ new.doc = command[c].doc /\ new.at = at /\ new.target = command[c].target
  BY <1>1 DEF CommandRecs
<1>. HIDE DEF new
<1>. QED  BY <1>1, <1>2, <1>3 DEF OthersKept

LEMMA SetUpIs ==
  ASSUME CommandTyped, NEW c \in Command, NEW doc \in Docs, Line(c) \in Lines, SetUp(c, doc)
  PROVE  /\ OthersKept(c) /\ command'[c].doc = doc /\ command'[c].target = TargetOf(Line(c))
         /\ command'[c].at = After(Line(c), "setup")
<1>1. TargetOf(Line(c)) \in Names
  BY DEF Names
<1>2. After(Line(c), "setup") \in Places
  BY DEF After, Places
<1>. DEFINE new == [command[c] EXCEPT !.at = After(Line(c), "setup"), !.doc = doc, !.target = TargetOf(Line(c))]
<1>3. command' = [command EXCEPT ![c] = new]
  BY DEF SetUp, CommandTyped, CommandRecs
<1>4. command[c] \in CommandRecs
  BY DEF CommandTyped
<1>5. new \in CommandRecs /\ new.line = command[c].line /\ new.before = command[c].before /\ new.doc = doc
      /\ new.at = After(Line(c), "setup") /\ new.target = TargetOf(Line(c))
  BY <1>1, <1>2, <1>4 DEF CommandRecs
<1>. HIDE DEF new
<1>6. command' \in [Command -> CommandRecs] /\ command'[c] = new
      /\ \A d \in Command : d # c => command'[d] = command[d]
  BY <1>3, <1>5 DEF CommandTyped
<1>. QED  BY <1>5, <1>6 DEF OthersKept

LEMMA RunKeeps ==
  ASSUME CommandTyped, RunInv, NEW c \in Command, OthersKept(c),
         At(c) \notin Over \cup {"waiting"}, At(c)' # "waiting",
         \/ trace' = trace
         \/ At(c) \in {"judge", "document"} /\ trace' = trace \cup Events(c),
         Cleared(c)' => Cleared(c) \/ \A e \in trace : e.run # Line(c).run
  PROVE  RunInv'
<1>1. \A d \in Command : /\ command'[d].line = command[d].line /\ command'[d].before = command[d].before
                         /\ d # c => command'[d].at = command[d].at
  BY DEF OthersKept
<1>2. \A d \in Command : command[d].before \subseteq Command
  BY DEF CommandTyped, CommandRecs
<1>3. \A d \in Command : c \notin command[d].before
  BY DEF RunInv
<1>4. \A d \in Command, b \in Command : b \in command'[d].before => At(b)' \in Over
  BY <1>1, <1>3 DEF RunInv, At
<1>5. \A e \in trace' : e \in trace \/ (e.by = c /\ e.run = Line(c).run /\ At(c) \in {"judge", "document"}
                                       /\ Line(c).run # Unset /\ Line(c).shared)
  BY DEF Events
<1>6. \A e \in trace : e.by \in Command
  BY DEF CommandTyped
<1>7. \A e \in trace' : At(e.by)' # "waiting"
  BY <1>1, <1>5, <1>6 DEF RunInv, At
<1>8. \A d \in Command : Cleared(d)' => \A e \in trace' : e.run = Line(d)'.run => e.by \notin command'[d].before
  <2>. SUFFICES ASSUME NEW d \in Command, Cleared(d)', NEW e \in trace', e.run = Line(d)'.run
                PROVE  e.by \notin command'[d].before
    OBVIOUS
  <2>1. CASE e.by = c
    BY <2>1, <1>1, <1>3
  <2>2. CASE e.by # c /\ d # c
    <3>1. Cleared(d) /\ e \in trace /\ Line(d)' = Line(d)
      BY <2>2, <1>1, <1>5 DEF Cleared, At, Line, OthersKept
    <3>. QED  BY <3>1, <1>1 DEF RunInv
  <2>3. CASE e.by # c /\ d = c
    <3>1. e \in trace /\ Line(c)' = Line(c)
      BY <2>3, <1>1, <1>5 DEF Line
    <3>. QED  BY <2>3, <3>1, <1>1 DEF RunInv
  <2>. QED  BY <2>1, <2>2, <2>3
<1>9. OneRunPerId'
  <2>. SUFFICES ASSUME NEW e \in trace', NEW f \in trace', e.run = f.run, e.by \in command'[f.by].before
                PROVE  Line(f.by)'.does = "go"
    BY DEF OneRunPerId
  <2>1. CASE f \in trace
    <3>1. f.by \in Command /\ Line(f.by)' = Line(f.by) /\ command'[f.by].before = command[f.by].before
      BY <2>1, <1>1, <1>6 DEF Line
    <3>2. e.by # c
      BY <3>1, <1>3
    <3>. QED  BY <2>1, <3>1, <3>2, <1>5 DEF RunInv, OneRunPerId
  <2>2. CASE f \notin trace
    <3>1. f.by = c /\ f.run = Line(c).run /\ At(c) \in {"judge", "document"}
          /\ Line(c).run # Unset /\ Line(c).shared
      BY <2>2, <1>5
    <3>2. e.by # c /\ e \in trace
      BY <3>1, <1>1, <1>3, <1>5
    <3>3. Line(c).does # "go" => Cleared(c)
      BY <3>1 DEF Cleared
    <3>. QED  BY <3>1, <3>2, <3>3, <1>1 DEF RunInv, Line
  <2>. QED  BY <2>1, <2>2
<1>. QED  BY <1>4, <1>7, <1>8, <1>9 DEF RunInv

LEMMA AuthorsStay ==
  ASSUME CommandTyped, PolicyInv, NEW c \in Command, OthersKept(c),
         Unruled(c) \/ command'[c].doc = command[c].doc,
         \/ command'[c].doc = command[c].doc
         \/ Line(c).does # "plan"
         \/ \A t : command'[c].doc # Doc("generated", t, c)
  PROVE  \A w \in Command : \A t : Author(w, t)' <=> Author(w, t)
<1>. SUFFICES ASSUME NEW w \in Command, NEW t PROVE Author(w, t)' <=> Author(w, t)
  OBVIOUS
<1>1. CASE w # c
  BY <1>1 DEF OthersKept, Author, Line
<1>2. CASE w = c /\ command'[c].doc = command[c].doc
  BY <1>2 DEF OthersKept, Author, Line
<1>3. CASE w = c /\ command'[c].doc # command[c].doc
  <2>1. command[c].doc.is = "absent" /\ Doc("generated", t, c).is = "generated"
    BY <1>3 DEF PolicyInv, RuledLast, Doc
  <2>2. command[c].doc # Doc("generated", t, c)
    BY <2>1
  <2>. QED  BY <1>3, <2>2 DEF Author, OthersKept, Line
<1>. QED  BY <1>1, <1>2, <1>3

LEMMA PolicyKeeps ==
  ASSUME CommandTyped, PolicyInv, NEW c \in Command, OthersKept(c), generated' = generated,
         \A w \in Command : \A t : Author(w, t)' <=> Author(w, t),
         Unruled(c)' => command'[c].doc.is = "absent",
         At(c)' = "document" => Line(c).does = "agent",
         At(c)' \in {"asking", "writing"} =>
           At(c) \in {"asking", "writing"}
             \/ (/\ Line(c).does = "plan" /\ TargetOf(Line(c)) \in DOMAIN Targets
                 /\ generated[TargetOf(Line(c))].is = "absent"),
         \/ command'[c].doc = command[c].doc /\ command'[c].target = command[c].target
         \/ Line(c).does \notin {"plan", "go"}
         \/ command'[c].doc.is \notin {"empty", "generated"}
         \/ /\ command'[c].target \in DOMAIN Targets /\ command'[c].doc = generated[command'[c].target]
            /\ command'[c].doc.is # "empty"
  PROVE  PolicyInv'
<1>1. \A d \in Command : /\ command'[d].line = command[d].line /\ command'[d].before = command[d].before
                         /\ d # c => command'[d] = command[d]
  BY DEF OthersKept
<1>2. RuledLast'
  <2>1. \A d \in Command : Unruled(d)' => command'[d].doc.is = "absent"
    BY <1>1 DEF PolicyInv, RuledLast, Unruled, At, Line
  <2>2. \A d \in Command : At(d)' = "document" => Line(d)'.does = "agent"
    BY <1>1 DEF PolicyInv, RuledLast, At, Line
  <2>. QED  BY <2>1, <2>2 DEF RuledLast
<1>3. ASSUME NEW d \in Command, Line(d).does \in {"plan", "go"}
      PROVE  /\ command'[d].doc.is # "empty"
             /\ command'[d].doc.is = "generated" =>
                  /\ command'[d].doc.of = command'[d].target /\ command'[d].target \in DOMAIN Targets
                  /\ command'[d].doc.by \in Command /\ Author(command'[d].doc.by, command'[d].target)
  <2>1. CASE command'[d].doc = command[d].doc /\ command'[d].target = command[d].target
    BY <1>3, <2>1 DEF PolicyInv, Ruled
  <2>2. CASE d = c /\ command'[c].doc.is \notin {"empty", "generated"}
    BY <2>2
  <2>3. CASE /\ d = c /\ command'[c].target \in DOMAIN Targets /\ command'[c].doc = generated[command'[c].target]
             /\ command'[c].doc.is # "empty"
    BY <2>3 DEF PolicyInv, Written
  <2>. QED  BY <1>1, <1>3, <2>1, <2>2, <2>3
<1>4. \A d \in Command : Line(d)' = Line(d)
  BY <1>1 DEF Line
<1>5. Ruled'
  <2>. SUFFICES ASSUME NEW d \in Command, Line(d)'.does \in {"plan", "go"}
                PROVE  /\ command'[d].doc.is # "empty"
                       /\ command'[d].doc.is = "generated" =>
                            /\ command'[d].doc.of = command'[d].target
                            /\ command'[d].target \in DOMAIN Targets
                            /\ command'[d].doc.by \in Command
                            /\ Author(command[d].doc.by, command[d].target)'
    BY DEF Ruled
  <2>1. Line(d).does \in {"plan", "go"}
    BY <1>4
  <2>2. ASSUME NEW w \in Command, NEW t, Author(w, t) PROVE Author(w, t)'
    BY <2>2
  <2>3. command'[d].doc.is = "generated" => Author(command[d].doc.by, command[d].target)'
    BY <1>3, <2>1 DEF Author
  <2>. QED  BY <1>3, <2>1, <2>3
<1>6. Written' /\ Standing'
  BY DEF PolicyInv, Written, Standing
<1>7. AskedBefore'
  <2>. SUFFICES ASSUME NEW d \in Command, At(d)' \in {"asking", "writing"}
                PROVE  /\ Line(d)'.does = "plan" /\ TargetOf(Line(d)') \in DOMAIN Targets
                       /\ \A w \in Command : Author(w, TargetOf(Line(d)))' => w \notin command'[d].before
    BY DEF AskedBefore
  <2>1. /\ Line(d).does = "plan" /\ TargetOf(Line(d)) \in DOMAIN Targets
        /\ \A w \in Command : Author(w, TargetOf(Line(d))) => w \notin command[d].before
    <3>1. CASE At(d) \in {"asking", "writing"}
      BY <3>1 DEF PolicyInv, AskedBefore
    <3>2. CASE At(d) \notin {"asking", "writing"}
      <4>1. d = c
        BY <3>2, <1>1 DEF At
      <4>. QED  BY <3>2, <4>1 DEF PolicyInv, Standing
    <3>. QED  BY <3>1, <3>2
  <2>. QED  BY <2>1, <1>1, <1>4
<1>8. Overlapped'
  BY <1>1 DEF PolicyInv, Overlapped
<1>. QED  BY <1>2, <1>5, <1>6, <1>7, <1>8 DEF PolicyInv


LEMMA StartKeeps ==
  ASSUME ApartInv, NEW c \in Command, NEW line \in Lines, Start(c, line)
  PROVE  ApartInv'
<1>. DEFINE new == [Waiting EXCEPT !.line = line, !.at = First(line),
                                   !.before = {d \in Command : At(d) \in Over}]
<1>1. command' = [command EXCEPT ![c] = new] /\ At(c) = "waiting" /\ generated' = generated /\ trace' = trace
  BY DEF Start
<1>2. /\ new \in CommandRecs /\ new.line = line /\ new.at = First(line)
      /\ new.before = {d \in Command : At(d) \in Over} /\ new.doc.is = "absent"
  BY DEF CommandRecs, Waiting, First, Places, Names, Docs, Nothing, Doc
<1>. HIDE DEF new
<1>3. /\ command \in [Command -> CommandRecs] /\ command' \in [Command -> CommandRecs] /\ command'[c] = new
      /\ \A d \in Command : d # c => command'[d] = command[d]
  BY <1>1, <1>2 DEF ApartInv, CommandTyped
<1>4. new.at \in {"setup", "guard"} /\ (line.does = "plan" => new.at = "guard")
  BY <1>2 DEF First
<1>5. CommandTyped'
  BY <1>1, <1>2, <1>3 DEF ApartInv, CommandTyped, At, Line
<1>6. \A w \in Command : \A t : Author(w, t)' <=> Author(w, t)
  <2>. SUFFICES ASSUME NEW w \in Command, NEW t PROVE Author(w, t)' <=> Author(w, t)
    OBVIOUS
  <2>1. Doc("generated", t, c).is = "generated"
    BY DEF Doc
  <2>2. command[c].doc.is = "absent"
    BY <1>1 DEF ApartInv, PolicyInv, RuledLast, Unruled
  <2>3. ~Author(c, t) /\ ~Author(c, t)'
    BY <1>2, <1>3, <2>1, <2>2 DEF Author
  <2>4. w # c => (Author(w, t)' <=> Author(w, t))
    BY <1>3 DEF Author, Line
  <2>. QED  BY <2>3, <2>4
<1>7. RunInv'
  <2>1. \A d \in Command, b \in Command : b \in command'[d].before => At(b)' \in Over
    <3>. SUFFICES ASSUME NEW d \in Command, NEW b \in Command, b \in command'[d].before PROVE At(b)' \in Over
      OBVIOUS
    <3>1. At(b) \in Over
      BY <1>2, <1>3 DEF ApartInv, RunInv
    <3>2. b # c
      BY <1>1, <3>1 DEF Over
    <3>. QED  BY <1>3, <3>1, <3>2 DEF At
  <2>2. \A e \in trace : e.by \in Command /\ e.by # c /\ At(e.by)' # "waiting"
    BY <1>1, <1>3 DEF ApartInv, RunInv, CommandTyped, At
  <2>3. ~Cleared(c)'
    BY <1>2, <1>3, <1>4 DEF Cleared, At, Line
  <2>4. \A d \in Command : Cleared(d)' => \A e \in trace : e.run = Line(d)'.run => e.by \notin command'[d].before
    BY <1>3, <2>3 DEF ApartInv, RunInv, Cleared, At, Line
  <2>5. OneRunPerId'
    BY <1>1, <1>3, <2>2 DEF ApartInv, RunInv, OneRunPerId, Line
  <2>. QED  BY <1>1, <2>1, <2>2, <2>4, <2>5 DEF RunInv
<1>8. PolicyInv'
  <2>1. RuledLast'
    <3>1. \A d \in Command : Unruled(d)' => command'[d].doc.is = "absent"
      BY <1>2, <1>3 DEF ApartInv, PolicyInv, RuledLast, Unruled, At, Line
    <3>2. \A d \in Command : At(d)' = "document" => Line(d)'.does = "agent"
      BY <1>2, <1>3, <1>4 DEF ApartInv, PolicyInv, RuledLast, At, Line
    <3>. QED  BY <3>1, <3>2 DEF RuledLast
  <2>2. Ruled'
    <3>. SUFFICES ASSUME NEW d \in Command, Line(d)'.does \in {"plan", "go"}
                  PROVE  /\ command'[d].doc.is # "empty"
                         /\ command'[d].doc.is = "generated" =>
                              /\ command'[d].doc.of = command'[d].target
                              /\ command'[d].target \in DOMAIN Targets
                              /\ command'[d].doc.by \in Command
                              /\ Author(command[d].doc.by, command[d].target)'
      BY DEF Ruled
    <3>1. CASE d = c
      BY <3>1, <1>2, <1>3
    <3>2. CASE d # c
      <4>1. Line(d).does \in {"plan", "go"} /\ command'[d] = command[d]
        BY <3>2, <1>3 DEF Line
      <4>2. /\ command[d].doc.is # "empty"
            /\ command[d].doc.is = "generated" =>
                 /\ command[d].doc.of = command[d].target
                 /\ command[d].target \in DOMAIN Targets
                 /\ command[d].doc.by \in Command
                 /\ Author(command[d].doc.by, command[d].target)
        BY <4>1 DEF ApartInv, PolicyInv, Ruled
      <4>3. command[d].doc.is = "generated" =>
              command[d].doc.by # c /\ command'[command[d].doc.by] = command[command[d].doc.by]
        <5>1. command[d].doc.is = "generated" => Author(command[d].doc.by, command[d].target)'
          BY <4>2, <1>6, <4>1 DEF Author
        <5>2. command[d].doc.is = "generated" => command[d].doc.by # c
          BY <5>1, <1>2, <1>3, <4>1 DEF Author, Doc
        <5>. QED  BY <5>2, <4>2, <1>3
      <4>. QED  BY <4>1, <4>2, <4>3 DEF Author, Line
    <3>. QED  BY <3>1, <3>2
  <2>3. Written' /\ Standing'
    BY <1>1, <1>6 DEF ApartInv, PolicyInv, Written, Standing
  <2>4. AskedBefore'
    <3>. SUFFICES ASSUME NEW d \in Command, At(d)' \in {"asking", "writing"}
                  PROVE  /\ Line(d)'.does = "plan" /\ TargetOf(Line(d)') \in DOMAIN Targets
                         /\ \A w \in Command : Author(w, TargetOf(Line(d)))' => w \notin command'[d].before
      BY DEF AskedBefore
    <3>1. d # c /\ command'[d] = command[d] /\ Line(d)' = Line(d)
      BY <1>2, <1>3, <1>4 DEF At, Line
    <3>2. /\ Line(d).does = "plan" /\ TargetOf(Line(d)) \in DOMAIN Targets
          /\ \A w \in Command : Author(w, TargetOf(Line(d))) => w \notin command[d].before
      BY <3>1 DEF ApartInv, PolicyInv, AskedBefore, At
    <3>. QED  BY <3>1, <3>2, <1>6
  <2>5. Overlapped'
    <3>. SUFFICES ASSUME NEW t \in DOMAIN Targets, NEW v \in Command, NEW w \in Command,
                         Author(v, t)', Author(w, t)'
                  PROVE  v \notin command'[w].before
      BY DEF Overlapped
    <3>1. w # c
      BY <1>2, <1>3 DEF Author, Doc
    <3>. QED  BY <3>1, <1>3, <1>6 DEF ApartInv, PolicyInv, Overlapped
  <2>. QED  BY <2>1, <2>2, <2>3, <2>4, <2>5 DEF PolicyInv
<1>. QED  BY <1>5, <1>7, <1>8 DEF ApartInv


LEMMA TypedKeeps ==
  ASSUME CommandTyped, NEW c \in Command, OthersKept(c), At(c) # "waiting",
         generated' \in [DOMAIN Targets \cup {""} -> Docs],
         \A t \in DOMAIN generated' : generated'[t].is \in {"absent", "empty", "generated"},
         trace' = trace \/ trace' = trace \cup Events(c)
  PROVE  CommandTyped'
<1>1. Line(c) \in Lines
  BY DEF CommandTyped
<1>2. Events(c) \subseteq [run : {l.run : l \in Lines}, by : Command]
  <2>1. Line(c).run \in {l.run : l \in Lines}
    BY <1>1
  <2>2. [run |-> Line(c).run, by |-> c] \in [run : {l.run : l \in Lines}, by : Command]
    BY <2>1
  <2>. QED  BY <2>2 DEF Events
<1>3. trace' \subseteq [run : {l.run : l \in Lines}, by : Command]
  BY <1>2 DEF CommandTyped
<1>4. \A d \in Command : At(d)' # "waiting" => Line(d)' \in Lines
  BY <1>1 DEF CommandTyped, OthersKept, At, Line
<1>. QED  BY <1>3, <1>4 DEF CommandTyped, OthersKept

LEMMA EmptyingKeeps ==
  ASSUME ApartInv, CommandAssumption, NEW c \in Command, Empties(c)
  PROVE  ApartInv'
<1>. DEFINE target == TargetOf(Line(c))
<1>1. At(c) = "asking" /\ Line(c).does = "plan" /\ target \in DOMAIN Targets
  BY DEF Empties, ApartInv, PolicyInv, AskedBefore
<1>2. /\ generated' = [generated EXCEPT ![target] = Doc("empty", "", c)] /\ trace' = trace
      /\ Moves(c, "writing")
  BY <1>1 DEF Empties, PolicyKey
<1>3. OthersKept(c) /\ command'[c].at = "writing" /\ command'[c].doc = command[c].doc
      /\ command'[c].target = command[c].target
  BY <1>2, MovesIs DEF ApartInv, Places
<1>4. Doc("empty", "", c) \in Docs /\ Doc("empty", "", c).is = "empty"
  BY DEF Doc, Docs, Names
<1>. HIDE DEF target
<1>5. /\ generated' \in [DOMAIN Targets \cup {""} -> Docs] /\ generated'[target].is = "empty"
      /\ \A t \in DOMAIN generated : t # target => generated'[t] = generated[t]
      /\ DOMAIN generated = DOMAIN Targets \cup {""} /\ DOMAIN generated' = DOMAIN generated
  BY <1>1, <1>2, <1>4 DEF ApartInv, CommandTyped
<1>6. CommandTyped'
  <2>1. \A t \in DOMAIN generated' : generated'[t].is \in {"absent", "empty", "generated"}
    BY <1>5 DEF ApartInv, CommandTyped
  <2>. QED  BY <1>1, <1>2, <1>3, <1>5, <2>1, TypedKeeps DEF ApartInv
<1>7. RunInv'
  <2>1. Cleared(c)' => Cleared(c)
    BY <1>1, <1>3 DEF Cleared, OthersKept, At, Line
  <2>. QED  BY <1>1, <1>2, <1>3, <2>1, RunKeeps DEF ApartInv, Over, At
<1>8. \A w \in Command : \A t : Author(w, t)' <=> Author(w, t)
  BY <1>3, AuthorsStay DEF ApartInv
<1>9. PolicyInv'
  <2>1. \A d \in Command : /\ command'[d].line = command[d].line /\ command'[d].before = command[d].before
                           /\ command'[d].doc = command[d].doc /\ command'[d].target = command[d].target
                           /\ d # c => command'[d] = command[d]
    BY <1>3 DEF OthersKept
  <2>2. \A d \in Command : Unruled(d)' => Unruled(d)
    BY <1>1, <1>3, <2>1 DEF Unruled, At, Line
  <2>3. \A d \in Command : At(d)' = "document" => At(d) = "document"
    BY <1>3, <2>1 DEF At
  <2>4. \A d \in Command : At(d)' \in {"asking", "writing"} => At(d) \in {"asking", "writing"}
    BY <1>1, <1>3, <2>1 DEF At
  <2>5. RuledLast'
    BY <2>1, <2>2, <2>3 DEF ApartInv, PolicyInv, RuledLast, Line
  <2>6. Ruled'
    <3>1. \A d \in Command : Author(command[d].doc.by, command[d].target)
            /\ command[d].doc.by \in Command => Author(command[d].doc.by, command[d].target)'
      BY <2>1 DEF Author, Line
    <3>. SUFFICES ASSUME NEW d \in Command, Line(d)'.does \in {"plan", "go"}
                  PROVE  /\ command'[d].doc.is # "empty"
                         /\ command'[d].doc.is = "generated" =>
                              /\ command'[d].doc.of = command'[d].target
                              /\ command'[d].target \in DOMAIN Targets
                              /\ command'[d].doc.by \in Command
                              /\ Author(command[d].doc.by, command[d].target)'
      BY DEF Ruled
    <3>2. Line(d).does \in {"plan", "go"}
      BY <2>1 DEF Line
    <3>3. /\ command[d].doc.is # "empty"
          /\ command[d].doc.is = "generated" =>
               /\ command[d].doc.of = command[d].target /\ command[d].target \in DOMAIN Targets
               /\ command[d].doc.by \in Command /\ Author(command[d].doc.by, command[d].target)
      BY <3>2 DEF ApartInv, PolicyInv, Ruled
    <3>4. command[d].doc.is = "generated" => Author(command[d].doc.by, command[d].target)'
      BY <3>1, <3>3
    <3>. QED  BY <2>1, <3>3, <3>4
  <2>7. Written' /\ Standing'
    BY <1>1, <1>5, <1>8 DEF ApartInv, PolicyInv, Written, Standing
  <2>8. AskedBefore'
    <3>1. \A d \in Command : Line(d)' = Line(d)
      BY <2>1 DEF Line
    <3>. SUFFICES ASSUME NEW d \in Command, At(d)' \in {"asking", "writing"}
                  PROVE  /\ Line(d)'.does = "plan" /\ TargetOf(Line(d)') \in DOMAIN Targets
                         /\ \A w \in Command : Author(w, TargetOf(Line(d)))' => w \notin command'[d].before
      BY DEF AskedBefore
    <3>2. /\ Line(d).does = "plan" /\ TargetOf(Line(d)) \in DOMAIN Targets
          /\ \A w \in Command : Author(w, TargetOf(Line(d))) => w \notin command[d].before
      BY <2>4 DEF ApartInv, PolicyInv, AskedBefore
    <3>. QED  BY <2>1, <3>1, <3>2, <1>8
  <2>9. Overlapped'
    BY <2>1, <1>8 DEF ApartInv, PolicyInv, Overlapped
  <2>. QED  BY <2>5, <2>6, <2>7, <2>8, <2>9 DEF PolicyInv
<1>. QED  BY <1>6, <1>7, <1>9 DEF ApartInv

LEMMA WritesKeeps ==
  ASSUME ApartInv, CommandAssumption, NEW c \in Command, Writes(c)
  PROVE  ApartInv'
<1>. DEFINE target == TargetOf(Line(c))
            doc == Doc("generated", target, c)
<1>1. At(c) = "writing" /\ Line(c).does = "plan" /\ target \in DOMAIN Targets /\ Line(c) \in Lines
  BY DEF Writes, ApartInv, PolicyInv, AskedBefore, CommandTyped
<1>2. /\ generated' = [generated EXCEPT ![target] = doc] /\ trace' = trace /\ SetUp(c, doc)
  BY <1>1 DEF Writes, PolicyKey
<1>3. doc \in Docs /\ doc.is = "generated" /\ doc.of = target /\ doc.by = c
  BY <1>1 DEF Doc, Docs, Names
<1>4. /\ OthersKept(c) /\ command'[c].doc = doc /\ command'[c].target = target
      /\ command'[c].at = After(Line(c), "setup")
  BY <1>1, <1>2, <1>3, SetUpIs DEF ApartInv
<1>5. command'[c].at = "judge"
  BY <1>1, <1>4 DEF After
<1>6. /\ generated' \in [DOMAIN Targets \cup {""} -> Docs] /\ generated'[target] = doc
      /\ \A t \in DOMAIN generated : t # target => generated'[t] = generated[t]
      /\ DOMAIN generated = DOMAIN Targets \cup {""} /\ DOMAIN generated' = DOMAIN generated
  BY <1>1, <1>2, <1>3 DEF ApartInv, CommandTyped
<1>7. Line(c)' = Line(c) /\ \A t : Author(c, t)' <=> t = target
  <2>1. \A t : Doc("generated", t, c).of = t
    BY DEF Doc
  <2>2. Line(c)' = Line(c) /\ Line(c).does = "plan"
    BY <1>1, <1>4 DEF OthersKept, Line
  <2>3. \A t : Author(c, t)' <=> doc = Doc("generated", t, c)
    BY <1>4, <2>2 DEF Author
  <2>4. \A t : doc = Doc("generated", t, c) <=> t = target
    BY <1>3, <2>1
  <2>. QED  BY <2>2, <2>3, <2>4
<1>. HIDE DEF target, doc
<1>8. CommandTyped'
  <2>1. \A t \in DOMAIN generated' : generated'[t].is \in {"absent", "empty", "generated"}
    BY <1>3, <1>6 DEF ApartInv, CommandTyped
  <2>. QED  BY <1>1, <1>2, <1>4, <1>6, <2>1, TypedKeeps DEF ApartInv
<1>9. RunInv'
  <2>1. Cleared(c)' => Cleared(c)
    BY <1>1, <1>5, <1>7 DEF Cleared, At
  <2>. QED  BY <1>1, <1>2, <1>4, <1>5, <2>1, RunKeeps DEF ApartInv, Over, At
<1>10. \A d \in Command : /\ command'[d].line = command[d].line /\ command'[d].before = command[d].before
                          /\ d # c => command'[d] = command[d]
  BY <1>4 DEF OthersKept
<1>11. \A w \in Command : \A t : w # c => (Author(w, t)' <=> Author(w, t))
  BY <1>10 DEF Author, Line
<1>12. \A t : ~Author(c, t)
  <2>1. command[c].doc.is = "absent"
    BY <1>1 DEF ApartInv, PolicyInv, RuledLast, Unruled
  <2>2. \A t : Doc("generated", t, c).is = "generated"
    BY DEF Doc
  <2>. QED  BY <2>1, <2>2 DEF Author
<1>13. \A d \in Command : Line(d)' = Line(d)
  BY <1>10 DEF Line
<1>14. \A d \in Command : c \notin command[d].before
  BY <1>1 DEF ApartInv, RunInv, Over
<1>15. RuledLast'
  <2>1. \A d \in Command : Unruled(d)' => d # c /\ Unruled(d)
    BY <1>5, <1>10, <1>13 DEF Unruled, At
  <2>2. \A d \in Command : At(d)' = "document" => d # c /\ At(d) = "document"
    BY <1>5, <1>10 DEF At
  <2>. QED  BY <1>10, <1>13, <2>1, <2>2 DEF ApartInv, PolicyInv, RuledLast
<1>16. Ruled'
  <2>1. \A d \in Command : d # c /\ command[d].doc.is = "generated" /\ Line(d).does \in {"plan", "go"} =>
          Author(command[d].doc.by, command[d].target)'
    <3>. SUFFICES ASSUME NEW d \in Command, d # c, command[d].doc.is = "generated",
                         Line(d).does \in {"plan", "go"}
                  PROVE  Author(command[d].doc.by, command[d].target)'
      OBVIOUS
    <3>1. command[d].doc.by \in Command /\ Author(command[d].doc.by, command[d].target)
      BY DEF ApartInv, PolicyInv, Ruled
    <3>2. command[d].doc.by # c
      BY <3>1, <1>12
    <3>3. command'[command[d].doc.by] = command[command[d].doc.by] /\ command'[d] = command[d]
      BY <3>1, <3>2, <1>10
    <3>. QED  BY <3>1, <3>3 DEF Author, Line
  <2>. SUFFICES ASSUME NEW d \in Command, Line(d)'.does \in {"plan", "go"}
                PROVE  /\ command'[d].doc.is # "empty"
                       /\ command'[d].doc.is = "generated" =>
                            /\ command'[d].doc.of = command'[d].target
                            /\ command'[d].target \in DOMAIN Targets
                            /\ command'[d].doc.by \in Command
                            /\ Author(command[d].doc.by, command[d].target)'
    BY DEF Ruled
  <2>2. CASE d = c
    <3>1. Author(command[c].doc.by, command[c].target)'
      BY <1>3, <1>4, <1>7 DEF Author
    <3>. QED  BY <2>2, <3>1, <1>1, <1>3, <1>4
  <2>3. CASE d # c
    BY <2>1, <2>3, <1>10, <1>13 DEF ApartInv, PolicyInv, Ruled
  <2>. QED  BY <2>2, <2>3
<1>17. Written' /\ Standing'
  <2>1. \A t \in DOMAIN Targets : t # target => generated'[t] = generated[t]
    BY <1>6
  <2>2. Standing'
    BY <1>3, <1>6, <1>7, <1>11, <2>1 DEF ApartInv, PolicyInv, Standing
  <2>3. Written'
    <3>. SUFFICES ASSUME NEW t \in DOMAIN Targets, generated'[t].is = "generated"
                  PROVE  generated'[t].of = t /\ generated'[t].by \in Command /\ Author(generated[t].by, t)'
      BY DEF Written
    <3>1. CASE t = target
      BY <3>1, <1>3, <1>6, <1>7 DEF Author
    <3>2. CASE t # target
      <4>1. /\ generated'[t] = generated[t] /\ generated[t].of = t /\ generated[t].by \in Command
            /\ Author(generated[t].by, t)
        BY <3>2, <2>1 DEF ApartInv, PolicyInv, Written
      <4>2. generated[t].by # c
        BY <4>1, <1>12
      <4>. QED  BY <4>1, <4>2, <1>10 DEF Author, Line
    <3>. QED  BY <3>1, <3>2
  <2>. QED  BY <2>2, <2>3
<1>18. AskedBefore'
  <2>. SUFFICES ASSUME NEW d \in Command, At(d)' \in {"asking", "writing"}
                PROVE  /\ Line(d)'.does = "plan" /\ TargetOf(Line(d)') \in DOMAIN Targets
                       /\ \A w \in Command : Author(w, TargetOf(Line(d)))' => w \notin command'[d].before
    BY DEF AskedBefore
  <2>1. d # c /\ At(d) \in {"asking", "writing"}
    BY <1>5, <1>10 DEF At
  <2>2. /\ Line(d).does = "plan" /\ TargetOf(Line(d)) \in DOMAIN Targets
        /\ \A w \in Command : Author(w, TargetOf(Line(d))) => w \notin command[d].before
    BY <2>1 DEF ApartInv, PolicyInv, AskedBefore
  <2>. QED  BY <2>2, <1>10, <1>11, <1>13, <1>14
<1>19. Overlapped'
  <2>. SUFFICES ASSUME NEW t \in DOMAIN Targets, NEW v \in Command, NEW w \in Command,
                       Author(v, t)', Author(w, t)'
                PROVE  v \notin command'[w].before
    BY DEF Overlapped
  <2>1. CASE v = c
    BY <2>1, <1>10, <1>14
  <2>2. CASE v # c /\ w = c
    <3>1. t = target /\ Author(v, target)
      BY <2>2, <1>7, <1>11
    <3>. QED  BY <2>2, <3>1, <1>1, <1>10 DEF ApartInv, PolicyInv, AskedBefore, target
  <2>3. CASE v # c /\ w # c
    BY <2>3, <1>10, <1>11 DEF ApartInv, PolicyInv, Overlapped
  <2>. QED  BY <2>1, <2>2, <2>3
<1>. QED  BY <1>8, <1>9, <1>15, <1>16, <1>17, <1>18, <1>19 DEF ApartInv, PolicyInv

(* A step that only moves a command on, to a place it asks nothing at.      *)
LEMMA MoveKeeps ==
  ASSUME ApartInv, NEW c \in Command, NEW at \in Places, Moves(c, at), generated' = generated,
         At(c) \notin Over \cup {"waiting"}, at # "waiting",
         \/ trace' = trace
         \/ At(c) \in {"judge", "document"} /\ trace' = trace \cup Events(c),
         Cleared(c)' => Cleared(c) \/ \A e \in trace : e.run # Line(c).run,
         Unruled(c)' => Unruled(c),
         at = "document" => Line(c).does = "agent",
         at \in {"asking", "writing"} =>
           At(c) \in {"asking", "writing"}
             \/ (/\ Line(c).does = "plan" /\ TargetOf(Line(c)) \in DOMAIN Targets
                 /\ generated[TargetOf(Line(c))].is = "absent")
  PROVE  ApartInv'
<1>1. /\ OthersKept(c) /\ command'[c].at = at
      /\ command'[c].doc = command[c].doc /\ command'[c].target = command[c].target
  BY MovesIs DEF ApartInv
<1>2. At(c)' = at
  BY <1>1 DEF At
<1>3. RunInv'
  BY <1>1, <1>2, RunKeeps DEF ApartInv
<1>4. \A w \in Command : \A t : Author(w, t)' <=> Author(w, t)
  BY <1>1, AuthorsStay DEF ApartInv
<1>5. Unruled(c)' => command'[c].doc.is = "absent"
  BY <1>1 DEF ApartInv, PolicyInv, RuledLast
<1>6. PolicyInv'
  BY <1>1, <1>2, <1>4, <1>5, PolicyKeeps DEF ApartInv
<1>7. CommandTyped'
  <2>1. /\ generated' \in [DOMAIN Targets \cup {""} -> Docs]
        /\ \A t \in DOMAIN generated' : generated'[t].is \in {"absent", "empty", "generated"}
    BY DEF ApartInv, CommandTyped
  <2>2. At(c) # "waiting" /\ (trace' = trace \/ trace' = trace \cup Events(c))
    OBVIOUS
  <2>. QED  BY <1>1, <2>1, <2>2, TypedKeeps DEF ApartInv
<1>. QED  BY <1>3, <1>6, <1>7 DEF ApartInv

(* A command settles what governs it.                                       *)
LEMMA SetUpKeeps ==
  ASSUME ApartInv, CommandAssumption, NEW c \in Command, NEW doc \in Docs, SetUp(c, doc),
         At(c) \in {"setup", "asking"}, Line(c).does # "agent",
         generated' = generated, trace' = trace,
         \/ doc.is \in {"named", "default", "builtin"}
         \/ Line(c).does = "run"
         \/ /\ TargetOf(Line(c)) \in DOMAIN Targets /\ doc = generated[TargetOf(Line(c))]
            /\ doc.is # "empty"
  PROVE  ApartInv'
<1>1. Line(c) \in Lines /\ Line(c).does \in {"run", "plan", "go"}
  BY DEF ApartInv, CommandTyped, CommandAssumption
<1>2. /\ OthersKept(c) /\ command'[c].doc = doc /\ command'[c].target = TargetOf(Line(c))
      /\ command'[c].at = After(Line(c), "setup")
  BY <1>1, SetUpIs DEF ApartInv
<1>3. At(c)' = (IF Line(c).does = "run" THEN "guard" ELSE "judge") /\ Line(c)' = Line(c)
  BY <1>1, <1>2 DEF After, At, OthersKept, Line
<1>4. Unruled(c) /\ ~Unruled(c)'
  BY <1>3 DEF Unruled
<1>5. command[c].doc.is = "absent"
  BY <1>4 DEF ApartInv, PolicyInv, RuledLast
<1>6. RunInv'
  <2>1. At(c) = "asking" => Line(c).does = "plan"
    BY DEF ApartInv, PolicyInv, AskedBefore
  <2>2. Cleared(c)' => Cleared(c)
    BY <1>1, <1>3, <2>1 DEF Cleared
  <2>3. At(c) \notin Over \cup {"waiting"} /\ At(c)' # "waiting"
    BY <1>3 DEF Over
  <2>. QED  BY <1>2, <2>2, <2>3, RunKeeps DEF ApartInv
<1>7. \A w \in Command : \A t : Author(w, t)' <=> Author(w, t)
  <2>1. Line(c).does # "plan" \/ \A t : doc # Doc("generated", t, c)
    <3>1. CASE doc.is \in {"named", "default", "builtin"}
      <4>1. \A t : Doc("generated", t, c).is = "generated"
        BY DEF Doc
      <4>2. doc.is # "generated"
        BY <3>1
      <4>. QED  BY <4>1, <4>2
    <3>2. CASE TargetOf(Line(c)) \in DOMAIN Targets /\ doc = generated[TargetOf(Line(c))]
      <4>. SUFFICES ASSUME NEW t, doc = Doc("generated", t, c) PROVE FALSE
        OBVIOUS
      <4>1. doc.is = "generated" /\ doc.by = c
        BY DEF Doc
      <4>2. Author(c, TargetOf(Line(c)))
        BY <3>2, <4>1 DEF ApartInv, PolicyInv, Written
      <4>3. Doc("generated", TargetOf(Line(c)), c).is = "generated"
        BY DEF Doc
      <4>4. command[c].doc = Doc("generated", TargetOf(Line(c)), c)
        BY <4>2 DEF Author
      <4>5. command[c].doc.is = "generated"
        BY <4>3, <4>4, Zenon
      <4>. QED  BY <1>5, <4>5
    <3>3. CASE Line(c).does = "run"
      BY <3>3
    <3>. QED  BY <3>1, <3>2, <3>3
  <2>. QED  BY <1>2, <1>4, <2>1, AuthorsStay DEF ApartInv
<1>8. PolicyInv'
  <2>1. At(c)' # "document" /\ At(c)' \notin {"asking", "writing"}
    BY <1>3
  <2>2. \/ Line(c).does \notin {"plan", "go"}
        \/ command'[c].doc.is \notin {"empty", "generated"}
        \/ /\ command'[c].target \in DOMAIN Targets /\ command'[c].doc = generated[command'[c].target]
           /\ command'[c].doc.is # "empty"
    BY <1>2
  <2>. QED  BY <1>2, <1>4, <1>7, <2>1, <2>2, PolicyKeeps DEF ApartInv
<1>9. CommandTyped'
  <2>1. /\ generated' \in [DOMAIN Targets \cup {""} -> Docs]
        /\ \A t \in DOMAIN generated' : generated'[t].is \in {"absent", "empty", "generated"}
    BY DEF ApartInv, CommandTyped
  <2>. QED  BY <1>2, <2>1, TypedKeeps DEF ApartInv
<1>. QED  BY <1>6, <1>8, <1>9 DEF ApartInv

LEMMA WorksKeeps ==
  ASSUME ApartInv, NEW c \in Command, Works(c)
  PROVE  ApartInv'
<1>. DEFINE new == [command[c] EXCEPT !.elapsed = @ + 1]
<1>1. /\ command[c] \in CommandRecs /\ command \in [Command -> CommandRecs]
      /\ At(c) = "running" /\ generated' = generated /\ trace' = trace
  BY DEF ApartInv, CommandTyped, Works
<1>2. command' = [command EXCEPT ![c] = new]
  BY <1>1 DEF Works, CommandRecs
<1>3. /\ new \in CommandRecs /\ new.line = command[c].line /\ new.before = command[c].before
      /\ new.doc = command[c].doc /\ new.at = command[c].at /\ new.target = command[c].target
  BY <1>1 DEF CommandRecs
<1>. HIDE DEF new
<1>4. /\ OthersKept(c) /\ command'[c].at = "running" /\ command'[c].doc = command[c].doc
      /\ command'[c].target = command[c].target
  BY <1>1, <1>2, <1>3 DEF OthersKept, At
<1>5. At(c)' = "running" /\ Line(c)' = Line(c)
  BY <1>4 DEF At, OthersKept, Line
<1>6. RunInv'
  <2>1. Cleared(c)' => Cleared(c)
    BY <1>1, <1>5 DEF Cleared
  <2>. QED  BY <1>1, <1>4, <1>5, <2>1, RunKeeps DEF ApartInv, Over
<1>7. PolicyInv'
  <2>1. \A w \in Command : \A t : Author(w, t)' <=> Author(w, t)
    BY <1>4, AuthorsStay DEF ApartInv
  <2>2. ~Unruled(c)'
    BY <1>5 DEF Unruled
  <2>. QED  BY <1>1, <1>4, <1>5, <2>1, <2>2, PolicyKeeps DEF ApartInv
<1>8. CommandTyped'
  <2>1. /\ generated' \in [DOMAIN Targets \cup {""} -> Docs]
        /\ \A t \in DOMAIN generated' : generated'[t].is \in {"absent", "empty", "generated"}
    BY <1>1 DEF ApartInv, CommandTyped
  <2>. QED  BY <1>1, <1>4, <2>1, TypedKeeps DEF ApartInv
<1>. QED  BY <1>6, <1>7, <1>8 DEF ApartInv

LEMMA ReadsDocumentKeeps ==
  ASSUME ApartInv, NEW c \in Command, ReadsDocument(c)
  PROVE  ApartInv'
<1>. DEFINE named == PolicyPath(Line(c))[2]
            doc == IF named = Unset THEN Doc("flags", "", 0) ELSE Doc("named", named, 0)
            new == [command[c] EXCEPT !.at = "running", !.doc = doc]
<1>1. /\ command[c] \in CommandRecs /\ command \in [Command -> CommandRecs] /\ Line(c) \in Lines
      /\ At(c) = "document" /\ generated' = generated /\ Line(c).does = "agent"
  BY DEF ApartInv, CommandTyped, PolicyInv, RuledLast, ReadsDocument
<1>2. CASE Moves(c, "refused") /\ trace' = trace
  <2>1. OthersKept(c) /\ command'[c].at = "refused"
    BY <1>2, MovesIs DEF ApartInv, Places, Over
  <2>2. ~Cleared(c)' /\ ~Unruled(c)'
    BY <2>1 DEF Cleared, Unruled, At
  <2>. QED  BY <1>1, <1>2, <2>2, MoveKeeps DEF Places, Over
<1>3. CASE command' = [command EXCEPT ![c] = new] /\ trace' = trace \cup Events(c)
  <2>1. doc \in Docs
    <3>1. named \in Names
      BY <1>1 DEF Names
    <3>. QED  BY <3>1 DEF Docs, Doc, Names
  <2>. HIDE DEF doc
  <2>2. /\ new \in CommandRecs /\ new.line = command[c].line /\ new.before = command[c].before
        /\ new.doc = doc /\ new.at = "running" /\ new.target = command[c].target
    BY <1>1, <2>1 DEF CommandRecs, Places
  <2>. HIDE DEF new
  <2>3. /\ OthersKept(c) /\ command'[c].at = "running" /\ command'[c].doc = doc
        /\ command'[c].target = command[c].target
    BY <1>1, <1>3, <2>2 DEF OthersKept
  <2>4. At(c)' = "running" /\ Line(c)' = Line(c)
    BY <2>3 DEF At, OthersKept, Line
  <2>5. RunInv'
    <3>1. Cleared(c)' => Cleared(c)
      BY <1>1, <2>4 DEF Cleared
    <3>. QED  BY <1>1, <1>3, <2>3, <2>4, <3>1, RunKeeps DEF ApartInv, Over
  <2>6. PolicyInv'
    <3>1. command'[c].doc = command[c].doc \/ Line(c).does # "plan"
      BY <1>1
    <3>2. Unruled(c) \/ command'[c].doc = command[c].doc \/ Line(c).does # "plan"
      BY <1>1
    <3>3. \A w \in Command : \A t : Author(w, t)' <=> Author(w, t)
      BY <1>1, <2>3, <2>4 DEF Author, OthersKept, Line
    <3>4. ~Unruled(c)'
      BY <2>4 DEF Unruled
    <3>. QED  BY <1>1, <2>3, <2>4, <3>3, <3>4, PolicyKeeps DEF ApartInv
  <2>7. CommandTyped'
    <3>1. /\ generated' \in [DOMAIN Targets \cup {""} -> Docs]
          /\ \A t \in DOMAIN generated' : generated'[t].is \in {"absent", "empty", "generated"}
      BY <1>1 DEF ApartInv, CommandTyped
    <3>. QED  BY <1>1, <1>3, <2>3, <3>1, TypedKeeps DEF ApartInv
  <2>. QED  BY <2>5, <2>6, <2>7 DEF ApartInv
<1>4. (Moves(c, "refused") /\ trace' = trace)
        \/ (command' = [command EXCEPT ![c] = new] /\ trace' = trace \cup Events(c))
  BY <1>1 DEF ReadsDocument, CommandRecs
<1>. QED  BY <1>2, <1>3, <1>4

LEMMA PlaceMoves ==
  ASSUME ApartInv, CommandAssumption, NEW c \in Command,
         \/ Guard(c) \/ SetupFails(c) \/ AgentSetUp(c) \/ Ends(c) \/ Killed(c)
         \/ \E admitted \in BOOLEAN : Judge(c, admitted)
  PROVE  ApartInv'
<1>1. \A at \in Places : Moves(c, at) => At(c)' = at /\ Line(c)' = Line(c)
  BY MovesIs DEF ApartInv, OthersKept, At, Line
<1>2. CASE Guard(c)
  <2>1. At(c) = "guard" /\ generated' = generated /\ trace' = trace /\ Line(c) \in Lines
        /\ Line(c).does \in {"run", "plan", "go", "agent"}
    BY <1>2 DEF Guard, ApartInv, CommandTyped, CommandAssumption
  <2>2. CASE Reused(c)
    <3>1. Moves(c, "refused") /\ "refused" \in Places
      BY <1>2, <2>2 DEF Guard, Places, Over
    <3>2. ~Cleared(c)' /\ ~Unruled(c)'
      BY <1>1, <3>1 DEF Cleared, Unruled
    <3>. QED  BY <2>1, <3>1, <3>2, MoveKeeps DEF Over
  <2>3. CASE ~Reused(c)
    <3>. DEFINE at == After(Line(c), "guard")
    <3>1. Moves(c, at) /\ at \in {"setup", "document", "judge"} /\ (at = "document" => Line(c).does = "agent")
          /\ (at = "setup" => Line(c).does = "plan")
      BY <1>2, <2>1, <2>3 DEF Guard, After
    <3>. HIDE DEF at
    <3>2. at \in Places /\ At(c)' = at /\ Line(c)' = Line(c)
      BY <1>1, <3>1 DEF Places
    <3>3. Cleared(c)' => \A e \in trace : e.run # Line(c).run
      BY <2>3, <3>2 DEF Cleared, Reused
    <3>4. Unruled(c)' => Unruled(c)
      BY <2>1, <3>1, <3>2 DEF Unruled
    <3>. QED  BY <2>1, <3>1, <3>2, <3>3, <3>4, MoveKeeps DEF Over
  <2>. QED  BY <2>2, <2>3
<1>3. CASE \/ SetupFails(c) \/ Ends(c) \/ Killed(c)
           \/ \E admitted \in BOOLEAN : Judge(c, admitted)
  <2>1. PICK at \in Over \cup {"running"} :
          /\ Moves(c, at) /\ generated' = generated /\ At(c) \notin Over \cup {"waiting"}
          /\ at = "running" => At(c) = "judge"
          /\ trace' = trace \/ (At(c) \in {"judge", "document"} /\ trace' = trace \cup Events(c))
    BY <1>3 DEF SetupFails, Ends, Killed, Judge, Over
  <2>2. at \in Places /\ At(c)' = at /\ Line(c)' = Line(c)
    BY <1>1, <2>1 DEF Places
  <2>3. (Cleared(c)' => Cleared(c)) /\ ~Unruled(c)'
    BY <2>1, <2>2 DEF Cleared, Unruled, Over
  <2>. QED  BY <2>1, <2>2, <2>3, MoveKeeps DEF Over
<1>4. CASE AgentSetUp(c)
  <2>1. /\ Moves(c, "guard") /\ "guard" \in Places /\ generated' = generated /\ trace' = trace
        /\ At(c) = "setup" /\ Line(c).does = "agent"
    BY <1>4 DEF AgentSetUp, Places
  <2>2. At(c)' = "guard" /\ Line(c)' = Line(c)
    BY <1>1, <2>1
  <2>3. ~Cleared(c)' /\ ~Unruled(c)'
    BY <2>1, <2>2 DEF Cleared, Unruled
  <2>. QED  BY <2>1, <2>3, MoveKeeps DEF Over
<1>. QED  BY <1>2, <1>3, <1>4

LEMMA SettlingKeeps ==
  ASSUME ApartInv, CommandAssumption, NEW c \in Command,
         Named(c) \/ ReadsBack(c) \/ Asks(c) \/ NoPolicy(c)
  PROVE  ApartInv'
<1>1. At(c) \in {"setup", "asking"} /\ Line(c) \in Lines /\ Line(c).does \in {"run", "plan", "go"}
      /\ generated' = generated /\ trace' = trace
  BY DEF Named, ReadsBack, Asks, NoPolicy, Governs, ApartInv, CommandTyped, PolicyInv, AskedBefore,
         CommandAssumption
<1>2. ~Unusable(Line(c)) /\ Line(c).does # "run" =>
        TargetOf(Line(c)) \in DOMAIN Targets /\ PolicyKey(Line(c), TargetOf(Line(c))) = TargetOf(Line(c))
  BY DEF Unusable, Loads, PolicyKey
<1>3. Settled(TargetOf(Line(c))) \in Docs /\ Settled(TargetOf(Line(c))).is \in {"default", "builtin"}
  <2>1. TargetOf(Line(c)) \in Names /\ Stdlib \in Names
    BY <1>1 DEF Names
  <2>. QED  BY <2>1 DEF Settled, Doc, Docs
<1>4. SetUp(c, Settled(TargetOf(Line(c)))) => ApartInv'
  BY <1>1, <1>3, SetUpKeeps
<1>5. CASE Named(c)
  <2>1. PolicyPath(Line(c))[2] \in Names
    BY <1>1 DEF Names
  <2>2. Doc("named", PolicyPath(Line(c))[2], 0) \in Docs /\ Doc("named", PolicyPath(Line(c))[2], 0).is = "named"
    BY <2>1 DEF Doc, Docs
  <2>. QED  BY <1>1, <1>5, <2>2, SetUpKeeps DEF Named
<1>6. CASE ReadsBack(c)
  <2>1. SetUp(c, Cached(c)) /\ ~Unusable(Line(c)) /\ PolicyPath(Line(c))[2] = Unset
    BY <1>6 DEF ReadsBack
  <2>2. Cached(c).is # "empty"
    BY <2>1 DEF Unusable, Readable, Cached
  <2>3. Cached(c) \in Docs
    BY <1>1, <1>2, <2>1 DEF Cached, PolicyKey, ApartInv, CommandTyped
  <2>4. Line(c).does = "run" \/ (TargetOf(Line(c)) \in DOMAIN Targets /\ Cached(c) = generated[TargetOf(Line(c))])
    BY <1>2, <2>1 DEF Cached
  <2>. QED  BY <1>1, <2>1, <2>2, <2>3, <2>4, SetUpKeeps
<1>7. CASE Asks(c)
  <2>1. CASE Line(c).does = "plan" /\ Moves(c, "asking")
    <3>1. At(c) = "setup" /\ ~Unusable(Line(c)) /\ Cached(c).is = "absent"
      BY <1>7 DEF Asks, Governs
    <3>2. TargetOf(Line(c)) \in DOMAIN Targets /\ generated[TargetOf(Line(c))].is = "absent"
      BY <1>2, <2>1, <3>1 DEF Cached
    <3>3. "asking" \in Places /\ At(c)' = "asking" /\ Line(c)' = Line(c)
      BY <2>1, MovesIs DEF ApartInv, OthersKept, At, Line, Places
    <3>4. (Cleared(c)' => Cleared(c)) /\ Unruled(c)
      BY <2>1, <3>1, <3>3 DEF Cleared, Unruled
    <3>. QED  BY <1>1, <2>1, <3>1, <3>2, <3>3, <3>4, MoveKeeps DEF Over
  <2>. QED  BY <1>4, <1>7, <2>1 DEF Asks
<1>8. CASE NoPolicy(c)
  BY <1>4, <1>8 DEF NoPolicy
<1>. QED  BY <1>5, <1>6, <1>7, <1>8

LEMMA ApartInit == Init => ApartInv
<1>. SUFFICES ASSUME Init PROVE ApartInv
  OBVIOUS
<1>1. \A c \in Command : command[c] = Waiting
  BY DEF Init
<1>2. Waiting \in CommandRecs /\ Waiting.at = "waiting" /\ Waiting.before = {} /\ Waiting.doc = Nothing
      /\ Waiting.line = [does |-> "nothing"] /\ Nothing.is = "absent"
  BY DEF Waiting, CommandRecs, Places, Names, Docs, Nothing, Doc
<1>3. \A c \in Command : At(c) = "waiting" /\ command[c].doc.is = "absent" /\ command[c].before = {}
                        /\ Line(c).does = "nothing"
  BY <1>1, <1>2 DEF At, Line
<1>4. Doc("generated", "unknown", 0) \in Docs /\ Nothing \in Docs /\ Doc("generated", "unknown", 0).is = "generated"
  BY DEF Docs, Names, Nothing, Doc
<1>5. \A t \in DOMAIN Targets \cup {""} : generated[t] \in Docs /\ generated[t].is \in {"absent", "generated"}
  BY <1>2, <1>4 DEF Init
<1>6. \A t \in DOMAIN Targets : generated[t].is = "absent"
  BY <1>2, CommandAssumption DEF Init, CommandAssumption
<1>7. CommandTyped
  BY <1>1, <1>2, <1>3, <1>5 DEF CommandTyped, Init
<1>8. RunInv
  BY <1>3 DEF RunInv, OneRunPerId, Cleared, Init
<1>9. \A w \in Command : \A t : ~Author(w, t)
  BY <1>3 DEF Author
<1>10. PolicyInv
  BY <1>3, <1>6, <1>9 DEF PolicyInv, RuledLast, Ruled, Written, Standing, AskedBefore, Overlapped
<1>. QED  BY <1>7, <1>8, <1>10 DEF ApartInv

LEMMA ApartAlways == Spec => []ApartInv
<1>1. ApartInv /\ [Next]_vars => ApartInv'
  <2>. SUFFICES ASSUME ApartInv, [Next]_vars PROVE ApartInv'
    OBVIOUS
  <2>1. CASE UNCHANGED vars
    <3>1. command' = command /\ generated' = generated /\ trace' = trace
      BY <2>1 DEF vars
    <3>2. CommandTyped'
      BY <3>1 DEF ApartInv, CommandTyped, At, Line
    <3>3. RunInv'
      BY <3>1 DEF ApartInv, RunInv, OneRunPerId, Cleared, At, Line
    <3>4. RuledLast' /\ Ruled'
      BY <3>1 DEF ApartInv, PolicyInv, RuledLast, Ruled, Unruled, Author, At, Line
    <3>5. Written' /\ Standing'
      BY <3>1 DEF ApartInv, PolicyInv, Written, Standing, Author, Line
    <3>6. AskedBefore' /\ Overlapped'
      BY <3>1 DEF ApartInv, PolicyInv, AskedBefore, Overlapped, Author, At, Line
    <3>. QED  BY <3>2, <3>3, <3>4, <3>5, <3>6 DEF ApartInv, PolicyInv
  <2>2. CASE Next
    <3>1. PICK c \in Command :
            \/ \E line \in Lines : Start(c, line)
            \/ \E admitted \in BOOLEAN : Judge(c, admitted)
            \/ Guard(c) \/ SetupFails(c) \/ Named(c) \/ ReadsBack(c) \/ Asks(c) \/ NoPolicy(c)
            \/ Empties(c) \/ Writes(c) \/ AgentSetUp(c) \/ ReadsDocument(c) \/ Works(c) \/ Ends(c) \/ Killed(c)
      BY <2>2 DEF Next
    <3>. QED  BY <3>1, CommandAssumption, StartKeeps, PlaceMoves, SettlingKeeps, EmptyingKeeps, WritesKeeps,
              ReadsDocumentKeeps, WorksKeeps
  <2>. QED  BY <2>1, <2>2
<1>. QED  BY <1>1, ApartInit, PTL DEF Spec

(* Every reachable state of the commands, the policies and the trace is     *)
(* well typed.                                                              *)
THEOREM CommandTypeCorrect == Spec => []TypeOK
<1>1. ApartInv => TypeOK
  BY DEF ApartInv, CommandTyped, CommandRecs, Docs, TypeOK
<1>. QED  BY <1>1, ApartAlways, PTL

(* An id in a trace names one run of two that did not overlap, and a        *)
(* registry's policy is whole, its own, and everybody's of a time.          *)
THEOREM CommandsKeepApartAlways == Spec => []CommandsKeepApart
<1>1. ApartInv => PolicyStands
  <2>. SUFFICES ASSUME ApartInv PROVE PolicyStands
    OBVIOUS
  <2>1. \A c \in Command : Line(c).does \in {"plan", "go"} => command[c].doc.is # "empty"
    BY DEF ApartInv, PolicyInv, Ruled
  <2>2. \A c \in Command : Line(c).does \in {"plan", "go"} /\ command[c].doc.is = "generated" =>
          /\ command[c].doc.of = command[c].target /\ command[c].target \in DOMAIN Targets
          /\ command[c].doc.by \in Command /\ Author(command[c].doc.by, command[c].target)
    BY DEF ApartInv, PolicyInv, Ruled
  <2>3. ASSUME NEW c \in Command, NEW d \in Command,
               Line(c).does \in {"plan", "go"}, command[c].doc.is = "generated",
               Line(d).does \in {"plan", "go"}, command[d].doc.is = "generated",
               command[c].target = command[d].target
        PROVE  command[c].doc.by \notin command[command[d].doc.by].before
    BY <2>2, <2>3 DEF ApartInv, PolicyInv, Overlapped
  <2>. QED  BY <2>1, <2>2, <2>3 DEF PolicyStands
<1>2. ApartInv => CommandsKeepApart
  BY <1>1 DEF ApartInv, RunInv, CommandsKeepApart
<1>. QED  BY <1>2, ApartAlways, PTL
================================================================================
