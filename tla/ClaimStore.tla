------------------------------ MODULE ClaimStore -------------------------------
(***************************************************************************)
(* grapharc/memory: the claim store, the corrections made in it, and the   *)
(* detection of contradictions, as several agents (threads of a run, or    *)
(* processes on one file) use it.                                          *)
(*                                                                         *)
(* The three backends make each operation one step: a dict under a lock,   *)
(* BEGIN IMMEDIATE, a graph transaction.  `marks` is the column the first  *)
(* two read; `edges` is the SUPERSEDED_BY relation the graph backend keeps *)
(* beside it and answers dead_ends from.                                   *)
(***************************************************************************)
EXTENDS Naturals, FiniteSets, Sequences

CONSTANTS
  Claims,     \* ids of Claim objects
  KeyOf,      \* normalized subject and predicate of each
  ObjectOf,   \* normalized object of each
  Agents,
  None        \* no claim

ASSUME ClaimAssumption ==
  /\ DOMAIN KeyOf = Claims /\ DOMAIN ObjectOf = Claims
  /\ None \notin Claims

VARIABLES
  stored,     \* ids the store has
  marks,      \* superseded_by
  edges,      \* SUPERSEDED_BY of the graph backend
  held,       \* the claim an agent passes to add_and_detect
  place,      \* and how many of its two calls were made
  report,     \* the Contradiction an agent has in hand, copies of two claims
  told,       \* ghost: the disagreements some caller was told of
  reported,   \* ghost: claims whose detection ran
  corrected,  \* ghost: claims superseded at some time
  restored    \* ghost: has a caller put back a dead end?

store == <<stored, marks, edges>>
agent == <<held, place, report>>
ghost == <<told, reported, corrected, restored>>
vars  == <<store, agent, ghost>>

Copy == [id : Claims, by : Claims \cup {None}]

New(c)  == [id |-> c, by |-> None]
Read(c) == [id |-> c, by |-> marks[c]]

Current == {c \in stored : marks[c] = None}

DeadEnds == {c \in stored : \E n \in stored : <<c, n>> \in edges}

Disagree(c, d) == c # d /\ KeyOf[c] = KeyOf[d] /\ ObjectOf[c] # ObjectOf[d]

(* detect_contradictions.                                                   *)
Rivals(c) == {d \in Current : Disagree(c, d)}

(***************************************************************************)
(* The store.                                                              *)
(***************************************************************************)
(* Mutant: superseded_by is not among the columns an upsert sets.           *)
Upsert_Keeps(copy) == marks

(* An upsert writes every column of the copy it is given.                   *)
Upsert(copy) == [marks EXCEPT ![copy.id] = copy.by]

(* Mutant: the claim's old edge is left.                                    *)
Reconcile_Merges(c, there, m) ==
  edges \cup ({<<c, m[c]>>} \cap (there \X there)) \cup {<<d, c>> : d \in {d \in there : m[d] = c}}

(* _reconcile_supersession: the stale edge goes, the edge of either end     *)
(* is made once both ends are there.                                        *)
Reconcile(c, there, m) ==
  {e \in edges : e[1] = c => e[2] = m[c]}
    \cup ({<<c, m[c]>>} \cap (there \X there))
    \cup {<<d, c>> : d \in {d \in there : m[d] = c}}

AddClaim(c) ==
  /\ stored' = stored \cup {c}
  /\ marks' = Upsert(New(c))
  /\ edges' = Reconcile(c, stored', marks')

(* validate_supersede, inside the transaction.                              *)
Supersedable(r) ==
  /\ r.existing.id \in stored /\ marks[r.existing.id] = None
  /\ r.incoming.id # r.existing.id

SupersedeClaim(r) ==
  LET new == r.incoming.id  old == r.existing.id
      there == stored \cup {new}
  IN /\ stored' = there
     /\ marks' = [Upsert(r.incoming) EXCEPT ![old] = new]
     /\ edges' = Reconcile(new, there, Upsert(r.incoming)) \cup {<<old, new>>}

(***************************************************************************)
(* The agents.                                                             *)
(***************************************************************************)
Fresh(c) ==
  c \notin stored /\ \A a \in Agents : held[a] # c /\ (report[a] # None => report[a].incoming.id # c)

Idle(a) == held[a] = None /\ report[a] = None

(* A claim is made, with an id of its own.                                  *)
Observe(a, c) ==
  /\ Idle(a)
  /\ Fresh(c)
  /\ held' = [held EXCEPT ![a] = c]
  /\ place' = [place EXCEPT ![a] = 1]
  /\ UNCHANGED <<store, report, ghost>>

(* The calls of add_and_detect.                                             *)
AddAndDetect == <<"add", "detect">>

After(a) ==
  IF place[a] = Len(AddAndDetect)
  THEN held' = [held EXCEPT ![a] = None] /\ place' = [place EXCEPT ![a] = 0]
  ELSE place' = [place EXCEPT ![a] = @ + 1] /\ UNCHANGED held

Add(a) ==
  /\ held[a] # None /\ AddAndDetect[place[a]] = "add"
  /\ AddClaim(held[a])
  /\ After(a)
  /\ UNCHANGED <<report, ghost>>

(* The caller may act on one of the contradictions, or on none.             *)
Detect(a) ==
  /\ held[a] # None /\ AddAndDetect[place[a]] = "detect"
  /\ told' = told \cup {<<held[a], d>> : d \in Rivals(held[a])}
  /\ reported' = reported \cup {held[a]}
  /\ \/ \E d \in Rivals(held[a]) :
          report' = [report EXCEPT ![a] = [incoming |-> New(held[a]), existing |-> Read(d)]]
     \/ UNCHANGED report
  /\ After(a)
  /\ UNCHANGED <<store, corrected, restored>>

(* unresolved_contradictions: two current claims that disagree, pointed     *)
(* either way.                                                              *)
Scan(a) ==
  /\ Idle(a)
  /\ \E c \in Current : \E d \in Rivals(c) :
       report' = [report EXCEPT ![a] = [incoming |-> Read(c), existing |-> Read(d)]]
  /\ UNCHANGED <<store, held, place, ghost>>

(* A caller that knows what is wrong makes the correction as a new claim.   *)
Correct(a, c) ==
  /\ Idle(a)
  /\ Fresh(c)
  /\ \E d \in Current :
       /\ KeyOf[d] = KeyOf[c]
       /\ report' = [report EXCEPT ![a] = [incoming |-> New(c), existing |-> Read(d)]]
  /\ UNCHANGED <<store, held, place, ghost>>

(* A caller puts a dead end back, with the copy dead_ends() gave it.        *)
PutBack(a) ==
  /\ Idle(a)
  /\ \E c \in DeadEnds : report' =
       [report EXCEPT ![a] = [incoming |-> Read(c), existing |-> Read(marks[c])]]
  /\ restored' = TRUE
  /\ UNCHANGED <<store, held, place, told, reported, corrected>>

(* supersede, or supersede_conflicting: done, or refused.                   *)
Supersede(a) ==
  /\ report[a] # None /\ held[a] = None
  /\ IF Supersedable(report[a])
     THEN /\ SupersedeClaim(report[a])
          /\ corrected' = corrected \cup {report[a].existing.id}
     ELSE UNCHANGED <<store, corrected>>
  /\ report' = [report EXCEPT ![a] = None]
  /\ UNCHANGED <<held, place, told, reported, restored>>

(* The caller leaves the disagreement be, or the database stays busy.       *)
Leave(a) ==
  /\ report[a] # None /\ held[a] = None
  /\ report' = [report EXCEPT ![a] = None]
  /\ UNCHANGED <<store, held, place, ghost>>

Init ==
  /\ stored = {}
  /\ marks = [c \in Claims |-> None]
  /\ edges = {}
  /\ held = [a \in Agents |-> None]
  /\ place = [a \in Agents |-> 0]
  /\ report = [a \in Agents |-> None]
  /\ told = {} /\ reported = {} /\ corrected = {} /\ restored = FALSE

Next ==
  \E a \in Agents :
    \/ \E c \in Claims : Observe(a, c) \/ Correct(a, c)
    \/ Add(a) \/ Detect(a) \/ Scan(a) \/ PutBack(a) \/ Supersede(a) \/ Leave(a)

Spec == Init /\ [][Next]_vars

(***************************************************************************)
(* Properties.                                                             *)
(***************************************************************************)
(* The values the variables range over; what is not stored is not marked.   *)
TypeOK ==
  /\ stored \subseteq Claims
  /\ marks \in [Claims -> Claims \cup {None}]
  /\ \A c \in Claims \ stored : marks[c] = None
  /\ edges \subseteq stored \X stored
  /\ held \in [Agents -> Claims \cup {None}]
  /\ place \in [Agents -> 0..2]
  /\ report \in [Agents -> [incoming : Copy, existing : Copy] \cup {None}]
  /\ told \subseteq Claims \X Claims
  /\ reported \subseteq Claims /\ corrected \subseteq Claims
  /\ restored \in BOOLEAN

(* Following the corrections of a claim leads to one that stands, and it    *)
(* is stored, as long as no caller has put a dead end back: no question the *)
(* store was ever asked goes without an answer.                             *)
ChainsEnd ==
  ~restored => \A S \in SUBSET stored :
    S # {} => \E c \in S : marks[c] \notin S /\ (marks[c] # None => marks[c] \in stored)

(* The graph backend's edges are the other backends' column.                *)
EdgesAgree == edges = {e \in stored \X stored : marks[e[1]] = e[2]}

(* "Including the case where two runs raced and both landed": of two claims *)
(* that disagree and were both checked, one's caller was told of the other, *)
(* unless one was already corrected.                                        *)
RacersAreTold ==
  \A c, d \in reported :
    Disagree(c, d) => <<c, d>> \in told \/ <<d, c>> \in told \/ {c, d} \cap corrected # {}

(* However adds and corrections race: what is corrected leads to a claim    *)
(* that stands, and what is disputed has been told to somebody.             *)
CorrectionsAreSound == ChainsEnd /\ RacersAreTold

(* "A claim that is its own correction [...] There is no coherent reading   *)
(* of that, so it is refused before anything is written."                   *)
NotItsOwnCorrection ==
  ~ \E S \in SUBSET stored : S # {} /\ \A c \in S : marks[c] \in S
=============================================================================
