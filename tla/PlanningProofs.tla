---------------------------- MODULE PlanningProofs -----------------------------
(***************************************************************************)
(* Proofs about the planner's run: GovernedLoop, for any states, goals,    *)
(* limits, budgets and costs (LoopAssumption is what the instances of the  *)
(* module meet), and PlanGate, for any plans, kinds and policies.          *)
(***************************************************************************)
EXTENDS PlanGate, GovernedLoop, FiniteSetTheorems, TLAPS


(***************************************************************************)
(* The inductive invariant.                                                *)
(***************************************************************************)
(* The run is over when there is a reason; no counter is at its limit while *)
(* it goes on; nobody waits but at the gate, and no round has a meter but   *)
(* while it runs.                                                           *)
Shape ==
  /\ pc = "done" <=> stop # "none"
  /\ pc # "done" => /\ streak.rejected < MaxRejections /\ streak.unplanned < MaxUnplanned
                    /\ streak.failed < MaxFailures /\ streak.stalled < MaxStalled
  /\ waited <= meter.seconds /\ (pc # "parked" => waited = 0)
  /\ pc # "running" => sub = NoRound
  /\ confirm => nudged
  /\ pc \in {"judge", "build", "parked", "cleared", "running"} => streak.unplanned = 0

(* A round is begun on tokens the run has, and gets no more than those.     *)
Solvent ==
  /\ pc = "propose" => meter.tokens < MaxTokens
  /\ pc = "running" => /\ sub.maxTokens = Left(MaxTokens, meter.tokens)
                       /\ sub.maxIterations = Left(MaxIterations, meter.iterations)

(* The gate's yes is this round's.                                          *)
Cleared == pc \in {"cleared", "running"} => (mode.gate => answer = "approved")

(* A goal that is met ends the run.                                         *)
Wanting == pc \notin {"precheck", "done"} => ~GoalMet(current)

UnusableRow(ends, n) == InARow(ends, n, {"unusable"}, Ends \ {"unusable"})
FailedRow(ends, n)   == InARow(ends, n, {"unbuilt", "raised"}, {"stalled", "progressed"})
RefusedRow(ends, n)  == InARow(ends, n, {"rejected"}, Ends \ {"rejected", "unusable"})
StalledRow(ends, n)  == InARow(ends, n, {"stalled"}, {"progressed"})

(* The counters count what the records say, and what was admitted forgets   *)
(* the refusals before it.                                                  *)
Counted ==
  pc # "done" => /\ UnusableRow(records, streak.unplanned)
                 /\ FailedRow(records, streak.failed)
                 /\ StalledRow(records, streak.stalled)
                 /\ RefusedRow(records, streak.rejected)
                 /\ pc \in {"build", "parked", "cleared", "running"} => streak.rejected = 0

IInv ==
  /\ TypeOK /\ Shape /\ Solvent /\ PoolIsShared
  /\ Cleared /\ OnlyApprovedRuns /\ HaltIsHonoured
  /\ Wanting /\ Counted /\ StopIsTrue

(***************************************************************************)
(* Records.                                                                *)
(***************************************************************************)
LEMMA InARowGrows ==
  ASSUME NEW ends \in Seq(Ends), NEW how \in Ends, NEW n \in Nat, NEW kinds, NEW breaks,
         InARow(ends, n, kinds, breaks), how \notin breaks
  PROVE  /\ InARow(Append(ends, how), n, kinds, breaks)
         /\ how \in kinds => InARow(Append(ends, how), n + 1, kinds, breaks)
<1>. DEFINE new == Append(ends, how)
            last == Len(ends) + 1
            In(seq, first) == {i \in first..Len(seq) : seq[i] \in kinds}
<1>1. PICK first \in 1..last : /\ \A i \in first..Len(ends) : ends[i] \notin breaks
                               /\ Cardinality(In(ends, first)) >= n
  BY DEF InARow
<1>2. /\ Len(ends) \in Nat /\ Len(new) = last /\ new[last] = how
      /\ \A i \in 1..Len(ends) : new[i] = ends[i]
  OBVIOUS
<1>3. \A i \in first..last : new[i] \notin breaks
  BY <1>1, <1>2
<1>4. IsFiniteSet(In(ends, first)) /\ last \notin In(ends, first)
  <2>1. IsFiniteSet(first..Len(ends)) /\ In(ends, first) \subseteq first..Len(ends)
    BY <1>2, FS_Interval
  <2>. QED  BY <1>2, <2>1, FS_Subset
<1>5. Cardinality(In(ends, first)) \in Nat
  BY <1>4, FS_CardinalityType
<1>6. CASE how \in kinds
  <2>1. In(new, first) = In(ends, first) \cup {last}
    BY <1>1, <1>2, <1>6
  <2>2. Cardinality(In(new, first)) = Cardinality(In(ends, first)) + 1
    BY <1>4, <2>1, FS_AddElement
  <2>. HIDE DEF In
  <2>3. Cardinality(In(new, first)) >= n + 1 /\ Cardinality(In(new, first)) >= n
    BY <1>1, <1>5, <2>2
  <2>4. first \in 1..Len(new) + 1
    BY <1>1, <1>2
  <2>. QED  BY <1>2, <1>3, <2>3, <2>4 DEF InARow, In
<1>7. CASE how \notin kinds
  <2>1. In(new, first) = In(ends, first)
    BY <1>1, <1>2, <1>7
  <2>2. first \in 1..Len(new) + 1 /\ Cardinality(In(new, first)) >= n
    <3>1. Cardinality(In(new, first)) >= n
      BY <1>1, <2>1, Zenon
    <3>. HIDE DEF In
    <3>. QED  BY <1>1, <1>2, <3>1
  <2>. QED  BY <1>2, <1>3, <1>7, <2>2 DEF InARow
<1>. QED  BY <1>6, <1>7

LEMMA InARowStarts ==
  ASSUME NEW ends \in Seq(Ends), NEW kinds, NEW breaks
  PROVE  InARow(ends, 0, kinds, breaks)
<1>. DEFINE first == Len(ends) + 1
            S == {i \in first..Len(ends) : ends[i] \in kinds}
<1>1. first \in 1..Len(ends) + 1 /\ first..Len(ends) = {} /\ S = {}
  OBVIOUS
<1>2. Cardinality(S) = 0
  BY <1>1, FS_EmptySet
<1>3. \A i \in first..Len(ends) : ends[i] \notin breaks
  BY <1>1
<1>4. Cardinality(S) >= 0
  BY <1>2
<1>. HIDE DEF first
<1>. QED  BY <1>1, <1>3, <1>4 DEF InARow

(***************************************************************************)
(* Counters and meters.                                                    *)
(***************************************************************************)
LEMMA LimitsAre ==
  ASSUME LoopAssumption
  PROVE  /\ MaxRounds \in Nat \ {0} /\ MaxRejections \in Nat \ {0} /\ MaxUnplanned \in Nat \ {0}
         /\ MaxFailures \in Nat \ {0} /\ MaxStalled \in Nat \ {0}
         /\ MaxTokens \in Nat /\ MaxIterations \in Nat /\ MaxSeconds \in Nat /\ MaxClock \in Nat
BY DEF LoopAssumption

LEMMA CountersAre ==
  ASSUME streak \in Counters
  PROVE  /\ streak.rejected \in 0..MaxRejections /\ streak.unplanned \in 0..MaxUnplanned
         /\ streak.failed \in 0..MaxFailures /\ streak.stalled \in 0..MaxStalled
BY DEF Counters

LEMMA RejectedIs ==
  ASSUME streak \in Counters, NEW n \in 0..MaxRejections, streak' = [streak EXCEPT !.rejected = n]
  PROVE  /\ streak' \in Counters /\ streak'.rejected = n /\ streak'.unplanned = streak.unplanned
         /\ streak'.failed = streak.failed /\ streak'.stalled = streak.stalled
BY DEF Counters

LEMMA UnplannedIs ==
  ASSUME streak \in Counters, NEW n \in 0..MaxUnplanned, streak' = [streak EXCEPT !.unplanned = n]
  PROVE  /\ streak' \in Counters /\ streak'.unplanned = n /\ streak'.rejected = streak.rejected
         /\ streak'.failed = streak.failed /\ streak'.stalled = streak.stalled
BY DEF Counters

LEMMA FailedIs ==
  ASSUME streak \in Counters, NEW n \in 0..MaxFailures, streak' = [streak EXCEPT !.failed = n]
  PROVE  /\ streak' \in Counters /\ streak'.failed = n /\ streak'.rejected = streak.rejected
         /\ streak'.unplanned = streak.unplanned /\ streak'.stalled = streak.stalled
BY DEF Counters

LEMMA StalledIs ==
  ASSUME streak \in Counters, NEW n \in 0..MaxStalled, 
         streak' = [streak EXCEPT !.failed = 0, !.stalled = n], LoopAssumption
  PROVE  /\ streak' \in Counters /\ streak'.stalled = n /\ streak'.failed = 0
         /\ streak'.rejected = streak.rejected /\ streak'.unplanned = streak.unplanned
<1>1. 0 \in 0..MaxFailures
  BY LimitsAre
<1>. QED  BY <1>1 DEF Counters

LEMMA MetersAre ==
  ASSUME TypeOK
  PROVE  /\ meter.tokens \in Nat /\ meter.iterations \in Nat /\ meter.seconds \in Nat
         /\ sub.tokens \in Nat /\ sub.iterations \in Nat
         /\ sub.maxTokens \in Nat /\ sub.maxIterations \in Nat
BY DEF TypeOK, Meter, RoundMeter

LEMMA ChargeIs ==
  ASSUME meter \in Meter, NEW t \in Nat, ChargeTokens(t)
  PROVE  /\ meter' \in Meter /\ meter'.tokens = meter.tokens + t
         /\ meter'.iterations = meter.iterations /\ meter'.seconds = meter.seconds
BY DEF Meter, ChargeTokens

LEMMA ChargeBackIs ==
  ASSUME meter \in Meter, sub \in RoundMeter, ChargeBack, Spent
  PROVE  /\ meter' \in Meter /\ meter'.tokens = meter.tokens + sub.tokens
         /\ meter'.iterations = meter.iterations + sub.iterations
         /\ meter'.seconds = meter.seconds
         /\ sub' = NoRound
<1>1. sub.tokens \in Nat /\ sub.iterations \in Nat
  BY DEF RoundMeter
<1>. DEFINE a == meter.tokens + sub.tokens
            b == meter.iterations + sub.iterations
<1>2. meter' = [meter EXCEPT !.tokens = a, !.iterations = b]
  BY DEF ChargeBack
<1>3. a \in Nat /\ b \in Nat
  BY <1>1 DEF Meter
<1>. HIDE DEF a, b
<1>4. meter' \in Meter /\ meter'.tokens = a /\ meter'.iterations = b /\ meter'.seconds = meter.seconds
  BY <1>2, <1>3 DEF Meter
<1>. QED  BY <1>4 DEF a, b, Spent

LEMMA SecondsAre ==
  ASSUME meter \in Meter, NEW n \in Nat, meter' = [meter EXCEPT !.seconds = n]
  PROVE  /\ meter' \in Meter /\ meter'.seconds = n
         /\ meter'.tokens = meter.tokens /\ meter'.iterations = meter.iterations
BY DEF Meter

LEMMA RoundMetersAre ==
  ASSUME LoopAssumption, meter \in Meter
  PROVE  /\ NoRound \in RoundMeter /\ NoRound.tokens = 0 /\ NoRound.iterations = 0
         /\ RoundBudget \in RoundMeter /\ RoundBudget.tokens = 0 /\ RoundBudget.iterations = 0
         /\ RoundBudget.maxTokens = Left(MaxTokens, meter.tokens)
         /\ RoundBudget.maxIterations = Left(MaxIterations, meter.iterations)
<1>1. MaxTokens \in Nat /\ MaxIterations \in Nat
  BY LimitsAre
<1>2. Left(MaxTokens, meter.tokens) \in Nat /\ Left(MaxIterations, meter.iterations) \in Nat
  BY <1>1 DEF Meter, Left
<1>. QED  BY <1>2 DEF NoRound, RoundBudget, RoundMeter

LEMMA NodeIs ==
  ASSUME sub \in RoundMeter, NEW t \in Nat,
         sub' = [sub EXCEPT !.tokens = @ + t, !.iterations = @ + 1]
  PROVE  /\ sub' \in RoundMeter
         /\ sub'.tokens = sub.tokens + t /\ sub'.iterations = sub.iterations + 1
         /\ sub'.maxTokens = sub.maxTokens /\ sub'.maxIterations = sub.maxIterations
<1>. DEFINE a == sub.tokens + t
            b == sub.iterations + 1
<1>1. sub' = [sub EXCEPT !.tokens = a, !.iterations = b] /\ a \in Nat /\ b \in Nat
  BY DEF RoundMeter
<1>. HIDE DEF a, b
<1>2. /\ sub' \in RoundMeter /\ sub'.tokens = a /\ sub'.iterations = b
      /\ sub'.maxTokens = sub.maxTokens /\ sub'.maxIterations = sub.maxIterations
  BY <1>1 DEF RoundMeter
<1>. QED  BY <1>2 DEF a, b

LEMMA CloseIs ==
  ASSUME records \in Seq(Ends), NEW how \in Ends, Close(how)
  PROVE  records' \in Seq(Ends)
BY DEF Close

(***************************************************************************)
(* Types and shape.                                                        *)
(***************************************************************************)
LEMMA BoundariesKeepShape ==
  ASSUME LoopAssumption, TypeOK, Shape, Precheck \/ Boundary
  PROVE  TypeOK' /\ Shape'
<1>1. /\ pc \in {"precheck", "boundary"} /\ pc' \in {"boundary", "propose", "done"}
      /\ stop' \in Reasons /\ round' \in 0..MaxRounds
      /\ pc' = "done" <=> stop' # "none"
      /\ UNCHANGED <<meter, records, Planning, Execution, Surround>>
  <2>1. CASE Precheck
    BY <2>1 DEF Precheck, At, Stop, Replan, TypeOK, Shape, Reasons
  <2>2. CASE Boundary
    BY <2>2, LimitsAre DEF Boundary, At, Stop, TypeOK, Shape, Reasons
  <2>. QED  BY <2>1, <2>2
<1>. QED  BY <1>1 DEF TypeOK, Shape, Planning, Execution, Surround, Places

LEMMA PlanKeepsShape ==
  ASSUME LoopAssumption, TypeOK, Shape, Plan
  PROVE  TypeOK' /\ Shape'
<1>. USE DEF At, Stop, Replan, Planning, Execution, Surround
<1>1. /\ Costs \subseteq Nat /\ meter \in Meter /\ streak \in Counters /\ records \in Seq(Ends)
      /\ {"exhausted", "unreachable", "unusable"} \subseteq Ends
      /\ \A t \in Costs : t \in Nat
  BY DEF TypeOK, Ends, LoopAssumption
<1>2. ASSUME NEW t \in Costs, PlannerExhausted(t) PROVE TypeOK' /\ Shape'
  <2>1. meter' \in Meter /\ meter'.seconds = meter.seconds /\ records' \in Seq(Ends)
    BY <1>1, <1>2, ChargeIs, CloseIs DEF PlannerExhausted
  <2>. QED  BY <1>2, <2>1 DEF PlannerExhausted, TypeOK, Shape, Reasons, Places
<1>3. CASE PlannerUnreachable
  <2>1. records' \in Seq(Ends)
    BY <1>1, <1>3, CloseIs DEF PlannerUnreachable
  <2>. QED  BY <1>3, <2>1 DEF PlannerUnreachable, TypeOK, Shape, Reasons, Places
<1>4. ASSUME NEW t \in Costs, PlannerUnusable(t) PROVE TypeOK' /\ Shape'
  <2>1. meter' \in Meter /\ meter'.seconds = meter.seconds /\ records' \in Seq(Ends)
    BY <1>1, <1>4, ChargeIs, CloseIs DEF PlannerUnusable
  <2>2. CASE confirm
    BY <1>4, <2>1, <2>2 DEF PlannerUnusable, TypeOK, Shape, Reasons, Places
  <2>3. CASE ~confirm
    <3>. DEFINE n == streak.unplanned + 1
    <3>1. n \in 0..MaxUnplanned /\ streak' = [streak EXCEPT !.unplanned = n]
      <4>1. streak.unplanned < MaxUnplanned
        BY <1>4 DEF PlannerUnusable, Shape
      <4>2. streak.unplanned \in Nat /\ MaxUnplanned \in Nat
        BY <1>1, CountersAre, LimitsAre
      <4>3. n \in 0..MaxUnplanned
        BY <4>1, <4>2
      <4>. QED  BY <1>4, <2>3, <4>3 DEF PlannerUnusable
    <3>. HIDE DEF n
    <3>2. /\ streak' \in Counters /\ streak'.unplanned = n /\ streak'.rejected = streak.rejected
          /\ streak'.failed = streak.failed /\ streak'.stalled = streak.stalled
      BY <1>1, <3>1, UnplannedIs
    <3>3. /\ pc' \in {"done", "boundary"} /\ stop' \in Reasons /\ (pc' = "done" <=> stop' # "none")
          /\ pc' # "done" => streak'.unplanned < MaxUnplanned
      BY <1>4, <2>3, <3>1, <3>2, LimitsAre DEF PlannerUnusable, Shape, TypeOK, Reasons
    <3>. QED  BY <1>4, <2>1, <3>2, <3>3 DEF PlannerUnusable, TypeOK, Shape, Places
  <2>. QED  BY <2>2, <2>3
<1>5. ASSUME NEW t \in Costs, NEW work \in {"empty", "work"}, PlannerProposes(t, work)
      PROVE  TypeOK' /\ Shape'
  <2>1. meter' \in Meter /\ meter'.seconds = meter.seconds
    BY <1>1, <1>5, ChargeIs DEF PlannerProposes
  <2>2. 0 \in 0..MaxUnplanned /\ streak' = [streak EXCEPT !.unplanned = 0]
    BY <1>5, LimitsAre DEF PlannerProposes
  <2>3. /\ streak' \in Counters /\ streak'.unplanned = 0 /\ streak'.rejected = streak.rejected
        /\ streak'.failed = streak.failed /\ streak'.stalled = streak.stalled
    BY <1>1, <2>2, UnplannedIs
  <2>4. TypeOK'
    BY <1>5, <2>1, <2>3 DEF PlannerProposes, TypeOK, Places
  <2>5. Shape'
    <3>1. /\ pc = "propose" /\ pc' = "judge" /\ stop' = stop /\ confirm' = FALSE
          /\ waited' = waited /\ sub' = sub
      BY <1>5 DEF PlannerProposes
    <3>2. confirm' => nudged'
      BY <3>1
    <3>3. /\ streak.rejected < MaxRejections /\ streak.failed < MaxFailures
          /\ streak.stalled < MaxStalled /\ 0 < MaxUnplanned
      BY <3>1, LimitsAre DEF Shape
    <3>. QED  BY <2>1, <2>3, <3>1, <3>2, <3>3 DEF Shape
  <2>. QED  BY <2>4, <2>5
<1>. QED  BY <1>2, <1>3, <1>4, <1>5 DEF Plan

LEMMA JudgeKeepsShape ==
  ASSUME LoopAssumption, TypeOK, Shape, Judge
  PROVE  TypeOK' /\ Shape'
<1>. USE DEF At, Stop, Replan, Planning, Execution, Surround
<1>1. /\ streak \in Counters /\ records \in Seq(Ends) /\ {"rejected", "empty", "spent"} \subseteq Ends
      /\ pc = "judge" /\ streak.rejected < MaxRejections /\ streak.failed < MaxFailures
      /\ streak.stalled < MaxStalled /\ streak.unplanned = 0 /\ 0 < MaxUnplanned /\ 0 < MaxRejections
  BY LimitsAre DEF Judge, Reject, AdmitEmpty, AdmitWork, TypeOK, Shape, Ends
<1>2. CASE Reject
  <2>. DEFINE n == streak.rejected + 1
  <2>1. n \in 0..MaxRejections /\ streak' = [streak EXCEPT !.rejected = n]
    <3>1. streak.rejected \in Nat /\ MaxRejections \in Nat
      BY <1>1, CountersAre, LimitsAre
    <3>2. n \in 0..MaxRejections
      BY <1>1, <3>1
    <3>. QED  BY <1>2, <3>2 DEF Reject
  <2>. HIDE DEF n
  <2>2. /\ streak' \in Counters /\ streak'.rejected = n /\ streak'.unplanned = streak.unplanned
        /\ streak'.failed = streak.failed /\ streak'.stalled = streak.stalled
    BY <1>1, <2>1, RejectedIs
  <2>3. records' \in Seq(Ends)
    BY <1>1, <1>2, CloseIs DEF Reject
  <2>4. /\ pc' \in {"done", "boundary"} /\ stop' \in Reasons /\ (pc' = "done" <=> stop' # "none")
        /\ pc' # "done" => streak'.rejected < MaxRejections
    BY <1>1, <1>2, <2>1, <2>2, LimitsAre DEF Reject, Shape, TypeOK, Reasons
  <2>. QED  BY <1>1, <1>2, <2>2, <2>3, <2>4 DEF Reject, TypeOK, Shape, Places
<1>3. CASE AdmitEmpty \/ AdmitWork
  <2>1. 0 \in 0..MaxRejections /\ streak' = [streak EXCEPT !.rejected = 0]
    BY <1>3, LimitsAre DEF AdmitEmpty, AdmitWork
  <2>2. /\ streak' \in Counters /\ streak'.rejected = 0 /\ streak'.unplanned = streak.unplanned
        /\ streak'.failed = streak.failed /\ streak'.stalled = streak.stalled
    BY <1>1, <2>1, RejectedIs
  <2>3. CASE AdmitEmpty
    <3>1. records' \in Seq(Ends)
      BY <1>1, <2>3, CloseIs DEF AdmitEmpty
    <3>2. /\ pc' \in {"done", "boundary"} /\ stop' \in Reasons /\ (pc' = "done" <=> stop' # "none")
          /\ nudged' \in BOOLEAN /\ confirm' \in BOOLEAN /\ (confirm' => nudged')
      BY <1>1, <2>3 DEF AdmitEmpty, Shape, TypeOK, Reasons
    <3>3. UNCHANGED <<mode, halted, haltedIn, round, meter, reply, current, waited, sub, answer>>
      BY <2>3 DEF AdmitEmpty
    <3>4. TypeOK'
      BY <2>2, <3>1, <3>2, <3>3 DEF TypeOK, Places
    <3>5. Shape'
      BY <1>1, <2>2, <3>2, <3>3 DEF Shape
    <3>. QED  BY <3>4, <3>5
  <2>4. CASE AdmitWork
    <3>1. records' \in Seq(Ends)
      BY <1>1, <2>4, CloseIs DEF AdmitWork
    <3>2. pc' \in {"done", "build"} /\ stop' \in Reasons /\ (pc' = "done" <=> stop' # "none")
      BY <1>1, <2>4 DEF AdmitWork, Shape, TypeOK, Reasons
    <3>. QED  BY <1>1, <2>2, <2>4, <3>1, <3>2 DEF AdmitWork, TypeOK, Shape, Places
  <2>. QED  BY <1>3, <2>3, <2>4
<1>. QED  BY <1>2, <1>3 DEF Judge

LEMMA FailedRoundIs ==
  ASSUME LoopAssumption, TypeOK, Shape, pc \in {"build", "running"},
         NEW how \in {"unbuilt", "raised"}, Failed(how)
  PROVE  /\ streak' \in Counters /\ streak'.failed = streak.failed + 1
         /\ streak'.rejected = streak.rejected /\ streak'.unplanned = streak.unplanned
         /\ streak'.stalled = streak.stalled
         /\ records' = Append(records, how) /\ records' \in Seq(Ends)
         /\ \/ pc' = "done" /\ stop' = "execution_failed" /\ streak'.failed >= MaxFailures
            \/ pc' = "boundary" /\ stop' = "none" /\ streak'.failed < MaxFailures
<1>. DEFINE n == streak.failed + 1
<1>1. n \in 0..MaxFailures /\ streak \in Counters
  <2>1. streak \in Counters /\ streak.failed < MaxFailures
    BY DEF TypeOK, Shape
  <2>. QED  BY <2>1, CountersAre, LimitsAre
<1>2. streak' = [streak EXCEPT !.failed = n]
  BY DEF Failed
<1>. HIDE DEF n
<1>3. /\ streak' \in Counters /\ streak'.failed = n /\ streak'.rejected = streak.rejected
      /\ streak'.unplanned = streak.unplanned /\ streak'.stalled = streak.stalled
  BY <1>1, <1>2, FailedIs
<1>4. how \in Ends /\ records \in Seq(Ends)
  BY DEF TypeOK, Ends
<1>5. records' = Append(records, how) /\ records' \in Seq(Ends)
  BY <1>4, CloseIs DEF Failed, Close
<1>6. \/ pc' = "done" /\ stop' = "execution_failed" /\ streak'.failed >= MaxFailures
      \/ pc' = "boundary" /\ stop' = "none" /\ streak'.failed < MaxFailures
  BY <1>1, <1>3, LimitsAre DEF Failed, Stop, Replan, Shape
<1>. QED  BY <1>3, <1>5, <1>6 DEF n

LEMMA GateKeepsShape ==
  ASSUME LoopAssumption, TypeOK, Shape,
         Unbuilt \/ Built \/ (\E given \in Answers : GateReturns(given)) \/ Planned \/ Invoke
  PROVE  TypeOK' /\ Shape'
<1>. USE DEF At, Stop, Planning, Execution, Surround
<1>1. /\ records \in Seq(Ends) /\ meter \in Meter
      /\ {"unbuilt", "halted", "unapproved", "planned"} \subseteq Ends
  BY DEF TypeOK, Ends
<1>2. CASE Unbuilt
  <2>1. /\ streak' \in Counters /\ records' \in Seq(Ends)
        /\ streak'.rejected = streak.rejected /\ streak'.unplanned = streak.unplanned
        /\ streak'.stalled = streak.stalled
        /\ \/ pc' = "done" /\ stop' = "execution_failed"
           \/ pc' = "boundary" /\ stop' = "none" /\ streak'.failed < MaxFailures
    BY <1>2, FailedRoundIs DEF Unbuilt
  <2>. QED  BY <1>2, <2>1 DEF Unbuilt, TypeOK, Shape, Places, Reasons
<1>3. CASE Built
  BY <1>3 DEF Built, TypeOK, Shape, Places
<1>4. ASSUME NEW given \in Answers, GateReturns(given) PROVE TypeOK' /\ Shape'
  <2>. DEFINE n == meter.seconds - waited
  <2>1. n \in Nat /\ meter' = [meter EXCEPT !.seconds = n]
    <3>1. n \in Nat
      BY MetersAre DEF TypeOK, Shape
    <3>. QED  BY <1>4, <3>1 DEF GateReturns, Credit
  <2>. HIDE DEF n
  <2>2. meter' \in Meter /\ meter'.seconds = n
    BY <1>1, <2>1, SecondsAre
  <2>3. /\ pc = "parked" /\ records' \in Seq(Ends) /\ stop' \in Reasons
        /\ pc' \in {"done", "cleared"} /\ (pc' = "done" <=> stop' # "none")
    BY <1>1, <1>4, CloseIs DEF GateReturns, TypeOK, Shape, Reasons
  <2>4. waited' = 0 /\ answer' = given /\ UNCHANGED <<round, current, sub, streak, nudged, confirm, reply,
                                     mode, halted, haltedIn>>
    BY <1>4 DEF GateReturns
  <2>5. TypeOK'
    BY <2>2, <2>3, <2>4 DEF TypeOK, Places
  <2>6. Shape'
    BY <2>1, <2>2, <2>3, <2>4 DEF Shape
  <2>. QED  BY <2>5, <2>6
<1>5. CASE Planned
  <2>1. records' \in Seq(Ends)
    BY <1>1, <1>5, CloseIs DEF Planned
  <2>. QED  BY <1>5, <2>1 DEF Planned, TypeOK, Shape, Places, Reasons
<1>6. CASE Invoke
  <2>1. sub' \in RoundMeter
    BY <1>1, <1>6, RoundMetersAre DEF Invoke
  <2>. QED  BY <1>6, <2>1 DEF Invoke, TypeOK, Shape, Places
<1>. QED  BY <1>2, <1>3, <1>4, <1>5, <1>6

LEMMA RoundKeepsShape ==
  ASSUME LoopAssumption, TypeOK, Shape,
         \/ \E t \in Costs : RunNode(t)
         \/ RunExhausted \/ RunRaises
         \/ \E s \in World : RunExecuted(s)
  PROVE  TypeOK' /\ Shape'
<1>. USE DEF At, Stop, Replan, Planning, Execution, Surround
<1>1. /\ records \in Seq(Ends) /\ meter \in Meter /\ sub \in RoundMeter /\ streak \in Counters
      /\ {"exhausted", "raised", "stalled", "progressed"} \subseteq Ends /\ Costs \subseteq Nat
      /\ NoRound \in RoundMeter
  BY RoundMetersAre DEF TypeOK, Ends, LoopAssumption
<1>2. ASSUME NEW t \in Costs, RunNode(t) PROVE TypeOK' /\ Shape'
  <2>1. sub' \in RoundMeter
    BY <1>1, <1>2, NodeIs DEF RunNode
  <2>. QED  BY <1>2, <2>1 DEF RunNode, TypeOK, Shape
<1>3. CASE RunExhausted
  <2>1. meter' \in Meter /\ meter'.seconds = meter.seconds /\ sub' = NoRound /\ records' \in Seq(Ends)
    BY <1>1, <1>3, ChargeBackIs, CloseIs DEF RunExhausted
  <2>. QED  BY <1>1, <1>3, <2>1 DEF RunExhausted, TypeOK, Shape, Places, Reasons
<1>4. CASE RunRaises
  <2>1. meter' \in Meter /\ meter'.seconds = meter.seconds /\ sub' = NoRound
    BY <1>1, <1>4, ChargeBackIs DEF RunRaises
  <2>2. /\ streak' \in Counters /\ records' \in Seq(Ends)
        /\ streak'.rejected = streak.rejected /\ streak'.unplanned = streak.unplanned
        /\ streak'.stalled = streak.stalled
        /\ \/ pc' = "done" /\ stop' = "execution_failed"
           \/ pc' = "boundary" /\ stop' = "none" /\ streak'.failed < MaxFailures
    BY <1>4, FailedRoundIs DEF RunRaises
  <2>. QED  BY <1>1, <1>4, <2>1, <2>2 DEF RunRaises, TypeOK, Shape, Places, Reasons
<1>5. ASSUME NEW s \in World, RunExecuted(s) PROVE TypeOK' /\ Shape'
  <2>. DEFINE n == Stalled(s # current)
  <2>1. n \in 0..MaxStalled /\ streak' = [streak EXCEPT !.failed = 0, !.stalled = n]
    <3>1. streak.stalled < MaxStalled
      BY <1>5 DEF RunExecuted, Shape
    <3>2. streak.stalled \in Nat /\ MaxStalled \in Nat
      BY <1>1, CountersAre, LimitsAre
    <3>3. n \in 0..MaxStalled
      BY <3>1, <3>2 DEF Stalled
    <3>. QED  BY <1>5, <3>3 DEF RunExecuted
  <2>. HIDE DEF n
  <2>2. /\ streak' \in Counters /\ streak'.stalled = n /\ streak'.failed = 0
        /\ streak'.rejected = streak.rejected /\ streak'.unplanned = streak.unplanned
    BY <1>1, <2>1, StalledIs
  <2>3. meter' \in Meter /\ meter'.seconds = meter.seconds /\ sub' = NoRound
    BY <1>1, <1>5, ChargeBackIs DEF RunExecuted
  <2>4. records' \in Seq(Ends)
    BY <1>1, <1>5, CloseIs DEF RunExecuted
  <2>5. /\ pc' \in {"done", "boundary"} /\ stop' \in Reasons /\ (pc' = "done" <=> stop' # "none")
        /\ pc' # "done" => streak'.stalled < MaxStalled
    <3>1. stop = "none"
      BY <1>5 DEF RunExecuted, Shape
    <3>2. \/ pc' = "done" /\ stop' = "goal_met"
          \/ pc' = "done" /\ stop' = "no_progress"
          \/ pc' = "boundary" /\ stop' = "none" /\ streak'.stalled < MaxStalled
      <4>1. CASE GoalMet(s)
        BY <1>5, <4>1 DEF RunExecuted
      <4>2. CASE ~GoalMet(s)
        <5>1. streak'.stalled >= MaxStalled \/ streak'.stalled < MaxStalled
          BY <2>1, <2>2, LimitsAre
        <5>. QED  BY <1>5, <3>1, <4>2, <5>1 DEF RunExecuted
      <4>. QED  BY <4>1, <4>2
    <3>. QED  BY <3>2 DEF Reasons
  <2>6. /\ pc = "running" /\ current' = s
        /\ UNCHANGED <<round, waited, answer, nudged, confirm, reply, mode, halted, haltedIn>>
    BY <1>5 DEF RunExecuted
  <2>7. TypeOK'
    BY <1>1, <2>2, <2>3, <2>4, <2>5, <2>6 DEF TypeOK, Places
  <2>8. Shape'
    BY <2>2, <2>3, <2>5, <2>6, LimitsAre DEF Shape
  <2>. QED  BY <2>7, <2>8
<1>. QED  BY <1>2, <1>3, <1>4, <1>5

LEMMA ShapeNext ==
  ASSUME LoopAssumption, TypeOK, Shape, [LoopNext]_loopVars
  PROVE  TypeOK' /\ Shape'
<1>1. CASE RequestHalt
  BY <1>1 DEF RequestHalt, At, Planning, Execution, TypeOK, Shape
<1>2. CASE Tick
  <2>. DEFINE n == meter.seconds + 1
  <2>1. n \in Nat /\ meter' = [meter EXCEPT !.seconds = n] /\ meter \in Meter
    BY <1>2, MetersAre DEF Tick, TypeOK
  <2>. HIDE DEF n
  <2>2. meter' \in Meter /\ meter'.seconds = n
    BY <2>1, SecondsAre
  <2>3. waited' \in Nat /\ waited' <= meter'.seconds /\ (pc # "parked" => waited' = 0)
    BY <1>2, <2>2, MetersAre DEF Tick, At, TypeOK, Shape, n
  <2>. QED  BY <1>2, <2>2, <2>3 DEF Tick, Planning, Surround, TypeOK, Shape
<1>3. CASE UNCHANGED loopVars
  BY <1>3 DEF loopVars, TypeOK, Shape
<1>. QED
  BY <1>1, <1>2, <1>3, BoundariesKeepShape, PlanKeepsShape, JudgeKeepsShape, GateKeepsShape, RoundKeepsShape
     DEF LoopNext, Loop, Execute

(***************************************************************************)
(* The pool.                                                               *)
(***************************************************************************)
LEMMA PoolNext ==
  ASSUME LoopAssumption, TypeOK, Shape, Solvent, PoolIsShared, TypeOK', [LoopNext]_loopVars
  PROVE  Solvent' /\ PoolIsShared'
<1>. DEFINE Same == /\ meter'.tokens = meter.tokens /\ meter'.iterations = meter.iterations
                    /\ sub' = sub
            Elsewhere == pc' = pc \/ pc' \notin {"propose", "running"}
            Moved == /\ meter'.tokens = meter.tokens + sub.tokens
                     /\ meter'.iterations = meter.iterations + sub.iterations
                     /\ sub'.tokens = 0 /\ sub'.iterations = 0
<1>. USE DEF At, Stop, Replan, Planning, Execution, Surround
<1>1. /\ meter \in Meter /\ sub \in RoundMeter /\ MaxTokens \in Nat /\ MaxIterations \in Nat
      /\ \A t \in Costs : t \in Nat
      /\ NoRound.tokens = 0 /\ NoRound.iterations = 0
  BY RoundMetersAre, LimitsAre DEF TypeOK, LoopAssumption
<1>2. ASSUME Same, Elsewhere PROVE Solvent' /\ PoolIsShared'
  BY <1>2 DEF Solvent, PoolIsShared
<1>3. CASE Precheck \/ PlannerUnreachable \/ Reject \/ AdmitEmpty \/ AdmitWork \/ Unbuilt \/ Built
           \/ Planned \/ RequestHalt \/ UNCHANGED loopVars
  <2>1. Same
    BY <1>3 DEF Precheck, PlannerUnreachable, Reject, AdmitEmpty, AdmitWork, Unbuilt, Built, Planned,
                RequestHalt, loopVars
  <2>2. Elsewhere
    BY <1>3 DEF Precheck, PlannerUnreachable, Reject, AdmitEmpty, AdmitWork, Unbuilt, Built, Planned,
                RequestHalt, loopVars, Failed
  <2>. QED  BY <1>2, <2>1, <2>2
<1>4. CASE Boundary
  <2>1. Same /\ pc' # "running"
    BY <1>4 DEF Boundary
  <2>2. pc' = "propose" => meter'.tokens < MaxTokens
    <3>1. CASE Exceeded
      <4>1. round >= MaxRounds \/ round < MaxRounds
        BY LimitsAre DEF TypeOK
      <4>. QED  BY <1>4, <3>1, <4>1 DEF Boundary
    <3>2. CASE ~Exceeded
      BY <1>1, <2>1, <3>2, MetersAre DEF Exceeded
    <3>. QED  BY <3>1, <3>2
  <2>. QED  BY <2>1, <2>2 DEF Solvent, PoolIsShared
<1>5. ASSUME NEW t \in Costs,
             \/ PlannerExhausted(t) \/ PlannerUnusable(t)
             \/ PlannerProposes(t, "empty") \/ PlannerProposes(t, "work")
      PROVE  Solvent' /\ PoolIsShared'
  <2>1. ChargeTokens(t) /\ sub' = sub /\ pc = "propose" /\ pc' \notin {"propose", "running"}
    BY <1>5 DEF PlannerExhausted, PlannerUnusable, PlannerProposes
  <2>2. meter'.tokens = meter.tokens + t /\ meter'.iterations = meter.iterations
    BY <1>1, <2>1, ChargeIs
  <2>3. sub.tokens = 0 /\ meter.tokens < MaxTokens
    BY <1>1, <2>1 DEF Shape, Solvent
  <2>4. meter'.tokens + sub'.tokens < MaxTokens + t
    BY <1>1, <2>1, <2>2, <2>3, MetersAre
  <2>. QED  BY <2>1, <2>2, <2>4 DEF Solvent, PoolIsShared
<1>6. ASSUME NEW given \in Answers, GateReturns(given) PROVE Solvent' /\ PoolIsShared'
  <2>1. Same
    BY <1>1, <1>6 DEF GateReturns, Credit, Meter
  <2>2. Elsewhere
    BY <1>6 DEF GateReturns
  <2>. QED  BY <1>2, <2>1, <2>2
<1>7. CASE Tick
  <2>1. Same /\ Elsewhere
    BY <1>1, <1>7 DEF Tick, Meter
  <2>. QED  BY <1>2, <2>1
<1>8. CASE Invoke
  <2>1. /\ pc' = "running" /\ meter' = meter
        /\ sub'.tokens = 0 /\ sub'.iterations = 0
        /\ sub'.maxTokens = Left(MaxTokens, meter.tokens)
        /\ sub'.maxIterations = Left(MaxIterations, meter.iterations)
    BY <1>1, <1>8, RoundMetersAre DEF Invoke
  <2>2. sub.tokens = 0 /\ sub.iterations = 0
    BY <1>1, <1>8 DEF Invoke, Shape
  <2>. QED  BY <2>1, <2>2 DEF Solvent, PoolIsShared, Left
<1>9. ASSUME NEW t \in Costs, RunNode(t) PROVE Solvent' /\ PoolIsShared'
  <2>1. /\ pc = "running" /\ pc' = pc /\ meter' = meter
        /\ sub' = [sub EXCEPT !.tokens = @ + t, !.iterations = @ + 1]
        /\ ~(sub.tokens >= sub.maxTokens) /\ ~(sub.iterations >= sub.maxIterations)
    BY <1>9 DEF RunNode, SubExceeded
  <2>2. /\ sub'.tokens = sub.tokens + t /\ sub'.iterations = sub.iterations + 1
        /\ sub'.maxTokens = sub.maxTokens /\ sub'.maxIterations = sub.maxIterations
    BY <1>1, <2>1, NodeIs
  <2>3. Solvent'
    BY <2>1, <2>2 DEF Solvent, Left
  <2>4. sub.tokens < Left(MaxTokens, meter.tokens) /\ sub.iterations < Left(MaxIterations, meter.iterations)
    BY <2>1, MetersAre DEF Solvent
  <2>5. /\ meter'.tokens + sub'.tokens < MaxTokens + t
        /\ meter'.iterations + sub'.iterations <= MaxIterations
    BY <1>1, <2>1, <2>2, <2>4, MetersAre DEF Left
  <2>. QED  BY <2>3, <2>5 DEF PoolIsShared
<1>10. CASE RunExhausted \/ RunRaises \/ (\E s \in World : RunExecuted(s))
  <2>1. ChargeBack /\ Spent /\ pc' \notin {"propose", "running"}
    BY <1>10 DEF RunExhausted, RunRaises, RunExecuted, Failed
  <2>2. Moved
    BY <1>1, <2>1, ChargeBackIs
  <2>3. PoolIsShared'
    BY <2>2, MetersAre DEF PoolIsShared
  <2>. QED  BY <2>1, <2>3 DEF Solvent
<1>. QED
  BY <1>3, <1>4, <1>5, <1>6, <1>7, <1>8, <1>9, <1>10 DEF LoopNext, Loop, Plan, Judge, Execute

(***************************************************************************)
(* What a human says.                                                      *)
(***************************************************************************)
LEMMA HumanNext ==
  ASSUME LoopAssumption, TypeOK, Shape, Cleared, OnlyApprovedRuns, HaltIsHonoured, [LoopNext]_loopVars
  PROVE  Cleared' /\ OnlyApprovedRuns' /\ HaltIsHonoured'
<1>. USE DEF At, Stop, Replan, Planning, Execution, Surround
<1>1. Cleared' /\ OnlyApprovedRuns'
  <2>1. CASE RequestHalt \/ UNCHANGED loopVars \/ Tick \/ (\E t \in Costs : RunNode(t))
    BY <2>1 DEF RequestHalt, loopVars, Tick, RunNode, Cleared, OnlyApprovedRuns
  <2>2. CASE \/ Precheck \/ Boundary \/ Plan \/ Judge
             \/ Unbuilt \/ Planned \/ RunExhausted \/ RunRaises \/ (\E s \in World : RunExecuted(s))
    <3>1. pc' \notin {"cleared", "running"}
      BY <2>2 DEF Precheck, Boundary, Plan, PlannerExhausted, PlannerUnusable, PlannerProposes,
                  PlannerUnreachable, Judge, Reject, AdmitEmpty, AdmitWork, Unbuilt, Planned, Failed,
                  RunExhausted, RunRaises, RunExecuted
    <3>. QED  BY <3>1 DEF Cleared, OnlyApprovedRuns
  <2>3. CASE Built
    BY <2>3 DEF Built, Cleared, OnlyApprovedRuns
  <2>4. ASSUME NEW given \in Answers, GateReturns(given) PROVE Cleared' /\ OnlyApprovedRuns'
    BY <2>4 DEF GateReturns, Normalized, Cleared, OnlyApprovedRuns
  <2>5. CASE Invoke
    BY <2>5 DEF Invoke, Cleared, OnlyApprovedRuns
  <2>. QED  BY <2>1, <2>2, <2>3, <2>4, <2>5 DEF LoopNext, Loop, Execute
<1>2. HaltIsHonoured'
  <2>1. CASE RequestHalt
    BY <2>1 DEF RequestHalt, HaltIsHonoured
  <2>2. CASE Boundary
    <3>1. halted => round' = round /\ pc' = "done"
      <4>1. round >= MaxRounds \/ round < MaxRounds
        BY LimitsAre DEF TypeOK
      <4>. QED  BY <2>2, <4>1 DEF Boundary
    <3>. QED  BY <2>2, <3>1 DEF Boundary, HaltIsHonoured
  <2>3. ASSUME NEW given \in Answers, GateReturns(given) PROVE HaltIsHonoured'
    <3>1. round' = round /\ halted' = halted /\ haltedIn' = haltedIn /\ (halted => pc' = "done")
      BY <2>3 DEF GateReturns
    <3>. QED  BY <3>1 DEF HaltIsHonoured
  <2>4. CASE UNCHANGED loopVars \/ Tick
    BY <2>4 DEF loopVars, Tick, HaltIsHonoured
  <2>5. CASE Loop /\ ~Boundary /\ ~(\E given \in Answers : GateReturns(given))
    <3>1. pc \notin {"parked", "done"} /\ UNCHANGED <<round, halted, haltedIn>>
      <4>1. CASE Precheck \/ Plan \/ Judge
        BY <4>1 DEF Precheck, Plan, PlannerExhausted, PlannerUnusable, PlannerProposes,
                    PlannerUnreachable, Judge, Reject, AdmitEmpty, AdmitWork
      <4>2. CASE Execute
        BY <2>5, <4>2 DEF Execute, Unbuilt, Built, Planned, Invoke, RunNode, RunExhausted, RunRaises,
                          RunExecuted
      <4>. QED  BY <2>5, <4>1, <4>2 DEF Loop
    <3>. QED  BY <3>1 DEF HaltIsHonoured
  <2>. QED  BY <2>1, <2>2, <2>3, <2>4, <2>5 DEF LoopNext
<1>. QED  BY <1>1, <1>2

(* A goal is looked for before the first round, and after each.             *)
LEMMA WantingNext ==
  ASSUME Shape, Wanting, TypeOK, [LoopNext]_loopVars
  PROVE  Wanting'
<1>. USE DEF At, Stop, Replan, Planning, Execution, Surround, GoalMet
<1>1. CASE Precheck
  BY <1>1 DEF Precheck, Wanting, TypeOK
<1>2. ASSUME NEW s \in World, RunExecuted(s) PROVE Wanting'
  BY <1>2 DEF RunExecuted, Wanting
<1>3. CASE ~Precheck /\ ~(\E s \in World : RunExecuted(s))
  <2>1. /\ current' = current /\ mode' = mode
        /\ pc = "precheck" => pc' = "precheck"
        /\ pc = "done" => pc' = "done"
    <3>1. CASE Boundary \/ Plan \/ Judge
      BY <3>1 DEF Boundary, Plan, PlannerExhausted, PlannerUnusable, PlannerProposes,
                  PlannerUnreachable, Judge, Reject, AdmitEmpty, AdmitWork
    <3>2. CASE Execute
      BY <1>3, <3>2 DEF Execute, Unbuilt, Built, GateReturns, Planned, Invoke, RunNode, RunExhausted,
                        RunRaises
    <3>3. CASE RequestHalt \/ Tick \/ UNCHANGED loopVars
      BY <3>3 DEF RequestHalt, Tick, loopVars
    <3>. QED  BY <1>3, <3>1, <3>2, <3>3 DEF LoopNext, Loop
  <2>. QED  BY <2>1 DEF Wanting
<1>. QED  BY <1>1, <1>2, <1>3

(***************************************************************************)
(* The counters and the records.                                           *)
(***************************************************************************)
(* What one more record does to the four rows.                              *)
LEMMA RowsAfter ==
  ASSUME TypeOK, Counted, pc # "done", NEW how \in Ends, Close(how)
  PROVE  /\ UnusableRow(records', 0) /\ FailedRow(records', 0) /\ StalledRow(records', 0)
         /\ how = "unusable" => UnusableRow(records', streak.unplanned + 1)
         /\ how = "unreachable" => InARow(records', 1, {"unreachable"}, Ends \ {"unreachable"})
         /\ how \notin {"stalled", "progressed"} => FailedRow(records', streak.failed)
         /\ how \in {"unbuilt", "raised"} => FailedRow(records', streak.failed + 1)
         /\ how # "progressed" => StalledRow(records', streak.stalled)
         /\ how = "stalled" => StalledRow(records', streak.stalled + 1)
         /\ RefusedRow(records', 0)
         /\ how \in {"rejected", "unusable"} => RefusedRow(records', streak.rejected)
         /\ how = "rejected" => RefusedRow(records', streak.rejected + 1)
<1>1. records \in Seq(Ends) /\ records' = Append(records, how) /\ records' \in Seq(Ends)
  BY CloseIs DEF TypeOK, Close
<1>2. /\ streak.unplanned \in Nat /\ streak.failed \in Nat /\ streak.stalled \in Nat
      /\ streak.rejected \in Nat
  BY DEF TypeOK, Counters
<1>3. UnusableRow(records', 0) /\ FailedRow(records', 0) /\ StalledRow(records', 0)
  BY <1>1, InARowStarts DEF UnusableRow, FailedRow, StalledRow
<1>4. /\ UnusableRow(records, streak.unplanned) /\ FailedRow(records, streak.failed)
      /\ StalledRow(records, streak.stalled)
  BY DEF Counted
<1>5. how = "unusable" => UnusableRow(records', streak.unplanned + 1)
  BY <1>1, <1>2, <1>4, InARowGrows DEF UnusableRow
<1>6. how = "unreachable" => InARow(records', 1, {"unreachable"}, Ends \ {"unreachable"})
  <2>1. InARow(records, 0, {"unreachable"}, Ends \ {"unreachable"})
    BY <1>1, InARowStarts
  <2>2. how = "unreachable" => InARow(records', 0 + 1, {"unreachable"}, Ends \ {"unreachable"})
    BY <1>1, <2>1, InARowGrows
  <2>3. 0 + 1 = 1
    OBVIOUS
  <2>. QED  BY <2>2, <2>3
<1>7. /\ how \notin {"stalled", "progressed"} => FailedRow(records', streak.failed)
      /\ how \in {"unbuilt", "raised"} => FailedRow(records', streak.failed + 1)
  BY <1>1, <1>2, <1>4, InARowGrows DEF FailedRow
<1>8. /\ how # "progressed" => StalledRow(records', streak.stalled)
      /\ how = "stalled" => StalledRow(records', streak.stalled + 1)
  BY <1>1, <1>2, <1>4, InARowGrows DEF StalledRow
<1>9. /\ RefusedRow(records', 0)
      /\ how \in {"rejected", "unusable"} => RefusedRow(records', streak.rejected)
      /\ how = "rejected" => RefusedRow(records', streak.rejected + 1)
  BY <1>1, <1>2, InARowStarts, InARowGrows DEF RefusedRow, Counted
<1>. QED  BY <1>3, <1>5, <1>6, <1>7, <1>8, <1>9

LEMMA CountedNext ==
  ASSUME LoopAssumption, TypeOK, Shape, Counted, [LoopNext]_loopVars
  PROVE  Counted'
<1>. USE DEF At, Stop, Replan, Planning, Execution, Surround
<1>1. streak \in Counters /\ {"unusable", "rejected", "empty", "unbuilt", "raised", "stalled", "progressed"} \subseteq Ends
  BY DEF TypeOK, Ends
<1>2. SUFFICES ASSUME pc' # "done" PROVE Counted'
  BY DEF Counted
<1>3. CASE /\ UNCHANGED <<streak, records>> /\ (pc = "done" => pc' = "done")
           /\ pc' \in {"build", "parked", "cleared", "running"} =>
                pc \in {"build", "parked", "cleared", "running"}
  BY <1>2, <1>3 DEF Counted
<1>4. ASSUME NEW t \in Costs, PlannerUnusable(t) PROVE Counted'
  <2>1. pc = "propose" /\ Close("unusable") /\ streak' = [streak EXCEPT !.unplanned = @ + 1]
    BY <1>2, <1>4 DEF PlannerUnusable
  <2>2. /\ streak'.unplanned = streak.unplanned + 1 /\ streak'.failed = streak.failed
        /\ streak'.stalled = streak.stalled /\ streak'.rejected = streak.rejected
    BY <1>1, <2>1 DEF Counters
  <2>3. pc' = "boundary"
    BY <1>2, <1>4 DEF PlannerUnusable
  <2>. QED  BY <1>1, <2>1, <2>2, <2>3, RowsAfter DEF Counted
<1>5. ASSUME NEW t \in Costs, NEW work, PlannerProposes(t, work) PROVE Counted'
  <2>1. pc = "propose" /\ records' = records /\ streak' = [streak EXCEPT !.unplanned = 0]
    BY <1>5 DEF PlannerProposes
  <2>2. /\ streak'.unplanned = 0 /\ streak'.failed = streak.failed /\ streak'.stalled = streak.stalled
        /\ streak'.rejected = streak.rejected
    BY <1>1, <2>1 DEF Counters
  <2>3. UnusableRow(records, 0)
    BY InARowStarts DEF TypeOK, UnusableRow
  <2>4. pc' = "judge"
    BY <1>5 DEF PlannerProposes
  <2>. QED  BY <2>1, <2>2, <2>3, <2>4 DEF Counted
<1>6. CASE Judge
  <2>1. pc = "judge" /\ streak.unplanned = 0
    BY <1>6 DEF Judge, Reject, AdmitEmpty, AdmitWork, Shape
  <2>2. /\ streak'.unplanned = streak.unplanned /\ streak'.failed = streak.failed
        /\ streak'.stalled = streak.stalled
    BY <1>1, <1>6 DEF Judge, Reject, AdmitEmpty, AdmitWork, Counters
  <2>3. CASE Reject
    <3>1. Close("rejected") /\ streak'.rejected = streak.rejected + 1 /\ pc' = "boundary"
      BY <1>1, <1>2, <2>3 DEF Reject, Counters
    <3>. QED  BY <1>1, <2>1, <2>2, <3>1, RowsAfter DEF Counted
  <2>4. CASE AdmitEmpty \/ AdmitWork
    <3>1. streak'.rejected = 0 /\ (UNCHANGED records \/ Close("empty"))
      BY <1>1, <1>2, <2>4 DEF AdmitEmpty, AdmitWork, Counters
    <3>2. RefusedRow(records, 0)
      BY InARowStarts DEF TypeOK, RefusedRow
    <3>3. CASE UNCHANGED records
      BY <2>1, <2>2, <3>1, <3>2, <3>3 DEF Counted
    <3>4. CASE Close("empty")
      BY <1>1, <2>1, <2>2, <3>1, <3>4, RowsAfter DEF Counted
    <3>. QED  BY <3>1, <3>3, <3>4
  <2>. QED  BY <1>6, <2>3, <2>4 DEF Judge
<1>7. CASE Unbuilt \/ RunRaises
  <2>1. PICK how \in {"unbuilt", "raised"} : Failed(how)
    BY <1>7 DEF Unbuilt, RunRaises
  <2>2. pc \in {"build", "running"} /\ streak.unplanned = 0 /\ Close(how)
    BY <1>7, <2>1 DEF Unbuilt, RunRaises, Shape, Failed
  <2>3. /\ streak'.failed = streak.failed + 1 /\ streak'.unplanned = streak.unplanned
        /\ streak'.stalled = streak.stalled /\ streak'.rejected = 0
    BY <2>1, <2>2, FailedRoundIs DEF Counted
  <2>. QED  BY <1>1, <2>1, <2>2, <2>3, RowsAfter DEF Counted
<1>8. ASSUME NEW s \in World, RunExecuted(s) PROVE Counted'
  <2>1. /\ pc = "running" /\ streak.unplanned = 0
        /\ streak'.unplanned = streak.unplanned /\ streak'.failed = 0
        /\ streak'.stalled = Stalled(s # current) /\ streak'.rejected = 0
    BY <1>1, <1>8 DEF RunExecuted, Shape, Counters, Counted
  <2>2. CASE s = current
    BY <1>1, <1>8, <2>1, <2>2, RowsAfter DEF RunExecuted, Stalled, Counted
  <2>3. CASE s # current
    BY <1>1, <1>8, <2>1, <2>3, RowsAfter DEF RunExecuted, Stalled, Counted
  <2>. QED  BY <2>2, <2>3
<1>9. CASE \/ Precheck \/ Boundary \/ PlannerUnreachable \/ (\E t \in Costs : PlannerExhausted(t))
           \/ Built \/ (\E given \in Answers : GateReturns(given)) \/ Planned \/ Invoke
           \/ (\E t \in Costs : RunNode(t)) \/ RunExhausted \/ RequestHalt \/ Tick \/ UNCHANGED loopVars
  <2>1. /\ UNCHANGED <<streak, records>> /\ (pc = "done" => pc' = "done")
        /\ pc' \in {"build", "parked", "cleared", "running"} =>
             pc \in {"build", "parked", "cleared", "running"}
    BY <1>2, <1>9 DEF Precheck, Boundary, PlannerUnreachable, PlannerExhausted, Built, GateReturns,
                      Planned, Invoke, RunNode, RunExhausted, RequestHalt, Tick, loopVars
  <2>. QED  BY <1>3, <2>1
<1>. QED  BY <1>4, <1>5, <1>6, <1>7, <1>8, <1>9 DEF LoopNext, Loop, Plan, Execute

(***************************************************************************)
(* The reason.                                                             *)
(***************************************************************************)
(* The reasons that speak of the rows.                                      *)
RowsAreTrue ==
  /\ stop = "planning_failed" =>
       \/ InARow(records, 1, {"unreachable"}, Ends \ {"unreachable"})
       \/ UnusableRow(records, MaxUnplanned)
  /\ stop = "admission_refused" => RefusedRow(records, MaxRejections)
  /\ stop = "execution_failed" => FailedRow(records, MaxFailures)
  /\ stop = "no_progress" => StalledRow(records, MaxStalled)

(* The others.                                                              *)
RestIsTrue ==
  /\ stop = "goal_met" => GoalMet(current)
  /\ stop # "none" /\ GoalMet(current) => stop \in {"goal_met", "human_stopped"}
  /\ stop = "no_further_work" /\ mode.goal => nudged
  /\ stop = "max_rounds" => round = MaxRounds
  /\ stop = "budget_exhausted" => Exceeded
  /\ stop = "human_stopped" => halted

(* When the run stops over its planner, its rounds or their results, that   *)
(* many of them are on record.                                              *)
LEMMA RowsStop ==
  ASSUME LoopAssumption, TypeOK, Shape, Counted, [LoopNext]_loopVars, pc # "done"
  PROVE  RowsAreTrue'
<1>. USE DEF At, Stop, Replan, Planning, Execution, Surround
<1>1. /\ streak \in Counters /\ stop = "none"
      /\ {"unusable", "unreachable", "rejected", "unbuilt", "raised", "stalled", "progressed"} \subseteq Ends
  BY DEF TypeOK, Ends, Shape
<1>2. CASE stop' \notin {"planning_failed", "admission_refused", "execution_failed", "no_progress"}
  BY <1>2 DEF RowsAreTrue
<1>3. CASE PlannerUnreachable
  BY <1>1, <1>3, RowsAfter DEF PlannerUnreachable, RowsAreTrue
<1>4. ASSUME NEW t \in Costs, PlannerUnusable(t) PROVE RowsAreTrue'
  <2>1. CASE confirm
    BY <1>4, <2>1 DEF PlannerUnusable, RowsAreTrue
  <2>2. CASE ~confirm
    <3>1. pc = "propose" /\ Close("unusable") /\ streak' = [streak EXCEPT !.unplanned = @ + 1]
      BY <1>4, <2>2 DEF PlannerUnusable
    <3>2. streak'.unplanned = streak.unplanned + 1 /\ streak.unplanned < MaxUnplanned
      BY <1>1, <3>1 DEF Counters, Shape
    <3>3. streak'.unplanned >= MaxUnplanned => streak.unplanned + 1 = MaxUnplanned
      BY <1>1, <3>2, CountersAre, LimitsAre
    <3>4. stop' # "none" => stop' = "planning_failed" /\ streak'.unplanned >= MaxUnplanned
      BY <1>1, <1>4, <2>2 DEF PlannerUnusable
    <3>5. UnusableRow(records', streak.unplanned + 1)
      BY <1>1, <3>1, RowsAfter
    <3>. QED  BY <3>3, <3>4, <3>5 DEF RowsAreTrue
  <2>. QED  BY <2>1, <2>2
<1>5. CASE Unbuilt \/ RunRaises
  <2>1. PICK how \in {"unbuilt", "raised"} : Failed(how)
    BY <1>5 DEF Unbuilt, RunRaises
  <2>2. pc \in {"build", "running"} /\ Close(how) /\ streak.failed < MaxFailures
    BY <1>5, <2>1 DEF Unbuilt, RunRaises, Shape, Failed
  <2>3. /\ streak'.failed = streak.failed + 1
        /\ stop' # "none" => stop' = "execution_failed" /\ streak'.failed >= MaxFailures
    BY <2>1, <2>2, FailedRoundIs
  <2>4. streak'.failed >= MaxFailures => streak.failed + 1 = MaxFailures
    BY <1>1, <2>2, <2>3, CountersAre, LimitsAre
  <2>5. FailedRow(records', streak.failed + 1)
    BY <1>1, <2>1, <2>2, RowsAfter
  <2>. QED  BY <2>3, <2>4, <2>5 DEF RowsAreTrue
<1>6. ASSUME NEW s \in World, RunExecuted(s) PROVE RowsAreTrue'
  <2>1. streak.stalled < MaxStalled /\ streak'.stalled = Stalled(s # current)
    BY <1>1, <1>6 DEF RunExecuted, Shape, Counters
  <2>2. stop' # "none" => \/ stop' = "goal_met"
                          \/ stop' = "no_progress" /\ streak'.stalled >= MaxStalled
    BY <1>1, <1>6 DEF RunExecuted
  <2>3. CASE s = current
    <3>1. StalledRow(records', streak.stalled + 1)
      BY <1>1, <1>6, <2>3, RowsAfter DEF RunExecuted
    <3>2. streak'.stalled >= MaxStalled => streak.stalled + 1 = MaxStalled
      BY <1>1, <2>1, <2>3, CountersAre, LimitsAre DEF Stalled
    <3>. QED  BY <2>2, <3>1, <3>2 DEF RowsAreTrue
  <2>4. CASE s # current
    <3>1. ~(streak'.stalled >= MaxStalled)
      BY <2>1, <2>4, LimitsAre DEF Stalled
    <3>. QED  BY <2>2, <3>1 DEF RowsAreTrue
  <2>. QED  BY <2>3, <2>4
<1>7. CASE Reject
  <2>1. pc = "judge" /\ Close("rejected") /\ streak'.rejected = streak.rejected + 1
    BY <1>1, <1>7 DEF Reject, Counters
  <2>2. streak.rejected < MaxRejections
    BY <2>1 DEF Shape
  <2>3. streak'.rejected >= MaxRejections => streak.rejected + 1 = MaxRejections
    BY <1>1, <2>1, <2>2, CountersAre, LimitsAre
  <2>4. stop' # "none" => stop' = "admission_refused" /\ streak'.rejected >= MaxRejections
    BY <1>1, <1>7 DEF Reject
  <2>5. RefusedRow(records', streak.rejected + 1)
    BY <1>1, <2>1, RowsAfter
  <2>. QED  BY <2>3, <2>4, <2>5 DEF RowsAreTrue
<1>8. CASE \/ (\E t \in Costs : PlannerExhausted(t) \/ PlannerProposes(t, "empty") \/ PlannerProposes(t, "work"))
           \/ Precheck \/ Boundary \/ AdmitEmpty \/ AdmitWork \/ Built \/ (\E given \in Answers : GateReturns(given)) \/ Planned \/ Invoke
           \/ (\E t \in Costs : RunNode(t)) \/ RunExhausted \/ RequestHalt \/ Tick \/ UNCHANGED loopVars
  <2>1. stop' \notin {"planning_failed", "admission_refused", "execution_failed", "no_progress"}
    BY <1>1, <1>8 DEF Precheck, Boundary, AdmitEmpty, AdmitWork, PlannerExhausted, PlannerProposes, Built, GateReturns, Planned, Invoke, RunNode,
                      RunExhausted, RequestHalt, Tick, loopVars
  <2>. QED  BY <1>2, <2>1
<1>. QED  BY <1>3, <1>4, <1>5, <1>6, <1>7, <1>8 DEF LoopNext, Loop, Plan, Judge, Execute

(* Every other reason is read off the state the run stops in.               *)
LEMMA RestStops ==
  ASSUME LoopAssumption, TypeOK, Shape, Solvent, Wanting, [LoopNext]_loopVars, pc # "done"
  PROVE  RestIsTrue'
<1>. USE DEF At, Stop, Replan, Planning, Execution, Surround
<1>1. stop = "none" /\ meter \in Meter /\ sub \in RoundMeter /\ \A t \in Costs : t \in Nat
  BY DEF TypeOK, Shape, LoopAssumption
<1>2. CASE stop' = "none"
  BY <1>2 DEF RestIsTrue
<1>3. ASSUME UNCHANGED <<mode, current>>, pc # "precheck",
             \/ stop' \in Reasons \ {"goal_met", "no_further_work", "max_rounds", "budget_exhausted",
                                     "human_stopped"}
             \/ stop' = "no_further_work" /\ (mode.goal => nudged')
             \/ stop' = "max_rounds" /\ round' = MaxRounds
             \/ stop' = "budget_exhausted" /\ Exceeded'
             \/ stop' = "human_stopped" /\ halted'
      PROVE  RestIsTrue'
  <2>1. ~GoalMet(current)'
    BY <1>3 DEF Wanting, GoalMet
  <2>. QED  BY <1>3, <2>1 DEF RestIsTrue
<1>4. CASE Precheck
  BY <1>1, <1>4 DEF Precheck, RestIsTrue, GoalMet
<1>5. CASE Boundary
  <2>1. round >= MaxRounds \/ round < MaxRounds
    BY LimitsAre DEF TypeOK
  <2>2. round >= MaxRounds => round = MaxRounds
    BY LimitsAre DEF TypeOK
  <2>3. /\ pc = "boundary" /\ UNCHANGED <<mode, current, meter, halted>>
        /\ \/ stop' = "none"
           \/ stop' = "max_rounds" /\ round' = round /\ round = MaxRounds
           \/ stop' = "human_stopped" /\ halted
           \/ stop' = "budget_exhausted" /\ Exceeded
    BY <1>1, <1>5, <2>1, <2>2 DEF Boundary
  <2>4. Exceeded => Exceeded'
    BY <2>3 DEF Exceeded
  <2>. QED  BY <1>2, <1>3, <2>3, <2>4
<1>6. ASSUME NEW t \in Costs, PlannerExhausted(t) PROVE RestIsTrue'
  <2>1. /\ ChargeTokens(t) /\ pc = "propose" /\ stop' = "budget_exhausted"
        /\ UNCHANGED <<mode, current>> /\ (meter'.tokens >= MaxTokens \/ Exceeded)
    BY <1>6 DEF PlannerExhausted
  <2>2. /\ meter'.tokens = meter.tokens + t /\ meter'.iterations = meter.iterations
        /\ meter'.seconds = meter.seconds
    BY <1>1, <2>1, ChargeIs
  <2>3. Exceeded'
    BY <1>1, <2>1, <2>2, LimitsAre, MetersAre DEF Exceeded
  <2>. QED  BY <1>3, <2>1, <2>3
<1>7. CASE PlannerUnreachable
  BY <1>3, <1>7 DEF PlannerUnreachable, Reasons
<1>8. ASSUME NEW t \in Costs, PlannerUnusable(t) PROVE RestIsTrue'
  <2>1. /\ pc = "propose" /\ UNCHANGED <<mode, current, nudged>>
        /\ \/ stop' = "none"
           \/ stop' = "planning_failed"
           \/ stop' = "no_further_work" /\ confirm
    BY <1>1, <1>8 DEF PlannerUnusable
  <2>2. confirm => nudged
    BY DEF Shape
  <2>. QED  BY <1>2, <1>3, <2>1, <2>2 DEF Reasons
<1>9. CASE Judge
  <2>1. pc = "judge" /\ UNCHANGED <<mode, current, meter>> /\ ~GoalMet(current)
    BY <1>9 DEF Judge, Reject, AdmitEmpty, AdmitWork, Wanting
  <2>2. \/ stop' = "none"
        \/ stop' = "admission_refused"
        \/ stop' = "no_further_work" /\ (mode.goal => nudged')
        \/ stop' = "budget_exhausted" /\ Exceeded
    <3>1. CASE Reject
      BY <1>1, <3>1 DEF Reject
    <3>2. CASE AdmitEmpty
      BY <1>1, <2>1, <3>2 DEF AdmitEmpty
    <3>3. CASE AdmitWork
      BY <1>1, <3>3 DEF AdmitWork
    <3>. QED  BY <1>9, <3>1, <3>2, <3>3 DEF Judge
  <2>3. Exceeded => Exceeded'
    BY <2>1 DEF Exceeded
  <2>. QED  BY <1>2, <1>3, <2>1, <2>2, <2>3 DEF Reasons
<1>10. CASE Unbuilt \/ RunRaises
  <2>1. PICK how \in {"unbuilt", "raised"} : Failed(how)
    BY <1>10 DEF Unbuilt, RunRaises
  <2>2. pc \in {"build", "running"} /\ UNCHANGED <<mode, current>>
    BY <1>10 DEF Unbuilt, RunRaises
  <2>3. stop' \in {"none", "execution_failed"}
    BY <2>1, <2>2, FailedRoundIs
  <2>. QED  BY <1>2, <1>3, <2>2, <2>3 DEF Reasons
<1>11. ASSUME NEW given \in Answers, GateReturns(given) PROVE RestIsTrue'
  <2>1. /\ pc = "parked" /\ UNCHANGED <<mode, current, halted>>
        /\ \/ stop' = "human_stopped" /\ halted
           \/ stop' \in {"none", "approval_timeout", "approval_denied"}
    BY <1>1, <1>11 DEF GateReturns
  <2>. QED  BY <1>2, <1>3, <2>1 DEF Reasons
<1>12. CASE Planned
  BY <1>3, <1>12 DEF Planned, Reasons
<1>13. CASE RunExhausted
  <2>1. /\ ChargeBack /\ Spent /\ SubExceeded /\ pc = "running" /\ stop' = "budget_exhausted"
        /\ UNCHANGED <<mode, current>>
    BY <1>13 DEF RunExhausted
  <2>2. /\ meter'.tokens = meter.tokens + sub.tokens
        /\ meter'.iterations = meter.iterations + sub.iterations
        /\ meter'.seconds = meter.seconds
    BY <1>1, <2>1, ChargeBackIs
  <2>3. \/ sub.iterations >= Left(MaxIterations, meter.iterations)
        \/ sub.tokens >= Left(MaxTokens, meter.tokens)
        \/ meter.seconds >= MaxSeconds
    BY <2>1 DEF SubExceeded, Solvent
  <2>4. Exceeded'
    BY <1>1, <2>2, <2>3, LimitsAre, MetersAre DEF Exceeded, Left
  <2>. QED  BY <1>3, <2>1, <2>4
<1>14. ASSUME NEW s \in World, RunExecuted(s) PROVE RestIsTrue'
  <2>1. /\ current' = s /\ UNCHANGED <<mode, halted>>
        /\ \/ stop' = "goal_met" /\ GoalMet(s)
           \/ stop' \in {"none", "no_progress"} /\ ~GoalMet(s)
    BY <1>1, <1>14 DEF RunExecuted
  <2>2. GoalMet(current)' <=> GoalMet(s)
    BY <2>1 DEF GoalMet
  <2>. QED  BY <2>1, <2>2 DEF RestIsTrue
<1>15. CASE \/ (\E t \in Costs : PlannerProposes(t, "empty") \/ PlannerProposes(t, "work"))
            \/ Built \/ Invoke \/ (\E t \in Costs : RunNode(t)) \/ RequestHalt \/ Tick \/ UNCHANGED loopVars
  <2>1. stop' = "none"
    BY <1>1, <1>15 DEF PlannerProposes, Built, Invoke, RunNode, RequestHalt, Tick, loopVars
  <2>. QED  BY <1>2, <2>1
<1>. QED
  BY <1>4, <1>5, <1>6, <1>7, <1>8, <1>9, <1>10, <1>11, <1>12, <1>13, <1>14, <1>15
     DEF LoopNext, Loop, Plan, Execute

LEMMA StopNext ==
  ASSUME LoopAssumption, TypeOK, Shape, Solvent, Wanting, Counted, StopIsTrue, [LoopNext]_loopVars
  PROVE  StopIsTrue'
<1>1. CASE pc = "done"
  <2>1. UNCHANGED loopVars
    BY <1>1 DEF LoopNext, Loop, Precheck, Boundary, Plan, PlannerExhausted, PlannerUnreachable, PlannerUnusable,
                PlannerProposes, Judge, Reject, AdmitEmpty, AdmitWork, Execute, Unbuilt, Built, GateReturns,
                Planned, Invoke, RunNode, RunExhausted, RunRaises, RunExecuted, RequestHalt, Tick, At
  <2>. QED  BY <2>1 DEF loopVars, StopIsTrue, GoalMet, Exceeded
<1>2. CASE pc # "done"
  <2>1. RowsAreTrue' /\ RestIsTrue'
    BY <1>2, RowsStop, RestStops
  <2>. QED  BY <2>1 DEF StopIsTrue, RowsAreTrue, RestIsTrue, UnusableRow, RefusedRow, FailedRow, StalledRow
<1>. QED  BY <1>1, <1>2

(***************************************************************************)
(* The theorems.                                                           *)
(***************************************************************************)
LEMMA InitIsInv ==
  ASSUME LoopAssumption, LoopInit
  PROVE  IInv
<1>1. /\ MaxRounds > 0 /\ MaxRejections > 0 /\ MaxUnplanned > 0 /\ MaxFailures > 0 /\ MaxStalled > 0
  BY LimitsAre
<1>2. meter \in Meter /\ NoRound \in RoundMeter /\ NoRound.tokens = 0 /\ NoRound.iterations = 0
  <2>1. meter \in Meter
    BY DEF LoopInit, Free, Meter
  <2>. QED  BY <2>1, RoundMetersAre
<1>3. /\ streak \in Counters /\ streak.rejected = 0 /\ streak.unplanned = 0 /\ streak.failed = 0
      /\ streak.stalled = 0
  BY LimitsAre DEF LoopInit, Counters
<1>4. records \in Seq(Ends)
  BY DEF LoopInit
<1>5. TypeOK
  <2>1. round \in 0..MaxRounds /\ haltedIn \in [round : 0..MaxRounds, pc : Places \cup {"none"}]
    BY LimitsAre DEF LoopInit
  <2>2. sub \in RoundMeter
    BY <1>2 DEF LoopInit
  <2>3. waited \in Nat /\ current \in World /\ mode \in Modes
    BY DEF LoopInit
  <2>. QED  BY <1>2, <1>3, <1>4, <2>1, <2>2, <2>3 DEF TypeOK, LoopInit, Reasons, Places
<1>6. Shape /\ Solvent /\ Cleared /\ OnlyApprovedRuns /\ HaltIsHonoured /\ Wanting
  BY <1>1, <1>2, <1>3, MetersAre, <1>5
     DEF LoopInit, Shape, Solvent, Cleared, OnlyApprovedRuns, HaltIsHonoured, Wanting
<1>7. PoolIsShared
  <2>1. meter.tokens = 0 /\ meter.iterations = 0 /\ sub.tokens = 0 /\ sub.iterations = 0
    BY <1>2 DEF LoopInit, Free
  <2>. QED  BY <1>5, <2>1, LimitsAre DEF PoolIsShared
<1>8. Counted
  BY <1>3, <1>4, InARowStarts DEF LoopInit, Counted, UnusableRow, RefusedRow, FailedRow, StalledRow
<1>9. StopIsTrue
  BY DEF LoopInit, StopIsTrue
<1>. QED  BY <1>5, <1>6, <1>7, <1>8, <1>9 DEF IInv

LEMMA NextKeepsInv ==
  ASSUME LoopAssumption, IInv, [LoopNext]_loopVars
  PROVE  IInv'
<1>1. TypeOK' /\ Shape'
  BY ShapeNext DEF IInv
<1>2. Solvent' /\ PoolIsShared'
  BY <1>1, PoolNext DEF IInv
<1>3. Cleared' /\ OnlyApprovedRuns' /\ HaltIsHonoured'
  BY HumanNext DEF IInv
<1>4. Wanting' /\ Counted' /\ StopIsTrue'
  BY WantingNext, CountedNext, StopNext DEF IInv
<1>. QED  BY <1>1, <1>2, <1>3, <1>4 DEF IInv

LEMMA InvAlways ==
  ASSUME LoopAssumption
  PROVE  LoopSpec => []IInv
<1>1. LoopInit => IInv
  BY InitIsInv
<1>2. IInv /\ [LoopNext]_loopVars => IInv'
  BY NextKeepsInv
<1>. QED  BY <1>1, <1>2, PTL DEF LoopSpec

(* The loop's counters, meters and records keep their types, and a counter  *)
(* never passes its limit.                                                  *)
THEOREM TypeCorrect ==
  ASSUME LoopAssumption
  PROVE  LoopSpec => []TypeOK
<1>1. IInv => TypeOK
  BY DEF IInv
<1>. QED  BY <1>1, InvAlways, PTL

(* The rounds of a run share one budget, and the reason a run gives for     *)
(* having stopped is the true one: of _round_budget, _charge_back, and of   *)
(* every way run() returns.                                                 *)
THEOREM RunIsAccountedForAlways ==
  ASSUME LoopAssumption
  PROVE  LoopSpec => []RunIsAccountedFor
<1>1. IInv => RunIsAccountedFor
  BY DEF IInv, RunIsAccountedFor
<1>. QED  BY <1>1, InvAlways, PTL

(* Nothing runs that the gate did not approve in that word, and a halt ends *)
(* the run with the round it finds: of request_halt racing the gate.        *)
THEOREM HumanDecidesAlways ==
  ASSUME LoopAssumption
  PROVE  LoopSpec => []HumanDecides
<1>1. IInv => HumanDecides
  BY DEF IInv, HumanDecides
<1>. QED  BY <1>1, InvAlways, PTL

(***************************************************************************)
(* One plan: PlanGate.                                                     *)
(***************************************************************************)
Admissible(plan) == \E known \in SUBSET Kind : Status(plan, gate, known) = "admitted"

(* A verdict is about the proposal it fingerprints, and was reached on what *)
(* was registered at the time.                                              *)
Considered(v) ==
  /\ v.plan = v.fingerprint.plan /\ v.id = v.fingerprint.id
  /\ v.status = "admitted" => Admissible(v.plan)

(* One flat scope, whose edges join its own nodes.                          *)
OfItsNodes(plan) ==
  /\ DOMAIN plan = {<<>>}
  /\ \A e \in Root(plan).edges : {e[1], e[2]} \subseteq Nodes(Root(plan)) \cup Sentinel

(* What was built is what a recorded verdict admits: one flat scope.        *)
BuiltAsAdmitted ==
  graph # NoPlan =>
    /\ \E v \in trace : v.status = "admitted" /\ v.id = graph.id /\ v.plan = graph.plan
    /\ Admissible(graph.plan) /\ OfItsNodes(graph.plan)

(* Executions and transitions are of the graph's own nodes and edges.       *)
OnItsEdges ==
  LET root == Root(graph.plan)
  IN /\ phase = "running" => graph # NoPlan
     /\ phase = "planning" => graph = NoPlan
     /\ graph = NoPlan => taken = {} /\ tasks = Idle
     /\ graph # NoPlan => /\ \A n \in Name : tasks[n] > 0 => n \in Nodes(root)
                          /\ \A t \in taken : t[2] # End =>
                                t \in root.edges /\ {t[1], t[2]} \subseteq Nodes(root) \ Sentinel

AdmittedInv ==
  /\ registry \subseteq Kind
  /\ verdict # NoPlan => verdict \in trace
  /\ \A v \in trace : Considered(v)
  /\ BuiltAsAdmitted /\ OnItsEdges

(* Every gate but the two budgets, of the list of codes that is empty.      *)
LEMMA GatesPassed ==
  ASSUME NEW plan, DOMAIN plan = {<<>>}, NEW known, Status(plan, gate, known) = "admitted"
  PROVE  /\ EdgeCodes(Root(plan), gate.edgePolicy) = {}
         /\ RegistryCodes(Root(plan), known) = {} /\ ArgsCodes(Root(plan), known) = {}
         /\ gate.requireEntry => EntryCodes(Root(plan)) = {}
<1>1. Codes(plan, gate, known) = {}
  BY DEF Status, StatusFor
<1>2. Root(plan) \in Scopes(plan)
  BY DEF Root, Scopes
<1>. DEFINE held(s) == RegistryCodes(s, known) \cup ArgsCodes(s, known)
              \cup NodeCodes(s, gate.nodePolicy) \cup EdgeCodes(s, gate.edgePolicy)
              \cup (IF gate.requireEntry THEN EntryCodes(s) ELSE {})
              \cup (IF gate.requireAcyclic /\ Cyclic(s) THEN {<<"acyclicity", "cycle">>} ELSE {})
<1>3. UNION {held(s) : s \in Scopes(plan)} = {}
  BY <1>1, Zenon DEF Codes
<1>4. held(Root(plan)) = {}
  <2>. HIDE DEF held
  <2>. QED  BY <1>2, <1>3
<1>. QED  BY <1>4

LEMMA EdgesAreAllowed ==
  ASSUME NEW scope, NEW policy, EdgeCodes(scope, policy) = {}, NEW e \in scope.edges
  PROVE  EdgeDecision(policy, KindOf(scope, e[1]), KindOf(scope, e[2])) = "allow"
<1>. DEFINE code(f) == LET from == KindOf(scope, f[1]) to == KindOf(scope, f[2])
                       IN IF "" \in {from, to} THEN <<"policy", "unresolved_endpoint_kind">>
                          ELSE <<"edge", EdgeDecision(policy, from, to)>>
<1>1. {code(f) : f \in scope.edges} \ {<<"edge", "allow">>} = {}
  BY Zenon DEF EdgeCodes
<1>2. code(e) = <<"edge", "allow">>
  <2>. HIDE DEF code
  <2>. QED  BY <1>1
<1>. QED  BY <1>2

LEMMA AllowedByKind ==
  ASSUME NEW plan, OfItsNodes(plan), Admissible(plan), NEW e \in Root(plan).edges,
         {e[1], e[2]} \subseteq Nodes(Root(plan)) \ Sentinel
  PROVE  EdgeDecision(gate.edgePolicy, Root(plan).kind[e[1]], Root(plan).kind[e[2]]) = "allow"
<1>1. PICK known \in SUBSET Kind : Status(plan, gate, known) = "admitted"
  BY DEF Admissible
<1>2. EdgeDecision(gate.edgePolicy, KindOf(Root(plan), e[1]), KindOf(Root(plan), e[2])) = "allow"
  BY <1>1, GatesPassed, EdgesAreAllowed DEF OfItsNodes
<1>. QED  BY <1>2 DEF KindOf

LEMMA GateInit == Init => AdmittedInv
BY DEF Init, AdmittedInv, BuiltAsAdmitted, OnItsEdges, Idle

(* What a step that builds nothing and runs nothing leaves.                 *)
LEMMA PlanningKeeps ==
  ASSUME AdmittedInv, UNCHANGED <<gate, running>>, registry' \subseteq Kind,
         verdict' # NoPlan => verdict' \in trace', trace \subseteq trace',
         \A v \in trace' \ trace : Considered(v), phase' \in {"running", "planning"} => phase' = phase
  PROVE  AdmittedInv'
<1>1. \A plan : Admissible(plan)' <=> Admissible(plan)
  BY DEF Admissible
<1>2. \A v \in trace' : Considered(v)'
  BY <1>1 DEF AdmittedInv, Considered
<1>3. BuiltAsAdmitted'
  BY <1>1 DEF AdmittedInv, BuiltAsAdmitted, running
<1>4. OnItsEdges'
  BY DEF AdmittedInv, OnItsEdges, running
<1>. QED  BY <1>2, <1>3, <1>4 DEF AdmittedInv

LEMMA CheckKeeps == ASSUME AdmittedInv, Check PROVE AdmittedInv'
<1>1. verdict' \in trace' /\ trace' = trace \cup {verdict'}
  BY DEF Check
<1>2. Considered(verdict')
  <2>1. verdict'.plan = proposal.plan /\ verdict'.id = proposal.id /\ verdict'.fingerprint = proposal
    BY DEF Check, Fingerprint
  <2>2. verdict'.status = Status(proposal.plan, gate, registry)
    BY DEF Check
  <2>. QED  BY <2>1, <2>2 DEF Considered, Admissible, AdmittedInv
<1>. QED  BY <1>1, <1>2, PlanningKeeps DEF Check, AdmittedInv

LEMMA BuildKeeps == ASSUME AdmittedInv, Build PROVE AdmittedInv'
<1>1. /\ verdict.status = "admitted" /\ verdict.fingerprint = proposal
      /\ verdict \in trace /\ Considered(verdict) /\ OfItsNodes(proposal.plan)
  BY DEF Build, Materializes, Authorised, Fingerprint, Buildable, AdmittedInv, OfItsNodes
<1>2. graph' = proposal /\ proposal # NoPlan /\ trace' = trace /\ gate' = gate /\ taken' = taken
      /\ registry' = registry /\ verdict' = verdict
  BY DEF Build
<1>3. \A plan : Admissible(plan)' <=> Admissible(plan)
  BY <1>2 DEF Admissible
<1>4. Admissible(proposal.plan) /\ verdict.id = proposal.id /\ verdict.plan = proposal.plan
  BY <1>1 DEF Considered
<1>5. BuiltAsAdmitted'
  BY <1>1, <1>2, <1>3, <1>4 DEF BuiltAsAdmitted
<1>6. \A n \in Name : tasks'[n] > 0 => n \in Nodes(Root(proposal.plan))
  <2>. SUFFICES ASSUME NEW n \in Name, tasks'[n] > 0 PROVE n \in Nodes(Root(proposal.plan))
    OBVIOUS
  <2>1. <<Start, n>> \in Root(proposal.plan).edges
    BY DEF Build, Due
  <2>. QED  BY <1>1, <2>1, PlanGateAssumption DEF OfItsNodes
<1>7. OnItsEdges'
  BY <1>2, <1>6 DEF AdmittedInv, OnItsEdges, Build
<1>8. \A v \in trace' : Considered(v)'
  BY <1>2, <1>3 DEF AdmittedInv, Considered
<1>. QED  BY <1>2, <1>5, <1>7, <1>8 DEF AdmittedInv

(* A superstep runs the nodes that were due and makes due what an edge, or  *)
(* the transition of a body, leads to.                                      *)
LEMMA RunKeeps ==
  ASSUME AdmittedInv, graph # NoPlan,
         UNCHANGED <<gate, registry, verdict, trace, graph, phase>>,
         NEW next \in SUBSET Name, NEW sent \in SUBSET Name, Superstep(next, sent),
         \A to \in next \cup sent : \E n \in Running : <<n, to>> \in Root(graph.plan).edges,
         \A t \in taken' : t[2] # End =>
           t \in Root(graph.plan).edges /\ {t[1], t[2]} \subseteq Nodes(Root(graph.plan)) \ Sentinel
  PROVE  AdmittedInv'
<1>1. \A plan : Admissible(plan)' <=> Admissible(plan)
  BY DEF Admissible
<1>2. BuiltAsAdmitted' /\ \A v \in trace' : Considered(v)'
  BY <1>1 DEF AdmittedInv, BuiltAsAdmitted, Considered
<1>. DEFINE edges == Root(graph.plan).edges
<1>3. \A n \in Name : tasks'[n] > 0 => n \in Nodes(Root(graph.plan))
  <2>. SUFFICES ASSUME NEW n \in Name, tasks'[n] > 0 PROVE n \in Nodes(Root(graph.plan))
    OBVIOUS
  <2>1. tasks'[n] = (IF n \in next THEN 1 ELSE Due(edges, Running)[n]) + (IF n \in sent THEN 1 ELSE 0)
    BY DEF Superstep
  <2>2. n \in next \cup sent \/ Due(edges, Running)[n] # 0
    BY <2>1
  <2>3. PICK m \in Running : <<m, n>> \in edges
    BY <2>2 DEF Due
  <2>. QED  BY <2>3, PlanGateAssumption DEF AdmittedInv, BuiltAsAdmitted, OfItsNodes
<1>4. OnItsEdges'
  BY <1>3 DEF AdmittedInv, OnItsEdges
<1>. QED  BY <1>2, <1>4 DEF AdmittedInv

LEMMA AdmittedStep == AdmittedInv /\ [Next]_vars => AdmittedInv'
<1>. SUFFICES ASSUME AdmittedInv, [Next]_vars PROVE AdmittedInv'
  OBVIOUS
<1>1. CASE UNCHANGED vars
  <2>1. registry' \subseteq Kind /\ UNCHANGED <<gate, running, phase, trace, verdict>>
    BY <1>1 DEF vars, AdmittedInv
  <2>. QED  BY <2>1, PlanningKeeps DEF AdmittedInv
<1>2. ASSUME NEW plan, NEW structured, NEW heard, Turn(structured, heard) PROVE AdmittedInv'
  BY <1>2, PlanningKeeps DEF Turn, AdmittedInv
<1>3. ASSUME NEW plan, Edit(plan) PROVE AdmittedInv'
  BY <1>3, PlanningKeeps DEF Edit, AdmittedInv
<1>4. ASSUME NEW kind \in Late, Register(kind) PROVE AdmittedInv'
  BY <1>4, PlanningKeeps, PlanGateAssumption DEF Register, AdmittedInv
<1>5. CASE Refuse \/ Exhaust \/ Finish
  BY <1>5, PlanningKeeps DEF Refuse, Exhaust, Finish, AdmittedInv
<1>6. ASSUME NEW n, NEW to, Stray(n, to) PROVE AdmittedInv'
  BY <1>6, PlanningKeeps DEF Stray, AdmittedInv
<1>7. CASE Plain
  <2>1. graph # NoPlan
    BY <1>7 DEF Plain, Superstep, AdmittedInv, OnItsEdges
  <2>2. Superstep({}, {}) /\ taken' = {}
    BY <1>7 DEF Plain
  <2>3. UNCHANGED <<gate, registry, verdict, trace, graph, phase>>
    BY <2>2 DEF Superstep
  <2>. QED  BY <2>1, <2>2, <2>3, RunKeeps
<1>8. ASSUME NEW n \in Name, NEW to \in Vertex, Goto(n, to) \/ Send(n, to) PROVE AdmittedInv'
  <2>1. n \in Running /\ Confined(n, to) /\ taken' = {<<n, to>>}
    BY <1>8 DEF Goto, Send
  <2>2. PICK next \in SUBSET ({to} \cap Name), sent \in SUBSET ({to} \cap Name) : Superstep(next, sent)
    BY <1>8 DEF Goto, Send
  <2>3. phase = "running" /\ UNCHANGED <<gate, registry, verdict, trace, graph, phase>>
    BY <2>2 DEF Superstep
  <2>4. graph # NoPlan
    BY <2>3 DEF AdmittedInv, OnItsEdges
  <2>5. to # Start /\ n \in Nodes(Root(graph.plan)) \ Sentinel
    BY <1>8, <2>1, <2>4, PlanGateAssumption DEF Goto, Send, AdmittedInv, OnItsEdges, Running, Sentinel
  <2>6. to # End => /\ <<n, to>> \in Root(graph.plan).edges
                    /\ {n, to} \subseteq Nodes(Root(graph.plan)) \ Sentinel
    BY <2>1, <2>4, <2>5 DEF Confined, AdmittedInv, BuiltAsAdmitted, OfItsNodes, Sentinel
  <2>7. to \in Name => to # End
    BY PlanGateAssumption DEF Sentinel
  <2>. QED  BY <2>1, <2>2, <2>3, <2>4, <2>6, <2>7, RunKeeps
<1>. QED
  BY <1>1, <1>2, <1>3, <1>4, <1>5, <1>6, <1>7, <1>8, CheckKeeps, BuildKeeps DEF Next

(* What runs is what was admitted, whatever is edited, proposed again or    *)
(* registered between the checker and the build, and a body's transition is *)
(* one the policy allows its kind: for any plans, policies, kinds and any   *)
(* length of a run.                                                         *)
THEOREM OnlyAdmittedRunsAlways == Spec => []OnlyAdmittedRuns
<1>1. AdmittedInv => OnlyAdmittedRuns
  <2>. SUFFICES ASSUME AdmittedInv, graph # NoPlan, NEW t \in taken, t[2] # End
                PROVE  LET kind == Root(graph.plan).kind
                       IN EdgeDecision(gate.edgePolicy, kind[t[1]], kind[t[2]]) = "allow"
    BY DEF AdmittedInv, BuiltAsAdmitted, OnlyAdmittedRuns
  <2>1. t \in Root(graph.plan).edges /\ {t[1], t[2]} \subseteq Nodes(Root(graph.plan)) \ Sentinel
    BY DEF AdmittedInv, OnItsEdges
  <2>. QED  BY <2>1, AllowedByKind DEF AdmittedInv, BuiltAsAdmitted
<1>. QED  BY <1>1, GateInit, AdmittedStep, PTL DEF Spec

(***************************************************************************)
(* From a verdict to the build: what check() and materialize() both ask.   *)
(***************************************************************************)
LEMMA EndsAreKnown ==
  ASSUME NEW scope, NEW known, RegistryCodes(scope, known) = {}
  PROVE  /\ \A n \in Nodes(scope) : scope.kind[n] \in known
         /\ \A e \in scope.edges : ~WrongWay(e) /\ ~UnknownEnd(scope, e)
<1>1. {<<"registry", "unregistered_node">> : n \in {m \in Nodes(scope) : scope.kind[m] \notin known}} = {}
  BY DEF RegistryCodes
<1>2. {<<"registry", "sentinel_wrong_direction">> : e \in {f \in scope.edges : WrongWay(f)}} = {}
  BY DEF RegistryCodes
<1>3. {<<"registry", "unknown_edge_endpoint">> : e \in {f \in scope.edges : UnknownEnd(scope, f)}} = {}
  BY DEF RegistryCodes
<1>. QED  BY <1>1, <1>2, <1>3

LEMMA ArgsAreGood ==
  ASSUME NEW scope, NEW known, ArgsCodes(scope, known) = {}, NEW n \in scope.bad,
         scope.kind[n] \in known
  PROVE  scope.kind[n] \notin Schema
BY DEF ArgsCodes

LEMMA EveryNodeIsEntered ==
  ASSUME NEW scope, Nodes(scope) # {}, EntryCodes(scope) = {}
  PROVE  /\ \E e \in scope.edges : e[1] = Start
         /\ Nodes(scope) \subseteq Reachable(scope)
<1>1. \E e \in scope.edges : e[1] = Start
  BY DEF EntryCodes
<1>2. {<<"reachability", "unreachable_node">> : n \in Nodes(scope) \ Reachable(scope)} = {}
  BY <1>1 DEF EntryCodes
<1>. QED  BY <1>1, <1>2

LEMMA AdmittedBuilds ==
  ASSUME NEW plan, NEW known, known \subseteq registry, Status(plan, gate, known) = "admitted",
         gate.requireEntry, DOMAIN plan = {<<>>}, Nodes(Root(plan)) # {},
         \A e \in Root(plan).edges : {e[1], e[2]} \cap Live = {},
         \A n \in Nodes(Root(plan)) : Factory[Root(plan).kind[n]] = "builds"
  PROVE  /\ Buildable(plan) /\ Assembles(Root(plan))
         /\ \A n \in Nodes(Root(plan)) : HasBody(Root(plan), n)
<1>. DEFINE root == Root(plan)
<1>1. RegistryCodes(root, known) = {} /\ ArgsCodes(root, known) = {} /\ EntryCodes(root) = {}
  BY GatesPassed
<1>2. /\ \A n \in Nodes(root) : root.kind[n] \in known
      /\ \A e \in root.edges : ~WrongWay(e) /\ ~UnknownEnd(root, e)
  BY <1>1, EndsAreKnown
<1>3. \A e \in root.edges : {e[1], e[2]} \subseteq Nodes(root) \cup Sentinel
  BY <1>2 DEF UnknownEnd
<1>4. Buildable(plan)
  BY <1>1, <1>3, EveryNodeIsEntered DEF Buildable
<1>5. Assembles(root)
  BY <1>2 DEF Assembles, WrongWay
<1>6. \A n \in Nodes(root) : HasBody(root, n)
  BY <1>1, <1>2, ArgsAreGood DEF HasBody
<1>. QED  BY <1>4, <1>5, <1>6

(* The verdict in hand was reached on kinds that still are registered, and  *)
(* what was refused could not be built of the two in hand.                  *)
RefusalInv ==
  /\ verdict # NoPlan /\ verdict.status = "admitted" =>
       \E known \in SUBSET registry : Status(verdict.fingerprint.plan, gate, known) = "admitted"
  /\ phase = "refused" => verdict # NoPlan /\ ~Materializes(verdict, proposal)

LEMMA VerdictKeeps ==
  ASSUME RefusalInv, UNCHANGED <<gate, verdict>>, registry \subseteq registry', phase' # "refused"
  PROVE  RefusalInv'
BY DEF RefusalInv

LEMMA RefusalStep == RefusalInv /\ [Next]_vars => RefusalInv'
<1>. SUFFICES ASSUME RefusalInv, [Next]_vars PROVE RefusalInv'
  OBVIOUS
<1>1. CASE UNCHANGED vars
  <2>1. UNCHANGED <<gate, registry, verdict, phase, proposal>>
    BY <1>1 DEF vars, planning
  <2>. QED  BY <2>1 DEF RefusalInv, Materializes, HasBody
<1>2. ASSUME NEW structured, NEW heard, Turn(structured, heard) PROVE RefusalInv'
  BY <1>2, VerdictKeeps DEF Turn
<1>3. ASSUME NEW plan, Edit(plan) PROVE RefusalInv'
  BY <1>3, VerdictKeeps DEF Edit
<1>4. ASSUME NEW kind \in Late, Register(kind) PROVE RefusalInv'
  BY <1>4, VerdictKeeps DEF Register
<1>5. CASE Check
  <2>1. /\ verdict'.status = Status(proposal.plan, gate, registry)
        /\ verdict'.fingerprint.plan = proposal.plan
        /\ gate' = gate /\ registry' = registry /\ phase' # "refused"
    BY <1>5 DEF Check, Fingerprint
  <2>. QED  BY <2>1 DEF RefusalInv
<1>6. CASE Refuse
  <2>1. UNCHANGED <<gate, registry, verdict, proposal>> /\ verdict # NoPlan
    BY <1>6 DEF Refuse, planning
  <2>2. ~Materializes(verdict, proposal)
    BY <1>6 DEF Refuse
  <2>. QED  BY <2>1, <2>2 DEF RefusalInv, Materializes, HasBody
<1>7. CASE Build \/ Exhaust \/ Finish
  BY <1>7, VerdictKeeps DEF Build, Exhaust, Finish
<1>8. CASE Plain
  BY <1>8, VerdictKeeps DEF Plain, Superstep
<1>9. ASSUME NEW n \in Name, NEW to \in Vertex, Goto(n, to) \/ Send(n, to) \/ Stray(n, to)
      PROVE  RefusalInv'
  <2>1. PICK next \in SUBSET Name, sent \in SUBSET Name : Superstep(next, sent) \/ Stray(n, to)
    BY <1>9 DEF Goto, Send
  <2>. QED  BY <2>1, VerdictKeeps DEF Superstep, Stray
<1>. QED
  BY <1>1, <1>2, <1>3, <1>4, <1>5, <1>6, <1>7, <1>8, <1>9 DEF Next

(* A checker that requires an entry leaves the build nothing to refuse in a *)
(* flat plan of its own nodes whose factories work: of check() against      *)
(* _require_buildable, _body and compile(), for any plan, policies and      *)
(* kinds, whatever is edited or registered between the two.                 *)
THEOREM AdmittedPlanBuildsAlways == Spec => []AdmittedPlanBuilds
<1>1. Init => RefusalInv
  BY DEF Init, RefusalInv
<1>2. RefusalInv => AdmittedPlanBuilds
  <2>. SUFFICES ASSUME RefusalInv, phase = "refused", Authorised(verdict, proposal), gate.requireEntry,
                       DOMAIN proposal.plan = {<<>>}, Nodes(Root(proposal.plan)) # {},
                       \A e \in Root(proposal.plan).edges : {e[1], e[2]} \cap Live = {},
                       \A n \in Nodes(Root(proposal.plan)) :
                         Factory[Root(proposal.plan).kind[n]] = "builds"
                PROVE  FALSE
    BY Zenon DEF AdmittedPlanBuilds
  <2>1. verdict # NoPlan /\ ~Materializes(verdict, proposal)
    BY DEF RefusalInv
  <2>2. verdict.status = "admitted" /\ verdict.fingerprint.plan = proposal.plan
    BY DEF Authorised, Fingerprint
  <2>3. PICK known \in SUBSET registry : Status(proposal.plan, gate, known) = "admitted"
    BY <2>1, <2>2 DEF RefusalInv
  <2>4. /\ Buildable(proposal.plan) /\ Assembles(Root(proposal.plan))
        /\ \A n \in Nodes(Root(proposal.plan)) : HasBody(Root(proposal.plan), n)
    BY <2>3, AdmittedBuilds
  <2>. QED  BY <2>1, <2>4 DEF Materializes
<1>. QED  BY <1>1, <1>2, RefusalStep, PTL DEF Spec
===============================================================================
