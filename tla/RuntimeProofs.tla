----------------------------- MODULE RuntimeProofs -----------------------------
(***************************************************************************)
(* Proofs about the parts of an invocation: DeadlineGuard, for any number  *)
(* of nodes run by the thread and any number of teardown attempts;         *)
(* AsyncDeadline, for any number of firings and cancellations; ToolRun,    *)
(* for any number of lines in a container's output; TraceTail, for any     *)
(* number of processes, threads, kills and torn writes; and GraphKernel,   *)
(* for any finite set of nodes and every graph over them.                  *)
(***************************************************************************)
EXTENDS DeadlineGuard, AsyncDeadline, GraphKernel, TraceTail, ToolRun, FiniteSetTheorems,
        WellFoundedInduction, TLAPS

(* Where a timer thread holds its guard's lock, and the pooled thread too.  *)
Firing == {"locked", "raising", "rearming"}
Owning == {"held", "cancel", "clear", "release"}

(***************************************************************************)
(* The inductive invariant: the lock is what makes the teardown final.     *)
(***************************************************************************)
LockInv ==
  /\ \A g \in Guard, i \in TimerId :
       timer[g][i] \in Firing =>
         /\ state[g].lock = "timer"
         /\ \A j \in TimerId : timer[g][j] \in Firing => i = j
  /\ \A g \in Guard : state[g].lock = "owner" => g = cur /\ pc \in Owning
  /\ pc \in Owning => state[cur].lock = "owner"

PlaceInv ==
  /\ pc # "free" => cur \in Guard
  /\ \A g \in torn : g <= cur
  /\ pc \in Owning \cup {"acquire"} => attempt < Attempts

QueueInv ==
  /\ \A g \in Guard : slot = g => state[g].fired
  /\ \A g \in Guard, i \in TimerId : timer[g][i] = "raising" => state[g].fired

TearInv ==
  /\ pc \in {"cancel", "clear", "release"} => ~state[cur].armed
  /\ pc = "release" => slot # cur

IInv == TypeOK /\ LockInv /\ PlaceInv /\ QueueInv /\ TearInv /\ TornDownIsQuiet

LEMMA GuardFacts ==
  /\ MaxGuards \in Nat
  /\ Attempts \in Nat
  /\ Guard \subseteq Nat
  /\ 0 \notin Guard
  /\ \A g : g \in Guard <=> g \in Nat /\ 1 <= g /\ g <= MaxGuards
BY GuardAssumption DEF GuardAssumption, Guard

LEMMA InvInit == Init => IInv
<1>. SUFFICES ASSUME Init PROVE IInv
  OBVIOUS
<1>1. TypeOK
  <2>1. state \in [Guard -> [armed : BOOLEAN, fired : BOOLEAN, late : BOOLEAN,
                             lock : {"free", "owner", "timer"}, timer : TimerId]]
    BY DEF Init, TimerId
  <2>2. timer \in [Guard -> [TimerId -> {"dead", "waiting", "firing", "locked",
                                         "raising", "rearming"}]]
    BY DEF Init
  <2>3. raising \in BOOLEAN
    BY DEF Init
  <2>. QED  BY <2>1, <2>2, <2>3, GuardFacts DEF Init, TypeOK, Exposed, InTry
<1>2. LockInv /\ PlaceInv /\ QueueInv
  BY GuardFacts DEF Init, LockInv, PlaceInv, QueueInv, TimerId, Firing, Owning
<1>3. TearInv /\ TornDownIsQuiet
  BY GuardFacts DEF Init, TearInv, TornDownIsQuiet
<1>. QED  BY <1>1, <1>2, <1>3 DEF IInv

LEMMA InvNext == IInv /\ [Next]_vars => IInv'
<1>. SUFFICES ASSUME IInv, [Next]_vars PROVE IInv'
  OBVIOUS
<1>. USE GuardFacts DEF IInv, TypeOK, TimerId, Exposed, InTry, Firing, Owning
<1>1. ASSUME NEW g \in Guard, DeadlinePasses(g) PROVE IInv'
  <2>1. TypeOK'
    BY <1>1 DEF DeadlinePasses, PlaceInv
  <2>2. LockInv'
    BY <1>1 DEF DeadlinePasses, LockInv, PlaceInv
  <2>3. PlaceInv'
    BY <1>1 DEF DeadlinePasses, PlaceInv
  <2>4. QueueInv'
    BY <1>1 DEF DeadlinePasses, QueueInv, PlaceInv, LockInv
  <2>5. TearInv'
    BY <1>1 DEF DeadlinePasses, TearInv, LockInv, QueueInv, PlaceInv
  <2>6. TornDownIsQuiet'
    BY <1>1 DEF DeadlinePasses, TornDownIsQuiet, TearInv, PlaceInv, LockInv
  <2>. QED  BY <2>1, <2>2, <2>3, <2>4, <2>5, <2>6 DEF IInv
<1>2. ASSUME NEW g \in Guard, NEW i \in TimerId, TimerElapses(g, i) PROVE IInv'
  <2>1. TypeOK'
    BY <1>2 DEF TimerElapses, Move, PlaceInv
  <2>2. LockInv'
    BY <1>2 DEF TimerElapses, Move, LockInv, PlaceInv
  <2>3. PlaceInv'
    BY <1>2 DEF TimerElapses, Move, PlaceInv
  <2>4. QueueInv'
    BY <1>2 DEF TimerElapses, Move, QueueInv, PlaceInv, LockInv
  <2>5. TearInv'
    BY <1>2 DEF TimerElapses, Move, TearInv, LockInv, QueueInv, PlaceInv
  <2>6. TornDownIsQuiet'
    BY <1>2 DEF TimerElapses, Move, TornDownIsQuiet, TearInv, PlaceInv, LockInv
  <2>. QED  BY <2>1, <2>2, <2>3, <2>4, <2>5, <2>6 DEF IInv
<1>3. ASSUME NEW g \in Guard, NEW i \in TimerId, FireLocks(g, i) PROVE IInv'
  <2>1. TypeOK'
    BY <1>3 DEF FireLocks, Move, PlaceInv
  <2>2. LockInv'
    BY <1>3 DEF FireLocks, Move, LockInv, PlaceInv
  <2>3. PlaceInv'
    BY <1>3 DEF FireLocks, Move, PlaceInv
  <2>4. QueueInv'
    BY <1>3 DEF FireLocks, Move, QueueInv, PlaceInv, LockInv
  <2>5. TearInv'
    BY <1>3 DEF FireLocks, Move, TearInv, LockInv, QueueInv, PlaceInv
  <2>6. TornDownIsQuiet'
    BY <1>3 DEF FireLocks, Move, TornDownIsQuiet, TearInv, PlaceInv, LockInv
  <2>. QED  BY <2>1, <2>2, <2>3, <2>4, <2>5, <2>6 DEF IInv
<1>4. ASSUME NEW g \in Guard, NEW i \in TimerId, FireDisarmed(g, i) PROVE IInv'
  <2>1. TypeOK'
    BY <1>4 DEF FireDisarmed, Move, PlaceInv
  <2>2. LockInv'
    BY <1>4 DEF FireDisarmed, Move, LockInv, PlaceInv
  <2>3. PlaceInv'
    BY <1>4 DEF FireDisarmed, Move, PlaceInv
  <2>4. QueueInv'
    BY <1>4 DEF FireDisarmed, Move, QueueInv, PlaceInv, LockInv
  <2>5. TearInv'
    BY <1>4 DEF FireDisarmed, Move, TearInv, LockInv, QueueInv, PlaceInv
  <2>6. TornDownIsQuiet'
    BY <1>4 DEF FireDisarmed, Move, TornDownIsQuiet, TearInv, PlaceInv, LockInv
  <2>. QED  BY <2>1, <2>2, <2>3, <2>4, <2>5, <2>6 DEF IInv
<1>5. ASSUME NEW g \in Guard, NEW i \in TimerId, FireArmed(g, i) PROVE IInv'
  <2>1. TypeOK'
    BY <1>5 DEF FireArmed, Move, PlaceInv
  <2>2. LockInv'
    BY <1>5 DEF FireArmed, Move, LockInv, PlaceInv
  <2>3. PlaceInv'
    BY <1>5 DEF FireArmed, Move, PlaceInv
  <2>4. QueueInv'
    BY <1>5 DEF FireArmed, Move, QueueInv, PlaceInv, LockInv
  <2>5. TearInv'
    BY <1>5 DEF FireArmed, Move, TearInv, LockInv, QueueInv, PlaceInv
  <2>6. TornDownIsQuiet'
    BY <1>5 DEF FireArmed, Move, TornDownIsQuiet, TearInv, PlaceInv, LockInv
  <2>. QED  BY <2>1, <2>2, <2>3, <2>4, <2>5, <2>6 DEF IInv
<1>6. ASSUME NEW g \in Guard, NEW i \in TimerId, FireRaises(g, i) PROVE IInv'
  <2>1. TypeOK'
    BY <1>6 DEF FireRaises, Move, PlaceInv
  <2>2. LockInv'
    BY <1>6 DEF FireRaises, Move, LockInv, PlaceInv
  <2>3. PlaceInv'
    BY <1>6 DEF FireRaises, Move, PlaceInv
  <2>4. QueueInv'
    BY <1>6 DEF FireRaises, Move, QueueInv, PlaceInv, LockInv
  <2>5. TearInv'
    BY <1>6 DEF FireRaises, Move, TearInv, LockInv, QueueInv, PlaceInv
  <2>6. TornDownIsQuiet'
    BY <1>6 DEF FireRaises, Move, TornDownIsQuiet, TearInv, PlaceInv, LockInv
  <2>. QED  BY <2>1, <2>2, <2>3, <2>4, <2>5, <2>6 DEF IInv
<1>7. ASSUME NEW g \in Guard, NEW i \in TimerId, FireRearms(g, i) PROVE IInv'
  <2>1. TypeOK'
    <3>1. state' \in [Guard -> [armed : BOOLEAN, fired : BOOLEAN, late : BOOLEAN,
                                lock : {"free", "owner", "timer"}, timer : TimerId]]
      <4>1. 3 - i \in TimerId
        OBVIOUS
      <4>. QED  BY <1>7, <4>1 DEF FireRearms
    <3>2. timer' \in [Guard -> [TimerId -> {"dead", "waiting", "firing", "locked",
                                            "raising", "rearming"}]]
      BY <1>7 DEF FireRearms
    <3>3. pc' \in {"free", "armed", "body", "acquire", "release"} \cup Exposed \cup InTry
      BY <1>7 DEF FireRearms
    <3>. QED  BY <1>7, <3>1, <3>2, <3>3 DEF FireRearms
  <2>2. LockInv'
    BY <1>7 DEF FireRearms, LockInv, PlaceInv
  <2>3. PlaceInv'
    BY <1>7 DEF FireRearms, PlaceInv
  <2>4. QueueInv'
    BY <1>7 DEF FireRearms, QueueInv, PlaceInv, LockInv
  <2>5. TearInv'
    BY <1>7 DEF FireRearms, TearInv, LockInv, QueueInv, PlaceInv
  <2>6. TornDownIsQuiet'
    BY <1>7 DEF FireRearms, TornDownIsQuiet, TearInv, PlaceInv, LockInv
  <2>. QED  BY <2>1, <2>2, <2>3, <2>4, <2>5, <2>6 DEF IInv
<1>8. ASSUME Arm PROVE IInv'
  <2>1. TypeOK'
    <3>1. state' \in [Guard -> [armed : BOOLEAN, fired : BOOLEAN, late : BOOLEAN,
                                lock : {"free", "owner", "timer"}, timer : TimerId]]
      BY <1>8 DEF Arm, Goto, PlaceInv
    <3>2. timer' \in [Guard -> [TimerId -> {"dead", "waiting", "firing", "locked",
                                            "raising", "rearming"}]]
      BY <1>8 DEF Arm, Goto
    <3>3. pc' \in {"free", "armed", "body", "acquire", "release"} \cup Exposed \cup InTry
      BY <1>8 DEF Arm, Goto
    <3>4. raising' \in BOOLEAN
      BY <1>8 DEF Arm, Goto
    <3>. QED  BY <1>8, <3>1, <3>2, <3>3, <3>4 DEF Arm, Goto
  <2>2. LockInv'
    BY <1>8 DEF Arm, Goto, LockInv, PlaceInv
  <2>3. PlaceInv'
    BY <1>8 DEF Arm, Goto, PlaceInv
  <2>4. QueueInv'
    BY <1>8 DEF Arm, Goto, QueueInv, PlaceInv, LockInv
  <2>5. TearInv'
    BY <1>8 DEF Arm, Goto, TearInv, LockInv, QueueInv, PlaceInv
  <2>6. TornDownIsQuiet'
    BY <1>8 DEF Arm, Goto, TornDownIsQuiet, TearInv, PlaceInv, LockInv
  <2>. QED  BY <2>1, <2>2, <2>3, <2>4, <2>5, <2>6 DEF IInv
<1>9. ASSUME BeginBody PROVE IInv'
  <2>1. TypeOK'
    BY <1>9 DEF BeginBody, Goto, Local, PlaceInv
  <2>2. LockInv'
    BY <1>9 DEF BeginBody, Goto, Local, LockInv, PlaceInv
  <2>3. PlaceInv'
    BY <1>9 DEF BeginBody, Goto, Local, PlaceInv
  <2>4. QueueInv'
    BY <1>9 DEF BeginBody, Goto, Local, QueueInv, PlaceInv, LockInv
  <2>5. TearInv'
    BY <1>9 DEF BeginBody, Goto, Local, TearInv, LockInv, QueueInv, PlaceInv
  <2>6. TornDownIsQuiet'
    BY <1>9 DEF BeginBody, Goto, Local, TornDownIsQuiet, TearInv, PlaceInv, LockInv
  <2>. QED  BY <2>1, <2>2, <2>3, <2>4, <2>5, <2>6 DEF IInv
<1>10. ASSUME EndBody PROVE IInv'
  <2>1. TypeOK'
    BY <1>10 DEF EndBody, Goto, Local, PlaceInv
  <2>2. LockInv'
    BY <1>10 DEF EndBody, Goto, Local, LockInv, PlaceInv
  <2>3. PlaceInv'
    BY <1>10 DEF EndBody, Goto, Local, PlaceInv
  <2>4. QueueInv'
    BY <1>10 DEF EndBody, Goto, Local, QueueInv, PlaceInv, LockInv
  <2>5. TearInv'
    BY <1>10 DEF EndBody, Goto, Local, TearInv, LockInv, QueueInv, PlaceInv
  <2>6. TornDownIsQuiet'
    BY <1>10 DEF EndBody, Goto, Local, TornDownIsQuiet, TearInv, PlaceInv, LockInv
  <2>. QED  BY <2>1, <2>2, <2>3, <2>4, <2>5, <2>6 DEF IInv
<1>11. ASSUME BeginAttempt PROVE IInv'
  <2>1. TypeOK'
    BY <1>11 DEF BeginAttempt, Goto, Local, PlaceInv
  <2>2. LockInv'
    BY <1>11 DEF BeginAttempt, Goto, Local, LockInv, PlaceInv
  <2>3. PlaceInv'
    BY <1>11 DEF BeginAttempt, Goto, Local, PlaceInv
  <2>4. QueueInv'
    BY <1>11 DEF BeginAttempt, Goto, Local, QueueInv, PlaceInv, LockInv
  <2>5. TearInv'
    BY <1>11 DEF BeginAttempt, Goto, Local, TearInv, LockInv, QueueInv, PlaceInv
  <2>6. TornDownIsQuiet'
    BY <1>11 DEF BeginAttempt, Goto, Local, TornDownIsQuiet, TearInv, PlaceInv, LockInv
  <2>. QED  BY <2>1, <2>2, <2>3, <2>4, <2>5, <2>6 DEF IInv
<1>12. ASSUME Acquire PROVE IInv'
  <2>1. TypeOK'
    BY <1>12 DEF Acquire, Goto, Local, Mine, PlaceInv
  <2>2. LockInv'
    BY <1>12 DEF Acquire, Goto, Local, Mine, LockInv, PlaceInv
  <2>3. PlaceInv'
    BY <1>12 DEF Acquire, Goto, Local, Mine, PlaceInv
  <2>4. QueueInv'
    BY <1>12 DEF Acquire, Goto, Local, Mine, QueueInv, PlaceInv, LockInv
  <2>5. TearInv'
    BY <1>12 DEF Acquire, Goto, Local, Mine, TearInv, LockInv, QueueInv, PlaceInv
  <2>6. TornDownIsQuiet'
    BY <1>12 DEF Acquire, Goto, Local, Mine, TornDownIsQuiet, TearInv, PlaceInv, LockInv
  <2>. QED  BY <2>1, <2>2, <2>3, <2>4, <2>5, <2>6 DEF IInv
<1>13. ASSUME Disarm("held", "cancel") PROVE IInv'
  <2>1. TypeOK'
    BY <1>13 DEF Disarm, Goto, Local, PlaceInv
  <2>2. LockInv'
    BY <1>13 DEF Disarm, Goto, Local, LockInv, PlaceInv
  <2>3. PlaceInv'
    BY <1>13 DEF Disarm, Goto, Local, PlaceInv
  <2>4. QueueInv'
    BY <1>13 DEF Disarm, Goto, Local, QueueInv, PlaceInv, LockInv
  <2>5. TearInv'
    BY <1>13 DEF Disarm, Goto, Local, TearInv, LockInv, QueueInv, PlaceInv
  <2>6. TornDownIsQuiet'
    BY <1>13 DEF Disarm, Goto, Local, TornDownIsQuiet, TearInv, PlaceInv, LockInv
  <2>. QED  BY <2>1, <2>2, <2>3, <2>4, <2>5, <2>6 DEF IInv
<1>14. ASSUME Disarm("last_disarm", "last_cancel") PROVE IInv'
  <2>1. TypeOK'
    BY <1>14 DEF Disarm, Goto, Local, PlaceInv
  <2>2. LockInv'
    BY <1>14 DEF Disarm, Goto, Local, LockInv, PlaceInv
  <2>3. PlaceInv'
    BY <1>14 DEF Disarm, Goto, Local, PlaceInv
  <2>4. QueueInv'
    BY <1>14 DEF Disarm, Goto, Local, QueueInv, PlaceInv, LockInv
  <2>5. TearInv'
    BY <1>14 DEF Disarm, Goto, Local, TearInv, LockInv, QueueInv, PlaceInv
  <2>6. TornDownIsQuiet'
    BY <1>14 DEF Disarm, Goto, Local, TornDownIsQuiet, TearInv, PlaceInv, LockInv
  <2>. QED  BY <2>1, <2>2, <2>3, <2>4, <2>5, <2>6 DEF IInv
<1>15. ASSUME Cancel("cancel", "clear") PROVE IInv'
  <2>1. TypeOK'
    BY <1>15 DEF Cancel, Goto, Mine, PlaceInv
  <2>2. LockInv'
    BY <1>15 DEF Cancel, Goto, Mine, LockInv, PlaceInv
  <2>3. PlaceInv'
    BY <1>15 DEF Cancel, Goto, Mine, PlaceInv
  <2>4. QueueInv'
    BY <1>15 DEF Cancel, Goto, Mine, QueueInv, PlaceInv, LockInv
  <2>5. TearInv'
    BY <1>15 DEF Cancel, Goto, Mine, TearInv, LockInv, QueueInv, PlaceInv
  <2>6. TornDownIsQuiet'
    BY <1>15 DEF Cancel, Goto, Mine, TornDownIsQuiet, TearInv, PlaceInv, LockInv
  <2>. QED  BY <2>1, <2>2, <2>3, <2>4, <2>5, <2>6 DEF IInv
<1>16. ASSUME Cancel("last_cancel", "last_clear") PROVE IInv'
  <2>1. TypeOK'
    BY <1>16 DEF Cancel, Goto, Mine, PlaceInv
  <2>2. LockInv'
    BY <1>16 DEF Cancel, Goto, Mine, LockInv, PlaceInv
  <2>3. PlaceInv'
    BY <1>16 DEF Cancel, Goto, Mine, PlaceInv
  <2>4. QueueInv'
    BY <1>16 DEF Cancel, Goto, Mine, QueueInv, PlaceInv, LockInv
  <2>5. TearInv'
    BY <1>16 DEF Cancel, Goto, Mine, TearInv, LockInv, QueueInv, PlaceInv
  <2>6. TornDownIsQuiet'
    BY <1>16 DEF Cancel, Goto, Mine, TornDownIsQuiet, TearInv, PlaceInv, LockInv
  <2>. QED  BY <2>1, <2>2, <2>3, <2>4, <2>5, <2>6 DEF IInv
<1>17. ASSUME Clear PROVE IInv'
  <2>1. TypeOK'
    BY <1>17 DEF Clear, Goto, Mine, PlaceInv
  <2>2. LockInv'
    BY <1>17 DEF Clear, Goto, Mine, LockInv, PlaceInv
  <2>3. PlaceInv'
    BY <1>17 DEF Clear, Goto, Mine, PlaceInv
  <2>4. QueueInv'
    BY <1>17 DEF Clear, Goto, Mine, QueueInv, PlaceInv, LockInv
  <2>5. TearInv'
    BY <1>17 DEF Clear, Goto, Mine, TearInv, LockInv, QueueInv, PlaceInv
  <2>6. TornDownIsQuiet'
    BY <1>17 DEF Clear, Goto, Mine, TornDownIsQuiet, TearInv, PlaceInv, LockInv
  <2>. QED  BY <2>1, <2>2, <2>3, <2>4, <2>5, <2>6 DEF IInv
<1>18. ASSUME Release PROVE IInv'
  <2>1. TypeOK'
    BY <1>18 DEF Release, Goto, PlaceInv
  <2>2. LockInv'
    BY <1>18 DEF Release, Goto, LockInv, PlaceInv
  <2>3. PlaceInv'
    BY <1>18 DEF Release, Goto, PlaceInv
  <2>4. QueueInv'
    BY <1>18 DEF Release, Goto, QueueInv, PlaceInv, LockInv
  <2>5. TearInv'
    BY <1>18 DEF Release, Goto, TearInv, LockInv, QueueInv, PlaceInv
  <2>6. TornDownIsQuiet'
    BY <1>18 DEF Release, Goto, TornDownIsQuiet, TearInv, PlaceInv, LockInv
  <2>. QED  BY <2>1, <2>2, <2>3, <2>4, <2>5, <2>6 DEF IInv
<1>19. ASSUME GiveUp PROVE IInv'
  <2>1. TypeOK'
    BY <1>19 DEF GiveUp, Goto, Local, PlaceInv
  <2>2. LockInv'
    BY <1>19 DEF GiveUp, Goto, Local, LockInv, PlaceInv
  <2>3. PlaceInv'
    BY <1>19 DEF GiveUp, Goto, Local, PlaceInv
  <2>4. QueueInv'
    BY <1>19 DEF GiveUp, Goto, Local, QueueInv, PlaceInv, LockInv
  <2>5. TearInv'
    BY <1>19 DEF GiveUp, Goto, Local, TearInv, LockInv, QueueInv, PlaceInv
  <2>6. TornDownIsQuiet'
    BY <1>19 DEF GiveUp, Goto, Local, TornDownIsQuiet, TearInv, PlaceInv, LockInv
  <2>. QED  BY <2>1, <2>2, <2>3, <2>4, <2>5, <2>6 DEF IInv
<1>20. ASSUME LastClear PROVE IInv'
  <2>1. TypeOK'
    BY <1>20 DEF LastClear, Goto, PlaceInv
  <2>2. LockInv'
    BY <1>20 DEF LastClear, Goto, LockInv, PlaceInv
  <2>3. PlaceInv'
    BY <1>20 DEF LastClear, Goto, PlaceInv
  <2>4. QueueInv'
    BY <1>20 DEF LastClear, Goto, QueueInv, PlaceInv, LockInv
  <2>5. TearInv'
    BY <1>20 DEF LastClear, Goto, TearInv, LockInv, QueueInv, PlaceInv
  <2>6. TornDownIsQuiet'
    BY <1>20 DEF LastClear, Goto, TornDownIsQuiet, TearInv, PlaceInv, LockInv
  <2>. QED  BY <2>1, <2>2, <2>3, <2>4, <2>5, <2>6 DEF IInv
<1>21. ASSUME Exit PROVE IInv'
  <2>1. TypeOK'
    BY <1>21 DEF Exit, Goto, Mine, PlaceInv
  <2>2. LockInv'
    BY <1>21 DEF Exit, Goto, Mine, LockInv, PlaceInv
  <2>3. PlaceInv'
    BY <1>21 DEF Exit, Goto, Mine, PlaceInv
  <2>4. QueueInv'
    BY <1>21 DEF Exit, Goto, Mine, QueueInv, PlaceInv, LockInv
  <2>5. TearInv'
    BY <1>21 DEF Exit, Goto, Mine, TearInv, LockInv, QueueInv, PlaceInv
  <2>6. TornDownIsQuiet'
    BY <1>21 DEF Exit, Goto, Mine, TornDownIsQuiet, TearInv, PlaceInv, LockInv
  <2>. QED  BY <2>1, <2>2, <2>3, <2>4, <2>5, <2>6 DEF IInv
<1>22. ASSUME DeliverInBody PROVE IInv'
  <2>1. TypeOK'
    <3>1. state' \in [Guard -> [armed : BOOLEAN, fired : BOOLEAN, late : BOOLEAN,
                                lock : {"free", "owner", "timer"}, timer : TimerId]]
      BY <1>22 DEF DeliverInBody, Deliver, Goto, PlaceInv
    <3>2. timer' \in [Guard -> [TimerId -> {"dead", "waiting", "firing", "locked",
                                            "raising", "rearming"}]]
      BY <1>22 DEF DeliverInBody, Deliver, Goto
    <3>3. pc' \in {"free", "armed", "body", "acquire", "release"} \cup Exposed \cup InTry
      BY <1>22 DEF DeliverInBody, Deliver, Goto
    <3>4. raising' \in BOOLEAN
      BY <1>22 DEF DeliverInBody, Deliver, Goto
    <3>5. slot' \in 0..MaxGuards /\ attempt' \in 0..Attempts /\ cur' \in 0..MaxGuards
      BY <1>22 DEF DeliverInBody, Deliver, Goto
    <3>6. landed' \subseteq Guard /\ torn' \subseteq Guard
      BY <1>22 DEF DeliverInBody, Deliver, Goto
    <3>. QED  BY <3>1, <3>2, <3>3, <3>4, <3>5, <3>6
  <2>2. LockInv'
    BY <1>22 DEF DeliverInBody, Deliver, Goto, LockInv, PlaceInv
  <2>3. PlaceInv'
    BY <1>22 DEF DeliverInBody, Deliver, Goto, PlaceInv
  <2>4. QueueInv'
    BY <1>22 DEF DeliverInBody, Deliver, Goto, QueueInv, PlaceInv, LockInv
  <2>5. TearInv'
    BY <1>22 DEF DeliverInBody, Deliver, Goto, TearInv, LockInv, QueueInv, PlaceInv
  <2>6. TornDownIsQuiet'
    BY <1>22 DEF DeliverInBody, Deliver, Goto, TornDownIsQuiet, TearInv, PlaceInv, LockInv
  <2>. QED  BY <2>1, <2>2, <2>3, <2>4, <2>5, <2>6 DEF IInv
<1>23. ASSUME DeliverInTry PROVE IInv'
  <2>1. TypeOK'
    <3>1. state' \in [Guard -> [armed : BOOLEAN, fired : BOOLEAN, late : BOOLEAN,
                                lock : {"free", "owner", "timer"}, timer : TimerId]]
      BY <1>23 DEF DeliverInTry, Deliver, Goto, PlaceInv
    <3>2. timer' \in [Guard -> [TimerId -> {"dead", "waiting", "firing", "locked",
                                            "raising", "rearming"}]]
      BY <1>23 DEF DeliverInTry, Deliver, Goto
    <3>3. pc' \in {"free", "armed", "body", "acquire", "release"} \cup Exposed \cup InTry
      BY <1>23 DEF DeliverInTry, Deliver, Goto
    <3>4. raising' \in BOOLEAN
      BY <1>23 DEF DeliverInTry, Deliver, Goto
    <3>5. slot' \in 0..MaxGuards /\ attempt' \in 0..Attempts /\ cur' \in 0..MaxGuards
      BY <1>23 DEF DeliverInTry, Deliver, Goto, PlaceInv
    <3>6. landed' \subseteq Guard /\ torn' \subseteq Guard
      BY <1>23 DEF DeliverInTry, Deliver, Goto
    <3>. QED  BY <3>1, <3>2, <3>3, <3>4, <3>5, <3>6
  <2>2. LockInv'
    BY <1>23 DEF DeliverInTry, Deliver, Goto, LockInv, PlaceInv
  <2>3. PlaceInv'
    BY <1>23 DEF DeliverInTry, Deliver, Goto, PlaceInv
  <2>4. QueueInv'
    BY <1>23 DEF DeliverInTry, Deliver, Goto, QueueInv, PlaceInv, LockInv
  <2>5. TearInv'
    BY <1>23 DEF DeliverInTry, Deliver, Goto, TearInv, LockInv, QueueInv, PlaceInv
  <2>6. TornDownIsQuiet'
    BY <1>23 DEF DeliverInTry, Deliver, Goto, TornDownIsQuiet, TearInv, PlaceInv, LockInv
  <2>. QED  BY <2>1, <2>2, <2>3, <2>4, <2>5, <2>6 DEF IInv
<1>24. ASSUME DeliverExposed PROVE IInv'
  <2>1. TypeOK'
    BY <1>24 DEF DeliverExposed, Deliver, Goto, PlaceInv
  <2>2. LockInv'
    BY <1>24 DEF DeliverExposed, Deliver, Goto, LockInv, PlaceInv
  <2>3. PlaceInv'
    BY <1>24 DEF DeliverExposed, Deliver, Goto, PlaceInv
  <2>4. QueueInv'
    BY <1>24 DEF DeliverExposed, Deliver, Goto, QueueInv, PlaceInv, LockInv
  <2>5. TearInv'
    BY <1>24 DEF DeliverExposed, Deliver, Goto, TearInv, LockInv, QueueInv, PlaceInv
  <2>6. TornDownIsQuiet'
    BY <1>24 DEF DeliverExposed, Deliver, Goto, TornDownIsQuiet, TearInv, PlaceInv, LockInv
  <2>. QED  BY <2>1, <2>2, <2>3, <2>4, <2>5, <2>6 DEF IInv
<1>25. ASSUME DeliverStray PROVE IInv'
  <2>1. TypeOK'
    BY <1>25 DEF DeliverStray, Deliver, Goto, PlaceInv
  <2>2. LockInv'
    BY <1>25 DEF DeliverStray, Deliver, Goto, LockInv, PlaceInv
  <2>3. PlaceInv'
    BY <1>25 DEF DeliverStray, Deliver, Goto, PlaceInv
  <2>4. QueueInv'
    BY <1>25 DEF DeliverStray, Deliver, Goto, QueueInv, PlaceInv, LockInv
  <2>5. TearInv'
    BY <1>25 DEF DeliverStray, Deliver, Goto, TearInv, LockInv, QueueInv, PlaceInv
  <2>6. TornDownIsQuiet'
    BY <1>25 DEF DeliverStray, Deliver, Goto, TornDownIsQuiet, TearInv, PlaceInv, LockInv
  <2>. QED  BY <2>1, <2>2, <2>3, <2>4, <2>5, <2>6 DEF IInv
<1>26. CASE UNCHANGED vars
  BY <1>26 DEF vars, TypeOK, LockInv, PlaceInv, QueueInv, TearInv, TornDownIsQuiet
<1>. QED  BY <1>1, <1>2, <1>3, <1>4, <1>5, <1>6, <1>7, <1>8, <1>9, <1>10, <1>11, <1>12, <1>13, <1>14, <1>15, <1>16, <1>17, <1>18, <1>19, <1>20, <1>21, <1>22, <1>23, <1>24, <1>25, <1>26 DEF Next, Fire, Teardown, Interrupted

(***************************************************************************)
(* Theorems.                                                               *)
(***************************************************************************)
LEMMA InvAlways == Spec => []IInv
BY InvInit, InvNext, PTL DEF Spec

(* Every variable of a guard keeps its type, the count of interrupted       *)
(* attempts within _DISARM_ATTEMPTS included.                               *)
THEOREM TypeCorrect == Spec => []TypeOK
<1>1. IInv => TypeOK
  BY DEF IInv
<1>. QED  BY <1>1, InvAlways, PTL

(* A teardown that ran to its end is final: its guard's exception is not    *)
(* queued, and no timer of it, however late, will queue one.                *)
THEOREM TornDownIsQuietAlways == Spec => []TornDownIsQuiet
<1>1. IInv => TornDownIsQuiet
  BY DEF IInv
<1>. QED  BY <1>1, InvAlways, PTL

(***************************************************************************)
(* The coroutine's form of the same deadline.                              *)
(***************************************************************************)
Ends == {"none", "result", "error", "deadline", "deadline thrown", "cancelled"}

(* The values the variables range over.                                     *)
TaskTypeOK ==
  /\ at \in {"running", "waiting", "ready", "out"} /\ outcome \in Ends
  /\ requests \in Int /\ fired \in Nat /\ caller \in Nat /\ baseline \in Nat
  /\ thrown \in BOOLEAN /\ late \in BOOLEAN

(* While the node runs every request on the task has somebody who made it;  *)
(* once it is out those of the guard are gone, and its end says whose they  *)
(* were.                                                                    *)
Counts ==
  /\ at # "out" => requests = baseline + fired + caller
  /\ at = "out" => requests = baseline + caller
  /\ outcome = "deadline thrown" => caller = 0
  /\ outcome = "cancelled" => caller > 0

Asked == fired + caller > 0

(* What is to be thrown was asked for, and only a task about to be resumed  *)
(* has something to be thrown at it.                                        *)
Throws ==
  /\ thrown => Asked /\ at = "ready"
  /\ at # "out" => outcome = "none"

TaskInv == TaskTypeOK /\ Counts /\ Throws

LEMMA HandedBack ==
  ASSUME NEW r \in Int, NEW b \in Nat, NEW f \in Nat, NEW c \in Nat, r = b + f + c
  PROVE  r - f \in Int /\ r - f = b + c
OBVIOUS

LEMMA OneMore ==
  ASSUME NEW r \in Int, NEW b \in Nat, NEW f \in Nat, NEW c \in Nat, r = b + f + c
  PROVE  r + 1 = b + (f + 1) + c /\ r + 1 = b + f + (c + 1)
OBVIOUS

LEMMA TaskInit == AsyncInit => TaskInv
<1>. SUFFICES ASSUME AsyncInit PROVE TaskInv
  OBVIOUS
<1>1. baseline \in Nat /\ requests \in Int
  BY DEF AsyncInit
<1>2. TaskTypeOK
  BY <1>1 DEF AsyncInit, TaskTypeOK, Ends
<1>3. Counts
  BY <1>1 DEF AsyncInit, Counts
<1>4. Throws
  BY ZenonT(20) DEF AsyncInit, Throws
<1>. QED  BY <1>2, <1>3, <1>4 DEF TaskInv

(* The way out: what the guard asked for is taken back, and what is left is *)
(* what the caller asked for.                                               *)
LEMMA LeavingHandsBack ==
  ASSUME TaskInv, at # "out", thrown' = FALSE, NEW ending \in Ends, Leave(ending),
         ending = "deadline thrown" => caller = 0,
         ending = "cancelled" => caller > 0
  PROVE  TaskInv'
<1>1. /\ at' = "out" /\ requests' = requests - fired /\ outcome' = ending
      /\ fired' = fired /\ late' = late /\ caller' = caller /\ baseline' = baseline
  BY DEF Leave, Retracted
<1>2. requests \in Int /\ fired \in Nat /\ caller \in Nat /\ baseline \in Nat
  BY DEF TaskInv, TaskTypeOK
<1>3. requests = baseline + fired + caller
  BY DEF TaskInv, Counts
<1>4. requests' \in Int /\ requests' = baseline + caller
  BY <1>1, <1>2, <1>3, HandedBack
<1>5. TaskTypeOK'
  BY <1>1, <1>4 DEF TaskInv, TaskTypeOK
<1>6. Counts'
  BY <1>1, <1>4 DEF Counts
<1>7. Throws'
  BY <1>1, Zenon DEF Throws
<1>. QED  BY <1>5, <1>6, <1>7 DEF TaskInv

(* Steps of the environment and of the node that stay inside the guard and  *)
(* ask for nothing.                                                         *)
LEMMA QuietTaskSteps ==
  ASSUME TaskInv, at # "out", at' \in {"running", "waiting", "ready"}, late' \in BOOLEAN,
         thrown' = FALSE \/ (thrown' = thrown /\ at' = at),
         UNCHANGED <<requests, fired, caller, baseline, outcome>>
  PROVE  TaskInv'
<1>1. TaskTypeOK'
  <2>1. thrown' \in BOOLEAN
    BY Zenon DEF TaskInv, TaskTypeOK
  <2>. QED  BY <2>1 DEF TaskInv, TaskTypeOK
<1>2. Counts'
  BY DEF TaskInv, Counts
<1>3. Asked' = Asked
  BY DEF Asked
<1>4. at # "out" /\ outcome' = outcome /\ (thrown' = FALSE \/ (thrown' = thrown /\ at' = at))
  OBVIOUS
<1>5. Throws'
  <2>1. CASE thrown' = FALSE
    BY <1>4, <2>1, Zenon DEF TaskInv, Throws
  <2>2. CASE thrown' = thrown /\ at' = at
    BY <1>3, <1>4, <2>2, Zenon DEF TaskInv, Throws
  <2>. QED  BY <1>4, <2>1, <2>2
<1>. QED  BY <1>1, <1>2, <1>5 DEF TaskInv

(* A cancellation, the timer's or the caller's.                             *)
LEMMA CancellingCounts ==
  ASSUME TaskInv, at # "out", Cancelled, UNCHANGED <<late, baseline, outcome>>,
         \/ fired' = fired + 1 /\ caller' = caller
         \/ caller' = caller + 1 /\ fired' = fired
  PROVE  TaskInv'
<1>1. at' = "ready" /\ requests' = requests + 1 /\ thrown' = TRUE
  BY DEF Cancelled
<1>2. requests \in Int /\ fired \in Nat /\ caller \in Nat /\ baseline \in Nat
  BY DEF TaskInv, TaskTypeOK
<1>3. requests' \in Int /\ fired' \in Nat /\ caller' \in Nat
  BY <1>1, <1>2
<1>4. TaskTypeOK'
  BY <1>1, <1>3 DEF TaskInv, TaskTypeOK
<1>5. Counts'
  <2>1. outcome' = "none"
    BY DEF TaskInv, Throws
  <2>2. requests = baseline + fired + caller
    BY DEF TaskInv, Counts
  <2>3. requests' = baseline' + fired' + caller'
    BY <1>1, <1>2, <2>2, OneMore
  <2>. QED  BY <1>1, <2>1, <2>3 DEF Counts
<1>6. Asked'
  BY <1>2 DEF Asked
<1>7. at # "out" /\ outcome' = outcome
  OBVIOUS
<1>8. Throws'
  BY <1>1, <1>6, <1>7, Zenon DEF TaskInv, Throws
<1>. QED  BY <1>4, <1>5, <1>8 DEF TaskInv

LEMMA TaskNext == TaskInv /\ [AsyncNext]_asyncVars => TaskInv'
<1>. SUFFICES ASSUME TaskInv, [AsyncNext]_asyncVars PROVE TaskInv'
  OBVIOUS
<1>1. CASE Awaits
  <2>1. thrown = FALSE
    BY <1>1, Zenon DEF Awaits, TaskInv, TaskTypeOK, Throws
  <2>. QED  BY <1>1, <2>1, QuietTaskSteps DEF Awaits, TaskInv, TaskTypeOK
<1>2. CASE FutureIsDone
  <2>1. thrown = FALSE
    BY <1>2, Zenon DEF FutureIsDone, TaskInv, TaskTypeOK, Throws
  <2>. QED  BY <1>2, <2>1, QuietTaskSteps DEF FutureIsDone, TaskInv, TaskTypeOK
<1>3. CASE TimePasses
  <2>1. late' \in BOOLEAN /\ UNCHANGED <<at, requests, thrown, fired, caller, baseline, outcome>>
    BY <1>3 DEF TimePasses
  <2>2. Asked' = Asked
    BY <2>1 DEF Asked
  <2>3. Throws'
    BY <2>1, <2>2, Zenon DEF TaskInv, Throws
  <2>. QED  BY <2>1, <2>3 DEF TaskInv, TaskTypeOK, Counts
<1>4. CASE TimerFires
  BY <1>4, CancellingCounts DEF TimerFires
<1>5. CASE CallerCancels
  BY <1>5, CancellingCounts DEF CallerCancels
<1>6. CASE Resumes
  <2>1. CASE at' = "running"
    <3>1. at = "ready" /\ thrown' = FALSE
          /\ UNCHANGED <<requests, fired, late, caller, baseline, outcome>>
      BY <1>6, <2>1 DEF Resumes, Leave
    <3>. QED  BY <2>1, <3>1, QuietTaskSteps DEF TaskInv, TaskTypeOK
  <2>2. CASE at' # "running"
    <3>. DEFINE ending == IF WasOurs THEN "deadline thrown" ELSE "cancelled"
    <3>1. at = "ready" /\ thrown /\ thrown' = FALSE /\ Leave(ending)
      BY <1>6, <2>2, Zenon DEF Resumes
    <3>2. Asked
      BY <3>1, Zenon DEF TaskInv, Throws
    <3>3. /\ requests \in Int /\ fired \in Nat /\ caller \in Nat /\ baseline \in Nat
          /\ requests = baseline + fired + caller
      BY <3>1 DEF TaskInv, TaskTypeOK, Counts
    <3>4. Retracted = baseline + caller
      BY <3>3, HandedBack DEF Retracted
    <3>5. (ending = "deadline thrown" => caller = 0) /\ (ending = "cancelled" => caller > 0)
      BY <3>2, <3>3, <3>4 DEF WasOurs, Asked
    <3>6. ending \in Ends
      BY DEF Ends
    <3>. HIDE DEF ending
    <3>. QED  BY <3>1, <3>5, <3>6, LeavingHandsBack
  <2>. QED  BY <2>1, <2>2
<1>7. CASE Returns
  <2>. DEFINE ending == IF TooLate THEN "deadline" ELSE "result"
  <2>1. at = "running" /\ Leave(ending) /\ thrown' = thrown
    BY <1>7 DEF Returns
  <2>2. thrown' = FALSE
    BY <2>1, Zenon DEF TaskInv, TaskTypeOK, Throws
  <2>3. ending \in Ends /\ ending # "deadline thrown" /\ ending # "cancelled"
    BY DEF Ends
  <2>. HIDE DEF ending
  <2>. QED  BY <2>1, <2>2, <2>3, LeavingHandsBack
<1>8. CASE RaisesItsOwn
  <2>1. at = "running" /\ Leave("error") /\ thrown' = thrown
    BY <1>8 DEF RaisesItsOwn
  <2>2. thrown' = FALSE
    BY <2>1, Zenon DEF TaskInv, TaskTypeOK, Throws
  <2>. QED  BY <2>1, <2>2, LeavingHandsBack DEF Ends
<1>9. CASE UNCHANGED asyncVars
  <2>1. UNCHANGED <<at, requests, thrown, fired, late, caller, baseline, outcome>>
    BY <1>9 DEF asyncVars
  <2>2. Asked' = Asked
    BY <2>1 DEF Asked
  <2>3. Throws'
    BY <2>1, <2>2, Zenon DEF TaskInv, Throws
  <2>. QED  BY <2>1, <2>3 DEF TaskInv, TaskTypeOK, Counts
<1>. QED
  BY <1>1, <1>2, <1>3, <1>4, <1>5, <1>6, <1>7, <1>8, <1>9 DEF AsyncNext

LEMMA TaskAlways == AsyncSpec => []TaskInv
BY TaskInit, TaskNext, PTL DEF AsyncSpec

(* Every reachable state of _async_deadline and its task is well typed.     *)
THEOREM TaskTypeCorrect == AsyncSpec => []TaskTypeOK
<1>1. TaskInv => TaskTypeOK
  BY DEF TaskInv
<1>. QED  BY <1>1, TaskAlways, PTL

(* However often the timer of _async_deadline fires and the caller cancels, *)
(* and whatever the node catches: on the way out the guard has taken back   *)
(* its own cancellations and no other, and tells its own from the caller's. *)
THEOREM OursAreHandedBackAlways == AsyncSpec => []OursAreHandedBack
<1>1. TaskInv => OursAreHandedBack
  <2>. SUFFICES ASSUME TaskInv, at = "out" PROVE OursAreHandedBack
    BY DEF OursAreHandedBack
  <2>1. ~thrown
    BY Zenon DEF TaskInv, Throws
  <2>2. /\ requests = baseline + caller
        /\ outcome = "deadline thrown" => caller = 0
        /\ outcome = "cancelled" => caller > 0
    BY DEF TaskInv, Counts
  <2>. QED  BY <2>1, <2>2, Zenon DEF OursAreHandedBack
<1>. QED  BY <1>1, TaskAlways, PTL

(***************************************************************************)
(* A tool's process: ToolRun.                                              *)
(***************************************************************************)
Lines == {"ok", "error", "violation", "resolve_error", "torn"}

(* How far a call is, and what it started with it: a sandbox sends once; a  *)
(* container's kill and rm fail once each; a command is reaped when it and  *)
(* its group are dead.                                                      *)
Shapes ==
  /\ how \in {"sandbox", "container", "command"}
  /\ answer \in {"none", "refused", "timeout", "lost", "died"} \cup Lines
  /\ output \in Seq(Lines)

Sandboxed ==
  how = "sandbox" => /\ tool \in {"started", "working"} => Len(output) = 0
                     /\ waiter # "removes"

Contained ==
  /\ how # "container" => failed = 0
  /\ how = "container" /\ waiter \in {"waits", "kills"} => failed = 0
  /\ how = "container" /\ waiter = "removes" => failed = 1 \/ (failed = 0 /\ tool = "dead")
  /\ how = "container" /\ answer = "ok" => tool = "dead"

Commanded ==
  /\ how # "command" => ~group /\ waiter # "reaps"
  /\ how = "command" => Len(output) = 0
  /\ how = "command" /\ waiter = "reaps" => tool = "dead" /\ ~group

CallInv == CallsEndClean /\ Shapes /\ Sandboxed /\ Contained /\ Commanded

LEMMA EnvelopeIs ==
  ASSUME NEW lines \in Seq(Lines)
  PROVE  /\ Envelope(lines) \in Lines \cup {"missing"}
         /\ Envelope(lines) = "ok" => Whole(lines) = {Len(lines)} /\ lines[Len(lines)] = "ok"
<1>1. Len(lines) \in Whole(lines) => lines[Len(lines)] \in Lines /\ Len(lines) \in DOMAIN lines
  BY DEF Whole
<1>. QED  BY <1>1 DEF Envelope, Lines

LEMMA CallInit == ToolInit => CallInv
<1>. SUFFICES ASSUME ToolInit PROVE CallInv
  OBVIOUS
<1>0. output = <<>>
  BY Zenon DEF ToolInit
<1>5. output \in Seq(Lines) /\ Len(output) = 0
  BY <1>0
<1>6. failed = 0 /\ waiter = "waits" /\ answer = "none" /\ tool \in {"started", "absent"}
  BY DEF ToolInit
<1>1. ToolTypeOK
  BY <1>5, <1>6, ToolAssumption DEF ToolTypeOK
<1>2. TimeoutEndsIt /\ OneResult
  BY DEF ToolInit, TimeoutEndsIt, OneResult
<1>3. Shapes
  BY <1>5 DEF ToolInit, Shapes
<1>4. Sandboxed /\ Contained /\ Commanded
  BY <1>5 DEF ToolInit, Sandboxed, Contained, Commanded
<1>. QED  BY <1>1, <1>2, <1>3, <1>4 DEF CallInv, CallsEndClean

LEMMA ProcessKeeps ==
  ASSUME CallInv,
         \/ SetsUp \/ Exits \/ Creates \/ Stops \/ Begins \/ Finishes
         \/ Writes \/ Forks \/ ChildFinishes
         \/ \E kind \in {"ok", "error", "violation"} : Sends(kind)
         \/ \E line \in {"ok", "error", "resolve_error", "torn"} : Prints(line)
  PROVE  CallInv'
<1>. USE ToolAssumption DEF CallInv, CallsEndClean, ToolTypeOK, TimeoutEndsIt, OneResult, Shapes, Sandboxed, Contained, Commanded, Runs, Becomes, Waits
<1>1. CASE SetsUp
  BY <1>1 DEF SetsUp
<1>2. CASE Exits
  BY <1>2 DEF Exits
<1>3. CASE Creates
  BY <1>3 DEF Creates
<1>4. CASE Stops
  BY <1>4 DEF Stops
<1>5. CASE Begins
  BY <1>5 DEF Begins
<1>6. CASE Finishes
  BY <1>6 DEF Finishes
<1>7. CASE Writes
  BY <1>7 DEF Writes
<1>8. CASE Forks
  BY <1>8 DEF Forks
<1>9. CASE ChildFinishes
  BY <1>9 DEF ChildFinishes
<1>10. ASSUME NEW kind \in {"ok", "error", "violation"}, Sends(kind) PROVE CallInv'
  <2>1. output' = Append(output, kind) /\ kind \in Lines /\ Len(output) = 0
    BY <1>10 DEF Sends, Lines
  <2>2. output' \in Seq(Lines) /\ Len(output') = 1
    BY <2>1
  <2>3. how = "sandbox" /\ tool' = "answered" /\ UNCHANGED <<how, waiter, answer, group, stray, printed, failed>>
    BY <1>10 DEF Sends
  <2>4. ToolTypeOK' /\ Shapes'
    BY <2>2, <2>3
  <2>5. TimeoutEndsIt' /\ OneResult'
    BY <1>10, <2>3 DEF Sends
  <2>6. Sandboxed' /\ Contained' /\ Commanded'
    BY <1>10, <2>2, <2>3 DEF Sends
  <2>. QED  BY <2>4, <2>5, <2>6
<1>11. ASSUME NEW line \in {"ok", "error", "resolve_error", "torn"}, Prints(line) PROVE CallInv'
  <2>1. output' = Append(output, line) /\ line \in Lines
    BY <1>11 DEF Prints, Lines
  <2>2. output' \in Seq(Lines) /\ Len(output') = Len(output) + 1 /\ Len(output) < MaxLines
        /\ Len(output) \in Nat
    BY <1>11, <2>1 DEF Prints
  <2>. QED  BY <1>11, <2>2 DEF Prints
<1>. QED  BY <1>1, <1>2, <1>3, <1>4, <1>5, <1>6, <1>7, <1>8, <1>9, <1>10, <1>11

LEMMA CallerKeeps == ASSUME CallInv, Caller PROVE CallInv'
<1>. USE ToolAssumption DEF CallInv, CallsEndClean, ToolTypeOK, TimeoutEndsIt, OneResult, Shapes, Sandboxed, Contained, Commanded, Runs, Becomes, Waits, Answers
<1>1. CASE Receives
  <2>1. output # <<>> => output[1] \in Lines
    OBVIOUS
  <2>. QED  BY <1>1, <2>1 DEF Receives, Lines
<1>2. CASE Terminates
  BY <1>2 DEF Terminates
<1>3. CASE Kills
  BY <1>3 DEF Kills, Survivor
<1>4. CASE CannotRun
  BY <1>4 DEF CannotRun
<1>5. CASE GivesUp
  BY <1>5 DEF GivesUp
<1>6. CASE KillsContainer
  BY <1>6 DEF KillsContainer, Tries
<1>7. CASE RemovesContainer
  BY <1>7 DEF RemovesContainer, Tries
<1>8. CASE Begins
  BY <1>8 DEF Begins
<1>9. CASE CannotBegin
  BY <1>9 DEF CannotBegin
<1>10. CASE Collects
  BY <1>10 DEF Collects, Closed, Lines
<1>11. CASE Expires
  BY <1>11 DEF Expires, Closed, GroupKept
<1>12. CASE Reaps
  BY <1>12 DEF Reaps, Closed, Reaped
<1>13. CASE Unwraps
  <2>1. PICK a \in Unwrapped(Envelope(output)) :
          /\ waiter' = "returned" /\ answer' = a /\ tool = "dead" /\ waiter = "waits" /\ how = "container"
          /\ UNCHANGED <<how, tool, group, stray, output, printed, failed>>
    BY <1>13 DEF Unwraps
  <2>2. a \in {"ok", "error", "violation"} /\ (a = "ok" => Envelope(output) = "ok")
    BY DEF Unwrapped
  <2>3. a = "ok" => Whole(output) = {Len(output)} /\ output[Len(output)] = "ok"
    BY <2>2, EnvelopeIs
  <2>. QED  BY <2>1, <2>2, <2>3 DEF Lines
<1>. QED  BY <1>1, <1>2, <1>3, <1>4, <1>5, <1>6, <1>7, <1>8, <1>9, <1>10, <1>11, <1>12, <1>13 DEF Caller

(* What a call that timed out started is over, but for a container whose    *)
(* kill and rm both failed, and a container's result is the one it wrote:   *)
(* however many lines there are and whatever handles a signal, escapes the  *)
(* group or starts late.                                                    *)
THEOREM CallsEndCleanAlways == ToolSpec => []CallsEndClean
<1>1. CallInv /\ [ToolNext]_toolVars => CallInv'
  <2>1. CallInv /\ UNCHANGED toolVars => CallInv'
    BY DEF CallInv, CallsEndClean, ToolTypeOK, TimeoutEndsIt, OneResult, Shapes, Sandboxed, Contained, Commanded, toolVars
  <2>. QED  BY <2>1, ProcessKeeps, CallerKeeps DEF ToolNext
<1>2. CallInv => CallsEndClean
  BY DEF CallInv
<1>. QED  BY <1>1, <1>2, CallInit, PTL DEF ToolSpec

-------------------------------------------------------------------------------
(***************************************************************************)
(* TraceTail: the invariant behind the identity of a line.                 *)
(***************************************************************************)
TraceEvents == [thread : Threads, attempt : Nat, step : Nat, stop : BOOLEAN]
Recorders ==
  [at : {"idle", "topology", "running"}, mid : BOOLEAN, thread : Threads \cup {"none"},
   step : Nat, attempt : Nat, off : Nat, max : [Threads -> Nat \X Nat]]

TraceTyped ==
  /\ disk \in Seq([part : {"line", "head", "rest"}, ev : TraceEvents])
  /\ proc \in [Procs -> Recorders]
  /\ \A p \in Procs :
       /\ proc[p].at # "idle" => proc[p].thread \in Threads
       /\ proc[p].mid => proc[p].at # "idle"
  /\ "at" \in DOMAIN reader /\ reader.at \in {"poll", "read", "send", "closed", "off", "dead"}
  /\ "runs" \in DOMAIN used /\ used.runs \in Nat

Closes(i) == disk[i].part \in Closing

(* Every run takes one step further than the last it knows of.              *)
StepsAreCounted ==
  /\ \A i \in DOMAIN disk : disk[i].ev.step <= used.runs /\ disk[i].ev.attempt <= used.runs
  /\ \A p \in Procs : proc[p].at # "idle" => proc[p].step < used.runs /\ proc[p].attempt <= used.runs
  /\ \A p \in Procs, t \in Threads :
       proc[p].max[t][1] <= used.runs /\ proc[p].max[t][2] <= used.runs

(* No line that has its newline says a step twice, whether or not it parses; *)
(* a run is past every step its thread's lines say, and is alone on it; and  *)
(* a recorder's index knows of every step before its offset.                *)
StepsOnce ==
  \A i, j \in DOMAIN disk :
    Closes(i) /\ Closes(j) /\ disk[i].ev.thread = disk[j].ev.thread
      /\ disk[i].ev.step = disk[j].ev.step /\ disk[i].ev.step > 0 => i = j

PastThem ==
  \A p \in Procs, i \in DOMAIN disk :
    proc[p].at # "idle" /\ Closes(i) /\ disk[i].ev.thread = proc[p].thread
      => disk[i].ev.step <= proc[p].step

AloneOnIt ==
  \A p, q \in Procs :
    proc[p].at # "idle" /\ proc[q].at # "idle" /\ proc[p].thread = proc[q].thread => p = q

Indexed ==
  \A p \in Procs :
    /\ proc[p].off <= Len(disk)
    /\ \A i \in DOMAIN disk :
         i <= proc[p].off /\ Closes(i) => disk[i].ev.step <= proc[p].max[disk[i].ev.thread][1]

TraceInv == TraceTyped /\ StepsAreCounted /\ StepsOnce /\ PastThem /\ AloneOnIt /\ Indexed

LEMMA LinesAre ==
  ASSUME TraceTyped
  PROVE  /\ Len(disk) \in Nat /\ DOMAIN disk = 1..Len(disk)
         /\ \A i \in DOMAIN disk :
              /\ disk[i].part \in {"line", "head", "rest"} /\ disk[i].ev \in TraceEvents
              /\ disk[i].ev.thread \in Threads /\ disk[i].ev.step \in Nat /\ disk[i].ev.attempt \in Nat
<1>1. Len(disk) \in Nat /\ DOMAIN disk = 1..Len(disk)
  BY DEF TraceTyped
<1>2. \A i \in DOMAIN disk : disk[i] \in [part : {"line", "head", "rest"}, ev : TraceEvents]
  <2>. DEFINE L == [part : {"line", "head", "rest"}, ev : TraceEvents]
  <2>1. disk \in Seq(L)
    BY DEF TraceTyped
  <2>. HIDE DEF L
  <2>2. \A i \in DOMAIN disk : disk[i] \in L
    BY <2>1
  <2>. QED  BY <2>2 DEF L
<1>. QED  BY <1>1, <1>2 DEF TraceEvents

(* A set of numbers with a bound has a greatest one.                        *)
LEMMA MaxIsGreatest ==
  ASSUME NEW n \in Nat, NEW S \in SUBSET (0..n), S # {}
  PROVE  Max(S) \in S /\ \A y \in S : y <= Max(S)
<1>. DEFINE T == {k \in Nat : n - k \in S}
<1>1. T # {} /\ T \subseteq Nat
  <2>1. PICK x \in S : TRUE
    OBVIOUS
  <2>2. n - x \in T
    BY <2>1
  <2>. QED  BY <2>2
<1>2. PICK k \in T : \A j \in T : ~(<<j, k>> \in OpToRel(<, Nat))
  BY <1>1, NatLessThanWellFounded, WFMin
<1>3. \A y \in S : y <= n - k
  <2>. SUFFICES ASSUME NEW y \in S PROVE y <= n - k
    OBVIOUS
  <2>1. n - y \in T
    OBVIOUS
  <2>2. ~(n - y < k)
    BY <1>2, <2>1 DEF OpToRel
  <2>. QED  BY <2>2
<1>4. n - k \in S
  BY <1>2
<1>. HIDE DEF T
<1>. QED  BY <1>3, <1>4 DEF Max

(* No line after the last newline has one.                                  *)
LEMMA CutIsLast ==
  ASSUME TraceTyped, NEW lo \in 0..Len(disk)
  PROVE  /\ Cut(lo, Len(disk)) \in lo..Len(disk)
         /\ \A i \in DOMAIN disk : lo < i /\ Closes(i) => i \in Ended(lo, Len(disk))
<1>1. Len(disk) \in Nat /\ DOMAIN disk = 1..Len(disk)
  BY DEF TraceTyped
<1>. DEFINE S == {lo} \union {i \in (lo + 1)..Len(disk) : disk[i].part \in Closing}
<1>2. S \in SUBSET (0..Len(disk)) /\ S # {}
  BY <1>1
<1>3. Max(S) \in S /\ \A y \in S : y <= Max(S)
  BY <1>1, <1>2, MaxIsGreatest
<1>4. Cut(lo, Len(disk)) = Max(S)
  BY DEF Cut
<1>5. Max(S) \in lo..Len(disk)
  BY <1>1, <1>3
<1>6. ASSUME NEW i \in DOMAIN disk, lo < i, Closes(i) PROVE i \in Ended(lo, Len(disk))
  <2>1. i \in S
    BY <1>1, <1>6 DEF Closes
  <2>2. i <= Cut(lo, Len(disk))
    BY <1>3, <1>4, <2>1
  <2>. QED  BY <1>1, <1>4, <1>5, <1>6, <2>2 DEF Ended, Closes
<1>. QED  BY <1>4, <1>5, <1>6

(* What is folded is the greatest of what was and of what the lines say.    *)
LEMMA FoldIsGreatest ==
  ASSUME TraceTyped, StepsAreCounted, Indexed, NEW p \in Procs, NEW t \in Threads
  PROVE  LET new == Fold(proc[p].off, proc[p].max[t], t) IN
         /\ new \in Nat \X Nat /\ new[1] <= used.runs /\ new[2] <= used.runs
         /\ new[1] >= proc[p].max[t][1]
         /\ \A i \in Good(proc[p].off, Len(disk)) : disk[i].ev.thread = t => disk[i].ev.step <= new[1]
<1>. DEFINE good == Good(proc[p].off, Len(disk))
            evs == {e \in {disk[i].ev : i \in good} : e.thread = t}
            steps == {proc[p].max[t][1]} \union {e.step : e \in evs}
            attempts == {proc[p].max[t][2]} \union {e.attempt : e \in evs}
<1>1. proc[p] \in Recorders /\ used.runs \in Nat /\ Len(disk) \in Nat /\ DOMAIN disk = 1..Len(disk)
  BY DEF TraceTyped
<1>2. proc[p].max[t] \in Nat \X Nat /\ proc[p].off \in 0..Len(disk)
  BY <1>1 DEF Recorders, Indexed
<1>3. good \subseteq DOMAIN disk
  BY <1>1, <1>2, CutIsLast DEF Good, Ended
<1>4. \A i \in DOMAIN disk : disk[i].ev \in TraceEvents
  BY LinesAre
<1>5. \A e \in evs : e.step \in Nat /\ e.step <= used.runs /\ e.attempt \in Nat /\ e.attempt <= used.runs
  BY <1>3, <1>4 DEF StepsAreCounted, TraceEvents
<1>6. steps \in SUBSET (0..used.runs) /\ attempts \in SUBSET (0..used.runs)
  BY <1>1, <1>2, <1>5 DEF StepsAreCounted
<1>7. steps # {} /\ attempts # {}
  OBVIOUS
<1>8. /\ Max(steps) \in steps /\ \A y \in steps : y <= Max(steps)
      /\ Max(attempts) \in attempts
  BY <1>1, <1>6, <1>7, MaxIsGreatest
<1>9. ASSUME NEW i \in good, disk[i].ev.thread = t PROVE disk[i].ev.step \in steps
  BY <1>9
<1>10. Fold(proc[p].off, proc[p].max[t], t) = <<Max(steps), Max(attempts)>>
  BY DEF Fold
<1>11. proc[p].max[t][1] \in steps
  OBVIOUS
<1>. HIDE DEF steps, attempts, good
<1>. DEFINE new == Fold(proc[p].off, proc[p].max[t], t)
<1>12. new[1] = Max(steps) /\ new[2] = Max(attempts)
  BY <1>10
<1>13. Max(steps) \in 0..used.runs /\ Max(attempts) \in 0..used.runs
  BY <1>6, <1>8
<1>14. new \in Nat \X Nat /\ new[1] <= used.runs /\ new[2] <= used.runs
  BY <1>1, <1>10, <1>13
<1>15. proc[p].max[t][1] <= new[1]
  BY <1>8, <1>11, <1>12
<1>16. \A i \in good : disk[i].ev.thread = t => disk[i].ev.step <= new[1]
  BY <1>8, <1>9, <1>12
<1>17. new[1] >= proc[p].max[t][1]
  BY <1>2, <1>14, <1>15
<1>. QED  BY <1>14, <1>16, <1>17 DEF good

(* An invocation whose index can be brought up to date knows every step of  *)
(* its thread that a line says.                                             *)
LEMMA InvokeKeeps ==
  ASSUME TraceInv, NEW p \in Procs, NEW t \in Threads, Invoke(p, t)
  PROVE  TraceInv'
<1>. DEFINE max == [u \in Threads |-> Fold(proc[p].off, proc[p].max[u], u)]
            new == [at |-> "topology", mid |-> FALSE, thread |-> t, step |-> max[t][1],
                    attempt |-> max[t][2] + 1, off |-> IndexEnd(proc[p].off), max |-> max]
<1>1. /\ proc' = [proc EXCEPT ![p] = new] /\ disk' = disk /\ reader' = reader
      /\ used' = [used EXCEPT !.runs = @ + 1]
  BY DEF Invoke, TraceInv, TraceTyped
<1>2. TraceTyped /\ StepsAreCounted /\ Indexed
  BY DEF TraceInv
<1>3. \A u \in Threads :
        /\ max[u] \in Nat \X Nat /\ max[u][1] <= used.runs /\ max[u][2] <= used.runs
        /\ max[u][1] >= proc[p].max[u][1]
        /\ \A i \in Good(proc[p].off, Len(disk)) : disk[i].ev.thread = u => disk[i].ev.step <= max[u][1]
  BY <1>2, FoldIsGreatest
<1>. HIDE DEF max
<1>4. proc[p] \in Recorders /\ used.runs \in Nat /\ Len(disk) \in Nat /\ DOMAIN disk = 1..Len(disk)
      /\ proc[p].off \in 0..Len(disk) /\ \A u \in Threads : proc[p].max[u][1] \in Nat
  BY <1>2 DEF TraceTyped, Indexed, Recorders
<1>5. \A i \in DOMAIN disk : disk[i].ev.thread \in Threads /\ disk[i].ev.step \in Nat /\ disk[i].ev.attempt \in Nat
  BY <1>2, LinesAre
<1>6. IndexEnd(proc[p].off) \in 0..Len(disk)
  BY <1>2, <1>4, CutIsLast DEF IndexEnd
<1>7. Ended(proc[p].off, Len(disk)) = Good(proc[p].off, Len(disk))
  BY DEF Invoke, IndexRaises
<1>8. \A i \in DOMAIN disk : Closes(i) => disk[i].ev.step <= max[disk[i].ev.thread][1]
  <2>. SUFFICES ASSUME NEW i \in DOMAIN disk, Closes(i) PROVE disk[i].ev.step <= max[disk[i].ev.thread][1]
    OBVIOUS
  <2>1. CASE i <= proc[p].off
    <3>1. disk[i].ev.step <= proc[p].max[disk[i].ev.thread][1]
      BY <1>2, <2>1 DEF Indexed
    <3>2. proc[p].max[disk[i].ev.thread][1] \in Nat /\ max[disk[i].ev.thread][1] \in Nat
          /\ proc[p].max[disk[i].ev.thread][1] <= max[disk[i].ev.thread][1]
      BY <1>3, <1>4, <1>5
    <3>. QED  BY <1>5, <3>1, <3>2
  <2>2. CASE i > proc[p].off
    <3>1. i \in Good(proc[p].off, Len(disk))
      BY <1>2, <1>4, <1>7, <2>2, CutIsLast
    <3>. QED  BY <1>3, <1>5, <3>1
  <2>. QED  BY <1>4, <2>1, <2>2
<1>9. max \in [Threads -> Nat \X Nat]
  BY <1>3 DEF max
<1>10. new \in Recorders
  BY <1>6, <1>9, <1>3 DEF Recorders
<1>11. new.at = "topology" /\ new.mid = FALSE /\ new.thread = t /\ new.step = max[t][1] /\ new.attempt = max[t][2] + 1
       /\ new.off = IndexEnd(proc[p].off) /\ new.max = max
  OBVIOUS
<1>. HIDE DEF new
<1>12. proc'[p] = new /\ \A q \in Procs : q # p => proc'[q] = proc[q]
  BY <1>1, <1>2 DEF TraceTyped
<1>13. used'.runs = used.runs + 1 /\ "runs" \in DOMAIN used'
  BY <1>1, <1>2 DEF TraceTyped
<1>14. \A q \in Procs : q # p /\ proc[q].at # "idle" => proc[q].thread # t
  BY DEF Invoke, Driven
<1>15. TraceTyped'
  BY <1>1, <1>2, <1>4, <1>10, <1>11, <1>12, <1>13 DEF TraceTyped
<1>16. StepsAreCounted'
  <2>1. \A q \in Procs, u \in Threads : proc[q].max[u][1] \in Nat /\ proc[q].max[u][2] \in Nat
    BY <1>2 DEF TraceTyped, Recorders
  <2>2. \A q \in Procs : proc[q].step \in Nat /\ proc[q].attempt \in Nat
    BY <1>2 DEF TraceTyped, Recorders
  <2>3. \A u \in Threads : max[u][1] \in Nat /\ max[u][2] \in Nat
    BY <1>3
  <2>4. \A i \in DOMAIN disk : disk[i].ev.step <= used.runs + 1 /\ disk[i].ev.attempt <= used.runs + 1
    BY <1>2, <1>4, <1>5 DEF StepsAreCounted
  <2>5. ASSUME NEW q \in Procs, proc'[q].at # "idle"
        PROVE  proc'[q].step < used.runs + 1 /\ proc'[q].attempt <= used.runs + 1
    <3>1. CASE q = p
      BY <1>3, <1>4, <1>11, <1>12, <2>3, <3>1
    <3>2. CASE q # p
      BY <1>2, <1>4, <1>12, <2>2, <2>5, <3>2 DEF StepsAreCounted
    <3>. QED  BY <3>1, <3>2
  <2>6. \A q \in Procs, u \in Threads : proc'[q].max[u][1] <= used.runs + 1 /\ proc'[q].max[u][2] <= used.runs + 1
    <3>1. \A u \in Threads : max[u][1] <= used.runs + 1 /\ max[u][2] <= used.runs + 1
      BY <1>3, <1>4, <2>3
    <3>2. \A q \in Procs, u \in Threads : proc[q].max[u][1] <= used.runs + 1 /\ proc[q].max[u][2] <= used.runs + 1
      BY <1>2, <1>4, <2>1 DEF StepsAreCounted
    <3>. QED  BY <1>11, <1>12, <3>1, <3>2
  <2>. QED  BY <1>1, <1>13, <2>4, <2>5, <2>6 DEF StepsAreCounted
<1>17. PastThem'
  BY <1>1, <1>8, <1>11, <1>12 DEF TraceInv, PastThem, Closes
<1>18. AloneOnIt'
  BY <1>11, <1>12, <1>14 DEF TraceInv, AloneOnIt
<1>19. StepsOnce'
  BY <1>1 DEF TraceInv, StepsOnce, Closes
<1>20. Indexed'
  BY <1>1, <1>2, <1>4, <1>6, <1>8, <1>11, <1>12 DEF Indexed, Closes
<1>. QED  BY <1>15, <1>16, <1>17, <1>18, <1>19, <1>20 DEF TraceInv

(* A process is alone with its run, and what it appends is its own event.   *)
LEMMA WriteKeeps ==
  ASSUME TraceInv, NEW p \in Procs, proc[p].at # "idle",
         NEW part \in {"line", "head", "rest"}, disk' = Append(disk, Line(p, part)), NEW new,
         proc' = [proc EXCEPT ![p] = new],
         \/ new = Recorded(p, EventOf(p))
         \/ part = "head" /\ new = [proc[p] EXCEPT !.mid = TRUE],
         used' = used \/ used' = [used EXCEPT !.splits = @ + 1],
         reader' = reader
  PROVE  TraceInv'
<1>. DEFINE ev == EventOf(p)
<1>1. TraceTyped /\ StepsAreCounted /\ StepsOnce /\ PastThem /\ AloneOnIt /\ Indexed
  BY DEF TraceInv
<1>2. proc[p] \in Recorders /\ proc[p].thread \in Threads /\ Len(disk) \in Nat /\ DOMAIN disk = 1..Len(disk)
      /\ used.runs \in Nat /\ proc[p].step \in Nat /\ proc[p].attempt \in Nat
  BY <1>1 DEF TraceTyped, Recorders
<1>3. /\ ev \in TraceEvents /\ ev.thread = proc[p].thread /\ ev.attempt = proc[p].attempt
      /\ ev.stop \in BOOLEAN /\ (ev.stop <=> proc[p].at # "topology")
      /\ proc[p].at = "topology" => ev.step = 0
      /\ proc[p].at = "running" => ev.step = proc[p].step + 1
  <2>1. ev = [thread |-> proc[p].thread, attempt |-> proc[p].attempt,
              step |-> IF proc[p].at = "topology" THEN 0 ELSE proc[p].step + 1,
              stop |-> proc[p].at # "topology"]
    BY DEF EventOf
  <2>. HIDE DEF ev
  <2>2. ev.thread = proc[p].thread /\ ev.attempt = proc[p].attempt /\ ev.stop = (proc[p].at # "topology")
        /\ ev.step = IF proc[p].at = "topology" THEN 0 ELSE proc[p].step + 1
    BY <2>1
  <2>3. ev.step \in Nat
    BY <1>2, <2>2
  <2>4. ev \in TraceEvents
    BY <1>2, <2>1, <2>2, <2>3 DEF TraceEvents
  <2>. QED  BY <1>2, <2>2, <2>4 DEF Recorders
<1>. HIDE DEF ev
<1>4. /\ Len(disk') = Len(disk) + 1 /\ DOMAIN disk' = 1..(Len(disk) + 1)
      /\ disk'[Len(disk) + 1] = [part |-> part, ev |-> ev]
      /\ \A i \in DOMAIN disk : disk'[i] = disk[i]
      /\ disk' \in Seq([part : {"line", "head", "rest"}, ev : TraceEvents])
  BY <1>1, <1>2, <1>3 DEF Line, TraceTyped, ev
<1>5. /\ new \in Recorders /\ new.off = proc[p].off /\ new.max = proc[p].max
      /\ new.mid => new.at # "idle"
      /\ new.at # "idle" => /\ new.thread = proc[p].thread /\ new.step = proc[p].step
                            /\ new.attempt = proc[p].attempt
                            /\ part = "head" \/ ev.step = 0
  <2>1. CASE part = "head" /\ new = [proc[p] EXCEPT !.mid = TRUE]
    BY <1>2, <2>1 DEF Recorders
  <2>2. CASE new = Recorded(p, ev)
    <3>1. CASE ev.stop
      <4>1. new = [Fresh EXCEPT !.off = proc[p].off, !.max = proc[p].max]
        BY <2>2, <3>1 DEF Recorded
      <4>. QED  BY <1>2, <4>1 DEF Fresh, Recorders
    <3>2. CASE ~ev.stop
      <4>1. new = [proc[p] EXCEPT !.at = "running", !.mid = FALSE]
        BY <2>2, <3>2 DEF Recorded
      <4>2. ev.step = 0
        BY <1>2, <1>3, <3>2 DEF Recorders
      <4>. QED  BY <1>2, <4>1, <4>2 DEF Recorders
    <3>. QED  BY <3>1, <3>2
  <2>. QED  BY <2>1, <2>2 DEF ev
<1>6. proc'[p] = new /\ \A q \in Procs : q # p => proc'[q] = proc[q]
  BY <1>1 DEF TraceTyped
<1>7. used'.runs = used.runs /\ "runs" \in DOMAIN used'
  BY <1>1 DEF TraceTyped
<1>8. TraceTyped'
  BY <1>1, <1>2, <1>4, <1>5, <1>6, <1>7 DEF TraceTyped
<1>9. StepsAreCounted'
  <2>1. ev.step <= used.runs /\ ev.attempt <= used.runs
    BY <1>1, <1>2, <1>3 DEF StepsAreCounted, Recorders
  <2>2. \A i \in DOMAIN disk' : disk'[i].ev.step <= used.runs /\ disk'[i].ev.attempt <= used.runs
    BY <1>1, <1>2, <1>4, <2>1 DEF StepsAreCounted
  <2>3. \A q \in Procs : proc'[q].at # "idle" => proc'[q].step < used.runs /\ proc'[q].attempt <= used.runs
    BY <1>1, <1>5, <1>6 DEF StepsAreCounted
  <2>4. \A q \in Procs, u \in Threads : proc'[q].max[u][1] <= used.runs /\ proc'[q].max[u][2] <= used.runs
    BY <1>1, <1>5, <1>6 DEF StepsAreCounted
  <2>. QED  BY <1>7, <2>2, <2>3, <2>4 DEF StepsAreCounted
<1>10. \A i \in DOMAIN disk' : i \in DOMAIN disk \/ i = Len(disk) + 1
  BY <1>2, <1>4
<1>11. \A i \in DOMAIN disk : disk[i].ev.step \in Nat /\ disk[i].ev.thread \in Threads
  BY <1>1, LinesAre
<1>12. \A i \in DOMAIN disk : Closes(i)' <=> Closes(i)
  BY <1>4 DEF Closes
<1>13. StepsOnce'
  <2>1. \A i \in DOMAIN disk : Closes(i) /\ disk[i].ev.thread = ev.thread => disk[i].ev.step # ev.step \/ ev.step = 0
    BY <1>1, <1>2, <1>3, <1>11 DEF PastThem, Recorders
  <2>. QED  BY <1>1, <1>4, <1>10, <1>12, <2>1 DEF StepsOnce
<1>14. PastThem'
  <2>1. \A i \in DOMAIN disk' : i = Len(disk) + 1 /\ Closes(i)' => part # "head" /\ disk'[i].ev = ev
    BY <1>4 DEF Closes, Closing
  <2>2. ASSUME NEW q \in Procs, NEW i \in DOMAIN disk', proc'[q].at # "idle", Closes(i)',
               disk'[i].ev.thread = proc'[q].thread
        PROVE  disk'[i].ev.step <= proc'[q].step
    <3>1. CASE i \in DOMAIN disk
      BY <1>1, <1>4, <1>5, <1>6, <1>12, <2>2, <3>1 DEF PastThem
    <3>2. CASE i = Len(disk) + 1 /\ q # p
      BY <1>1, <1>3, <1>4, <1>6, <2>2, <3>2 DEF AloneOnIt
    <3>3. CASE i = Len(disk) + 1 /\ q = p
      <4>1. part # "head" /\ disk'[i].ev = ev /\ proc'[q] = new /\ new.at # "idle"
        BY <1>6, <2>1, <2>2, <3>3
      <4>. QED  BY <1>2, <1>5, <4>1
    <3>. QED  BY <1>10, <3>1, <3>2, <3>3
  <2>. QED  BY <2>2 DEF PastThem
<1>15. AloneOnIt'
  BY <1>1, <1>5, <1>6 DEF AloneOnIt
<1>16. Indexed'
  <2>1. \A q \in Procs : proc'[q].off = proc[q].off /\ proc'[q].max = proc[q].max /\ proc[q].off \in Nat
    BY <1>1, <1>5, <1>6 DEF TraceTyped, Recorders
  <2>2. \A q \in Procs : proc[q].off <= Len(disk)
    BY <1>1 DEF Indexed
  <2>. QED  BY <1>1, <1>2, <1>4, <1>10, <1>12, <2>1, <2>2 DEF Indexed
<1>. QED  BY <1>8, <1>9, <1>13, <1>14, <1>15, <1>16 DEF TraceInv

LEMMA RecordKeeps ==
  ASSUME TraceInv, NEW p \in Procs, Record(p) \/ RecordRest(p)
  PROVE  TraceInv'
<1>1. proc[p] \in Recorders
  BY DEF TraceInv, TraceTyped
<1>2. CASE RecordRest(p)
  <2>1. proc[p].at # "idle"
    BY <1>2 DEF RecordRest, TraceInv, TraceTyped
  <2>. QED  BY <1>2, <2>1, WriteKeeps DEF RecordRest
<1>3. CASE Record(p)
  <2>1. CASE proc' = [proc EXCEPT ![p] = Recorded(p, EventOf(p))]
    BY <1>3, <2>1, WriteKeeps DEF Record
  <2>2. CASE proc' = [proc EXCEPT ![p].mid = TRUE]
    BY <1>3, <2>2, WriteKeeps DEF Record
  <2>. QED  BY <1>3, <2>1, <2>2 DEF Record
<1>. QED  BY <1>2, <1>3

(* A killed process has no run and nothing indexed.                         *)
LEMMA TraceKillKeeps ==
  ASSUME TraceInv, NEW p \in Procs, Kill(p)
  PROVE  TraceInv'
<1>1. proc' = [proc EXCEPT ![p] = Fresh] /\ used' = [used EXCEPT !.kills = @ + 1] /\ disk' = disk /\ reader' = reader
  BY DEF Kill
<1>2. /\ Fresh \in Recorders /\ Fresh.at = "idle" /\ Fresh.mid = FALSE /\ Fresh.off = 0
      /\ \A t \in Threads : Fresh.max[t][1] = 0 /\ Fresh.max[t][2] = 0
  BY DEF Fresh, Recorders
<1>3. TraceTyped /\ StepsAreCounted /\ StepsOnce /\ PastThem /\ AloneOnIt /\ Indexed
  BY DEF TraceInv
<1>4. proc'[p] = Fresh /\ \A q \in Procs : q # p => proc'[q] = proc[q]
  BY <1>1, <1>3 DEF TraceTyped
<1>5. used'.runs = used.runs /\ "runs" \in DOMAIN used' /\ used.runs \in Nat /\ Len(disk) \in Nat /\ DOMAIN disk = 1..Len(disk)
  BY <1>1, <1>3 DEF TraceTyped
<1>6. TraceTyped'
  BY <1>1, <1>2, <1>3, <1>4, <1>5 DEF TraceTyped
<1>7. StepsAreCounted'
  BY <1>1, <1>2, <1>3, <1>4, <1>5 DEF StepsAreCounted
<1>8. StepsOnce' /\ PastThem' /\ AloneOnIt'
  BY <1>1, <1>2, <1>3, <1>4 DEF StepsOnce, PastThem, AloneOnIt, Closes
<1>9. Indexed'
  BY <1>1, <1>2, <1>3, <1>4, <1>5 DEF Indexed, Closes
<1>. QED  BY <1>6, <1>7, <1>8, <1>9 DEF TraceInv

(* What moves the reader, or only the count of runs.                        *)
LEMMA ReaderKeeps ==
  ASSUME TraceInv, disk' = disk, proc' = proc,
         "at" \in DOMAIN reader', reader'.at \in {"poll", "read", "send", "closed", "off", "dead"},
         \/ used' = used
         \/ used' = [used EXCEPT !.runs = @ + 1]
  PROVE  TraceInv'
<1>1. TraceTyped /\ StepsAreCounted /\ StepsOnce /\ PastThem /\ AloneOnIt /\ Indexed
  BY DEF TraceInv
<1>2. used.runs \in Nat /\ used'.runs \in Nat /\ "runs" \in DOMAIN used' /\ used'.runs >= used.runs
  BY <1>1 DEF TraceTyped
<1>3. TraceTyped'
  BY <1>1, <1>2 DEF TraceTyped
<1>4. StepsAreCounted'
  <2>1. \A i \in DOMAIN disk : disk[i].ev.step \in Nat /\ disk[i].ev.attempt \in Nat
    BY <1>1, LinesAre
  <2>2. \A p \in Procs, t \in Threads : /\ proc[p].step \in Nat /\ proc[p].attempt \in Nat
                                         /\ proc[p].max[t][1] \in Nat /\ proc[p].max[t][2] \in Nat
    BY <1>1 DEF TraceTyped, Recorders
  <2>3. \A p \in Procs : proc[p].step \in Nat /\ proc[p].attempt \in Nat
    BY <1>1 DEF TraceTyped, Recorders
  <2>. QED  BY <1>1, <1>2, <2>1, <2>2, <2>3 DEF StepsAreCounted
<1>5. StepsOnce' /\ PastThem' /\ AloneOnIt' /\ Indexed'
  BY <1>1 DEF StepsOnce, PastThem, AloneOnIt, Indexed, Closes
<1>. QED  BY <1>3, <1>4, <1>5 DEF TraceInv

LEMMA TraceAlways == TraceSpec => []TraceInv
<1>1. TraceInit => TraceInv
  <2>. SUFFICES ASSUME TraceInit PROVE TraceInv
    OBVIOUS
  <2>1. /\ Fresh \in Recorders /\ Fresh.at = "idle" /\ Fresh.mid = FALSE /\ Fresh.off = 0
        /\ \A t \in Threads : Fresh.max[t][1] = 0 /\ Fresh.max[t][2] = 0
    BY DEF Fresh, Recorders
  <2>2. disk = <<>> /\ Len(disk) = 0 /\ DOMAIN disk = {}
        /\ disk \in Seq([part : {"line", "head", "rest"}, ev : TraceEvents])
    BY DEF TraceInit
  <2>3. \A p \in Procs : proc[p] = Fresh
    BY DEF TraceInit
  <2>4. used.runs = 0 /\ "runs" \in DOMAIN used
    BY DEF TraceInit
  <2>5. "at" \in DOMAIN reader /\ reader.at \in {"poll", "off"}
    BY DEF TraceInit, NewReader
  <2>6. proc \in [Procs -> Recorders]
    BY <2>1 DEF TraceInit
  <2>7. TraceTyped
    BY <2>1, <2>2, <2>3, <2>4, <2>5, <2>6 DEF TraceTyped
  <2>8. StepsAreCounted /\ StepsOnce /\ PastThem /\ AloneOnIt /\ Indexed
    BY <2>1, <2>2, <2>3, <2>4 DEF StepsAreCounted, StepsOnce, PastThem, AloneOnIt, Indexed
  <2>. QED  BY <2>7, <2>8 DEF TraceInv
<1>2. TraceInv /\ [TraceNext]_traceVars => TraceInv'
  <2>. SUFFICES ASSUME TraceInv, [TraceNext]_traceVars PROVE TraceInv'
    OBVIOUS
  <2>0. /\ "at" \in DOMAIN reader /\ reader.at \in {"poll", "read", "send", "closed", "off", "dead"}
    BY DEF TraceInv, TraceTyped
  <2>1. CASE UNCHANGED traceVars
    BY <2>0, <2>1, ReaderKeeps DEF traceVars
  <2>2. ASSUME NEW p \in Procs, NEW t \in Threads, Invoke(p, t) PROVE TraceInv'
    BY <2>2, InvokeKeeps
  <2>3. ASSUME NEW p \in Procs, InvokeRaises(p) PROVE TraceInv'
    BY <2>0, <2>3, ReaderKeeps DEF InvokeRaises
  <2>4. ASSUME NEW p \in Procs, Record(p) \/ RecordRest(p) PROVE TraceInv'
    BY <2>4, RecordKeeps
  <2>5. ASSUME NEW p \in Procs, Kill(p) PROVE TraceInv'
    BY <2>5, TraceKillKeeps
  <2>6. CASE PageStats \/ PageReads \/ PageSends \/ PageCloses
    BY <2>0, <2>6, ReaderKeeps DEF PageStats, PageReads, PageSends, PageCloses
  <2>7. CASE TailStarts \/ TailReads
    BY <2>0, <2>7, ReaderKeeps DEF TailStarts, TailReads
  <2>8. CASE TailRenders
    <3>1. PICK alive \in BOOLEAN :
            reader' = [reader EXCEPT !.at = IF alive THEN "poll" ELSE "dead",
              !.dirty = FALSE, !.shown = {e \in Parsed(Len(disk)) : RunOf(e) = reader.run}]
      BY <2>8 DEF TailRenders
    <3>2. "at" \in DOMAIN reader' /\ reader'.at \in {"poll", "dead"}
      BY <2>0, <3>1
    <3>. QED  BY <2>8, <3>2, ReaderKeeps DEF TailRenders
  <2>. QED  BY <2>1, <2>2, <2>3, <2>4, <2>5, <2>6, <2>7, <2>8 DEF TraceNext, PageStep, TailStep
<1>. QED  BY <1>1, <1>2, PTL DEF TraceSpec

(* Every reachable state of the trace file, its recorders and its reader is  *)
(* well typed.                                                              *)
THEOREM TraceTypeCorrect == TraceSpec => []TraceTypeOK
<1>1. TraceInv => TraceTypeOK
  BY LinesAre DEF TraceInv, TraceTyped, Recorders, TraceTypeOK
<1>. QED  BY <1>1, TraceAlways, PTL

(* No step of a thread is in the trace twice, across attempts, processes,    *)
(* lines cut short and kills.                                               *)
THEOREM StepsAreUniqueAlways == TraceSpec => []StepsAreUnique
<1>1. TraceInv => StepsAreUnique
  <2>. SUFFICES ASSUME TraceInv PROVE StepsAreUnique
    OBVIOUS
  <2>1. Len(disk) \in Nat /\ DOMAIN disk = 1..Len(disk) /\ TraceTyped /\ 0 \in 0..Len(disk)
    BY DEF TraceInv, TraceTyped
  <2>2. \A i \in Good(0, Len(disk)) : i \in DOMAIN disk /\ Closes(i)
    BY <2>1, CutIsLast DEF Good, Ended, Closes
  <2>. QED  BY <2>2 DEF TraceInv, StepsOnce, StepsAreUnique
<1>. QED  BY <1>1, TraceAlways, PTL

-------------------------------------------------------------------------------
(***************************************************************************)
(* GraphKernel: what _assert_acyclic's search computes, and the invariant  *)
(* behind a superstep.                                                     *)
(***************************************************************************)
Search(g, f) ==
  f = [v \in Nodes \X SUBSET Nodes |->
        \/ v[1] \in v[2]
        \/ \E next \in Adjacent(g, v[1]) : f[<<next, v[2] \union {v[1]}>>]]

LEMMA VisitsSearches ==
  ASSUME NEW g, NEW f, Search(g, f)
  PROVE  /\ Search(g, CHOOSE h : Search(g, h))
         /\ \A n, path : Visits(g, n, path) = (CHOOSE h : Search(g, h))[<<n, path>>]
<1>. DEFINE h == CHOOSE h : Search(g, h)
<1>1. Search(g, h)
  BY Zenon
<1>2. ASSUME NEW n, NEW path PROVE Visits(g, n, path) = h[<<n, path>>]
  BY Zenon DEF Visits, Search
<1>. QED  BY <1>1, <1>2

LEMMA SearchIs ==
  ASSUME NEW g, NEW n \in Nodes, NEW path \in SUBSET Nodes, NEW f, Search(g, f)
  PROVE  f[<<n, path>>] = (n \in path \/ \E next \in Adjacent(g, n) : f[<<next, path \union {n}>>])
  BY DEF Search

(* The search of the paths that at most k nodes are not on.                 *)
Within(k) == {v \in Nodes \X SUBSET Nodes : Cardinality(Nodes \ v[2]) <= k}
SearchWithin(g, k, f) ==
  f = [v \in Within(k) |->
        \/ v[1] \in v[2]
        \/ \E next \in Adjacent(g, v[1]) : f[<<next, v[2] \union {v[1]}>>]]

LEMMA DeeperIsSearched ==
  ASSUME GraphAssumption, NEW g, \A n \in Nodes : Adjacent(g, n) \subseteq Nodes,
         NEW k \in Nat, NEW f, SearchWithin(g, k, f)
  PROVE  \E h : SearchWithin(g, k + 1, h)
<1>. DEFINE h == [v \in Within(k + 1) |->
        \/ v[1] \in v[2]
        \/ \E next \in Adjacent(g, v[1]) : f[<<next, v[2] \union {v[1]}>>]]
<1>1. \A v \in Nodes \X SUBSET Nodes : IsFiniteSet(Nodes \ v[2]) /\ Cardinality(Nodes \ v[2]) \in Nat
  BY FS_Difference, FS_CardinalityType DEF GraphAssumption
<1>2. \A w \in Within(k) : w \in Within(k + 1) /\ h[w] = f[w]
  <2>. SUFFICES ASSUME NEW w \in Within(k) PROVE w \in Within(k + 1) /\ h[w] = f[w]
    OBVIOUS
  <2>1. w \in Within(k + 1)
    BY <1>1 DEF Within
  <2>2. f[w] = (w[1] \in w[2] \/ \E next \in Adjacent(g, w[1]) : f[<<next, w[2] \union {w[1]}>>])
    BY DEF SearchWithin
  <2>3. h[w] = (w[1] \in w[2] \/ \E next \in Adjacent(g, w[1]) : f[<<next, w[2] \union {w[1]}>>])
    BY <2>1
  <2>. QED  BY <2>1, <2>2, <2>3
<1>3. ASSUME NEW v \in Within(k + 1), v[1] \notin v[2], NEW next \in Adjacent(g, v[1])
      PROVE  h[<<next, v[2] \union {v[1]}>>] = f[<<next, v[2] \union {v[1]}>>]
  <2>1. v \in Nodes \X SUBSET Nodes /\ Cardinality(Nodes \ v[2]) <= k + 1 /\ v[1] \in Nodes \ v[2]
    BY <1>3 DEF Within
  <2>2. Cardinality((Nodes \ v[2]) \ {v[1]}) = Cardinality(Nodes \ v[2]) - 1
    BY <1>1, <2>1, FS_RemoveElement
  <2>3. (Nodes \ v[2]) \ {v[1]} = Nodes \ (v[2] \union {v[1]})
    OBVIOUS
  <2>4. Cardinality(Nodes \ (v[2] \union {v[1]})) <= k
    BY <1>1, <2>1, <2>2, <2>3
  <2>5. <<next, v[2] \union {v[1]}>> \in Nodes \X SUBSET Nodes
    BY <1>3, <2>1
  <2>6. <<next, v[2] \union {v[1]}>> \in Within(k)
    BY <2>4, <2>5 DEF Within
  <2>. QED  BY <1>2, <2>6
<1>4. \A v \in Within(k + 1) :
        h[v] = (v[1] \in v[2] \/ \E next \in Adjacent(g, v[1]) : f[<<next, v[2] \union {v[1]}>>])
  OBVIOUS
<1>5. \A v \in Within(k + 1) :
        h[v] = (v[1] \in v[2] \/ \E next \in Adjacent(g, v[1]) : h[<<next, v[2] \union {v[1]}>>])
  <2>. HIDE DEF h
  <2>. SUFFICES ASSUME NEW v \in Within(k + 1)
       PROVE  h[v] = (v[1] \in v[2] \/ \E next \in Adjacent(g, v[1]) : h[<<next, v[2] \union {v[1]}>>])
    OBVIOUS
  <2>1. CASE v[1] \in v[2]
    BY <1>4, <2>1
  <2>2. CASE v[1] \notin v[2]
    BY <1>3, <1>4, <2>2
  <2>. QED  BY <2>1, <2>2
<1>6. h = [v \in Within(k + 1) |-> h[v]]
  OBVIOUS
<1>. HIDE DEF h
<1>7. SearchWithin(g, k + 1, h)
  BY <1>5, <1>6 DEF SearchWithin
<1>. QED  BY <1>7

LEMMA SearchExists ==
  ASSUME GraphAssumption, NEW g, \A n \in Nodes : Adjacent(g, n) \subseteq Nodes
  PROVE  \E f : Search(g, f)
<1>. DEFINE T == {k \in Nat : ~ \E f : SearchWithin(g, k, f)}
<1>1. Cardinality(Nodes) \in Nat /\ \A S \in SUBSET Nodes : Cardinality(Nodes \ S) <= Cardinality(Nodes)
  BY FS_Difference, FS_CardinalityType, FS_Subset DEF GraphAssumption
<1>2. \E f : SearchWithin(g, 0, f)
  <2>. DEFINE f == [v \in Within(0) |-> TRUE]
  <2>1. \A v \in Within(0) : v[1] \in v[2]
    <3>. SUFFICES ASSUME NEW v \in Within(0) PROVE v[1] \in v[2]
      OBVIOUS
    <3>1. IsFiniteSet(Nodes \ v[2]) /\ Cardinality(Nodes \ v[2]) <= 0 /\ Cardinality(Nodes \ v[2]) \in Nat
      BY FS_Difference, FS_CardinalityType DEF GraphAssumption, Within
    <3>2. Nodes \ v[2] = {}
      BY <3>1, FS_EmptySet
    <3>. QED  BY <3>2 DEF Within
  <2>2. SearchWithin(g, 0, f)
    BY <2>1 DEF SearchWithin
  <2>. QED  BY <2>2
<1>3. T = {}
  <2>. SUFFICES ASSUME T # {} PROVE FALSE
    OBVIOUS
  <2>1. PICK k \in T : \A j \in T : ~(<<j, k>> \in OpToRel(<, Nat))
    BY NatLessThanWellFounded, WFMin
  <2>2. k \in Nat /\ k # 0
    BY <1>2
  <2>3. k - 1 \in Nat /\ k - 1 \notin T
    <3>1. k - 1 \in Nat /\ k - 1 < k
      BY <2>2
    <3>2. <<k - 1, k>> \in OpToRel(<, Nat)
      BY <2>2, <3>1 DEF OpToRel
    <3>. HIDE DEF T
    <3>. QED  BY <2>1, <3>1, <3>2
  <2>4. PICK f : SearchWithin(g, k - 1, f)
    BY <2>3
  <2>5. \E h : SearchWithin(g, (k - 1) + 1, h)
    BY <2>3, <2>4, DeeperIsSearched
  <2>6. (k - 1) + 1 = k
    BY <2>2
  <2>. QED  BY <2>1, <2>5, <2>6
<1>4. PICK f : SearchWithin(g, Cardinality(Nodes), f)
  BY <1>1, <1>3
<1>5. Within(Cardinality(Nodes)) = Nodes \X SUBSET Nodes
  BY <1>1 DEF Within
<1>6. Search(g, f)
  BY <1>4, <1>5 DEF SearchWithin, Search
<1>. QED  BY <1>6

(* The search of the static edges is what its definition says it is.        *)
LEMMA VisitsIs ==
  ASSUME GraphAssumption, NEW g, \A n \in Nodes : Adjacent(g, n) \subseteq Nodes,
         NEW n \in Nodes, NEW path \in SUBSET Nodes
  PROVE  Visits(g, n, path) <=>
           (n \in path \/ \E next \in Adjacent(g, n) : Visits(g, next, path \union {n}))
<1>1. PICK f : Search(g, f)
  BY SearchExists
<1>. DEFINE h == CHOOSE h : Search(g, h)
<1>2. Search(g, h) /\ \A m, onPath : Visits(g, m, onPath) = h[<<m, onPath>>]
  BY <1>1, VisitsSearches
<1>. HIDE DEF h
<1>3. h[<<n, path>>] = (n \in path \/ \E next \in Adjacent(g, n) : h[<<next, path \union {n}>>])
  <2>1. Search(g, h)
    BY <1>2
  <2>. QED  BY <2>1, SearchIs, Zenon
<1>4. Visits(g, n, path) = h[<<n, path>>]
  BY <1>2
<1>5. \A next : Visits(g, next, path \union {n}) = h[<<next, path \union {n}>>]
  BY <1>2
<1>. QED  BY <1>3, <1>4, <1>5, Zenon

-------------------------------------------------------------------------------
Tasks == [node : Nodes, fits : BOOLEAN]
GraphPlaces == {"declared", "refused", "running", "over", "failed"}

GraphTyped ==
  /\ graph \in Graphs /\ place \in GraphPlaces /\ tasks \subseteq Tasks
  /\ chan \in [Fields -> [by : Nodes \union {"nobody"}, typed : BOOLEAN]]
  /\ count \in [iterations : Nat, depth : Nat]

(* What a superstep holds was checked.                                      *)
Checked ==
  \A r \in results : r.task \in Tasks /\ r.ret.goto \subseteq Places /\ GoodResult(r.task.node, r.ret)

(* Behind a task of a DAG lie as many nodes as supersteps since somebody     *)
(* routed, and the search, which found no cycle, would come to it past them. *)
Behind ==
  graph.dag /\ place = "running" =>
    \A t \in tasks : \E path \in SUBSET Nodes :
      Cardinality(path) + 1 = count.depth /\ ~Visits(graph, t.node, path)

KernelInv ==
  /\ GraphTyped /\ Checked
  /\ place = "declared" => owed = {} /\ results = {} /\ count.depth = 1
  /\ place = "running" => ~Refused(graph) /\ tasks # {}
  /\ OnlyDeclaredLands /\ RoutesAreTaken /\ Behind

LEMMA EdgesAreOfNodes ==
  ASSUME GraphTyped
  PROVE  /\ \A n \in Nodes : Adjacent(graph, n) \subseteq Nodes
         /\ \A e \in graph.static : e[1] \in Nodes /\ e[2] \in Nodes
         /\ \A e \in graph.cond : e[1] \in Nodes /\ e[2] \in Nodes
         /\ graph.fan \subseteq Nodes
<1>1. graph.static \in SUBSET Pairs
  BY DEF GraphTyped, Graphs
<1>2. graph.cond \in {{}} \union {{e} : e \in Pairs} /\ graph.fan \in {{}} \union {{n} : n \in Nodes}
  BY DEF GraphTyped, Graphs
<1>3. \A e \in graph.static : e[1] \in Nodes /\ e[2] \in Nodes
  BY <1>1 DEF Pairs
<1>4. \A e \in graph.cond : e[1] \in Nodes /\ e[2] \in Nodes
  BY <1>2 DEF Pairs
<1>. QED  BY <1>2, <1>3, <1>4 DEF Adjacent

LEMMA NothingIsVisited ==
  ASSUME GraphAssumption, GraphTyped, graph.dag, ~Refused(graph), NEW n \in Nodes
  PROVE  ~Visits(graph, n, {})
<1>1. \A m \in Nodes : Adjacent(graph, m) \subseteq Nodes
  BY EdgesAreOfNodes
<1>2. ~IsCyclic(graph)
  BY DEF Refused
<1>3. CASE n \in {e[1] : e \in graph.static}
  BY <1>2, <1>3 DEF IsCyclic
<1>4. CASE n \notin {e[1] : e \in graph.static}
  <2>1. Adjacent(graph, n) = {}
    BY <1>4 DEF Adjacent
  <2>2. {} \in SUBSET Nodes
    OBVIOUS
  <2>. QED  BY <1>1, <2>1, <2>2, VisitsIs
<1>. QED  BY <1>3, <1>4

(* A checked return is of its types, and goes to places there are.          *)
LEMMA CheckedIs ==
  ASSUME Checked, NEW r \in results
  PROVE  /\ r.task \in Tasks
         /\ r.ret.writes \subseteq Declared[r.task.node] /\ r.ret.typed
         /\ \A p \in r.ret.goto : p \in Places /\ GoodPlace(p)
BY DEF Checked, GoodResult, GoodUpdate

LEMMA LandedIs ==
  ASSUME GraphTyped, Checked, OnlyDeclaredLands, chan' = Landed
  PROVE  /\ chan' \in [Fields -> [by : Nodes \union {"nobody"}, typed : BOOLEAN]]
         /\ OnlyDeclaredLands'
<1>1. ASSUME NEW f \in Fields
      PROVE  /\ Landed[f] \in [by : Nodes \union {"nobody"}, typed : BOOLEAN]
             /\ Landed[f].typed /\ (Landed[f].by \in Nodes => f \in Declared[Landed[f].by])
  <2>. DEFINE by == {r \in results : f \in r.ret.writes}
              r == CHOOSE x \in by : TRUE
  <2>1. CASE by = {}
    <3>1. Landed[f] = chan[f]
      BY <2>1 DEF Landed
    <3>. QED  BY <3>1 DEF GraphTyped, OnlyDeclaredLands
  <2>2. CASE by # {}
    <3>1. Landed[f] = [by |-> r.task.node, typed |-> r.ret.typed]
      BY <2>2 DEF Landed
    <3>2. r \in results /\ f \in r.ret.writes
      BY <2>2
    <3>. HIDE DEF r
    <3>3. r.task \in Tasks /\ f \in Declared[r.task.node] /\ r.ret.typed
      BY <3>2, CheckedIs
    <3>4. r.task.node \in Nodes
      BY <3>3 DEF Tasks
    <3>. QED  BY <3>1, <3>3, <3>4
  <2>. QED  BY <2>1, <2>2
<1>2. Landed = [f \in Fields |-> Landed[f]]
  BY DEF Landed
<1>. QED  BY <1>1, <1>2 DEF OnlyDeclaredLands

LEMMA FailsKeeps ==
  ASSUME KernelInv, Fails, graph' = graph,
         chan' \in [Fields -> [by : Nodes \union {"nobody"}, typed : BOOLEAN]], OnlyDeclaredLands',
         count' \in [iterations : Nat, depth : Nat]
  PROVE  KernelInv'
BY DEF KernelInv, Fails, GraphTyped, GraphPlaces, Checked, RoutesAreTaken, Behind

LEMMA StaysDeclared ==
  ASSUME KernelInv, chan' = chan
  PROVE  /\ chan' \in [Fields -> [by : Nodes \union {"nobody"}, typed : BOOLEAN]]
         /\ OnlyDeclaredLands'
BY DEF KernelInv, GraphTyped, OnlyDeclaredLands

(* Where nobody comes from an edge, nothing lies behind.                    *)
LEMMA NothingIsBehind ==
  ASSUME GraphAssumption, GraphTyped, ~Refused(graph), graph' = graph,
         tasks' \subseteq Tasks, count'.depth = 1
  PROVE  Behind'
<1>. SUFFICES ASSUME graph.dag, NEW t \in tasks'
     PROVE  \E path \in SUBSET Nodes :
              Cardinality(path) + 1 = count'.depth /\ ~Visits(graph', t.node, path)
  BY DEF Behind
<1>1. t.node \in Nodes
  BY DEF Tasks
<1>2. ~Visits(graph, t.node, {})
  BY <1>1, NothingIsVisited
<1>3. Cardinality({}) = 0 /\ {} \in SUBSET Nodes
  BY FS_EmptySet
<1>. QED  BY <1>2, <1>3

LEMMA CompileKeeps == ASSUME GraphAssumption, KernelInv, Compile PROVE KernelInv'
<1>1. graph' = graph /\ results' = results /\ chan' = chan /\ owed' = owed /\ count' = count
  BY DEF Compile
<1>2. owed = {} /\ results = {} /\ count.depth = 1
  BY DEF KernelInv, Compile
<1>3. /\ place' \in {"refused", "running"} /\ (place' = "running" => ~Refused(graph) /\ tasks' # {})
      /\ tasks' \subseteq {Task(Entry)}
  BY DEF Compile
<1>4. Task(Entry) \in Tasks /\ Task(Entry).fits
  BY DEF GraphAssumption, Task, Tasks
<1>5. GraphTyped'
  BY <1>1, <1>3, <1>4 DEF KernelInv, GraphTyped, GraphPlaces
<1>6. Checked' /\ RoutesAreTaken' /\ OnlyDeclaredLands'
  BY <1>1, <1>2, <1>3, <1>4, StaysDeclared DEF Checked, RoutesAreTaken
<1>7. Behind'
  <2>1. CASE place' = "running"
    BY <1>1, <1>2, <1>3, <1>4, <2>1, NothingIsBehind DEF KernelInv
  <2>. QED  BY <2>1 DEF Behind
<1>. QED  BY <1>1, <1>2, <1>3, <1>5, <1>6, <1>7 DEF KernelInv

LEMMA RunKeeps ==
  ASSUME KernelInv, NEW t \in tasks, RefuseTask(t) \/ Run(t) \/ Raise(t)
  PROVE  KernelInv'
<1>1. count.iterations \in Nat /\ count \in [iterations : Nat, depth : Nat] /\ graph' = graph /\ chan' = chan
  BY DEF KernelInv, GraphTyped, RefuseTask, Run, Raise
<1>2. count' \in [iterations : Nat, depth : Nat] /\ count'.depth = count.depth
  BY <1>1 DEF RefuseTask, Run, Raise
<1>3. CASE Fails
  BY <1>1, <1>2, <1>3, FailsKeeps, StaysDeclared
<1>4. CASE Run(t) /\ ~Fails
  <2>0. place = "running"
    BY <1>4 DEF Run
  <2>1. PICK r \in ReturnValues :
          GoodResult(t.node, r) /\ results' = results \union {[task |-> t, ret |-> r]}
          /\ place' = place /\ tasks' = tasks /\ owed' = owed
    BY <1>4 DEF Run
  <2>2. t \in Tasks /\ r.goto \subseteq Places
    BY DEF KernelInv, GraphTyped, ReturnValues
  <2>3. Checked'
    BY <2>1, <2>2 DEF KernelInv, Checked
  <2>4. GraphTyped' /\ OnlyDeclaredLands'
    BY <1>1, <1>2, <2>1, StaysDeclared DEF KernelInv, GraphTyped
  <2>5. RoutesAreTaken' /\ Behind'
    BY <1>1, <1>2, <2>1 DEF KernelInv, RoutesAreTaken, Behind
  <2>. QED  BY <1>1, <2>0, <2>1, <2>3, <2>4, <2>5 DEF KernelInv
<1>. QED  BY <1>3, <1>4 DEF RefuseTask, Raise

(* A step along the edges of a DAG: one more node lies behind.              *)
LEMMA OneMoreBehind ==
  ASSUME GraphAssumption, KernelInv, place = "running", {r.task : r \in results} = tasks,
         graph' = graph, tasks' = Static, count'.depth = count.depth + 1
  PROVE  Behind'
<1>. SUFFICES ASSUME graph.dag, NEW t \in tasks'
     PROVE  \E path \in SUBSET Nodes :
              Cardinality(path) + 1 = count'.depth /\ ~Visits(graph', t.node, path)
  BY DEF Behind
<1>1. PICK r \in results : t.node \in Adjacent(graph, r.task.node)
  BY DEF Static, Task
<1>. DEFINE n == r.task.node
<1>2. n \in Nodes
  BY CheckedIs DEF KernelInv, Tasks
<1>3. PICK path \in SUBSET Nodes : Cardinality(path) + 1 = count.depth /\ ~Visits(graph, n, path)
  BY DEF KernelInv, Behind
<1>4. n \notin path /\ ~Visits(graph, t.node, path \union {n})
  BY <1>1, <1>2, <1>3, VisitsIs, EdgesAreOfNodes DEF KernelInv
<1>5. IsFiniteSet(path)
  BY FS_Subset DEF GraphAssumption
<1>6. Cardinality(path \union {n}) = Cardinality(path) + 1
  BY <1>4, <1>5, FS_AddElement
<1>7. path \union {n} \in SUBSET Nodes
  BY <1>2
<1>. HIDE DEF n
<1>. QED  BY <1>3, <1>4, <1>6, <1>7

LEMMA PlacesAre ==
  ASSUME NEW p
  PROVE  p \in Places <=> \/ \E n \in Nodes \union {End, Ghost} : p = PlaceAt(n)
                          \/ \E n \in Nodes \union {Ghost} : \E fits \in BOOLEAN : p = SendTo(n, fits)
BY SMT DEF Places

(* Every place a superstep was allowed to name is a task of the next, of    *)
(* its worker's type; what was asked for besides is dropped or a task.      *)
LEMMA WantedIsTaken ==
  ASSUME NEW places, \A p \in places : p \in Places /\ GoodPlace(p)
  PROVE  \A t \in Wanted(places) : t.node \in Nodes /\ t \in Tasks /\ t.fits
<1>1. ASSUME NEW p \in places, p.node # End
      PROVE  p.node \in Nodes /\ p.fits = TRUE
  <2>1. \/ \E n \in Nodes \union {End, Ghost} : p = PlaceAt(n)
        \/ \E n \in Nodes \union {Ghost} : \E fits \in BOOLEAN : p = SendTo(n, fits)
    BY PlacesAre
  <2>2. p.send => p.fits \in BOOLEAN
    BY <2>1 DEF PlaceAt, SendTo
  <2>3. ~p.send => p.fits = TRUE
    BY <2>1 DEF PlaceAt, SendTo
  <2>4. (p.send => p.node \in Nodes /\ p.fits) /\ (~p.send => p.node \in Nodes)
    BY <1>1 DEF GoodPlace
  <2>. QED  BY <2>2, <2>3, <2>4
<1>. SUFFICES ASSUME NEW t \in Wanted(places) PROVE t.node \in Nodes /\ t \in Tasks /\ t.fits
  OBVIOUS
<1>2. PICK p \in places : p.node # End /\ t = [node |-> p.node, fits |-> p.fits]
  BY DEF Wanted
<1>. QED  BY <1>1, <1>2 DEF Tasks

LEMMA AskedIsKnown ==
  ASSUME NEW places, \A p \in places : p \in Places
  PROVE  Known(Wanted(places)) \subseteq Tasks
<1>. SUFFICES ASSUME NEW t \in Known(Wanted(places)) PROVE t \in Tasks
  OBVIOUS
<1>1. PICK p \in places : t = [node |-> p.node, fits |-> p.fits] /\ p.node \in Nodes
  BY DEF Wanted, Known
<1>2. \/ \E n \in Nodes \union {End, Ghost} : p = PlaceAt(n)
      \/ \E n \in Nodes \union {Ghost} : \E fits \in BOOLEAN : p = SendTo(n, fits)
  BY PlacesAre
<1>3. CASE \E n \in Nodes \union {End, Ghost} : p = PlaceAt(n)
  <2>1. p.fits = TRUE
    BY <1>3 DEF PlaceAt
  <2>. QED  BY <1>1, <2>1 DEF Tasks
<1>4. CASE \E n \in Nodes \union {Ghost} : \E fits \in BOOLEAN : p = SendTo(n, fits)
  <2>1. PICK fits \in BOOLEAN : p.fits = fits
    BY <1>4 DEF SendTo
  <2>. QED  BY <1>1, <2>1 DEF Tasks
<1>. QED  BY <1>2, <1>3, <1>4

(* What a dispatcher, or a router, sends.                                   *)
LEMMA SendsArePlaces ==
  ASSUME NEW sent \in {{}} \union Dispatches, NEW p \in sent
  PROVE  p \in Places
<1>1. sent \in Dispatches
  OBVIOUS
<1>2. \E m \in Nodes \union {Ghost} : \E fits \in BOOLEAN : sent = {SendTo(m, fits)}
  BY <1>1, SMT DEF Dispatches
<1>. QED  BY <1>2, PlacesAre

(* What a router answers, if it is not refused; and only a declared router  *)
(* answers anything.                                                        *)
LEMMA AnswersAre ==
  ASSUME KernelInv, NEW t \in tasks, NEW said \in RouterAnswers(t.node), said # Stray
  PROVE  said.keys \subseteq Nodes /\ said.sends \in {{}} \union Dispatches
<1>1. said \in [keys : SUBSET Mapped(t.node), sends : {{}} \union Dispatches]
  BY DEF RouterAnswers
<1>2. Mapped(t.node) \subseteq Nodes
  BY EdgesAreOfNodes DEF KernelInv, Mapped
<1>. QED  BY <1>1, <1>2

LEMMA NobodyRoutes ==
  ASSUME graph.cond = {}
  PROVE  Routed = {}
BY DEF Routed, Mapped

LEMMA StaticIsKnown ==
  ASSUME KernelInv
  PROVE  Static \subseteq Tasks /\ \A t \in Static : t.fits
<1>. SUFFICES ASSUME NEW t \in Static
     PROVE  t \in Tasks /\ t.fits
  OBVIOUS
<1>1. PICK r \in results : \E n \in Adjacent(graph, r.task.node) : t = Task(n)
  BY DEF Static
<1>2. r.task.node \in Nodes
  BY CheckedIs DEF KernelInv, Tasks
<1>3. \E n \in Nodes : t = Task(n)
  BY <1>1, <1>2, EdgesAreOfNodes DEF KernelInv
<1>. QED  BY <1>3 DEF Task, Tasks

LEMMA SuperstepKeeps == ASSUME GraphAssumption, KernelInv, Superstep PROVE KernelInv'
<1>1. /\ place = "running" /\ {r.task : r \in results} = tasks /\ graph' = graph
      /\ chan' = Landed
  BY DEF Superstep
<1>2. chan' \in [Fields -> [by : Nodes \union {"nobody"}, typed : BOOLEAN]] /\ OnlyDeclaredLands'
  BY <1>1, LandedIs DEF KernelInv
<1>3. count \in [iterations : Nat, depth : Nat]
  BY DEF KernelInv, GraphTyped
<1>4. CASE Fails /\ count' = count
  BY <1>1, <1>2, <1>3, <1>4, FailsKeeps
<1>5. CASE ~(Fails /\ count' = count)
  <2>1. PICK says \in [Routed -> UNION {RouterAnswers(t.node) : t \in Routed}] :
          \E sent \in [Fanned -> Dispatches] :
            /\ \A t \in Routed : says[t] \in RouterAnswers(t.node) /\ says[t] # Stray
            /\ \A t \in Fanned : \A p \in sent[t] : GoodPlace(p)
            /\ Goes(Named(says, sent), Unchecked(says))
    <3>1. PICK says \in [Routed -> UNION {RouterAnswers(t.node) : t \in Routed}] :
            \E sent \in [Fanned -> Dispatches] :
              /\ \A t \in Routed : says[t] \in RouterAnswers(t.node)
              /\ IF \/ \E t \in Routed : says[t] = Stray
                    \/ \E t \in Fanned : \E p \in sent[t] : ~GoodPlace(p)
                 THEN Fails /\ UNCHANGED count
                 ELSE Goes(Named(says, sent), Unchecked(says))
      BY Zenon DEF Superstep
    <3>. QED  BY <1>5, <3>1, Zenon
  <2>2. PICK sent \in [Fanned -> Dispatches] :
          /\ \A t \in Routed : says[t] \in RouterAnswers(t.node) /\ says[t] # Stray
          /\ \A t \in Fanned : \A p \in sent[t] : GoodPlace(p)
          /\ Goes(Named(says, sent), Unchecked(says))
    BY <2>1
  <2>. DEFINE places == Named(says, sent)
              loose == Unchecked(says)
  <2>a. ASSUME NEW t \in Routed PROVE says[t].keys \subseteq Nodes /\ says[t].sends \in {{}} \union Dispatches
    <3>1. t \in tasks /\ says[t] \in RouterAnswers(t.node) /\ says[t] # Stray
      BY <2>2 DEF Routed
    <3>. QED  BY <3>1, AnswersAre
  <2>p. \A p \in places : p \in Places /\ GoodPlace(p)
    <3>1. ASSUME NEW r \in results, NEW p \in r.ret.goto PROVE p \in Places /\ GoodPlace(p)
      BY CheckedIs DEF KernelInv
    <3>2. ASSUME NEW t \in Routed, NEW k \in says[t].keys
          PROVE  PlaceAt(k) \in Places /\ GoodPlace(PlaceAt(k))
      <4>1. k \in Nodes
        BY <2>a
      <4>2. PlaceAt(k) \in Places
        BY <4>1, PlacesAre
      <4>. QED  BY <4>1, <4>2 DEF PlaceAt, GoodPlace
    <3>3. ASSUME NEW t \in Fanned, NEW p \in sent[t] PROVE p \in Places /\ GoodPlace(p)
      BY <2>2, SendsArePlaces
    <3>. SUFFICES ASSUME NEW p \in places PROVE p \in Places /\ GoodPlace(p)
      OBVIOUS
    <3>4. \/ \E r \in results : p \in r.ret.goto
          \/ \E t \in Routed : \E k \in says[t].keys : p = PlaceAt(k)
          \/ \E t \in Fanned : p \in sent[t]
      BY DEF Named
    <3>. QED  BY <3>1, <3>2, <3>3, <3>4
  <2>l. /\ \A p \in loose : p \in Places
        /\ graph.cond = {} => loose = {}
    <3>1. ASSUME NEW t \in Routed, NEW p \in says[t].sends PROVE p \in Places
      BY <2>a, SendsArePlaces
    <3>. QED  BY <3>1, NobodyRoutes DEF Unchecked
  <2>. DEFINE asked == Wanted(places \union loose)
  <2>3. /\ owed' = Wanted(places) /\ tasks' = Static \union Known(asked) /\ results' = {}
        /\ place' = (IF tasks' = {} THEN "over" ELSE "running")
        /\ count' = [count EXCEPT !.depth = IF asked = {} THEN @ + 1 ELSE 1]
    BY <2>2 DEF Goes
  <2>. HIDE DEF places, loose
  <2>4. /\ owed' \subseteq tasks' /\ (\A t \in owed' : t.fits) /\ tasks' \subseteq Tasks
        /\ graph.cond = {} => \A t \in tasks' : t.fits
        /\ asked = {} => tasks' = Static
    <3>1. \A t \in Wanted(places) : t.node \in Nodes /\ t \in Tasks /\ t.fits
      BY <2>p, WantedIsTaken
    <3>2. Wanted(places) \subseteq Known(asked)
      BY <3>1 DEF Wanted, Known
    <3>3. Known(asked) \subseteq Tasks
      BY <2>p, <2>l, AskedIsKnown
    <3>4. graph.cond = {} => asked = Wanted(places)
      BY <2>l
    <3>5. graph.cond = {} => \A t \in tasks' : t.fits
      BY <2>3, <3>1, <3>4, StaticIsKnown DEF Known
    <3>. QED  BY <2>3, <3>1, <3>2, <3>3, <3>5, StaticIsKnown DEF Known
  <2>5. count' \in [iterations : Nat, depth : Nat]
        /\ count'.depth = IF asked = {} THEN count.depth + 1 ELSE 1
    <3>. HIDE DEF asked
    <3>1. CASE asked = {}
      <4>1. count' = [count EXCEPT !.depth = count.depth + 1]
        BY <2>3, <3>1
      <4>2. count.depth + 1 \in Nat /\ count'.depth = count.depth + 1
        BY <1>3, <4>1
      <4>3. count' \in [iterations : Nat, depth : Nat]
        BY <1>3, <4>1, <4>2
      <4>. QED  BY <3>1, <4>2, <4>3
    <3>2. CASE asked # {}
      <4>1. count' = [count EXCEPT !.depth = 1]
        BY <2>3, <3>2
      <4>. QED  BY <1>3, <3>2, <4>1
    <3>. QED  BY <3>1, <3>2
  <2>6. GraphTyped' /\ Checked' /\ RoutesAreTaken'
    BY <1>1, <1>2, <2>3, <2>4, <2>5 DEF KernelInv, GraphTyped, GraphPlaces, Checked, RoutesAreTaken
  <2>7. Behind'
    <3>1. CASE asked = {}
      BY <1>1, <2>4, <2>5, <3>1, OneMoreBehind
    <3>2. CASE asked # {}
      BY <1>1, <2>4, <2>5, <3>2, NothingIsBehind DEF KernelInv
    <3>. QED  BY <3>1, <3>2
  <2>. QED  BY <1>1, <1>2, <2>3, <2>6, <2>7 DEF KernelInv
<1>. QED  BY <1>4, <1>5

LEMMA ConflictKeeps == ASSUME KernelInv, Conflict PROVE KernelInv'
BY FailsKeeps, StaysDeclared DEF Conflict, KernelInv, GraphTyped

LEMMA EditKeeps == ASSUME GraphAssumption, KernelInv, Edit PROVE KernelInv'
<1>1. PICK as \in Nodes \union {"nobody"}, fields \in SUBSET Fields, typed \in BOOLEAN :
        /\ IF as = "nobody" THEN typed ELSE GoodUpdate(as, fields, typed)
        /\ chan' = [f \in Fields |-> IF f \in fields THEN [by |-> as, typed |-> typed] ELSE chan[f]]
  BY DEF Edit
<1>2. /\ place \in {"over", "failed"} /\ graph' = graph /\ place' = place /\ tasks' = tasks
      /\ results' = results /\ owed' = owed /\ count' = count
  BY DEF Edit
<1>3. chan' \in [Fields -> [by : Nodes \union {"nobody"}, typed : BOOLEAN]]
  BY <1>1 DEF KernelInv, GraphTyped
<1>4. ASSUME NEW f \in Fields
      PROVE  chan'[f].typed /\ (chan'[f].by \in Nodes => f \in Declared[chan'[f].by])
  <2>1. CASE f \in fields
    <3>1. chan'[f].by = as /\ chan'[f].typed = typed
      BY <1>1, <2>1
    <3>2. CASE as = "nobody"
      BY <1>1, <3>1, <3>2 DEF GraphAssumption
    <3>3. CASE as # "nobody"
      BY <1>1, <2>1, <3>1, <3>3 DEF GoodUpdate
    <3>. QED  BY <3>2, <3>3
  <2>2. CASE f \notin fields
    <3>1. chan'[f] = chan[f]
      BY <1>1, <2>2
    <3>. QED  BY <3>1 DEF KernelInv, OnlyDeclaredLands
  <2>. QED  BY <2>1, <2>2
<1>5. OnlyDeclaredLands'
  BY <1>4 DEF OnlyDeclaredLands
<1>. QED  BY <1>2, <1>3, <1>5 DEF KernelInv, GraphTyped, Checked, RoutesAreTaken, Behind

LEMMA KernelAlways == GraphSpec => []KernelInv
<1>1. GraphInit => KernelInv
  BY GraphAssumption DEF GraphAssumption, GraphInit, KernelInv, GraphTyped, GraphPlaces, Checked, OnlyDeclaredLands, RoutesAreTaken, Behind
<1>2. KernelInv /\ [GraphNext]_graphVars => KernelInv'
  <2>. SUFFICES ASSUME KernelInv, [GraphNext]_graphVars PROVE KernelInv'
    OBVIOUS
  <2>1. CASE UNCHANGED graphVars
    BY <2>1 DEF graphVars, KernelInv, GraphTyped, Checked, OnlyDeclaredLands, RoutesAreTaken, Behind
  <2>2. CASE Compile
    BY <2>2, GraphAssumption, CompileKeeps
  <2>3. CASE Superstep
    BY <2>3, GraphAssumption, SuperstepKeeps
  <2>4. CASE Conflict
    BY <2>4, ConflictKeeps
  <2>5. CASE Edit
    BY <2>5, GraphAssumption, EditKeeps
  <2>6. ASSUME NEW t \in tasks, RefuseTask(t) \/ Run(t) \/ Raise(t) PROVE KernelInv'
    BY <2>6, RunKeeps
  <2>. QED  BY <2>1, <2>2, <2>3, <2>4, <2>5, <2>6 DEF GraphNext
<1>. QED  BY <1>1, <1>2, PTL DEF GraphSpec

(* What lands in the state and where a run goes is what its graph declared, *)
(* and a DAG's static edges never lead it through more supersteps than it   *)
(* has nodes.                                                               *)
THEOREM GraphIsAsDeclaredAlways == GraphSpec => []GraphIsAsDeclared
<1>1. KernelInv => GraphIsAsDeclared
  <2>. SUFFICES ASSUME KernelInv PROVE GraphIsAsDeclared
    OBVIOUS
  <2>1. DagIsShallow
    <3>. SUFFICES ASSUME graph.dag, place = "running" PROVE count.depth <= Cardinality(Nodes)
      BY DEF DagIsShallow
    <3>1. PICK t \in tasks : TRUE
      BY DEF KernelInv
    <3>2. t.node \in Nodes
      BY DEF KernelInv, GraphTyped, Tasks
    <3>3. PICK path \in SUBSET Nodes : Cardinality(path) + 1 = count.depth /\ ~Visits(graph, t.node, path)
      BY DEF KernelInv, Behind
    <3>4. t.node \notin path
      BY <3>2, <3>3, GraphAssumption, EdgesAreOfNodes, VisitsIs DEF KernelInv
    <3>5. IsFiniteSet(path)
      BY FS_Subset, GraphAssumption DEF GraphAssumption
    <3>6. Cardinality(path \union {t.node}) = Cardinality(path) + 1
      BY <3>4, <3>5, FS_AddElement
    <3>7. Cardinality(path \union {t.node}) <= Cardinality(Nodes)
      <4>1. path \union {t.node} \in SUBSET Nodes
        BY <3>2
      <4>. QED  BY <4>1, FS_Subset, GraphAssumption DEF GraphAssumption
    <3>. QED  BY <3>3, <3>6, <3>7
  <2>. QED  BY <2>1 DEF KernelInv, GraphIsAsDeclared
<1>. QED  BY <1>1, KernelAlways, PTL
=============================================================================
