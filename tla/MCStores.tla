------------------------------- MODULE MCStores -------------------------------
(***************************************************************************)
(* For TLC, what outlives a process, one store in each part: the session   *)
(* database statement by statement (SessionStore), the blobs and rows of   *)
(* artifacts (ArtifactStore), and claims, corrected by two agents          *)
(* (ClaimStore) or by one while a brief is read (Retrieval).  They share   *)
(* no state in the code either.                                            *)
(***************************************************************************)
EXTENDS Retrieval, SessionStore, ArtifactStore, TLC

CONSTANTS a, b, c1, c2, c3, c4

(* A service that calls a database, what corrects it, and what the database *)
(* in turn runs on: the question names neither.                             *)
MCClaims == {c1, c2, c3, c4}
MCKeyOf  == c1 :> <<"api", "calls">> @@ c2 :> <<"api", "calls">>
              @@ c3 :> <<"db", "runs on">> @@ c4 :> <<"db", "runs on">>
MCObjectOf == c1 :> "db" @@ c2 :> "cache" @@ c3 :> "host" @@ c4 :> "cloud"
MCLexical == c1 :> 6 @@ c2 :> 2 @@ c3 :> 0 @@ c4 :> 0
MCVector  == c1 :> 100 @@ c2 :> 600 @@ c3 :> 0 @@ c4 :> 0
MCSeen    == <<c1, c3, c2, c4>>

(* The processes differ by nothing but their pids, the sessions by nothing  *)
(* but their ids; a session's default thread goes by its id.                *)
Symmetry == Permutations(Proc) \cup Permutations(Id)

VARIABLE part

ASSUME ArtifactAssumption

MCInit ==
  /\ part \in {"sessions", "artifacts", "claims", "brief"}
  /\ RInit /\ StoreInit /\ ArtifactInit

MCNext ==
  \/ /\ part = "sessions" /\ StoreNext
     /\ UNCHANGED <<part, rvars, artifactVars>>
  \/ /\ part = "artifacts" /\ ArtifactNext
     /\ UNCHANGED <<part, rvars, storeVars>>
  \/ /\ part = "claims" /\ Next
     /\ UNCHANGED <<part, half, reader, storeVars, artifactVars>>
  \/ /\ part = "brief" /\ RNext /\ UNCHANGED <<held[b], report[b]>>
     /\ UNCHANGED <<part, storeVars, artifactVars>>

MCSpec == MCInit /\ [][MCNext]_<<part, rvars, storeVars, artifactVars>>
=============================================================================
