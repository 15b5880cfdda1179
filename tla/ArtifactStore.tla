----------------------------- MODULE ArtifactStore -----------------------------
(***************************************************************************)
(* grapharc/memory/artifacts.py: SQLiteArtifactStore.put by several        *)
(* processes that share a database and its blob directory.                 *)
(*                                                                         *)
(* A blob's name is the digest of its bytes.  A name made by os.replace is *)
(* on the disk once its directory was fsynced; until then a power cut may  *)
(* take it.  A committed row is on the disk (synchronous = FULL).          *)
(***************************************************************************)
EXTENDS Naturals, Sequences, FiniteSets

CONSTANTS
  Writers, Contents,
  Nothing,
  MaxKills,         \* bound: processes killed
  MaxCuts,          \* bound: power cuts
  MaxFaults         \* bound: calls the file system or the database refuse

ArtifactAssumption ==
  /\ MaxKills \in Nat /\ MaxCuts \in Nat /\ MaxFaults \in Nat
  /\ Nothing \notin Contents

VARIABLES
  blob,      \* what each digest's name holds: "absent", "part" or "whole"
  onDisk,    \* the names a power cut leaves
  tmp,       \* what each temporary name holds
  named,     \* contents some artifact's row names
  putting,   \* the content each writer stores
  putAt,     \* and where in put() it is
  handle,    \* the name its open file has: "tmp" or "blob"
  kills, cuts, faults,
  trusted    \* ghost: contents some put() found a name for that was not on the disk

artifactVars == <<blob, onDisk, tmp, named, putting, putAt, handle, kills, cuts, faults, trusted>>
Count == <<kills, cuts, faults>>

(* Mutants: the row is written first; the directory is not synced.          *)
Put_RowFirst == <<"look", "insert", "open", "write", "replace", "sync">>
Put_NoSync == <<"look", "open", "write", "replace", "insert">>

(* put(): _write_blob, then the row.                                        *)
Put == <<"look", "open", "write", "replace", "sync", "insert">>

(* Mutant: one temporary name for all.                                      *)
TmpOf_Shared(w) == CHOOSE v \in Writers : TRUE

(* The temporary name has a uuid.                                           *)
TmpOf(w) == w

InPut(w, call) == putting[w] # Nothing /\ Put[putAt[w]] = call

Done(w) ==
  /\ putting' = [putting EXCEPT ![w] = Nothing]
  /\ putAt' = [putAt EXCEPT ![w] = 1]

Go(w) ==
  IF putAt[w] = Len(Put) THEN Done(w)
  ELSE putAt' = [putAt EXCEPT ![w] = @ + 1] /\ UNCHANGED putting

(* The rest of _write_blob is passed over.                                  *)
Skip(w) ==
  IF \E i \in putAt[w]..Len(Put) : Put[i] = "insert"
  THEN /\ putAt' = [putAt EXCEPT ![w] = CHOOSE i \in putAt[w]..Len(Put) : Put[i] = "insert"]
       /\ UNCHANGED putting
  ELSE Done(w)

BeginPut(w, c) ==
  /\ putting[w] = Nothing
  /\ putting' = [putting EXCEPT ![w] = c]
  /\ UNCHANGED <<blob, onDisk, tmp, named, putAt, handle, Count, trusted>>

(* "Content-addressed: identical bytes are already stored": on the disk or   *)
(* not.                                                                     *)
Look(w) ==
  /\ InPut(w, "look")
  /\ IF blob[putting[w]] # "absent" THEN Skip(w) ELSE Go(w)
  /\ trusted' = IF blob[putting[w]] # "absent" /\ putting[w] \notin onDisk
                THEN trusted \cup {putting[w]} ELSE trusted
  /\ UNCHANGED <<blob, onDisk, tmp, named, handle, Count>>

Open(w) ==
  /\ InPut(w, "open")
  /\ tmp' = [tmp EXCEPT ![TmpOf(w)] = "part"]
  /\ handle' = [handle EXCEPT ![w] = "tmp"]
  /\ Go(w)
  /\ UNCHANGED <<blob, onDisk, named, Count, trusted>>

(* The bytes are written, flushed and fsynced, wherever the file is by now. *)
Write(w) ==
  /\ InPut(w, "write")
  /\ IF handle[w] = "tmp"
     THEN tmp' = [tmp EXCEPT ![TmpOf(w)] = "whole"] /\ UNCHANGED blob
     ELSE blob' = [blob EXCEPT ![putting[w]] = "whole"] /\ UNCHANGED tmp
  /\ Go(w)
  /\ UNCHANGED <<onDisk, named, handle, Count, trusted>>

(* os.replace: whoever has the file open has it under its new name.         *)
Replace(w) ==
  /\ InPut(w, "replace")
  /\ IF tmp[TmpOf(w)] = "absent"
     THEN Done(w) /\ UNCHANGED <<blob, onDisk, tmp, handle>>
     ELSE /\ blob' = [blob EXCEPT ![putting[w]] = tmp[TmpOf(w)]]
          /\ tmp' = [tmp EXCEPT ![TmpOf(w)] = "absent"]
          /\ handle' = [v \in Writers |-> IF TmpOf(v) = TmpOf(w) THEN "blob" ELSE handle[v]]
          /\ Go(w)
          /\ UNCHANGED onDisk
  /\ UNCHANGED <<named, Count, trusted>>

Sync(w) ==
  /\ InPut(w, "sync")
  /\ onDisk' = onDisk \cup {putting[w]}
  /\ Go(w)
  /\ UNCHANGED <<blob, tmp, named, handle, Count, trusted>>

Insert(w) ==
  /\ InPut(w, "insert")
  /\ named' = named \cup {putting[w]}
  /\ Go(w)
  /\ UNCHANGED <<blob, onDisk, tmp, handle, Count, trusted>>

(* A full disk or a busy database: put() raises, its temporary file goes.   *)
Fault(w) ==
  /\ faults < MaxFaults /\ putting[w] # Nothing /\ Put[putAt[w]] # "look"
  /\ faults' = faults + 1
  /\ tmp' = [tmp EXCEPT ![TmpOf(w)] = "absent"]
  /\ Done(w)
  /\ UNCHANGED <<blob, onDisk, named, handle, kills, cuts, trusted>>

(* The process is killed; another takes its place.                          *)
Kill(w) ==
  /\ kills < MaxKills /\ putting[w] # Nothing
  /\ kills' = kills + 1
  /\ Done(w)
  /\ UNCHANGED <<blob, onDisk, tmp, named, handle, cuts, faults, trusted>>

(* What is named after the power cut is on the disk.                        *)
PowerCut ==
  /\ cuts < MaxCuts
  /\ cuts' = cuts + 1
  /\ \E lost \in SUBSET {c \in Contents \ onDisk : blob[c] # "absent"} :
       /\ blob' = [c \in Contents |-> IF c \in lost THEN "absent" ELSE blob[c]]
       /\ onDisk' = {c \in Contents : blob'[c] # "absent"}
  /\ putting' = [w \in Writers |-> Nothing]
  /\ putAt' = [w \in Writers |-> 1]
  /\ UNCHANGED <<tmp, named, handle, kills, faults, trusted>>

ArtifactInit ==
  /\ blob = [c \in Contents |-> "absent"] /\ onDisk = {}
  /\ tmp = [w \in Writers |-> "absent"] /\ named = {}
  /\ putting = [w \in Writers |-> Nothing] /\ putAt = [w \in Writers |-> 1]
  /\ handle = [w \in Writers |-> "tmp"]
  /\ kills = 0 /\ cuts = 0 /\ faults = 0
  /\ trusted = {}

ArtifactNext ==
  \/ \E w \in Writers :
       \/ \E c \in Contents : BeginPut(w, c)
       \/ Look(w) \/ Open(w) \/ Write(w) \/ Replace(w) \/ Sync(w) \/ Insert(w)
       \/ Fault(w) \/ Kill(w)
  \/ PowerCut

ArtifactSpec == ArtifactInit /\ [][ArtifactNext]_artifactVars

(***************************************************************************)
(* Properties.                                                             *)
(***************************************************************************)
(* An artifact's row names content that is there, and whole: "an orphaned   *)
(* row is a record pointing at content that was never written".  Only a     *)
(* power cut takes it away, from a row whose put() trusted a name it found  *)
(* before whoever made it had synced the directory.                         *)
RowsHaveContent == \A c \in named : blob[c] = "whole" \/ (cuts > 0 /\ c \in trusted)

(* A reader of a digest's name never sees another file than the whole one.  *)
BlobsAreWhole == \A c \in Contents : blob[c] # "part"

(* A row is written for content that survives a power cut: "the fsyncs are  *)
(* what make 'durable' mean survives-a-power-cut rather than                *)
(* survives-a-crash"; but for the rows of such a put().                     *)
RowsAreDurable == named \subseteq onDisk \cup trusted

(* What put() said is stored can be read.                                   *)
ContentIsKept == RowsHaveContent /\ BlobsAreWhole /\ RowsAreDurable
=============================================================================
