------------------------------ MODULE TraceTail -------------------------------
(***************************************************************************)
(* The trace file itself: grapharc/observe/trace.py's recorder, which      *)
(* appends, and indexes what was appended to seed a resumed thread; the    *)
(* kernel's invocations that use it; and the two readers of a file another *)
(* process is writing, the live page's stream and Slack's progress tail.   *)
(*                                                                         *)
(* The disk is a sequence of what single write calls left there: a whole   *)
(* line, or the head and the rest of one too long for a buffer. Offsets    *)
(* count those. Recorders of two processes do not know of each other, and  *)
(* a process may be killed between the head and the rest.                  *)
(***************************************************************************)
EXTENDS Integers, Sequences, FiniteSets, FiniteSetsExt

CONSTANTS
  Procs, Threads,
  MaxRuns,    \* invocations in all (bound)
  MaxWatched, \* invocations in all while a reader follows the file (bound)
  MaxSplits,  \* lines written in two calls (bound)
  MaxKills    \* processes killed (bound)

VARIABLES
  disk,    \* the file: [part, ev]
  proc,    \* each process: its run, the next step, and its recorder's index
  reader,  \* the page or the tail that follows the file
  used     \* [runs, splits, kills] so far

traceVars == <<disk, proc, reader, used>>

Closing == {"line", "rest"}

(* The write that ends a line, and what the lines within lo+1..hi say. A    *)
(* line parses when it is whole from its beginning, and of one event.       *)
Cut(lo, hi) == Max({lo} \union {i \in (lo + 1)..hi : disk[i].part \in Closing})

IsGood(lo, i) ==
  \/ disk[i].part = "line" /\ (i - 1 > lo => disk[i - 1].part \in Closing)
  \/ /\ disk[i].part = "rest" /\ i - 1 > lo
     /\ disk[i - 1] = [part |-> "head", ev |-> disk[i].ev]
     /\ i - 2 > lo => disk[i - 2].part \in Closing

Ended(lo, hi) == {i \in (lo + 1)..Cut(lo, hi) : disk[i].part \in Closing}
Good(lo, hi) == {i \in Ended(lo, hi) : IsGood(lo, i)}
Parsed(hi) == {disk[i].ev : i \in Good(0, hi)}

-------------------------------------------------------------------------------
(* The recorder and its invocations.                                        *)
Fresh ==
  [at |-> "idle", mid |-> FALSE, thread |-> "none", step |-> 0, attempt |-> 0, off |-> 0,
   max |-> [t \in Threads |-> <<0, 0>>]]

Driven == {proc[p].thread : p \in {q \in Procs : proc[q].at # "idle"}}

IndexEnd(off) == Cut(off, Len(disk))

(* Mutant: the last line says where the thread is.                          *)
Fold_Last(off, max, t) ==
  LET mine == {i \in Good(off, Len(disk)) : disk[i].ev.thread = t}
  IN IF mine = {} THEN max ELSE <<disk[Max(mine)].ev.step, disk[Max(mine)].ev.attempt>>

Fold(off, max, t) ==
  LET evs == {e \in {disk[i].ev : i \in Good(off, Len(disk))} : e.thread = t}
  IN <<Max({max[1]} \union {e.step : e \in evs}), Max({max[2]} \union {e.attempt : e \in evs})>>

(* _run_config: thread_summary folds what was appended and seeds the run;   *)
(* a line that does not parse raises, and the invocation with it.           *)
RunBound == IF reader.is = "nobody" THEN MaxRuns ELSE MaxWatched

IndexRaises(off) == Ended(off, Len(disk)) # Good(off, Len(disk))

Invoke(p, t) ==
  /\ proc[p].at = "idle" /\ t \notin Driven /\ used.runs < RunBound
  /\ ~IndexRaises(proc[p].off)
  /\ LET max == [u \in Threads |-> Fold(proc[p].off, proc[p].max[u], u)] IN
     proc' = [proc EXCEPT ![p] =
       [at |-> "topology", mid |-> FALSE, thread |-> t, step |-> max[t][1], attempt |-> max[t][2] + 1,
        off |-> IndexEnd(@.off), max |-> max]]
  /\ used' = [used EXCEPT !.runs = @ + 1]
  /\ UNCHANGED <<disk, reader>>

InvokeRaises(p) ==
  /\ proc[p].at = "idle" /\ used.runs < RunBound
  /\ IndexRaises(proc[p].off)
  /\ used' = [used EXCEPT !.runs = @ + 1]
  /\ UNCHANGED <<disk, proc, reader>>

(* record: the topology, at step 0, then the run's events up to its last.   *)
EventOf(p) ==
  [thread |-> proc[p].thread, attempt |-> proc[p].attempt,
   step |-> IF proc[p].at = "topology" THEN 0 ELSE proc[p].step + 1,
   stop |-> proc[p].at # "topology"]

Recorded(p, ev) ==
  IF ev.stop THEN [Fresh EXCEPT !.off = proc[p].off, !.max = proc[p].max]
             ELSE [proc[p] EXCEPT !.at = "running", !.mid = FALSE]

Line(p, part) == [part |-> part, ev |-> EventOf(p)]

Record(p) ==
  /\ proc[p].at # "idle" /\ ~proc[p].mid
  /\ \/ /\ disk' = Append(disk, Line(p, "line"))
        /\ proc' = [proc EXCEPT ![p] = Recorded(p, EventOf(p))]
        /\ UNCHANGED used
     \/ /\ used.splits < MaxSplits
        /\ disk' = Append(disk, Line(p, "head"))
        /\ proc' = [proc EXCEPT ![p].mid = TRUE]
        /\ used' = [used EXCEPT !.splits = @ + 1]
  /\ UNCHANGED reader

(* The rest of the line this process has begun.                             *)
RecordRest(p) ==
  /\ proc[p].mid
  /\ disk' = Append(disk, Line(p, "rest"))
  /\ proc' = [proc EXCEPT ![p] = Recorded(p, EventOf(p))]
  /\ UNCHANGED <<reader, used>>

(* The process is killed; its successor has an index to build.              *)
Kill(p) ==
  /\ proc[p].at # "idle" /\ used.kills < MaxKills
  /\ proc' = [proc EXCEPT ![p] = Fresh]
  /\ used' = [used EXCEPT !.kills = @ + 1]
  /\ UNCHANGED <<disk, reader>>

-------------------------------------------------------------------------------
(* The live page's frames(): stat, read in a thread, send, and remember how *)
(* far the read went.                                                       *)
PageStats ==
  /\ reader.is = "page" /\ reader.at = "poll" /\ Len(disk) # reader.last
  /\ reader' = [reader EXCEPT !.at = "read", !.size = Len(disk)]
  /\ UNCHANGED <<disk, proc, used>>

PageReads ==
  /\ reader.is = "page" /\ reader.at = "read"
  /\ reader' = [reader EXCEPT !.at = "send", !.shown = Parsed(Len(disk)),
                  !.end = IF Parsed(Len(disk)) = {} THEN 0 ELSE Cut(0, Len(disk))]
  /\ UNCHANGED <<disk, proc, used>>

(* Mutant: the size is asked for again, after the read.                     *)
Cursor_Restat(page) == Len(disk)

Cursor(page) == IF page.end # 0 THEN page.end ELSE page.size

PageSends ==
  /\ reader.is = "page" /\ reader.at = "send"
  /\ reader' = [reader EXCEPT !.at = "poll", !.last = Cursor(reader), !.size = 0, !.end = 0]
  /\ UNCHANGED <<disk, proc, used>>

(* A finished run's page is told so, after a grace, and closed.             *)
PageCloses ==
  /\ reader.is = "page" /\ reader.at = "poll"
  /\ \E e \in reader.shown : e.stop
  /\ reader' = [reader EXCEPT !.at = "closed"]
  /\ UNCHANGED <<disk, proc, used>>

-------------------------------------------------------------------------------
(* Slack's LiveTail: it starts at the end of the file, wherever that is,    *)
(* takes the last run id of the complete lines it has not seen, and renders *)
(* that run from the whole file.                                            *)
TailStarts ==
  /\ reader.is = "tail" /\ reader.at = "off"
  /\ reader' = [reader EXCEPT !.at = "poll", !.last = Len(disk)]
  /\ UNCHANGED <<disk, proc, used>>

(* Mutant: the offset is the size that was read up to.                      *)
TailEnd_Size(off) == Len(disk)

TailEnd(off) == Cut(off, Len(disk))

RunOf(e) == <<e.thread, e.attempt>>

TailReads ==
  /\ reader.is = "tail" /\ reader.at = "poll" /\ Cut(reader.last, Len(disk)) > reader.last
  /\ LET good == Good(reader.last, Len(disk)) IN
     reader' = [reader EXCEPT
       !.last = TailEnd(reader.last),
       !.run = IF good = {} THEN @ ELSE RunOf(disk[Max(good)].ev),
       !.dirty = @ \/ good # {}]
  /\ UNCHANGED <<disk, proc, used>>

TailRenders ==
  /\ reader.is = "tail" /\ reader.at = "poll" /\ reader.dirty
  /\ \E alive \in BOOLEAN :
       reader' = [reader EXCEPT !.at = IF alive THEN "poll" ELSE "dead",
         !.dirty = FALSE,
         !.shown = {e \in Parsed(Len(disk)) : RunOf(e) = reader.run}]
  /\ UNCHANGED <<disk, proc, used>>

-------------------------------------------------------------------------------
NewReader(is) ==
  [is |-> is, at |-> IF is = "page" THEN "poll" ELSE "off", last |-> -1, size |-> 0,
   end |-> 0, shown |-> {}, run |-> <<>>, dirty |-> FALSE]

TraceInit ==
  /\ disk = <<>> /\ proc = [p \in Procs |-> Fresh]
  /\ reader \in {NewReader(is) : is \in {"page", "tail", "nobody"}}
  /\ used = [runs |-> 0, splits |-> 0, kills |-> 0]

PageStep == PageStats \/ PageReads \/ PageSends
TailStep == TailReads \/ TailRenders

TraceNext ==
  \/ \E p \in Procs :
       \/ \E t \in Threads : Invoke(p, t)
       \/ InvokeRaises(p) \/ Record(p) \/ RecordRest(p) \/ Kill(p)
  \/ PageStep \/ PageCloses
  \/ TailStarts \/ TailStep

TraceSpec == TraceInit /\ [][TraceNext]_traceVars /\ WF_traceVars(PageStep) /\ WF_traceVars(TailStep)

(***************************************************************************)
(* Properties.                                                             *)
(***************************************************************************)
TraceTypeOK ==
  /\ \A i \in DOMAIN disk : disk[i].part \in {"line", "head", "rest"}
  /\ \A p \in Procs : proc[p].at \in {"idle", "topology", "running"}
  /\ reader.at \in {"poll", "read", "send", "closed", "off", "dead"}

(* A resumed run's counters are seeded so that (thread_id, step) stays      *)
(* unique across attempts, whoever wrote the earlier ones and however they  *)
(* were cut short.                                                          *)
StepsAreUnique ==
  \A i, j \in Good(0, Len(disk)) :
    (disk[i].ev.thread = disk[j].ev.thread /\ disk[i].ev.step = disk[j].ev.step
      /\ disk[i].ev.step > 0) => i = j

(* A reader skips nothing: once the writers are quiet the page shows every  *)
(* event that can be read, unless it was closed as done; and so does the    *)
(* tail, of the run it follows, unless its sink is gone.                    *)
NothingSkipped ==
  <>[](\/ reader.is = "nobody"
       \/ reader.is = "page" /\ (reader.at = "closed" \/ reader.shown = Parsed(Len(disk)))
       \/ /\ reader.is = "tail"
          /\ \/ reader.at # "poll" \/ reader.run = <<>>
             \/ reader.shown = {e \in Parsed(Len(disk)) : RunOf(e) = reader.run})

(* Said in the repository and refuted by TLC; README.md tells each.         *)

(* "cuts at the last newline, and skips anything that does not parse: the   *)
(* same discipline _advance_index applies": seeding a run never raises.     *)
IndexSkips == \A p \in Procs : ~IndexRaises(proc[p].off)
=============================================================================
