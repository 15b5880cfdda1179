------------------------------- MODULE Retrieval -------------------------------
(***************************************************************************)
(* grapharc/memory/retrieval.py and index.py: the brief a node is given,   *)
(* put together by one reader while the agents of ClaimStore correct the   *)
(* claims.  render_context reads the store once for what is believed, and  *)
(* once more for each subject it warns about.                              *)
(*                                                                         *)
(* The store is the in-process one: its writers hold a lock, its readers   *)
(* do not, so a reader may see supersede() half done, and a walk over the  *)
(* dict raises when a claim is added under it.                             *)
(*                                                                         *)
(* Scores are whole numbers, 1000 for a named subject; what bm25 and the   *)
(* embedder make of a claim and the query are parameters.                  *)
(***************************************************************************)
EXTENDS ClaimStore, SequencesExt

CONSTANTS
  Entities,    \* the subjects the caller names
  Lexical,     \* bm25 of each claim, for the caller's query
  Vector,      \* its similarity to the query, all 0 without an embedder
  Seen,        \* the order the claims were observed in, a sequence
  MaxClaims, MaxDeadEnds, Hops,
  Room,        \* max_tokens less _NOTE_RESERVE; a line costs one
  MaxBriefs    \* bound: briefs made in a run

ASSUME RetrievalAssumption ==
  /\ {Lexical, Vector} \subseteq [Claims -> Nat]
  /\ Seen \in Seq(Claims) /\ Range(Seen) = Claims
  /\ {MaxClaims, MaxDeadEnds, Hops, Room, MaxBriefs} \subseteq Nat

VARIABLES
  half,        \* the correction a writer has made one assignment of, or None
  stage,       \* of the brief: idle, warn, walk, done, raised
  seen,        \* the claims the index was made of, as read
  facts,       \* what search() made of them
  warned,      \* subjects whose dead ends are still to be asked for
  walked,      \* how many claims the dict had as the walk began
  dead,        \* dead ends found
  briefs,
  before       \* ghost: the dead ends of the moment the brief began, still dead

reader == <<stage, seen, facts, warned, walked, dead, briefs, before>>
rvars  == <<vars, half, reader>>

Subject(c) == KeyOf[c][1]
Age(c) == CHOOSE i \in DOMAIN Seen : Seen[i] = c

(***************************************************************************)
(* search.                                                                 *)
(***************************************************************************)
Hit(score, hop, via) == [score |-> score, hop |-> hop, via |-> via]
NoHit == Hit(0, 0, None)

(* Mutant: the claims are filtered as they are shown.                       *)
Kept_All(copies) == {r.id : r \in copies}

(* Superseded claims are neither shown nor traversed.                       *)
Kept(copies) == {r.id : r \in {q \in copies : q.by = None}}

(* hybrid: lexical scores against the best of them, similarities as they    *)
(* are from min_similarity on, and 60 to 40 where there are both.           *)
Blended(copies, c) ==
  LET ids == {r.id : r \in copies}
      top == CHOOSE m \in {Lexical[d] : d \in ids} : \A d \in ids : Lexical[d] <= m
      lex == IF top = 0 THEN 0 ELSE (1000 * Lexical[c]) \div top
      near == {d \in ids : Vector[d] >= 150}
      vec == IF c \in near THEN Vector[c] ELSE 0
  IN IF near = {} THEN lex ELSE IF top = 0 THEN vec ELSE (60 * lex + 40 * vec) \div 100

Matches(copies, c) == Subject(c) \in Entities \/ Blended(copies, c) > 0

Seeds(copies) ==
  [c \in Claims |->
     IF c \notin Kept(copies) THEN NoHit
     ELSE Hit((IF Subject(c) \in Entities THEN 1000 ELSE 0) + (90 * Blended(copies, c)) \div 100, 0, None)]

Hits(h) == {c \in Claims : h[c].score > 0}

(* rank_key, highest first.                                                 *)
Above(score, c, d) == score[c] > score[d] \/ (score[c] = score[d] /\ Age(c) > Age(d))
Ranked(S, score) == SetToSortSeq(S, LAMBDA c, d : Above(score, c, d))
Top(S, score, n) == LET s == Ranked(S, score) IN SubSeq(s, 1, IF Len(s) < n THEN Len(s) ELSE n)

(* A claim's object read as a subject, and the claims that point at it.     *)
Neighbours(copies, c) ==
  {r.id : r \in {q \in copies : q.id # c /\ (Subject(q.id) = ObjectOf[c] \/ ObjectOf[q.id] = Subject(c))}}

(* One parent of the frontier offers its neighbours 45% of its score.       *)
Promote(copies, depth, acc, parent) ==
  LET share == (acc.hits[parent].score * 45) \div 100
      taken == {c \in Neighbours(copies, parent) \cap Kept(copies) : share > acc.hits[c].score}
  IN [hits |-> [c \in Claims |-> IF c \in taken THEN Hit(share, depth, parent) ELSE acc.hits[c]],
      promoted |-> acc.promoted \cup taken]

Expanded(copies) ==
  LET Scores(h) == [c \in Claims |-> h[c].score]
      start == Seeds(copies)
      Depth[d \in 0..Hops] ==
        IF d = 0 THEN [hits |-> start, frontier |-> Top(Hits(start), Scores(start), MaxClaims)]
        ELSE LET acc == FoldLeft(LAMBDA a, p : Promote(copies, d, a, p),
                                 [hits |-> Depth[d - 1].hits, promoted |-> {}],
                                 Depth[d - 1].frontier)
             IN [hits |-> acc.hits, frontier |-> Top(acc.promoted, Scores(acc.hits), MaxClaims)]
  IN Depth[Hops].hits

Facts(copies) ==
  LET h == Expanded(copies)
      current == {r.id : r \in {q \in copies : q.by = None}}
  IN Top(Hits(h) \cap current, [c \in Claims |-> h[c].score], MaxClaims)

(***************************************************************************)
(* render_context.                                                         *)
(***************************************************************************)
(* Mutant: only the subjects the caller names.                              *)
Warned_Named(shown) == Entities

(* The named entities, and the subjects of the facts that are shown.        *)
Warned(shown) == Entities \cup {Subject(c) : c \in Range(shown)}

(* retrieve_dead_ends: up to max_dead_ends of those found are shown, the    *)
(* most relevant and then the most recently corrected ones; the order is    *)
(* left out.                                                                *)
ShownDead(found) ==
  IF Cardinality(found) < MaxDeadEnds THEN Cardinality(found) ELSE MaxDeadEnds

Disputed(shown) == {c \in Range(shown) : \E d \in Range(shown) : Disagree(c, d)}

(* Mutant: the lines of a section that is not begun are not counted.        *)
Fit_Silent(acc, entries) ==
  LET head == IF acc.spent > 0 THEN 2 ELSE 1
      space == Room - acc.spent - head
      fits == IF space < 0 THEN 0 ELSE IF space < entries THEN space ELSE entries
  IN IF fits = 0 THEN [acc EXCEPT !.kept = Append(@, 0)]
     ELSE [spent |-> acc.spent + head + fits, kept |-> Append(acc.kept, fits),
           dropped |-> acc.dropped + (entries - fits)]

(* One block: whole entries while they fit, no header over nothing.         *)
Fit(acc, entries) ==
  LET head == IF acc.spent > 0 THEN 2 ELSE 1
      space == Room - acc.spent - head
      fits == IF space < 0 THEN 0 ELSE IF space < entries THEN space ELSE entries
  IN [spent |-> IF fits = 0 THEN acc.spent ELSE acc.spent + head + fits,
      kept |-> Append(acc.kept, fits), dropped |-> acc.dropped + (entries - fits)]

(* A line for each fact shown, one for those that disagree, one for each    *)
(* dead end, and one for those omitted, if any is shown.                    *)
Sections(hits, found) ==
  LET shown == ShownDead(found)
      omitted == Cardinality(found) - shown
  IN << Cardinality({c \in Claims : c \in Range(hits)}),
        IF Disputed(hits) = {} THEN 0 ELSE 1,
        IF omitted > 0 /\ shown > 0 THEN shown + 1 ELSE shown >>

Blank == [spent |-> 0, kept |-> <<>>, dropped |-> 0]

(* Each section takes of the room what the ones before it left.             *)
Filled(s) == Fit(Fit(Fit(Blank, s[1]), s[2]), s[3])

Brief(hits, found) == Filled(Sections(hits, found))

(***************************************************************************)
(* The reader.                                                             *)
(***************************************************************************)
Begin ==
  /\ stage \in {"idle", "done", "raised"} /\ briefs < MaxBriefs
  /\ stage' = "warn"
  /\ briefs' = briefs + 1
  /\ seen' = {Read(c) : c \in stored}
  /\ facts' = Facts(seen')
  /\ warned' = Warned(facts')
  /\ dead' = {}
  /\ before' = {c \in stored : marks[c] # None}
  /\ UNCHANGED <<vars, half, walked>>

(* dead_ends(entity): a walk over the dict.                                 *)
Walk ==
  /\ stage = "warn" /\ warned # {}
  /\ stage' = "walk"
  /\ walked' = Cardinality(stored)
  /\ UNCHANGED <<vars, half, seen, facts, warned, dead, briefs, before>>

Walked ==
  /\ stage = "walk"
  /\ IF Cardinality(stored) # walked
     THEN stage' = "raised" /\ UNCHANGED <<warned, dead>>
     ELSE \E e \in warned :
            /\ stage' = "warn"
            /\ warned' = warned \ {e}
            /\ dead' = dead \cup {c \in stored : marks[c] # None /\ Subject(c) = e}
  /\ UNCHANGED <<vars, half, seen, facts, walked, briefs, before>>

Render ==
  /\ stage = "warn" /\ warned = {}
  /\ stage' = "done"
  /\ UNCHANGED <<vars, half, seen, facts, warned, walked, dead, briefs, before>>

(***************************************************************************)
(* The writers, and supersede() in its two assignments.                    *)
(***************************************************************************)
SupersedeBegins(a) ==
  /\ half = None /\ report[a] # None /\ held[a] = None /\ Supersedable(report[a])
  /\ stored' = stored \cup {report[a].incoming.id}
  /\ marks' = Upsert(report[a].incoming)
  /\ half' = report[a].existing.id
  /\ before' = {c \in before : marks'[c] # None}
  /\ UNCHANGED <<edges, agent, ghost, stage, seen, facts, warned, walked, dead, briefs>>

SupersedeEnds(a) ==
  /\ half # None /\ report[a] # None /\ report[a].existing.id = half /\ report[a].incoming.id \in stored
  /\ marks' = [marks EXCEPT ![half] = report[a].incoming.id]
  /\ edges' = edges \cup {<<half, report[a].incoming.id>>}
  /\ half' = None
  /\ report' = [report EXCEPT ![a] = None]
  /\ corrected' = corrected \cup {report[a].existing.id}
  /\ UNCHANGED <<stored, held, place, told, reported, restored, reader>>

(* What else a writer does, none of it with the lock held by another.       *)
Writes(a) ==
  /\ half = None
  /\ \/ \E c \in Claims : Observe(a, c) \/ Correct(a, c)
     \/ Add(a) \/ Detect(a) \/ Scan(a) \/ Leave(a)
  /\ UNCHANGED <<half, reader>>

RInit ==
  /\ Init
  /\ half = None
  /\ stage = "idle" /\ seen = {} /\ facts = <<>> /\ warned = {} /\ walked = 0 /\ dead = {}
  /\ briefs = 0 /\ before = {}

RNext ==
  \/ Begin \/ Walk \/ Walked \/ Render
  \/ \E a \in Agents : SupersedeBegins(a) \/ SupersedeEnds(a) \/ Writes(a)

RSpec == RInit /\ [][RNext]_rvars

(***************************************************************************)
(* Properties.                                                             *)
(***************************************************************************)
(* "A brief driven by a query still warns about the dead ends behind its    *)
(* own answers": what was retracted about a subject before the brief began, *)
(* and not put back by a stale copy since, is found, however the store is   *)
(* corrected while the brief is made; and of what is found the brief shows  *)
(* every line, or says that it left some out: max_dead_ends in the section, *)
(* the room in the note. With max_dead_ends = 0 it does neither.            *)
Due == {c \in before : Subject(c) \in Entities \cup {Subject(f) : f \in Range(facts)}}
SaysLess(brief) == brief.kept[3] > MaxDeadEnds \/ brief.dropped > 0

WarnsOfItsFacts ==
  stage = "done" =>
    /\ Due \subseteq dead
    /\ MaxDeadEnds > 0 =>
         LET brief == Brief(facts, dead)
         IN brief.kept[3] = Cardinality(dead) \/ SaysLess(brief)

(* "A retracted fact's edges are retracted with it": a claim is reached     *)
(* from a match along claims that all stand.                                *)
Reach(copies) ==
  LET current == {r.id : r \in {q \in copies : q.by = None}}
      R[d \in 0..Hops] ==
        IF d = 0 THEN {c \in current : Matches(copies, c)}
        ELSE R[d - 1] \cup {c \in current : \E p \in R[d - 1] : c \in Neighbours(copies, p)}
  IN R[Hops]

RetractedEdgesAreGone == stage = "done" => Range(facts) \subseteq Reach(seen)

Accounted(brief, s) ==
  /\ brief.spent <= Room
  /\ brief.kept[1] + brief.kept[2] + brief.kept[3] + brief.dropped = s[1] + s[2] + s[3]

(* "Says in the output how many lines it dropped": what is kept and what    *)
(* the note counts are every line, and what is kept fits.                   *)
BriefIsAccounted ==
  stage = "done" => Accounted(Brief(facts, dead), Sections(facts, dead))

(* What a brief says is what the store held, and it says what it left out.  *)
BriefIsTrue == RetractedEdgesAreGone /\ BriefIsAccounted

(* Said in the repository and refuted by TLC; README.md tells each.         *)

(* "What is believed, what is disputed, what was already tried and          *)
(* retracted": no claim is in the first section and in the last.            *)
BelievedOrRetracted == stage = "done" => Range(facts) \cap dead = {}
=============================================================================
