----------------------------- MODULE ArtifactScan -----------------------------
(***************************************************************************)
(* What grep, slice and sql make of an artifact that arrives in chunks     *)
(* (artifact_tools/grep.py, slice.py and the row loop of sql.py): the      *)
(* feeder's cut of long lines, the collector of ripgrep's events, the      *)
(* slicer, and the loop that keeps rows.  The artifact is the positions    *)
(* 1..Size of its bytes and the set of those that are newlines; what a     *)
(* step lets through or writes is a set of positions.                      *)
(***************************************************************************)
EXTENDS Integers, FiniteSets, Sequences

CONSTANTS
  Size,      \* bound: bytes of the artifact
  Chunk,     \* bound: bytes of a chunk (a read may return fewer)
  Limit,     \* MAX_LINE_BYTES
  Budget,    \* RESULT_BUDGET_BYTES and ROW_BUDGET_BYTES
  Requests   \* the requests the tasks accept, see RequestType

RequestType ==
  [task : {"grep"}, context : Nat, maxMatches : Nat \ {0}, saveAll : BOOLEAN]
    \cup [task : {"slice"}, from : Nat \ {0}, to : Nat]
    \cup [task : {"sql"}, maxRows : Nat \ {0}, batch : Nat \ {0}]

\* check_range: a slice is not empty.
ASSUME ScanAssumption ==
  /\ Size \in Nat /\ Chunk \in Nat \ {0} /\ Limit \in Nat \ {0} /\ Budget \in Nat
  /\ Requests \subseteq RequestType
  /\ \A r \in Requests : r.task = "slice" => r.from < r.to

VARIABLES
  newlines,   \* the positions of the artifact's newlines
  hits,       \* the positions the pattern matches
  request,
  outcome,    \* "none", "answered" or "deadline"
  at,         \* how much of the artifact has been read
  unfinished, \* cut_long_lines: bytes let through of the line in progress
  dropping,   \* cut_long_lines: inside a long line, past the cut
  longLines,  \* stats.long_lines
  passed,     \* the bytes fed to ripgrep (their number is stats.bytes_scanned)
  event,      \* the last line ripgrep has dealt with
  kept, total, used, full, pending, recent, \* the collector's fields
  saved,      \* the lines written to the 'matches' artifact
  line,       \* run_slice: the line the next chunk starts in
  written,    \* run_slice: the bytes written to the slice
  rows,       \* run_sql: the rows kept, by number
  endedBy     \* run_sql's ended_by

input == <<newlines, hits, request>>
feedVars == <<unfinished, dropping, longLines, passed>>
collectVars == <<event, kept, total, used, full, pending, recent, saved>>
sliceVars == <<line, written>>
rowVars == <<rows, endedBy>>
vars == <<input, outcome, at, feedVars, collectVars, sliceVars, rowVars>>

None == [line |-> 0]

MinOf(S) == CHOOSE x \in S : \A y \in S : x <= y
MaxOf(S) == CHOOSE x \in S : \A y \in S : x >= y

\* The lines of the artifact, an unterminated last one included.
LineNo(p) == 1 + Cardinality({n \in newlines : n < p})
LineStart(p) == 1 + MaxOf({0} \cup {n \in newlines : n < p})
Lines == {LineNo(p) : p \in 1..Size}
InLine(l) == {p \in 1..Size : LineNo(p) = l}

Init ==
  /\ newlines \in SUBSET (1..Size) /\ hits \in SUBSET ((1..Size) \ newlines)
  /\ request \in Requests
  /\ outcome = "none" /\ at = 0
  /\ unfinished = 0 /\ dropping = FALSE /\ longLines = 0 /\ passed = {}
  /\ event = 0 /\ kept = <<>> /\ total = 0 /\ used = 0 /\ full = FALSE
  /\ pending = None /\ recent = <<>> /\ saved = {}
  /\ line = 1 /\ written = {}
  /\ rows = 0 /\ endedBy = ""

-------------------------------------------------------------------------------
(* grep: cutting the long lines out of the chunk lo..hi *)

\* Mutant: the unfinished line before the chunk is left out of account.
AllLinesShortMut(lo, hi) ==
  LET block == IF Limit \div 2 > 1 THEN Limit \div 2 ELSE 1
      first == MinOf({hi + 1} \cup (newlines \cap (lo..hi)))
  IN /\ first - lo <= Limit
     /\ \A start \in lo..(hi - block + 1) :
          (start - lo) % block = 0 => newlines \cap (start..(start + block - 1)) # {}

\* _all_lines_short: the first line with what precedes it fits, and every
\* aligned block of half the limit has a newline.
AllLinesShort(lo, hi) ==
  LET block == IF Limit \div 2 > 1 THEN Limit \div 2 ELSE 1
      first == MinOf({hi + 1} \cup (newlines \cap (lo..hi)))
  IN /\ unfinished + (first - lo) <= Limit
     /\ \A start \in lo..(hi - block + 1) :
          (start - lo) % block = 0 => newlines \cap (start..(start + block - 1)) # {}

\* The line segments of a chunk, by where they start; a segment ends before its
\* newline or at the end of the chunk.
Segments(lo, hi) == {lo} \cup {n + 1 : n \in newlines \cap (lo..(hi - 1))}
SegmentEnd(s, hi) == MinOf({hi + 1} \cup (newlines \cap (s..hi)))

\* What a segment's line has let through before it, and whether it is being
\* dropped: only the first segment goes on with a line.
Carried(s, lo) == IF s = lo THEN unfinished ELSE 0
Dropped(s, lo) == s = lo /\ dropping
TooLong(s, lo, hi) == ~Dropped(s, lo) /\ SegmentEnd(s, hi) - s > Limit - Carried(s, lo)

KeptOf(s, lo, hi) ==
  (IF Dropped(s, lo) THEN {}
   ELSE IF TooLong(s, lo, hi) THEN s..(s + Limit - Carried(s, lo) - 1)
   ELSE s..(SegmentEnd(s, hi) - 1))
  \cup ({SegmentEnd(s, hi)} \cap (lo..hi))

PassChunk(lo, hi) ==
  /\ ~dropping /\ AllLinesShort(lo, hi)
  /\ LET last == MaxOf({lo - 1} \cup (newlines \cap (lo..hi)))
     IN unfinished' = IF last < lo THEN unfinished + (hi - lo + 1) ELSE hi - last
  /\ passed' = passed \cup (lo..hi)
  /\ UNCHANGED <<dropping, longLines>>

CutChunk(lo, hi) ==
  /\ dropping \/ ~AllLinesShort(lo, hi)
  /\ passed' = passed \cup UNION {KeptOf(s, lo, hi) : s \in Segments(lo, hi)}
  /\ longLines' = longLines + Cardinality({s \in Segments(lo, hi) : TooLong(s, lo, hi)})
  /\ LET s == MaxOf(Segments(lo, hi))
     IN IF hi \in newlines
          THEN unfinished' = 0 /\ dropping' = FALSE
          ELSE /\ dropping' = (Dropped(s, lo) \/ TooLong(s, lo, hi))
               /\ unfinished' = IF TooLong(s, lo, hi) THEN Limit
                                ELSE IF Dropped(s, lo) THEN unfinished
                                ELSE Carried(s, lo) + SegmentEnd(s, hi) - s

Feed ==
  /\ request.task = "grep" /\ outcome = "none" /\ at < Size
  /\ \E hi \in (at + 1)..Size :
       /\ hi - at <= Chunk /\ at' = hi
       /\ PassChunk(at + 1, hi) \/ CutChunk(at + 1, hi)
  /\ UNCHANGED <<input, outcome, collectVars, sliceVars, rowVars>>

-------------------------------------------------------------------------------
(* grep: the collector *)

\* ripgrep (external): the lines in which it finds the pattern, and the lines
\* within the context of one; it numbers them by the newlines it was fed.
Matching == {l \in Lines : \E p \in passed \cap hits : LineNo(p) = l}
Near(l) == \E m \in Matching : l - m <= request.context /\ m - l <= request.context
Events == {l \in Lines : l \in Matching \/ Near(l)}

WantsMore(f, k) == ~f /\ Len(k) < request.maxMatches

\* A match as json: itself and its context lines, each of size one.
SizeOf(m) == 1 + Cardinality(m.before) + Cardinality(m.after)

\* Mutant: the match that does not fit is left out, but a later one may fit.
CommitMut ==
  IF pending = None \/ used + SizeOf(pending) > Budget
    THEN [kept |-> kept, used |-> used, full |-> full]
    ELSE [kept |-> Append(kept, pending), used |-> used + SizeOf(pending), full |-> full]

\* _commit: the pending match is kept if it fits; if not, nothing is any more.
Commit ==
  IF pending = None THEN [kept |-> kept, used |-> used, full |-> full]
  ELSE IF used + SizeOf(pending) > Budget THEN [kept |-> kept, used |-> used, full |-> TRUE]
  ELSE [kept |-> Append(kept, pending), used |-> used + SizeOf(pending), full |-> full]

NextEvent(l) ==
  /\ request.task = "grep" /\ outcome = "none" /\ at = Size
  /\ l \in Events /\ l > event /\ \A e \in Events : e <= event \/ e >= l
  /\ event' = l
  /\ UNCHANGED <<input, outcome, at, feedVars, sliceVars, rowVars>>

\* Nothing more will be kept or saved: a match is only counted.
Cheap == ~request.saveAll /\ pending = None /\ ~WantsMore(full, kept)

CountOnly(l) ==
  /\ NextEvent(l) /\ Cheap
  /\ total' = IF l \in Matching THEN total + 1 ELSE total
  /\ UNCHANGED <<kept, used, full, pending, recent, saved>>

\* _match: commit the match before, count, save, and hold this one back.
Match(l) ==
  /\ NextEvent(l) /\ ~Cheap /\ l \in Matching
  /\ kept' = Commit.kept /\ used' = Commit.used /\ full' = Commit.full
  /\ total' = total + 1
  /\ saved' = IF request.saveAll THEN saved \cup {l} ELSE saved
  /\ pending' = IF WantsMore(full', kept')
                  THEN [line |-> l, after |-> {},
                        before |-> {recent[i] : i \in {j \in DOMAIN recent :
                                                         l - recent[j] <= request.context}}]
                  ELSE None
  /\ UNCHANGED recent

\* _context_line: it may follow the pending match and precede the next one;
\* recent holds as many lines as a match can have before it.
ContextLine(l) ==
  /\ NextEvent(l) /\ ~Cheap /\ l \notin Matching
  /\ pending' = IF pending # None /\ l - pending.line <= request.context
                  THEN [pending EXCEPT !.after = @ \cup {l}]
                  ELSE pending
  /\ LET longer == Append(recent, l)
     IN recent' = IF Len(longer) > request.context THEN Tail(longer) ELSE longer
  /\ UNCHANGED <<kept, total, used, full, saved>>

\* finish(), after ripgrep's last event.
Finish ==
  /\ request.task = "grep" /\ outcome = "none" /\ at = Size
  /\ \A e \in Events : e <= event
  /\ kept' = Commit.kept /\ used' = Commit.used /\ full' = Commit.full /\ pending' = None
  /\ outcome' = "answered"
  /\ UNCHANGED <<input, at, feedVars, event, total, recent, saved, sliceVars, rowVars>>

-------------------------------------------------------------------------------
(* slice *)

\* _nth_newline: there are that many.
NthNewline(lo, hi, count) ==
  CHOOSE p \in newlines \cap (lo..hi) : Cardinality(newlines \cap (lo..p)) = count

\* Mutant: the newlines to pass are counted from the start of the chunk.
CopyLinesMut(lo, hi) ==
  LET count == Cardinality(newlines \cap (lo..hi))
      skip  == IF request.from > line THEN request.from - line ELSE 0
      need  == request.to - line - skip
      start == IF skip = 0 THEN lo ELSE NthNewline(lo, hi, skip) + 1
  IN IF line + count < request.from THEN [bytes |-> {}, finished |-> FALSE]
     ELSE IF count >= need
       THEN [bytes |-> start..NthNewline(lo, hi, need), finished |-> TRUE]
     ELSE [bytes |-> start..hi, finished |-> FALSE]

\* _copy_lines: the part of the chunk that lies in [from, to), and whether the
\* range ends in it.
CopyLines(lo, hi) ==
  LET count == Cardinality(newlines \cap (lo..hi))
      skip  == IF request.from > line THEN request.from - line ELSE 0
      need  == request.to - line - skip
      start == IF skip = 0 THEN lo ELSE NthNewline(lo, hi, skip) + 1
  IN IF line + count < request.from THEN [bytes |-> {}, finished |-> FALSE]
     ELSE IF count - skip >= need
       THEN [bytes |-> start..NthNewline(start, hi, need), finished |-> TRUE]
     ELSE [bytes |-> start..hi, finished |-> FALSE]

SliceChunk ==
  /\ request.task = "slice" /\ outcome = "none" /\ at < Size
  /\ \E hi \in (at + 1)..Size :
       /\ hi - at <= Chunk
       /\ LET copy == CopyLines(at + 1, hi)
          IN /\ written' = written \cup copy.bytes
             /\ outcome' = IF copy.finished THEN "answered" ELSE outcome
             /\ line' = IF copy.finished THEN line
                        ELSE line + Cardinality(newlines \cap ((at + 1)..hi))
       /\ at' = hi
  /\ UNCHANGED <<input, feedVars, collectVars, rowVars>>

SliceEnds ==
  /\ request.task = "slice" /\ outcome = "none" /\ at = Size
  /\ outcome' = "answered"
  /\ UNCHANGED <<input, at, feedVars, collectVars, sliceVars, rowVars>>

-------------------------------------------------------------------------------
(* sql: one row for each line, as large as the line *)

\* What the rows up to r cost: each as many bytes as its line.
CostUpTo(r) == Cardinality({p \in 1..Size : LineNo(p) <= r})

\* Mutant: a first row over the budget is left out like any other.
StopsAtMut(r) ==
  IF r > request.maxRows THEN "rows"
  ELSE IF CostUpTo(r) > Budget THEN "bytes"
  ELSE ""

\* Why the loop stops at row r, "" if it goes on.
StopsAt(r) ==
  IF r > request.maxRows THEN "rows"
  ELSE IF r > 1 /\ CostUpTo(r) > Budget THEN "bytes"
  ELSE ""

\* fetchmany and the loop over the batch; an empty batch ends the result.
FetchBatch ==
  /\ request.task = "sql" /\ outcome = "none"
  /\ LET batch == Lines \cap ((rows + 1)..(rows + request.batch))
         stop  == {r \in batch : StopsAt(r) # ""}
     IN /\ rows' = IF stop # {} THEN MinOf(stop) - 1 ELSE rows + Cardinality(batch)
        /\ endedBy' = IF stop # {} THEN StopsAt(MinOf(stop)) ELSE ""
        /\ outcome' = IF batch = {} \/ stop # {} THEN "answered" ELSE outcome
  /\ UNCHANGED <<input, at, feedVars, collectVars, sliceVars>>

\* watch.check before each chunk and each batch, and the interrupt of a running
\* query; grep's deadline is ToolFeed's.
DeadlineStops ==
  /\ request.task \in {"slice", "sql"} /\ outcome = "none"
  /\ outcome' = "deadline"
  /\ UNCHANGED <<input, at, feedVars, collectVars, sliceVars, rowVars>>

Collect == \E l \in Lines : CountOnly(l) \/ Match(l) \/ ContextLine(l)

Next == Feed \/ Collect \/ Finish \/ SliceChunk \/ SliceEnds \/ FetchBatch \/ DeadlineStops

Spec == Init /\ [][Next]_vars

-------------------------------------------------------------------------------
(* Properties *)

\* What cut_long_lines has fed to ripgrep is, however the reads cut the artifact
\* into chunks, every newline and the first Limit bytes of every line, and each
\* line over the limit has been counted once (the fast path never misses one).
CutIsExact ==
  request.task = "grep" =>
    /\ passed = {p \in 1..at : p \in newlines \/ p - LineStart(p) < Limit}
    /\ longLines = Cardinality({p \in 1..at : p \notin newlines /\ p - LineStart(p) = Limit})

\* The lines around a match that are shown with it: no match among them, and
\* each line with one match only.
Before(l) == {c \in Lines \ Matching : c < l /\ l - c <= request.context}
After(l) == {c \in Lines \ Matching :
               /\ c > l /\ c - l <= request.context
               /\ \A m \in Matching : m <= l \/ m > c}
Shown(l) == [line |-> l, before |-> Before(l), after |-> After(l)]

\* A grep's answer: every matching line is counted (and saved when asked), the
\* ones kept are the first ones, with the artifact's line numbers and exactly
\* their context, within the budget, and a match is left out only if there is
\* no room for it.
GrepIsTrue ==
  request.task = "grep" /\ outcome = "answered" =>
    /\ total = Cardinality(Matching)
    /\ request.saveAll => saved = Matching
    /\ Len(kept) <= request.maxMatches /\ used <= Budget
    /\ \A i \in DOMAIN kept :
         /\ kept[i] = Shown(kept[i].line)
         /\ Cardinality({m \in Matching : m < kept[i].line}) = i - 1
    /\ Len(kept) < total /\ Len(kept) < request.maxMatches =>
         \E m \in Matching :
           /\ Cardinality({n \in Matching : n < m}) = Len(kept)
           /\ used + SizeOf(Shown(m)) > Budget

\* A slice's artifact is the requested lines, byte for byte, whatever the chunks.
SliceIsExact ==
  request.task = "slice" /\ outcome = "answered" =>
    written = {p \in 1..Size : request.from <= LineNo(p) /\ LineNo(p) < request.to}

\* A query's answer is a prefix of its rows, never an empty one of a query that
\* has rows, within the limits but for a first row over the budget, and said to
\* be cut exactly when a row is missing from it.
RowsAreAPrefix ==
  request.task = "sql" /\ outcome = "answered" =>
    /\ rows <= request.maxRows /\ (rows > 1 => CostUpTo(rows) <= Budget)
    /\ (endedBy # "") <=> (rows < Cardinality(Lines))
    /\ Lines # {} => rows > 0

===============================================================================
