------------------------------- MODULE RepoRead -------------------------------
(***************************************************************************)
(* Reading parts of one file (sdk/runwhen_capability/repo_fs.py) and       *)
(* fitting them into a query's response (repo_query.py).  A file is the    *)
(* sequence of its lines' lengths; a part of it is the range of its lines  *)
(* and how many bytes of their text, joined by newlines, it holds: content *)
(* always begins where line "start" begins.                                *)
(***************************************************************************)
EXTENDS Integers, Sequences, FiniteSets

CONSTANTS
  ReadBudget,  \* READ_BUDGET
  MaxWindows,  \* AROUND_MAX_WINDOWS
  Envelope     \* what a range costs in a response beside its content

ASSUME ReadAssumption ==
  ReadBudget \in Nat \ {0} /\ MaxWindows \in Nat \ {0} /\ Envelope \in Nat

Min2(a, b) == IF a < b THEN a ELSE b
Max2(a, b) == IF a > b THEN a ELSE b

\* The bytes of the lines s..e of a file, the newlines between them included.
Text(lines, s, e) ==
  LET sum[i \in (s - 1)..e] == IF i < s THEN 0 ELSE sum[i - 1] + lines[i]
  IN IF e < s THEN 0 ELSE sum[e] + (e - s)

-------------------------------------------------------------------------------
(* repo_fs.py *)

\* _select_lines: whole lines while they fit; a first line over the budget is
\* clipped, and a range after the end of the file is empty.
SelectLines(lines, start, end, budget) ==
  LET last == Min2(end, Len(lines))
      fits == {k \in start..last : Text(lines, start, k) <= budget}
      whole == CHOOSE k \in fits : \A j \in fits : j <= k
  IN IF start > last
       THEN [start |-> start, end |-> Min2(start - 1, Len(lines)), bytes |-> 0, cut |-> FALSE]
     ELSE IF fits = {}
       THEN [start |-> start, end |-> start, bytes |-> budget, cut |-> TRUE]
     ELSE [start |-> start, end |-> whole, bytes |-> Text(lines, start, whole),
           cut |-> whole < last]

\* The defaults of a range: from the first line, to the last (0: not given).
Clamped(range, total) ==
  <<IF range[1] >= 1 THEN range[1] ELSE 1,
    IF range[2] >= 1 /\ range[2] <= total THEN range[2] ELSE total>>

\* clamped.sort(): by start, then by end; each place takes the one with as many
\* before it.
Sorted(ranges) ==
  LET Precedes(i, j) ==
        \/ ranges[i][1] < ranges[j][1]
        \/ ranges[i][1] = ranges[j][1] /\ ranges[i][2] < ranges[j][2]
        \/ ranges[i] = ranges[j] /\ i < j
      at(n) == CHOOSE i \in DOMAIN ranges :
                 Cardinality({j \in DOMAIN ranges : Precedes(j, i)}) = n - 1
  IN [n \in DOMAIN ranges |-> ranges[at(n)]]

\* Mutant: only ranges that overlap are merged, and the last one's end wins.
MergeRangesMut(ranges, total) ==
  LET sorted == Sorted([i \in DOMAIN ranges |-> Clamped(ranges[i], total)])
      merged[n \in 0..Len(sorted)] ==
        IF n = 0 THEN <<>>
        ELSE LET done == merged[n - 1]
                 r    == sorted[n]
             IN IF done # <<>> /\ r[1] <= done[Len(done)][2]
                  THEN [done EXCEPT ![Len(done)] = <<@[1], r[2]>>]
                  ELSE Append(done, r)
  IN merged[Len(sorted)]

\* _merge_ranges: overlapping and adjacent ranges become one.
MergeRanges(ranges, total) ==
  LET sorted == Sorted([i \in DOMAIN ranges |-> Clamped(ranges[i], total)])
      merged[n \in 0..Len(sorted)] ==
        IF n = 0 THEN <<>>
        ELSE LET done == merged[n - 1]
                 r    == sorted[n]
             IN IF done # <<>> /\ r[1] <= done[Len(done)][2] + 1
                  THEN [done EXCEPT ![Len(done)] = <<@[1], Max2(@[2], r[2])>>]
                  ELSE Append(done, r)
  IN merged[Len(sorted)]

\* read_ranges: the merged ranges share one budget; when it is spent the rest is
\* dropped.
ReadRanges(lines, ranges) ==
  LET merged == MergeRanges(ranges, Len(lines))
      read[n \in 0..Len(merged)] ==
        IF n = 0 THEN [ranges |-> <<>>, left |-> ReadBudget, truncated |-> FALSE]
        ELSE LET so == read[n - 1]
                 r  == SelectLines(lines, merged[n][1], merged[n][2], so.left)
             IN IF so.left <= 0 THEN [so EXCEPT !.truncated = TRUE]
                ELSE [ranges |-> Append(so.ranges,
                                        [start |-> r.start, end |-> r.end, bytes |-> r.bytes]),
                      left |-> so.left - r.bytes, truncated |-> so.truncated \/ r.cut]
      all == read[Len(merged)]
  IN [ranges |-> all.ranges, truncated |-> all.truncated]

\* read_lines: one range, with the whole budget.
ReadLines(lines, range) ==
  LET c == Clamped(range, Len(lines))
      r == SelectLines(lines, c[1], c[2], ReadBudget)
  IN [ranges |-> <<[start |-> r.start, end |-> r.end, bytes |-> r.bytes]>>,
      truncated |-> r.cut]

\* find_around: a window around each of the first matching lines.
FindAround(lines, matching, context) ==
  LET first == {l \in matching : Cardinality({m \in matching : m < l}) < MaxWindows}
      nth(n) == CHOOSE l \in first : Cardinality({m \in first : m < l}) = n - 1
  IN [n \in 1..Cardinality(first) |->
        <<Max2(1, nth(n) - context), Min2(Len(lines), nth(n) + context)>>]

-------------------------------------------------------------------------------
(* repo_query.py: fitting a read into what is left of the response *)

\* _clip_content, with the end that _trim_read counts: at most room bytes, back
\* to the end of a line unless the first line does not fit; a content that stops
\* before the newline of its last line loses that line as well.
ClipContent(lines, r, room) ==
  LET low == Min2(r.bytes, room)
      ends == {k \in r.start..(r.end - 1) : Text(lines, r.start, k) < low}
      last == CHOOSE k \in ends : \A j \in ends : j <= k
  IN IF low <= 0 THEN <<>>
     ELSE IF low = r.bytes THEN <<r>>
     ELSE IF ends = {} THEN <<[r EXCEPT !.end = r.start, !.bytes = low]>>
     ELSE <<[start |-> r.start, end |-> last, bytes |-> Text(lines, r.start, last)]>>

\* What the first n ranges of a result cost in a response.
Cost(ranges, n) ==
  LET used[i \in 0..n] == IF i = 0 THEN 0 ELSE used[i - 1] + Envelope + ranges[i].bytes
  IN used[n]

\* _trim_read: the whole ranges that fit, and the head of the first that does not.
TrimRead(lines, result, available) ==
  LET n == Len(result.ranges)
      whole == CHOOSE k \in 0..n :
                 /\ Cost(result.ranges, k) <= available
                 /\ k = n \/ Cost(result.ranges, k + 1) > available
      head == IF whole = n THEN <<>>
              ELSE ClipContent(lines, result.ranges[whole + 1],
                               available - Cost(result.ranges, whole) - Envelope)
  IN [ranges |-> SubSeq(result.ranges, 1, whole) \o head, truncated |-> TRUE]

\* _fit, for a read: the result itself if it fits, its trimmed form, or nothing.
Fit(lines, result, available) ==
  LET trimmed == TrimRead(lines, result, available)
  IN IF Cost(result.ranges, Len(result.ranges)) <= available THEN <<result>>
     ELSE IF trimmed.ranges = <<>> THEN <<>>
     ELSE <<trimmed>>

===============================================================================
