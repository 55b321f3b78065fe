------------------------------ MODULE Reports -------------------------------
(***************************************************************************)
(* From what a tool printed to the findings of one batch: the adapters     *)
(* (adapters.py), the severity policies (severity.py and each tool's       *)
(* SEVERITY), SarifClient.parse and FindingsClient.from_records with their *)
(* normalisation of paths and lookup of context, and the prefix, the       *)
(* realignment and the filter of tools/_runner.py.                         *)
(*                                                                         *)
(* A path is a sequence of names relative to the tree.  What a tool found  *)
(* is a defect [file, pos, word, quoted, form]: where it is, in lines and  *)
(* columns counted from one, the tool's own severity word, whether the     *)
(* report quotes the source, and in which form it names the file.  How a   *)
(* tool counts and names is external; from there on it is the code.        *)
(***************************************************************************)
EXTENDS Naturals, Sequences, FiniteSets, SequencesExt

CONSTANTS
  TreeRoot, ViewRoot,  \* the absolute paths of the tree and of a scratch view
  Lines,               \* Lines[file]: the lines of the tree's files, each with
                       \* its text and its length in characters and in bytes
  Batches,             \* [files, cwd]: the invocations to look at
  Found,               \* Found[tool]: what the tool may find in one file
  MaxDefects,          \* how many defects a report has at most
  SarifBudget, Sizes,  \* SARIF_BYTE_BUDGET; reports' [chars, bytes]
  ReadAs,              \* ReadAs[name]: what a URI makes of a name with one of
                       \* # ? ; % \ in it: the names it stands for inside a path
                       \* and at its end, and whether the path ends there
  Colons               \* names with a ':' in them

VARIABLES
  lint, inv, size,     \* the tool, its batch, and its report's size
  defects,             \* what the tool found
  at,                  \* how many of them have been read from the report
  memo,                \* _LineReader: the last file read
  parsed,              \* the findings so far
  result,              \* the findings of the batch
  rpc                  \* "idle", "parse", "place", "done", or "refused"

reportVars == <<lint, inv, size, defects, at, memo, parsed, result, rpc>>

Fields == {"line", "column", "endLine", "endColumn"}
Severities == {"error", "warning", "note"}

-----------------------------------------------------------------------------
(* The tools: the fields of a position the adapter copies, with what it    *)
(* adds to each; the severity of each word of the tool, and of any other.  *)

Adapter(adds, severity, default) ==
  [adds |-> adds, severity |-> severity, default |-> default]
OneBased == [f \in Fields |-> 0]
Only(fields) == [f \in fields |-> 0]
Levels == [error |-> "error", warning |-> "warning"]

shellcheck == Adapter(OneBased, [error |-> "error", warning |-> "warning",
                                 info |-> "note", style |-> "note"], "warning")
hadolint == Adapter(Only({"line", "column"}),
                    [error |-> "error", warning |-> "warning",
                     info |-> "note", style |-> "note"], "warning")
yamllint == Adapter(Only({"line", "column"}), Levels, "note")
actionlint == Adapter(Only({"line", "column", "endColumn"}), [error |-> "error"], "error")
\* pylint counts columns from zero and lines from one.
pylintReport == Adapter([line |-> 0, column |-> 1, endLine |-> 0, endColumn |-> 1],
                        [fatal |-> "error", error |-> "error", warning |-> "warning",
                         convention |-> "note", refactor |-> "note", info |-> "note"], "warning")
sqlfluffReport == Adapter(OneBased, [TRUE |-> "warning", FALSE |-> "note"], "note")
\* biome reports an offset; the line is counted from the source.
biomeReport == Adapter(Only({"line"}), [error |-> "error", warning |-> "warning",
                                        information |-> "note", hint |-> "note"], "warning")
\* ast-grep counts everything from zero.
ast_grepReport == Adapter([f \in Fields |-> 1],
                          [error |-> "error", warning |-> "warning",
                           info |-> "note", hint |-> "note"], "warning")
regalReport == Adapter(OneBased, Levels, "note")
valeReport == Adapter(Only({"line", "column", "endColumn"}),
                      [error |-> "error", warning |-> "warning", suggestion |-> "note"], "note")
flake8Report == Adapter(Only({"line", "column"}),
                        [F |-> "error", E |-> "warning", W |-> "warning",
                         C |-> "note", N |-> "note"], "warning")
dotenv_linter == Adapter(Only({"line"}), [DuplicatedKey |-> "warning"], "note")
bufReport == Adapter(OneBased, [any |-> "warning"], "warning")

\* The tools with a SARIF report: from_level, by_rule_prefix and constant.
from_level == Adapter(OneBased, Levels, "note")
by_rule_prefix == Adapter(OneBased, [F |-> "error", S |-> "error", E |-> "warning",
                                     W |-> "warning", B |-> "warning", I |-> "note"], "note")
constant(s) == Adapter(OneBased, [any |-> s], s)

Sarif == [zizmor |-> from_level, tflint |-> from_level, ruff |-> by_rule_prefix,
          gitleaks |-> constant("error"), osv_scanner |-> constant("warning"),
          checkov |-> constant("warning")]
Records == [shellcheck |-> shellcheck, hadolint |-> hadolint, yamllint |-> yamllint,
            actionlint |-> actionlint, pylint |-> pylintReport, sqlfluff |-> sqlfluffReport,
            biome |-> biomeReport, ast_grep |-> ast_grepReport, regal |-> regalReport,
            vale |-> valeReport, flake8 |-> flake8Report, dotenv_linter |-> dotenv_linter,
            buf |-> bufReport]
Lints == DOMAIN Sarif \cup DOMAIN Records
AdapterOf(l) == IF l \in DOMAIN Sarif THEN Sarif[l] ELSE Records[l]
Realigned == {"zizmor", "tflint", "actionlint"}

\* Lanes A and C, and tflint's groups: the tool runs in the root of the tree, or
\* of a view of it.
AtRoot == {"actionlint", "dotenv_linter", "gitleaks", "osv_scanner", "ruff", "shellcheck",
           "sqlfluff", "tflint", "zizmor"}

\* What SARIF's policy or the adapter's severity.get makes of the tool's word.
Mapped(l, word) ==
  IF word \in DOMAIN AdapterOf(l).severity THEN AdapterOf(l).severity[word]
  ELSE AdapterOf(l).default

-----------------------------------------------------------------------------
(* External: what there is, and what the tools find in it.                 *)

FileNames == STRING \ {".", ".."}
Paths == Seq(FileNames)
TextLines == Seq([text : STRING, chars : Nat, bytes : Nat])

\* An invocation's files are in the tree, each once, below the directory the tool
\* runs in.
Invocations == [files : Seq(DOMAIN Lines), cwd : Paths]
BatchesOf(l) == {b \in Batches : l \in AtRoot => b.cwd = <<>>}

\* The forms in which a tool names a file.  Only zizmor names it from its own
\* directory, and then quotes the source.
Forms(l) ==
  IF l \in DOMAIN Records THEN {"plain", "dotted", "absolute"}
  ELSE {"plain", "absolute", "based", "web", "nowhere"}
         \cup (IF l = "zizmor" THEN {"input"} ELSE {})
Defects(l) ==
  [file : Paths \ {<<>>}, pos : [Fields -> Nat], word : STRING, quoted : BOOLEAN, form : Forms(l)]

\* "a#b" ends the path with "a", as does "a?b"; "a;b" is "a" at the end only;
\* "a%62" is "ab" and "a%2fb" two names, as is a name with a backslash.
Readings == [inside : Seq(STRING), last : Seq(STRING), ends : BOOLEAN]

ASSUME ReportsAssumption ==
  /\ TreeRoot \in Paths /\ ViewRoot \in Paths
  /\ DOMAIN ReadAs \cup Colons \subseteq FileNames \ Range(TreeRoot)
  /\ \A n \in DOMAIN ReadAs : ReadAs[n] \in Readings
  /\ \A f \in DOMAIN Lines : f \in Paths \ {<<>>} /\ Lines[f] \in TextLines
  /\ SarifBudget \in Nat /\ MaxDefects \in Nat
  /\ \A s \in Sizes : /\ s \in [chars : Nat, bytes : Nat]
                      /\ s.chars <= s.bytes /\ s.bytes <= 4 * s.chars
  /\ \A b \in Batches : b \in Invocations /\ \A f \in Range(b.files) : IsStrictPrefix(b.cwd, f)
  /\ \A l \in Lints : \A d \in Found[l] :
       /\ d \in Defects(l)
       /\ d.form = "input" => d.quoted
       /\ l = "biome" => /\ d.file \in DOMAIN Lines
                         /\ d.pos["line"] \in {0} \cup DOMAIN Lines[d.file]

CountsFromZero(l) ==
  CASE l = "ast_grep" -> Fields
    [] l = "pylint" -> {"column", "endColumn"}
    [] OTHER -> {}
Counted(l, f, n) == IF f \in CountsFromZero(l) THEN n - 1 ELSE n

\* Where paths in a tool's report start.
Root(l, b) == (IF l = "gitleaks" THEN ViewRoot ELSE TreeRoot) \o b.cwd

\* The file's path from the directory the tool runs in.
Relative(b, file) ==
  IF IsPrefix(b.cwd, file) THEN SubSeq(file, Len(b.cwd) + 1, Len(file))
  ELSE [i \in 1..Len(b.cwd) |-> ".."] \o file

\* The characters, or bytes, of the first lines of a file.
SizesUpTo(file, unit) ==
  LET upTo[n \in 0..Len(Lines[file])] ==
        IF n = 0 THEN 0 ELSE upTo[n - 1] + Lines[file][n][unit] + 1
  IN upTo

\* biome's span: bytes before the place, or none.
Offset(file, n) == IF n = 0 THEN 0 ELSE SizesUpTo(file, "bytes")[n - 1]

-----------------------------------------------------------------------------
(* Paths.                                                                  *)

\* posixpath.normpath: each name is put behind those before it, or takes one away.
Enter(out, name) ==
  CASE name = "." -> out
    [] name = ".." -> IF out = <<>> \/ Last(out) = ".." THEN Append(out, "..") ELSE Front(out)
    [] OTHER -> Append(out, name)
Clean(path) ==
  LET out[n \in 0..Len(path)] == IF n = 0 THEN <<>> ELSE Enter(out[n - 1], path[n])
  IN out[Len(path)]

\* What urlparse, unquote and the replacement of backslashes make of a location a
\* tool wrote as a plain path: its names up to the first that ends it (the path as
\* it is when nothing is left of it).
UriPath(path) ==
  LET odd == {i \in DOMAIN path : path[i] \in DOMAIN ReadAs}
      ends == {i \in odd : ReadAs[path[i]].ends}
      end == Min(ends \cup {Len(path)})
      Read(i) == CASE i \notin odd -> <<path[i]>>
                   [] i \in odd /\ i < Len(path) -> ReadAs[path[i]].inside
                   [] OTHER -> ReadAs[path[i]].last
      read == FlattenSeq([i \in 1..end |-> Read(i)])
  IN IF odd = {} \/ read = <<>> THEN path ELSE read

\* What no location resolves to: a path above the root.
Dropped == <<"..">>

\* normalize_uri.  A location is [scheme, abs, path].
NormalizeUri(uri, root) ==
  LET clean == Clean(uri.path)
  IN IF uri.scheme \notin {"", "file"} THEN Dropped
     ELSE IF ~uri.abs
       THEN IF clean = <<>> \/ Head(clean) = ".." THEN Dropped ELSE clean
     ELSE IF ~IsPrefix(root, clean) THEN Dropped
     ELSE IF clean = root THEN <<".">> ELSE SubSeq(clean, Len(root) + 1, Len(clean))

\* resolve_base_uri over the forms a SARIF report names a file in: urljoin with
\* a base that is known, the uri as it is with one that is not.  What a SARIF tool
\* writes is taken for a URI: its names are quoted where they must be.
SarifUri(l, b, d) ==
  CASE d.form = "absolute" ->
         [scheme |-> "file", abs |-> TRUE,
          path |-> (IF l = "gitleaks" THEN ViewRoot ELSE TreeRoot) \o d.file]
    [] d.form = "based" ->
         [scheme |-> "file", abs |-> TRUE, path |-> Root(l, b) \o Relative(b, d.file)]
    [] d.form = "input" -> [scheme |-> "", abs |-> FALSE, path |-> <<Last(d.file)>>]
    [] d.form = "web" -> [scheme |-> "https", abs |-> TRUE, path |-> d.file]
    [] OTHER -> [scheme |-> "", abs |-> FALSE, path |-> Relative(b, d.file)]

\* records_to_findings prefixes the run directory to the path of a record, which
\* from_records then reads as a location; what stands before a ':' in its first
\* name is a scheme.
RecordUri(b, d) ==
  LET path == CASE d.form = "absolute" -> TreeRoot \o d.file
                [] d.form = "dotted" -> b.cwd \o <<".">> \o Relative(b, d.file)
                [] OTHER -> b.cwd \o Relative(b, d.file)
      abs == d.form = "absolute"
  IN [scheme |-> IF ~abs /\ Head(path) \in Colons THEN "a" ELSE "",
      abs |-> abs, path |-> UriPath(path)]

NoFile == <<>>

\* The path of a finding, or Dropped.  A SARIF result without a location has none.
PathOf(l, b, d) ==
  IF l \in DOMAIN Records THEN NormalizeUri(RecordUri(b, d), TreeRoot)
  ELSE IF d.form = "nowhere" THEN NoFile
  ELSE NormalizeUri(SarifUri(l, b, d), Root(l, b))

-----------------------------------------------------------------------------
(* Positions and severities.                                               *)

\* biome: the newlines in the first Offset characters of the source, plus one.
BiomeLine(file, n) ==
  Cardinality({k \in DOMAIN Lines[file] : SizesUpTo(file, "chars")[k] <= Offset(file, n)}) + 1

\* What an adapter takes for a field the tool does not report: zero; but ast-grep's
\* line is start.get("line", 0) + 1.
Missing(l, f) == IF l = "ast_grep" /\ f = "line" THEN 1 ELSE 0

\* The position of a finding: what is reported, from one; zero for the rest, as
\* far as the adapter tells them apart.
Position(l, d) ==
  [f \in Fields |->
     IF f \notin DOMAIN AdapterOf(l).adds THEN 0
     ELSE IF l = "biome" THEN BiomeLine(d.file, d.pos[f])
     ELSE IF d.pos[f] = 0 THEN Missing(l, f)
     ELSE Counted(l, f, d.pos[f]) + AdapterOf(l).adds[f]]

\* from_records' own mapping of a record's severity: one of ours passes through.
Level(severity) == IF severity \in Severities THEN severity ELSE "warning"

-----------------------------------------------------------------------------
(* Context.                                                                *)

NoMemo == [of |-> NoFile, lines |-> <<>>]

\* A file that can be read where this tool's paths start: a view has the files
\* of the batch only.
Readable(l, b, file) ==
  file \in DOMAIN Lines /\ (l = "gitleaks" => file \in Range(b.files))

\* A context is needed from the file: nothing is quoted, and there is a place.
NeedsLine(l, file, d) == ~d.quoted /\ Position(l, d)["line"] > 0 /\ file # NoFile

\* The quoted text; or the line, from lines; or nothing, of a file that cannot
\* be read or has no such line.
Context(l, b, file, d, lines) ==
  IF d.quoted THEN "quoted"
  ELSE IF ~NeedsLine(l, file, d) \/ ~Readable(l, b, file) THEN ""
  ELSE IF Position(l, d)["line"] \in DOMAIN lines THEN lines[Position(l, d)["line"]].text
  ELSE ""

Finding(path, l, d, context) ==
  [path |-> path, pos |-> Position(l, d), severity |-> Level(Mapped(l, d.word)),
   context |-> context]

-----------------------------------------------------------------------------
(* Findings and the batch.                                                 *)

\* realign_paths: a path that is no file of the batch becomes the one file of
\* the batch it is the end of.
Candidates(b, path) ==
  {x \in Range(b.files) : path # <<>> /\ (IsSuffix(path, x) \/ <<Last(x)>> = path)}
Aligned(l, b, path) ==
  LET candidates == Candidates(b, path)
  IN IF l \in Realigned /\ path \notin Range(b.files) /\ \E x \in candidates : candidates = {x}
     THEN CHOOSE x \in candidates : TRUE
     ELSE path

\* A finding is kept, on the file it belongs to, when that is one of the batch.
KeptOf(l, b, f) ==
  LET path == Aligned(l, b, f.path)
  IN IF path \in Range(b.files) THEN <<[f EXCEPT !.path = path]>> ELSE <<>>

-----------------------------------------------------------------------------
ReportInit ==
  /\ rpc = "idle" /\ lint = "-" /\ inv = [files |-> <<>>, cwd |-> <<>>]
  /\ size = [chars |-> 0, bytes |-> 0]
  /\ defects = <<>> /\ at = 0 /\ memo = NoMemo /\ parsed = <<>> /\ result = <<>>

\* The tool runs on a batch and prints its report.
Run(l) ==
  /\ rpc = "idle"
  /\ lint' = l /\ inv' \in BatchesOf(l)
  /\ size' \in IF l \in DOMAIN Sarif THEN Sizes ELSE {size}
  /\ \E n \in 0..MaxDefects : defects' \in [1..n -> Found[l]]
  /\ rpc' = "parse"
  /\ UNCHANGED <<at, memo, parsed, result>>

\* parse refuses a report over its budget, measuring bytes only when the
\* characters leave it open.
TooLarge ==
  \/ size.chars > SarifBudget
  \/ size.chars * 4 > SarifBudget /\ size.bytes > SarifBudget
RefuseReport ==
  /\ rpc = "parse" /\ at = 0
  /\ lint \in DOMAIN Sarif /\ TooLarge
  /\ rpc' = "refused"
  /\ UNCHANGED <<lint, inv, size, defects, at, memo, parsed, result>>

Reading ==
  /\ rpc = "parse" /\ at < Len(defects)
  /\ ~(lint \in DOMAIN Sarif /\ TooLarge)
Current == defects[at + 1]

\* A result whose location does not resolve under the root is dropped.
DropOne ==
  /\ Reading
  /\ PathOf(lint, inv, Current) = Dropped
  /\ at' = at + 1
  /\ UNCHANGED <<lint, inv, size, defects, memo, parsed, result, rpc>>

\* Mutant: the lines at hand are never replaced.
LinesOfMut(file) == IF memo # NoMemo THEN memo.lines ELSE Lines[file]

\* _LineReader: the lines at hand when they are this file's, else read.
LinesOf(file) == IF memo.of = file THEN memo.lines ELSE Lines[file]

\* SARIF: the context is read where the report's paths start, through the memo,
\* and sarif_to_findings then prefixes the run directory.
ParseOne ==
  LET path == PathOf(lint, inv, Current)
      file == IF path = NoFile THEN NoFile ELSE inv.cwd \o path
  IN /\ Reading /\ lint \in DOMAIN Sarif /\ path # Dropped
     /\ parsed' = Append(parsed, Finding(inv.cwd \o path, lint, Current,
                                        Context(lint, inv, file, Current, LinesOf(file))))
     /\ memo' = IF NeedsLine(lint, file, Current) /\ Readable(lint, inv, file)
                THEN [of |-> file, lines |-> LinesOf(file)] ELSE memo
     /\ at' = at + 1
     /\ UNCHANGED <<lint, inv, size, defects, result, rpc>>

\* Records: the adapter's record, normalised against the tree; every context is
\* read afresh.
ConvertOne ==
  LET path == PathOf(lint, inv, Current)
  IN /\ Reading /\ lint \in DOMAIN Records /\ path # Dropped
     /\ parsed' = Append(parsed, Finding(path, lint, Current,
                                        Context(lint, inv, path, Current, Lines[path])))
     /\ at' = at + 1
     /\ UNCHANGED <<lint, inv, size, defects, memo, result, rpc>>

\* The report is read: realign, and keep what is about the batch's files.
Place ==
  /\ rpc = "parse" /\ at = Len(defects)
  /\ ~(lint \in DOMAIN Sarif /\ TooLarge)
  /\ result' = FlattenSeq([i \in DOMAIN parsed |-> KeptOf(lint, inv, parsed[i])])
  /\ rpc' = "done"
  /\ UNCHANGED <<lint, inv, size, defects, at, memo, parsed>>

ReportStep == RefuseReport \/ DropOne \/ ParseOne \/ ConvertOne \/ Place
ReportNext == ReportStep \/ \E l \in Lints : Run(l)

-----------------------------------------------------------------------------
\* What the report says of a file of the batch, in a form that names it.
Located(b, d) ==
  /\ d.file \in Range(b.files) /\ d.form \notin {"nowhere", "web"}
  /\ d.form = "input" =>
       \A x \in Range(b.files) \ {d.file} : Last(x) # Last(d.file)

\* The finding every way of reporting a defect must lead to.
Expected(l, d) ==
  [path |-> d.file,
   pos |-> [f \in Fields |-> IF f \in DOMAIN AdapterOf(l).adds THEN d.pos[f] ELSE 0],
   severity |-> Mapped(l, d.word),
   context |-> IF d.quoted THEN "quoted"
               ELSE IF d.pos["line"] \in DOMAIN Lines[d.file]
                    THEN Lines[d.file][d.pos["line"]].text
               ELSE ""]
ExpectedOf(l, b, d) == IF Located(b, d) THEN <<Expected(l, d)>> ELSE <<>>

\* Whichever tool reports it and however it counts and names files, a defect in
\* a file of the batch becomes one finding on that file, at that place, with
\* that line as its context and the severity its tool's map gives it, in the
\* order of the report; nothing else does, and a report is refused exactly when
\* it is SARIF over the budget.
FindingsAgree ==
  rpc = "done" => result = FlattenSeq([i \in DOMAIN defects |-> ExpectedOf(lint, inv, defects[i])])
RefusedExactly ==
  rpc \in {"done", "refused"} =>
    (rpc = "refused") = (lint \in DOMAIN Sarif /\ size.bytes > SarifBudget)
EveryWayAgrees == FindingsAgree /\ RefusedExactly

\* What a report must be to be read right: it names files whose names are the same
\* in a path and in a URI; ast-grep and biome report a place, biome on lines of
\* one-byte characters; and a tool whose paths are realigned reports on the files
\* it was given, by a name no other of them has.
Plain(path) == Range(path) \cap (DOMAIN ReadAs \cup Colons) = {}
Ordinary(l, b, d) ==
  /\ Plain(b.cwd) /\ Plain(d.file)
  /\ l \in {"ast_grep", "biome"} => d.pos["line"] # 0
  /\ l = "biome" => \A n \in DOMAIN Lines[d.file] : Lines[d.file][n].bytes = Lines[d.file][n].chars
  /\ l \in Realigned /\ d.form # "nowhere" =>
       /\ d.file \in Range(b.files)
       /\ d.form = "input" => \A x \in Range(b.files) \ {d.file} : Last(x) # Last(d.file)
OrdinaryReport == \A i \in DOMAIN defects : Ordinary(lint, inv, defects[i])

=============================================================================
