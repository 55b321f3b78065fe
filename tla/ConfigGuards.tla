---------------------------- MODULE ConfigGuards ----------------------------
(***************************************************************************)
(* The config guards of rw-checks (capabilities/rw-checks/guards.py): one  *)
(* function per tool that reads the tool's config files before the tool    *)
(* runs, and returns a reason to refuse, which begins with the path of the *)
(* file at fault, or None.                                                 *)
(*                                                                         *)
(* A guard is a sequence of searches, each over the selected files with    *)
(* one of its names.  Most stop at the first occurrence of a key; those of *)
(* ruff and biome follow the files that `extend`/`extends` names, depth    *)
(* first, with a set of visited files and a bound on the depth, and that   *)
(* walk is modelled step by step.                                          *)
(*                                                                         *)
(* A file is a sequence of tokens.  A parsed document is its entries, in   *)
(* the order _walk_kv meets them: [t |-> "entry", hit, section, to], with  *)
(* hit when the key is one of the tool's, section when the entry is in the *)
(* part of the document a search of one section looks at, and to the list  *)
(* of its values (an empty list is a value that is not truthy); "deep" is  *)
(* the place where the nesting exceeds _WALK_MAX_DEPTH.                    *)
(***************************************************************************)
EXTENDS Naturals, Sequences, FiniteSets, SequencesExt

CONSTANTS
  MaxChain,       \* _CHAIN_MAX_DEPTH
  RuleFiles,      \* the names of regal's rules (*.rego below .regal/rules), sorted
  Trees           \* Trees[tool]: the trees to look at, each a function from
                  \* the names of its files to their tokens

ASSUME MaxChainAssumption == MaxChain \in Nat
ASSUME RuleFilesAssumption == RuleFiles \in Seq(STRING)

VARIABLES
  tool, tree,     \* the guard called, and the tree
  search,         \* the search of the guard it is at
  todo,           \* the files that search has still to look at
  stack,          \* the chain being walked: its files, each with the values
                  \* not yet followed
  visited,        \* the files this chain has met
  verdict         \* [is |-> "none" | "safe" | "refused", at |-> the file named]

guardVars == <<tool, tree, search, todo, stack, visited, verdict>>

Undecided == [is |-> "none", at |-> "-"]
Safe == [is |-> "safe", at |-> "-"]
Refused(f) == [is |-> "refused", at |-> f]

-----------------------------------------------------------------------------
(* The guards: what each tool's function searches, in its order.           *)

Whole(how, names) == [how |-> how, names |-> names, section |-> FALSE]
Section(how, names) == [how |-> how, names |-> names, section |-> TRUE]

pylint == <<Whole("keys", <<".pylintrc", "pylintrc">>),
            Whole("keys", <<".pylintrc.toml", "pylintrc.toml">>),
            Section("keys", <<"pyproject.toml">>),
            Section("keys", <<"setup.cfg">>)>>
flake8 == <<Section("keys", <<".flake8", "setup.cfg", "tox.ini">>)>>
checkov == <<Whole("keys", <<".checkov.yaml", ".checkov.yml">>)>>
sqlfluff == <<Section("keys", <<".sqlfluff", "pep8.ini", "setup.cfg", "tox.ini">>),
              Section("keys", <<"pyproject.toml">>),
              Whole("directives", <<"query.sql">>)>>
vale == <<Whole("keys", <<".vale.ini", "_vale.ini", "vale.ini">>)>>
tflint == <<Whole("blocks", <<".tflint.hcl">>)>>
buf == <<Whole("keys", <<"buf.yaml", "buf.yml">>)>>
ast_grep == <<Whole("keys", <<"sgconfig.yaml", "sgconfig.yml">>)>>
\* regal's config is never opened: what counts is the rules beside it.
regal == <<Whole("rules", <<".regal/config.yaml">>)>>
ruff == <<Whole("chain", <<".ruff.toml", "ruff.toml">>),
          Section("chain", <<"pyproject.toml">>)>>
biome == <<Whole("chain", <<"biome.json", "biome.jsonc">>)>>

\* A tool module whose GUARD is None is safe to run.
Guard == [pylint |-> pylint, flake8 |-> flake8, checkov |-> checkov,
          sqlfluff |-> sqlfluff, vale |-> vale, tflint |-> tflint, buf |-> buf,
          ast_grep |-> ast_grep, regal |-> regal, ruff |-> ruff, biome |-> biome,
          unguarded |-> <<>>]

-----------------------------------------------------------------------------
\* What the files hold: a parsed document is its entries, a text has other tokens
\* besides; one that does not parse or cannot be read (of regal: whose rules cannot
\* be listed) is nothing else.
Entries == [t : {"entry"}, hit : BOOLEAN, section : BOOLEAN, to : Seq(STRING)]
Deeps == [t : {"deep"}, section : BOOLEAN]
Marks == [t : {"quote", "escape", "hash", "line", "open", "close", "newline", "heredoc", "block"}]
Sqls == [t : {"sql"}, enc : STRING, bom : BOOLEAN, guess : STRING, lines : Seq(STRING)]
\* _SQL_MARKER_ENCODINGS
MarkerEncodings == {"utf-8", "utf-16-le", "utf-16-be", "utf-32-le", "utf-32-be"}
Broken == {<<[t |-> "broken"]>>}
Contents ==
  [keys |-> Seq(Entries \cup Deeps) \cup Broken,
   chain |-> Seq(Entries \cup Deeps \cup Marks) \cup Broken,
   blocks |-> Seq(Marks) \cup Broken,
   directives |-> Seq(Sqls) \cup Broken,
   rules |-> {<<>>} \cup Broken]

\* A chain leads to any file of its tree.
ASSUME TreesAssumption ==
  \A l \in DOMAIN Guard : \A d \in Trees[l] :
    /\ IsFiniteSet(DOMAIN d)
    /\ \A s \in DOMAIN Guard[l] : \A f \in DOMAIN d :
         f \in Range(Guard[l][s].names) \/ Guard[l][s].how = "chain" =>
           d[f] \in Contents[Guard[l][s].how]

-----------------------------------------------------------------------------
\* The elements of a sequence at those places, in order.
Those(seq, places) ==
  FlattenSeq([i \in DOMAIN seq |-> IF i \in places THEN <<seq[i]>> ELSE <<>>])

-----------------------------------------------------------------------------
(* Text: comments and strings.  Tokens: "quote", "escape", "hash", "line"  *)
(* (//), "open" and "close" (of a block comment), "newline", "heredoc",    *)
(* "block" (what tflint must not be given: another plugin, its source, or  *)
(* a plugin_dir), "entry".                                                 *)

\* The first place from i on that holds token t, or none.
From(text, t, i) == {j \in i..Len(text) : text[j].t = t}
First(text, t, i) == Min(From(text, t, i) \cup {Len(text) + 1})

\* In the string that starts at i, place j follows an odd number of escapes.
Escaped(text, i, j) ==
  \E k \in (i + 1)..(j - 1) :
    /\ (j - k) % 2 = 1
    /\ \A m \in k..(j - 1) : text[m].t = "escape"
    /\ k - 1 = i \/ text[k - 1].t # "escape"
Closing(text, i) ==
  {j \in (i + 1)..Len(text) : text[j].t = "quote" /\ ~Escaped(text, i, j)}

IsComment(token, hashes) ==
  token.t \in {"line", "open"} \/ (hashes /\ token.t = "hash")

\* Where _strip_hcl_comments (hashes) and _strip_jsonc_comments go on after
\* what starts at i outside strings and comments: a string or a block comment
\* is passed to its end, a line comment up to its newline.
Resumes(text, hashes, i) ==
  CASE text[i].t = "quote" -> Min(Closing(text, i) \cup {Len(text)}) + 1
    [] text[i].t = "open" -> Min(From(text, "close", i + 1) \cup {Len(text)}) + 1
    [] text[i].t = "line" \/ (hashes /\ text[i].t = "hash") -> First(text, "newline", i)
    [] OTHER -> i + 1

\* The places where the scanner stands outside strings and comments, one after
\* the other, until it is through.
Starts(text, hashes) ==
  LET stands[n \in 0..Len(text)] ==
        IF n = 0 THEN 1
        ELSE IF stands[n - 1] > Len(text) THEN stands[n - 1]
        ELSE Resumes(text, hashes, stands[n - 1])
  IN {stands[n] : n \in 0..Len(text)} \cap (1..Len(text))

\* A block comment without an end.
Unended(text, hashes) ==
  \E i \in Starts(text, hashes) : text[i].t = "open" /\ From(text, "close", i + 1) = {}

\* The places that are left, the insides of strings among them.
Kept(text, hashes) ==
  UNION {i..(Resumes(text, hashes, i) - 1) :
           i \in {j \in Starts(text, hashes) : ~IsComment(text[j], hashes)}}

\* json.loads of what is left: its entries, outside strings, in order.  A string
\* without an end or with a newline in it, and a token that stands for nothing
\* outside a string, do not parse.
Malformed(text, i) ==
  \/ text[i].t \in {"escape", "hash", "close"}
  \/ /\ text[i].t = "quote"
     /\ Closing(text, i) = {} \/ First(text, "newline", i) < Min(Closing(text, i))
Parsed(text) ==
  LET starts == Starts(text, FALSE)
  IN IF \E i \in starts : Malformed(text, i)
     THEN <<[t |-> "broken"]>>
     ELSE Those(text, {i \in starts : text[i].t \in {"entry", "deep", "broken"}})

-----------------------------------------------------------------------------
(* Documents.                                                              *)

Unreadable(text) == \E i \in DOMAIN text : text[i].t = "broken"
Unparseable(text) == Unreadable(Parsed(text))

\* An entry, or a place too deep, that the search looks at and is stopped by.
Stops(x, section) ==
  /\ x.t # "broken"
  /\ x.section \/ ~section
  /\ x.t = "entry" => x.hit /\ x.to # <<>>

\* Mutant: the first occurrence of a key hides the later ones.
OccurrencesMut(text, section) ==
  LET doc == Parsed(text)
      keys == {i \in DOMAIN doc : doc[i].t = "entry" => doc[i].hit}
  IN Those(doc, {i \in keys : Stops(doc[i], section) /\ \A j \in keys : i <= j})

\* _walk_kv: every occurrence of one of the keys with a truthy value, and the
\* place where the walk gives up.
Occurrences(text, section) ==
  LET doc == Parsed(text)
  IN Those(doc, {i \in DOMAIN doc : Stops(doc[i], section)})

\* The values to follow in a chain's file, in order.  A value that is not a string
\* is skipped, "outside" resolves outside the tree (absolute, from the home
\* directory, through a link, or not at all).
Follow(x) ==
  IF x.t = "deep" THEN <<"deep">>
  ELSE Those(x.to, {i \in DOMAIN x.to : x.to[i] # "number"})
Values(text, section) ==
  LET found == Occurrences(text, section)
  IN FlattenSeq([i \in DOMAIN found |-> Follow(found[i])])

\* tflint: a heredoc, an unended comment, or a block left by the comments.
BlockRefused(text) ==
  \/ \E i \in DOMAIN text : text[i].t = "heredoc"
  \/ Unended(text, TRUE)
  \/ \E i \in Kept(text, TRUE) : text[i].t = "block"

\* sqlfluff over a .sql file, in parts [t |-> "sql", enc, bom, guess, lines]: it
\* is read as UTF-8, as its byte order mark says, and as chardet guesses.  When no
\* directive was read in it, the marker of one is looked for in its bytes, in the
\* five encodings.
Reads(sql) ==
  sql.enc \in {"utf-8", sql.guess} \/ (sql.bom /\ sql.enc \in MarkerEncodings)
Directives == {"unsafe", "other"}
Holds(parts, kinds) == \E p \in parts : kinds \cap Range(p.lines) # {}
DirectiveRefused(text) ==
  LET read == {p \in Range(text) : Reads(p)}
      searched == {p \in Range(text) : p.enc \in MarkerEncodings}
  IN \/ Holds(read, {"unsafe"})
     \/ ~Holds(read, Directives) /\ Holds(searched, Directives \cup {"marker"})

\* regal: the rules that are there.
Rules(dir) == Those(RuleFiles, {i \in DOMAIN RuleFiles : RuleFiles[i] \in DOMAIN dir})

\* Whether a search that follows nothing refuses a file.
Refuses(s, dir, f) ==
  LET text == dir[f]
  IN \/ Unreadable(text)
     \/ s.how \in {"keys", "chain"} /\ Unparseable(text)
     \/ s.how = "keys" /\ Occurrences(text, s.section) # <<>>
     \/ s.how = "blocks" /\ BlockRefused(text)
     \/ s.how = "directives" /\ DirectiveRefused(text)
     \/ s.how = "rules" /\ Rules(dir) # <<>>

\* The file it names then: of regal's, the first rule.
AtFault(s, dir, f) ==
  IF s.how = "rules" /\ ~Unreadable(dir[f]) THEN Head(Rules(dir)) ELSE f

-----------------------------------------------------------------------------
Files == DOMAIN tree

GuardInit ==
  /\ tool \in DOMAIN Guard /\ tree \in Trees[tool]
  /\ search = 0 /\ todo = <<>> /\ stack = <<>> /\ visited = {}
  /\ verdict = Undecided

\* _selected: the files of the tree with a name of the next search, sorted.
NextSearch ==
  /\ verdict = Undecided /\ todo = <<>> /\ stack = <<>>
  /\ search < Len(Guard[tool])
  /\ search' = search + 1
  /\ LET names == Guard[tool][search'].names
     IN todo' = Those(names, {i \in DOMAIN names : names[i] \in Files})
  /\ UNCHANGED <<tool, tree, stack, visited, verdict>>

\* Every search is through: the guard returns None.
Approve ==
  /\ verdict = Undecided /\ todo = <<>> /\ stack = <<>>
  /\ search = Len(Guard[tool])
  /\ verdict' = Safe
  /\ UNCHANGED <<tool, tree, search, todo, stack, visited>>

\* The next file does not parse, or holds what its search looks for.
RefuseFile ==
  /\ verdict = Undecided /\ stack = <<>> /\ todo # <<>>
  /\ Refuses(Guard[tool][search], tree, Head(todo))
  /\ verdict' = Refused(AtFault(Guard[tool][search], tree, Head(todo)))
  /\ UNCHANGED <<tool, tree, search, todo, stack, visited>>

PassFile ==
  /\ verdict = Undecided /\ stack = <<>> /\ todo # <<>>
  /\ Guard[tool][search].how # "chain"
  /\ ~Refuses(Guard[tool][search], tree, Head(todo))
  /\ todo' = Tail(todo)
  /\ UNCHANGED <<tool, tree, search, stack, visited, verdict>>

\* _walk_extend_chain is called for the file, with nothing else visited.
StartChain ==
  /\ verdict = Undecided /\ stack = <<>> /\ todo # <<>>
  /\ Guard[tool][search].how = "chain" /\ ~Unparseable(tree[Head(todo)])
  /\ stack' = <<[at |-> Head(todo), rest |-> Values(tree[Head(todo)], Guard[tool][search].section)]>>
  /\ visited' = {Head(todo)}
  /\ todo' = Tail(todo)
  /\ UNCHANGED <<tool, tree, search, verdict>>

Top == stack[Len(stack)]
Walking == verdict = Undecided /\ stack # <<>>
Rest(n) == Append(Front(stack), [at |-> Top.at, rest |-> n])

\* The depth of the call whose values are being followed.
Depth == Len(stack) - 1

\* Why the next value ends the walk: the document is too deep, the value leaves
\* the tree, or its file is one too deep or met before.
BadHop(v) == v \in {"deep", "outside"} \/ Depth >= MaxChain \/ v \in visited

RefuseHop ==
  /\ Walking /\ Top.rest # <<>>
  /\ BadHop(Head(Top.rest))
  /\ verdict' = Refused(Top.at)
  /\ UNCHANGED <<tool, tree, search, todo, stack, visited>>

\* The value names no file: nothing to read.
SkipHop ==
  /\ Walking /\ Top.rest # <<>>
  /\ ~BadHop(Head(Top.rest)) /\ Head(Top.rest) \notin Files
  /\ stack' = Rest(Tail(Top.rest))
  /\ UNCHANGED <<tool, tree, search, todo, visited, verdict>>

\* The file named is read, and its own values are followed first.  It is a
\* whole config, even when a section of pyproject.toml names it.
FollowHop ==
  LET hop == Head(Top.rest)
  IN /\ Walking /\ Top.rest # <<>>
     /\ ~BadHop(hop) /\ hop \in Files
     /\ visited' = visited \cup {hop}
     /\ IF Unparseable(tree[hop])
        THEN verdict' = Refused(hop) /\ UNCHANGED stack
        ELSE /\ stack' = Append(Rest(Tail(Top.rest)),
                                [at |-> hop, rest |-> Values(tree[hop], FALSE)])
             /\ UNCHANGED verdict
     /\ UNCHANGED <<tool, tree, search, todo>>

ReturnHop ==
  /\ Walking /\ Top.rest = <<>>
  /\ stack' = Front(stack)
  /\ UNCHANGED <<tool, tree, search, todo, visited, verdict>>

GuardNext ==
  \/ NextSearch \/ Approve \/ RefuseFile \/ PassFile \/ StartChain
  \/ RefuseHop \/ SkipHop \/ FollowHop \/ ReturnHop

GuardSpec == GuardInit /\ [][GuardNext]_guardVars /\ WF_guardVars(GuardNext)

-----------------------------------------------------------------------------
(* What a guard promises.                                                  *)

\* What a lexer that reads one token at a time is in, before token i: the
\* reference for the scanner's jumps.
After(in, x, hashes) ==
  CASE in = "escaped" -> "string"
    [] in = "string" -> IF x.t = "quote" THEN "code"
                        ELSE IF x.t = "escape" THEN "escaped" ELSE "string"
    [] in = "line" -> IF x.t = "newline" THEN "code" ELSE "line"
    [] in = "block" -> IF x.t = "close" THEN "code" ELSE "block"
    [] in = "code" -> CASE x.t = "quote" -> "string"
                        [] x.t = "line" \/ (hashes /\ x.t = "hash") -> "line"
                        [] x.t = "open" -> "block"
                        [] OTHER -> "code"
LexerAt(text, hashes, i) ==
  LET in[n \in 0..Len(text)] ==
        IF n = 0 THEN "code" ELSE After(in[n - 1], text[n], hashes)
  IN in[i - 1]

\* What a chain's file names, token by token, and whether it is one at all.
Named(text, section) ==
  FlattenSeq([i \in DOMAIN text |->
     IF /\ LexerAt(text, FALSE, i) = "code"
        /\ text[i].t \in {"entry", "deep"} /\ Stops(text[i], section)
     THEN Follow(text[i]) ELSE <<>>])
Garbled(text) ==
  \/ LexerAt(text, FALSE, Len(text) + 1) \in {"string", "escaped"}
  \/ \E i \in DOMAIN text :
       LET in == LexerAt(text, FALSE, i)
       IN \/ text[i].t = "broken"
          \/ text[i].t \in {"escape", "hash", "close"} /\ in = "code"
          \/ text[i].t = "newline" /\ in \in {"string", "escaped"}

\* The files that those at `from` lead to in n hops, when each names its values.
Hops(values, from) ==
  LET at[n \in 0..Cardinality(DOMAIN values)] ==
        IF n = 0 THEN {from}
        ELSE UNION {DOMAIN values \cap Range(values[f]) : f \in at[n - 1]}
  IN at

\* A chain is sound when every file it reaches parses and stays in the tree,
\* none is named twice, and no file names another further than the bound.
ChainSound(dir, from, section) ==
  LET values == [f \in DOMAIN dir |-> Named(dir[f], IF f = from THEN section ELSE FALSE)]
      hops == Hops(values, from)
      reach == UNION {hops[n] : n \in DOMAIN hops}
      places == UNION {{f} \X DOMAIN values[f] : f \in reach}
  IN /\ \A f \in reach : ~Garbled(dir[f]) /\ Range(values[f]) \cap {"deep", "outside"} = {}
     /\ \A g \in reach :
          LET naming == {p \in places : values[p[1]][p[2]] = g}
          IN IF g = from THEN naming = {} ELSE \E p \in places : naming = {p}
     /\ \A n \in DOMAIN hops : \A f \in hops[n] : values[f] # <<>> => n < MaxChain

\* The file holds something the guard must refuse, or (may) cannot rule out.
Unsafe(s, dir, f, may) ==
  LET text == dir[f]
  IN \/ \E i \in DOMAIN text : text[i].t = "broken"
     \/ s.how = "keys" /\ \E i \in DOMAIN text : Stops(text[i], s.section)
     \/ s.how = "chain" /\ ~ChainSound(dir, f, s.section)
     \/ /\ s.how = "blocks"
        /\ \/ \E i \in DOMAIN text : text[i].t = "heredoc"
           \/ LexerAt(text, TRUE, Len(text) + 1) = "block"
           \/ \E i \in DOMAIN text :
                text[i].t = "block" /\ LexerAt(text, TRUE, i) \notin {"line", "block"}
     \/ /\ s.how = "directives"
        /\ \/ may /\ Holds(Range(text), {"unsafe", "other", "marker"})
           \/ \E p \in Range(text) :
                /\ "unsafe" \in Range(p.lines)
                /\ \/ Reads(p)
                   \/ /\ p.enc \in MarkerEncodings
                      /\ ~Holds({q \in Range(text) : Reads(q)}, {"other"})
     \/ s.how = "rules" /\ Range(RuleFiles) \cap DOMAIN dir # {}

\* The files search s of the guard looks at.
Searched(s) == Files \cap Range(Guard[tool][s].names)

\* A guard approves only when no file of any of its searches, and no file its
\* chains lead to, holds anything it must refuse, wherever that stands and
\* whatever stands before it; it refuses only when one does, and the file it
\* names is one that a search or a chain has read and found at fault, or a rule.
\* Not promised: a directive in an encoding the guard neither reads nor searches,
\* or one it would only find by its marker in a file where it has read a harmless
\* one; nor that a .tflint.hcl is refused for a string without an end, as the
\* docstring of _strip_hcl_comments says: the rest of it is searched like code.
GuardIsExact ==
  /\ verdict.is = "safe" =>
       \A s \in DOMAIN Guard[tool] : \A f \in Searched(s) : ~Unsafe(Guard[tool][s], tree, f, FALSE)
  /\ verdict.is = "refused" =>
       \E s \in DOMAIN Guard[tool] : \E f \in Searched(s) :
         /\ Unsafe(Guard[tool][s], tree, f, TRUE)
         /\ \/ f = verdict.at
            \/ Guard[tool][s].how = "rules" /\ verdict.at \in Range(RuleFiles) \cap Files
            \/ /\ verdict.at \in visited
               /\ Garbled(tree[verdict.at]) \/ Named(tree[verdict.at], FALSE) # <<>>

=============================================================================
