--------------------------- MODULE MCGuardedCheck ---------------------------
(* Small trees for every guard: files that are missing, broken, harmless,   *)
(* or at fault behind something harmless.  Reports of up to three defects   *)
(* in three files, in every form the tools name them; names with a '#' in   *)
(* them only in MCGuardedCheck_names.cfg (Hashed).                          *)
EXTENDS GuardedCheck, TLC

Token(t) == [t |-> t]
Entry(hit, section, to) == [t |-> "entry", hit |-> hit, section |-> section, to |-> to]
Deep(section) == [t |-> "deep", section |-> section]

\* Documents searched for keys.
Empty == Entry(TRUE, TRUE, <<>>)
Other == Entry(FALSE, TRUE, <<"v">>)
Aside == Entry(TRUE, FALSE, <<"v">>)
Live == Entry(TRUE, TRUE, <<"v">>)
Documents == {<<>>, <<Other>>, <<Empty, Live>>, <<Other, Empty>>, <<Aside>>,
              <<Aside, Live>>, <<Deep(TRUE)>>, <<Deep(FALSE)>>, <<Token("broken")>>}

\* HCL text: every sequence of up to five of the tokens that matter.
Text == {Token(t) : t \in {"quote", "escape", "hash", "open", "close", "newline", "block"}}
Texts == UNION {[1..n -> Text] : n \in 0..4} \cup {<<Token("heredoc")>>, <<Token("broken")>>}
           \cup {<<Token("quote")>> \o t \o <<Token("block")>> : t \in [1..3 -> Text]}

Sql == {<<[t |-> "sql", enc |-> e, bom |-> b, guess |-> g, lines |-> l]>> :
          e \in {"utf-8", "utf-16-le", "utf-32-be", "cp037"}, b \in BOOLEAN,
          g \in {"none", "utf-16-le", "latin-1"},
          l \in UNION {[1..n -> {"unsafe", "other", "marker", "plain"}] : n \in 1..2}}
Mixed == {[t |-> "sql", enc |-> e, bom |-> FALSE, guess |-> "none", lines |-> <<l>>] :
            e \in {"utf-8", "utf-16-le", "cp037"}, l \in {"unsafe", "other", "marker"}}
Sqlfiles == Sql \cup [1..2 -> Mixed]

\* Documents of a chain: up to two values, in one entry or two, in the section
\* or not, behind a decoy that is not a string.
Targets == {"outside", "absent", "a", "b"}
Chained == {<<>>, <<Token("broken")>>}
             \cup {<<Entry(TRUE, TRUE, <<v>>)>> : v \in Targets}
             \cup {<<Entry(TRUE, TRUE, <<"number">>), Entry(TRUE, s, <<v>>)>> : s \in BOOLEAN, v \in Targets}
             \cup {<<Entry(TRUE, TRUE, <<v, w>>)>> : v \in Targets, w \in Targets}
             \cup {<<Deep(s)>> : s \in BOOLEAN}
Hopped == {<<>>, <<Token("broken")>>} \cup {<<Entry(TRUE, s, <<v>>)>> : s \in BOOLEAN, v \in Targets}
            \cup {<<Entry(TRUE, TRUE, <<"absent">>), Entry(TRUE, TRUE, <<v>>)>> : v \in {"a", "b", "c"}}

\* JSON text: an entry before, inside and behind strings and comments.
JsonText == {Token(t) : t \in {"quote", "escape", "hash", "line", "open", "close", "newline"}}
              \cup {Entry(TRUE, TRUE, <<"outside">>)}
Json == UNION {[1..n -> JsonText] : n \in 0..3}
          \cup {t \o <<Token("newline"), Entry(TRUE, TRUE, <<"a">>)>> : t \in [1..2 -> JsonText]}

On(file, contents) == {[f \in {file} |-> c] : c \in contents}

MCRules == <<".regal/rules/a.rego", ".regal/rules/sub/b.rego">>
MCTrees ==
  [pylint |-> UNION {On(f, Documents) : f \in {".pylintrc", "pylintrc.toml"}}
                \cup [{"pyproject.toml", "setup.cfg"} -> Documents],
   flake8 |-> [{"setup.cfg", "tox.ini"} -> Documents],
   checkov |-> On(".checkov.yaml", Documents),
   sqlfluff |-> On("query.sql", Sqlfiles) \cup [{".sqlfluff", "pyproject.toml"} -> Documents],
   vale |-> On(".vale.ini", Documents),
   tflint |-> On(".tflint.hcl", Texts),
   buf |-> On("buf.yaml", Documents),
   ast_grep |-> On("sgconfig.yml", Documents),
   regal |-> {[f \in {".regal/config.yaml"} \cup rules |-> c] :
                c \in {<<>>, <<Token("broken")>>}, rules \in SUBSET Range(MCRules)}
              \cup On(MCRules[1], {<<>>}),
   ruff |-> [{"ruff.toml", "a", "b"} -> Hopped] \cup On("pyproject.toml", Chained)
              \cup {[f \in {"pyproject.toml", "a", "b", "c"} |->
                       CASE f = "pyproject.toml" -> p [] f = "a" -> a [] f = "b" -> b [] OTHER -> <<>>] :
                      p \in Chained, a \in Hopped, b \in {<<>>, <<Entry(TRUE, TRUE, <<"c">>)>>}},
   biome |-> On("biome.json", Json) \cup {[f \in {"biome.json", "a"} |-> c] : c \in Json},
   unguarded |-> On("README", {<<>>})]

-----------------------------------------------------------------------------
a == <<"a">>
b == <<"sub", "b">>
c == <<"sub", "c">>
Line(text) == [text |-> text, chars |-> 3, bytes |-> 3]
MCLines == (a :> <<Line("a1"), Line("a2")>>) @@ (b :> <<Line("b1"), Line("b2")>>)
             @@ (c :> <<Line("c1")>>)
MCBatches == {[files |-> <<a, b>>, cwd |-> <<>>], [files |-> <<b, c>>, cwd |-> <<"sub">>],
              [files |-> <<b, c>>, cwd |-> <<>>]}

At(line, column, endLine, endColumn) ==
  [line |-> line, column |-> column, endLine |-> endLine, endColumn |-> endColumn]
Places == {At(1, 1, 2, 1), At(2, 3, 0, 0)}
Defect(file, pos, word, quoted, form) ==
  [file |-> file, pos |-> pos, word |-> word, quoted |-> quoted, form |-> form]

\* SARIF reports: every form of naming a file, places with and without an end
\* or a line, and a line the file does not have.
FormsOf(l) == CASE l = "zizmor" -> {"plain", "input", "absolute"}
              [] l = "gitleaks" -> {"plain", "absolute", "web"}
              [] OTHER -> {"plain", "absolute", "based"}
AWord(l) == CHOOSE w \in DOMAIN AdapterOf(l).severity : TRUE
MCFound ==
  [l \in Lints |->
     IF l \in DOMAIN Sarif
     THEN {Defect(f, At(2, 1, 2, 2), AWord(l), l = "zizmor", form) : f \in {a, b}, form \in FormsOf(l)}
            \cup {Defect(c, At(1, 1, 0, 0), "?", FALSE, "plain"),
                  Defect(b, At(0, 0, 0, 0), "?", FALSE, "nowhere")}
     ELSE {Defect(f, p, AWord(l), FALSE, "plain") : f \in {a, b}, p \in Places}
            \cup {Defect(b, At(1, 2, 1, 3), "?", TRUE, "dotted"),
                  Defect(b, At(2, 2, 2, 3), "?", FALSE, "absolute")}]
MCSizes == {[chars |-> 1, bytes |-> 2], [chars |-> 2, bytes |-> 4], [chars |-> 3, bytes |-> 6], [chars |-> 5, bytes |-> 5]}
MCTreeRoot == <<"work", "tree">>
MCViewRoot == <<"work", "view">>
NoNames == [n \in {} |-> n]
Hashed == ("a" :> [inside |-> <<"before">>, last |-> <<"before">>, ends |-> TRUE])
=============================================================================
