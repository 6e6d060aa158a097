------------------------------ MODULE MCClosure ------------------------------
(* A script in a directory n beside package n/a and a top-level package a:  *)
(* both roots, the package and the module form of both names.               *)
EXTENDS Closure

CONSTANT MaxFiles    \* files beside the script at the first release

Stmt(from, level, module, names) ==
  [from |-> from, level |-> level, module |-> module, names |-> names]
Body(imports, attrs, all, state) ==
  [imports |-> imports, attrs |-> attrs, all |-> all, state |-> state, mentions |-> {}]

MCParts == {"a", "b", "n", "s", "__init__", "importlib", "*"}
MCScript == <<"n", "s">>
MCFiles ==
  {<<"a">>, <<"a", "__init__">>, <<"a", "b">>,
   <<"n", "__init__">>, <<"n", "a">>, <<"n", "a", "__init__">>, <<"n", "a", "b">>}

Plain == Body({}, {}, {}, "clean")
First ==
  {Plain, Body({}, {"a"}, {"b"}, "clean"),
   Body({Stmt(TRUE, 1, <<>>, {"b"})}, {}, {}, "clean")}
MCBodies ==
  First \cup {Body({Stmt(FALSE, 0, <<"importlib">>, {})}, {}, {}, "clean"),
              Body({}, {}, {}, "syntax"), Body({}, {}, {}, "outside"),
              Body({}, {}, {}, "lint"),
              [Plain EXCEPT !.mentions = {"exec"}]}

MCScriptBodies ==
  {Body({s}, {}, {}, "clean") :
     s \in {Stmt(FALSE, 0, <<"a">>, {}), Stmt(FALSE, 0, <<"a", "b">>, {}),
            Stmt(TRUE, 0, <<"a">>, {"b"}), Stmt(TRUE, 0, <<"a">>, {"*"}),
            Stmt(FALSE, 0, <<"n", "a", "b">>, {}), Stmt(TRUE, 0, <<"n", "a">>, {"b"}),
            Stmt(FALSE, 0, <<"n", "a">>, {})}}
  \cup {Body({Stmt(FALSE, 0, <<"a">>, {}), Stmt(TRUE, 0, <<"n">>, {"a"})}, {}, {}, "clean")}

MCTrees ==
  UNION {{[p \in files \cup {MCScript} |-> IF p = MCScript THEN s ELSE f[p]] :
            f \in [files -> First], s \in MCScriptBodies} :
         files \in UNION {kSubset(k, MCFiles) : k \in 0 .. MaxFiles}}

MCEntry(kind, query, text, spaces, timeout) ==
  [kind |-> kind, query |-> query, text |-> text, spaces |-> spaces, timeout |-> timeout]
MCEntries ==
  {MCEntry("script", "q", 1, 1, 1), MCEntry("script", "q", 1, 2, 2),
   MCEntry("script", "q", 2, 1, 1), MCEntry("script", "r", 1, 1, 1),
   MCEntry("csv", "q", 1, 0, 1), MCEntry("csv", "q", 2, 0, 2)}
==============================================================================
