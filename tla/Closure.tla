------------------------------- MODULE Closure -------------------------------
(***************************************************************************)
(* How the merge of a release fingerprints a node: resolve_closure walks   *)
(* the imports of the node's script over the files of the repository, and  *)
(* the script, the closure and the contract entry are folded into the      *)
(* content hash.  Between two releases an author edits the repository.     *)
(* A path is the sequence of its directories and the stem of a .py file;   *)
(* digests are taken to be injective, so a body stands for its digest.     *)
(***************************************************************************)
EXTENDS Naturals, Sequences, SequencesExt, FiniteSets, FiniteSetsExt

CONSTANTS
  Parts,         \* what directories, modules and attributes are called
  Script,        \* the path of the node's script
  Trees,         \* the repositories of the first release: path -> body
  Files,         \* the paths an edit may write
  Bodies,        \* what an edit may put into a file
  ScriptBodies,  \* ... and into the script
  Queries,       \* the words of the reads and all else an entry says
  Entries,       \* contract entries of the node
  MaxChain       \* bound: imports that a run follows one after the other

VARIABLES
  tree,     \* the repository
  entry,    \* the node's contract entry
  merge,    \* "walk", "refused", "released"
  seen,     \* resolve_closure's seen
  pending,  \* its queue; the order in which it is worked off changes nothing
  prior     \* the first release, once there is an edit after it

closure == <<tree, entry, merge, seen, pending, prior>>

Paths == Seq(Parts) \ {<<>>}

Statement ==
  {s \in [from : BOOLEAN, level : Nat, module : Seq(Parts), names : SUBSET Parts] :
     IF s.from THEN s.names # {} /\ (s.level = 0 => s.module # <<>>)
               ELSE s.level = 0 /\ s.module # <<>>}

(* The whitespace of the reads: "spaces" between the words of the SQL, and *)
(* "text" inside its literals, after a comment, or in a csv's uri.         *)
Entry ==
  {e \in [kind : {"script", "csv"}, query : Queries, text : Nat, spaces : Nat,
          timeout : Nat] :
     e.kind = "csv" => e.spaces = 0}

(* What a link leads to outside the repository is no part of it: it has no *)
(* imports or names here.                                                  *)
IsBody(b) ==
  /\ b.imports \subseteq Statement
  /\ b.state \in {"clean", "syntax", "lint", "outside"}
  /\ b.state = "outside" => b.imports = {} /\ b.attrs = {} /\ b.all = {}

IsTree(t) ==
  /\ IsFiniteSet(DOMAIN t) /\ DOMAIN t \subseteq Paths /\ Script \in DOMAIN t
  /\ \A p \in DOMAIN t : IsBody(t[p])

ASSUME ClosureAssumption ==
  /\ "__init__" \in Parts
  /\ Script \in Paths /\ Files \subseteq Paths \ {Script}
  /\ \A t \in Trees : IsTree(t)
  /\ \A b \in Bodies \cup ScriptBodies : IsBody(b)
  /\ Entries \subseteq Entry /\ MaxChain \in Nat

NoRelease == <<>>
PackageInit(dir) == dir \o <<"__init__">>
ScriptDir == Front(Script)
Roots == IF ScriptDir = <<>> THEN << <<>> >> ELSE << <<>>, ScriptDir >>

(* A dotted name under a root: the package before the module file.         *)
Forms(t, place) == {PackageInit(place), place} \cap DOMAIN t
FileAt(t, place) == IF PackageInit(place) \in DOMAIN t THEN PackageInit(place) ELSE place
-----------------------------------------------------------------------------
DynamicModules == {"importlib", "builtins"}
DynamicNames == {"__import__", "exec", "eval", "__builtins__"}

(* Bare names and attributes of the two kinds are a body's "mentions".     *)
DynamicImport(body) ==
  \/ body.mentions \cap (DynamicNames \cup {".import_module", ".__import__"}) # {}
  \/ \E s \in body.imports :
       \/ s.module # <<>> /\ s.module[1] \in DynamicModules
       \/ s.from /\ s.names \cap DynamicNames # {}

(* The dotted names an import statement may load.                          *)
Base(s, package) ==
  IF s.level = 0 THEN s.module
  ELSE SubSeq(package, 1, Len(package) - (s.level - 1)) \o s.module

DottedNames(s, file) ==
  LET base == Base(s, Front(file)) IN
  IF ~s.from THEN {s.module}
  ELSE IF s.level > Len(Front(file)) + 1 THEN {}
  ELSE ({base} \cup {Append(base, n) : n \in s.names}) \ {<<>>}

(* The packages a dotted name passes on its way from a root.               *)
OnTheWay_ButTheLast(t, root, name) ==   \* fault: off by one in the range of the depth
  {PackageInit(root \o SubSeq(name, 1, d)) : d \in 1 .. Len(name) - 2} \cap DOMAIN t

OnTheWay(t, root, name) ==
  {PackageInit(root \o SubSeq(name, 1, d)) : d \in 1 .. Len(name) - 1} \cap DOMAIN t

(* The first root that has a file of the whole name.                       *)
Resolve(t, name) ==
  LET found == {i \in DOMAIN Roots : Forms(t, Roots[i] \o name) # {}}
      root == Roots[Min(found)]
  IN IF found = {} THEN {}
     ELSE {FileAt(t, root \o name)} \cup OnTheWay(t, root, name)

(* A link that leaves the repository is no candidate.                      *)
Candidates(t, file) ==
  {f \in UNION {Resolve(t, n) : n \in UNION {DottedNames(s, file) : s \in t[file].imports}} :
     t[f].state # "outside"}

Digests(t, files) ==
  [b \in {t[f] : f \in files} |-> Cardinality({f \in files : t[f] = b})]

(* Outside config_hash: the timeout and, as " ".join(sql.split()) knows no *)
(* literal from a keyword, both kinds of whitespace.                       *)
CanonicalEntry(e) == [kind |-> e.kind, query |-> e.query]

HashParts(t, e, members) ==
  [source |-> IF e.kind = "csv" THEN [uri |-> <<e.query, e.text>>] ELSE t[Script],
   shared |-> Digests(t, members \ {Script}),
   config |-> CanonicalEntry(e)]
-----------------------------------------------------------------------------
(* Python's own import, over the two roots ensure_import_paths puts first  *)
(* on sys.path: part by part, a package before a module, a directory       *)
(* without __init__ only where neither is found.  "roots" are those under  *)
(* which the next part is looked up.                                       *)
Module(t, name, place) ==
  [name |-> name, file |-> FileAt(t, place),
   package |-> IF PackageInit(place) \in DOMAIN t THEN name ELSE Front(name)]

IsDirectory(t, place) == \E p \in DOMAIN t : IsStrictPrefix(place, p)

Enter(t, name, at) ==
  LET hits == {i \in at.roots : Forms(t, Roots[i] \o name) # {}}
      place == Roots[Min(hits)] \o name
      portions == {i \in at.roots : IsDirectory(t, Roots[i] \o name)}
  IN IF at.state # "found" THEN at
     ELSE IF hits # {} THEN
       [state  |-> "found",
        loaded |-> at.loaded \cup {Module(t, name, place)},
        roots  |-> IF PackageInit(place) \in DOMAIN t THEN {Min(hits)} ELSE {}]
     ELSE IF portions # {} THEN [at EXCEPT !.roots = portions]
     ELSE [at EXCEPT !.state = IF Len(name) = 1 THEN "installed" ELSE "failed"]

Outset == [state |-> "found", loaded |-> {}, roots |-> DOMAIN Roots]

Import(t, name) ==
  LET at[d \in 0 .. Len(name)] ==
        IF d = 0 THEN Outset ELSE Enter(t, SubSeq(name, 1, d), at[d - 1])
  IN at[Len(name)]

ImportError == [state |-> "failed", loaded |-> {}]

(* A name of a from-import that its module does not define is imported as  *)
(* a submodule; a star does so with the names of __all__.                  *)
Submodules(t, base, names) ==
  LET bodies == {t[m.file] : m \in {m \in Import(t, base).loaded : m.name = base}}
      wanted == (IF names = {"*"} THEN UNION {b.all : b \in bodies} ELSE names)
                  \ UNION {b.attrs : b \in bodies}
  IN {Append(base, n) : n \in wanted}

ImportFrom(t, base, names) ==
  LET at == Import(t, base)
      subs == {Import(t, n) : n \in Submodules(t, base, names)}
  IN IF at.state # "found" THEN [state |-> at.state, loaded |-> at.loaded]
     ELSE [loaded |-> at.loaded \cup UNION {x.loaded : x \in subs},
           state  |-> IF \E x \in subs : x.state = "failed" THEN "failed" ELSE "found"]

RunImport(t, s, mod) ==
  IF ~s.from THEN Import(t, s.module)
  ELSE IF s.level > Len(mod.package) THEN ImportError
  ELSE ImportFrom(t, Base(s, mod.package), s.names)

(* Every import statement is reached, in whatever order.  load_script runs *)
(* the script under a name of no package.                                  *)
Main == [name |-> <<"_continuo_node">>, file |-> Script, package |-> <<>>]

Grow(t, mods) ==
  mods \cup UNION {UNION {RunImport(t, s, m).loaded : s \in t[m.file].imports} : m \in mods}

Loaded(t) ==
  LET after[n \in 0 .. MaxChain] == IF n = 0 THEN {Main} ELSE Grow(t, after[n - 1])
  IN after[MaxChain]

ImportFails(t) ==
  \E m \in Loaded(t) : \E s \in t[m.file].imports : RunImport(t, s, m).state = "failed"

(* The files of the repository a run executes.                             *)
Executed(t) == {f \in {m.file : m \in Loaded(t)} \ {Script} : t[f].state # "outside"}

Execution(t, e) ==
  IF e.kind = "csv" THEN <<>> ELSE <<t[Script], Digests(t, Executed(t))>>

(* What an entry tells the node to do: SQL but for its layout, or a uri.   *)
Says(e) == [kind |-> e.kind, query |-> e.query, text |-> e.text]

(* Two reads that differ in the whitespace of their literals or comments.  *)
SpacesInText(e, f) ==
  e.kind = "script" /\ Says(e) = [Says(f) EXCEPT !.text = e.text]

(* Where the walk and Python part.  A star imports the submodules that     *)
(* __all__ names.                                                          *)
StarExport(t) ==
  \E f, p \in DOMAIN t :
    t[p].all # {} /\ \E s \in t[f].imports : s.from /\ s.names = {"*"}

(* A top-level directory without __init__, or a link that leaves the       *)
(* repository, whose name is found under the script's directory too.       *)
Elsewhere(t, part) ==
  Len(Roots) = 2 /\ \E p \in DOMAIN t : IsPrefix(Append(ScriptDir, part), p)

SplitPackage(t) ==
  \E p \in DOMAIN t :
    Len(p) > 1 /\ PackageInit(<<p[1]>>) \notin DOMAIN t /\ Elsewhere(t, p[1])

(* A link that leaves the repository and hides a file of it.               *)
HidingLink(t) ==
  \E p \in DOMAIN t :
    /\ t[p].state = "outside"
    /\ \/ p \in {<<p[1]>>, PackageInit(<<p[1]>>)} /\ Elsewhere(t, p[1])
       \/ Last(p) = "__init__" /\ Front(p) \in DOMAIN t

(* A directory without __init__ inside a package: importing it runs the    *)
(* package, and the walk finds no file of the name.                        *)
BareDirectory(t) ==
  \E f \in DOMAIN t : \E s \in t[f].imports : \E i \in DOMAIN Roots :
    /\ \A n \in DottedNames(s, f) : Forms(t, Roots[i] \o n) = {}
    /\ \E n \in DottedNames(s, f) :
         OnTheWay(t, Roots[i], n) # {} /\ IsDirectory(t, Roots[i] \o n)

BlindSpot(t) == StarExport(t) \/ SplitPackage(t) \/ HidingLink(t) \/ BareDirectory(t)
-----------------------------------------------------------------------------
MergeStart(e) == IF e.kind = "csv" THEN {} ELSE {Script}

MergeInit ==
  /\ tree \in Trees /\ entry \in Entries
  /\ merge = "walk"
  /\ seen = MergeStart(entry) /\ pending = MergeStart(entry)
  /\ prior = NoRelease

VisitFile ==
  /\ merge = "walk"
  /\ \E file \in pending :
       IF tree[file].state = "syntax" \/ DynamicImport(tree[file])
         THEN merge' = "refused" /\ UNCHANGED <<seen, pending>>
         ELSE LET new == Candidates(tree, file) \ seen IN
              /\ seen' = seen \cup new
              /\ pending' = (pending \ {file}) \cup new
              /\ UNCHANGED merge
  /\ UNCHANGED <<tree, entry, prior>>

(* The lint holds the script and every member to the same rules.           *)
LintFails == \E f \in seen : tree[f].state = "lint"

Release ==
  /\ merge = "walk" /\ pending = {}
  /\ merge' = IF LintFails THEN "refused" ELSE "released"
  /\ UNCHANGED <<tree, entry, seen, pending, prior>>

(* Before the second release one file is written, removed or renamed, or   *)
(* the entry changes.                                                      *)
Written(t)  == UNION {{[p \in DOMAIN t \cup {f} |-> IF p = f THEN b ELSE t[p]] : b \in Bodies} :
                       f \in Files}
Removed(t)  == {[p \in DOMAIN t \ {f} |-> t[p]] : f \in DOMAIN t \ {Script}}
Renamed(t)  ==
  {[p \in (DOMAIN t \ {f[1]}) \cup {f[2]} |-> IF p = f[2] THEN t[f[1]] ELSE t[p]] :
     f \in (DOMAIN t \ {Script}) \X (Files \ DOMAIN t)}

EditedTree(t) ==
  {[t EXCEPT ![Script] = b] : b \in ScriptBodies}
    \cup Written(t) \cup Removed(t) \cup Renamed(t)

NextRelease ==
  /\ merge = "released" /\ prior = NoRelease
  /\ prior' = [tree |-> tree, entry |-> entry, seen |-> seen]
  /\ \/ tree' \in EditedTree(tree) /\ UNCHANGED entry
     \/ entry' \in Entries /\ UNCHANGED tree
  /\ merge' = "walk"
  /\ seen' = MergeStart(entry') /\ pending' = MergeStart(entry')

MergeNext == VisitFile \/ Release \/ NextRelease

MergeSpec == MergeInit /\ [][MergeNext]_closure
-----------------------------------------------------------------------------
(* A release with the hash of the one before has a contract that says the  *)
(* same, but for the whitespace of SQL literals and comments, and runs the *)
(* same code, so the node needs no validation, unless a blind spot is in   *)
(* the way, bodies moved between paths, which digests do not tell, or an   *)
(* import fails: that ends a run before it writes, unless the script       *)
(* catches the error.  And a change of the timeout or of the layout of a   *)
(* read alone keeps the hash.                                              *)
ChangeIsSeen ==
  merge = "released" /\ prior # NoRelease =>
    /\ HashParts(tree, entry, seen) = HashParts(prior.tree, prior.entry, prior.seen) =>
         /\ Says(entry) = Says(prior.entry) \/ SpacesInText(entry, prior.entry)
         /\ \/ BlindSpot(tree) \/ BlindSpot(prior.tree) \/ seen # prior.seen
            \/ ImportFails(tree) \/ ImportFails(prior.tree)
            \/ Execution(tree, entry) = Execution(prior.tree, prior.entry)
    /\ tree = prior.tree /\ Says(entry) = Says(prior.entry) =>
         HashParts(tree, entry, seen) = HashParts(prior.tree, prior.entry, prior.seen)
=============================================================================
