----------------------------- MODULE Discovery ------------------------------
(***************************************************************************)
(* Fork discovery (discovery.rs, project.rs).  A file's place is a path: a *)
(* directory that may hold `.autofork/`, then the components below its     *)
(* forks root.  A forks root, or a directory below it, exists when a file  *)
(* lies under it.                                                          *)
(***************************************************************************)
EXTENDS Config

CONSTANTS
    Places,         \* the paths a file may be at; none is a prefix of another
    Components,     \* file names, in the order they are sorted in
    Stem,           \* per component: the name before ".md", None without one
    Hidden,         \* components that start with a dot
    MaxNesting,     \* MAX_FORK_NESTING_DEPTH
    Raw(_),         \* what a file's content says
    Absent          \* the content of a file that is not there

ForkMd == "FORK.md"

DiscoveryAssumption ==
    /\ Components \in Seq(Range(Components) \ {None})
    /\ \A i, j \in DOMAIN Components : Components[i] = Components[j] => i = j
    /\ ForkMd \notin Hidden
    /\ MaxNesting \in Nat
    /\ \A p \in Places : /\ p \in Seq(Range(p)) /\ Len(p) >= 2
                         /\ \A i \in 2..Len(p) : p[i] \in Range(Components)
    /\ \A p, q \in Places : p # q => ~IsPrefix(p, q)

IsFile(files, p) == p \in Places /\ files[p] # Absent
IsDir(files, p)  == \E q \in Places : IsFile(files, q) /\ IsStrictPrefix(p, q)

-----------------------------------------------------------------------------
\* fork_roots: the ancestors' roots, nearest first, then the user's own.
ForkRoots(files, chain, userRoot) ==
    LET add(roots, d) == IF IsDir(files, <<d>>) THEN Append(roots, d) ELSE roots
        roots == FoldLeft(add, <<>>, chain)
    IN  IF userRoot \in Range(roots) THEN roots ELSE add(roots, userRoot)

\* The directories a scan of root may come to.
Folders(root) == {<<root>>} \cup UNION {{SubSeq(p, 1, n) : n \in 2..(Len(p) - 1)} : p \in Places}

\* What a scan finds at component c of dir: a folder with a FORK.md is a fork and
\* is not descended into.
Found(files, scan, dir, c) ==
    LET path == Append(dir, c)
        main == Append(path, ForkMd)
    IN  CASE c \in Hidden -> <<>>
          [] c \notin Hidden /\ IsDir(files, path) ->
                IF IsFile(files, main) THEN <<[name |-> c, path |-> main]>> ELSE scan[path]
          [] c \notin Hidden /\ ~IsDir(files, path) /\ IsFile(files, path) /\ Stem[c] # None ->
                <<[name |-> Stem[c], path |-> path]>>
          [] OTHER -> <<>>

\* scan_forks_dir: the files it looks at, in order, as [name, path].
ScanForksDir(files, root) ==
    LET scan[dir \in Folders(root)] ==
            IF Len(dir) - 1 > MaxNesting THEN <<>>
            ELSE FlattenSeq([i \in DOMAIN Components |-> Found(files, scan, dir, Components[i])])
    IN  scan[<<root>>]

ParseAt(files, name, path) == ParseForkFile(name, Raw(files[path]))

\* Mutant of InsertEntry: the last of a name wins.
InsertEntryLast(files, entries, file) ==
    IF ParseAt(files, file.name, file.path).kind # "fork" THEN entries
    ELSE Append(SelectSeq(entries, LAMBDA e : e.name # file.name), file)

\* insert_entry: only real forks count, and the first of a name wins.
InsertEntry(files, entries, file) ==
    IF \/ ParseAt(files, file.name, file.path).kind # "fork"
       \/ \E i \in DOMAIN entries : entries[i].name = file.name
    THEN entries ELSE Append(entries, file)

\* discover_forks.
DiscoverForks(files, chain, userRoot) ==
    LET roots == ForkRoots(files, chain, userRoot)
        all == FlattenSeq([i \in DOMAIN roots |-> ScanForksDir(files, roots[i])])
        forks == FoldLeft(LAMBDA entries, file : InsertEntry(files, entries, file), <<>>, all)
    IN  {forks[i] : i \in DOMAIN forks}

\* project_root: the nearest directory with an `.autofork/`, else (by .git, or the
\* working directory) one without, which has no layer of its own.
ProjectRoot(files, layers, chain) ==
    LET marked == {i \in DOMAIN chain : IsDir(files, <<chain[i]>>) \/ layers[chain[i]] # Absent}
    IN  IF marked = {} THEN None ELSE chain[Min(marked)]
=============================================================================
