--------------------------------- MODULE Extract --------------------------------
(***************************************************************************)
(* Reading back a workspace whose file system the guest wrote, and saying  *)
(* what changed in it (internal/sandbox/extract.go, diff.go).              *)
(*                                                                         *)
(* An image maps a directory's path to the records debugfs lists for it; a *)
(* path is the sequence of its names and the root is <<>>.  A record is    *)
(* [parses, name, mode, kind, size, dump, to, abs]: size is what the inode *)
(* says (-1: unreadable), dump the bytes debugfs brought out of it (-1:    *)
(* none), to and abs a link's target.  A tree maps paths to nodes.         *)
(***************************************************************************)
EXTENDS Integers, Sequences, FiniteSets, SequencesExt

CONSTANTS
    BadNames,      \* names with a quote, a control character or a NUL, or too long
    maxImageEntries,
    MaxDepth,      \* the literal 128 of listImage
    maxLinkHops,
    maxLinkSteps,  \* for all links of an image together
    cycleWatchFrom

--------------------------------------------------------------------------------
(* Enumerating                                                                  *)

\* entryFrom: an entry, nothing to report, or a refusal of the whole image.
entryFrom(dir, r) ==
    CASE ~r.parses \/ r.name = "" -> "refused"
      [] r.parses /\ r.name \in {".", ".."} -> "skipped"
      [] r.parses /\ dir = <<>> /\ r.name = "lost+found" -> "skipped"
      [] r.parses /\ (r.name \in BadNames \/ r.kind = "other" \/ (r.kind # "dir" /\ r.size < 0)) ->
            "refused"
      [] OTHER -> "kept"

EntryOf(dir, r) == [path |-> Append(dir, r.name), mode |-> r.mode, kind |-> r.kind,
                    size |-> IF r.kind = "dir" THEN 0 ELSE r.size,
                    dump |-> r.dump, to |-> r.to, abs |-> r.abs]

\* listDirs: a directory that lists nothing, not even itself, refuses the image.
listDirs(image, dirs) ==
    \A i \in DOMAIN dirs : dirs[i] \in DOMAIN image /\ image[dirs[i]] # <<>>

Listed(image, dir) ==
    LET kept == SelectSeq(image[dir], LAMBDA r : entryFrom(dir, r) # "skipped")
    IN  [i \in DOMAIN kept |-> EntryOf(dir, kept[i])]

AnyRefused(image, dir) ==
    \E i \in DOMAIN image[dir] : entryFrom(dir, image[dir][i]) = "refused"

\* listImage, a level of the tree at a time.
RECURSIVE Levels(_, _, _, _)
Levels(image, level, depth, out) ==
    LET found == FlattenSeq([i \in DOMAIN level |-> Listed(image, level[i])])
        dirs == SelectSeq(found, LAMBDA e : e.kind = "dir")
    IN  CASE level = <<>> -> [ok |-> TRUE, entries |-> out]
          [] level # <<>> /\ (\/ depth > MaxDepth \/ ~listDirs(image, level)
                              \/ \E i \in DOMAIN level : AnyRefused(image, level[i])
                              \/ Len(out) + Len(found) > maxImageEntries) ->
                [ok |-> FALSE, entries |-> <<>>]
          [] OTHER -> Levels(image, [i \in DOMAIN dirs |-> dirs[i].path], depth + 1, out \o found)
listImage(image) == Levels(image, << <<>> >>, 0, <<>>)

--------------------------------------------------------------------------------
(* Links                                                                        *)

Parent(path) == Front(path)

\* path.Join(path.Dir(from), target): as though every name were a real directory.
RECURSIVE Lexical(_, _)
Lexical(cur, todo) ==
    CASE todo = <<>> -> cur
      [] todo # <<>> /\ Head(todo) \in {"", "."} -> Lexical(cur, Tail(todo))
      [] todo # <<>> /\ Head(todo) = ".." /\ cur # <<>> /\ Last(cur) # ".." ->
            Lexical(Front(cur), Tail(todo))
      [] OTHER -> Lexical(Append(cur, Head(todo)), Tail(todo))

validLink(from, to, abs) ==
    /\ to # <<>> /\ ~abs
    /\ LET l == Lexical(Parent(from), to) IN l = <<>> \/ Head(l) # ".."

IsLink(tree, path) == path \in DOMAIN tree /\ tree[path].kind = "link"

\* walk: follow a target through the links that are really there.  The answer is how it
\* ended and the steps spent so far.
RECURSIVE Walk(_, _, _, _, _, _)
Walk(tree, cur, todo, hops, seen, steps) ==
    LET probe == Append(cur, Head(todo))
        link == tree[probe]
        state == <<cur, link.to, Tail(todo)>>
        Ends(how) == [how |-> how, steps |-> steps + 1]
    IN  CASE todo = <<>> -> [how |-> "inside", steps |-> steps]
          [] todo # <<>> /\ steps + 1 > maxLinkSteps -> Ends("budget")
          [] OTHER ->
                CASE Head(todo) \in {"", "."} -> Walk(tree, cur, Tail(todo), hops, seen, steps + 1)
                  [] Head(todo) = ".." ->
                        IF cur = <<>> THEN Ends("escapes")
                        ELSE Walk(tree, Front(cur), Tail(todo), hops, seen, steps + 1)
                  [] Head(todo) \notin {"", ".", ".."} /\ ~IsLink(tree, probe) ->
                        Walk(tree, probe, Tail(todo), hops, seen, steps + 1)
                  [] OTHER ->
                        CASE link.abs -> Ends("escapes")
                          [] ~link.abs /\ hops + 1 > maxLinkHops -> Ends("too deep")
                          [] ~link.abs /\ hops + 1 > cycleWatchFrom /\ state \in seen -> Ends("cycles")
                          [] OTHER -> Walk(tree, cur, link.to \o Tail(todo), hops + 1,
                                           IF hops + 1 > cycleWatchFrom THEN seen \cup {state} ELSE seen,
                                           steps + 1)

\* Mutant: each link on its own.
validLinkChainEach(tree, from, steps) == [ok |-> TRUE, steps |-> steps]

\* validLinkChain: a cycle leads nowhere, any other walk that does not end refuses.
validLinkChain(tree, from, steps) ==
    LET w == Walk(tree, Parent(from), tree[from].to, 0, {}, steps)
    IN  [ok |-> w.how \in {"inside", "cycles"}, steps |-> w.steps]

\* What other tools make of a path: no bound but fuel.
RECURSIVE Resolves(_, _, _, _)
Resolves(tree, cur, todo, fuel) ==
    CASE todo = <<>> -> [how |-> "inside", at |-> cur]
      [] todo # <<>> /\ fuel = 0 -> [how |-> "endless", at |-> cur]
      [] todo # <<>> /\ fuel > 0 /\ Head(todo) \in {"", "."} -> Resolves(tree, cur, Tail(todo), fuel - 1)
      [] todo # <<>> /\ fuel > 0 /\ Head(todo) = ".." ->
            IF cur = <<>> THEN [how |-> "escapes", at |-> cur]
            ELSE Resolves(tree, Front(cur), Tail(todo), fuel - 1)
      [] OTHER ->
            LET probe == Append(cur, Head(todo))
            IN  CASE ~IsLink(tree, probe) -> Resolves(tree, probe, Tail(todo), fuel - 1)
                  [] IsLink(tree, probe) /\ tree[probe].abs -> [how |-> "escapes", at |-> cur]
                  [] OTHER -> Resolves(tree, cur, tree[probe].to \o Tail(todo), fuel - 1)

--------------------------------------------------------------------------------
(* Extracting                                                                   *)

\* Permissions that matter: the owner's, everyone's write, and set-id.
safeMode(m, dir) == (m \ {"others write", "set-id"})
                        \cup {"read"} \cup (IF dir THEN {"execute"} ELSE {})
extractMode(m, dir) == safeMode(m, dir) \cup {"write"}

Of(entries, kind) == SelectSeq(entries, LAMBDA e : e.kind = kind)

SizeSum(entries) == FoldLeft(LAMBDA n, e : n + e.size, 0, entries)

\* dumpFiles: what the inodes claim must fit on the disk they are on, and in the staging
\* directory.  A file whose dump debugfs reports as failed refuses the image.
dumpFiles(entries, disk, free) ==
    /\ SizeSum(entries) <= disk
    /\ SizeSum(entries) <= free
    /\ \A i \in DOMAIN entries : entries[i].kind = "file" => entries[i].dump >= 0

Added(tree, path, node) == IF path \in DOMAIN tree THEN tree ELSE (path :> node) @@ tree

Dirs(entries) ==
    FoldLeft(LAMBDA t, e : Added(t, e.path, [kind |-> "dir", mode |-> extractMode(e.mode, TRUE)]),
             <<>>, Of(entries, "dir"))

\* readLink and checkedTarget: a target that came out shorter than its record is refused.
checkedTarget(e) == e.dump = e.size

Linked(tree, entries) ==
    FoldLeft(LAMBDA t, e : Added(t, e.path, [kind |-> "link", to |-> e.to, abs |-> e.abs,
                                            mode |-> {}]), tree, Of(entries, "link"))

ChainsHold(tree, entries) ==
    FoldLeft(LAMBDA s, e : IF ~s.ok \/ ~IsLink(tree, e.path) THEN s
                           ELSE validLinkChain(tree, e.path, s.steps),
             [ok |-> TRUE, steps |-> 0], Of(entries, "link")).ok

\* copyThrough: all of a file or a refusal.  The open goes through the links of the tree,
\* never out of it; a directory of that name is an error.
copyThrough(s, e, fuel) ==
    LET f == Resolves(s.tree, <<>>, e.path, fuel)
    IN  IF \/ ~s.ok \/ e.dump # e.size \/ f.how # "inside"
           \/ f.at = <<>> \/ (f.at \in DOMAIN s.tree /\ s.tree[f.at].kind = "dir")
        THEN [s EXCEPT !.ok = FALSE]
        ELSE [s EXCEPT !.tree = (f.at :> [kind |-> "file", bytes |-> e.dump,
                                          mode |-> safeMode(e.mode, FALSE)]) @@ @]

\* The directories' own modes, once nothing is left to write into them.
Settled(tree, entries) ==
    FoldLeft(LAMBDA t, e : IF t[e.path].kind = "dir"
                           THEN [t EXCEPT ![e.path].mode = safeMode(e.mode, TRUE)] ELSE t,
             tree, Of(entries, "dir"))

NoTree == [ok |-> FALSE, tree |-> <<>>]
\* extractImage: the steps in their order; the tree counts only when all of them pass.
extractImage(entries, disk, free, fuel) ==
    LET links == Of(entries, "link")
        linked == Linked(Dirs(entries), entries)
        copied == FoldLeft(LAMBDA s, e : copyThrough(s, e, fuel), [ok |-> TRUE, tree |-> linked],
                           Of(entries, "file"))
    IN  IF \/ ~dumpFiles(entries, disk, free)
           \/ \E i \in DOMAIN links : \/ ~checkedTarget(links[i])
                                      \/ ~validLink(links[i].path, links[i].to, links[i].abs)
           \/ ~ChainsHold(linked, entries) \/ ~copied.ok
        THEN NoTree
        ELSE [ok |-> TRUE, tree |-> Settled(copied.tree, entries)]

Extract(image, disk, free, fuel) ==
    LET listed == listImage(image)
    IN  IF listed.ok THEN extractImage(listed.entries, disk, free, fuel) ELSE NoTree

Distinct(entries) == \A i, j \in DOMAIN entries : i # j => entries[i].path # entries[j].path

\* A tree that is given back leads nowhere else, however far its links are followed; it
\* has every file of the image, whole and under its own name (unless the guest gave that
\* name twice); and no mode the host must not have.
ExtractSafe(image, disk, free, fuel) ==
    LET x == Extract(image, disk, free, fuel)
        entries == listImage(image).entries
        files == Of(entries, "file")
    IN  x.ok =>
        /\ \A p \in DOMAIN x.tree :
               /\ x.tree[p].kind = "link" =>
                      Resolves(x.tree, Parent(p), x.tree[p].to, fuel).how # "escapes"
               /\ x.tree[p].mode \cap {"others write", "set-id"} = {}
               /\ x.tree[p].kind # "link" => "read" \in x.tree[p].mode
        /\ Distinct(entries) =>
               \A i \in DOMAIN files : LET node == x.tree[files[i].path]
                                       IN  node.kind = "file" /\ node.bytes = files[i].size

--------------------------------------------------------------------------------
(* What changed                                                                 *)

\* scanTree's record of a node.  A file's contents stand for their digest; a directory
\* and a link have none.
Scanned(node) == [mode |-> node.mode, dir |-> node.kind = "dir",
                  digest |-> IF node.kind = "file" THEN <<node.lines>> ELSE <<>>]

\* CompareTree: what the manifest says against what came back.
CompareTree(was, now) ==
    LET Kind(p) ==
            CASE p \notin DOMAIN was -> "A"
              [] p \notin DOMAIN now -> "D"
              [] OTHER ->
                    LET old == Scanned(was[p])
                        e == Scanned(now[p])
                    IN  IF \/ e.mode # old.mode
                           \/ ~e.dir /\ ~old.dir /\ e.digest # old.digest
                        THEN "M" ELSE "same"
    IN  {[path |-> p, kind |-> Kind(p)] :
            p \in {q \in DOMAIN was \cup DOMAIN now : Kind(q) # "same"}}

\* lcs, as the table it fills; the two rows it keeps are the last two of it.
lcs(a, b) ==
    LET row[i \in 0..Len(a), j \in 0..Len(b)] ==
            CASE i = 0 \/ j = 0 -> 0
              [] i > 0 /\ j > 0 /\ a[i] = b[j] -> row[i - 1, j - 1] + 1
              [] OTHER -> IF row[i - 1, j] >= row[i, j - 1] THEN row[i - 1, j] ELSE row[i, j - 1]
    IN  row[Len(a), Len(b)]

\* Mutant: the table looks only left.
diffCountsLeft(old, current) == [added |-> Len(current), removed |-> Len(old)]
diffCounts(old, current) ==
    [added |-> Len(current) - lcs(old, current), removed |-> Len(old) - lcs(old, current)]

\* The reference: lines kept are a subsequence of both, and no longer one exists.
Common(a, b) ==
    {Cardinality(s) : s \in {t \in SUBSET (DOMAIN a) :
        \E u \in SUBSET (DOMAIN b) : /\ Cardinality(u) = Cardinality(t)
                                     /\ LET x == SetToSortSeq(t, <)  y == SetToSortSeq(u, <)
                                        IN  \A i \in DOMAIN x : a[x[i]] = b[y[i]]}}

\* The counts of a changed file are those of a shortest edit from one to the other.
CountsShortest(old, current) ==
    LET c == diffCounts(old, current)
        longest == CHOOSE n \in Common(old, current) : \A m \in Common(old, current) : m <= n
    IN  c.added = Len(current) - longest /\ c.removed = Len(old) - longest

\* Every file added, gone, rewritten or given another mode is reported, and nothing else is.
FilesReported(was, now) ==
    LET shown == CompareTree(was, now)
        IsFile(t, p) == p \in DOMAIN t /\ t[p].kind = "file"
    IN  \A p \in DOMAIN was \cup DOMAIN now :
            (IsFile(was, p) \/ p \notin DOMAIN was) /\ (IsFile(now, p) \/ p \notin DOMAIN now) =>
                ((\E k \in {"A", "D", "M"} : [path |-> p, kind |-> k] \in shown)
                    <=> ~(p \in DOMAIN was /\ p \in DOMAIN now /\ was[p] = now[p]))

\* What the list is for, "what did the agent do": a workspace with another tree in it is
\* shown as changed.  A link that points elsewhere, or a file where a directory was, is not.
EveryChangeShown(was, now) == was # now => CompareTree(was, now) # {}
====
