----------------------------- MODULE LayerUnpack -----------------------------
(***************************************************************************)
(* Unpacking the tar archive of a layer into its directory (image-rs,      *)
(* stream/unpack.rs).  The entries arrive one after the other in whatever  *)
(* order the archive has; each is converted (whiteouts), applied to the    *)
(* directory of the layer (".") or extracted by the tar library, and what  *)
(* the library does not set, or what a later entry disturbs, is set here.  *)
(*                                                                         *)
(* Owner, mode and time of a header are abstracted to one label; 0 is what *)
(* the kernel gives to something new or changed now.  The tar library and  *)
(* the kernel's overlay are external.  Bound: no component of a path but   *)
(* the last is a symbolic link, which the library may follow; here an      *)
(* entry below one fails.                                                  *)
(***************************************************************************)
EXTENDS Naturals, Sequences, SequencesExt, FiniteSets, TLC

CONSTANTS
  Entries,      \* the entries archives are made of
  LowerTree,    \* the layer below: a function from paths to types
  MaxEntries    \* bound: the entries of an archive

Types == {"dir", "file", "symlink", "hardlink"}
Names == {"plain", "whiteout", "opaque"}

\* type, ustar and slash are the header's typeflag, whether it is in the ustar or a
\* later format, and whether the path ends in "/" (the spelling the time of a directory
\* is kept under); name tells ".wh." files (of path)
\* and ".wh..wh..opq" (in path) from the others; link is the target of a link, label
\* the owner, mode and time.
ASSUME UnpackAssumption ==
  /\ \A e \in Entries : /\ e.type \in Types
                        /\ e.name \in Names
                        /\ e.ustar \in BOOLEAN /\ e.slash \in BOOLEAN /\ e.legal \in BOOLEAN
                        /\ e.path \in Seq(ToSet(e.path))
                        /\ e.label \in Nat \ {0}
  /\ MaxEntries \in Nat

VARIABLES
  unpackPc,   \* "begin", "entries", "times", "unpacked" or "failed"
  attr,       \* the extended attributes that can be set: "none", "user" or "all"
  tar,        \* history: the entries read
  nodes,      \* history: the inode each was unpacked to
  tree,       \* the directory: a function from paths to inodes
  inode,      \* the inodes
  dirTimes,   \* dirs: the times of directories by path and spelling, set at the end
  rootTime    \* root_times: the label of the last entry "." (0: none)

unpackVars == <<unpackPc, attr, tar, nodes, tree, inode, dirTimes, rootTime>>

Root == <<>>
Above(p) == {SubSeq(p, 1, n) : n \in 0 .. Len(p) - 1}
NewDir == [type |-> "dir", owner |-> 0, mode |-> 0, time |-> 0, opaque |-> FALSE, to |-> Root]

UnpackInit ==
  /\ unpackPc = "begin"
  /\ attr = "none"
  /\ tar = <<>>
  /\ nodes = <<>>
  /\ tree = <<>>
  /\ inode = <<>>
  /\ dirTimes = <<>>
  /\ rootTime = 0

\* A directory that is there is removed first.  Whether there are attributes is found
\* out with one of "user"; the "trusted" one may be refused all the same.
BeginUnpack(a) ==
  /\ unpackPc = "begin"
  /\ unpackPc' = "entries"
  /\ attr' = a
  /\ tree' = [p \in {Root} |-> <<Root, 0>>]
  /\ inode' = [i \in {<<Root, 0>>} |-> NewDir]
  /\ UNCHANGED <<tar, nodes, dirTimes, rootTime>>

-----------------------------------------------------------------------------
(* What an entry is *)

IsWhiteout(e) == e.name # "plain"
IsLayerRoot(e) == e.path = Root

\* A directory by its type or, in a header older than ustar, by the "/" its path ends in.
IsDir(e) == e.type = "dir" \/ (~ e.ustar /\ e.slash)

-----------------------------------------------------------------------------
(* Changes of the directory *)

At(p) == inode[tree[p]]
Exists(p) == p \in DOMAIN tree
Makeable(p) == \A q \in Above(p) : Exists(q) => At(q).type = "dir"

\* The directories above p that are missing are made; a new node gets the inode
\* named after it and the place of its entry in the archive.
Missing(p) == {q \in Above(p) : ~ Exists(q)}
Fresh(p) == <<p, Len(tar) + 1>>

\* g, and f where f is something.
Updated(g, f) == [x \in DOMAIN f \cup DOMAIN g |-> IF x \in DOMAIN f THEN f[x] ELSE g[x]]

\* The directory with p and what is missing above it bound to new inodes; the directory
\* something is added to is changed now.
Bind(p, node) ==
  LET new == Missing(p) \cup {p}
      grown == {tree[Front(q)] : q \in {r \in new : Exists(Front(r))}} IN
  /\ tree' = Updated(tree, [q \in new |-> Fresh(q)])
  /\ inode' = Updated([i \in DOMAIN inode |-> IF i \in grown THEN [inode[i] EXCEPT !.time = 0] ELSE inode[i]],
                      [i \in {Fresh(q) : q \in new} |-> IF i = Fresh(p) THEN node ELSE NewDir])

\* Owner and mode are set without following a symbolic link.
Owned(node, label) == [node EXCEPT !.owner = label, !.mode = label]

Read(e) == unpackPc = "entries" /\ Len(tar) < MaxEntries /\ tar' = Append(tar, e)

Failed == unpackPc' = "failed" /\ UNCHANGED <<attr, tree, inode, dirTimes, rootTime>>

-----------------------------------------------------------------------------
(* The entries *)

\* A name, owner or time that cannot be read.
IllegalEntry(e) ==
  /\ Read(e)
  /\ ~ e.legal
  /\ Failed

\* A whiteout becomes a character device in place of what it hides; what is there
\* already is not replaced.
Whiteout(e) ==
  /\ Read(e)
  /\ e.legal
  /\ e.name = "whiteout"
  /\ IF Makeable(e.path) /\ ~ Exists(e.path)
     THEN /\ Bind(e.path, [NewDir EXCEPT !.type = "whiteout"])
          /\ UNCHANGED <<unpackPc, attr, dirTimes, rootTime>>
     ELSE Failed

\* What an opaque whiteout is in must be there.  Without attributes nothing is done;
\* with them it is opened, which a device is not, and gets one that may be refused.
OpaqueDir(e) ==
  /\ Read(e)
  /\ e.legal
  /\ e.name = "opaque"
  /\ IF /\ Exists(e.path) /\ At(e.path).type # "symlink"
        /\ attr = "none" \/ (attr = "all" /\ At(e.path).type # "whiteout")
     THEN /\ inode' = [inode EXCEPT ![tree[e.path]].opaque = @ \/ attr = "all"]
          /\ UNCHANGED <<unpackPc, attr, tree, dirTimes, rootTime>>
     ELSE Failed

\* Mutant of RootEntry: the time is not kept for the end.
RootEntryAtOnce(e) ==
  /\ Read(e)
  /\ e.legal
  /\ ~ IsWhiteout(e) /\ IsLayerRoot(e)
  /\ IF IsDir(e) THEN inode' = [inode EXCEPT ![tree[Root]] =
                                            [Owned(@, e.label) EXCEPT !.time = e.label]]
                 ELSE UNCHANGED inode
  /\ UNCHANGED <<unpackPc, attr, tree, dirTimes, rootTime>>

\* The entry "." is not extracted; one that is no directory is skipped.
RootEntry(e) ==
  /\ Read(e)
  /\ e.legal
  /\ ~ IsWhiteout(e) /\ IsLayerRoot(e)
  /\ IF IsDir(e) THEN /\ inode' = [inode EXCEPT ![tree[Root]] = Owned(@, e.label)]
                      /\ rootTime' = e.label
                 ELSE UNCHANGED <<inode, rootTime>>
  /\ UNCHANGED <<unpackPc, attr, tree, dirTimes>>

Extracted(e) == Read(e) /\ e.legal /\ ~ IsWhiteout(e) /\ ~ IsLayerRoot(e)

\* A directory that is there is kept.
Directory(e) ==
  /\ Extracted(e)
  /\ IsDir(e)
  /\ IF Makeable(e.path) /\ (Exists(e.path) => At(e.path).type = "dir")
     THEN /\ IF Exists(e.path)
             THEN /\ inode' = [inode EXCEPT ![tree[e.path]] = Owned(@, e.label)]
                  /\ UNCHANGED tree
             ELSE Bind(e.path, Owned(NewDir, e.label))
          /\ dirTimes' = Updated(dirTimes, [k \in {<<e.path, e.slash>>} |-> e.label])
          /\ UNCHANGED <<unpackPc, attr, rootTime>>
     ELSE Failed

\* Files, fifos and devices, and symbolic links, replace what is there.
FileOrSymlink(e) ==
  /\ Extracted(e)
  /\ ~ IsDir(e) /\ e.type \in {"file", "symlink"}
  /\ IF Makeable(e.path) /\ (Exists(e.path) => At(e.path).type # "dir")
     THEN /\ Bind(e.path,
                  [NewDir EXCEPT !.type = e.type, !.owner = e.label, !.time = e.label, !.to = e.link,
                                 !.mode = IF e.type = "file" THEN e.label ELSE 0])
          /\ UNCHANGED <<unpackPc, attr, dirTimes, rootTime>>
     ELSE Failed

\* A target with an absolute name, which the library refuses, is looked up in the layer.
Linkable(p) == Exists(p) /\ At(p).type # "dir"

\* chown and utimes follow a symbolic link.
Followed(p) == IF Exists(p) /\ At(p).type = "symlink" THEN At(p).to ELSE p

\* The link shares the inode of its target, which must be there.  Owner and time are
\* set through the name of the link: of what it points to, when the target is a
\* symbolic link.
HardLink(e) ==
  LET to == Followed(e.link)
      new == Missing(e.path) IN
  /\ Extracted(e)
  /\ ~ IsDir(e) /\ e.type = "hardlink"
  /\ IF /\ Makeable(e.path) /\ ~ Exists(e.path)
        /\ Linkable(e.link) /\ Exists(to)
     THEN /\ tree' = Updated(tree, [q \in new \cup {e.path} |-> IF q = e.path THEN tree[e.link] ELSE Fresh(q)])
          /\ inode' = Updated(
               [i \in DOMAIN inode |->
                  IF i = tree[to] THEN [inode[i] EXCEPT !.owner = e.label, !.time = e.label]
                  ELSE IF \E q \in new \cup {e.path} : Exists(Front(q)) /\ i = tree[Front(q)]
                  THEN [inode[i] EXCEPT !.time = 0] ELSE inode[i]],
               [i \in {Fresh(q) : q \in new} |-> NewDir])
          /\ UNCHANGED <<unpackPc, attr, dirTimes, rootTime>>
     ELSE Failed

\* The archive ends: the times of the directories, in whatever order the map has them,
\* then of the layer's own, are set.  Of the spellings of a directory any may be last.
EndOfArchive ==
  LET timed == {k[1] : k \in DOMAIN dirTimes} IN
  /\ unpackPc = "entries"
  /\ unpackPc' = "unpacked"
  /\ \E last \in [timed -> BOOLEAN] :
       /\ \A p \in timed : <<p, last[p]>> \in DOMAIN dirTimes
       /\ inode' = [i \in DOMAIN inode |->
            IF i = tree[Root] /\ rootTime # 0 THEN [inode[i] EXCEPT !.time = rootTime]
            ELSE IF \E p \in timed : tree[p] = i
            THEN LET p == CHOOSE q \in timed : tree[q] = i IN
                 [inode[i] EXCEPT !.time = dirTimes[<<p, last[p]>>]]
            ELSE inode[i]]
  /\ UNCHANGED <<attr, tar, nodes, tree, dirTimes, rootTime>>

UnpackEntry(e) == \/ IllegalEntry(e) \/ Whiteout(e) \/ OpaqueDir(e) \/ RootEntry(e)
                  \/ Directory(e) \/ FileOrSymlink(e) \/ HardLink(e)

\* The inode at a path, for the history; an entry that was not unpacked may have none.
NodeAt(p) == IF Exists(p) THEN tree[p] ELSE <<p, 0>>

UnpackNext ==
  \/ \E a \in {"none", "user", "all"} : BeginUnpack(a)
  \/ \E e \in Entries : UnpackEntry(e) /\ nodes' = Append(nodes, NodeAt(e.path)')
  \/ EndOfArchive

UnpackSpec == UnpackInit /\ [][UnpackNext]_unpackVars

-----------------------------------------------------------------------------
(* Properties *)

Plain(e) == e.name = "plain" /\ (IsLayerRoot(e) => IsDir(e))
LinksOfSymlinks == \E i, j \in DOMAIN tar : /\ tar[i].type = "hardlink" /\ tar[j].type = "symlink"
                                            /\ tar[i].link = tar[j].path

\* No entry after i is for the inode of i, under any of the names it had.
IsLast(i) == \A j \in DOMAIN tar : Plain(tar[j]) /\ nodes[j] = nodes[i] => j <= i

\* The same among the entries that spell the name like i.
IsLastSpelled(i) == \A j \in DOMAIN tar :
  Plain(tar[j]) /\ nodes[j] = nodes[i] /\ tar[j].slash = tar[i].slash => j <= i

\* Owner and time of everything an archive names are those of the last entry for it,
\* under any of its names, however the entries before and after it are ordered and
\* whatever was written into a directory since; the time of a directory below the
\* layer's own is that of the last entry with one of the spellings of its name.
MetadataOfLastEntry ==
  unpackPc = "unpacked" /\ ~ LinksOfSymlinks =>
    \A p \in DOMAIN tree, i \in DOMAIN tar :
      At(p).type # "whiteout" /\ Plain(tar[i]) /\ nodes[i] = tree[p] /\ IsLast(i) =>
        /\ At(p).owner = tar[i].label
        /\ At(p).type # "dir" \/ p = Root => At(p).time = tar[i].label
        /\ \E j \in DOMAIN tar : /\ Plain(tar[j]) /\ nodes[j] = nodes[i] /\ IsLastSpelled(j)
                                 /\ At(p).time = tar[j].label

\* What the kernel shows of the layer on top of the one below.
Shown == {p \in DOMAIN tree : At(p).type # "whiteout"} \cup
         {p \in DOMAIN LowerTree : ~ Exists(p) /\ \A q \in Above(p) :
            Exists(q) => At(q).type = "dir" /\ ~ At(q).opaque}

\* The paths of an archive's entries with a name, and of those that are no directories.
PathsOf(t, nm) == {t[i].path : i \in {j \in DOMAIN t : t[j].name = nm}}
PathsOver(t) == {t[i].path : i \in {j \in DOMAIN t : t[j].name = "plain" /\ ~ IsDir(t[j])}}
PathsOfDirs(t) == {t[i].path : i \in {j \in DOMAIN t : t[j].name = "plain" /\ IsDir(t[j])}}

\* What the archive says: its own entries, and what lies below unless the archive
\* names it, hides it or something above it, or has put something else above it.
Meant ==
  LET plain == PathsOf(tar, "plain")
      whiteout == PathsOf(tar, "whiteout")
      above == UNION {Above(p) : p \in plain \cup whiteout}
      hidden == whiteout \cup PathsOf(tar, "opaque") \cup (PathsOver(tar) \ {Root}) IN
  {Root} \cup plain \cup above
  \cup {p \in DOMAIN LowerTree : p \notin whiteout \cup plain /\ Above(p) \cap hidden = {}}

NoOpaque == \A i \in DOMAIN tar : tar[i].name # "opaque"
LinksOfEntries == \A i \in DOMAIN tar : tar[i].type = "hardlink" =>
  \E j \in 1 .. i - 1 : tar[j].name = "plain" /\ tar[j].path = tar[i].link

\* The directory and the overlay show what the archive says, in whatever order its
\* whiteouts, directories and files come; opaque directories need all attributes, and
\* a hard link the file it is of.
OverlayShowsArchive ==
  /\ unpackPc = "unpacked"
  /\ attr = "all" \/ NoOpaque
  /\ LinksOfEntries
  => Shown = Meant

\* An archive whose entries all come after the directories they are in and the
\* targets of their links, and name nothing twice, is unpacked, but for an opaque
\* directory where only a part of the attributes can be set.
InOrder ==
  /\ \A i \in DOMAIN tar :
       LET before == SubSeq(tar, 1, i - 1)
           dirs == PathsOfDirs(before) \cup {Root} IN
       /\ tar[i].legal
       /\ tar[i].path # Root => Above(tar[i].path) \subseteq dirs
       /\ tar[i].name = "opaque" => tar[i].path \in dirs
       /\ tar[i].name = "whiteout" => tar[i].path # Root
       /\ tar[i].type = "hardlink" => tar[i].link \in PathsOf(before, "plain") \ dirs
  /\ \A i, j \in DOMAIN tar : i # j /\ tar[i].path # Root /\ tar[i].name # "opaque" /\ tar[j].name # "opaque"
                              => tar[i].path # tar[j].path
OrderedIsUnpacked == InOrder /\ ~ LinksOfSymlinks /\ (attr # "user" \/ NoOpaque) => unpackPc # "failed"

\* The directory of a layer is what its archive says, entry by entry and as the overlay
\* shows it, and an archive in order always becomes one (stream/unpack.rs).
LayerIsArchive == MetadataOfLastEntry /\ OverlayShowsArchive /\ OrderedIsUnpacked
=============================================================================
