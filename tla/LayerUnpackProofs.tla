------------------------- MODULE LayerUnpackProofs -------------------------
(***************************************************************************)
(* Proofs about LayerUnpack, for archives of any entries in any order, and *)
(* any layer below.                                                        *)
(***************************************************************************)
EXTENDS LayerUnpack, SequenceTheorems, FiniteSetTheorems, TLAPS

-----------------------------------------------------------------------------
(* The invariant.  A directory of the tree keeps its inode, and every      *)
(* other path has that of the last entry that put something there; so what *)
(* an entry was unpacked to has the owner and time of the last entry for   *)
(* it, and what the overlay shows can be read off the archive.             *)

LEMMA AboveFacts ==
  ASSUME NEW S, NEW p \in Seq(S)
  PROVE  /\ p \notin Above(p)
         /\ \A q \in Above(p) \cup {p} : q # Root => Front(q) \in Above(p)
         /\ \A q \in Above(p) : Above(q) \subseteq Above(p)
<1>1. Len(p) \in Nat
  OBVIOUS
<1>2. ASSUME NEW n \in 0 .. Len(p) PROVE SubSeq(p, 1, n) \in Seq(S) /\ Len(SubSeq(p, 1, n)) = n
                                         /\ \A j \in 1 .. n : SubSeq(p, 1, n)[j] = p[j]
  BY <1>1, SubSeqProperties
<1>3. p \notin Above(p)
  BY <1>1, <1>2 DEF Above
<1>4. ASSUME NEW n \in 1 .. Len(p) PROVE Front(SubSeq(p, 1, n)) = SubSeq(p, 1, n - 1)
  <2> DEFINE q == SubSeq(p, 1, n)
  <2>1. q \in Seq(S) /\ Len(q) = n /\ \A j \in 1 .. n : q[j] = p[j]
    BY <1>1, <1>2
  <2> HIDE DEF q
  <2>2. SubSeq(q, 1, n - 1) \in Seq(S) /\ Len(SubSeq(q, 1, n - 1)) = n - 1
        /\ \A j \in 1 .. n - 1 : SubSeq(q, 1, n - 1)[j] = q[j]
    BY <1>1, <2>1, SubSeqProperties
  <2>3. SubSeq(p, 1, n - 1) \in Seq(S) /\ Len(SubSeq(p, 1, n - 1)) = n - 1
        /\ \A j \in 1 .. n - 1 : SubSeq(p, 1, n - 1)[j] = p[j]
    BY <1>1, <1>2
  <2> DEFINE a == SubSeq(q, 1, n - 1)
             b == SubSeq(p, 1, n - 1)
  <2> HIDE DEF a, b
  <2>4. a = b
    <3>1. a \in Seq(S) /\ b \in Seq(S) /\ Len(a) = Len(b)
      BY <2>2, <2>3 DEF a, b
    <3>2. \A j \in 1 .. Len(a) : a[j] = b[j]
      BY <1>1, <2>1, <2>2, <2>3 DEF a, b
    <3> QED
      BY <3>1, <3>2
  <2> QED
    BY <2>1, <2>4 DEF Front, a, b, q
<1>5. ASSUME NEW q \in Above(p) \cup {p}, q # Root PROVE Front(q) \in Above(p)
  <2>1. PICK n \in 0 .. Len(p) : q = SubSeq(p, 1, n)
    <3>1. CASE q \in Above(p)
      BY <1>1, <3>1 DEF Above
    <3>2. CASE q = p
      <4>1. SubSeq(p, 1, Len(p)) = p /\ Len(p) \in 0 .. Len(p)
        BY <1>1, <1>2
      <4> QED
        BY <1>1, <3>2, <4>1
    <3> QED
      BY <3>1, <3>2
  <2>2. n # 0
    BY <1>1, <1>2, <1>5, <2>1 DEF Root
  <2>3. n \in 1 .. Len(p) /\ n - 1 \in 0 .. Len(p) - 1
    BY <1>1, <2>2
  <2> QED
    BY <1>4, <2>1, <2>3 DEF Above
<1>6. ASSUME NEW q \in Above(p), NEW r \in Above(q) PROVE r \in Above(p)
  <2>1. PICK n \in 0 .. Len(p) - 1 : q = SubSeq(p, 1, n)
    BY DEF Above
  <2>2. n \in 0 .. Len(p) /\ Len(q) = n
    BY <1>1, <1>2, <2>1
  <2>3. PICK m \in 0 .. n - 1 : r = SubSeq(q, 1, m)
    BY <2>2 DEF Above
  <2>4. m \in 0 .. Len(p) - 1 /\ m \in 0 .. n
    BY <1>1, <2>2
  <2>5. r = SubSeq(p, 1, m)
    <3> DEFINE a == SubSeq(q, 1, m)
               b == SubSeq(p, 1, m)
    <3>1. q \in Seq(S) /\ \A j \in 1 .. n : q[j] = p[j]
      BY <1>2, <2>1, <2>2
    <3>2. a \in Seq(S) /\ Len(a) = m /\ \A j \in 1 .. m : a[j] = q[j]
      BY <2>2, <2>4, <3>1, SubSeqProperties
    <3>3. b \in Seq(S) /\ Len(b) = m /\ \A j \in 1 .. m : b[j] = p[j]
      BY <1>1, <1>2, <2>4
    <3> HIDE DEF a, b
    <3>4. \A j \in 1 .. m : a[j] = b[j]
      BY <2>2, <2>4, <3>1, <3>2, <3>3
    <3>5. a = b
      BY <3>2, <3>3, <3>4
    <3> QED
      BY <2>3, <3>5 DEF a, b
  <2> QED
    BY <2>4, <2>5 DEF Above
<1> QED
  BY <1>3, <1>5, <1>6

LEMMA FreshFacts ==
  ASSUME Len(tar) \in Nat, \A i \in DOMAIN inode : i[2] \in 0 .. Len(tar)
  PROVE  /\ \A q : Fresh(q) \notin DOMAIN inode /\ Fresh(q)[2] = Len(tar) + 1
         /\ \A q, r : Fresh(q) = Fresh(r) => q = r
BY DEF Fresh

-----------------------------------------------------------------------------
NodeFields == {"type", "owner", "mode", "time", "opaque", "to"}
Covered(t) == {Root} \cup PathsOf(t, "plain") \cup UNION {Above(p) : p \in PathsOf(t, "plain") \cup PathsOf(t, "whiteout")}

\* The tree: the paths it has, whose inodes are those of this archive, no directory's twice.
TreeInv ==
  /\ DOMAIN tree = Covered(tar) \cup PathsOf(tar, "whiteout")
  /\ \A p \in DOMAIN tree : tree[p] \in DOMAIN inode
  /\ \A i \in DOMAIN inode : i[2] \in 0 .. Len(tar) /\ DOMAIN inode[i] = NodeFields
  /\ \A p, q \in DOMAIN tree : tree[p] = tree[q] /\ At(p).type = "dir" => p = q

\* Which paths are directories; what an opaque whiteout is in is there.
DirInv ==
  /\ \A p \in {Root} \cup PathsOfDirs(tar)
              \cup UNION {Above(p) : p \in PathsOf(tar, "plain") \cup PathsOf(tar, "whiteout")} :
       p \in DOMAIN tree /\ At(p).type = "dir"
  /\ \A p \in (PathsOver(tar) \ {Root}) \cup PathsOf(tar, "whiteout") : At(p).type # "dir"
  /\ PathsOf(tar, "opaque") \subseteq DOMAIN tree

OpaqueInv == \A p \in DOMAIN tree :
  At(p).type = "dir" => (At(p).opaque <=> attr = "all" /\ p \in PathsOf(tar, "opaque"))

WhiteoutInv ==
  LinksOfEntries => \A p \in DOMAIN tree :
    At(p).type = "whiteout" <=> p \in PathsOf(tar, "whiteout") \ PathsOf(tar, "plain")

SymlinkInv ==
  ~ LinksOfSymlinks => \A p \in DOMAIN tree :
    At(p).type = "symlink" => \E j \in DOMAIN tar : tar[j].type = "symlink" /\ tar[j].path = p

\* What an entry was unpacked to.
NodeInv ==
  \A i \in DOMAIN tar : Plain(tar[i]) =>
    /\ nodes[i] \in DOMAIN inode
    /\ IsDir(tar[i]) <=> inode[nodes[i]].type = "dir"
    /\ IsDir(tar[i]) => tar[i].path \in DOMAIN tree /\ nodes[i] = tree[tar[i].path]

\* The times that are kept: one for every spelling of a directory, of the last entry with it.
TimeOf(j) == <<tar[j].path, tar[j].slash>>
Timed(j) == Plain(tar[j]) /\ IsDir(tar[j]) /\ tar[j].path # Root
TimesInv ==
  /\ \A j \in DOMAIN tar : Timed(j) => TimeOf(j) \in DOMAIN dirTimes
  /\ \A k \in DOMAIN dirTimes : \E j \in DOMAIN tar :
       Timed(j) /\ k = TimeOf(j) /\ dirTimes[k] = tar[j].label /\ IsLastSpelled(j)

\* Owner and time of the last entry, the time of the layer's own directory where it is kept.
OwnerInv ==
  ~ LinksOfSymlinks => \A i \in DOMAIN tar :
    LET node == inode[nodes[i]]
        p == tar[i].path IN
    Plain(tar[i]) /\ IsLast(i) /\ node.type # "whiteout" =>
      /\ node.owner = tar[i].label
      /\ node.type # "dir" => node.time = tar[i].label
      /\ node.type = "dir" /\ p = Root => rootTime = tar[i].label

EntriesInv == /\ TreeInv /\ DirInv /\ OpaqueInv /\ WhiteoutInv /\ SymlinkInv
              /\ NodeInv /\ TimesInv /\ OwnerInv

Listed == /\ tar \in Seq(Entries) /\ nodes \in Seq(ToSet(nodes)) /\ Len(nodes) = Len(tar)

UnpackInv ==
  /\ Listed
  /\ attr \in {"none", "user", "all"}
  /\ unpackPc \in {"begin", "entries", "unpacked", "failed"}
  /\ unpackPc = "begin" => tar = <<>> /\ dirTimes = <<>> /\ rootTime = 0
  /\ unpackPc = "entries" => EntriesInv
  /\ LayerIsArchive

-----------------------------------------------------------------------------
\* What one entry that is unpacked does.
Unpacked(e) ==
  LET p == e.path
      n == inode'[tree'[p]] IN
  /\ DOMAIN tree' = DOMAIN tree \cup (IF e.name = "opaque" THEN {} ELSE Above(p) \cup {p})
  /\ p \in DOMAIN tree' /\ tree'[p] \in DOMAIN inode'
  /\ \A q \in DOMAIN tree : q # p \/ At(q).type = "dir" => tree'[q] = tree[q]
  /\ \A q \in DOMAIN tree' \ DOMAIN tree : q # p =>
       tree'[q] = Fresh(q) /\ Fresh(q) \in DOMAIN inode' /\ inode'[Fresh(q)] = NewDir
  /\ e.name # "opaque" => \A q \in Above(p) \cap DOMAIN tree : At(q).type = "dir"
  /\ \A i \in DOMAIN inode' : i \notin DOMAIN inode => i[2] = Len(tar) + 1 /\ DOMAIN inode'[i] = NodeFields
  /\ \A i \in DOMAIN inode :
       /\ i \in DOMAIN inode' /\ DOMAIN inode'[i] = NodeFields /\ inode'[i].type = inode[i].type
       /\ inode[i].type = "dir" =>
            (inode'[i].opaque <=> inode[i].opaque \/ (e.name = "opaque" /\ i = tree'[p] /\ attr = "all"))
       /\ ~ LinksOfSymlinks' /\ ~ (Plain(e) /\ i = tree'[p]) =>
            /\ inode'[i].owner = inode[i].owner
            /\ inode[i].type # "dir" => inode'[i].time = inode[i].time
  /\ e.name # "opaque" => (n.type = "dir" <=> p = Root \/ (e.name = "plain" /\ IsDir(e)))
  /\ n.type = "dir" /\ p \notin DOMAIN tree => tree'[p] = Fresh(p) /\ ~ n.opaque
  /\ p \in DOMAIN tree => (n.type = "dir" <=> At(p).type = "dir")
  /\ e.name = "whiteout" => n.type = "whiteout" /\ p \notin DOMAIN tree
  /\ e.name = "opaque" => p \in DOMAIN tree /\ tree' = tree
  /\ tree'[p] \in DOMAIN inode \/ tree'[p] = Fresh(p)
  /\ e.name = "plain" /\ n.type = "whiteout" =>
       e.type = "hardlink" /\ e.link \in DOMAIN tree /\ At(e.link).type = "whiteout"
  /\ n.type = "symlink" =>
       e.type = "symlink" \/ (e.type = "hardlink" /\ e.link \in DOMAIN tree /\ At(e.link).type = "symlink")
  /\ Plain(e) /\ ~ LinksOfSymlinks' =>
       n.owner = e.label /\ (n.type # "dir" => n.time = e.label)
  /\ IF Plain(e) /\ IsDir(e) /\ p # Root
     THEN LET k == <<p, e.slash>> IN
          /\ DOMAIN dirTimes' = DOMAIN dirTimes \cup {k} /\ dirTimes'[k] = e.label
          /\ \A l \in DOMAIN dirTimes \ {k} : dirTimes'[l] = dirTimes[l]
     ELSE dirTimes' = dirTimes
  /\ rootTime' = IF Plain(e) /\ p = Root THEN e.label ELSE rootTime

Advances(e) ==
  /\ tar' = Append(tar, e) /\ nodes' = Append(nodes, tree'[e.path]) /\ attr' = attr
  /\ Unpacked(e)

LEMMA ListedStep ==
  ASSUME Listed, NEW e \in Entries, NEW x, tar' = Append(tar, e), nodes' = Append(nodes, x)
  PROVE  /\ Listed' /\ Len(tar) \in Nat /\ Len(tar') = Len(tar) + 1
         /\ DOMAIN tar = 1 .. Len(tar) /\ DOMAIN tar' = 1 .. Len(tar) + 1
         /\ tar'[Len(tar) + 1] = e /\ nodes'[Len(tar) + 1] = x
         /\ \A i \in DOMAIN tar : i # Len(tar) + 1 /\ i \in DOMAIN tar' /\ tar'[i] = tar[i] /\ nodes'[i] = nodes[i]
         /\ \A i \in DOMAIN tar' : i \in DOMAIN tar \/ i = Len(tar) + 1
         /\ \A i \in DOMAIN tar' : tar'[i] \in Entries
<1> DEFINE S == ToSet(nodes) \cup {x}
<1>1. /\ tar \in Seq(Entries) /\ nodes \in Seq(ToSet(nodes)) /\ Len(nodes) = Len(tar) /\ Len(tar) \in Nat
      /\ DOMAIN tar = 1 .. Len(tar) /\ DOMAIN nodes = 1 .. Len(tar)
  BY DEF Listed
<1>2. nodes \in Seq(S) /\ x \in S
  BY <1>1
<1> HIDE DEF S
<1>3. /\ tar' \in Seq(Entries) /\ Len(tar') = Len(tar) + 1 /\ DOMAIN tar' = 1 .. Len(tar) + 1 /\ tar'[Len(tar) + 1] = e
      /\ \A i \in 1 .. Len(tar) : tar'[i] = tar[i]
  BY <1>1, AppendProperties
<1>4. /\ nodes' \in Seq(S) /\ Len(nodes') = Len(tar) + 1 /\ nodes'[Len(tar) + 1] = x
      /\ \A i \in 1 .. Len(tar) : nodes'[i] = nodes[i]
  BY <1>1, <1>2, AppendProperties
<1>5. nodes' \in Seq(ToSet(nodes'))
  <2>1. \A i \in 1 .. Len(nodes') : nodes'[i] \in ToSet(nodes')
    BY <1>1, <1>4 DEF ToSet
  <2> QED
    BY <1>4, <2>1
<1>6. \A i \in DOMAIN tar' : tar'[i] \in Entries
  BY <1>3
<1> QED
  BY <1>1, <1>3, <1>4, <1>5, <1>6 DEF Listed

\* The paths of an archive with one entry more.
LEMMA PathsStep ==
  ASSUME Listed, NEW e \in Entries, tar' = Append(tar, e)
  PROVE  /\ \A nm : PathsOf(tar', nm) = PathsOf(tar, nm) \cup (IF e.name = nm THEN {e.path} ELSE {})
         /\ PathsOver(tar') = PathsOver(tar) \cup (IF e.name = "plain" /\ ~ IsDir(e) THEN {e.path} ELSE {})
         /\ PathsOfDirs(tar') = PathsOfDirs(tar) \cup (IF e.name = "plain" /\ IsDir(e) THEN {e.path} ELSE {})
<1>1. /\ Len(tar) \in Nat /\ DOMAIN tar = 1 .. Len(tar) /\ DOMAIN tar' = 1 .. Len(tar) + 1
      /\ tar'[Len(tar) + 1] = e /\ \A i \in DOMAIN tar : tar'[i] = tar[i]
  BY AppendProperties DEF Listed
<1> DEFINE l == Len(tar) + 1
<1>2. DOMAIN tar' = DOMAIN tar \cup {l} /\ tar'[l] = e
  BY <1>1
<1> HIDE DEF l
<1>3. ASSUME NEW nm, NEW x
      PROVE  x \in PathsOf(tar', nm) <=> x \in PathsOf(tar, nm) \/ (e.name = nm /\ x = e.path)
  <2>1. x \in PathsOf(tar', nm) <=> \E i \in DOMAIN tar' : tar'[i].name = nm /\ tar'[i].path = x
    BY DEF PathsOf
  <2>2. x \in PathsOf(tar, nm) <=> \E i \in DOMAIN tar : tar[i].name = nm /\ tar[i].path = x
    BY DEF PathsOf
  <2> QED
    BY <1>1, <1>2, <2>1, <2>2
<1>4. ASSUME NEW x
      PROVE  x \in PathsOver(tar') <=> x \in PathsOver(tar) \/ (e.name = "plain" /\ ~ IsDir(e) /\ x = e.path)
  <2>1. x \in PathsOver(tar') <=> \E i \in DOMAIN tar' : tar'[i].name = "plain" /\ ~ IsDir(tar'[i]) /\ tar'[i].path = x
    BY DEF PathsOver
  <2>2. x \in PathsOver(tar) <=> \E i \in DOMAIN tar : tar[i].name = "plain" /\ ~ IsDir(tar[i]) /\ tar[i].path = x
    BY DEF PathsOver
  <2> QED
    BY <1>1, <1>2, <2>1, <2>2
<1>5. ASSUME NEW x
      PROVE  x \in PathsOfDirs(tar') <=> x \in PathsOfDirs(tar) \/ (e.name = "plain" /\ IsDir(e) /\ x = e.path)
  <2>1. x \in PathsOfDirs(tar') <=> \E i \in DOMAIN tar' : tar'[i].name = "plain" /\ IsDir(tar'[i]) /\ tar'[i].path = x
    BY DEF PathsOfDirs
  <2>2. x \in PathsOfDirs(tar) <=> \E i \in DOMAIN tar : tar[i].name = "plain" /\ IsDir(tar[i]) /\ tar[i].path = x
    BY DEF PathsOfDirs
  <2> QED
    BY <1>1, <1>2, <2>1, <2>2
<1> QED
  BY <1>3, <1>4, <1>5

\* An archive's links were those of the archive so far.
LEMMA LinksStep ==
  ASSUME Listed, NEW e \in Entries, tar' = Append(tar, e)
  PROVE  /\ LinksOfSymlinks => LinksOfSymlinks'
         /\ LinksOfEntries' => LinksOfEntries
         /\ LinksOfEntries' /\ e.type = "hardlink" => e.link \in PathsOf(tar, "plain")
<1>1. /\ Len(tar) \in Nat /\ DOMAIN tar = 1 .. Len(tar) /\ DOMAIN tar' = 1 .. Len(tar) + 1
      /\ tar'[Len(tar) + 1] = e /\ \A i \in DOMAIN tar : tar'[i] = tar[i]
  BY AppendProperties DEF Listed
<1>2. LinksOfSymlinks => LinksOfSymlinks'
  <2>1. DOMAIN tar \subseteq DOMAIN tar'
    BY <1>1
  <2> QED
    BY <1>1, <2>1, Zenon DEF LinksOfSymlinks
<1>3. LinksOfEntries' => LinksOfEntries
  <2> SUFFICES ASSUME LinksOfEntries', NEW i \in DOMAIN tar, tar[i].type = "hardlink"
               PROVE  \E j \in 1 .. i - 1 : tar[j].name = "plain" /\ tar[j].path = tar[i].link
    BY DEF LinksOfEntries
  <2>1. i \in DOMAIN tar' /\ tar'[i] = tar[i]
    BY <1>1
  <2>2. PICK j \in 1 .. i - 1 : tar'[j].name = "plain" /\ tar'[j].path = tar'[i].link
    BY <2>1 DEF LinksOfEntries
  <2>3. j \in DOMAIN tar
    BY <1>1
  <2> QED
    BY <1>1, <2>1, <2>2, <2>3
<1>4. ASSUME LinksOfEntries', e.type = "hardlink" PROVE e.link \in PathsOf(tar, "plain")
  <2>1. PICK j \in 1 .. (Len(tar) + 1) - 1 : tar'[j].name = "plain" /\ tar'[j].path = e.link
    <3>1. Len(tar) + 1 \in DOMAIN tar'
      BY <1>1
    <3> QED
      BY <1>1, <1>4, <3>1 DEF LinksOfEntries
  <2>2. j \in DOMAIN tar
    BY <1>1
  <2> QED
    BY <1>1, <2>1, <2>2 DEF PathsOf
<1> QED
  BY <1>2, <1>3, <1>4

\* What the entry is.
LEMMA EntryFacts ==
  ASSUME NEW e \in Entries
  PROVE  e.name \in {"plain", "whiteout", "opaque"} /\ e.type \in {"dir", "file", "symlink", "hardlink"}
         /\ e.path \in Seq(ToSet(e.path)) /\ e.label \in Nat \ {0}
BY UnpackAssumption DEF Names, Types

LEMMA PathOfEntry ==
  ASSUME NEW t, NEW i \in DOMAIN t
  PROVE  t[i].path \in PathsOf(t, t[i].name)
BY DEF PathsOf

LEMMA NodesKept ==
  ASSUME Listed, TreeInv, NEW e \in Entries, Advances(e)
  PROVE  /\ \A q \in DOMAIN tree : tree'[q] # tree[q] => q = e.path
         /\ \A q \in DOMAIN tree : q # e.path \/ At(q).type = "dir" => tree'[q] = tree[q] /\ At(q)'.type = At(q).type
         /\ \A q \in DOMAIN tree' : tree'[q] \in DOMAIN inode'
         /\ \A q \in DOMAIN tree' \ DOMAIN tree : q # e.path => At(q)'.type = "dir" /\ ~ At(q)'.opaque
         /\ DOMAIN tree \subseteq DOMAIN tree'
<1>1. \A q \in DOMAIN tree : tree[q] \in DOMAIN inode
  BY DEF TreeInv
<1>2. \A i \in DOMAIN inode : i \in DOMAIN inode' /\ inode'[i].type = inode[i].type
  BY DEF Advances, Unpacked
<1>3. \A q \in DOMAIN tree : q # e.path \/ At(q).type = "dir" => tree'[q] = tree[q]
  BY DEF Advances, Unpacked
<1>4. DOMAIN tree \subseteq DOMAIN tree' /\ tree'[e.path] \in DOMAIN inode'
  BY DEF Advances, Unpacked
<1>5. \A q \in DOMAIN tree' \ DOMAIN tree : q # e.path =>
        tree'[q] = Fresh(q) /\ Fresh(q) \in DOMAIN inode' /\ inode'[Fresh(q)] = NewDir
  BY DEF Advances, Unpacked
<1>6. NewDir.type = "dir" /\ ~ NewDir.opaque
  BY DEF NewDir
<1> QED
  BY <1>1, <1>2, <1>3, <1>4, <1>5, <1>6 DEF At

LEMMA TreeStep ==
  ASSUME Listed, TreeInv, DirInv, NEW e \in Entries, Advances(e)
  PROVE  TreeInv'
<1> DEFINE p == e.path
<1>1. tar' = Append(tar, e) /\ Unpacked(e)
  BY DEF Advances
<1>2. e.name \in {"plain", "whiteout", "opaque"}
  BY EntryFacts
<1>3. Len(tar) \in Nat /\ Len(tar') = Len(tar) + 1
  BY <1>1, AppendProperties DEF Listed
<1>4. DOMAIN tree' = Covered(tar') \cup PathsOf(tar', "whiteout")
  <2> DEFINE P == PathsOf(tar, "plain")
             W == PathsOf(tar, "whiteout")
             P1 == PathsOf(tar', "plain")
             W1 == PathsOf(tar', "whiteout")
             U == UNION {Above(q) : q \in P \cup W}
             U1 == UNION {Above(q) : q \in P1 \cup W1}
  <2>1. /\ P1 = P \cup (IF e.name = "plain" THEN {p} ELSE {})
        /\ W1 = W \cup (IF e.name = "whiteout" THEN {p} ELSE {})
    BY <1>1, PathsStep
  <2>2. DOMAIN tree = ({Root} \cup P \cup U) \cup W
    BY DEF TreeInv, Covered
  <2>3. Covered(tar') \cup PathsOf(tar', "whiteout") = ({Root} \cup P1 \cup U1) \cup W1
    BY DEF Covered
  <2>4. DOMAIN tree' = DOMAIN tree \cup (IF e.name = "opaque" THEN {} ELSE Above(p) \cup {p})
    BY <1>1 DEF Unpacked
  <2>a. \A x : x \in U1 <=> \E q \in P1 \cup W1 : x \in Above(q)
    OBVIOUS
  <2>b. \A x : x \in U <=> \E q \in P \cup W : x \in Above(q)
    OBVIOUS
  <2> HIDE DEF P, W, P1, W1, U, U1, p
  <2>5. CASE e.name = "opaque"
    <3>1. P1 = P /\ W1 = W
      BY <2>1, <2>5
    <3>2. U1 = U
      BY <2>a, <2>b, <3>1
    <3> QED
      BY <2>2, <2>3, <2>4, <2>5, <3>1, <3>2
  <2>6. CASE e.name # "opaque"
    <3>1. P1 \cup W1 = P \cup W \cup {p}
      BY <1>2, <2>1, <2>6
    <3>2. U1 = U \cup Above(p)
      <4>1. \A x : x \in U1 <=> x \in U \/ x \in Above(p)
        BY <3>1, <2>a, <2>b
      <4> QED
        BY <4>1
    <3>3. DOMAIN tree' = DOMAIN tree \cup Above(p) \cup {p}
      BY <2>4, <2>6
    <3> QED
      BY <2>2, <2>3, <3>1, <3>2, <3>3
  <2> QED
    BY <2>5, <2>6
<1>5. \A q \in DOMAIN tree' : tree'[q] \in DOMAIN inode'
  BY NodesKept
<1>6. ASSUME NEW i \in DOMAIN inode' PROVE i[2] \in 0 .. Len(tar') /\ DOMAIN inode'[i] = NodeFields
  <2>1. CASE i \in DOMAIN inode
    <3>1. i[2] \in 0 .. Len(tar)
      BY <2>1 DEF TreeInv
    <3>2. DOMAIN inode'[i] = NodeFields
      BY <1>1, <2>1 DEF Unpacked
    <3> QED
      BY <1>3, <3>1, <3>2
  <2>2. CASE i \notin DOMAIN inode
    <3>1. i[2] = Len(tar) + 1 /\ DOMAIN inode'[i] = NodeFields
      BY <1>1, <2>2 DEF Unpacked
    <3> QED
      BY <1>3, <3>1
  <2> QED
    BY <2>1, <2>2
<1>7. ASSUME NEW q \in DOMAIN tree', NEW r \in DOMAIN tree', tree'[q] = tree'[r], At(q)'.type = "dir"
      PROVE  q = r
  <2>1. \A s : Fresh(s) \notin DOMAIN inode
    BY <1>3, FreshFacts DEF TreeInv
  <2>2. \A s, t : Fresh(s) = Fresh(t) => s = t
    BY <1>3, FreshFacts DEF TreeInv
  <2>3. At(r)'.type = "dir"
    BY <1>7 DEF At
  \* A directory has the inode it had, or a new one named after it.
  <2>4. ASSUME NEW s \in DOMAIN tree', At(s)'.type = "dir"
        PROVE  IF s \in DOMAIN tree THEN tree'[s] = tree[s] /\ tree[s] \in DOMAIN inode /\ At(s).type = "dir"
               ELSE tree'[s] = Fresh(s)
    <3>1. CASE s \notin DOMAIN tree /\ s # p
      BY <1>1, <3>1 DEF Unpacked
    <3>2. CASE s \notin DOMAIN tree /\ s = p
      BY <1>1, <2>4, <3>2 DEF Unpacked, At
    <3>3. CASE s \in DOMAIN tree /\ s # p
      BY <2>4, <3>3, NodesKept DEF TreeInv
    <3>4. CASE s \in DOMAIN tree /\ s = p
      <4>1. At(s).type = "dir"
        BY <1>1, <2>4, <3>4 DEF Unpacked, At
      <4> QED
        BY <3>4, <4>1, NodesKept DEF TreeInv
    <3> QED
      BY <3>1, <3>2, <3>3, <3>4
  <2>5. CASE q \in DOMAIN tree /\ r \in DOMAIN tree
    BY <1>7, <2>3, <2>4, <2>5 DEF TreeInv
  <2>6. CASE q \notin DOMAIN tree /\ r \notin DOMAIN tree
    BY <1>7, <2>2, <2>3, <2>4, <2>6
  <2>7. CASE q \in DOMAIN tree <=> r \notin DOMAIN tree
    BY <1>7, <2>1, <2>3, <2>4, <2>7
  <2> QED
    BY <2>5, <2>6, <2>7
<1> QED
  BY <1>4, <1>5, <1>6, <1>7 DEF TreeInv

LEMMA DirStep ==
  ASSUME Listed, TreeInv, DirInv, NEW e \in Entries, Advances(e)
  PROVE  DirInv'
<1> DEFINE p == e.path
           D(t) == {Root} \cup PathsOfDirs(t)
                      \cup UNION {Above(q) : q \in PathsOf(t, "plain") \cup PathsOf(t, "whiteout")}
<1>1. tar' = Append(tar, e) /\ Unpacked(e)
  BY DEF Advances
<1>2. e.name \in {"plain", "whiteout", "opaque"}
  BY EntryFacts
<1>3. e.name # "opaque" => (At(p)'.type = "dir" <=> p = Root \/ (e.name = "plain" /\ IsDir(e)))
  BY <1>1 DEF Unpacked, At
<1>4. \A q \in DOMAIN tree : q # p \/ At(q).type = "dir" => q \in DOMAIN tree' /\ At(q)'.type = At(q).type
  BY NodesKept
<1>5. /\ \A nm : PathsOf(tar', nm) = PathsOf(tar, nm) \cup (IF e.name = nm THEN {p} ELSE {})
      /\ PathsOver(tar') = PathsOver(tar) \cup (IF e.name = "plain" /\ ~ IsDir(e) THEN {p} ELSE {})
      /\ PathsOfDirs(tar') = PathsOfDirs(tar) \cup (IF e.name = "plain" /\ IsDir(e) THEN {p} ELSE {})
  BY <1>1, PathsStep
<1>6. p \in DOMAIN tree'
  BY <1>1 DEF Unpacked
<1>7. ASSUME e.name # "opaque", NEW q \in Above(p) PROVE q \in DOMAIN tree' /\ At(q)'.type = "dir"
  <2>1. q # p
    BY EntryFacts, AboveFacts
  <2>2. q \in DOMAIN tree'
    BY <1>1, <1>7 DEF Unpacked
  <2>3. CASE q \in DOMAIN tree
    <3>1. At(q).type = "dir"
      BY <1>1, <1>7, <2>3 DEF Unpacked
    <3> QED
      BY <1>4, <2>3, <3>1
  <2>4. CASE q \notin DOMAIN tree
    BY <2>1, <2>2, <2>4, NodesKept
  <2> QED
    BY <2>3, <2>4
<1>8. ASSUME NEW q \in D(tar') PROVE q \in DOMAIN tree' /\ At(q)'.type = "dir"
  <2>1. CASE q \in D(tar)
    <3>1. q \in DOMAIN tree /\ At(q).type = "dir"
      BY <2>1 DEF DirInv
    <3> QED
      BY <1>4, <3>1
  <2>2. CASE q = p /\ e.name = "plain" /\ IsDir(e)
    BY <1>3, <1>6, <2>2
  <2>3. CASE e.name # "opaque" /\ q \in Above(p)
    BY <1>7, <2>3
  <2>4. \/ q \in D(tar) \/ (q = p /\ e.name = "plain" /\ IsDir(e))
        \/ (e.name # "opaque" /\ q \in Above(p))
    <3>1. CASE q = Root \/ q \in PathsOfDirs(tar')
      BY <1>5, <3>1
    <3>2. CASE \E r \in PathsOf(tar', "plain") \cup PathsOf(tar', "whiteout") : q \in Above(r)
      <4>1. PICK r \in PathsOf(tar', "plain") \cup PathsOf(tar', "whiteout") : q \in Above(r)
        BY <3>2
      <4>2. CASE r \in PathsOf(tar, "plain") \cup PathsOf(tar, "whiteout")
        BY <4>1, <4>2
      <4>3. CASE r = p /\ e.name # "opaque"
        BY <4>1, <4>3
      <4> QED
        BY <1>5, <4>1, <4>2, <4>3
    <3> QED
      BY <1>8, <3>1, <3>2
  <2> QED
    BY <2>1, <2>2, <2>3, <2>4
<1>9. ASSUME NEW q \in (PathsOver(tar') \ {Root}) \cup PathsOf(tar', "whiteout") PROVE At(q)'.type # "dir"
  <2>1. CASE q = p
    <3>1. CASE q \in (PathsOver(tar) \ {Root}) \cup PathsOf(tar, "whiteout")
      <4>1. At(q).type # "dir" /\ q \in DOMAIN tree
        BY <3>1 DEF DirInv, TreeInv, Covered, PathsOver, PathsOf
      <4> QED
        BY <1>1, <2>1, <4>1 DEF Unpacked, At
    <3>2. CASE e.name = "plain" /\ ~ IsDir(e) /\ q # Root
      BY <1>3, <2>1, <3>2
    <3>3. CASE e.name = "whiteout"
      BY <1>1, <2>1, <3>3 DEF Unpacked, At
    <3> QED
      BY <1>5, <1>9, <3>1, <3>2, <3>3
  <2>2. CASE q # p
    <3>1. q \in (PathsOver(tar) \ {Root}) \cup PathsOf(tar, "whiteout")
      BY <1>5, <1>9, <2>2
    <3>2. At(q).type # "dir" /\ q \in DOMAIN tree
      BY <3>1 DEF DirInv, TreeInv, Covered, PathsOver, PathsOf
    <3> QED
      BY <1>4, <2>2, <3>2
  <2> QED
    BY <2>1, <2>2
<1>10. \A q \in D(tar') : q \in DOMAIN tree' /\ At(q)'.type = "dir"
  BY <1>8
<1>11. PathsOf(tar', "opaque") \subseteq DOMAIN tree'
  <2>1. PathsOf(tar, "opaque") \subseteq DOMAIN tree'
    BY NodesKept DEF DirInv
  <2> QED
    BY <1>5, <1>6, <2>1
<1> QED
  BY <1>9, <1>10, <1>11 DEF DirInv

LEMMA OpaqueStep ==
  ASSUME Listed, TreeInv, DirInv, OpaqueInv, NEW e \in Entries, Advances(e)
  PROVE  OpaqueInv'
<1> DEFINE p == e.path
<1> SUFFICES ASSUME NEW q \in DOMAIN tree', At(q)'.type = "dir"
             PROVE  At(q)'.opaque <=> attr' = "all" /\ q \in PathsOf(tar', "opaque")
  BY DEF OpaqueInv
<1>1. tar' = Append(tar, e) /\ attr' = attr /\ Unpacked(e)
  BY DEF Advances
<1>2. PathsOf(tar', "opaque") = PathsOf(tar, "opaque") \cup (IF e.name = "opaque" THEN {p} ELSE {})
  BY <1>1, PathsStep
<1>3. PathsOf(tar, "opaque") \subseteq DOMAIN tree
  BY DEF DirInv
<1>4. CASE q \in DOMAIN tree
  <2>1. At(q).type = "dir"
    <3>1. CASE q = p
      BY <1>1, <1>4, <3>1 DEF Unpacked, At
    <3>2. CASE q # p
      BY <1>4, <3>2, NodesKept
    <3> QED
      BY <3>1, <3>2
  <2>2. tree'[q] = tree[q] /\ tree[q] \in DOMAIN inode
    BY <1>4, <2>1, NodesKept DEF TreeInv
  <2>3. At(q)'.opaque <=> At(q).opaque \/ (e.name = "opaque" /\ tree[q] = tree'[p] /\ attr = "all")
    BY <1>1, <2>1, <2>2 DEF Unpacked, At
  <2>4. e.name = "opaque" => (tree[q] = tree'[p] <=> q = p)
    <3> SUFFICES ASSUME e.name = "opaque" PROVE tree[q] = tree'[p] <=> q = p
      OBVIOUS
    <3>1. p \in DOMAIN tree /\ tree'[p] = tree[p]
      BY <1>1 DEF Unpacked
    <3> QED
      BY <1>4, <2>1, <3>1 DEF TreeInv
  <2>5. At(q).opaque <=> attr = "all" /\ q \in PathsOf(tar, "opaque")
    BY <1>4, <2>1 DEF OpaqueInv
  <2> QED
    BY <1>1, <1>2, <2>3, <2>4, <2>5
<1>5. CASE q \notin DOMAIN tree
  <2>1. ~ At(q)'.opaque
    <3>1. CASE q = p
      BY <1>1, <1>5, <3>1 DEF Unpacked, At
    <3>2. CASE q # p
      BY <1>5, <3>2, NodesKept
    <3> QED
      BY <3>1, <3>2
  <2>2. ~ (e.name = "opaque" /\ q = p)
    BY <1>1, <1>5 DEF Unpacked
  <2> QED
    BY <1>2, <1>3, <1>5, <2>1, <2>2
<1> QED
  BY <1>4, <1>5

LEMMA WhiteoutStep ==
  ASSUME Listed, TreeInv, DirInv, WhiteoutInv, NEW e \in Entries, Advances(e)
  PROVE  WhiteoutInv'
<1> DEFINE p == e.path
<1> SUFFICES ASSUME LinksOfEntries', NEW q \in DOMAIN tree'
             PROVE  At(q)'.type = "whiteout" <=> q \in PathsOf(tar', "whiteout") \ PathsOf(tar', "plain")
  BY DEF WhiteoutInv
<1>1. tar' = Append(tar, e) /\ Unpacked(e)
  BY DEF Advances
<1>2. e.name \in {"plain", "whiteout", "opaque"}
  BY EntryFacts
<1>3. \A nm : PathsOf(tar', nm) = PathsOf(tar, nm) \cup (IF e.name = nm THEN {p} ELSE {})
  BY <1>1, PathsStep
<1>4. \A r \in DOMAIN tree : At(r).type = "whiteout" <=> r \in PathsOf(tar, "whiteout") \ PathsOf(tar, "plain")
  BY <1>1, LinksStep DEF WhiteoutInv
<1>5. \A r : r \in PathsOf(tar, "whiteout") \cup PathsOf(tar, "plain") => r \in DOMAIN tree
  BY DEF TreeInv, Covered
<1>6. CASE q # p
  <2>1. CASE q \in DOMAIN tree
    BY <1>3, <1>4, <1>6, <2>1, NodesKept
  <2>2. CASE q \notin DOMAIN tree
    <3>1. At(q)'.type = "dir"
      BY <1>6, <2>2, NodesKept
    <3> QED
      BY <1>3, <1>5, <1>6, <2>2, <3>1
  <2> QED
    BY <2>1, <2>2
<1>7. CASE q = p /\ e.name = "whiteout"
  <2>1. At(q)'.type = "whiteout" /\ q \notin DOMAIN tree
    BY <1>1, <1>7 DEF Unpacked, At
  <2> QED
    BY <1>3, <1>5, <1>7, <2>1
<1>8. CASE q = p /\ e.name = "opaque"
  <2>1. q \in DOMAIN tree /\ tree'[q] = tree[q]
    BY <1>1, <1>8 DEF Unpacked
  <2>2. At(q)'.type = At(q).type
    <3>1. tree[q] \in DOMAIN inode
      BY <2>1 DEF TreeInv
    <3> QED
      BY <1>1, <2>1, <3>1 DEF Unpacked, At
  <2> QED
    BY <1>3, <1>4, <1>8, <2>1, <2>2
<1>9. CASE q = p /\ e.name = "plain"
  <2>1. At(q)'.type # "whiteout"
    <3> SUFFICES ASSUME At(q)'.type = "whiteout" PROVE FALSE
      OBVIOUS
    <3>1. e.type = "hardlink" /\ e.link \in DOMAIN tree /\ At(e.link).type = "whiteout"
      BY <1>1, <1>9 DEF Unpacked, At
    <3>2. e.link \in PathsOf(tar, "plain")
      BY <1>1, <3>1, LinksStep
    <3> QED
      BY <1>4, <3>1, <3>2
  <2> QED
    BY <1>3, <1>9, <2>1
<1> QED
  BY <1>2, <1>6, <1>7, <1>8, <1>9

LEMMA SymlinkStep ==
  ASSUME Listed, TreeInv, SymlinkInv, NEW e \in Entries, Advances(e)
  PROVE  SymlinkInv'
<1> DEFINE p == e.path
           IsLink(t, q) == \E j \in DOMAIN t : t[j].type = "symlink" /\ t[j].path = q
<1> SUFFICES ASSUME ~ LinksOfSymlinks', NEW q \in DOMAIN tree', At(q)'.type = "symlink" PROVE IsLink(tar', q)
  BY DEF SymlinkInv
<1>1. tar' = Append(tar, e) /\ Unpacked(e)
  BY DEF Advances
<1>2. /\ \A i \in DOMAIN tar : i \in DOMAIN tar' /\ tar'[i] = tar[i]
      /\ Len(tar) + 1 \in DOMAIN tar' /\ tar'[Len(tar) + 1] = e
  BY <1>1, AppendProperties DEF Listed
<1>3. \A r \in DOMAIN tree : At(r).type = "symlink" => IsLink(tar, r)
  BY <1>1, LinksStep DEF SymlinkInv
<1>4. ASSUME NEW r, IsLink(tar, r) PROVE IsLink(tar', r)
  BY <1>2, <1>4
<1>5. CASE q # p
  <2>1. q \in DOMAIN tree
    <3> SUFFICES ASSUME q \notin DOMAIN tree PROVE FALSE
      OBVIOUS
    <3>1. At(q)'.type = "dir"
      BY <1>5, NodesKept
    <3> QED
      BY <3>1
  <2>2. At(q).type = "symlink"
    BY <1>5, <2>1, NodesKept
  <2> QED
    BY <1>3, <1>4, <2>1, <2>2
<1>6. CASE q = p
  <2>1. e.type = "symlink" \/ (e.type = "hardlink" /\ e.link \in DOMAIN tree /\ At(e.link).type = "symlink")
    BY <1>1, <1>6 DEF Unpacked, At
  <2>2. CASE e.type = "symlink"
    BY <1>2, <1>6, <2>2
  <2>3. CASE e.type = "hardlink" /\ e.link \in DOMAIN tree /\ At(e.link).type = "symlink"
    <3>1. IsLink(tar', e.link)
      BY <1>3, <1>4, <2>3
    <3> QED
      BY <1>2, <2>3, <3>1 DEF LinksOfSymlinks
  <2> QED
    BY <2>1, <2>2, <2>3
<1> QED
  BY <1>5, <1>6

LEMMA NodeStep ==
  ASSUME Listed, TreeInv, NodeInv, NEW e \in Entries, Advances(e)
  PROVE  NodeInv'
<1> DEFINE p == e.path
<1> SUFFICES ASSUME NEW i \in DOMAIN tar', Plain(tar'[i])
             PROVE  /\ nodes'[i] \in DOMAIN inode'
                    /\ IsDir(tar'[i]) <=> inode'[nodes'[i]].type = "dir"
                    /\ IsDir(tar'[i]) => tar'[i].path \in DOMAIN tree' /\ nodes'[i] = tree'[tar'[i].path]
  BY DEF NodeInv
<1>1. tar' = Append(tar, e) /\ nodes' = Append(nodes, tree'[p]) /\ Unpacked(e)
  BY DEF Advances
<1>2. /\ \A j \in DOMAIN tar : tar'[j] = tar[j] /\ nodes'[j] = nodes[j]
      /\ i \in DOMAIN tar \/ i = Len(tar) + 1
      /\ tar'[Len(tar) + 1] = e /\ nodes'[Len(tar) + 1] = tree'[p]
  BY <1>1, ListedStep
<1>3. CASE i \in DOMAIN tar
  <2>1. tar'[i] = tar[i] /\ nodes'[i] = nodes[i] /\ Plain(tar[i])
    BY <1>2, <1>3
  <2>2. /\ nodes[i] \in DOMAIN inode
        /\ IsDir(tar[i]) <=> inode[nodes[i]].type = "dir"
        /\ IsDir(tar[i]) => tar[i].path \in DOMAIN tree /\ nodes[i] = tree[tar[i].path]
    BY <1>3, <2>1 DEF NodeInv
  <2>3. nodes[i] \in DOMAIN inode' /\ inode'[nodes[i]].type = inode[nodes[i]].type
    BY <1>1, <2>2 DEF Unpacked
  <2>4. IsDir(tar[i]) => tar[i].path \in DOMAIN tree' /\ tree'[tar[i].path] = nodes[i]
    BY <2>2, NodesKept DEF At
  <2> QED
    BY <2>1, <2>2, <2>3, <2>4
<1>4. CASE i = Len(tar) + 1
  <2>1. tar'[i] = e /\ nodes'[i] = tree'[p] /\ Plain(e)
    BY <1>2, <1>4
  <2>2. p \in DOMAIN tree' /\ tree'[p] \in DOMAIN inode'
    BY <1>1 DEF Unpacked
  <2>3. IsDir(e) <=> inode'[tree'[p]].type = "dir"
    BY <1>1, <2>1 DEF Unpacked, Plain, IsLayerRoot
  <2> QED
    BY <2>1, <2>2, <2>3
<1> QED
  BY <1>2, <1>3, <1>4

LEMMA TimesStep ==
  ASSUME Listed, TreeInv, DirInv, NodeInv, TimesInv, NEW e \in Entries, Advances(e)
  PROVE  TimesInv'
<1> DEFINE p == e.path
           new == <<p, e.slash>>
<1>0. PICK l : l = Len(tar) + 1
  OBVIOUS
<1>1. tar' = Append(tar, e) /\ nodes' = Append(nodes, tree'[p]) /\ Unpacked(e)
  BY DEF Advances
<1>2. /\ \A j \in DOMAIN tar : j # l /\ j \in DOMAIN tar' /\ tar'[j] = tar[j] /\ nodes'[j] = nodes[j]
      /\ \A j \in DOMAIN tar' : j \in DOMAIN tar \/ j = l
      /\ Len(tar) \in Nat /\ DOMAIN tar = 1 .. Len(tar) /\ DOMAIN tar' = 1 .. l
      /\ tar'[l] = e /\ nodes'[l] = tree'[p]
  BY <1>0, <1>1, ListedStep
<1>3. TreeInv' /\ NodeInv'
  BY TreeStep, NodeStep
<1>4. ASSUME NEW j \in DOMAIN tar PROVE (Timed(j)' <=> Timed(j)) /\ TimeOf(j)' = TimeOf(j)
  BY <1>2 DEF Timed, TimeOf
<1>5. (Timed(l)' <=> Plain(e) /\ IsDir(e) /\ p # Root) /\ TimeOf(l)' = new
  BY <1>2 DEF Timed, TimeOf
<1>6. l \in DOMAIN tar' /\ \A j \in DOMAIN tar' : j <= l
  BY <1>0, <1>2
<1>7. /\ Timed(l)' => /\ DOMAIN dirTimes' = DOMAIN dirTimes \cup {new} /\ dirTimes'[new] = e.label
                      /\ \A k \in DOMAIN dirTimes \ {new} : dirTimes'[k] = dirTimes[k]
      /\ ~ Timed(l)' => dirTimes' = dirTimes
  BY <1>1, <1>5 DEF Unpacked
<1>8. ASSUME NEW j \in DOMAIN tar', Timed(j)' PROVE TimeOf(j)' \in DOMAIN dirTimes'
  <2>1. CASE j = l
    BY <1>5, <1>7, <1>8, <2>1
  <2>2. CASE j \in DOMAIN tar
    <3>1. TimeOf(j)' \in DOMAIN dirTimes
      BY <1>4, <1>8, <2>2 DEF TimesInv
    <3> QED
      BY <1>7, <3>1
  <2> QED
    BY <1>2, <2>1, <2>2
<1>9. ASSUME NEW k \in DOMAIN dirTimes'
      PROVE  \E j \in DOMAIN tar' : Timed(j)' /\ k = TimeOf(j)' /\ dirTimes'[k] = tar'[j].label /\ IsLastSpelled(j)'
  <2>1. CASE Timed(l)' /\ k = new
    <3>1. IsLastSpelled(l)'
      BY <1>6 DEF IsLastSpelled
    <3> QED
      BY <1>2, <1>5, <1>6, <1>7, <2>1, <3>1
  <2>2. CASE ~ (Timed(l)' /\ k = new)
    <3>1. k \in DOMAIN dirTimes /\ dirTimes'[k] = dirTimes[k]
      BY <1>7, <2>2
    <3>2. PICK j \in DOMAIN tar : Timed(j) /\ k = TimeOf(j) /\ dirTimes[k] = tar[j].label /\ IsLastSpelled(j)
      BY <3>1 DEF TimesInv
    <3>3. j \in DOMAIN tar' /\ Timed(j)' /\ k = TimeOf(j)' /\ dirTimes'[k] = tar'[j].label
      BY <1>2, <1>4, <3>1, <3>2
    \* Another entry for the directory with this spelling would be the time kept now.
    <3>4. ASSUME Plain(tar'[l]), nodes'[l] = nodes'[j], tar'[l].slash = tar'[j].slash PROVE FALSE
      <4>1. Plain(tar'[j]) /\ IsDir(tar'[j]) /\ tar'[j].path # Root
        BY <3>3 DEF Timed
      <4>2. nodes'[j] = tree'[tar'[j].path] /\ inode'[nodes'[j]].type = "dir" /\ tar'[j].path \in DOMAIN tree'
        BY <1>3, <3>3, <4>1 DEF NodeInv
      <4>3. p \in DOMAIN tree' /\ tree'[p] = tree'[tar'[j].path]
        BY <1>1, <1>2, <3>4, <4>2 DEF Unpacked
      <4>4. p = tar'[j].path
        BY <1>3, <4>2, <4>3 DEF TreeInv, At
      <4>5. IsDir(tar'[l])
        BY <1>3, <1>6, <3>4, <4>2 DEF NodeInv
      <4>6. Timed(l)' /\ k = new
        BY <1>2, <1>5, <3>3, <3>4, <4>1, <4>4, <4>5 DEF TimeOf
      <4> QED
        BY <2>2, <4>6
    <3>5. IsLastSpelled(j)'
      <4> SUFFICES ASSUME NEW m \in DOMAIN tar', Plain(tar'[m]), nodes'[m] = nodes'[j], tar'[m].slash = tar'[j].slash
                   PROVE  m <= j
        BY DEF IsLastSpelled
      <4>1. m \in DOMAIN tar
        BY <1>2, <3>4
      <4>2. Plain(tar[m]) /\ nodes[m] = nodes[j] /\ tar[m].slash = tar[j].slash
        BY <1>2, <4>1
      <4> QED
        BY <3>2, <4>1, <4>2 DEF IsLastSpelled
    <3> QED
      BY <3>3, <3>5
  <2> QED
    BY <2>1, <2>2
<1> QED
  BY <1>8, <1>9 DEF TimesInv

LEMMA OwnerStep ==
  ASSUME Listed, TreeInv, DirInv, NodeInv, OwnerInv, NEW e \in Entries, Advances(e)
  PROVE  OwnerInv'
<1> DEFINE p == e.path
           Right(i, node, root) ==
             /\ node.owner = i.label
             /\ node.type # "dir" => node.time = i.label
             /\ node.type = "dir" /\ i.path = Root => root = i.label
<1>1. tar' = Append(tar, e) /\ nodes' = Append(nodes, tree'[p]) /\ Unpacked(e)
  BY DEF Advances
<1> SUFFICES ASSUME ~ LinksOfSymlinks', NEW i \in DOMAIN tar', Plain(tar'[i]), IsLast(i)',
                    inode'[nodes'[i]].type # "whiteout"
             PROVE  Right(tar'[i], inode'[nodes'[i]], rootTime')
  BY DEF OwnerInv
<1>2. /\ \A j \in DOMAIN tar : j \in DOMAIN tar' /\ tar'[j] = tar[j] /\ nodes'[j] = nodes[j]
      /\ i \in DOMAIN tar \/ i = Len(tar) + 1
      /\ Len(tar) \in Nat /\ DOMAIN tar = 1 .. Len(tar) /\ DOMAIN tar' = 1 .. Len(tar) + 1
      /\ tar'[Len(tar) + 1] = e /\ nodes'[Len(tar) + 1] = tree'[p]
  BY <1>1, ListedStep
<1>3. CASE i \in DOMAIN tar
  <2> DEFINE id == nodes[i]
  <2>1. tar'[i] = tar[i] /\ nodes'[i] = id /\ Plain(tar[i])
    BY <1>2, <1>3
  <2>2. ~ (Plain(e) /\ id = tree'[p])
    <3> SUFFICES ASSUME Plain(e), id = tree'[p] PROVE FALSE
      OBVIOUS
    <3>1. Len(tar) + 1 \in DOMAIN tar'
      BY <1>2
    <3>2. Len(tar) + 1 <= i
      BY <1>2, <2>1, <3>1 DEF IsLast
    <3> QED
      BY <1>2, <1>3, <3>2
  <2>3. IsLast(i)
    <3> SUFFICES ASSUME NEW j \in DOMAIN tar, Plain(tar[j]), nodes[j] = nodes[i] PROVE j <= i
      BY DEF IsLast
    <3>1. j \in DOMAIN tar' /\ Plain(tar'[j]) /\ nodes'[j] = nodes'[i]
      BY <1>2, <2>1
    <3> QED
      BY <3>1 DEF IsLast
  <2>4. /\ id \in DOMAIN inode
        /\ IsDir(tar[i]) <=> inode[id].type = "dir"
        /\ IsDir(tar[i]) => tar[i].path \in DOMAIN tree /\ id = tree[tar[i].path]
    BY <1>3, <2>1 DEF NodeInv
  <2>5. /\ inode'[id].type = inode[id].type /\ inode'[id].owner = inode[id].owner
        /\ inode[id].type # "dir" => inode'[id].time = inode[id].time
    BY <1>1, <2>2, <2>4 DEF Unpacked
  <2>6. Right(tar[i], inode[id], rootTime)
    <3>1. ~ LinksOfSymlinks
      BY <1>1, LinksStep
    <3>2. inode[id].type # "whiteout"
      BY <2>1, <2>5
    <3> HIDE DEF id
    <3> QED
      BY <1>3, <2>1, <2>3, <3>1, <3>2 DEF OwnerInv, id
  <2>7. ASSUME inode[id].type = "dir" PROVE ~ (Plain(e) /\ p = tar[i].path)
    <3> SUFFICES ASSUME Plain(e), p = tar[i].path PROVE FALSE
      OBVIOUS
    <3>1. p \in DOMAIN tree /\ id = tree[p] /\ At(p).type = "dir"
      BY <2>4, <2>7 DEF At
    <3>2. tree'[p] = tree[p]
      BY <3>1, NodesKept
    <3> QED
      BY <2>2, <3>1, <3>2
  <2>8. ASSUME inode[id].type = "dir", tar[i].path = Root PROVE rootTime' = rootTime
    BY <1>1, <2>7, <2>8 DEF Unpacked
  <2> HIDE DEF id
  <2> QED
    BY <2>1, <2>5, <2>6, <2>8
<1>4. CASE i = Len(tar) + 1
  <2> DEFINE n == inode'[tree'[p]]
  <2>1. tar'[i] = e /\ nodes'[i] = tree'[p] /\ Plain(e)
    BY <1>2, <1>4
  <2>2. n.owner = e.label /\ (n.type # "dir" => n.time = e.label)
    BY <1>1, <2>1 DEF Unpacked
  <2>3. n.type = "dir" <=> p = Root \/ IsDir(e)
    BY <1>1, <2>1 DEF Unpacked, Plain
  <2>4. p = Root => rootTime' = e.label
    BY <1>1, <2>1 DEF Unpacked
  <2> HIDE DEF n
  <2>5. inode'[nodes'[i]] = n
    BY <2>1 DEF n
  <2> QED
    BY <2>1, <2>2, <2>3, <2>4, <2>5
<1> QED
  BY <1>2, <1>3, <1>4

LEMMA EntriesStep ==
  ASSUME Listed, EntriesInv, NEW e \in Entries, Advances(e)
  PROVE  EntriesInv'
BY TreeStep, DirStep, OpaqueStep, WhiteoutStep, SymlinkStep, NodeStep, TimesStep, OwnerStep DEF EntriesInv

-----------------------------------------------------------------------------
(* The actions *)

LEMMA UpdatedFacts ==
  ASSUME NEW f, NEW g
  PROVE  /\ DOMAIN Updated(g, f) = DOMAIN f \cup DOMAIN g
         /\ \A x \in DOMAIN f : Updated(g, f)[x] = f[x]
         /\ \A x \in DOMAIN g : x \notin DOMAIN f => Updated(g, f)[x] = g[x]
BY DEF Updated

\* What binding a path does.
LEMMA BindFacts ==
  ASSUME Listed, TreeInv, DirInv, NEW e \in Entries, NEW node,
         DOMAIN node = NodeFields, e.path # Root, Makeable(e.path),
         Bind(e.path, node)
  PROVE  LET p == e.path IN
         /\ DOMAIN tree' = DOMAIN tree \cup Above(p) \cup {p}
         /\ tree'[p] = Fresh(p)
         /\ \A q \in DOMAIN tree : q # p => tree'[q] = tree[q]
         /\ \A q \in DOMAIN tree' \ DOMAIN tree : q # p =>
              tree'[q] = Fresh(q) /\ Fresh(q) \in DOMAIN inode' /\ inode'[Fresh(q)] = NewDir
         /\ \A q \in Above(p) \cap DOMAIN tree : At(q).type = "dir"
         /\ \A i \in DOMAIN inode' : i \notin DOMAIN inode => i[2] = Len(tar) + 1 /\ DOMAIN inode'[i] = NodeFields
         /\ \A i \in DOMAIN inode :
              /\ i \in DOMAIN inode' /\ DOMAIN inode'[i] = NodeFields /\ inode'[i].type = inode[i].type
              /\ inode'[i].opaque = inode[i].opaque
              /\ inode'[i].owner = inode[i].owner
              /\ inode[i].type # "dir" => inode'[i].time = inode[i].time
         /\ Fresh(p) \in DOMAIN inode' /\ inode'[Fresh(p)] = node
<1> DEFINE p == e.path
           M == Missing(p)
           N == M \cup {p}
           grown == {tree[Front(q)] : q \in {r \in N : Exists(Front(r))}}
           new == {Fresh(q) : q \in N}
           t == [q \in N |-> Fresh(q)]
           f == [i \in new |-> IF i = Fresh(p) THEN node ELSE NewDir]
           g == [i \in DOMAIN inode |-> IF i \in grown THEN [inode[i] EXCEPT !.time = 0] ELSE inode[i]]
<1>1. Len(tar) \in Nat
  BY DEF Listed
<1>2. /\ \A q : Fresh(q) \notin DOMAIN inode /\ Fresh(q)[2] = Len(tar) + 1
      /\ \A q, r : Fresh(q) = Fresh(r) => q = r
  BY <1>1, FreshFacts DEF TreeInv
<1>3. p \notin Above(p) /\ \A q \in Above(p) \cup {p} : q # Root => Front(q) \in Above(p)
  BY EntryFacts, AboveFacts
<1>4. M = Above(p) \ DOMAIN tree
  BY DEF Missing, Exists
<1>5. \A q \in Above(p) \cap DOMAIN tree : At(q).type = "dir"
  BY DEF Makeable, Exists
<1>6. Root \in DOMAIN tree
  BY DEF DirInv
<1>7. ASSUME NEW i \in grown PROVE i \in DOMAIN inode /\ inode[i].type = "dir"
  <2>1. PICK q \in N : Exists(Front(q)) /\ i = tree[Front(q)]
    OBVIOUS
  <2>2. q # Root /\ q \in Above(p) \cup {p}
    BY <1>4, <1>6, <2>1
  <2>3. Front(q) \in Above(p) \cap DOMAIN tree
    BY <1>3, <2>1, <2>2 DEF Exists
  <2>4. At(Front(q)).type = "dir"
    BY <1>5, <2>3
  <2> QED
    BY <2>1, <2>3, <2>4 DEF At, TreeInv
<1>8. tree' = Updated(tree, t) /\ inode' = Updated(g, f)
  BY DEF Bind
<1>9. /\ DOMAIN t = N /\ \A q \in N : t[q] = Fresh(q)
      /\ DOMAIN f = new /\ DOMAIN g = DOMAIN inode
      /\ \A i \in DOMAIN inode : g[i] = IF i \in grown THEN [inode[i] EXCEPT !.time = 0] ELSE inode[i]
  OBVIOUS
<1>10. /\ N = M \cup {p} /\ \A q \in N : Fresh(q) \in new /\ f[Fresh(q)] = IF q = p THEN node ELSE NewDir
       /\ \A i \in new : \E q \in N : i = Fresh(q)
  BY <1>2
<1> HIDE DEF M, N, grown, new, t, f, g, p
<1>11. /\ DOMAIN tree' = DOMAIN tree \cup N /\ \A q \in N : tree'[q] = Fresh(q)
       /\ \A q \in DOMAIN tree : q \notin N => tree'[q] = tree[q]
  <2>1. /\ DOMAIN Updated(tree, t) = DOMAIN t \cup DOMAIN tree
        /\ \A x \in DOMAIN t : Updated(tree, t)[x] = t[x]
        /\ \A x \in DOMAIN tree : x \notin DOMAIN t => Updated(tree, t)[x] = tree[x]
    BY UpdatedFacts
  <2> QED
    BY <1>8, <1>9, <2>1
<1>12. /\ DOMAIN inode' = DOMAIN inode \cup new /\ \A i \in new : inode'[i] = f[i]
       /\ \A i \in DOMAIN inode : i \notin new => inode'[i] = g[i]
  <2>1. /\ DOMAIN Updated(g, f) = DOMAIN f \cup DOMAIN g
        /\ \A x \in DOMAIN f : Updated(g, f)[x] = f[x]
        /\ \A x \in DOMAIN g : x \notin DOMAIN f => Updated(g, f)[x] = g[x]
    BY UpdatedFacts
  <2> QED
    BY <1>8, <1>9, <2>1
<1>13. \A q \in N : Fresh(q) \in DOMAIN inode' /\ inode'[Fresh(q)] = IF q = p THEN node ELSE NewDir
  BY <1>10, <1>12
<1>14. ASSUME NEW i \in DOMAIN inode
       PROVE  inode'[i] = IF i \in grown THEN [inode[i] EXCEPT !.time = 0] ELSE inode[i]
  <2>1. i \notin new
    BY <1>2, <1>10
  <2> QED
    BY <1>9, <1>12, <2>1
<1>15. ASSUME NEW i \in DOMAIN inode
       PROVE  /\ i \in DOMAIN inode' /\ DOMAIN inode'[i] = NodeFields /\ inode'[i].type = inode[i].type
              /\ inode'[i].opaque = inode[i].opaque
              /\ inode'[i].owner = inode[i].owner
              /\ inode[i].type # "dir" => inode'[i].time = inode[i].time
  <2>1. DOMAIN inode[i] = NodeFields
    BY DEF TreeInv
  <2>2. CASE i \in grown
    <3>1. inode'[i] = [inode[i] EXCEPT !.time = 0] /\ inode[i].type = "dir"
      BY <1>7, <1>14, <2>2
    <3> QED
      BY <1>12, <2>1, <3>1 DEF NodeFields
  <2>3. CASE i \notin grown
    BY <1>12, <1>14, <2>1, <2>3
  <2> QED
    BY <2>2, <2>3
<1>16. ASSUME NEW i \in DOMAIN inode', i \notin DOMAIN inode PROVE i[2] = Len(tar) + 1 /\ DOMAIN inode'[i] = NodeFields
  <2>1. PICK q \in N : i = Fresh(q)
    BY <1>10, <1>12, <1>16
  <2>2. DOMAIN NewDir = NodeFields
    BY DEF NewDir, NodeFields
  <2> QED
    BY <1>2, <1>13, <2>1, <2>2
<1>17. DOMAIN tree' = DOMAIN tree \cup Above(p) \cup {p}
  BY <1>4, <1>10, <1>11
<1>18. \A q \in DOMAIN tree' \ DOMAIN tree : q # p => q \in N
  BY <1>11
<1>19. \A q \in DOMAIN tree : q # p => q \notin N
  BY <1>4, <1>10
<1>20. p \in N
  BY <1>10
<1> QED
  BY <1>5, <1>11, <1>13, <1>15, <1>16, <1>17, <1>18, <1>19, <1>20 DEF p

\* The target of a link is no symbolic link.
LEMMA LinkTarget ==
  ASSUME Listed, SymlinkInv, NEW e \in Entries, tar' = Append(tar, e), ~ LinksOfSymlinks',
         e.type = "hardlink", e.link \in DOMAIN tree
  PROVE  At(e.link).type # "symlink" /\ Followed(e.link) = e.link
<1>1. /\ \A i \in DOMAIN tar : i \in DOMAIN tar' /\ tar'[i] = tar[i]
      /\ Len(tar) + 1 \in DOMAIN tar' /\ tar'[Len(tar) + 1] = e
  BY AppendProperties DEF Listed
<1>2. ASSUME At(e.link).type = "symlink" PROVE FALSE
  <2>1. PICK j \in DOMAIN tar : tar[j].type = "symlink" /\ tar[j].path = e.link
    BY <1>2, LinksStep DEF SymlinkInv
  <2> QED
    BY <1>1, <2>1 DEF LinksOfSymlinks
<1> QED
  BY <1>2 DEF Followed

\* The facts the actions start from.
LEMMA TreeFacts ==
  ASSUME Listed, TreeInv, DirInv
  PROVE  /\ Root \in DOMAIN tree /\ At(Root).type = "dir"
         /\ \A q \in DOMAIN tree : tree[q] \in DOMAIN inode
         /\ \A i \in DOMAIN inode : DOMAIN inode[i] = NodeFields
         /\ \A q, r \in DOMAIN tree : tree[q] = tree[r] /\ At(q).type = "dir" => q = r
         /\ DOMAIN NewDir = NodeFields
BY DEF TreeInv, DirInv, NewDir, NodeFields

\* What is above something that is there is there.
LEMMA AboveThere ==
  ASSUME Listed, TreeInv, NEW p \in DOMAIN tree
  PROVE  Above(p) \subseteq DOMAIN tree
<1> DEFINE N == PathsOf(tar, "plain") \cup PathsOf(tar, "whiteout")
<1>1. DOMAIN tree = {Root} \cup N \cup UNION {Above(q) : q \in N}
  BY DEF TreeInv, Covered
<1>2. Above(Root) = {}
  BY DEF Above, Root
<1>3. ASSUME NEW q \in N PROVE \A r \in Above(q) : Above(r) \subseteq Above(q)
  <2>1. PICK i \in DOMAIN tar : q = tar[i].path
    BY DEF PathsOf
  <2>2. tar[i] \in Entries
    BY DEF Listed
  <2> QED
    BY <2>1, <2>2, EntryFacts, AboveFacts
<1> HIDE DEF N
<1>4. CASE p \in N
  BY <1>1, <1>4
<1>5. ASSUME NEW q \in N, p \in Above(q) PROVE Above(p) \subseteq DOMAIN tree
  BY <1>1, <1>3, <1>5
<1> QED
  BY <1>1, <1>2, <1>4, <1>5

LEMMA WhiteoutAdvances ==
  ASSUME Listed, EntriesInv, NEW e \in Entries, Whiteout(e), unpackPc' = "entries"
  PROVE  Unpacked(e)
<1> DEFINE p == e.path
           node == [NewDir EXCEPT !.type = "whiteout"]
<1>1. TreeInv /\ DirInv
  BY DEF EntriesInv
<1>2. /\ e.name = "whiteout" /\ Makeable(p) /\ p \notin DOMAIN tree /\ Bind(p, node)
      /\ dirTimes' = dirTimes /\ rootTime' = rootTime
  BY DEF Whiteout, Read, Failed, Exists
<1>3. p # Root
  BY <1>1, <1>2, TreeFacts
<1>4. DOMAIN node = NodeFields /\ node.type = "whiteout"
  BY DEF NewDir, NodeFields
<1> HIDE DEF node
<1>5. ~ Plain(e) /\ e.name # "plain" /\ e.name # "opaque"
  BY <1>2 DEF Plain
<1>6. /\ DOMAIN tree' = DOMAIN tree \cup Above(p) \cup {p}
      /\ tree'[p] = Fresh(p) /\ Fresh(p) \in DOMAIN inode' /\ inode'[Fresh(p)] = node
      /\ \A q \in DOMAIN tree : q # p => tree'[q] = tree[q]
      /\ \A q \in DOMAIN tree' \ DOMAIN tree : q # p =>
           tree'[q] = Fresh(q) /\ Fresh(q) \in DOMAIN inode' /\ inode'[Fresh(q)] = NewDir
      /\ \A q \in Above(p) \cap DOMAIN tree : At(q).type = "dir"
  BY <1>1, <1>2, <1>3, <1>4, BindFacts
<1>7. /\ \A i \in DOMAIN inode' : i \notin DOMAIN inode => i[2] = Len(tar) + 1 /\ DOMAIN inode'[i] = NodeFields
      /\ \A i \in DOMAIN inode :
           /\ i \in DOMAIN inode' /\ DOMAIN inode'[i] = NodeFields /\ inode'[i].type = inode[i].type
           /\ inode'[i].opaque = inode[i].opaque
           /\ inode'[i].owner = inode[i].owner
           /\ inode[i].type # "dir" => inode'[i].time = inode[i].time
  BY <1>1, <1>2, <1>3, <1>4, BindFacts
<1>8. \A q \in DOMAIN tree : q # p
  BY <1>2
<1> HIDE DEF p
<1> QED
  BY <1>2, <1>3, <1>4, <1>5, <1>6, <1>7, <1>8 DEF Unpacked, p

LEMMA OpaqueAdvances ==
  ASSUME Listed, EntriesInv, NEW e \in Entries, OpaqueDir(e), unpackPc' = "entries"
  PROVE  Unpacked(e)
<1> DEFINE p == e.path
<1>1. TreeInv /\ DirInv
  BY DEF EntriesInv
<1>2. /\ e.name = "opaque" /\ p \in DOMAIN tree /\ At(p).type # "symlink"
      /\ inode' = [inode EXCEPT ![tree[p]].opaque = @ \/ attr = "all"]
      /\ tree' = tree /\ dirTimes' = dirTimes /\ rootTime' = rootTime
  BY DEF OpaqueDir, Read, Failed, Exists
<1>3. ~ Plain(e) /\ e.name # "plain" /\ e.name # "whiteout"
  BY <1>2 DEF Plain
<1>4. tree[p] \in DOMAIN inode /\ DOMAIN inode[tree[p]] = NodeFields
  BY <1>1, <1>2, TreeFacts
<1>5. DOMAIN inode' = DOMAIN inode
  BY <1>2
<1>6. /\ DOMAIN inode'[tree[p]] = NodeFields
      /\ inode'[tree[p]].type = inode[tree[p]].type /\ inode'[tree[p]].owner = inode[tree[p]].owner
      /\ inode'[tree[p]].time = inode[tree[p]].time
      /\ inode'[tree[p]].opaque <=> inode[tree[p]].opaque \/ attr = "all"
  BY <1>2, <1>4 DEF NodeFields
<1>7. \A i \in DOMAIN inode : i # tree[p] => inode'[i] = inode[i]
  BY <1>2
<1>8. inode[tree[p]].type # "symlink" /\ At(p) = inode[tree[p]]
  BY <1>2 DEF At
<1>9. \A i \in DOMAIN inode : DOMAIN inode[i] = NodeFields
  BY <1>1, TreeFacts
<1> HIDE DEF p
<1>10. \A i \in DOMAIN inode :
       /\ i \in DOMAIN inode' /\ DOMAIN inode'[i] = NodeFields /\ inode'[i].type = inode[i].type
       /\ inode'[i].opaque <=> inode[i].opaque \/ (i = tree'[p] /\ attr = "all")
       /\ inode'[i].owner = inode[i].owner
       /\ inode'[i].time = inode[i].time
  BY <1>2, <1>4, <1>5, <1>6, <1>7, <1>9
<1> QED
  BY <1>2, <1>3, <1>4, <1>5, <1>8, <1>10 DEF Unpacked, p

LEMMA RootAdvances ==
  ASSUME Listed, EntriesInv, NEW e \in Entries, RootEntry(e)
  PROVE  Unpacked(e)
<1> DEFINE p == e.path
           id == tree[Root]
<1>1. TreeInv /\ DirInv
  BY DEF EntriesInv
<1>2. /\ e.name = "plain" /\ p = Root /\ tree' = tree /\ dirTimes' = dirTimes
      /\ IF IsDir(e) THEN inode' = [inode EXCEPT ![tree[Root]] = Owned(@, e.label)] /\ rootTime' = e.label
                     ELSE inode' = inode /\ rootTime' = rootTime
  BY DEF RootEntry, IsWhiteout, IsLayerRoot
<1>3. Plain(e) <=> IsDir(e)
  BY <1>2 DEF Plain, IsLayerRoot
<1>4. /\ Root \in DOMAIN tree /\ id \in DOMAIN inode /\ inode[id].type = "dir"
      /\ \A i \in DOMAIN inode : DOMAIN inode[i] = NodeFields
  BY <1>1, TreeFacts DEF At
<1>5. Above(p) = {}
  BY <1>2 DEF Above, Root
<1>6. ASSUME IsDir(e)
      PROVE  /\ DOMAIN inode' = DOMAIN inode /\ \A i \in DOMAIN inode : i # id => inode'[i] = inode[i]
             /\ DOMAIN inode'[id] = NodeFields /\ inode'[id].type = "dir" /\ inode'[id].opaque = inode[id].opaque
             /\ inode'[id].owner = e.label
  BY <1>2, <1>4, <1>6 DEF Owned, NodeFields
<1> HIDE DEF p, id
<1>7. /\ DOMAIN inode' = DOMAIN inode /\ inode'[id].type = "dir"
      /\ \A i \in DOMAIN inode :
           /\ DOMAIN inode'[i] = NodeFields /\ inode'[i].type = inode[i].type
           /\ inode'[i].opaque = inode[i].opaque
           /\ ~ (Plain(e) /\ i = id) => inode'[i].owner = inode[i].owner
           /\ inode[i].type # "dir" => inode'[i].time = inode[i].time
      /\ Plain(e) => inode'[id].owner = e.label
  BY <1>2, <1>3, <1>4, <1>6
<1>8. tree'[p] = id /\ p \in DOMAIN tree
  BY <1>2, <1>4 DEF id
<1>9. rootTime' = IF Plain(e) /\ p = Root THEN e.label ELSE rootTime
  BY <1>2, <1>3
<1>10. e.name # "opaque" /\ e.name # "whiteout"
  BY <1>2
<1>11. DOMAIN tree' = DOMAIN tree \cup Above(p) \cup {p}
  BY <1>2, <1>5, <1>8
<1>12. e.name = "plain" /\ p = Root /\ tree' = tree /\ dirTimes' = dirTimes
  BY <1>2
<1>13. \A i \in DOMAIN inode :
       /\ i \in DOMAIN inode' /\ DOMAIN inode'[i] = NodeFields /\ inode'[i].type = inode[i].type
       /\ inode[i].type = "dir" =>
            (inode'[i].opaque <=> inode[i].opaque \/ (e.name = "opaque" /\ i = tree'[p] /\ attr = "all"))
       /\ ~ LinksOfSymlinks' /\ ~ (Plain(e) /\ i = tree'[p]) =>
            /\ inode'[i].owner = inode[i].owner
            /\ inode[i].type # "dir" => inode'[i].time = inode[i].time
  BY <1>7, <1>8, <1>10
<1>14. tree'[p] \in DOMAIN inode /\ tree'[p] \in DOMAIN inode' /\ inode'[tree'[p]].type = "dir"
       /\ (Plain(e) => inode'[tree'[p]].owner = e.label) /\ At(p).type = "dir"
  BY <1>4, <1>7, <1>8, <1>12 DEF At, id
<1> QED
  BY <1>5, <1>7, <1>8, <1>9, <1>10, <1>11, <1>12, <1>13, <1>14 DEF Unpacked, p

LEMMA DirectoryAdvances ==
  ASSUME Listed, EntriesInv, NEW e \in Entries, Directory(e), unpackPc' = "entries"
  PROVE  Unpacked(e)
<1> DEFINE p == e.path
<1>1. TreeInv /\ DirInv
  BY DEF EntriesInv
<1>2. /\ e.name = "plain" /\ p # Root /\ IsDir(e) /\ Makeable(p) /\ (p \in DOMAIN tree => At(p).type = "dir")
      /\ IF p \in DOMAIN tree
         THEN inode' = [inode EXCEPT ![tree[p]] = Owned(@, e.label)] /\ tree' = tree
         ELSE Bind(p, Owned(NewDir, e.label))
      /\ dirTimes' = Updated(dirTimes, [k \in {<<p, e.slash>>} |-> e.label]) /\ rootTime' = rootTime
  BY DEF Directory, Extracted, Failed, Exists, IsWhiteout, IsLayerRoot
<1>3. Plain(e) /\ e.name # "whiteout" /\ e.name # "opaque"
  BY <1>2 DEF Plain, IsLayerRoot
<1>4. /\ DOMAIN dirTimes' = DOMAIN dirTimes \cup {<<p, e.slash>>} /\ dirTimes'[<<p, e.slash>>] = e.label
      /\ \A k \in DOMAIN dirTimes \ {<<p, e.slash>>} : dirTimes'[k] = dirTimes[k]
  BY <1>2 DEF Updated
<1>5. CASE p \in DOMAIN tree
  <2> DEFINE id == tree[p]
  <2>1. /\ id \in DOMAIN inode /\ inode[id].type = "dir" /\ \A i \in DOMAIN inode : DOMAIN inode[i] = NodeFields
    BY <1>1, <1>2, <1>5, TreeFacts DEF At
  <2>2. Above(p) \subseteq DOMAIN tree /\ \A q \in Above(p) : At(q).type = "dir"
    <3>1. \A q \in Above(p) \cap DOMAIN tree : At(q).type = "dir"
      BY <1>2 DEF Makeable, Exists
    <3>2. Above(p) \subseteq DOMAIN tree
      BY <1>1, <1>5, AboveThere
    <3> QED
      BY <3>1, <3>2
  <2>3. /\ DOMAIN inode' = DOMAIN inode /\ \A i \in DOMAIN inode : i # id => inode'[i] = inode[i]
        /\ DOMAIN inode'[id] = NodeFields /\ inode'[id].type = "dir" /\ inode'[id].opaque = inode[id].opaque
        /\ inode'[id].owner = e.label
    BY <1>2, <1>5, <2>1 DEF Owned, NodeFields
  <2>4. tree' = tree /\ tree'[p] = id
    BY <1>2, <1>5
  <2> HIDE DEF p, id
  <2>5. \A i \in DOMAIN inode :
           /\ DOMAIN inode'[i] = NodeFields /\ inode'[i].type = inode[i].type
           /\ inode'[i].opaque = inode[i].opaque
           /\ i # id => inode'[i].owner = inode[i].owner
           /\ inode[i].type # "dir" => inode'[i].time = inode[i].time
    BY <2>1, <2>3
  <2> QED
    BY <1>2, <1>3, <1>4, <1>5, <2>1, <2>2, <2>3, <2>4, <2>5 DEF Unpacked, p
<1>6. CASE p \notin DOMAIN tree
  <2> DEFINE node == Owned(NewDir, e.label)
  <2>1. DOMAIN node = NodeFields /\ node.type = "dir" /\ ~ node.opaque /\ node.owner = e.label
    BY DEF Owned, NewDir, NodeFields
  <2>2. Bind(p, node)
    BY <1>2, <1>6
  <2> HIDE DEF node
  <2>6. /\ DOMAIN tree' = DOMAIN tree \cup Above(p) \cup {p}
        /\ tree'[p] = Fresh(p) /\ Fresh(p) \in DOMAIN inode' /\ inode'[Fresh(p)] = node
        /\ \A q \in DOMAIN tree : q # p => tree'[q] = tree[q]
        /\ \A q \in DOMAIN tree' \ DOMAIN tree : q # p =>
             tree'[q] = Fresh(q) /\ Fresh(q) \in DOMAIN inode' /\ inode'[Fresh(q)] = NewDir
        /\ \A q \in Above(p) \cap DOMAIN tree : At(q).type = "dir"
    BY <1>1, <1>2, <2>1, <2>2, BindFacts
  <2>7. /\ \A i \in DOMAIN inode' : i \notin DOMAIN inode => i[2] = Len(tar) + 1 /\ DOMAIN inode'[i] = NodeFields
        /\ \A i \in DOMAIN inode :
             /\ i \in DOMAIN inode' /\ DOMAIN inode'[i] = NodeFields /\ inode'[i].type = inode[i].type
             /\ inode'[i].opaque = inode[i].opaque
             /\ inode'[i].owner = inode[i].owner
             /\ inode[i].type # "dir" => inode'[i].time = inode[i].time
    BY <1>1, <1>2, <2>1, <2>2, BindFacts
  <2>8. \A q \in DOMAIN tree : q # p
    BY <1>6
  <2> HIDE DEF p
  <2> QED
    BY <1>2, <1>3, <1>4, <1>6, <2>1, <2>6, <2>7, <2>8 DEF Unpacked, p
<1> QED
  BY <1>5, <1>6

LEMMA FileAdvances ==
  ASSUME Listed, EntriesInv, NEW e \in Entries, FileOrSymlink(e), unpackPc' = "entries"
  PROVE  Unpacked(e)
<1> DEFINE p == e.path
           node == [NewDir EXCEPT !.type = e.type, !.owner = e.label, !.time = e.label, !.to = e.link,
                                  !.mode = IF e.type = "file" THEN e.label ELSE 0]
<1>1. TreeInv /\ DirInv
  BY DEF EntriesInv
<1>2. /\ e.name = "plain" /\ p # Root /\ ~ IsDir(e) /\ e.type \in {"file", "symlink"}
      /\ Makeable(p) /\ (p \in DOMAIN tree => At(p).type # "dir")
      /\ Bind(p, node) /\ dirTimes' = dirTimes /\ rootTime' = rootTime
  BY DEF FileOrSymlink, Extracted, Failed, Exists, IsWhiteout, IsLayerRoot
<1>3. Plain(e) /\ e.name # "whiteout" /\ e.name # "opaque"
  BY <1>2 DEF Plain, IsLayerRoot
<1>4. DOMAIN node = NodeFields /\ node.type = e.type /\ node.owner = e.label /\ node.time = e.label
  BY DEF NewDir, NodeFields
<1> HIDE DEF node
<1>5. e.type # "dir" /\ e.type # "whiteout"
  BY <1>2
<1>6. /\ DOMAIN tree' = DOMAIN tree \cup Above(p) \cup {p}
      /\ tree'[p] = Fresh(p) /\ Fresh(p) \in DOMAIN inode' /\ inode'[Fresh(p)] = node
      /\ \A q \in DOMAIN tree : q # p => tree'[q] = tree[q]
      /\ \A q \in DOMAIN tree' \ DOMAIN tree : q # p =>
           tree'[q] = Fresh(q) /\ Fresh(q) \in DOMAIN inode' /\ inode'[Fresh(q)] = NewDir
      /\ \A q \in Above(p) \cap DOMAIN tree : At(q).type = "dir"
  BY <1>1, <1>2, <1>4, BindFacts
<1>7. /\ \A i \in DOMAIN inode' : i \notin DOMAIN inode => i[2] = Len(tar) + 1 /\ DOMAIN inode'[i] = NodeFields
      /\ \A i \in DOMAIN inode :
           /\ i \in DOMAIN inode' /\ DOMAIN inode'[i] = NodeFields /\ inode'[i].type = inode[i].type
           /\ inode'[i].opaque = inode[i].opaque
           /\ inode'[i].owner = inode[i].owner
           /\ inode[i].type # "dir" => inode'[i].time = inode[i].time
  BY <1>1, <1>2, <1>4, BindFacts
<1>8. \A q \in DOMAIN tree : q # p \/ At(q).type = "dir" => q # p
  BY <1>2
<1> HIDE DEF p
<1> QED
  BY <1>2, <1>3, <1>4, <1>5, <1>6, <1>7, <1>8 DEF Unpacked, p

LEMMA LinkAdvances ==
  ASSUME Listed, EntriesInv, NEW e \in Entries, HardLink(e), unpackPc' = "entries"
  PROVE  Unpacked(e)
<1> DEFINE p == e.path
           to == Followed(e.link)
           M == Missing(p)
           N == M \cup {p}
           t == [q \in N |-> IF q = p THEN tree[e.link] ELSE Fresh(q)]
           new == {Fresh(q) : q \in M}
           f == [i \in new |-> NewDir]
           IsGrown(i) == \E q \in N : Exists(Front(q)) /\ i = tree[Front(q)]
           g == [i \in DOMAIN inode |->
                   IF i = tree[to] THEN [inode[i] EXCEPT !.owner = e.label, !.time = e.label]
                   ELSE IF IsGrown(i) THEN [inode[i] EXCEPT !.time = 0] ELSE inode[i]]
<1>1. TreeInv /\ DirInv /\ SymlinkInv /\ Len(tar) \in Nat
  BY DEF EntriesInv, Listed
<1>2. /\ e.name = "plain" /\ p # Root /\ ~ IsDir(e) /\ e.type = "hardlink" /\ tar' = Append(tar, e)
      /\ Makeable(p) /\ p \notin DOMAIN tree /\ e.link \in DOMAIN tree /\ At(e.link).type # "dir" /\ to \in DOMAIN tree
      /\ tree' = Updated(tree, t) /\ inode' = Updated(g, f)
      /\ dirTimes' = dirTimes /\ rootTime' = rootTime
  BY DEF HardLink, Extracted, Read, Failed, Exists, Linkable, IsWhiteout, IsLayerRoot
<1>3. Plain(e) /\ e.name # "whiteout" /\ e.name # "opaque"
  BY <1>2 DEF Plain, IsLayerRoot
<1>4. /\ \A q : Fresh(q) \notin DOMAIN inode /\ Fresh(q)[2] = Len(tar) + 1
      /\ \A q, r : Fresh(q) = Fresh(r) => q = r
  BY <1>1, FreshFacts DEF TreeInv
<1>5. p \notin Above(p) /\ \A q \in Above(p) \cup {p} : q # Root => Front(q) \in Above(p)
  BY EntryFacts, AboveFacts
<1>6. M = Above(p) \ DOMAIN tree
  BY DEF Missing, Exists
<1>7. \A q \in Above(p) \cap DOMAIN tree : At(q).type = "dir"
  BY <1>2 DEF Makeable, Exists
<1>8. /\ Root \in DOMAIN tree /\ \A q \in DOMAIN tree : tree[q] \in DOMAIN inode
      /\ \A i \in DOMAIN inode : DOMAIN inode[i] = NodeFields
      /\ DOMAIN NewDir = NodeFields
  BY <1>1, TreeFacts
<1>9. ASSUME NEW i \in DOMAIN inode, IsGrown(i) PROVE inode[i].type = "dir"
  <2>1. PICK q \in N : Exists(Front(q)) /\ i = tree[Front(q)]
    BY <1>9
  <2>2. q # Root /\ q \in Above(p) \cup {p}
    BY <1>2, <1>6, <1>8, <2>1
  <2>3. Front(q) \in Above(p) \cap DOMAIN tree
    BY <1>5, <2>1, <2>2 DEF Exists
  <2> QED
    BY <1>7, <2>1, <2>3 DEF At
<1>10. /\ DOMAIN t = N /\ t[p] = tree[e.link] /\ \A q \in M : t[q] = Fresh(q)
  BY <1>5, <1>6
<1>11. /\ DOMAIN f = new /\ \A i \in new : f[i] = NewDir
       /\ \A q \in M : Fresh(q) \in new
       /\ \A i \in new : \E q \in M : i = Fresh(q)
  OBVIOUS
<1>12. ASSUME NEW i \in DOMAIN inode
       PROVE  /\ DOMAIN g[i] = NodeFields /\ g[i].type = inode[i].type /\ g[i].opaque = inode[i].opaque
              /\ i # tree[to] => g[i].owner = inode[i].owner /\ (inode[i].type # "dir" => g[i].time = inode[i].time)
              /\ i = tree[to] => g[i].owner = e.label /\ g[i].time = e.label
  <2>1. DOMAIN inode[i] = NodeFields
    BY <1>8
  <2>2. CASE i = tree[to]
    <3>1. g[i] = [inode[i] EXCEPT !.owner = e.label, !.time = e.label]
      BY <2>2
    <3> HIDE DEF g
    <3> QED
      BY <2>1, <2>2, <3>1 DEF NodeFields
  <2>3. CASE i # tree[to] /\ IsGrown(i)
    <3>1. g[i] = [inode[i] EXCEPT !.time = 0]
      BY <2>3
    <3>2. inode[i].type = "dir"
      BY <1>9, <2>3
    <3> HIDE DEF g
    <3> QED
      BY <2>1, <2>3, <3>1, <3>2 DEF NodeFields
  <2>4. CASE i # tree[to] /\ ~ IsGrown(i)
    <3>1. g[i] = inode[i]
      BY <2>4
    <3> HIDE DEF g
    <3> QED
      BY <2>1, <2>4, <3>1
  <2> QED
    BY <2>2, <2>3, <2>4
<1>13. DOMAIN g = DOMAIN inode
  OBVIOUS
<1>14. N = M \cup {p}
  OBVIOUS
<1> HIDE DEF M, N, new, t, f, g, p, to
<1>15. /\ DOMAIN tree' = DOMAIN tree \cup N /\ tree'[p] = tree[e.link] /\ \A q \in M : tree'[q] = Fresh(q)
       /\ \A q \in DOMAIN tree : tree'[q] = tree[q]
  <2>1. /\ DOMAIN Updated(tree, t) = DOMAIN t \cup DOMAIN tree
        /\ \A x \in DOMAIN t : Updated(tree, t)[x] = t[x]
        /\ \A x \in DOMAIN tree : x \notin DOMAIN t => Updated(tree, t)[x] = tree[x]
    BY UpdatedFacts
  <2>2. \A q \in DOMAIN tree : q \notin N
    BY <1>2, <1>6, <1>14
  <2>3. p \in N /\ M \subseteq N
    BY <1>14
  <2> QED
    BY <1>2, <1>10, <2>1, <2>2, <2>3
<1>16. /\ DOMAIN inode' = DOMAIN inode \cup new /\ \A i \in new : inode'[i] = NewDir
       /\ \A i \in DOMAIN inode : inode'[i] = g[i]
  <2>1. /\ DOMAIN Updated(g, f) = DOMAIN f \cup DOMAIN g
        /\ \A x \in DOMAIN f : Updated(g, f)[x] = f[x]
        /\ \A x \in DOMAIN g : x \notin DOMAIN f => Updated(g, f)[x] = g[x]
    BY UpdatedFacts
  <2>2. \A i \in DOMAIN inode : i \notin new
    BY <1>4, <1>11
  <2> QED
    BY <1>2, <1>11, <1>13, <2>1, <2>2
<1>17. DOMAIN tree' = DOMAIN tree \cup Above(p) \cup {p}
  BY <1>6, <1>14, <1>15
<1>18. \A q \in DOMAIN tree' \ DOMAIN tree : q # p =>
         tree'[q] = Fresh(q) /\ Fresh(q) \in DOMAIN inode' /\ inode'[Fresh(q)] = NewDir
  BY <1>11, <1>14, <1>15, <1>16
<1>19. \A i \in DOMAIN inode' : i \notin DOMAIN inode => i[2] = Len(tar) + 1 /\ DOMAIN inode'[i] = NodeFields
  BY <1>4, <1>8, <1>11, <1>16
<1>20. tree[e.link] \in DOMAIN inode /\ inode'[tree[e.link]].type = At(e.link).type
  BY <1>2, <1>8, <1>12, <1>16 DEF At
<1>21. ~ LinksOfSymlinks' => to = e.link
  BY <1>1, <1>2, LinkTarget DEF to
<1>22. \A i \in DOMAIN inode :
       /\ i \in DOMAIN inode' /\ DOMAIN inode'[i] = NodeFields /\ inode'[i].type = inode[i].type
       /\ inode'[i].opaque = inode[i].opaque
       /\ ~ LinksOfSymlinks' /\ i # tree[e.link] =>
            inode'[i].owner = inode[i].owner /\ (inode[i].type # "dir" => inode'[i].time = inode[i].time)
  BY <1>12, <1>16, <1>21
<1>23. ~ LinksOfSymlinks' => inode'[tree[e.link]].owner = e.label /\ inode'[tree[e.link]].time = e.label
  BY <1>12, <1>16, <1>20, <1>21
<1>24. p \in DOMAIN tree' /\ p \notin DOMAIN tree
  BY <1>2, <1>17
<1> QED
  <2>1. /\ e.name = "plain" /\ p # Root /\ ~ IsDir(e) /\ e.type = "hardlink" /\ e.link \in DOMAIN tree
        /\ At(e.link).type # "dir" /\ dirTimes' = dirTimes /\ rootTime' = rootTime
    BY <1>2
  <2> QED
    BY <1>3, <1>7, <1>15, <1>17, <1>18, <1>19, <1>20, <1>22, <1>23, <1>24, <2>1 DEF Unpacked, p

-----------------------------------------------------------------------------
(* The end of the archive *)

LEMMA ShownIsMeant ==
  ASSUME Listed, EntriesInv, LinksOfEntries, attr = "all" \/ NoOpaque
  PROVE  Shown = Meant
<1> DEFINE P == PathsOf(tar, "plain")
           W == PathsOf(tar, "whiteout")
           O == PathsOf(tar, "opaque")
           V == PathsOver(tar) \ {Root}
           A == UNION {Above(q) : q \in P \cup W}
           D == DOMAIN tree
           L == DOMAIN LowerTree
           type(q) == At(q).type
<1>1. D = {Root} \cup P \cup A \cup W
  BY DEF EntriesInv, TreeInv, Covered
<1>2. /\ \A q \in {Root} \cup PathsOfDirs(tar) \cup A : q \in D /\ At(q).type = "dir"
      /\ \A q \in V \cup W : At(q).type # "dir"
      /\ O \subseteq D
  BY DEF EntriesInv, DirInv
<1>3. \A q \in D : At(q).type = "whiteout" <=> q \in W \ P
  BY DEF EntriesInv, WhiteoutInv
<1>4. O # {} => attr = "all"
  BY DEF PathsOf, NoOpaque
<1>5. \A q \in D : At(q).type = "dir" => (At(q).opaque <=> q \in O)
  <2>1. \A q \in D : At(q).type = "dir" => (At(q).opaque <=> attr = "all" /\ q \in O)
    BY DEF EntriesInv, OpaqueInv
  <2> QED
    BY <1>4, <2>1
<1>6. P \subseteq PathsOfDirs(tar) \cup PathsOver(tar)
  BY DEF PathsOf, PathsOfDirs, PathsOver
<1>7. PathsOver(tar) \subseteq P
  BY DEF PathsOf, PathsOver
<1> DEFINE S == {p \in D : At(p).type # "whiteout"}
           B == {p \in L : ~ Exists(p) /\ \A q \in Above(p) : Exists(q) => At(q).type = "dir" /\ ~ At(q).opaque}
           M == {p \in L : p \notin W \cup P /\ Above(p) \cap (W \cup O \cup V) = {}}
<1>8. /\ Shown = S \cup B
      /\ \A x : x \in S <=> x \in D /\ At(x).type # "whiteout"
      /\ \A x : x \in B <=> x \in L /\ x \notin D /\ (\A q \in Above(x) : q \in D => At(q).type = "dir" /\ ~ At(q).opaque)
  BY DEF Shown, Exists
<1>9. /\ Meant = {Root} \cup P \cup A \cup M
      /\ \A x : x \in M <=> x \in L /\ x \notin W \cup P /\ Above(x) \cap (W \cup O \cup V) = {}
  <2>1. Meant = {Root} \cup P \cup A \cup M
    BY DEF Meant
  <2> HIDE DEF P, W, O, V, A, L
  <2>2. \A x : x \in M <=> x \in L /\ x \notin W \cup P /\ Above(x) \cap (W \cup O \cup V) = {}
    OBVIOUS
  <2> QED
    BY <2>1, <2>2
<1>10. V = PathsOver(tar) \ {Root}
  OBVIOUS
<1> HIDE DEF P, W, O, V, A, D, L, S, B, M
<1>11. ASSUME NEW x \in D PROVE At(x).type # "whiteout" <=> x = Root \/ x \in P \/ x \in A
  <2>1. x \in A \/ x = Root => At(x).type # "whiteout"
    BY <1>2
  <2> QED
    BY <1>1, <1>3, <2>1
<1>12. ASSUME NEW q \in D PROVE At(q).type = "dir" /\ ~ At(q).opaque <=> q \notin W \cup O \cup V
  <2>1. CASE q \in W \cup V
    BY <1>2, <2>1
  <2>2. CASE q \notin W \cup V
    <3>1. q \in {Root} \cup PathsOfDirs(tar) \cup A
      BY <1>1, <1>6, <1>10, <2>2
    <3> QED
      BY <1>2, <1>5, <2>2, <3>1
  <2> QED
    BY <2>1, <2>2
<1>13. W \cup O \cup V \subseteq D
  BY <1>1, <1>2, <1>7, <1>10
<1>14. ASSUME NEW x
       PROVE  (\A q \in Above(x) : q \in D => At(q).type = "dir" /\ ~ At(q).opaque)
                <=> Above(x) \cap (W \cup O \cup V) = {}
  BY <1>12, <1>13
<1>15. ASSUME NEW x PROVE x \in Shown <=> x \in Meant
  <2>1. CASE x \in D
    <3>1. x \in Shown <=> x = Root \/ x \in P \/ x \in A
      BY <1>8, <1>11, <2>1
    <3>2. x \notin W \cup P => x = Root \/ x \in A
      BY <1>1, <2>1
    <3> QED
      BY <1>9, <3>1, <3>2
  <2>2. CASE x \notin D
    <3>1. x # Root /\ x \notin P /\ x \notin A /\ x \notin W
      BY <1>1, <2>2
    <3> QED
      BY <1>8, <1>9, <1>14, <2>2, <3>1
  <2> QED
    BY <2>1, <2>2
<1> QED
  BY <1>15

LEMMA StepOfEnd ==
  ASSUME Listed, EntriesInv, EndOfArchive
  PROVE  MetadataOfLastEntry' /\ OverlayShowsArchive'
<1> DEFINE timed == {k[1] : k \in DOMAIN dirTimes}
<1>0. PICK spelled \in [timed -> BOOLEAN] :
        /\ \A p \in timed : <<p, spelled[p]>> \in DOMAIN dirTimes
        /\ inode' = [i \in DOMAIN inode |->
             IF i = tree[Root] /\ rootTime # 0 THEN [inode[i] EXCEPT !.time = rootTime]
             ELSE IF \E p \in timed : tree[p] = i
             THEN LET p == CHOOSE q \in timed : tree[q] = i IN
                  [inode[i] EXCEPT !.time = dirTimes[<<p, spelled[p]>>]]
             ELSE inode[i]]
  BY DEF EndOfArchive
<1> DEFINE first(i) == CHOOSE q \in timed : tree[q] = i
           last(i) == IF i = tree[Root] /\ rootTime # 0 THEN [inode[i] EXCEPT !.time = rootTime]
                      ELSE IF \E p \in timed : tree[p] = i
                      THEN [inode[i] EXCEPT !.time = dirTimes[<<first(i), spelled[first(i)]>>]]
                      ELSE inode[i]
<1>1. /\ inode' = [i \in DOMAIN inode |-> last(i)]
      /\ attr' = attr /\ tar' = tar /\ nodes' = nodes /\ tree' = tree
  BY <1>0 DEF EndOfArchive
<1>2. /\ Root \in DOMAIN tree /\ At(Root).type = "dir"
      /\ \A q \in DOMAIN tree : tree[q] \in DOMAIN inode
      /\ \A i \in DOMAIN inode : DOMAIN inode[i] = NodeFields
      /\ \A q, r \in DOMAIN tree : tree[q] = tree[r] /\ At(q).type = "dir" => q = r
  BY TreeFacts DEF EntriesInv
<1>3. \A i \in DOMAIN inode : inode'[i] = last(i)
  BY <1>1
<1>4. ASSUME NEW i \in DOMAIN inode
      PROVE  last(i).type = inode[i].type /\ last(i).owner = inode[i].owner /\ last(i).opaque = inode[i].opaque
  <2>1. DOMAIN inode[i] = NodeFields
    BY <1>2
  <2>2. \E x : last(i) = [inode[i] EXCEPT !.time = x] \/ last(i) = inode[i]
    OBVIOUS
  <2> HIDE DEF last
  <2> QED
    BY <2>1, <2>2 DEF NodeFields
<1>5. \A q \in DOMAIN tree : At(q)'.type = At(q).type /\ At(q)'.owner = At(q).owner /\ At(q)'.opaque = At(q).opaque
  BY <1>1, <1>2, <1>3, <1>4 DEF At
\* The times that are kept, and those of the directories below the layer's own.
<1>6. ASSUME NEW k \in DOMAIN dirTimes
      PROVE  \E j \in DOMAIN tar :
               /\ Plain(tar[j]) /\ IsLastSpelled(j) /\ dirTimes[k] = tar[j].label
               /\ k[1] \in DOMAIN tree /\ k[1] # Root /\ At(k[1]).type = "dir" /\ nodes[j] = tree[k[1]]
  <2>1. PICK j \in DOMAIN tar : Timed(j) /\ k = TimeOf(j) /\ dirTimes[k] = tar[j].label /\ IsLastSpelled(j)
    BY DEF EntriesInv, TimesInv
  <2>2. Plain(tar[j]) /\ IsDir(tar[j]) /\ k[1] = tar[j].path /\ k[1] # Root
    BY <2>1 DEF Timed, TimeOf
  <2>3. k[1] \in DOMAIN tree /\ nodes[j] = tree[k[1]] /\ inode[nodes[j]].type = "dir"
    BY <2>2 DEF EntriesInv, NodeInv
  <2> QED
    BY <2>1, <2>2, <2>3 DEF At
<1>7. ASSUME NEW p \in timed
      PROVE  \E j \in DOMAIN tar :
               /\ Plain(tar[j]) /\ IsLastSpelled(j) /\ dirTimes[<<p, spelled[p]>>] = tar[j].label
               /\ p \in DOMAIN tree /\ p # Root /\ At(p).type = "dir" /\ nodes[j] = tree[p]
  <2>1. <<p, spelled[p]>> \in DOMAIN dirTimes /\ <<p, spelled[p]>>[1] = p
    BY <1>0
  <2> QED
    BY <1>6, <2>1
<1>8. ASSUME NEW j \in DOMAIN tar, Plain(tar[j]), IsDir(tar[j]), tar[j].path # Root PROVE tar[j].path \in timed
  <2>1. TimeOf(j) \in DOMAIN dirTimes /\ TimeOf(j)[1] = tar[j].path
    BY <1>8 DEF EntriesInv, TimesInv, Timed, TimeOf
  <2> QED
    BY <2>1
<1> HIDE DEF timed
<1>9. MetadataOfLastEntry'
  <2> SUFFICES ASSUME ~ LinksOfSymlinks, NEW p \in DOMAIN tree, NEW i \in DOMAIN tar,
                      At(p)'.type # "whiteout", Plain(tar[i]), nodes[i] = tree[p], IsLast(i)
               PROVE  /\ At(p)'.owner = tar[i].label
                      /\ At(p)'.type # "dir" \/ p = Root => At(p)'.time = tar[i].label
                      /\ \E j \in DOMAIN tar : /\ Plain(tar[j]) /\ nodes[j] = nodes[i] /\ IsLastSpelled(j)
                                               /\ At(p)'.time = tar[j].label
    BY <1>1 DEF MetadataOfLastEntry, LinksOfSymlinks, IsLast, IsLastSpelled
  <2> DEFINE id == tree[p]
             r == tar[i].path
             label == tar[i].label
  <2>0. IsLastSpelled(i)
    BY DEF IsLast, IsLastSpelled
  <2>1. At(p).type # "whiteout" /\ inode[id] = At(p) /\ id \in DOMAIN inode
    BY <1>2, <1>5 DEF At
  <2>2. /\ At(p).owner = label
        /\ At(p).type # "dir" => At(p).time = label
        /\ At(p).type = "dir" /\ r = Root => rootTime = label
    BY <2>1 DEF EntriesInv, OwnerInv
  <2>3. At(p)'.time = last(id).time
    BY <1>1, <1>3, <2>1 DEF At
  <2>4. CASE At(p).type = "dir"
    <3>1. IsDir(tar[i])
      BY <2>1, <2>4 DEF EntriesInv, NodeInv
    <3>2. r \in DOMAIN tree /\ nodes[i] = tree[r]
      BY <3>1 DEF EntriesInv, NodeInv
    <3>3. r = p
      BY <1>2, <2>4, <3>2
    <3>4. tar[i] \in Entries
      BY DEF Listed
    <3>5. label \in Nat \ {0}
      BY <3>4, EntryFacts
    <3>6. CASE r = Root
      <4>1. rootTime = label /\ rootTime # 0 /\ id = tree[Root]
        BY <2>1, <2>2, <2>4, <3>3, <3>5, <3>6
      <4>2. last(id) = [inode[id] EXCEPT !.time = label]
        BY <4>1
      <4>3. DOMAIN inode[id] = NodeFields
        BY <1>2, <2>1
      <4> HIDE DEF last, id
      <4>4. last(id).time = label
        BY <4>2, <4>3 DEF NodeFields
      <4> QED
        BY <1>5, <2>0, <2>2, <2>3, <4>4
    <3>7. CASE r # Root
      <4>1. id # tree[Root]
        BY <1>2, <3>3, <3>7
      <4>2. p \in timed
        BY <1>8, <3>1, <3>3, <3>7
      <4>3. \A q \in timed : tree[q] = id => q = p
        BY <1>2, <1>7
      <4>4. first(id) = p
        BY <4>2, <4>3
      <4>5. last(id) = [inode[id] EXCEPT !.time = dirTimes[<<p, spelled[p]>>]]
        BY <4>1, <4>2, <4>4
      <4>6. DOMAIN inode[id] = NodeFields
        BY <1>2, <2>1
      <4>7. PICK j \in DOMAIN tar : /\ Plain(tar[j]) /\ IsLastSpelled(j)
                                    /\ dirTimes[<<p, spelled[p]>>] = tar[j].label /\ nodes[j] = tree[p]
        BY <1>7, <4>2
      <4>8. At(p)'.type = "dir" /\ p # Root /\ nodes[i] = tree[p]
        BY <1>5, <2>4, <3>3, <3>7
      <4>9. At(p)'.owner = label
        BY <1>5, <2>2
      <4> HIDE DEF last, first, id
      <4>10. At(p)'.time = tar[j].label
        BY <2>3, <4>5, <4>6, <4>7 DEF NodeFields
      <4> QED
        BY <4>7, <4>8, <4>9, <4>10
    <3> QED
      BY <3>6, <3>7
  <2>5. CASE At(p).type # "dir"
    <3>1. id # tree[Root]
      BY <1>2, <2>5 DEF At
    <3>2. \A q \in timed : q \in DOMAIN tree /\ At(q).type = "dir"
      BY <1>7
    <3>3. ~ \E q \in timed : tree[q] = id
      BY <2>5, <3>2 DEF At
    <3>4. last(id) = inode[id]
      BY <3>1, <3>3
    <3> HIDE DEF last, id
    <3> QED
      BY <1>5, <2>0, <2>1, <2>2, <2>3, <2>5, <3>4
  <2> QED
    BY <2>4, <2>5
<1>10. OverlayShowsArchive'
  <2> SUFFICES ASSUME attr = "all" \/ NoOpaque, LinksOfEntries
               PROVE  Shown' = Meant'
    BY <1>1 DEF OverlayShowsArchive, LinksOfEntries, NoOpaque
  <2>1. Shown = Meant
    BY ShownIsMeant
  <2>2. Meant' = Meant
    BY <1>1 DEF Meant
  <2>3. Shown' = Shown
    <3> DEFINE S == {q \in DOMAIN tree : At(q).type # "whiteout"}
               B == {x \in DOMAIN LowerTree : ~ Exists(x) /\ \A q \in Above(x) : Exists(q) => At(q).type = "dir" /\ ~ At(q).opaque}
    <3>1. S' = S
      BY <1>1, <1>5
    <3>2. B' = B
      BY <1>1, <1>5 DEF Exists
    <3> QED
      BY <3>1, <3>2 DEF Shown
  <2> QED
    BY <2>1, <2>2, <2>3
<1> QED
  BY <1>9, <1>10

-----------------------------------------------------------------------------
(* An archive in order *)

\* What an archive in order says of its last entry, and of those before.
LEMMA OrderFacts ==
  ASSUME Listed, NEW e \in Entries, tar' = Append(tar, e), InOrder'
  PROVE  /\ e.legal
         /\ e.path # Root => Above(e.path) \subseteq PathsOfDirs(tar) \cup {Root}
         /\ e.name = "opaque" => e.path \in PathsOfDirs(tar) \cup {Root}
         /\ e.name = "whiteout" => e.path # Root
         /\ e.type = "hardlink" => e.link \in PathsOf(tar, "plain") \ (PathsOfDirs(tar) \cup {Root})
         /\ e.path # Root /\ e.name # "opaque" => e.path \notin PathsOf(tar, "plain") \cup PathsOf(tar, "whiteout")
         /\ \A q \in PathsOf(tar, "plain") \cup PathsOf(tar, "whiteout") : Above(q) \subseteq PathsOfDirs(tar) \cup {Root}
<1> DEFINE l == Len(tar) + 1
           B(i) == SubSeq(tar', 1, i - 1)
           D(i) == PathsOfDirs(B(i)) \cup {Root}
<1>1. /\ tar \in Seq(Entries) /\ Len(tar) \in Nat /\ DOMAIN tar = 1 .. Len(tar) /\ DOMAIN tar' = 1 .. l /\ tar'[l] = e
      /\ tar' \in Seq(Entries) /\ Len(tar') = l /\ \A i \in DOMAIN tar : i \in DOMAIN tar' /\ tar'[i] = tar[i] /\ i # l
  BY AppendProperties DEF Listed
<1>2. ASSUME NEW i \in DOMAIN tar'
      PROVE  /\ tar'[i].legal
             /\ tar'[i].path # Root => Above(tar'[i].path) \subseteq D(i)
             /\ tar'[i].name = "opaque" => tar'[i].path \in D(i)
             /\ tar'[i].name = "whiteout" => tar'[i].path # Root
             /\ tar'[i].type = "hardlink" => tar'[i].link \in PathsOf(B(i), "plain") \ D(i)
  BY DEF InOrder
<1>3. ASSUME NEW i \in DOMAIN tar, tar'[i].path = e.path, e.path # Root, e.name # "opaque", tar'[i].name # "opaque" PROVE FALSE
  BY <1>1, <1>3 DEF InOrder
<1>4. ASSUME NEW i \in DOMAIN tar'
      PROVE  /\ B(i) \in Seq(Entries) /\ Len(B(i)) = i - 1 /\ DOMAIN B(i) = 1 .. i - 1
             /\ \A j \in 1 .. i - 1 : j \in DOMAIN tar /\ B(i)[j] = tar[j]
  BY <1>1, SubSeqProperties
<1>5. B(l) = tar
  <2>1. l \in DOMAIN tar' /\ l - 1 = Len(tar)
    BY <1>1
  <2>2. B(l) \in Seq(Entries) /\ Len(B(l)) = Len(tar) /\ \A j \in 1 .. Len(tar) : B(l)[j] = tar[j]
    BY <1>4, <2>1
  <2> HIDE DEF B, l
  <2> QED
    BY <1>1, <2>2
<1>6. ASSUME NEW i \in DOMAIN tar' PROVE D(i) \subseteq PathsOfDirs(tar) \cup {Root}
  BY <1>4 DEF PathsOfDirs
<1>7. l \in DOMAIN tar'
  BY <1>1
<1> HIDE DEF l, B
<1>8. /\ e.legal
      /\ e.path # Root => Above(e.path) \subseteq PathsOfDirs(tar) \cup {Root}
      /\ e.name = "opaque" => e.path \in PathsOfDirs(tar) \cup {Root}
      /\ e.name = "whiteout" => e.path # Root
      /\ e.type = "hardlink" => e.link \in PathsOf(tar, "plain") \ (PathsOfDirs(tar) \cup {Root})
  BY <1>1, <1>2, <1>5, <1>7
<1>9. e.path # Root /\ e.name # "opaque" => e.path \notin PathsOf(tar, "plain") \cup PathsOf(tar, "whiteout")
  BY <1>1, <1>3 DEF PathsOf
<1>10. ASSUME NEW q \in PathsOf(tar, "plain") \cup PathsOf(tar, "whiteout") PROVE Above(q) \subseteq PathsOfDirs(tar) \cup {Root}
  <2>1. PICK i \in DOMAIN tar : tar[i].path = q
    BY DEF PathsOf
  <2>2. CASE q = Root
    BY <2>2 DEF Above, Root
  <2>3. CASE q # Root
    BY <1>1, <1>2, <1>6, <2>1, <2>3
  <2> QED
    BY <2>2, <2>3
<1> QED
  BY <1>8, <1>9, <1>10

\* An entry that fails is one that is out of order.
LEMMA StepOfFailure ==
  ASSUME Listed, EntriesInv, unpackPc = "entries", NEW e \in Entries, UnpackEntry(e), unpackPc' = "failed",
         InOrder', ~ LinksOfSymlinks', attr' # "user" \/ NoOpaque', attr \in {"none", "user", "all"}
  PROVE  FALSE
<1> DEFINE p == e.path
           dirs == PathsOfDirs(tar) \cup {Root}
           P == PathsOf(tar, "plain")
           W == PathsOf(tar, "whiteout")
           A == UNION {Above(q) : q \in P \cup W}
<1>1. tar' = Append(tar, e)
  BY DEF UnpackEntry, IllegalEntry, Whiteout, OpaqueDir, RootEntry, Directory, FileOrSymlink, HardLink, Extracted, Read
<1>2. /\ e.legal
      /\ p # Root => Above(p) \subseteq dirs
      /\ e.name = "opaque" => p \in dirs
      /\ e.name = "whiteout" => p # Root
      /\ e.type = "hardlink" => e.link \in P \ dirs
      /\ p # Root /\ e.name # "opaque" => p \notin P \cup W
      /\ \A q \in P \cup W : Above(q) \subseteq dirs
  BY <1>1, OrderFacts
<1>3. \A q \in dirs : q \in DOMAIN tree /\ At(q).type = "dir"
  BY DEF EntriesInv, DirInv
<1>4. DOMAIN tree = {Root} \cup P \cup A \cup W
  BY DEF EntriesInv, TreeInv, Covered
<1>5. A \subseteq dirs
  BY <1>2
<1>6. PathsOfDirs(tar) \subseteq P
  BY DEF PathsOfDirs, PathsOf
<1>7. \A q \in P \ dirs : q \in DOMAIN tree /\ At(q).type # "dir"
  <2>1. P \ dirs \subseteq PathsOver(tar) \ {Root}
    BY DEF PathsOf, PathsOver, PathsOfDirs
  <2> QED
    BY <1>4, <2>1 DEF EntriesInv, DirInv
<1> HIDE DEF p, dirs, P, W, A
<1>8. p # Root => Makeable(p)
  BY <1>2, <1>3 DEF Makeable
<1>9. p # Root /\ e.name # "opaque" => p \notin DOMAIN tree
  <2> SUFFICES ASSUME p # Root, p \notin P \cup W, p \in A PROVE FALSE
    BY <1>2, <1>4
  <2>1. p \in PathsOfDirs(tar)
    BY <1>5 DEF dirs
  <2> QED
    BY <1>6, <2>1
<1>10. CASE IllegalEntry(e)
  BY <1>2, <1>10 DEF IllegalEntry
<1>11. CASE Whiteout(e)
  <2>1. e.name = "whiteout" /\ ~ (Makeable(p) /\ p \notin DOMAIN tree)
    BY <1>11 DEF Whiteout, Exists, p
  <2> QED
    BY <1>2, <1>8, <1>9, <2>1
<1>12. CASE OpaqueDir(e)
  <2>1. /\ e.name = "opaque" /\ attr' = attr
        /\ ~ /\ p \in DOMAIN tree /\ At(p).type # "symlink"
             /\ attr = "none" \/ (attr = "all" /\ At(p).type # "whiteout")
    BY <1>12 DEF OpaqueDir, Exists, Failed, p
  <2>2. attr # "user"
    <3>1. Len(tar) + 1 \in DOMAIN tar' /\ tar'[Len(tar) + 1] = e
      BY <1>1, AppendProperties DEF Listed
    <3>2. ~ NoOpaque'
      BY <2>1, <3>1 DEF NoOpaque
    <3> QED
      BY <2>1, <3>2
  <2>3. p \in DOMAIN tree /\ At(p).type = "dir"
    BY <1>2, <1>3, <2>1
  <2> QED
    BY <2>1, <2>2, <2>3
<1>13. CASE RootEntry(e)
  BY <1>13 DEF RootEntry
<1>14. CASE Directory(e)
  <2>1. e.name = "plain" /\ p # Root /\ ~ (Makeable(p) /\ (p \in DOMAIN tree => At(p).type = "dir"))
    BY <1>14 DEF Directory, Extracted, Exists, IsWhiteout, IsLayerRoot, p
  <2> QED
    BY <1>8, <1>9, <2>1
<1>15. CASE FileOrSymlink(e)
  <2>1. e.name = "plain" /\ p # Root /\ ~ (Makeable(p) /\ (p \in DOMAIN tree => At(p).type # "dir"))
    BY <1>15 DEF FileOrSymlink, Extracted, Exists, IsWhiteout, IsLayerRoot, p
  <2> QED
    BY <1>8, <1>9, <2>1
<1>16. CASE HardLink(e)
  <2>1. /\ e.name = "plain" /\ p # Root /\ e.type = "hardlink"
        /\ ~ (Makeable(p) /\ p \notin DOMAIN tree /\ Linkable(e.link) /\ Exists(Followed(e.link)))
    BY <1>16 DEF HardLink, Extracted, Exists, IsWhiteout, IsLayerRoot, p
  <2>2. e.link \in DOMAIN tree /\ At(e.link).type # "dir"
    BY <1>2, <1>7, <2>1
  <2>3. Followed(e.link) = e.link
    BY <1>1, <2>1, <2>2, LinkTarget DEF EntriesInv
  <2> QED
    BY <1>8, <1>9, <2>1, <2>2, <2>3 DEF Linkable, Exists
<1> QED
  BY <1>10, <1>11, <1>12, <1>13, <1>14, <1>15, <1>16 DEF UnpackEntry

-----------------------------------------------------------------------------
(* Every layer *)

LEMMA StepOfEntry ==
  ASSUME Listed, EntriesInv, unpackPc = "entries",
         attr \in {"none", "user", "all"},
         NEW e \in Entries, UnpackEntry(e), nodes' = Append(nodes, NodeAt(e.path)')
  PROVE  UnpackInv'
<1>1. tar' = Append(tar, e) /\ attr' = attr /\ unpackPc' \in {"entries", "failed"}
  BY DEF UnpackEntry, IllegalEntry, Whiteout, OpaqueDir, RootEntry, Directory, FileOrSymlink, HardLink, Extracted, Read, Failed
<1>2. Listed'
  BY <1>1, ListedStep
<1>3. CASE unpackPc' = "entries"
  <2>1. Unpacked(e)
    <3>1. ~ IllegalEntry(e)
      BY <1>3 DEF IllegalEntry, Failed
    <3> QED
      BY <1>3, <3>1, WhiteoutAdvances, OpaqueAdvances, RootAdvances, DirectoryAdvances, FileAdvances, LinkAdvances DEF UnpackEntry
  <2>2. NodeAt(e.path)' = tree'[e.path]
    BY <2>1 DEF Unpacked, NodeAt, Exists
  <2>3. Advances(e)
    BY <1>1, <2>1, <2>2 DEF Advances
  <2>4. EntriesInv'
    BY <2>3, EntriesStep
  <2>5. LayerIsArchive'
    BY <1>3 DEF LayerIsArchive, MetadataOfLastEntry, OverlayShowsArchive, OrderedIsUnpacked
  <2> QED
    BY <1>1, <1>2, <1>3, <2>4, <2>5 DEF UnpackInv
<1>4. CASE unpackPc' = "failed"
  <2>1. ~ (InOrder' /\ ~ LinksOfSymlinks' /\ (attr' # "user" \/ NoOpaque'))
    BY <1>4, StepOfFailure
  <2>2. LayerIsArchive'
    BY <1>4, <2>1 DEF LayerIsArchive, MetadataOfLastEntry, OverlayShowsArchive, OrderedIsUnpacked
  <2> QED
    BY <1>1, <1>2, <1>4, <2>2 DEF UnpackInv
<1> QED
  BY <1>1, <1>3, <1>4

LEMMA StepOfBegin ==
  ASSUME UnpackInv, NEW a \in {"none", "user", "all"}, BeginUnpack(a)
  PROVE  UnpackInv'
<1>1. /\ tar = <<>> /\ tar' = <<>> /\ nodes' = nodes /\ dirTimes' = <<>> /\ rootTime' = 0
      /\ unpackPc' = "entries" /\ Listed /\ attr' = a
  BY DEF BeginUnpack, UnpackInv
<1>2. /\ DOMAIN tree' = {Root} /\ tree'[Root] = <<Root, 0>> /\ DOMAIN inode' = {<<Root, 0>>} /\ inode'[<<Root, 0>>] = NewDir
  BY DEF BeginUnpack
<1>3. Listed'
  BY <1>1 DEF Listed
<1>4. /\ Len(tar') = 0 /\ DOMAIN tar' = {}
      /\ \A nm : PathsOf(tar', nm) = {}
      /\ PathsOver(tar') = {} /\ PathsOfDirs(tar') = {}
  BY <1>1 DEF PathsOf, PathsOver, PathsOfDirs
<1>5. DOMAIN NewDir = NodeFields /\ NewDir.type = "dir" /\ NewDir.opaque = FALSE
  BY DEF NewDir, NodeFields
<1>6. At(Root)' = NewDir
  BY <1>2 DEF At
<1>7. TreeInv'
  <2>1. DOMAIN tree' = Covered(tar') \cup PathsOf(tar', "whiteout")
    BY <1>2, <1>4 DEF Covered
  <2>2. \A i \in DOMAIN inode' : i[2] \in 0 .. Len(tar') /\ DOMAIN inode'[i] = NodeFields
    BY <1>2, <1>4, <1>5
  <2> QED
    BY <1>2, <2>1, <2>2 DEF TreeInv
<1>8. DirInv'
  BY <1>2, <1>4, <1>5, <1>6 DEF DirInv
<1>9. OpaqueInv' /\ WhiteoutInv' /\ SymlinkInv'
  BY <1>2, <1>4, <1>5, <1>6 DEF OpaqueInv, WhiteoutInv, SymlinkInv
<1>10. NodeInv' /\ TimesInv' /\ OwnerInv'
  BY <1>1, <1>4 DEF NodeInv, TimesInv, OwnerInv
<1>11. LayerIsArchive'
  BY <1>1 DEF LayerIsArchive, MetadataOfLastEntry, OverlayShowsArchive, OrderedIsUnpacked
<1> QED
  BY <1>1, <1>3, <1>7, <1>8, <1>9, <1>10, <1>11 DEF UnpackInv, EntriesInv

\* Whatever the archive, its entries in any order: owner and time of what it names are
\* those of the last entry for it, the overlay shows what it says, and an archive in
\* order is unpacked (stream/unpack.rs).
THEOREM LayersAreArchives == UnpackSpec => []LayerIsArchive
<1>1. UnpackInit => UnpackInv
  <2> SUFFICES ASSUME UnpackInit PROVE UnpackInv
    OBVIOUS
  <2>1. tar = <<>> /\ nodes = <<>> /\ dirTimes = <<>> /\ rootTime = 0 /\ unpackPc = "begin" /\ attr = "none"
    BY DEF UnpackInit
  <2>2. Listed
    <3>1. tar \in Seq(Entries) /\ nodes \in Seq(ToSet(nodes)) /\ Len(nodes) = 0 /\ Len(tar) = 0
      BY <2>1
    <3> QED
      BY <3>1 DEF Listed
  <2> QED
    BY <2>1, <2>2 DEF UnpackInv, LayerIsArchive, MetadataOfLastEntry, OverlayShowsArchive, OrderedIsUnpacked
<1>2. UnpackInv /\ [UnpackNext]_unpackVars => UnpackInv'
  <2> SUFFICES ASSUME UnpackInv, [UnpackNext]_unpackVars PROVE UnpackInv'
    OBVIOUS
  <2>1. ASSUME NEW a \in {"none", "user", "all"}, BeginUnpack(a) PROVE UnpackInv'
    BY <2>1, StepOfBegin
  <2>2. ASSUME NEW e \in Entries, UnpackEntry(e), nodes' = Append(nodes, NodeAt(e.path)') PROVE UnpackInv'
    <3>1. unpackPc = "entries"
      BY <2>2 DEF UnpackEntry, IllegalEntry, Whiteout, OpaqueDir, RootEntry, Directory, FileOrSymlink, HardLink, Extracted, Read
    <3>2. Listed /\ EntriesInv /\ attr \in {"none", "user", "all"}
      BY <3>1 DEF UnpackInv
    <3> QED
      BY <2>2, <3>1, <3>2, StepOfEntry
  <2>3. CASE EndOfArchive
    <3>1. unpackPc = "entries" /\ unpackPc' = "unpacked" /\ tar' = tar /\ nodes' = nodes /\ attr' = attr
      BY <2>3 DEF EndOfArchive
    <3>2. Listed /\ EntriesInv /\ attr \in {"none", "user", "all"}
      BY <3>1 DEF UnpackInv
    <3>3. MetadataOfLastEntry' /\ OverlayShowsArchive'
      BY <2>3, <3>2, StepOfEnd
    <3>4. OrderedIsUnpacked'
      BY <3>1 DEF OrderedIsUnpacked
    <3>5. Listed'
      BY <3>1, <3>2 DEF Listed
    <3> QED
      BY <3>1, <3>3, <3>4, <3>5 DEF UnpackInv, LayerIsArchive
  <2>4. CASE UNCHANGED unpackVars
    <3>1. /\ unpackPc' = unpackPc /\ attr' = attr /\ tar' = tar /\ nodes' = nodes /\ tree' = tree /\ inode' = inode
          /\ dirTimes' = dirTimes /\ rootTime' = rootTime
      BY <2>4 DEF unpackVars
    <3>2. Listed' = Listed
      BY <3>1 DEF Listed
    <3>3. EntriesInv' = EntriesInv
      BY <3>1 DEF EntriesInv, TreeInv, DirInv, OpaqueInv, WhiteoutInv, SymlinkInv, NodeInv, TimesInv, OwnerInv, At, IsLast,
                  IsLastSpelled, Timed, TimeOf, LinksOfEntries, LinksOfSymlinks
    <3>4. LayerIsArchive' = LayerIsArchive
      <4>1. MetadataOfLastEntry' = MetadataOfLastEntry
        BY <3>1 DEF MetadataOfLastEntry, At, IsLast, IsLastSpelled, LinksOfSymlinks
      <4>2. OverlayShowsArchive' = OverlayShowsArchive
        <5>1. Shown' = Shown /\ Meant' = Meant
          BY <3>1 DEF Shown, Meant, At, Exists
        <5> QED
          BY <3>1, <5>1 DEF OverlayShowsArchive, LinksOfEntries, NoOpaque
      <4>3. OrderedIsUnpacked' = OrderedIsUnpacked
        BY <3>1 DEF OrderedIsUnpacked, InOrder, LinksOfSymlinks, NoOpaque
      <4> QED
        BY <4>1, <4>2, <4>3 DEF LayerIsArchive
    <3> QED
      BY <3>1, <3>2, <3>3, <3>4 DEF UnpackInv
  <2> QED
    BY <2>1, <2>2, <2>3, <2>4 DEF UnpackNext
<1>3. UnpackInv => LayerIsArchive
  BY DEF UnpackInv
<1> QED
  BY <1>1, <1>2, <1>3, PTL DEF UnpackSpec
=============================================================================
