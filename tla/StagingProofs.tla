---------------------------- MODULE StagingProofs ----------------------------
(***************************************************************************)
(* Proofs about Staging, for any images and any number of attempts: what   *)
(* is in the staged tree, what the closure of the libraries has found by   *)
(* then, and what decides the new cluster's checksums.                     *)
(***************************************************************************)
EXTENDS Staging, SequenceTheorems, WellFoundedInduction, TLAPS

-----------------------------------------------------------------------------
(* The inductive invariant.                                                *)

Searching == {"read", "search"}
\* The tree is whole, and the job in the new image has it.
Whole     == {"staged", "wrapped", "verified", "initdb", "made"}

Entry == [file : ElfFile, paths : Seq(Directory)]

\* What the search has in hand is files of the image and directories to look in.
SearchTyped ==
    /\ queue \in Seq(Entry)
    /\ needed \in Seq(STRING)
    /\ within \in Seq(Directory)
    /\ read \subseteq ElfFiles
    /\ \A k \in DOMAIN queue : queue[k].file \in image.files

\* A library was found or is still to be looked at.
Candidates == libraries \cup {queue[k].file : k \in DOMAIN queue}

\* But for the roots, which nobody looked for, it is what its name was looked
\* for and found as, once.
FoundOnce ==
    /\ \A f \in Candidates \ ElfFiles : f.name \in seen
    /\ \A f, g \in Candidates \ ElfFiles : f.name = g.name => f = g

LibrariesInv ==
    \A f \in libraries : /\ f \in image.files \ ElfFiles
                         /\ ~IsGlibcCore(f.name) /\ f.dir \notin Below

\* What a file that is read or staged needs was looked for, or is about to be.
Followed ==
    \A f \in read \cup libraries :
        Named(DynamicInfo(f).needs) \subseteq seen \cup Named(needed)

Found == SearchTyped /\ FoundOnce /\ LibrariesInv /\ Followed

\* What copy_tree makes of the directories copied so far.
Mirrored(dirs) == CopyTree(dirs \cup IF "pkglib" \in dirs THEN {"nested"} ELSE {})

StageInv ==
    /\ stage \in {"clear", "copy"} \cup Searching \cup Whole => image \in Image
    /\ stage = "copy" =>
        /\ copied \subseteq Installation /\ tree = Mirrored(copied)
        /\ read = {} /\ queue = <<>> /\ needed = <<>> /\ within = <<>>
        /\ seen = {} /\ lost = {} /\ libraries = {}
    /\ stage \in Searching => tree = Mirrored(Installation) /\ Found
    /\ stage = "search" => read = ElfFiles
    /\ stage \in Whole =>
        /\ tree = Mirrored(Installation) \cup libraries
        /\ libDirs = {f.dir : f \in libraries} \cup {"pkglib"}
        /\ read = ElfFiles /\ queue = <<>> /\ needed = <<>>
        /\ Found

-----------------------------------------------------------------------------
(* The search.                                                             *)

\* A set of numbers has a least one.
LEMMA Least ==
    ASSUME NEW S \in SUBSET Nat, S # {}
    PROVE  \E x \in S : \A y \in S : x <= y
  <1>1. PICK x \in S : \A y \in S : <<y, x>> \notin OpToRel(<, Nat)
    BY NatLessThanWellFounded, WFMin, Zenon
  <1>2. \A y \in S : ~(y < x)
    BY <1>1, Zenon DEF OpToRel
  <1> QED  BY <1>2

\* What is found is a file of the image by that name, in one of the directories.
LEMMA FoundWhere ==
    ASSUME NEW name, NEW paths \in Seq(Directory), FindLibrary(name, paths) # NoFile
    PROVE  LET f == FindLibrary(name, paths)
           IN /\ f \in image.files /\ f.name = name /\ f.kind # "dangling"
              /\ f.dir \in Named(paths) \cup {"usr"}
  <1> DEFINE dirs == paths \o DefaultDirs
             At(k) == {f \in image.files : f.dir = dirs[k] /\ f.name = name
                                                           /\ f.kind # "dangling"}
             hits == {k \in DOMAIN dirs : At(k) # {}}
             first == CHOOSE k \in hits : \A l \in hits : k <= l
  <1>1. /\ DefaultDirs \in Seq(Directory) /\ Len(DefaultDirs) = 1
        /\ DefaultDirs[1] = "usr"
    BY DEF DefaultDirs, Directory
  <1>2. /\ dirs \in Seq(Directory)
        /\ \A k \in DOMAIN dirs : dirs[k] \in Named(paths) \cup {"usr"}
    <2>0. dirs \in Seq(Directory)
      BY <1>1, ConcatProperties
    <2>1. Len(dirs) = Len(paths) + Len(DefaultDirs)
      BY <1>1, ConcatProperties
    <2>2. \A k \in DOMAIN paths : dirs[k] = paths[k]
      BY <1>1, ConcatProperties
    <2>3. dirs[Len(paths) + 1] = "usr"
      BY <1>1, ConcatProperties
    <2>4. \A k \in DOMAIN dirs : k \in DOMAIN paths \/ k = Len(paths) + 1
      <3> HIDE DEF dirs
      <3> QED  BY <1>1, <2>0, <2>1
    <2> HIDE DEF dirs
    <2> QED  BY <2>0, <2>2, <2>3, <2>4 DEF Named
  <1>3. hits # {} /\ FindLibrary(name, paths) = CHOOSE f \in At(first) : TRUE
    BY DEF FindLibrary
  <1>4. hits \in SUBSET Nat
    BY <1>2
  <1> HIDE DEF dirs
  <1>5. \E k \in hits : \A l \in hits : k <= l
    <2> HIDE DEF hits
    <2> QED  BY <1>3, <1>4, Least
  <1>6. first \in hits
    BY <1>5
  <1>7. (CHOOSE f \in At(first) : TRUE) \in At(first)
    <2>1. At(first) # {}
      BY <1>6
    <2> HIDE DEF At, first
    <2> QED  BY <2>1
  <1>8. first \in DOMAIN dirs
    BY <1>6
  <1> HIDE DEF first
  <1> QED  BY <1>2, <1>3, <1>7, <1>8

\* The files of an image are well formed, and so is what is read of them.
LEMMA FileTyped ==
    ASSUME image \in Image, NEW f \in image.files
    PROVE  /\ f \in ElfFile
           /\ DynamicInfo(f).needs \in Seq(STRING)
           /\ DynamicInfo(f).paths \in Seq(Directory)
  <1>1. f \in ElfFile
    BY StagingOK
  <1>2. f.needs \in Seq(STRING) /\ f.paths \in Seq(Directory)
    BY <1>1 DEF ElfFile
  <1>3. <<>> \in Seq(STRING) /\ <<>> \in Seq(Directory)
    OBVIOUS
  <1> QED  BY <1>1, <1>2, <1>3 DEF DynamicInfo

\* The roots of a search that has not begun.
LEMMA NothingFound ==
    ASSUME read = {}, queue = <<>>, needed = <<>>, within = <<>>, seen = {},
           lost = {}, libraries = {}
    PROVE  Found
  <1>1. SearchTyped
    BY DEF SearchTyped
  <1>2. Candidates = {}
    BY DEF Candidates
  <1>3. FoundOnce
    BY <1>2 DEF FoundOnce
  <1>4. LibrariesInv /\ Followed
    BY DEF LibrariesInv, Followed
  <1> QED  BY <1>1, <1>3, <1>4 DEF Found

\* Candidates that are none but roots and those there were are found once too.
LEMMA OnceStill ==
    ASSUME FoundOnce, UNCHANGED image, seen \subseteq seen',
           Candidates' \ ElfFiles \subseteq Candidates
    PROVE  FoundOnce'
  <1>1. ElfFiles' = ElfFiles
    BY DEF ElfFiles
  <1> QED  BY <1>1 DEF FoundOnce

LEMMA ReadRootFinds ==
    ASSUME image \in Image, Found, stage = "read", ReadRoot
    PROVE  Found'
  <1>1. UNCHANGED <<image, seen, libraries>> /\ ElfFiles' = ElfFiles /\ needed = <<>>
    BY DEF ReadRoot, ElfFiles
  <1>2. CASE UNCHANGED <<read, queue, needed, within>>
    BY <1>1, <1>2 DEF Found, SearchTyped, FoundOnce, LibrariesInv, Followed, Candidates
  <1>3. ASSUME NEW r \in ElfFiles,
               read' = read \cup {r},
               queue' = Append(queue, [file |-> r, paths |-> DynamicInfo(r).paths]),
               needed' = DynamicInfo(r).needs, within' = DynamicInfo(r).paths
        PROVE  Found'
    <2>1. r \in image.files /\ r \in ElfFile
          /\ DynamicInfo(r).needs \in Seq(STRING) /\ DynamicInfo(r).paths \in Seq(Directory)
      BY FileTyped DEF ElfFiles
    <2> DEFINE e == [file |-> r, paths |-> DynamicInfo(r).paths]
    <2>2. e \in Entry /\ e.file = r
      BY <2>1 DEF Entry
    <2> HIDE DEF e
    <2>3. queue \in Seq(Entry) /\ queue' = Append(queue, e)
      BY <1>3 DEF Found, SearchTyped, e
    <2>4. /\ queue' \in Seq(Entry)
          /\ \A k \in DOMAIN queue' : queue'[k].file = r \/ (k \in DOMAIN queue /\ queue'[k] = queue[k])
      BY <2>2, <2>3
    <2>5. SearchTyped'
      BY <1>1, <1>3, <2>1, <2>4 DEF Found, SearchTyped
    <2>6. Candidates' \ ElfFiles \subseteq Candidates
      BY <1>1, <1>3, <2>4 DEF Candidates
    <2>7. FoundOnce'
      BY <1>1, <2>6, OnceStill DEF Found
    <2>8. LibrariesInv'
      BY <1>1 DEF Found, LibrariesInv
    <2>9. Followed'
      <3>1. Named(needed) = {}
        BY <1>1 DEF Named
      <3>2. DynamicInfo(r)' = DynamicInfo(r)
        BY DEF DynamicInfo
      <3>3. \A f \in read \cup libraries :
               Named(DynamicInfo(f).needs) \subseteq seen
        BY <3>1 DEF Found, Followed
      <3> QED  BY <1>1, <1>3, <3>2, <3>3 DEF Followed, Named
    <2> QED  BY <2>5, <2>7, <2>8, <2>9 DEF Found
  <1> QED  BY <1>2, <1>3 DEF ReadRoot

LEMMA NextFileFinds ==
    ASSUME image \in Image, Found, stage = "search", NextFile
    PROVE  Found'
  <1> DEFINE e == Head(queue)
  <1>1. /\ queue \in Seq(Entry) /\ queue # <<>> /\ queue' = Tail(queue)
        /\ UNCHANGED <<image, seen, read>> /\ ElfFiles' = ElfFiles /\ needed = <<>>
        /\ \A k \in DOMAIN queue : queue[k].file \in image.files
    BY DEF Found, SearchTyped, NextFile, ElfFiles
  <1>2. /\ queue' \in Seq(Entry)
        /\ \A k \in DOMAIN queue' : k + 1 \in DOMAIN queue /\ queue'[k] = queue[k + 1]
        /\ 1 \in DOMAIN queue /\ e = queue[1]
    BY <1>1
  <1>3. e \in Entry /\ e.file \in image.files
    BY <1>1, <1>2
  <1> HIDE DEF e
  <1>4. /\ e.paths \in Seq(Directory)
        /\ DynamicInfo(e.file).needs \in Seq(STRING)
        /\ DynamicInfo(e.file).paths \in Seq(Directory)
    BY <1>3, FileTyped DEF Entry
  <1>5. \/ UNCHANGED <<needed, within, libraries>>
        \/ /\ needed' = DynamicInfo(e.file).needs
           /\ within' = DynamicInfo(e.file).paths \o e.paths
           /\ ~IsGlibcCore(e.file.name)
           /\ \/ UNCHANGED libraries
              \/ /\ e.file.dir \notin Below /\ e.file \notin ElfFiles
                 /\ libraries' = libraries \cup {e.file}
    BY DEF NextFile, e
  <1>6. SearchTyped'
    <2>1. \A k \in DOMAIN queue' : queue'[k].file \in image.files
      BY <1>1, <1>2
    <2>2. needed' \in Seq(STRING) /\ within' \in Seq(Directory)
      <3>1. DynamicInfo(e.file).paths \o e.paths \in Seq(Directory)
        BY <1>4
      <3> QED  BY <1>4, <1>5, <3>1 DEF Found, SearchTyped
    <2> QED  BY <1>1, <1>2, <2>1, <2>2 DEF Found, SearchTyped
  <1>7. Candidates' \subseteq Candidates
    BY <1>2, <1>5 DEF Candidates
  <1>8. FoundOnce'
    BY <1>1, <1>7, OnceStill DEF Found
  <1>9. LibrariesInv'
    BY <1>1, <1>3, <1>5 DEF Found, LibrariesInv
  <1>10. Followed'
    <2>1. Named(needed) = {}
      BY <1>1 DEF Named
    <2>2. \A f \in read \cup libraries : Named(DynamicInfo(f).needs) \subseteq seen
      BY <2>1 DEF Found, Followed
    <2> QED  BY <1>1, <1>5, <2>2 DEF Followed, Named
  <1> QED  BY <1>6, <1>8, <1>9, <1>10 DEF Found

LEMMA NextNameFinds ==
    ASSUME image \in Image, Found, NextName
    PROVE  Found'
  <1> DEFINE name == Head(needed)
             file == FindLibrary(name, within)
             e == [file |-> file, paths |-> within]
  <1>1. /\ queue \in Seq(Entry) /\ needed \in Seq(STRING) /\ needed # <<>>
        /\ within \in Seq(Directory) /\ needed' = Tail(needed)
        /\ UNCHANGED <<image, read, within, libraries>> /\ ElfFiles' = ElfFiles
        /\ seen' = seen \cup {name}
    BY DEF Found, SearchTyped, NextName, ElfFiles
  <1>2. /\ needed' \in Seq(STRING)
        /\ Named(needed) = {name} \cup Named(needed')
    <2>1. needed' \in Seq(STRING) /\ name = needed[1] /\ 1 \in DOMAIN needed
      BY <1>1
    <2>2. \A k \in DOMAIN needed : k = 1 \/ (k - 1 \in DOMAIN needed' /\ needed[k] = needed'[k - 1])
      BY <1>1
    <2>3. \A k \in DOMAIN needed' : k + 1 \in DOMAIN needed /\ needed'[k] = needed[k + 1]
      BY <1>1
    <2> HIDE DEF name
    <2> QED  BY <2>1, <2>2, <2>3 DEF Named
  <1>3. \/ UNCHANGED queue
        \/ name \notin seen /\ file # NoFile /\ queue' = Append(queue, e)
    BY DEF NextName
  <1> HIDE DEF name
  <1>4. file # NoFile => /\ file \in image.files /\ file \in ElfFile
                         /\ file.name = name
    BY <1>1, FoundWhere, FileTyped
  <1> HIDE DEF file
  <1>5. LibrariesInv' /\ Followed'
    BY <1>1, <1>2 DEF Found, LibrariesInv, Followed, Named
  <1>6. CASE UNCHANGED queue
    BY <1>1, <1>2, <1>5, <1>6 DEF Found, SearchTyped, FoundOnce, Candidates
  <1>7. CASE name \notin seen /\ file # NoFile /\ queue' = Append(queue, e)
    <2>1. e \in Entry /\ e.file = file
      BY <1>1, <1>4, <1>7 DEF Entry
    <2> HIDE DEF e
    <2>2. /\ queue' \in Seq(Entry)
          /\ \A k \in DOMAIN queue' :
                queue'[k].file = file \/ (k \in DOMAIN queue /\ queue'[k] = queue[k])
      BY <1>1, <1>7, <2>1
    <2>3. SearchTyped'
      BY <1>1, <1>2, <1>4, <1>7, <2>2 DEF Found, SearchTyped
    <2>4. Candidates' \subseteq Candidates \cup {file}
      BY <1>1, <2>2 DEF Candidates
    <2>5. FoundOnce'
      <3>1. \A f \in Candidates \ ElfFiles : f.name \in seen /\ f.name # file.name
        BY <1>4, <1>7 DEF Found, FoundOnce
      <3>2. \A f, g \in Candidates' \ ElfFiles : f.name = g.name => f = g
        BY <2>4, <3>1 DEF Found, FoundOnce
      <3>3. \A f \in Candidates' \ ElfFiles : f.name \in seen'
        BY <1>1, <1>4, <1>7, <2>4, <3>1
      <3> QED  BY <1>1, <3>2, <3>3 DEF FoundOnce
    <2> QED  BY <1>5, <2>3, <2>5 DEF Found
  <1> QED  BY <1>3, <1>6, <1>7

-----------------------------------------------------------------------------
(* The steps.                                                              *)

LEMMA StageInit == StagingInit => StageInv
  BY DEF StagingInit, StageInv, Searching, Whole

\* The two names of the tree that copy_tree leaves behind.
LEMMA AllCopied == Mirrored(Installation) = CopyTree(Installation \cup {"nested"})
  BY DEF Mirrored, Installation

LEMMA StageStep == StageInv /\ [StagingNext]_stagingVars => StageInv'
  <1> SUFFICES ASSUME StageInv, [StagingNext]_stagingVars PROVE StageInv'
    OBVIOUS
  <1> USE DEF Searching, Whole
  <1>1. UNCHANGED image => ElfFiles' = ElfFiles /\ \A d : Mirrored(d)' = Mirrored(d)
    BY DEF ElfFiles, Mirrored, CopyTree
  <1>2. UNCHANGED <<image, Searched>> /\ Found => Found'
    BY <1>1 DEF Searched, Found, SearchTyped, FoundOnce, LibrariesInv, Followed, Candidates
  <1>3. CASE BeginStage
    BY <1>3 DEF BeginStage, StageInv
  <1>4. CASE ClearStage
    <2>1. Mirrored({})' = {}
      BY DEF Mirrored, CopyTree
    <2> QED  BY <1>1, <1>4, <2>1 DEF ClearStage, Unsearched, StageInv, Installation
  <1>5. CASE CopyInstallation
    <2>1. PICK d \in Installation \ copied :
            /\ copied' = copied \cup {d}
            /\ tree' = tree \cup CopyTree({d} \cup IF d = "pkglib" THEN {"nested"} ELSE {})
      BY <1>5 DEF CopyInstallation
    <2>2. /\ stage = "copy" /\ UNCHANGED <<image, Searched>> /\ image \in Image
          /\ stage' = IF copied' = Installation THEN "read" ELSE "copy"
          /\ tree = Mirrored(copied) /\ copied \subseteq Installation
          /\ read = {} /\ queue = <<>> /\ needed = <<>> /\ within = <<>>
          /\ seen = {} /\ lost = {} /\ libraries = {}
      BY <1>5 DEF CopyInstallation, StageInv
    <2>3. tree' = Mirrored(copied') /\ copied' \subseteq Installation
      BY <2>1, <2>2 DEF Mirrored, CopyTree
    <2>4. Found
      BY <2>2, NothingFound
    <2> QED  BY <1>1, <1>2, <2>2, <2>3, <2>4 DEF StageInv, Searched
  <1>6. CASE ReadRoot
    <2>1. /\ stage = "read" /\ UNCHANGED <<image, tree>>
          /\ stage' = "read" \/ (stage' = "search" /\ read = ElfFiles /\ UNCHANGED read)
      BY <1>6 DEF ReadRoot
    <2> QED  BY <1>1, <1>6, <2>1, ReadRootFinds DEF StageInv
  <1>7. CASE NextFile
    <2>1. stage = "search" /\ UNCHANGED <<stage, image, tree, read>>
      BY <1>7 DEF NextFile
    <2> QED  BY <1>1, <1>7, <2>1, NextFileFinds DEF StageInv
  <1>8. CASE NextName
    <2>1. stage \in Searching /\ UNCHANGED <<stage, image, tree, read>>
      BY <1>8 DEF NextName
    <2> QED  BY <1>1, <1>8, <2>1, NextNameFinds DEF StageInv
  <1>9. CASE ReportStage
    <2>1. Found /\ Found'
      BY <1>2, <1>9 DEF ReportStage, StageInv
    <2> QED  BY <1>1, <1>9, <2>1 DEF ReportStage, StageInv, Searched
  <1>10. CASE StageDies
    BY <1>10 DEF StageDies, StageInv
  <1>11. CASE WriteWrappers \/ VerifyStaged \/ ReadControlData \/ InitdbNew
    <2>1. /\ stage \in Whole /\ stage' \in Whole \cup {"failed"} /\ stage' # "search"
          /\ UNCHANGED <<image, tree, Searched, libDirs>>
      BY <1>11 DEF WriteWrappers, VerifyStaged, ReadControlData, InitdbNew
    <2> QED  BY <1>1, <1>2, <2>1 DEF StageInv, Searched
  <1>12. CASE UNCHANGED stagingVars
    <2>1. UNCHANGED <<stage, image, copied, tree, Searched, libDirs>>
      BY <1>12 DEF stagingVars, Searched
    <2> QED  BY <1>1, <1>2, <2>1 DEF StageInv, Searched
  <1> QED
    BY <1>3, <1>4, <1>5, <1>6, <1>7, <1>8, <1>9, <1>10, <1>11, <1>12 DEF StagingNext

\* Whatever was staged before and however it ended: the tree that is reported
\* is one image's installation and its libraries, each once, none of glibc's.
THEOREM OneImage == StagingSpec => []StagedFromOneImage
  <1>1. StageInv => StagedFromOneImage
    <2> SUFFICES ASSUME StageInv, stage = "staged"
                 PROVE  /\ tree = CopyTree(Installation \cup {"nested"}) \cup libraries
                        /\ \A f \in libraries : ~IsGlibcCore(f.name) /\ f.dir \notin Below
                        /\ \A f, g \in libraries : f.name = g.name => f = g
      BY DEF StagedFromOneImage
    <2>1. tree = Mirrored(Installation) \cup libraries /\ Found
      BY DEF StageInv, Whole
    <2>2. \A f \in libraries : f \in Candidates
      BY DEF Candidates
    <2> QED  BY <2>1, <2>2, AllCopied DEF Found, LibrariesInv, FoundOnce
  <1> QED  BY <1>1, StageInit, StageStep, PTL DEF StagingSpec

-----------------------------------------------------------------------------
(* The checksums of the new cluster.                                       *)

ChecksumsInv ==
    /\ stage = "initdb" =>
        control \in [clean : BOOLEAN, checksums : {"0", "1", "?"},
                     options : {<<>>}, made : {"none"}]
    /\ ChecksumsCarried

\* initdb's arguments end with the operator's, and are pgpod's own without.
LEMMA ArgvEnds ==
    ASSUME NEW on, NEW options \in Seq({"on", "off"})
    PROVE  MadeBy(InitdbArgv(on, options)) =
               IF options # <<>> THEN options[Len(options)] ELSE MadeBy(InitdbFlag(on))
  <1>1. InitdbFlag(on) \in Seq({"on", "off"})
    <2>1. <<>> \in Seq({"on", "off"})
      BY EmptySeq
    <2>2. <<"on">> \in Seq({"on", "off"}) /\ <<"off">> \in Seq({"on", "off"})
      OBVIOUS
    <2> QED  BY <2>1, <2>2, Zenon DEF InitdbFlag
  <1>2. CASE options = <<>>
    <2>1. InitdbArgv(on, options) = InitdbFlag(on)
      BY <1>1, <1>2, ConcatEmptySeq DEF InitdbArgv
    <2> QED  BY <1>2, <2>1
  <1>3. CASE options # <<>>
    <2> DEFINE flag == InitdbFlag(on)
               argv == flag \o options
    <2> HIDE DEF flag
    <2>1. flag \in Seq({"on", "off"})
      BY <1>1 DEF flag
    <2>2. Len(options) \in Nat \ {0} /\ Len(flag) \in Nat
      BY <1>3, <2>1, EmptySeq
    <2>3. Len(argv) = Len(flag) + Len(options) /\ argv # <<>>
      BY <2>1, <2>2
    <2>4. argv[Len(argv)] = options[Len(options)]
      BY <2>1, <2>2, <2>3
    <2> QED  BY <1>3, <2>3, <2>4 DEF MadeBy, InitdbArgv, flag
  <1> QED  BY <1>2, <1>3

\* Whatever the versions are and whatever initdb does by itself: the operator's
\* last word on checksums decides, and without one the new cluster has them
\* when the old one has, and only then.
THEOREM SameChecksums == StagingSpec => []ChecksumsCarried
  <1>1. StagingInit => ChecksumsInv
    BY DEF StagingInit, ChecksumsInv, ChecksumsCarried
  <1>2. ChecksumsInv /\ [StagingNext]_stagingVars => ChecksumsInv'
    <2> SUFFICES ASSUME ChecksumsInv, [StagingNext]_stagingVars PROVE ChecksumsInv'
      OBVIOUS
    <2>1. CASE InitdbNew
      <3> DEFINE on == Checksums(control)
      <3>1. PICK options \in Options :
              IF UnknownOption(InitdbArgv(on, options)) THEN stage' = "failed"
              ELSE /\ stage' = "made"
                   /\ control' = [control EXCEPT !.options = options,
                                     !.made = MadeBy(InitdbArgv(on, options))]
        BY <2>1 DEF InitdbNew
      <3>2. CASE stage' = "failed"
        BY <3>2 DEF ChecksumsInv, ChecksumsCarried
      <3>3. CASE stage' = "made"
        <4>1. control \in [clean : BOOLEAN, checksums : {"0", "1", "?"},
                           options : {<<>>}, made : {"none"}]
          BY <2>1 DEF InitdbNew, ChecksumsInv
        <4>2. control' = [control EXCEPT !.options = options,
                             !.made = MadeBy(InitdbArgv(on, options))]
          BY <3>1, <3>3
        <4>3. /\ control'.checksums = control.checksums
              /\ control'.options = options
              /\ control'.made = MadeBy(InitdbArgv(on, options))
          BY <4>1, <4>2
        <4>4. options \in Seq({"on", "off"})
          BY StagingOK
        <4>5. CASE options # <<>>
          BY <3>3, <4>3, <4>4, <4>5, ArgvEnds DEF ChecksumsInv, ChecksumsCarried
        <4>6. CASE options = <<>>
          <5>1. control'.made = MadeBy(InitdbFlag(on))
            BY <4>3, <4>4, <4>6, ArgvEnds
          <5>2. MadeBy(InitdbFlag(on)) = IF on THEN "on" ELSE "off"
            BY DEF MadeBy, InitdbFlag, OnByDefault
          <5>3. control'.checksums # "?" => (on <=> control'.checksums = "1")
            BY <4>1, <4>3 DEF Checksums
          <5> QED
            BY <3>3, <4>3, <4>6, <5>1, <5>2, <5>3 DEF ChecksumsInv, ChecksumsCarried
        <4> QED  BY <4>5, <4>6
      <3> QED  BY <3>1, <3>2, <3>3
    <2>2. CASE ReadControlData
      BY <2>2 DEF ReadControlData, ChecksumsInv, ChecksumsCarried
    <2>3. CASE \/ BeginStage \/ ClearStage \/ CopyInstallation \/ ReadRoot
               \/ NextName \/ NextFile \/ ReportStage \/ StageDies
               \/ WriteWrappers \/ VerifyStaged
      <3>1. stage' \notin {"initdb", "made"}
        BY <2>3 DEF BeginStage, ClearStage, CopyInstallation, ReadRoot, NextName,
                    NextFile, ReportStage, StageDies, WriteWrappers, VerifyStaged
      <3> QED  BY <3>1 DEF ChecksumsInv, ChecksumsCarried
    <2>4. CASE UNCHANGED stagingVars
      BY <2>4 DEF stagingVars, ChecksumsInv, ChecksumsCarried
    <2> QED  BY <2>1, <2>2, <2>3, <2>4 DEF StagingNext
  <1>3. ChecksumsInv => ChecksumsCarried
    BY DEF ChecksumsInv
  <1> QED  BY <1>1, <1>2, <1>3, PTL DEF StagingSpec

-----------------------------------------------------------------------------
(* The closure of the libraries.                                           *)

\* Directories that are in LD_LIBRARY_PATH once a library was found there.
Loadable == {"pkglib", "usr", "opt"}

\* What the closure takes for granted of an image: nobody is sent to look for
\* libraries among the programs, the data or the bitcode, LLVM's code
\* generator is loaded by hand and by nobody's needs, and it is no program.
Usual ==
    \A i \in Image : \A f \in i.files :
        /\ Named(f.paths) \subseteq Loadable
        /\ "llvmjit" \notin Named(f.needs)
        /\ f.name = "llvmjit" => f.dir # "bin"

\* Where a name that was looked for, and found, is or will be staged.
Answered(n) ==
    \E f \in image.files :
        /\ f.name = n /\ f.kind # "dangling" /\ f.dir \in Loadable
        /\ f.dir = "pkglib" \/ f \in Candidates

Closing ==
    /\ Named(within) \subseteq Loadable
    /\ \A k \in DOMAIN queue : Named(queue[k].paths) \subseteq Loadable
    /\ \A f \in Candidates \ ElfFiles : f.dir \in Loadable
    /\ "llvmjit" \notin seen \cup Named(needed)
    /\ \A n \in seen \ lost : IsGlibcCore(n) \/ Answered(n)

ClosureInv == stage \in Searching \cup Whole => Closing

LEMMA UsualFile ==
    ASSUME Usual, image \in Image, NEW f \in image.files
    PROVE  /\ Named(DynamicInfo(f).paths) \subseteq Loadable
           /\ "llvmjit" \notin Named(DynamicInfo(f).needs)
  BY DEF Usual, DynamicInfo, Named

LEMMA NothingToClose ==
    ASSUME queue = <<>>, needed = <<>>, within = <<>>, seen = {}, libraries = {}
    PROVE  Closing
  <1>1. Candidates = {} /\ Named(needed) = {} /\ Named(within) = {}
    BY DEF Candidates, Named
  <1> QED  BY <1>1 DEF Closing

\* Nothing is answered any less while the image is the same and no candidate
\* is dropped that is not in pkglib.
LEMMA StillAnswered ==
    ASSUME UNCHANGED image, NEW n, Answered(n),
           \A f \in Candidates :
               f.name = n /\ f.dir \in Loadable => f.dir = "pkglib" \/ f \in Candidates'
    PROVE  Answered(n)'
  BY DEF Answered

LEMMA ReadRootCloses ==
    ASSUME Usual, image \in Image, Found, Closing, stage = "read", ReadRoot
    PROVE  Closing'
  <1>1. UNCHANGED <<image, seen, lost, libraries>> /\ ElfFiles' = ElfFiles
    BY DEF ReadRoot, ElfFiles
  <1>2. CASE UNCHANGED <<read, queue, needed, within>>
    BY <1>1, <1>2 DEF Closing, Candidates, Answered
  <1>3. ASSUME NEW r \in ElfFiles,
               queue' = Append(queue, [file |-> r, paths |-> DynamicInfo(r).paths]),
               needed' = DynamicInfo(r).needs, within' = DynamicInfo(r).paths
        PROVE  Closing'
    <2> DEFINE e == [file |-> r, paths |-> DynamicInfo(r).paths]
    <2>1. /\ r \in image.files /\ e \in Entry /\ e.file = r
          /\ e.paths = DynamicInfo(r).paths
      BY FileTyped DEF ElfFiles, Entry
    <2>2. /\ Named(DynamicInfo(r).paths) \subseteq Loadable
          /\ "llvmjit" \notin Named(DynamicInfo(r).needs)
      BY <2>1, UsualFile
    <2> HIDE DEF e
    <2>3. queue \in Seq(Entry) /\ queue' = Append(queue, e)
      BY <1>3 DEF Found, SearchTyped, e
    <2>4. /\ \A k \in DOMAIN queue' : queue'[k] = e \/ (k \in DOMAIN queue /\ queue'[k] = queue[k])
          /\ \A k \in DOMAIN queue : k \in DOMAIN queue' /\ queue'[k] = queue[k]
      BY <2>1, <2>3
    <2>5. Candidates \subseteq Candidates' /\ Candidates' \subseteq Candidates \cup {r}
      BY <1>1, <2>1, <2>4 DEF Candidates
    <2>6. \A n \in seen' \ lost' : IsGlibcCore(n) \/ Answered(n)'
      BY <1>1, <2>5, StillAnswered DEF Closing
    <2>7. \A k \in DOMAIN queue' : Named(queue'[k].paths) \subseteq Loadable
      BY <2>1, <2>2, <2>4 DEF Closing
    <2>8. Named(within') \subseteq Loadable /\ "llvmjit" \notin Named(needed')
      BY <1>3, <2>2
    <2>9. \A f \in Candidates' \ ElfFiles' : f.dir \in Loadable
      BY <1>1, <1>3, <2>5 DEF Closing
    <2> QED  BY <1>1, <2>6, <2>7, <2>8, <2>9 DEF Closing, Named
  <1> QED  BY <1>2, <1>3 DEF ReadRoot

LEMMA NamedConcat ==
    ASSUME NEW D, NEW s \in Seq(D), NEW t \in Seq(D)
    PROVE  Named(s \o t) \subseteq Named(s) \cup Named(t)
  <1> DEFINE u == s \o t
  <1>1. /\ Len(u) = Len(s) + Len(t)
        /\ \A k \in DOMAIN s : u[k] = s[k]
        /\ \A k \in DOMAIN t : u[Len(s) + k] = t[k]
        /\ u \in Seq(D)
    BY ConcatProperties
  <1> HIDE DEF u
  <1>2. \A k \in DOMAIN u : k \in DOMAIN s \/ k - Len(s) \in DOMAIN t
    BY <1>1
  <1>3. \A k \in DOMAIN u : u[k] \in Named(s) \cup Named(t)
    <2> SUFFICES ASSUME NEW k \in DOMAIN u PROVE u[k] \in Named(s) \cup Named(t)
      OBVIOUS
    <2>1. CASE k \in DOMAIN s
      BY <1>1, <2>1 DEF Named
    <2>2. CASE k - Len(s) \in DOMAIN t
      <3>1. Len(s) + (k - Len(s)) = k
        BY <1>1
      <3> QED  BY <1>1, <2>2, <3>1 DEF Named
    <2> QED  BY <1>2, <2>1, <2>2
  <1> QED  BY <1>3 DEF Named, u

LEMMA NextFileCloses ==
    ASSUME Usual, image \in Image, Found, Closing, NextFile
    PROVE  Closing'
  <1> DEFINE e == Head(queue)
  <1>1. /\ queue \in Seq(Entry) /\ queue # <<>> /\ queue' = Tail(queue)
        /\ UNCHANGED <<image, seen, lost>> /\ ElfFiles' = ElfFiles
        /\ \A k \in DOMAIN queue : queue[k].file \in image.files
    BY DEF Found, SearchTyped, NextFile, ElfFiles
  <1>2. /\ \A k \in DOMAIN queue' : k + 1 \in DOMAIN queue /\ queue'[k] = queue[k + 1]
        /\ \A k \in DOMAIN queue : k = 1 \/ (k - 1 \in DOMAIN queue' /\ queue[k] = queue'[k - 1])
        /\ 1 \in DOMAIN queue /\ e = queue[1]
    BY <1>1
  <1>3. /\ e \in Entry /\ e.file \in image.files
        /\ Named(e.paths) \subseteq Loadable
    BY <1>1, <1>2 DEF Closing
  <1> HIDE DEF e
  <1>4. \/ IsGlibcCore(e.file.name) /\ UNCHANGED <<needed, within, libraries>>
        \/ /\ needed' = DynamicInfo(e.file).needs
           /\ within' = DynamicInfo(e.file).paths \o e.paths
           /\ \/ UNCHANGED libraries /\ (e.file.dir \in Below \/ e.file \in ElfFiles)
              \/ libraries' = libraries \cup {e.file}
    BY DEF NextFile, e
  <1>5. /\ Candidates' \subseteq Candidates
        /\ Candidates \subseteq Candidates' \cup {e.file}
    <2>1. /\ \A k \in DOMAIN queue' : queue'[k].file \in Candidates
          /\ \A k \in DOMAIN queue : queue[k].file \in Candidates' \cup {e.file}
          /\ e.file \in Candidates
      BY <1>2 DEF Candidates
    <2>2. /\ libraries \subseteq libraries' /\ libraries' \subseteq libraries \cup {e.file}
      BY <1>4
    <2>3. libraries \subseteq Candidates /\ libraries' \subseteq Candidates'
      BY DEF Candidates
    <2>4. Candidates' \subseteq Candidates
      BY <2>1, <2>2, <2>3 DEF Candidates
    <2>5. Candidates \subseteq Candidates' \cup {e.file}
      BY <2>1, <2>2, <2>3 DEF Candidates
    <2> QED  BY <2>4, <2>5
  <1>6. \/ IsGlibcCore(e.file.name)
        \/ e.file \in Candidates'
        \/ e.file.dir \in Loadable => e.file.dir = "pkglib"
    BY <1>4 DEF Candidates, Below, ElfFiles, Loadable
  <1>7. \A n \in seen' \ lost' : IsGlibcCore(n) \/ Answered(n)'
    <2> SUFFICES ASSUME NEW n \in seen \ lost, ~IsGlibcCore(n) PROVE Answered(n)'
      BY <1>1
    <2>1. Answered(n)
      BY DEF Closing
    <2>2. \A f \in Candidates :
             f.name = n /\ f.dir \in Loadable => f.dir = "pkglib" \/ f \in Candidates'
      BY <1>5, <1>6
    <2> QED  BY <1>1, <2>1, <2>2, StillAnswered
  <1>8. /\ Named(within') \subseteq Loadable
        /\ "llvmjit" \notin Named(needed')
    <2>1. CASE UNCHANGED <<needed, within>>
      BY <2>1 DEF Closing
    <2>2. CASE /\ needed' = DynamicInfo(e.file).needs
               /\ within' = DynamicInfo(e.file).paths \o e.paths
      <3>1. /\ DynamicInfo(e.file).paths \in Seq(Directory) /\ e.paths \in Seq(Directory)
            /\ Named(DynamicInfo(e.file).paths) \subseteq Loadable
            /\ "llvmjit" \notin Named(DynamicInfo(e.file).needs)
        BY <1>3, FileTyped, UsualFile DEF Entry
      <3>2. Named(within') \subseteq Named(DynamicInfo(e.file).paths) \cup Named(e.paths)
        BY <2>2, <3>1, NamedConcat
      <3> QED  BY <1>3, <2>2, <3>1, <3>2
    <2> QED  BY <1>4, <2>1, <2>2
  <1>9. \A k \in DOMAIN queue' : Named(queue'[k].paths) \subseteq Loadable
    BY <1>2 DEF Closing
  <1>10. \A f \in Candidates' \ ElfFiles' : f.dir \in Loadable
    BY <1>1, <1>5 DEF Closing
  <1>11. "llvmjit" \notin seen'
    BY <1>1 DEF Closing
  <1> QED  BY <1>7, <1>8, <1>9, <1>10, <1>11 DEF Closing, Named

LEMMA NextNameCloses ==
    ASSUME image \in Image, Found, Closing, NextName
    PROVE  Closing'
  <1> DEFINE name == Head(needed)
             file == FindLibrary(name, within)
             e == [file |-> file, paths |-> within]
  <1>1. /\ queue \in Seq(Entry) /\ needed \in Seq(STRING) /\ needed # <<>>
        /\ within \in Seq(Directory) /\ needed' = Tail(needed)
        /\ UNCHANGED <<image, within, libraries>> /\ ElfFiles' = ElfFiles
        /\ seen' = seen \cup {name}
    BY DEF Found, SearchTyped, NextName, ElfFiles
  <1>2. name \in Named(needed) /\ Named(needed') \subseteq Named(needed)
    <2>1. name = needed[1] /\ 1 \in DOMAIN needed
      BY <1>1
    <2>2. \A k \in DOMAIN needed' : k + 1 \in DOMAIN needed /\ needed'[k] = needed[k + 1]
      BY <1>1
    <2> HIDE DEF name
    <2> QED  BY <2>1, <2>2 DEF Named
  <1>3. \/ UNCHANGED <<queue, lost>> /\ (name \in seen \/ IsGlibcCore(name))
        \/ UNCHANGED queue /\ lost' = lost \cup {name}
        \/ UNCHANGED lost /\ file # NoFile /\ queue' = Append(queue, e)
    BY DEF NextName
  <1> HIDE DEF name
  <1>4. file # NoFile =>
          /\ file \in image.files /\ file \in ElfFile
          /\ file.name = name /\ file.kind # "dangling" /\ file.dir \in Loadable
    <2> SUFFICES ASSUME file # NoFile
                 PROVE  /\ file \in image.files /\ file \in ElfFile
                        /\ file.name = name /\ file.kind # "dangling"
                        /\ file.dir \in Loadable
      OBVIOUS
    <2>1. /\ file \in image.files /\ file.name = name /\ file.kind # "dangling"
          /\ file.dir \in Named(within) \cup {"usr"}
      BY <1>1, FoundWhere
    <2> HIDE DEF file
    <2> QED  BY <2>1, FileTyped DEF Closing, Loadable
  <1> HIDE DEF file
  <1>5. /\ Named(within)' \subseteq Loadable
        /\ "llvmjit" \notin seen' \cup Named(needed)'
    <2>1. Named(within)' = Named(within) /\ Named(needed)' = Named(needed')
      BY <1>1 DEF Named
    <2> QED  BY <1>1, <1>2, <2>1 DEF Closing
  <1>6. CASE UNCHANGED queue
    <2>1. Candidates' = Candidates
      BY <1>1, <1>6 DEF Candidates
    <2>2. \A n \in seen' \ lost' : IsGlibcCore(n) \/ Answered(n)
      BY <1>1, <1>3, <1>6 DEF Closing
    <2>3. \A n \in seen' \ lost' : IsGlibcCore(n) \/ Answered(n)'
      BY <1>1, <2>1, <2>2, StillAnswered
    <2> QED  BY <1>1, <1>5, <1>6, <2>1, <2>3 DEF Closing
  <1>7. CASE UNCHANGED lost /\ file # NoFile /\ queue' = Append(queue, e)
    <2>1. e \in Entry /\ e.file = file /\ e.paths = within
      BY <1>1, <1>4, <1>7 DEF Entry
    <2> HIDE DEF e
    <2>2. /\ \A k \in DOMAIN queue' : queue'[k] = e \/ (k \in DOMAIN queue /\ queue'[k] = queue[k])
          /\ \A k \in DOMAIN queue : k \in DOMAIN queue' /\ queue'[k] = queue[k]
          /\ Len(queue) + 1 \in DOMAIN queue' /\ queue'[Len(queue) + 1] = e
      BY <1>1, <1>7, <2>1
    <2>3. Candidates' = Candidates \cup {file}
      BY <1>1, <2>1, <2>2 DEF Candidates
    <2>4. ASSUME NEW n, n = name PROVE Answered(n)'
      <3>1. /\ file \in image'.files /\ file.name = name /\ file.kind # "dangling"
            /\ file.dir \in Loadable /\ file \in Candidates'
        BY <1>1, <1>4, <1>7, <2>3
      <3> QED  BY <2>4, <3>1 DEF Answered
    <2>5. \A n \in seen \ lost : IsGlibcCore(n) \/ Answered(n)'
      BY <1>1, <2>3, StillAnswered DEF Closing
    <2>6. \A n \in seen' \ lost' : IsGlibcCore(n) \/ Answered(n)'
      <3> SUFFICES ASSUME NEW n \in seen' \ lost', ~IsGlibcCore(n) PROVE Answered(n)'
        OBVIOUS
      <3>1. n = name \/ n \in seen \ lost
        BY <1>1, <1>7
      <3>2. CASE n = name
        BY <2>4, <3>2
      <3>3. CASE n \in seen \ lost
        BY <2>5, <3>3
      <3> QED  BY <3>1, <3>2, <3>3
    <2>7. \A k \in DOMAIN queue' : Named(queue'[k].paths) \subseteq Loadable
      BY <2>1, <2>2 DEF Closing
    <2>8. \A f \in Candidates' \ ElfFiles' : f.dir \in Loadable
      BY <1>1, <1>4, <1>7, <2>3 DEF Closing
    <2> QED  BY <1>5, <2>6, <2>7, <2>8 DEF Closing, Named
  <1> QED  BY <1>3, <1>6, <1>7

LEMMA ClosureStep ==
    ASSUME Usual, StageInv, ClosureInv, [StagingNext]_stagingVars
    PROVE  ClosureInv'
  <1> USE DEF Searching, Whole
  <1>1. UNCHANGED <<image, Searched>> /\ Closing => Closing'
    BY DEF Searched, Closing, Candidates, Answered, ElfFiles
  <1>2. CASE BeginStage \/ ClearStage \/ StageDies
    BY <1>2 DEF BeginStage, ClearStage, StageDies, ClosureInv
  <1>3. CASE CopyInstallation
    <2>1. Closing
      BY <1>3, NothingToClose DEF CopyInstallation, StageInv
    <2> QED  BY <1>1, <1>3, <2>1 DEF CopyInstallation, ClosureInv
  <1>4. CASE ReadRoot
    <2>1. stage = "read" /\ image \in Image /\ Found /\ Closing
      BY <1>4 DEF ReadRoot, StageInv, ClosureInv
    <2> QED  BY <1>4, <2>1, ReadRootCloses DEF ClosureInv
  <1>5. CASE NextFile
    <2>1. image \in Image /\ Found /\ Closing
      BY <1>5 DEF NextFile, StageInv, ClosureInv
    <2> QED  BY <1>5, <2>1, NextFileCloses DEF ClosureInv
  <1>6. CASE NextName
    <2>1. image \in Image /\ Found /\ Closing
      BY <1>6 DEF NextName, StageInv, ClosureInv
    <2> QED  BY <1>6, <2>1, NextNameCloses DEF ClosureInv
  <1>7. CASE ReportStage
    BY <1>1, <1>7 DEF ReportStage, ClosureInv
  <1>8. CASE WriteWrappers \/ VerifyStaged \/ ReadControlData \/ InitdbNew
    <2>1. stage \in Whole /\ UNCHANGED <<image, Searched>>
      BY <1>8 DEF WriteWrappers, VerifyStaged, ReadControlData, InitdbNew
    <2> QED  BY <1>1, <2>1 DEF ClosureInv
  <1>9. CASE UNCHANGED stagingVars
    <2>1. UNCHANGED <<stage, image, Searched>>
      BY <1>9 DEF stagingVars, Searched
    <2> QED  BY <1>1, <2>1 DEF ClosureInv
  <1> QED
    BY <1>2, <1>3, <1>4, <1>5, <1>6, <1>7, <1>8, <1>9 DEF StagingNext

-----------------------------------------------------------------------------
(* What a program loads.                                                   *)

NamesInTree == UNION {Named(f.needs) : f \in tree}

\* What the files that are found for a name need in turn.
NeedsOf(n) ==
    UNION {Named(DynamicInfo(f).needs) : f \in {f \in tree : f.name = n /\ f.dir \in libDirs}}

ClosedFor(program, s) ==
    /\ Named(DynamicInfo(program).needs) \subseteq s
    /\ \A n \in s : IsGlibcCore(n) \/ NeedsOf(n) \subseteq s

LEMMA NeedsAreInTree ==
    ASSUME NEW f \in tree
    PROVE  Named(DynamicInfo(f).needs) \subseteq NamesInTree
  <1>1. DynamicInfo(f).needs = f.needs \/ Named(DynamicInfo(f).needs) = {}
    BY DEF DynamicInfo, Named
  <1> QED  BY <1>1 DEF NamesInTree

\* The least closed set exists, and is part of every other one.
LEMMA LoadsLeast ==
    ASSUME NEW program \in tree, NEW s \in SUBSET NamesInTree, ClosedFor(program, s)
    PROVE  Loads(program) \subseteq s
  <1> DEFINE Closed(x) == ClosedFor(program, x)
             least == {n \in NamesInTree : \A x \in SUBSET NamesInTree :
                                             Closed(x) => n \in x}
  <1>1. Loads(program) =
            CHOOSE x \in SUBSET NamesInTree :
                Closed(x) /\ \A y \in SUBSET NamesInTree : Closed(y) => x \subseteq y
    BY DEF Loads, ClosedFor, NeedsOf, NamesInTree
  <1>2. least \in SUBSET NamesInTree
    OBVIOUS
  <1>3. \A y \in SUBSET NamesInTree : Closed(y) => least \subseteq y
    OBVIOUS
  <1>4. Closed(least)
    <2>1. Named(DynamicInfo(program).needs) \subseteq least
      BY NeedsAreInTree DEF ClosedFor
    <2>2. ASSUME NEW n \in least, ~IsGlibcCore(n) PROVE NeedsOf(n) \subseteq least
      <3>1. NeedsOf(n) \subseteq NamesInTree
        BY NeedsAreInTree DEF NeedsOf
      <3>2. \A x \in SUBSET NamesInTree : Closed(x) => NeedsOf(n) \subseteq x
        BY <2>2 DEF ClosedFor
      <3> QED  BY <3>1, <3>2
    <2> HIDE DEF least
    <2> QED  BY <2>1, <2>2 DEF ClosedFor
  <1> HIDE DEF least, Closed
  <1>5. Closed(s)
    BY DEF Closed
  <1> QED  BY <1>1, <1>2, <1>3, <1>4, <1>5

LEMMA RunsOnce ==
    ASSUME Usual, StageInv, ClosureInv
    PROVE  VerifiedMeansAllRun
  <1> SUFFICES ASSUME stage \in {"verified", "initdb", "made"},
                      NEW p \in Programs, DynamicInfo(p).needs # <<>>,
                      NEW n \in Loads(p)
               PROVE  Finds(n) \/ n \in lost \/ IsGlibcCore(n)
    BY DEF VerifiedMeansAllRun
  <1>1. /\ image \in Image /\ Found /\ Closing
        /\ tree = CopyTree(Installation \cup {"nested"}) \cup libraries
        /\ libDirs = {f.dir : f \in libraries} \cup {"pkglib"}
        /\ read = ElfFiles /\ queue = <<>> /\ needed = <<>>
    BY AllCopied DEF StageInv, ClosureInv, Whole
  <1>2. Candidates = libraries
    BY <1>1 DEF Candidates
  <1>3. \A f \in libraries : f \in Candidates \ ElfFiles /\ f.dir \in Loadable
    BY <1>1, <1>2 DEF Found, LibrariesInv, Closing
  <1>4. \A f \in ElfFiles \cup libraries : Named(DynamicInfo(f).needs) \subseteq seen
    <2>1. Named(needed) = {}
      BY <1>1 DEF Named
    <2> QED  BY <1>1, <2>1 DEF Found, Followed
  <1>5. p \in tree /\ Named(DynamicInfo(p).needs) \subseteq seen
    <2>1. p \in tree /\ p.dir = "bin"
      BY DEF Programs
    <2>2. p \in image.files /\ p.kind # "dangling"
      BY <1>1, <1>3, <2>1 DEF CopyTree, Loadable
    <2>3. p.name # "llvmjit"
      BY <1>1, <2>1, <2>2 DEF Usual
    <2>4. p \in ElfFiles
      BY <2>1, <2>2, <2>3 DEF ElfFiles
    <2> QED  BY <1>4, <2>1, <2>4
  <1> DEFINE s == NamesInTree \cap seen
  <1>6. ASSUME NEW x \in s, NEW f \in tree, f.name = x, f.dir \in libDirs
        PROVE  Named(DynamicInfo(f).needs) \subseteq seen
    <2>1. CASE f \in libraries
      BY <1>4, <2>1
    <2>2. CASE f \in CopyTree(Installation \cup {"nested"})
      <3>1. f.dir = "pkglib" /\ f \in image.files /\ f.kind # "dangling"
        BY <1>1, <1>3, <1>6, <2>2 DEF CopyTree, Installation, Loadable
      <3>2. f.name # "llvmjit"
        BY <1>1, <1>6 DEF Closing
      <3>3. f \in ElfFiles
        BY <3>1, <3>2 DEF ElfFiles
      <3> QED  BY <1>4, <3>3
    <2> QED  BY <1>1, <2>1, <2>2
  <1>7. ClosedFor(p, s)
    <2>1. Named(DynamicInfo(p).needs) \subseteq s
      BY <1>5, NeedsAreInTree
    <2>2. \A x \in s : NeedsOf(x) \subseteq s
      BY <1>6, NeedsAreInTree DEF NeedsOf
    <2> QED  BY <2>1, <2>2 DEF ClosedFor
  <1>8. n \in seen
    <2>1. Loads(p) \subseteq s
      BY <1>5, <1>7, LoadsLeast
    <2> QED  BY <2>1
  <1>9. CASE Answered(n)
    <2>1. PICK f \in image.files :
            /\ f.name = n /\ f.kind # "dangling"
            /\ f.dir = "pkglib" \/ f \in libraries
      BY <1>2, <1>9 DEF Answered
    <2>2. f \in tree /\ f.dir \in libDirs
      BY <1>1, <2>1 DEF CopyTree, Installation
    <2> QED  BY <2>1, <2>2 DEF Finds
  <1> QED  BY <1>1, <1>8, <1>9 DEF Closing

\* Once pg_ctl has run in the new image, every staged program that needs
\* libraries finds what it loads there, in the staging directory or the image,
\* whatever the order of the directory, the names several files share and the
\* paths one file hands to the next; but for names whose one search found
\* nothing, and glibc's.
THEOREM AllRun == Usual => (StagingSpec => []VerifiedMeansAllRun)
  <1> SUFFICES ASSUME Usual PROVE StagingSpec => []VerifiedMeansAllRun
    OBVIOUS
  <1>1. StagingInit => StageInv /\ ClosureInv
    BY StageInit DEF StagingInit, ClosureInv, Searching, Whole
  <1>2. StageInv /\ ClosureInv /\ [StagingNext]_stagingVars => (StageInv /\ ClosureInv)'
    BY StageStep, ClosureStep
  <1>3. StageInv /\ ClosureInv => VerifiedMeansAllRun
    BY RunsOnce
  <1> QED  BY <1>1, <1>2, <1>3, PTL DEF StagingSpec
=============================================================================
