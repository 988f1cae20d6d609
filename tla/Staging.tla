------------------------------- MODULE Staging -------------------------------
(* How a PostgreSQL installation is lifted out of one image and run in     *)
(* another: `pgpod-agent upgrade stage` copies it, with the libraries it   *)
(* names, into the instance's volume, and the upgrade's job in the new     *)
(* image wraps the copies, tries them, and asks them about the old cluster *)
(* before initdb makes the new one.                                        *)
(*                                                                         *)
(* Upgrade.tla has the window around this, with the data directories; here *)
(* is what staging computes and what depends on it.                        *)
EXTENDS Integers, Sequences

CONSTANTS
    Image,       \* the images an installation is staged from
    Target,      \* the images it is to run in
    DataVersion, \* the major version of the data directory
    NoFile,      \* what a search that finds nothing returns
    Options,     \* what the operator's initdb.options say of checksums, in order
    MaxStages    \* bound: attempts at staging

-----------------------------------------------------------------------------
(* Images.                                                                 *)

\* A shared object or a program names the libraries it needs, in order, and
\* the directories to look in first.  "usr" is one of the loader's own
\* directories, "opt" is not; "nested" and "bitcode" are below pkglib.
Directory == {"bin", "share", "pkglib", "nested", "bitcode", "usr", "opt"}
ElfFile   == [dir : Directory, name : STRING, kind : {"elf", "plain", "dangling"},
              needs : Seq(STRING), paths : Seq(Directory)]
ImageType  == [version : Nat, files : SUBSET ElfFile]
TargetType == [version : Nat, runs : BOOLEAN, has : SUBSET STRING]

ASSUME StagingOK ==
    /\ \A i \in Image : i.version \in Nat /\ \A f \in i.files : f \in ElfFile
    /\ \A t \in Target : t.version \in Nat /\ t.runs \in BOOLEAN
    /\ Options \subseteq Seq({"on", "off"})
    /\ MaxStages \in Nat

\* The libraries that belong to the image the programs run in.
IsGlibcCore(name) == name \in {"libc", "ld-linux", "libnss_files"}

Installation == {"bin", "share", "pkglib"}
Below        == {"bin", "pkglib", "nested", "bitcode"}
DefaultDirs  == <<"usr">>

Named(s) == {s[k] : k \in DOMAIN s}

-----------------------------------------------------------------------------
VARIABLES
    stage,     \* how far the staging or the job has got
    image,     \* the image it runs in
    copied,    \* the installation's directories that are copied
    tree,      \* the volume: files in the staging directory
    read,      \* the roots whose headers were read
    queue,     \* the files to look at, with the paths they inherit
    needed,    \* of the file that is looked at: the names still to look for
    within,    \* and the directories they are looked for in
    seen,      \* the names that were looked for
    lost,      \* those whose first search found nothing
    libraries, \* the result
    libDirs,   \* the report: the directories of LD_LIBRARY_PATH
    target,    \* the new image
    control,   \* what pg_controldata says of the old cluster, and the new one
    stages     \* how often so far

stagingVars == <<stage, image, copied, tree, read, queue, needed, within, seen,
                 lost, libraries, libDirs, target, control, stages>>

\* What is left alone by everything but the search.
Searched == <<read, queue, needed, within, seen, lost, libraries>>

-----------------------------------------------------------------------------
(* In the old image.                                                       *)

\* Nothing for what is no 64-bit little-endian ELF, is static or truncated.
DynamicInfo(f) ==
    IF f.kind = "elf" THEN [needs |-> f.needs, paths |-> f.paths]
    ELSE [needs |-> <<>>, paths |-> <<>>]

\* The first directory that has it, as a file.
FindLibrary(name, paths) ==
    LET dirs == paths \o DefaultDirs
        At(k) == {f \in image.files : f.dir = dirs[k] /\ f.name = name
                                                      /\ f.kind # "dangling"}
        hits == {k \in DOMAIN dirs : At(k) # {}}
    IN IF hits = {} THEN NoFile
       ELSE CHOOSE f \in At(CHOOSE k \in hits : \A l \in hits : k <= l) : TRUE

\* What is directly in bin and pkglib; LLVM's needs are not followed.
ElfFiles == {f \in image.files : f.dir \in {"bin", "pkglib"}
                                   /\ f.kind # "dangling" /\ f.name # "llvmjit"}

\* stage: the image must carry the data directory's version, or nothing is
\* touched.  A restarted stage runs from the start.
BeginStage ==
    /\ stage \in {"none", "refused", "killed", "staged", "failed", "made"}
    /\ stages < MaxStages
    /\ stages' = stages + 1
    /\ image' \in Image
    /\ stage' = IF image'.version = DataVersion THEN "clear" ELSE "refused"
    /\ UNCHANGED <<copied, tree, Searched, libDirs, target, control>>

\* A search that has not begun.
Unsearched ==
    /\ read' = {} /\ queue' = <<>> /\ needed' = <<>> /\ within' = <<>>
    /\ seen' = {} /\ lost' = {} /\ libraries' = {}

\* Mutant: what an earlier attempt staged is written over.
WriteOver ==
    /\ stage = "clear" /\ stage' = "copy"
    /\ copied' = {} /\ libDirs' = {} /\ Unsearched
    /\ UNCHANGED <<image, tree, target, control, stages>>

ClearStage ==
    /\ stage = "clear" /\ stage' = "copy"
    /\ tree' = {}
    /\ copied' = {} /\ libDirs' = {} /\ Unsearched
    /\ UNCHANGED <<image, target, control, stages>>

\* A symbolic link is followed, a dangling one is left out.
CopyTree(dirs) == {f \in image.files : f.kind # "dangling" /\ f.dir \in dirs}

CopyInstallation ==
    /\ stage = "copy"
    /\ \E d \in Installation \ copied :
        /\ copied' = copied \cup {d}
        /\ tree' = tree \cup CopyTree({d} \cup IF d = "pkglib" THEN {"nested"} ELSE {})
    /\ stage' = IF copied' = Installation THEN "read" ELSE "copy"
    /\ UNCHANGED <<image, Searched, libDirs, target, control, stages>>

\* resolve_dependencies, its first loop, in readdir's order.
ReadRoot ==
    /\ stage = "read" /\ needed = <<>>
    /\ \/ \E r \in ElfFiles \ read :
            LET i == DynamicInfo(r)
            IN /\ read' = read \cup {r}
               /\ queue' = Append(queue, [file |-> r, paths |-> i.paths])
               /\ needed' = i.needs /\ within' = i.paths
               /\ UNCHANGED stage
       \/ /\ read = ElfFiles
          /\ stage' = "search"
          /\ UNCHANGED <<read, queue, needed, within>>
    /\ UNCHANGED <<image, copied, tree, seen, lost, libraries, libDirs, target,
                   control, stages>>

\* Mutant: what a library needs itself is not looked for.
FirstLevelOnly ==
    /\ stage = "search" /\ needed = <<>> /\ queue # <<>>
    /\ LET file == Head(queue).file IN
        libraries' = IF IsGlibcCore(file.name) \/ file.dir \in Below THEN libraries
                     ELSE libraries \cup {file}
    /\ queue' = Tail(queue)
    /\ UNCHANGED <<stage, image, copied, tree, read, needed, within, seen, lost,
                   libDirs, target, control, stages>>

\* Its second loop: what belongs to glibc is neither staged nor followed, what
\* is in the installation is there already.
NextFile ==
    /\ stage = "search" /\ needed = <<>> /\ queue # <<>>
    /\ LET e == Head(queue)
           i == DynamicInfo(e.file)
       IN IF IsGlibcCore(e.file.name)
          THEN UNCHANGED <<needed, within, libraries>>
          ELSE /\ libraries' = IF e.file.dir \in Below \/ e.file \in ElfFiles
                               THEN libraries ELSE libraries \cup {e.file}
               /\ needed' = i.needs /\ within' = i.paths \o e.paths
    /\ queue' = Tail(queue)
    /\ UNCHANGED <<stage, image, copied, tree, read, seen, lost, libDirs, target,
                   control, stages>>

\* Both loops: a name is looked for once, for the file that needs it first;
\* only the second loop passes over glibc's.
NextName ==
    /\ stage \in {"read", "search"} /\ needed # <<>>
    /\ LET name == Head(needed)
           found == FindLibrary(name, within)
       IN /\ seen' = seen \cup {name}
          /\ IF name \in seen \/ (stage = "search" /\ IsGlibcCore(name))
             THEN UNCHANGED <<queue, lost>>
             ELSE IF found = NoFile
             THEN /\ lost' = lost \cup {name}
                  /\ UNCHANGED queue
             ELSE /\ queue' = Append(queue, [file |-> found, paths |-> within])
                  /\ UNCHANGED lost
    /\ needed' = Tail(needed)
    /\ UNCHANGED <<stage, image, copied, tree, read, within, libraries, libDirs,
                   target, control, stages>>

\* The libraries are copied after the installation, and reported.
ReportStage ==
    /\ stage = "search" /\ needed = <<>> /\ queue = <<>>
    /\ tree' = tree \cup libraries
    /\ libDirs' = {f.dir : f \in libraries} \cup {"pkglib"}
    /\ stage' = "staged"
    /\ UNCHANGED <<image, copied, Searched, target, control, stages>>

\* The stage's container is killed.
StageDies ==
    /\ stage \in {"copy", "read", "search"}
    /\ stage' = "killed"
    /\ UNCHANGED <<image, copied, tree, Searched, libDirs, target, control, stages>>

-----------------------------------------------------------------------------
(* In the new image.                                                       *)

\* What the loader finds for a staged program: LD_LIBRARY_PATH's directories
\* in the staging directory first, then those of the image.
Finds(name) ==
    \/ name \in target.has
    \/ \E f \in tree : f.name = name /\ f.dir \in libDirs

\* What a program loads before main: the smallest set of names that has its
\* needs and those of what is found for them.
Loads(program) ==
    LET Needs(n) == UNION {Named(DynamicInfo(f).needs) :
                               f \in {f \in tree : f.name = n /\ f.dir \in libDirs}}
        Closed(s) == /\ Named(DynamicInfo(program).needs) \subseteq s
                     /\ \A n \in s : IsGlibcCore(n) \/ Needs(n) \subseteq s
        all == UNION {Named(f.needs) : f \in tree}
    IN CHOOSE s \in SUBSET all :
        Closed(s) /\ \A s2 \in SUBSET all : Closed(s2) => s \subseteq s2

RunsHere(program) ==
    /\ target.runs
    /\ \A n \in Loads(program) : Finds(n)

Programs == {f \in tree : f.dir = "bin"}

\* write_wrappers: one for each file that is staged in bin; none is an error.
WriteWrappers ==
    /\ stage = "staged"
    /\ target' \in Target
    /\ stage' = IF Programs = {} THEN "failed" ELSE "wrapped"
    /\ UNCHANGED <<image, copied, tree, Searched, libDirs, control, stages>>

\* verify_staged_binaries: pg_ctl --version, for all of them.
VerifyStaged ==
    /\ stage = "wrapped"
    /\ stage' = IF \E f \in Programs : f.name = "pg_ctl" /\ RunsHere(f)
                THEN "verified" ELSE "failed"
    /\ UNCHANGED <<image, copied, tree, Searched, libDirs, target, control, stages>>

\* DataChecksums: anything but "0" is on.
Checksums(c) == c.checksums # "0"

\* read_control_data with the old program.
ReadControlData ==
    /\ stage = "verified"
    /\ control' \in [clean : BOOLEAN, checksums : {"0", "1", "?"},
                     options : {<<>>}, made : {"none"}]
    /\ stage' = IF control'.clean THEN "initdb" ELSE "failed"
    /\ UNCHANGED <<image, copied, tree, Searched, libDirs, target, stages>>

\* PostgreSQL's own default, since 18.
OnByDefault == target.version >= 18

\* Mutant: only what is asked for is said.
OnOrNothing(on) == IF on THEN <<"on">> ELSE <<>>

\* argv_for's own: --data-checksums, or --no-data-checksums where there is one,
\* and otherwise what the version does of itself.
InitdbFlag(on) == IF on THEN <<"on">> ELSE IF target.version >= 18 THEN <<"off">> ELSE <<>>

\* The operator's options come after it, unread.
InitdbArgv(on, options) == InitdbFlag(on) \o options

\* What initdb makes of them: the last one counts.
MadeBy(argv) ==
    IF argv # <<>> THEN argv[Len(argv)] ELSE IF OnByDefault THEN "on" ELSE "off"

\* Before 18 it has no --no-data-checksums and refuses it.
UnknownOption(argv) == "off" \in Named(argv) /\ target.version < 18

InitdbNew ==
    /\ stage = "initdb"
    /\ \E options \in Options :
        LET argv == InitdbArgv(Checksums(control), options) IN
        IF UnknownOption(argv)
        THEN stage' = "failed" /\ UNCHANGED control
        ELSE /\ stage' = "made"
             /\ control' = [control EXCEPT !.options = options, !.made = MadeBy(argv)]
    /\ UNCHANGED <<image, copied, tree, Searched, libDirs, target, stages>>

-----------------------------------------------------------------------------
NoControl == [clean |-> FALSE, checksums |-> "?", options |-> <<>>, made |-> "none"]
NoImage   == [version |-> 0, files |-> {}]
NoTarget  == [version |-> 0, runs |-> FALSE, has |-> {}]

StagingInit ==
    /\ stage = "none" /\ image = NoImage /\ target = NoTarget
    /\ copied = {} /\ tree = {}
    /\ read = {} /\ queue = <<>> /\ needed = <<>> /\ within = <<>>
    /\ seen = {} /\ lost = {} /\ libraries = {} /\ libDirs = {}
    /\ control = NoControl /\ stages = 0

StagingNext ==
    \/ BeginStage \/ ClearStage \/ CopyInstallation \/ ReadRoot \/ NextName
    \/ NextFile \/ ReportStage \/ StageDies
    \/ WriteWrappers \/ VerifyStaged \/ ReadControlData \/ InitdbNew

StagingSpec == StagingInit /\ [][StagingNext]_stagingVars

-----------------------------------------------------------------------------
(* Properties.                                                             *)

\* The staged tree is this image's and no other attempt's: its installation
\* and its libraries, none of them glibc's, each once.
StagedFromOneImage ==
    stage = "staged" =>
        /\ tree = CopyTree(Installation \cup {"nested"}) \cup libraries
        /\ \A f \in libraries : ~IsGlibcCore(f.name) /\ f.dir \notin Below
        /\ \A f, g \in libraries : f.name = g.name => f = g

\* "Prove the staged binaries actually run here, before any data moves": once
\* pg_ctl has run, so do all of them, as long as each library they name is one
\* that was found by the first file that named it, or the new image has it.
VerifiedMeansAllRun ==
    stage \in {"verified", "initdb", "made"} =>
        \A p \in Programs : DynamicInfo(p).needs # <<>> =>
            \A n \in Loads(p) :
                Finds(n) \/ n \in lost \/ IsGlibcCore(n)

\* pg_upgrade refuses clusters that differ in their checksums: the new one has
\* those of the old one, whatever its version's default, as long as the
\* operator's initdb.options are silent; else it has what they say last.
ChecksumsCarried ==
    stage = "made" =>
        IF control.options = <<>>
        THEN control.checksums # "?" =>
                 ((control.made = "on") <=> (control.checksums = "1"))
        ELSE control.made = control.options[Len(control.options)]
=============================================================================
