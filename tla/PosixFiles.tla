----------------------------- MODULE PosixFiles -----------------------------
(***************************************************************************)
(* What leveldb's files still hold after the machine stops: the writable   *)
(* files of util/env_posix.cc and the order in which BuildTable            *)
(* (db/builder.cc), NewDB, LogAndApply, SetCurrentFile (db/filename.cc)    *)
(* and the removal of obsolete files use them.                             *)
(*                                                                         *)
(* A file is a sequence of items (the whole of a table is one item, an     *)
(* edit in a descriptor another).  Appended items are in the stdio buffer, *)
(* flushed ones in the operating system, synced ones on the disk: these    *)
(* are left after a power loss.  The directory changes in the order of the *)
(* calls; a power loss leaves it as it was after some call since it was    *)
(* last synced.                                                            *)
(***************************************************************************)
EXTENDS Naturals, Sequences, FiniteSets

CONSTANTS
    MaxFileNumber,   \* bound on the file numbers
    MaxFailures      \* bound on failed calls and on power losses

VARIABLES
    dirs,     \* directories name -> number of file, oldest that may survive first
    content,  \* the items of each file, by number
    flushed, synced,  \* how many of them the system, the disk has
    todo,     \* calls the process still has to make
    version,  \* tables of the version in memory
    manifest, \* number of the descriptor in use, 0 for none
    number,   \* next file number
    failures

fileVars == << dirs, content, flushed, synced, todo, version, manifest, number, failures >>

Table(n) == << "ldb", n >>
Manifest(n) == << "MANIFEST", n >>
Temp(n) == << "dbtmp", n >>
Current == << "CURRENT", 0 >>

Dir == dirs[Len(dirs)]
With(f, k, x) == [n \in DOMAIN f \cup {k} |-> IF n = k THEN x ELSE f[n]]
Without(f, k) == [n \in DOMAIN f \ {k} |-> f[n]]

-----------------------------------------------------------------------------
(* The calls.  A call is [op, name, item, to]. *)

Call(op, name) == [op |-> op, name |-> name, item |-> << >>, to |-> name]
AppendCall(name, item) == [op |-> "append", name |-> name, item |-> item, to |-> name]
RenameCall(name, to) == [op |-> "rename", name |-> name, item |-> << >>, to |-> to]

IsManifest(name) == name[1] = "MANIFEST"

\* Mutant of SyncCalls: the directory is not synced.
SyncDataOnly(name) == << Call("syncdata", name) >>

\* PosixWritableFile::Sync: the directory first, if the file is a descriptor.
SyncCalls(name) ==
    IF IsManifest(name) THEN << Call("syncdir", name), Call("syncdata", name) >>
    ELSE << Call("syncdata", name) >>

\* DoWriteStringToFile and SetCurrentFile.
SetCurrentFile(n) ==
    << Call("create", Temp(n)), AppendCall(Temp(n), << "current", n >>) >>
        \o SyncCalls(Temp(n))
        \o << Call("close", Temp(n)), RenameCall(Temp(n), Current) >>

\* A descriptor's items, and the tables they leave: those that an edit adds and
\* no later one deletes.
EditItem(add, del) == << "edit", add, del >>
Tables(items) ==
    {n \in UNION {items[i][2] : i \in DOMAIN items} :
        \E i \in DOMAIN items : /\ n \in items[i][2]
                                /\ \A j \in DOMAIN items : j > i => n \notin items[j][3]}

\* NewDB closes the first descriptor without syncing it.
NewDBCalls ==
    << Call("create", Manifest(1)), AppendCall(Manifest(1), EditItem({}, {})),
       Call("flush", Manifest(1)), Call("close", Manifest(1)) >> \o SetCurrentFile(1)

\* BuildTable.
BuildTableCalls(n) ==
    << Call("create", Table(n)), AppendCall(Table(n), << "table", n >>) >>
        \o SyncCalls(Table(n)) \o << Call("close", Table(n)) >>

\* LogAndApply: AddRecord flushes what it appends.
LogCalls(n, add, del) ==
    << AppendCall(Manifest(n), EditItem(add, del)), Call("flush", Manifest(n)) >>
        \o SyncCalls(Manifest(n))

\* LogAndApply when the database is opened: a new descriptor with a snapshot
\* and the edit, then CURRENT.
OpenCalls(n, tables) ==
    << Call("create", Manifest(n)), AppendCall(Manifest(n), EditItem(tables, {})),
       Call("flush", Manifest(n)) >> \o LogCalls(n, {}, {}) \o SetCurrentFile(n)

\* The version a job ends in.
Done(tables, n) == [op |-> "done", name |-> Manifest(n), item |-> tables, to |-> Current]

\* DeleteObsoleteFiles.
Obsolete == {x \in DOMAIN Dir :
                \/ x[1] = "ldb" /\ x[2] \notin version
                \/ x[1] = "MANIFEST" /\ x[2] < manifest
                \/ x[1] = "dbtmp"}

-----------------------------------------------------------------------------
(* Running them *)

FileOf(name) == Dir[name]
NewInode == Len(content) + 1

Effect(c) ==
    \/ /\ c.op = "create"
       /\ dirs' = Append(dirs, With(Dir, c.name, NewInode))
       /\ content' = Append(content, << >>)
       /\ flushed' = Append(flushed, 0)
       /\ synced' = Append(synced, 0)
       /\ UNCHANGED << version, manifest >>
    \/ /\ c.op = "append"
       /\ content' = [content EXCEPT ![FileOf(c.name)] = Append(@, c.item)]
       /\ UNCHANGED << dirs, flushed, synced, version, manifest >>
    \/ /\ c.op \in {"flush", "close"}
       /\ flushed' = [flushed EXCEPT ![FileOf(c.name)] = Len(content[FileOf(c.name)])]
       /\ UNCHANGED << dirs, content, synced, version, manifest >>
    \/ /\ c.op = "syncdir"
       /\ dirs' = << Dir >>
       /\ UNCHANGED << content, flushed, synced, version, manifest >>
    \/ /\ c.op = "syncdata"
       /\ flushed' = [flushed EXCEPT ![FileOf(c.name)] = Len(content[FileOf(c.name)])]
       /\ synced' = [synced EXCEPT ![FileOf(c.name)] = Len(content[FileOf(c.name)])]
       /\ UNCHANGED << dirs, content, version, manifest >>
    \/ /\ c.op = "rename"
       /\ dirs' = Append(dirs, With(Without(Dir, c.name), c.to, FileOf(c.name)))
       /\ UNCHANGED << content, flushed, synced, version, manifest >>
    \/ /\ c.op = "done"
       /\ version' = c.item /\ manifest' = c.name[2]
       /\ UNCHANGED << dirs, content, flushed, synced >>

MakeCall ==
    /\ todo # << >>
    /\ Effect(Head(todo))
    /\ todo' = Tail(todo)
    /\ UNCHANGED << number, failures >>

\* A call fails: BuildTable and DoWriteStringToFile remove their file, and a
\* descriptor that CURRENT does not name yet is removed too.  After an error
\* the database does nothing until it is opened again, with what the buffers
\* held written or lost.
CallFails ==
    /\ todo # << >> /\ Head(todo).op # "done"
    /\ failures < MaxFailures /\ failures' = failures + 1
    /\ LET name == Head(todo).name
           half == IF manifest = 0 THEN {name, Manifest(name[2])}
                   ELSE {name} \ {Manifest(manifest)}
           dir  == [n \in DOMAIN Dir \ half |-> Dir[n]]
       IN  dirs' = IF dir = Dir THEN dirs ELSE Append(dirs, dir)
    /\ \/ flushed' = [f \in DOMAIN content |-> Len(content[f])] /\ UNCHANGED content
       \/ content' = [f \in DOMAIN content |-> SubSeq(content[f], 1, flushed[f])]
          /\ UNCHANGED flushed
    /\ todo' = << >> /\ version' = {} /\ manifest' = 0
    /\ UNCHANGED << synced, number >>

\* The process has no call under way and takes a job.
Ready == todo = << >>

CreateDB ==
    /\ Ready /\ manifest = 0 /\ Current \notin DOMAIN Dir
    /\ todo' = NewDBCalls
    /\ UNCHANGED << dirs, content, flushed, synced, version, manifest, number, failures >>

NamedBy(dir, file) == file[dir[Current]][1][2]

OpenFiles ==
    /\ Ready /\ manifest = 0 /\ Current \in DOMAIN Dir
    /\ number <= MaxFileNumber
    /\ LET m == Manifest(NamedBy(Dir, content))
       IN  /\ m \in DOMAIN Dir
           /\ \A n \in Tables(content[Dir[m]]) : Table(n) \in DOMAIN Dir
           /\ content[Dir[m]] # << >>
           /\ todo' = OpenCalls(number, Tables(content[Dir[m]]))
                         \o << Done(Tables(content[Dir[m]]), number) >>
    /\ number' = number + 1
    /\ UNCHANGED << dirs, content, flushed, synced, version, manifest, failures >>

\* A flush adds a table; a compaction replaces some.
AddTable(gone) ==
    /\ Ready /\ manifest # 0 /\ number <= MaxFileNumber
    /\ todo' = BuildTableCalls(number) \o LogCalls(manifest, {number}, gone)
                  \o << Done((version \ gone) \cup {number}, manifest) >>
    /\ number' = number + 1
    /\ UNCHANGED << dirs, content, flushed, synced, version, manifest, failures >>

DeleteObsolete(name) ==
    /\ Ready /\ manifest # 0 /\ name \in Obsolete
    /\ dirs' = Append(dirs, Without(Dir, name))
    /\ UNCHANGED << content, flushed, synced, todo, version, manifest, number, failures >>

\* The machine stops and starts again.
PowerLoss ==
    /\ failures < MaxFailures /\ failures' = failures + 1
    /\ \E i \in DOMAIN dirs : dirs' = << dirs[i] >>
    /\ content' = [f \in DOMAIN content |-> SubSeq(content[f], 1, synced[f])]
    /\ flushed' = synced
    /\ todo' = << >> /\ version' = {} /\ manifest' = 0
    /\ UNCHANGED << synced, number >>

FilesInit ==
    /\ dirs = << << >> >> /\ content = << >> /\ flushed = << >> /\ synced = << >>
    /\ todo = << >> /\ version = {} /\ manifest = 0 /\ number = 2 /\ failures = 0

FilesNext == \/ MakeCall \/ CallFails \/ CreateDB \/ OpenFiles \/ PowerLoss
             \/ \E gone \in {{}, version} : AddTable(gone)
             \/ \E name \in Obsolete : DeleteObsolete(name)

FilesSpec == FilesInit /\ [][FilesNext]_fileVars

-----------------------------------------------------------------------------
(* Properties *)

\* Whatever directory a power loss leaves, if CURRENT is there it names a
\* descriptor that is there and not empty, and every table of the version in
\* it is there in full.  The first descriptor is left out: NewDB does not sync
\* it.
Sound(dir) ==
    LET m == Manifest(NamedBy(dir, content))
    IN  /\ synced[dir[Current]] = 1
        /\ m \in DOMAIN dir
        /\ synced[dir[m]] > 0
        /\ \A n \in Tables(SubSeq(content[dir[m]], 1, synced[dir[m]])) :
              Table(n) \in DOMAIN dir /\ synced[dir[Table(n)]] = 1
SurvivesPowerLoss ==
    \A i \in DOMAIN dirs :
        Current \in DOMAIN dirs[i] /\ NamedBy(dirs[i], content) # 1 => Sound(dirs[i])
=============================================================================
