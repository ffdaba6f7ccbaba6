------------------------------ MODULE BackedFiles ------------------------------
(***************************************************************************)
(* The files of the key store: the checksum of a file is kept in an         *)
(* attribute, its label, and a copy of it in a backup directory, from which *)
(* the next open restores it.  One thread makes the system calls; a crash   *)
(* between any two leaves what was not flushed or something older.          *)
(***************************************************************************)
EXTENDS Integers, Sequences, FiniteSets

CONSTANTS
    Paths,
    Versions,         \* what a client writes
    MaxRounds,        \* bound: calls of open, delete, copy and rename
    MaxTrouble        \* bound: failed system calls, crashes and damaged files

ASSUME FilesAssumption ==
    /\ IsFiniteSet(Paths) /\ MaxRounds \in Nat /\ MaxTrouble \in Nat
    /\ "none" \notin Versions \cup Paths    \* the label of a file without one

\* The content a path starts with goes by the name of the path.
Whole == Versions \cup Paths \cup {"empty"}
File == [data : Whole \cup {"part", "rot"}, label : Whole \cup {"part", "rot", "none"}]
NoFile == [data |-> "none", label |-> "none"]
Names == Paths \X {"primary", "backup"}
Primary(p) == <<p, "primary">>
Backup(p) == <<p, "backup">>

\* The flags of open() that tell the cases of taf_pa_file_Open apart.
Flags == [writes : BOOLEAN, creates : BOOLEAN, truncates : BOOLEAN, exclusive : BOOLEAN]
O_RDONLY == [writes |-> FALSE, creates |-> FALSE, truncates |-> FALSE, exclusive |-> FALSE]
O_CREAT == [O_RDONLY EXCEPT !.writes = TRUE, !.creates = TRUE]
O_TRUNC == [O_CREAT EXCEPT !.truncates = TRUE]
O_EXCL == [O_CREAT EXCEPT !.exclusive = TRUE]

VARIABLES
    names,            \* the file each name leads to, 0 if there is none
    namesLeft,        \* what a crash may leave of names
    inodes,           \* the files
    inodesLeft,       \* what a crash may leave of each
    fds,              \* the descriptors of the client
    todo,             \* the steps the call under way has left
    failed,           \* one of them failed, up to where the code looks at it
    backupResult,     \* of a rename: nothing failed so far
    worth,            \* what the next open of a path may find, by what its client was told
    loose,            \* paths exempt for now: created and not closed, damaged twice, a step failed
    moving,           \* the last rename whose source was whole
    rounds, trouble

diskVars == <<names, namesLeft, inodes, inodesLeft>>
promiseVars == <<worth, loose, moving>>
fileVars == <<diskVars, fds, todo, failed, backupResult, promiseVars, rounds, trouble>>

-----------------------------------------------------------------------------
(* What the code reads.                                                    *)

Exists(n) == names[n] # 0
At(n) == IF Exists(n) THEN inodes[names[n]] ELSE NoFile
\* What a crash may leave of file i.
Left(i) == IF i = 0 THEN {NoFile} ELSE inodesLeft[i]
\* ValidateFileCRC32CWithExtendedAttr returns PA_OK.
Validates(f) == f.label # "none" /\ f.label = f.data
HasMatchingBackup(p) == Validates(At(Backup(p))) /\ At(Backup(p)).label = At(Primary(p)).data

-----------------------------------------------------------------------------
(* What its system calls do to the disk.  The operations on directories     *)
(* become durable in their order, up to any of them; fsync of a directory   *)
(* makes the entry so that the code syncs it for.                           *)

Points(n, i) ==
    /\ names' = [names EXCEPT ![n] = i]
    /\ namesLeft' = namesLeft \cup {names'}
SyncName(n) ==
    /\ namesLeft' = {left \in namesLeft : left[n] = names[n]}
    /\ UNCHANGED <<names, inodes, inodesLeft>>

\* A new file under name n.  A copy is complete and flushed before it gets its name.
Creates(n, content) ==
    LET f == [data |-> content, label |-> "none"]
    IN  /\ inodes' = Append(inodes, f)
        /\ inodesLeft' = Append(inodesLeft, {f})
        /\ Points(n, Len(inodes) + 1)

\* Content and attribute reach the disk in any order, and of a write any part.
Becomes(i, f) ==
    LET contents == {g.data : g \in inodesLeft[i]} \cup {f.data}
                        \cup IF f.data = inodes[i].data THEN {} ELSE {"part"}
        labels == {g.label : g \in inodesLeft[i]} \cup {f.label}
    IN  /\ inodes' = [inodes EXCEPT ![i] = f]
        /\ inodesLeft' = [inodesLeft EXCEPT ![i] = [data : contents, label : labels]]
        /\ UNCHANGED <<names, namesLeft>>
SyncFile(n) ==
    /\ inodesLeft' = IF Exists(n) THEN [inodesLeft EXCEPT ![names[n]] = {At(n)}] ELSE inodesLeft
    /\ UNCHANGED <<names, namesLeft, inodes>>
Unlinks(n) ==
    /\ Points(n, 0)
    /\ UNCHANGED <<inodes, inodesLeft>>

-----------------------------------------------------------------------------
(* The calls as sequences of steps.                                        *)

Step(do, p) == [do |-> do, at |-> p, flags |-> O_RDONLY, to |-> p]
StepWith(do, p, flags) == [Step(do, p) EXCEPT !.flags = flags]
StepTo(do, p, q) == [Step(do, p) EXCEPT !.to = q]

BackupFileToStorage(p) ==
    <<Step("copy_to_backup", p), Step("sync_copy_name", p), Step("label", p),
      Step("label_backup", p), Step("sync_backup", p)>>
RefreshBackupIfNeeded(p) ==
    IF HasMatchingBackup(p) THEN <<>> ELSE BackupFileToStorage(p)
ReplaceFileWithBackup(p) ==
    <<Step("copy_to_primary", p), Step("sync_restored_name", p), Step("label_restored", p),
      Step("sync_restored", p), Step("sync_name_again", p)>>
DeleteBackup(p) == <<Step("unlink_backup", p), Step("sync_unlink_backup", p)>>

\* Without a backup a file may still be created.
Restore(p, flags, optional) ==
    ReplaceFileWithBackup(p)
        \o <<StepWith(IF optional THEN "restored" ELSE "tracked", p, flags), StepWith("open", p, flags)>>

\* Mutant of WantsFresh: whoever may create a file gets a new one.
OnCreate(flags) == flags.creates

\* The flags that say not to restore a file that is gone.
WantsFresh(flags) == flags.truncates \/ flags.exclusive

\* What taf_pa_file_Open does, by what it finds.
Opening(p, flags) ==
    LET open == StepWith("open", p, flags)
    IN  IF ~Exists(Primary(p))
        THEN IF WantsFresh(flags) THEN <<open>>
             ELSE Restore(p, flags, flags.creates)
        ELSE IF Validates(At(Primary(p)))
        THEN RefreshBackupIfNeeded(p) \o <<Step("refreshed", p), open>>
        ELSE IF At(Primary(p)).label = "none" /\ ~Validates(At(Backup(p)))
        THEN BackupFileToStorage(p) \o <<Step("tracked", p), open>>
        ELSE Restore(p, flags, FALSE)

\* Mutant of Labelling: the file is not flushed before its backup is refreshed.
LabellingUnflushed(p) == <<Step("checksum", p), Step("refresh", p)>>

Labelling(p) == <<Step("checksum", p), Step("sync", p), Step("refresh", p)>>
Closing(p) == Labelling(p) \o <<Step("closed", p)>>
Deleting(p) ==
    <<Step("unlink", p), Step("sync_unlink", p)>> \o DeleteBackup(p) \o <<Step("deleted", p)>>
Copying(p, q) ==
    <<StepWith("enter", p, O_RDONLY), StepWith("enter", q, O_TRUNC),
      Step("fill_in_part", q), StepTo("fill", q, p), Step("copy_context", q),
      Step("filled", q)>> \o Closing(q) \o <<Step("match", q)>>
Renaming(p, q) ==
    <<StepTo("move", p, q), Step("sync_move", q), Step("after_move", q)>> \o DeleteBackup(p)
        \o <<Step("after_unlink", q), Step("checksum_moved", q)>> \o BackupFileToStorage(q)
        \o <<StepTo("moved", p, q), StepTo("renamed", p, q)>>
\* rename() across file systems.
RenamingByCopy(p, q) == Copying(p, q) \o <<Step("match", q), StepTo("leave", p, q)>> \o Deleting(p)

\* Where the code looks at what failed before.
Landings == {"tracked", "refreshed", "restored", "filled", "closed", "discarded", "after_move",
             "after_unlink", "moved", "renamed", "deleted"}
\* Steps that ask nothing of the system that could fail.
Decisions == Landings \cup {"enter", "refresh", "match", "leave"}
FromLanding(steps) ==
    LET at == {i \in 1..Len(steps) : steps[i].do \in Landings}
    IN  IF at = {} THEN <<>>
        ELSE SubSeq(steps, CHOOSE i \in at : \A j \in at : i <= j, Len(steps))

-----------------------------------------------------------------------------
(* A disk on which nothing waits to be flushed, by what each name leads to.  *)

Number == CHOOSE number \in [Names -> 1..Cardinality(Names)] :
              \A m, n \in Names : m # n => number[m] # number[n]
NamesFor(files) == [n \in Names |-> IF files[n] = NoFile THEN 0 ELSE Number[n]]
InodesFor(files) ==
    [i \in 1..Cardinality(Names) |-> files[CHOOSE n \in Names : Number[n] = i]]

\* Paths that were closed and backed up, files nobody opened yet, and paths without a file.
FilesInit ==
    /\ \E kept, untracked \in SUBSET Paths :
           /\ kept \cap untracked = {}
           /\ LET files == [n \in Names |->
                      IF n[1] \in kept THEN [data |-> n[1], label |-> n[1]]
                      ELSE IF n[1] \in untracked /\ n[2] = "primary"
                      THEN [data |-> n[1], label |-> "none"] ELSE NoFile]
              IN  names = NamesFor(files) /\ inodes = InodesFor(files)
           /\ worth = [p \in Paths |->
                  IF p \in kept \cup untracked THEN {p} ELSE {"missing"}]
    /\ namesLeft = {names}
    /\ inodesLeft = [i \in 1..Cardinality(Names) |-> {inodes[i]}]
    /\ fds = {} /\ todo = <<>> /\ failed = FALSE /\ backupResult = TRUE
    /\ loose = {} /\ moving = {} /\ rounds = 0 /\ trouble = 0

NoCall == todo = <<>>
Doing(do) == ~NoCall /\ Head(todo).do = do
DoingOneOf(deeds) == ~NoCall /\ Head(todo).do \in deeds
Path == Head(todo).at
Content(p) == At(Primary(p)).data
Proceeds == todo' = Tail(todo)
EndCall == todo' = <<>> /\ failed' = FALSE

\* A step that fails: the next landing is to see it.
Fails ==
    /\ todo' = FromLanding(todo) /\ failed' = TRUE
    /\ loose' = loose \cup {Path}
    /\ UNCHANGED <<diskVars, worth, moving>>

SystemCallFails ==
    /\ ~NoCall /\ Head(todo).do \notin Decisions /\ trouble < MaxTrouble
    /\ trouble' = trouble + 1
    /\ IF Head(todo).do \in {"open", "move"}
       THEN EndCall /\ UNCHANGED <<diskVars, promiseVars>>
       ELSE Fails
    /\ UNCHANGED <<fds, backupResult, rounds>>

-----------------------------------------------------------------------------
(* The client.                                                             *)

Calls(steps) ==
    /\ NoCall /\ rounds < MaxRounds
    /\ rounds' = rounds + 1
    /\ todo' = steps
    /\ moving' = {}
    /\ UNCHANGED <<diskVars, fds, failed, backupResult, worth, loose, trouble>>

\* Bound: what follows a trouble is an open that restores.
NoTrouble == trouble = 0
taf_pa_file_Open(p, flags) ==
    /\ NoTrouble \/ flags \in {O_RDONLY, O_CREAT}
    /\ Cardinality(fds) < 2
    /\ Calls(<<StepWith("enter", p, flags)>>)
taf_pa_file_Delete(p) == NoTrouble /\ Calls(Deleting(p))
\* A client copies and renames files it has closed.
Closed(p) == \A fd \in fds : names[Primary(p)] # fd.id
taf_pa_file_Copy(p, q) == NoTrouble /\ p # q /\ Closed(p) /\ Calls(Copying(p, q))
taf_pa_file_Rename(p, q) ==
    /\ NoTrouble /\ p # q /\ Closed(p)
    /\ Calls(Renaming(p, q)) \/ Calls(RenamingByCopy(p, q))

taf_pa_file_Write(fd) ==
    /\ NoCall /\ fd.writes
    /\ \E n \in Names : names[n] = fd.id
    /\ \E content \in Versions :
           /\ content # inodes[fd.id].data
           /\ Becomes(fd.id, [inodes[fd.id] EXCEPT !.data = content])
    /\ moving' = {}
    /\ UNCHANGED <<fds, todo, failed, backupResult, worth, loose, rounds, trouble>>

\* The path is that the file has now: a file that lost its name is closed and no more.
taf_pa_file_Close(fd) ==
    /\ NoCall
    /\ fds' = fds \ {fd}
    /\ \/ \E p \in Paths :
              /\ names[Primary(p)] = fd.id /\ fd.writes
              /\ todo' = Closing(p)
       \/ /\ ~fd.writes \/ \A p \in Paths : names[Primary(p)] # fd.id
          /\ UNCHANGED todo
    /\ UNCHANGED <<diskVars, failed, backupResult, promiseVars, rounds, trouble>>

-----------------------------------------------------------------------------
(* The steps.                                                              *)

Enter ==
    /\ Doing("enter")
    /\ todo' = Opening(Path, Head(todo).flags) \o Tail(todo)
    /\ UNCHANGED <<diskVars, fds, failed, backupResult, promiseVars, rounds, trouble>>
Refresh ==
    /\ Doing("refresh")
    /\ todo' = RefreshBackupIfNeeded(Path) \o Tail(todo)
    /\ UNCHANGED <<diskVars, fds, failed, backupResult, promiseVars, rounds, trouble>>

CopyToBackup ==
    /\ Doing("copy_to_backup")
    /\ \/ Creates(Backup(Path), Content(Path)) /\ Proceeds /\ UNCHANGED <<failed, promiseVars>>
       \/ ~Exists(Backup(Path)) /\ Fails    \* CountBackupFiles: other files took the room
    /\ UNCHANGED <<fds, backupResult, rounds, trouble>>

CopyToPrimary ==
    /\ Doing("copy_to_primary")
    /\ IF Validates(At(Backup(Path)))
       THEN Creates(Primary(Path), At(Backup(Path)).data) /\ Proceeds /\ UNCHANGED <<failed, promiseVars>>
       ELSE Fails
    /\ UNCHANGED <<fds, backupResult, rounds, trouble>>

\* The steps after which a client may find what it wrote.
Checksums == {"checksum", "checksum_moved"}

\* The checksum of the content, or of the copy, which is the same.
Label ==
    /\ DoingOneOf({"label", "label_restored"} \cup Checksums)
    /\ Becomes(names[Primary(Path)], [data |-> Content(Path), label |-> Content(Path)])
    /\ worth' = IF DoingOneOf(Checksums) THEN [worth EXCEPT ![Path] = @ \cup ({Content(Path)} \cap Whole)]
                ELSE worth
    /\ loose' = IF DoingOneOf(Checksums) /\ Content(Path) \notin Whole THEN loose \cup {Path}
                ELSE loose
    /\ Proceeds /\ UNCHANGED <<fds, failed, backupResult, moving, rounds, trouble>>
LabelBackup ==
    /\ Doing("label_backup")
    /\ LET copy == At(Backup(Path)).data
       IN  Becomes(names[Backup(Path)], [data |-> copy, label |-> copy])
    /\ Proceeds /\ UNCHANGED <<fds, failed, backupResult, promiseVars, rounds, trouble>>

Sync ==
    /\ \/ DoingOneOf({"sync", "sync_restored"}) /\ SyncFile(Primary(Path))
       \/ Doing("sync_backup") /\ SyncFile(Backup(Path))
       \/ /\ DoingOneOf({"sync_restored_name", "sync_name_again", "sync_unlink", "sync_move"})
          /\ SyncName(Primary(Path))
       \/ DoingOneOf({"sync_copy_name", "sync_unlink_backup"}) /\ SyncName(Backup(Path))
    /\ Proceeds /\ UNCHANGED <<fds, failed, backupResult, promiseVars, rounds, trouble>>

Unlink ==
    /\ \/ /\ Doing("unlink") /\ Unlinks(Primary(Path))
          /\ worth' = [worth EXCEPT ![Path] = @ \cup {"missing"}]
       \/ Doing("unlink_backup") /\ Unlinks(Backup(Path)) /\ UNCHANGED worth
    /\ Proceeds /\ UNCHANGED <<fds, failed, backupResult, loose, moving, rounds, trouble>>

\* open() itself.  A copy has descriptors of its own, which are closed before it returns.
Open ==
    /\ Doing("open")
    /\ LET flags == Head(todo).flags
           there == Exists(Primary(Path))
       IN  IF (there /\ flags.exclusive) \/ (~there /\ ~flags.creates)
           THEN EndCall /\ UNCHANGED <<diskVars, fds, loose>>
           ELSE /\ Proceeds /\ UNCHANGED failed
                /\ IF ~there THEN Creates(Primary(Path), "empty")
                   ELSE IF flags.truncates
                   THEN Becomes(names[Primary(Path)], [At(Primary(Path)) EXCEPT !.data = "empty"])
                   ELSE UNCHANGED diskVars
                /\ fds' = IF Len(todo) > 1 THEN fds
                          ELSE fds \cup {[id |-> names'[Primary(Path)], writes |-> flags.writes]}
                /\ loose' = IF there THEN loose ELSE loose \cup {Path}
    /\ UNCHANGED <<backupResult, worth, moving, rounds, trouble>>

Fill ==
    /\ LET source == Content(Head(todo).to)
           target == names[Primary(Path)]
       IN  \/ /\ Doing("fill_in_part")
              /\ IF source = "empty" THEN UNCHANGED diskVars
                 ELSE Becomes(target, [inodes[target] EXCEPT !.data = "part"])
           \/ Doing("fill") /\ Becomes(target, [inodes[target] EXCEPT !.data = source])
           \/ Doing("copy_context") /\ UNCHANGED diskVars
    /\ Proceeds /\ UNCHANGED <<fds, failed, backupResult, promiseVars, rounds, trouble>>

Match ==
    /\ Doing("match")
    /\ IF HasMatchingBackup(Path) THEN Proceeds /\ UNCHANGED failed ELSE EndCall
    /\ UNCHANGED <<diskVars, fds, backupResult, promiseVars, rounds, trouble>>

\* What is on its way from one path to another, if its source and its backup were whole and
\* flushed.  Of a copy one step may have failed: a second flush that fails leaves nothing sure.
Moves(p, q) ==
    moving' = IF /\ Validates(At(Primary(p))) /\ HasMatchingBackup(p) /\ p \notin loose
                 /\ trouble <= 1
                 /\ inodesLeft[names[Primary(p)]] = {At(Primary(p))}
              THEN {[from |-> p, to |-> q, content |-> Content(p)]} ELSE {}

Move ==
    /\ Doing("move")
    /\ LET q == Head(todo).to
       IN  IF ~Exists(Primary(Path))
           THEN EndCall /\ UNCHANGED <<diskVars, worth, loose, moving>>
           ELSE /\ Proceeds /\ Moves(Path, q)
                /\ names' = [names EXCEPT ![Primary(q)] = names[Primary(Path)], ![Primary(Path)] = 0]
                /\ namesLeft' = namesLeft \cup {names'}
                /\ worth' = [worth EXCEPT ![q] = @ \cup ({Content(Path)} \cap Whole),
                                          ![Path] = @ \cup {"missing"}]
                /\ loose' = IF Path \in loose \/ Content(Path) \notin worth[Path]
                               \/ At(Primary(Path)).label \notin {Content(Path), "none"}
                            THEN loose \cup {q} ELSE loose
                /\ UNCHANGED <<failed, inodes, inodesLeft>>
    /\ UNCHANGED <<fds, backupResult, rounds, trouble>>

Leave ==
    /\ Doing("leave") /\ Proceeds /\ Moves(Path, Head(todo).to)
    /\ UNCHANGED <<diskVars, fds, failed, backupResult, worth, loose, rounds, trouble>>

-----------------------------------------------------------------------------
(* The landings.                                                           *)

\* A flush that failed is not repeated: a backup that matches is taken for good.  After a
\* trouble a path is exempt until a call leaves nothing of it to be flushed.
Flushed(p) ==
    \A n \in {Primary(p), Backup(p)} :
        Left(names[n]) = {At(n)} /\ \A left \in namesLeft : left[n] = names[n]
Keeps(p, content) ==
    /\ worth' = [worth EXCEPT ![p] = {content}]
    /\ loose' = IF trouble = 0 \/ Flushed(p) THEN loose \ {p} ELSE loose

\* A failure that is only logged, or that open() may make up for.
Overlook ==
    /\ DoingOneOf({"refreshed", "discarded", "restored"})
    /\ Proceeds /\ failed' = FALSE
    /\ UNCHANGED <<diskVars, fds, backupResult, promiseVars, rounds, trouble>>

\* A file without its backup, or that is not restored, is not opened.
Tracked ==
    /\ Doing("tracked")
    /\ IF failed THEN EndCall ELSE Proceeds /\ UNCHANGED failed
    /\ UNCHANGED <<diskVars, fds, backupResult, promiseVars, rounds, trouble>>

\* A copy that fails is closed, which labels what there is, and deleted.
Filled ==
    /\ Doing("filled")
    /\ IF failed THEN /\ todo' = Labelling(Path) \o <<Step("discarded", Path)>> \o Deleting(Path)
                      /\ loose' = loose \cup {Path}
                 ELSE Proceeds /\ UNCHANGED loose
    /\ failed' = FALSE
    /\ UNCHANGED <<diskVars, fds, backupResult, worth, moving, rounds, trouble>>

CloseDone ==
    /\ Doing("closed") /\ Proceeds
    /\ IF ~failed /\ Content(Path) \in Whole THEN Keeps(Path, Content(Path))
       ELSE UNCHANGED <<worth, loose>>
    /\ failed' = FALSE
    /\ UNCHANGED <<diskVars, fds, backupResult, moving, rounds, trouble>>

Deleted ==
    /\ Doing("deleted") /\ Proceeds
    /\ IF failed THEN UNCHANGED <<worth, loose>> ELSE Keeps(Path, "missing")
    /\ failed' = FALSE
    /\ UNCHANGED <<diskVars, fds, backupResult, moving, rounds, trouble>>

GoOn ==
    /\ DoingOneOf({"after_move", "after_unlink"}) /\ Proceeds
    /\ backupResult' = (backupResult /\ ~failed)
    /\ failed' = FALSE
    /\ UNCHANGED <<diskVars, fds, promiseVars, rounds, trouble>>

Moved ==
    /\ Doing("moved")
    /\ backupResult' = (backupResult /\ ~failed)
    /\ todo' = (IF failed THEN DeleteBackup(Head(todo).to) ELSE <<>>) \o Tail(todo)
    /\ failed' = FALSE
    /\ UNCHANGED <<diskVars, fds, promiseVars, rounds, trouble>>

Renamed ==
    /\ Doing("renamed") /\ Proceeds
    /\ LET q == Head(todo).to
       IN  IF failed \/ ~backupResult \/ Content(q) \notin Whole
           THEN loose' = loose \cup {Path, q} /\ UNCHANGED <<worth, moving>>
           ELSE /\ worth' = [worth EXCEPT ![Path] = {"missing"}, ![q] = {Content(q)}]
                /\ loose' = loose \ (IF Path \in loose THEN {Path} ELSE {q})
                /\ moving' = {}
    /\ failed' = FALSE /\ backupResult' = TRUE
    /\ UNCHANGED <<diskVars, fds, rounds, trouble>>

-----------------------------------------------------------------------------
(* What happens to the files from outside.                                 *)

\* The process or the system stops between two steps.
Crash ==
    /\ trouble < MaxTrouble /\ trouble' = trouble + 1
    /\ \E left \in namesLeft :
           LET unsure == {n \in Names : Cardinality(Left(left[n])) > 1}
           IN  \E found \in [unsure -> UNION {Left(left[n]) : n \in unsure}] :
                   /\ \A n \in unsure : found[n] \in Left(left[n])
                   /\ LET files == [n \in Names |-> IF n \in unsure THEN found[n]
                                                    ELSE CHOOSE f \in Left(left[n]) : TRUE]
                      IN  names' = NamesFor(files) /\ inodes' = InodesFor(files)
    /\ namesLeft' = {names'}
    /\ inodesLeft' = [i \in 1..Len(inodes') |-> {inodes'[i]}]
    /\ fds' = {} /\ todo' = <<>> /\ failed' = FALSE /\ backupResult' = TRUE
    /\ UNCHANGED <<promiseVars, rounds>>

\* A file goes bad, or a primary is replaced by a file without a label, or is gone.
Rots(n, label) ==
    LET f == [data |-> "rot", label |-> label]
    IN  /\ inodes' = [inodes EXCEPT ![names[n]] = f]
        /\ inodesLeft' = [inodesLeft EXCEPT ![names[n]] = {f}]
        /\ UNCHANGED <<names, namesLeft>>
Disappears(n) ==
    /\ names' = [names EXCEPT ![n] = 0]
    /\ namesLeft' = {[left EXCEPT ![n] = 0] : left \in namesLeft}
    /\ UNCHANGED <<inodes, inodesLeft>>

Damage(p) ==
    /\ NoCall /\ Closed(p) /\ trouble < MaxTrouble /\ trouble' = trouble + 1
    /\ \/ /\ Validates(At(Primary(p)))
          /\ \/ Rots(Primary(p), Content(p))
             \/ Rots(Primary(p), "none")
             \/ Disappears(Primary(p))
       \/ Validates(At(Backup(p))) /\ Rots(Backup(p), At(Backup(p)).label)
    /\ loose' = IF Validates(At(Primary(p))) /\ HasMatchingBackup(p) THEN loose
                ELSE loose \cup {p}
    /\ moving' = {}
    /\ UNCHANGED <<fds, todo, failed, backupResult, worth, rounds>>

ClientCalls ==
    \/ \E p \in Paths : taf_pa_file_Delete(p) \/ \E flags \in {O_RDONLY, O_CREAT, O_TRUNC, O_EXCL} :
                            taf_pa_file_Open(p, flags)
    \/ \E p, q \in Paths : taf_pa_file_Copy(p, q) \/ taf_pa_file_Rename(p, q)
    \/ \E fd \in fds : taf_pa_file_Write(fd) \/ taf_pa_file_Close(fd)

StepNext ==
    \/ Enter \/ Refresh \/ CopyToBackup \/ CopyToPrimary \/ Label \/ LabelBackup \/ Sync
    \/ Unlink \/ Open \/ Fill \/ Match \/ Move \/ Leave
    \/ Overlook \/ Tracked \/ Filled \/ CloseDone \/ Deleted \/ GoOn \/ Moved \/ Renamed

FilesNext ==
    \/ ClientCalls \/ StepNext \/ SystemCallFails \/ Crash
    \/ \E p \in Paths : Damage(p)

FilesSpec == FilesInit /\ [][FilesNext]_fileVars

-----------------------------------------------------------------------------
Ids == 0..Len(inodes)

FilesTypeOK ==
    /\ names \in [Names -> Ids] /\ namesLeft \subseteq [Names -> Ids] /\ names \in namesLeft
    /\ inodes \in Seq(File \cup {NoFile}) /\ inodesLeft \in Seq(SUBSET (File \cup {NoFile}))
    /\ Len(inodesLeft) = Len(inodes)
    /\ \A i \in 1..Len(inodes) : inodes[i] \in inodesLeft[i]
    /\ fds \subseteq [id : Ids, writes : BOOLEAN]
    /\ failed \in BOOLEAN /\ backupResult \in BOOLEAN
    /\ worth \in [Paths -> SUBSET (Whole \cup {"missing"})]
    /\ loose \subseteq Paths
    /\ rounds \in 0..MaxRounds /\ trouble \in 0..MaxTrouble

\* What an undisturbed open finds when a crash left f under the name of a path and g in
\* its backup.
Found(f, g) ==
    IF f = NoFile THEN IF Validates(g) THEN g.data ELSE "missing"
    ELSE IF Validates(f) \/ (f.label = "none" /\ ~Validates(g)) THEN f.data
    ELSE IF Validates(g) THEN g.data ELSE "lost"
Finds(p, left) ==
    {Found(f, g) : f \in Left(left[Primary(p)]), g \in Left(left[Backup(p)])}

\* A crash at any moment leaves the content of the last change that was completed or of
\* the one under way, in the file or in its backup.
OldOrNew ==
    \A p \in Paths \ loose : \A left \in namesLeft : Finds(p, left) \subseteq worth[p]

\* A rename has its source at one of the two paths at any moment.
MoveLosesNothing ==
    \A m \in moving : \A left \in namesLeft :
        Finds(m.from, left) = {m.content} \/ Finds(m.to, left) = {m.content}

\* Whatever a call has done when the power fails, one open later every file that was whole
\* is the old one or the new one, and a file on its way from one path to another is at one
\* of them, also when a step of the rename failed: the order of the flushes, of the backup
\* and of the deletions (tafFilePa.c:1650, 1741, 1940).
FilesSurvive == OldOrNew /\ MoveLosesNothing

\* An open that may find a file finds a content its client can expect, though the file was
\* damaged, replaced or removed, or a crash or a failure cut an earlier call, and never
\* starts an empty one over a backup that is good (tafFilePa.c:1520).
OpenTellsTruth ==
    Doing("open") /\ Path \notin loose =>
        LET flags == Head(todo).flags
        IN  \/ flags.truncates \/ flags.exclusive
            \/ ~Exists(Primary(Path)) /\ ~flags.creates
            \/ (IF Exists(Primary(Path)) THEN Content(Path) ELSE "missing") \in worth[Path]
=============================================================================
