--------------------------- MODULE FilesRename_proofs ---------------------------
(***************************************************************************)
(* Proofs about the renames of the key store's files, for any paths and     *)
(* versions, any number of rounds and any trouble: a file on its way from   *)
(* one path to another is at one of the two whatever a crash leaves.        *)
(***************************************************************************)
EXTENDS FilesSurvive_proofs

\* What a rename leaves to be found at its target.
Handed(p, q, c) ==
    /\ Exists(Primary(q)) /\ Now(Primary(q)) = {Sealed(c)}
    /\ \A left \in namesLeft :
           left[Primary(p)] = names[Primary(q)] \/ left[Primary(q)] = names[Primary(q)]
Covered(q, c) ==
    /\ Exists(Primary(q)) /\ Content(q) = c /\ Durable(Primary(q)) /\ Durable(Backup(q))
    /\ At(Backup(q)) = Sealed(c) /\ Now(Backup(q)) = {Sealed(c)}
    /\ \A f \in Now(Primary(q)) : f.label \in {"none", c}
\* The target outlives its source: whatever a crash leaves of it is c, or its backup covers it.
Firm(q, c) ==
    \/ Exists(Primary(q)) /\ Durable(Primary(q)) /\ Now(Primary(q)) = {Sealed(c)}
    \/ Covered(q, c)
\* Of a rename by a copy: what its steps leave of source p and target.
SourceDeeds == {"enter", "open", "tracked", "refreshed", "restored"} \cup RestoreDeeds
AnchorDeeds == {"enter", "open", "refreshed", "fill_in_part", "fill", "copy_context", "filled",
              "checksum", "sync", "refresh"} \cup BlockDeeds
\* A backup that could be restored from does not stand alone: its file is there after a crash.
Anchored(q) == Validates(At(Backup(q))) => Exists(Primary(q)) /\ Durable(Primary(q))
CopyAt(p, s, l) ==
    LET q == s.at
        d == s.do
        closing == d \in BlockDeeds /\ l = "closed"
    IN  /\ q = p =>
             /\ d \in SourceDeeds \/ (d \in BlockDeeds /\ l \in {"refreshed", "tracked"}) => trouble = 0
             /\ d = "leave" => s.to # p /\ Firm(s.to, Content(p))
        /\ q # p =>
             /\ d \in {"enter"} \cup RestoreDeeds => trouble = 0
             /\ d \in AnchorDeeds \/ (d = "tracked" /\ ~failed) => Anchored(q)
             /\ \/ d \in {"copy_context", "checksum", "sync", "refresh", "closed", "match"} \/ closing
                \/ d = "filled" /\ ~failed
                => Content(q) = Content(p)
             /\ d = "sync" /\ trouble = 0 /\ HasMatchingBackup(q) => Covered(q, Content(q))
             /\ d \in {"closed", "match"} /\ HasMatchingBackup(q) => Firm(q, Content(q))
             /\ d = "copy_to_backup" /\ closing => ~HasMatchingBackup(q)
\* In a copy that has met no more than one trouble, its steps find what they rely on.
CopyHolds ==
    todo # <<>> /\ Last.do = "deleted" /\ Last.at \notin loose /\ trouble <= 1 =>
        CopyAt(Last.at, Head(todo), Ahead)
\* The promise of MoveLosesNothing, for one file.
Findable(p, q, c) ==
    \A left \in namesLeft : Finds(p, left) = {c} \/ Finds(q, left) = {c}
DeleteDeeds == {"unlink", "sync_unlink", "unlink_backup", "sync_unlink_backup", "deleted"}
CloseDeeds == {"checksum", "sync", "refresh", "closed"} \cup BlockDeeds
Closes(t) == \A i \in 1..Len(t) : t[i].do \in CloseDeeds
\* Where the file c on its way from p to q stands: at the rename, while the copy deletes its
\* source, and while the files are closed; between calls it may also be what a crash left.
StandsAt(p, q, c) ==
    IF todo = <<>>
    THEN Handed(p, q, c) \/ Covered(q, c) \/ (fds = {} /\ Findable(p, q, c))
    ELSE LET d == Head(todo).do
         IN  \/ Renames(Head(todo), Last) /\ Last.at = p /\ Last.to = q /\ Handed(p, q, c)
             \/ /\ Last.do # "renamed" /\ Path = p /\ d \in DeleteDeeds
                /\ Handed(p, q, c) \/ Covered(q, c)
             \/ /\ Closes(todo)
                /\ \/ Handed(p, q, c)
                   \/ Covered(q, c) /\ (Path # q \/ d \in {"checksum", "sync", "closed"})
\* It holds of every file that is on its way.
MoveHolds ==
    \A m \in moving :
        /\ m.from \in Paths /\ m.to \in Paths /\ m.from # m.to /\ m.content # "none"
        /\ StandsAt(m.from, m.to, m.content)

Grows == namesLeft' \subseteq namesLeft \cup {names'}

\* A file that a rename has handed on, or that its backup covers, is found after any crash.
LEMMA HandedFindable ==
    ASSUME Disk, NEW p \in Paths, NEW q \in Paths, NEW c, c # "none",
           Handed(p, q, c) \/ Covered(q, c)
    PROVE  Findable(p, q, c)
<1>1. \A n \in Names : At(n) \in Now(n)
  BY NowIs
<1>2. /\ Primary(p) \in Names /\ Primary(q) \in Names /\ Backup(p) \in Names /\ Backup(q) \in Names
  BY NamesAre
<1>3. /\ Validates(Sealed(c)) /\ Sealed(c).data = c /\ Sealed(c).label = c /\ Sealed(c) # NoFile
  BY DEF Validates, Sealed, NoFile
<1>4. \A r \in Paths : \A left \in namesLeft : Left(left[Backup(r)]) # {}
  BY <1>2, LeftIs, NamesAre DEF Disk, DiskTypeOK
<1>5. ASSUME NEW r \in Paths, NEW left \in namesLeft, Left(left[Primary(r)]) = {Sealed(c)}
      PROVE  Finds(r, left) = {c}
  <2>1. \A g : Found(Sealed(c), g) = c
    BY <1>3 DEF Found
  <2>2. PICK g : g \in Left(left[Backup(r)])
    BY <1>4
  <2> QED
    BY <1>5, <2>1, <2>2 DEF Finds
<1>6. CASE Handed(p, q, c)
  <2> SUFFICES ASSUME NEW left \in namesLeft PROVE Finds(p, left) = {c} \/ Finds(q, left) = {c}
    BY DEF Findable
  <2>1. Left(names[Primary(q)]) = {Sealed(c)}
    BY <1>6 DEF Handed, Now
  <2>2. left[Primary(p)] = names[Primary(q)] \/ left[Primary(q)] = names[Primary(q)]
    BY <1>6 DEF Handed
  <2> QED
    BY <1>5, <2>1, <2>2
<1>7. CASE Covered(q, c)
  <2> SUFFICES ASSUME NEW left \in namesLeft PROVE Finds(q, left) = {c}
    BY DEF Findable
  <2>1. /\ Left(left[Primary(q)]) = Now(Primary(q)) /\ Left(left[Backup(q)]) = {Sealed(c)}
    BY <1>7 DEF Covered, Durable, Now
  <2>2. ASSUME NEW f \in Now(Primary(q)) PROVE Found(f, Sealed(c)) = c
    <3>1. f \in File /\ f.label \in {"none", c}
      BY <1>2, <1>7, NowIs DEF Covered
    <3>2. f # NoFile
      <4>1. f.data # "none"
        BY <3>1, FileIs, NoneIsNone
      <4> QED
        BY <4>1 DEF NoFile
    <3>3. Validates(f) => f.data = c
      BY <3>1 DEF Validates
    <3> QED
      BY <1>3, <3>1, <3>2, <3>3 DEF Found
  <2>3. At(Primary(q)) \in Now(Primary(q))
    BY <1>1, <1>2
  <2> QED
    BY <2>1, <2>2, <2>3 DEF Finds
<1> QED
  BY <1>6, <1>7

\* It stays handed on while the target keeps its file.
LEMMA HandedStays ==
    ASSUME NEW p \in Paths, NEW q \in Paths, NEW c, Handed(p, q, c), Grows, Same(Primary(q))
    PROVE  Handed(p, q, c)'
<1>1. /\ names'[Primary(q)] = names[Primary(q)] /\ names[Primary(q)] # 0
      /\ Now(Primary(q))' = {Sealed(c)}
  BY DEF Handed, Same, Exists
<1>2. Exists(Primary(q))'
  BY <1>1 DEF Exists
<1>3. ASSUME NEW left \in namesLeft'
      PROVE  left[Primary(p)] = names'[Primary(q)] \/ left[Primary(q)] = names'[Primary(q)]
  BY <1>1 DEF Grows, Handed
<1> QED
  BY <1>1, <1>2, <1>3 DEF Handed

\* It stays covered while something is done under another name.
LEMMA CoveredStays ==
    ASSUME NEW q \in Paths, NEW c, Covered(q, c), Same(Primary(q)), Same(Backup(q)),
           Durable(Primary(q)) => Durable(Primary(q))', Durable(Backup(q)) => Durable(Backup(q))'
    PROVE  Covered(q, c)'
<1>1. /\ names'[Primary(q)] = names[Primary(q)] /\ At(Primary(q))' = At(Primary(q))
      /\ Now(Primary(q))' = Now(Primary(q)) /\ Now(Backup(q))' = Now(Backup(q))
      /\ At(Backup(q))' = At(Backup(q))
  BY DEF Same
<1>2. Exists(Primary(q))' /\ Content(q)' = Content(q)
  BY <1>1 DEF Covered, Exists, Content
<1> QED
  BY <1>1, <1>2 DEF Covered

\* A step adds to what a crash may leave of the names at most what they are now.
LEMMA StepGrows ==
    ASSUME StepNext PROVE Grows
<1>1. \A n, i : Points(n, i) => Grows
  BY DEF Points, Grows
<1>2. \A n, c : Creates(n, c) => Grows
  BY <1>1 DEF Creates
<1>3. \A n : Unlinks(n) => Grows
  BY <1>1 DEF Unlinks
<1>4. \A i, f : Becomes(i, f) => Grows
  BY DEF Becomes, Grows
<1>5. \A n : SyncFile(n) \/ SyncName(n) => Grows
  BY DEF SyncFile, SyncName, Grows
<1>6. UNCHANGED diskVars => Grows
  BY DEF diskVars, Grows
<1>7. CASE Enter \/ Refresh \/ Match \/ Leave \/ Overlook \/ Tracked \/ Filled \/ CloseDone \/ Deleted \/ GoOn \/ Moved \/ Renamed
  BY <1>6, <1>7 DEF Enter, Refresh, Match, Leave, Overlook, Tracked, Filled, CloseDone, Deleted, GoOn, Moved, Renamed
<1>8. CASE CopyToBackup \/ CopyToPrimary
  BY <1>2, <1>6, <1>8 DEF CopyToBackup, CopyToPrimary, Fails
<1>9. CASE Label \/ LabelBackup \/ Fill
  BY <1>4, <1>6, <1>9 DEF Label, LabelBackup, Fill
<1>10. CASE Sync \/ Unlink
  BY <1>3, <1>5, <1>10 DEF Sync, Unlink
<1>11. CASE Open
  BY <1>2, <1>4, <1>6, <1>11 DEF Open
<1>12. CASE Move
  BY <1>6, <1>12 DEF Move, Grows
<1> QED
  BY <1>7, <1>8, <1>9, <1>10, <1>11, <1>12 DEF StepNext

\* The steps that leave a file as it is that has its checksum and is flushed.
SealedDeeds == CloseDeeds \cup TargetDeeds \cup {"moved", "renamed", "unlink_backup", "sync_unlink_backup"}

\* A file that is flushed and labelled stays so while it is closed and backed up.
LEMMA SealedStays ==
    ASSUME FilesIInv, FilesIInv', Injective, HasFile, StepNext, Head(todo).do \in SealedDeeds,
           NEW q \in Paths, NEW c, Exists(Primary(q)), Now(Primary(q)) = {Sealed(c)}
    PROVE  Same(Primary(q))
<1>0. todo # <<>>
  BY Zenon
     DEF StepNext, Enter, Refresh, CopyToBackup, CopyToPrimary, Label, LabelBackup, Sync, Unlink,
         Open, Fill, Match, Move, Leave, Overlook, Tracked, Filled, CloseDone, Deleted, GoOn,
         Moved, Renamed, Doing, DoingOneOf, NoCall
<1>1. Disk /\ Disk' /\ Sound(todo, There)
  BY DEF FilesIInv
<1>2. PICK p : p = Path
  OBVIOUS
<1>3. PICK d : d = Head(todo).do
  OBVIOUS
<1>4. /\ p \in Paths /\ Primary(p) \in Names /\ Backup(p) \in Names /\ Primary(q) \in Names
      /\ Primary(p) # Backup(p) /\ Primary(q) # Backup(p) /\ (Primary(p) = Primary(q) => p = q)
  BY <1>0, <1>1, <1>2, HeadIs, NamesAre
<1>5. At(Primary(q)) = Sealed(c) /\ Content(q) = c
  <2>1. At(Primary(q)) = Sealed(c)
    BY <1>1, <1>4, NowIs
  <2> QED
    BY <2>1 DEF Content, Sealed
<1>6. CASE UNCHANGED diskVars
  BY <1>4, <1>6, NoEffect
<1>7. ASSUME \E n \in {Primary(p), Backup(p)} : SyncName(n) PROVE Same(Primary(q))
  BY <1>1, <1>4, <1>7, SyncNameEffect
<1>8. ASSUME \E n \in {Primary(p), Backup(p)} : SyncFile(n) PROVE Same(Primary(q))
  <2>1. PICK n \in {Primary(p), Backup(p)} : SyncFile(n)
    BY <1>8
  <2>2. /\ UNCHANGED <<names, namesLeft>> /\ At(n)' = At(n) /\ Now(n)' = {At(n)}
        /\ \A m \in Names : m # n => Same(m)
    BY <1>1, <1>4, <2>1, SyncFileEffect
  <2>3. CASE n = Primary(q)
    BY <1>5, <2>2, <2>3 DEF Same
  <2> QED
    BY <1>4, <2>2, <2>3
<1>9. d # "unlink" /\ d \in SealedDeeds /\ d \notin RestoreDeeds /\ d \notin {"move", "open"}
  BY <1>3 DEF SealedDeeds, CloseDeeds, TargetDeeds, BlockDeeds, RestoreDeeds
<1>10. CASE CopyToBackup
  <2>1. CASE Creates(Backup(p), Content(p))
    BY <1>1, <1>4, <2>1, CreatesEffect
  <2>2. CASE UNCHANGED diskVars
    BY <1>6, <2>2
  <2> QED
    BY <1>2, <1>10, <2>1, <2>2, Zenon DEF CopyToBackup, Fails
<1>11. CASE Label
  <2>1. Exists(Primary(p))
    BY <1>2, <1>11 DEF Label, HasFile, DoingOneOf
  <2>2. Becomes(names[Primary(p)], Sealed(Content(p)))
    BY <1>2, <1>11 DEF Label, Sealed
  <2>3. /\ Content(p)' = Content(p) /\ At(Primary(p))' = Sealed(Content(p))
        /\ Now(Primary(p)) = {Sealed(Content(p))} => Now(Primary(p))' = {Sealed(Content(p))}
        /\ \A n \in Names \ {Primary(p)} : Same(n)
        /\ UNCHANGED <<names, namesLeft>>
    BY <1>1, <1>4, <2>1, <2>2, LabelsOwn
  <2>4. CASE p = q
    BY <1>5, <2>3, <2>4 DEF Same
  <2> QED
    BY <1>4, <2>3, <2>4
<1>12. CASE LabelBackup
  <2>1. Exists(Backup(p))
    BY <1>2, <1>12 DEF LabelBackup, HasFile
  <2> DEFINE f == [data |-> At(Backup(p)).data, label |-> At(Backup(p)).data]
  <2>2. f \in File
    BY <1>1, <1>4, <2>1, AtIs, FileIs
  <2>3. Becomes(names[Backup(p)], f)
    BY <1>2, <1>12 DEF LabelBackup
  <2> HIDE DEF f
  <2> QED
    BY <1>1, <1>4, <2>1, <2>2, <2>3, BecomesEffect
<1>13. CASE Sync
  <2>1. \E n \in {Primary(p), Backup(p)} : SyncFile(n) \/ SyncName(n)
    BY <1>2, <1>13, Zenon DEF Sync
  <2> QED
    BY <1>7, <1>8, <2>1
<1>14. CASE Unlink
  <2>1. Unlinks(Backup(p))
    BY <1>2, <1>3, <1>9, <1>14 DEF Unlink, Doing
  <2> QED
    BY <1>1, <1>4, <2>1, UnlinksEffect
<1>15. CASE Refresh \/ CloseDone \/ GoOn \/ Moved \/ Renamed
  <2>1. UNCHANGED diskVars
    BY <1>15, Zenon DEF Refresh, CloseDone, GoOn, Moved, Renamed
  <2> QED
    BY <1>6, <2>1
<1>16. /\ ~Enter /\ ~CopyToPrimary /\ ~Open /\ ~Fill /\ ~Match /\ ~Move /\ ~Leave
       /\ ~Overlook /\ ~Tracked /\ ~Filled /\ ~Deleted
  BY <1>3, <1>9 DEF Enter, CopyToPrimary, Open, Fill, Match, Move, Leave, Overlook, Tracked,
     Filled, Deleted, Doing, DoingOneOf, SealedDeeds, CloseDeeds, TargetDeeds, BlockDeeds, RestoreDeeds
<1> QED
  BY <1>10, <1>11, <1>12, <1>13, <1>14, <1>15, <1>16 DEF StepNext

\* A file that is handed on stays so while calls like these go on.
LEMMA HandedGoes ==
    ASSUME FilesIInv, FilesIInv', Injective, HasFile, StepNext, Head(todo).do \in SealedDeeds,
           NEW p \in Paths, NEW q \in Paths, NEW c, Handed(p, q, c)
    PROVE  Handed(p, q, c)'
<1>1. Same(Primary(q))
  BY SealedStays DEF Handed
<1> QED
  BY <1>1, StepGrows, HandedStays

\* What is done to another path leaves the target as it is.
LEMMA ElsewhereStays ==
    ASSUME NEW r \in Paths, NEW p \in Paths, NEW q \in Paths, NEW c, r # q, Grows,
           \E n \in {Primary(r), Backup(r)} : Touches(n)
    PROVE  /\ Handed(p, q, c) => Handed(p, q, c)'
           /\ Covered(q, c) => Covered(q, c)'
<1>1. /\ Primary(q) \in Names /\ Backup(q) \in Names
      /\ {Primary(q), Backup(q)} \cap {Primary(r), Backup(r)} = {}
  BY NamesAre
<1>2. \A m \in {Primary(q), Backup(q)} : Same(m) /\ (Durable(m) => Durable(m)')
  BY <1>1 DEF Touches
<1>3. Handed(p, q, c) => Handed(p, q, c)'
  BY <1>2, HandedStays
<1>4. Covered(q, c) => Covered(q, c)'
  BY <1>2, CoveredStays
<1> QED
  BY <1>3, <1>4

\* A file keeps what its backup covers when it gets the label of its content.
LEMMA CoveredLabels ==
    ASSUME Disk, Disk', Injective, NEW q \in Paths, NEW c, Covered(q, c),
           Becomes(names[Primary(q)], Sealed(Content(q)))
    PROVE  Covered(q, c)'
<1>1. Primary(q) \in Names /\ Backup(q) \in Names /\ Primary(q) # Backup(q) /\ Exists(Primary(q))
  BY NamesAre DEF Covered
<1>2. /\ Exists(Primary(q))' /\ Content(q)' = Content(q)
      /\ Same(Backup(q)) /\ UNCHANGED <<names, namesLeft>>
  BY <1>1, LabelsOwn
<1>3. Content(q) \in Data /\ Sealed(Content(q)) \in File
  BY <1>1, PlainIs, FileIs DEF Sealed
<1>4. \A x \in Now(Primary(q))' : x.label = Sealed(Content(q)).label
          \/ \E y \in Now(Primary(q)) : y.label = x.label
  BY <1>1, <1>3, BecomesEffect
<1>5. Durable(Primary(q))' /\ Durable(Backup(q))'
  BY <1>1, <1>2, NamesStay DEF Covered
<1>6. \A x \in Now(Primary(q))' : x.label \in {"none", c}
  BY <1>4 DEF Covered, Sealed
<1> QED
  BY <1>2, <1>5, <1>6 DEF Covered, Same

\* The rest of a close is one of a close.
LEMMA ClosesOn ==
    ASSUME NEW t \in Seq(FileSteps), t # <<>>, Closes(t)
    PROVE  /\ Head(t).do \in CloseDeeds /\ t[Len(t)].do \in CloseDeeds
           /\ Closes(Tail(t)) /\ Closes(FromLanding(t))
<1>1. Len(t) \in Nat \ {0} /\ Head(t) = t[1]
  OBVIOUS
<1>2. Head(t).do \in CloseDeeds /\ t[Len(t)].do \in CloseDeeds
  BY <1>1 DEF Closes
<1>3. Closes(Tail(t))
  <2>1. Len(Tail(t)) = Len(t) - 1 /\ \A i \in 1..Len(Tail(t)) : Tail(t)[i] = t[i + 1]
    OBVIOUS
  <2>2. \A i \in 1..Len(Tail(t)) : i + 1 \in 1..Len(t)
    BY <1>1, <2>1
  <2> QED
    BY <2>1, <2>2 DEF Closes
<1>4. Closes(FromLanding(t))
  <2>1. CASE FromLanding(t) = <<>>
    BY <2>1 DEF Closes
  <2>2. ASSUME NEW k \in 1..Len(t), Len(FromLanding(t)) = Len(t) - k + 1,
               \A i \in 1..(Len(t) - k + 1) : FromLanding(t)[i] = t[k + i - 1]
        PROVE  Closes(FromLanding(t))
    <3>1. \A i \in 1..(Len(t) - k + 1) : k + i - 1 \in 1..Len(t)
      BY <1>1
    <3> QED
      BY <2>2, <3>1 DEF Closes
  <2> QED
    BY <2>1, <2>2, LandingIs
<1> QED
  BY <1>2, <1>3, <1>4

\* A close may be put before what is left of one.
LEMMA ClosesMore ==
    ASSUME NEW p \in Paths, NEW t \in Seq(FileSteps), Closes(t)
    PROVE  Closes(RefreshBackupIfNeeded(p) \o t)
<1> DEFINE b == BackupFileToStorage(p)
<1>1. b \in Seq(FileSteps) /\ \A i \in 1..Len(b) : b[i].do \in BlockDeeds
  BY BackupIs
<1> HIDE DEF b
<1>2. Closes(b \o t)
  <2>1. \A i \in 1..Len(b \o t) : \/ i \in 1..Len(b) /\ (b \o t)[i] = b[i]
                                  \/ i - Len(b) \in 1..Len(t) /\ (b \o t)[i] = t[i - Len(b)]
    BY <1>1
  <2> QED
    BY <1>1, <2>1 DEF Closes, CloseDeeds
<1>3. <<>> \o t = t
  OBVIOUS
<1> QED
  BY <1>2, <1>3 DEF RefreshBackupIfNeeded, b

\* A close is one.
LEMMA ClosingCloses ==
    ASSUME NEW p \in Paths PROVE Closes(Closing(p))
<1> DEFINE a == Labelling(p)
           s == Step("closed", p)
<1>1. a \in Seq(FileSteps) /\ \A i \in 1..Len(a) : a[i].do \in {"checksum", "sync", "refresh"}
  BY LabellingIs
<1>2. s.do = "closed" /\ s \in FileSteps
  BY StepIs DEF Deeds, Landings
<1> HIDE DEF a, s
<1>3. \A i \in 1..Len(a \o <<s>>) : \/ i \in 1..Len(a) /\ (a \o <<s>>)[i] = a[i]
                                    \/ (a \o <<s>>)[i] = s
  BY <1>1, <1>2
<1>4. Closes(a \o <<s>>)
  BY <1>1, <1>2, <1>3 DEF Closes, CloseDeeds
<1> QED
  BY <1>4 DEF Closing, a, s

\* What is left of a close when a step of it is done.
LEMMA CloseGoes ==
    ASSUME Stands, Closes(todo), NEW p, p = Path, NEW t, t = todo'
    PROVE  /\ Proceeds \/ Refresh \/ (Fails /\ Head(todo).do \in Landed) => Closes(t)
           /\ Proceeds /\ t # <<>> =>
                  Head(t).at = p /\ Head(todo).do # "closed" /\ FollowsHere(Head(todo), Head(t))
           /\ Refresh => /\ t # <<>> /\ Head(t).at = p /\ Head(todo).do = "refresh"
                         /\ IF HasMatchingBackup(p) THEN Head(t).do = "closed"
                            ELSE Head(t).do = "copy_to_backup"
           /\ Fails /\ Head(todo).do \in Landed =>
                  t # <<>> /\ Head(t).at = p /\ Head(t).do = "closed" /\ Head(todo).do # "closed"
<1>1. todo \in Seq(FileSteps) /\ todo # <<>> /\ Chained(todo) /\ p \in Paths
  BY DEF Stands, Struct, Chained
<1>2. /\ Head(todo).do \in CloseDeeds /\ Closes(Tail(todo)) /\ Closes(FromLanding(todo))
      /\ Tail(todo) \in Seq(FileSteps)
  BY <1>1, ClosesOn
<1>3. PICK d : d = Head(todo).do
  OBVIOUS
<1>4. d \notin {"enter", "open", "match"}
  BY <1>2, <1>3 DEF CloseDeeds, BlockDeeds
<1>5. PICK u : u = Tail(todo)
  OBVIOUS
<1>6. u # <<>> => Head(u).at = p /\ FollowsHere(Head(todo), Head(u)) /\ Head(u).do \in CloseDeeds
  BY <1>1, <1>2, <1>3, <1>4, <1>5, PathGoesOn, ClosesOn
<1>7. u # <<>> => d # "closed"
  BY <1>3, <1>6 DEF FollowsHere, CloseDeeds, BlockDeeds
<1>8. ASSUME Proceeds
      PROVE  Closes(t) /\ (t # <<>> => Head(t).at = p /\ d # "closed" /\ FollowsHere(Head(todo), Head(t)))
  BY <1>2, <1>3, <1>5, <1>6, <1>7, <1>8 DEF Proceeds
<1>9. ASSUME Refresh
      PROVE  /\ Closes(t) /\ t # <<>> /\ Head(t).at = p /\ d = "refresh"
             /\ IF HasMatchingBackup(p) THEN Head(t).do = "closed" ELSE Head(t).do = "copy_to_backup"
  <2>1. d = "refresh" /\ t = RefreshBackupIfNeeded(p) \o u /\ Head(todo).at = p
    BY <1>3, <1>5, <1>9 DEF Refresh, Doing, Path
  <2>2. Closes(t)
    BY <1>1, <1>2, <1>5, <2>1, ClosesMore
  <2>3. /\ u # <<>> /\ Head(u).do \in {"closed", "discarded"} /\ Head(u).at = p
        /\ IF HasMatchingBackup(p) THEN t = u
           ELSE t # <<>> /\ Head(t).do = "copy_to_backup" /\ Head(t).at = p
    <3>1. Head(todo).do = "refresh"
      BY <1>3, <2>1
    <3>2. LET o == RefreshBackupIfNeeded(Head(todo).at) \o Tail(todo)
          IN  /\ o # <<>>
              /\ Tail(todo) # <<>> /\ Head(Tail(todo)).do \in {"closed", "discarded"}
              /\ Head(Tail(todo)).at = Head(todo).at
              /\ IF HasMatchingBackup(Head(todo).at) THEN o = Tail(todo)
                 ELSE Head(o).do = "copy_to_backup" /\ Head(o).at = Head(todo).at
      BY ONLY <1>1, <3>1, RefreshChained
    <3>3. t = RefreshBackupIfNeeded(Head(todo).at) \o Tail(todo)
      BY ONLY <1>5, <2>1
    <3>4. Head(todo).at = p
      BY ONLY <2>1
    <3> QED
      BY ONLY <1>5, <3>2, <3>3, <3>4
  <2>4. Head(u).do = "closed"
    BY <1>6, <2>3 DEF CloseDeeds, BlockDeeds
  <2> QED
    BY ONLY <2>1, <2>2, <2>3, <2>4
<1>10. ASSUME Fails, Head(todo).do \in Landed
       PROVE  Closes(t) /\ t # <<>> /\ Head(t).at = p /\ Head(t).do = "closed" /\ d # "closed"
  <2>1. t = FromLanding(todo)
    BY <1>10 DEF Fails
  <2>2. Lands(todo)
    BY <1>1, <1>10, LandsAhead
  <2>3. Head(t).do \in Landings /\ t \in Seq(FileSteps) /\ t # <<>>
    BY <1>1, <2>1, <2>2, SuffixChained DEF Lands, Chained
  <2>4. Head(t).do \in CloseDeeds
    BY <1>2, <2>1, <2>3, ClosesOn
  <2>5. Head(t).do = "closed"
    BY <2>3, <2>4 DEF CloseDeeds, BlockDeeds, Landings
  <2>6. Head(t).at = p
    <3>1. d \in BlockDeeds \cup {"checksum", "sync", "refresh"}
      BY <1>2, <1>3, <1>10 DEF CloseDeeds, Landed, BlockDeeds, RestoreDeeds
    <3> QED
      BY <1>3, <2>1, <2>2, <2>5, <3>1 DEF Lands, Path
  <2>7. d # "closed"
    BY <1>3, <1>10 DEF Landed, BlockDeeds, RestoreDeeds
  <2> QED
    BY <1>2, <2>1, <2>3, <2>5, <2>6, <2>7
<1> QED
  BY <1>3, <1>8, <1>9, <1>10

\* What is left of a rename while a file is closed.
LEMMA CloseCarries ==
    ASSUME SurviveIInv, FilesIInv', NEW p \in Paths, NEW q \in Paths, NEW c, todo # <<>>, Closes(todo),
           Handed(p, q, c) \/ (Covered(q, c) /\ (Path # q \/ Head(todo).do \in {"checksum", "sync", "closed"})),
           StepNext \/ SystemCallFails
    PROVE  StandsAt(p, q, c)'
<1>1. todo \in Seq(FileSteps) /\ Head(todo).do \in CloseDeeds /\ Last.do \in CloseDeeds
  <2>1. todo \in Seq(FileSteps)
    BY DEF SurviveIInv, Sure, Struct, Chained
  <2> QED
    BY <2>1, ClosesOn DEF Last
<1>2. ~Renames(Head(todo), Last) /\ ~Doing("move")
  BY <1>1 DEF Renames, Doing, CloseDeeds, BlockDeeds
<1>3. Stands /\ HasFile
  BY <1>2, StandsIs
<1>4. Disk /\ Disk' /\ Injective /\ FilesIInv
  BY <1>3 DEF Stands, FilesIInv
<1>5. PICK r : r = Path
  OBVIOUS
<1>6. PICK t : t = todo'
  OBVIOUS
<1>7. PICK d : d = Head(todo).do
  OBVIOUS
<1>8. r \in Paths /\ d \in CloseDeeds /\ d \in SealedDeeds
  BY <1>1, <1>3, <1>5, <1>7 DEF Stands, SealedDeeds
<1>9. /\ Proceeds \/ Refresh \/ (Fails /\ d \in Landed) => Closes(t)
      /\ Proceeds /\ t # <<>> => Head(t).at = r /\ d # "closed" /\ FollowsHere(Head(todo), Head(t))
      /\ Refresh => /\ t # <<>> /\ Head(t).at = r /\ d = "refresh"
                    /\ IF HasMatchingBackup(r) THEN Head(t).do = "closed"
                       ELSE Head(t).do = "copy_to_backup"
      /\ Fails /\ d \in Landed => t # <<>> /\ Head(t).at = r /\ Head(t).do = "closed" /\ d # "closed"
  BY <1>3, <1>5, <1>6, <1>7, CloseGoes
<1>10. ASSUME Closes(t), Handed(p, q, c)' \/ (Covered(q, c)' /\ (t = <<>> \/ Head(t).at # q
                  \/ Head(t).do \in {"checksum", "sync", "closed"}))
       PROVE  StandsAt(p, q, c)'
  <2>1. (todo = <<>>)' => t = <<>>
    BY <1>6
  <2>2. (todo # <<>>)' => t # <<>> /\ Path' = Head(t).at /\ (Head(todo).do)' = Head(t).do /\ Closes(todo)'
    BY <1>6, <1>10 DEF Path, Closes
  <2> QED
    BY <1>10, <2>1, <2>2 DEF StandsAt
<1>11. CASE Fails /\ d \in Landed
  <2>1. UNCHANGED diskVars /\ Primary(q) \in Names /\ Backup(q) \in Names
    BY <1>11, NamesAre DEF Fails
  <2>2. /\ Same(Primary(q)) /\ Same(Backup(q)) /\ (Durable(Primary(q))' <=> Durable(Primary(q)))
        /\ (Durable(Backup(q))' <=> Durable(Backup(q))) /\ Grows
    BY <2>1, NoEffect DEF diskVars, Grows
  <2>3. Handed(p, q, c) => Handed(p, q, c)'
    BY <2>2, HandedStays
  <2>4. Covered(q, c) => Covered(q, c)'
    BY <2>2, CoveredStays
  <2> QED
    BY <1>9, <1>10, <1>11, <2>3, <2>4
<1>12. ASSUME SystemCallFails PROVE Fails /\ d \in Landed
  BY <1>7, <1>8, <1>12 DEF SystemCallFails, CloseDeeds, BlockDeeds, Decisions, Landings, Landed, RestoreDeeds
<1>13. ASSUME StepNext, ~(Fails /\ d \in Landed)
       PROVE  StandsAt(p, q, c)'
  <2>1. \/ Refresh
        \/ /\ Proceeds
           /\ \/ d = "checksum" /\ Label
              \/ d = "sync" /\ SyncFile(Primary(r))
              \/ d = "closed" /\ UNCHANGED diskVars
              \/ d \in BlockDeeds
    <3>1. /\ ~Enter /\ ~CopyToPrimary /\ ~Unlink /\ ~Open /\ ~Fill /\ ~Match /\ ~Move /\ ~Leave
          /\ ~Overlook /\ ~Tracked /\ ~Filled /\ ~Deleted /\ ~GoOn /\ ~Moved /\ ~Renamed
      BY <1>7, <1>8
         DEF Enter, CopyToPrimary, Unlink, Open, Fill, Match, Move, Leave, Overlook, Tracked,
             Filled, Deleted, GoOn, Moved, Renamed, Doing, DoingOneOf, CloseDeeds, BlockDeeds
    <3>2. CASE CopyToBackup
      <4>1. d = "copy_to_backup" /\ (Proceeds \/ Fails)
        BY <1>7, <3>2 DEF CopyToBackup, Doing
      <4> QED
        BY <1>13, <4>1 DEF BlockDeeds, Landed
    <3>3. CASE Label
      BY <1>7, <1>8, <3>3 DEF Label, DoingOneOf, Checksums, CloseDeeds, BlockDeeds
    <3>4. CASE LabelBackup
      BY <1>7, <3>4 DEF LabelBackup, Doing, BlockDeeds
    <3>5. CASE Sync
      BY <1>5, <1>7, <1>8, <3>5 DEF Sync, Doing, DoingOneOf, CloseDeeds, BlockDeeds
    <3>6. CASE CloseDone
      BY <1>7, <3>6 DEF CloseDone, Doing
    <3> QED
      BY <1>13, <3>1, <3>2, <3>3, <3>4, <3>5, <3>6 DEF StepNext
  <2>2. Closes(t)
    BY <1>9, <2>1
  <2>3. CASE Handed(p, q, c)
    <3>1. Handed(p, q, c)'
      BY <1>3, <1>4, <1>7, <1>8, <1>13, <2>3, HandedGoes
    <3> QED
      BY <1>10, <2>2, <3>1
  <2>4. CASE Covered(q, c) /\ r # q
    <3>1. TouchesPath /\ Grows
      BY <1>2, <1>3, <1>4, <1>13, StepTouches, StepGrows
    <3>2. Covered(q, c)'
      BY <1>5, <1>8, <2>4, <3>1, ElsewhereStays DEF TouchesPath
    <3>3. t = <<>> \/ Head(t).at = r
      BY <1>9, <2>1
    <3> QED
      BY <1>10, <2>2, <2>4, <3>2, <3>3
  <2>5. CASE Covered(q, c) /\ r = q /\ d = "checksum" /\ Proceeds /\ Label
    <3>1. Covered(q, c)'
      <4>1. Becomes(names[Primary(q)], Sealed(Content(q)))
        BY <1>5, <2>5 DEF Label, Sealed
      <4> QED
        BY <1>4, <2>5, <4>1, CoveredLabels
    <3>2. t = <<>> \/ Head(t).do = "sync"
      BY <1>7, <1>9, <2>5 DEF FollowsHere
    <3> QED
      BY <1>10, <2>2, <3>1, <3>2
  <2>6. CASE Covered(q, c) /\ r = q /\ d = "sync" /\ Proceeds /\ SyncFile(Primary(r))
    <3>1. Primary(q) \in Names
      BY NamesAre
    <3>2. /\ UNCHANGED <<names, namesLeft>> /\ Now(Primary(q))' = {At(Primary(q))}
      BY <1>4, <2>6, <3>1, SyncFileEffect
    <3>3. At(Primary(q)) = Sealed(Content(q))
      BY <1>3, <1>5, <1>7, <2>6 DEF Stands, Place, Summed
    <3>4. Handed(p, q, c)'
      BY <2>6, <3>2, <3>3 DEF Covered, Handed, Exists, Durable
    <3> QED
      BY <1>10, <2>2, <3>4
  <2>7. CASE Covered(q, c) /\ r = q /\ d = "closed" /\ Proceeds /\ UNCHANGED diskVars
    <3>1. Primary(q) \in Names /\ Backup(q) \in Names
      BY NamesAre
    <3>2. Covered(q, c)'
      BY <2>7, <3>1, NoEffect, CoveredStays
    <3>3. t = <<>>
      BY <1>9, <2>7
    <3> QED
      BY <1>10, <2>2, <3>2, <3>3
  <2> QED
    BY <1>5, <1>7, <1>9, <2>1, <2>3, <2>4, <2>5, <2>6, <2>7 DEF BlockDeeds
<1> QED
  BY <1>11, <1>12, <1>13

\* While its source is deleted.
LEMMA DeleteCarries ==
    ASSUME SurviveIInv, FilesIInv', NEW p \in Paths, NEW q \in Paths, NEW c, todo # <<>>, p # q,
           Last.do # "renamed", Path = p, Head(todo).do \in DeleteDeeds,
           Handed(p, q, c) \/ Covered(q, c), StepNext \/ SystemCallFails
    PROVE  StandsAt(p, q, c)'
<1>1. ~Renames(Head(todo), Last) /\ ~Doing("move")
  BY DEF Renames, Doing, DeleteDeeds
<1>2. Stands /\ HasFile /\ Struct
  BY <1>1, StandsIs DEF SurviveIInv, Sure
<1>3. Disk /\ Disk' /\ Injective /\ FilesIInv /\ Chained(todo) /\ todo \in Seq(FileSteps)
  BY <1>2 DEF Stands, FilesIInv, Struct, Chained
<1>4. PICK t : t = todo'
  OBVIOUS
<1>5. PICK d : d = Head(todo).do
  OBVIOUS
<1>6. ASSUME t # <<>> => Head(t).at = p /\ Head(t).do \in DeleteDeeds /\ t[Len(t)].do # "renamed",
             Handed(p, q, c)' \/ Covered(q, c)'
      PROVE  StandsAt(p, q, c)'
  <2>1. (todo = <<>>)' => t = <<>>
    BY <1>4
  <2>2. (todo # <<>>)' => t # <<>> /\ Path' = Head(t).at /\ (Head(todo).do)' = Head(t).do
                          /\ (Last.do)' = t[Len(t)].do
    BY <1>4 DEF Path, Last
  <2> QED
    BY <1>6, <2>1, <2>2 DEF StandsAt
<1>7. CASE Fails /\ d \in Landed
  <2>1. UNCHANGED diskVars /\ Primary(q) \in Names /\ Backup(q) \in Names /\ t = FromLanding(todo)
    BY <1>4, <1>7, NamesAre DEF Fails
  <2>2. /\ Same(Primary(q)) /\ Same(Backup(q)) /\ (Durable(Primary(q))' <=> Durable(Primary(q)))
        /\ (Durable(Backup(q))' <=> Durable(Backup(q))) /\ Grows
    BY <2>1, NoEffect DEF diskVars, Grows
  <2>3. Handed(p, q, c) => Handed(p, q, c)'
    BY <2>2, HandedStays
  <2>4. Covered(q, c) => Covered(q, c)'
    BY <2>2, CoveredStays
  <2>5. Lands(todo) /\ d \in {"unlink", "sync_unlink", "unlink_backup", "sync_unlink_backup"}
    BY <1>3, <1>5, <1>7, LandsAhead DEF DeleteDeeds, Landed, BlockDeeds, RestoreDeeds
  <2>6. Chained(t) /\ t # <<>> /\ t[Len(t)] = Last /\ Belongs(Head(t), Last)
    <3>1. t # <<>>
      BY <2>1, <2>5 DEF Lands
    <3>2. Chained(t) /\ t[Len(t)] = Last
      BY <1>3, <2>1, <3>1, SuffixChained DEF Last
    <3> QED
      BY <3>1, <3>2, TailChained
  <2>7. Head(t).do \notin PairDeeds \cup TargetDeeds
    BY <2>6 DEF Belongs
  <2>8. Head(t).do = "deleted" /\ Head(t).at = p
    BY <1>5, <2>1, <2>5, <2>7 DEF Lands, PairDeeds, TargetDeeds, Path
  <2> QED
    BY <1>6, <2>3, <2>4, <2>6, <2>8 DEF DeleteDeeds
<1>8. ASSUME SystemCallFails PROVE Fails /\ d \in Landed
  BY <1>5, <1>8 DEF SystemCallFails, DeleteDeeds, Decisions, Landings, Landed
<1>9. ASSUME StepNext, ~(Fails /\ d \in Landed)
      PROVE  StandsAt(p, q, c)'
  <2>1. Proceeds
    <3>1. /\ ~Enter /\ ~CopyToPrimary /\ ~CopyToBackup /\ ~Label /\ ~LabelBackup /\ ~Refresh /\ ~Open /\ ~Fill /\ ~Match /\ ~Move /\ ~Leave
          /\ ~Overlook /\ ~Tracked /\ ~Filled /\ ~CloseDone /\ ~GoOn /\ ~Moved /\ ~Renamed
      BY <1>5
         DEF Enter, CopyToPrimary, CopyToBackup, Label, LabelBackup, Refresh, Open, Fill, Match, Move, Leave,
             Overlook, Tracked, Filled, CloseDone, GoOn, Moved, Renamed, Doing, DoingOneOf, DeleteDeeds, Checksums
    <3>2. Sync \/ Unlink \/ Deleted
      BY <1>9, <3>1 DEF StepNext
    <3> QED
      BY <3>2 DEF Sync, Unlink, Deleted
  <2>2. t = Tail(todo)
    BY <1>4, <2>1 DEF Proceeds
  <2>3. t # <<>> => Head(t).at = p /\ FollowsHere(Head(todo), Head(t)) /\ t[Len(t)].do # "renamed"
    <3>1. d \notin {"enter", "open", "match"}
      BY <1>5 DEF DeleteDeeds
    <3> QED
      BY <1>2, <1>5, <2>2, <3>1, PathGoesOn
  <2>4. t # <<>> => Head(t).do \in DeleteDeeds
    BY <1>5, <2>3 DEF FollowsHere, DeleteDeeds
  <2>5. TouchesPath /\ Grows
    BY <1>1, <1>2, <1>3, <1>9, StepTouches, StepGrows
  <2>6. Handed(p, q, c)' \/ Covered(q, c)'
    BY <2>5, ElsewhereStays DEF TouchesPath
  <2> QED
    BY <1>6, <2>3, <2>4, <2>6
<1> QED
  BY <1>7, <1>8, <1>9

\* While its target is made sure of.
LEMMA PairCarries ==
    ASSUME SurviveIInv, FilesIInv', NEW p \in Paths, NEW q \in Paths, NEW c, todo # <<>>, p # q,
           Renames(Head(todo), Last), Last.at = p, Last.to = q, Handed(p, q, c),
           StepNext \/ SystemCallFails
    PROVE  StandsAt(p, q, c)'
<1>1. Pairing(p, q) /\ HasFile
  BY PairingIs
<1>2. Disk /\ Disk' /\ Injective /\ FilesIInv /\ Chained(todo) /\ todo \in Seq(FileSteps)
  BY <1>1 DEF Pairing, FilesIInv, Struct, Chained
<1>3. PICK t : t = todo'
  OBVIOUS
<1>4. PICK d : d = Head(todo).do
  OBVIOUS
<1>5. /\ d \in {"sync_move", "after_move", "after_unlink", "checksum_moved", "unlink_backup",
                "sync_unlink_backup", "moved", "renamed"} \cup BlockDeeds
      /\ d = "renamed" => Tail(todo) = <<>>
  <2>1. PICK u : u = Tail(todo)
    OBVIOUS
  <2>2. Pairing(p, q)
    BY <1>1
  <2>3. /\ d \in {"sync_move", "after_move", "after_unlink", "checksum_moved", "unlink_backup",
                  "sync_unlink_backup", "moved", "renamed"} \cup BlockDeeds
        /\ d = "renamed" => u = <<>>
    BY ONLY <1>4, <2>1, <2>2, ComesPair
  <2> QED
    BY <2>1, <2>3
<1>6. ASSUME Handed(p, q, c)',
             t = <<>> \/ (t # <<>> /\ t[Len(t)] = Last /\ Head(t).do # "move")
      PROVE  StandsAt(p, q, c)'
  <2>1. (todo = <<>>)' => t = <<>>
    BY <1>3
  <2>2. (todo # <<>>)' => t # <<>> /\ (Head(todo).do)' = Head(t).do /\ Last' = t[Len(t)]
    BY <1>3 DEF Last
  <2>3. (todo # <<>>)' => Renames(Head(todo), Last)' /\ (Last.at)' = p /\ (Last.to)' = q
    BY <1>6, <2>2 DEF Renames
  <2> QED
    BY <1>6, <2>1, <2>3 DEF StandsAt
<1>7. ASSUME StepNext PROVE Handed(p, q, c)'
  <2>1. Head(todo).do \in SealedDeeds
    BY <1>4, <1>5 DEF SealedDeeds, CloseDeeds, TargetDeeds
  <2> QED
    BY <1>1, <1>2, <1>7, <2>1, HandedGoes
<1>8. CASE StepNext /\ ~Renamed
  <2>1. t # <<>> /\ t[Len(t)] = Last /\ Head(t).do # "move"
    BY <1>1, <1>3, <1>8, StepPairs
  <2> QED
    BY <1>6, <1>7, <1>8, <2>1
<1>9. CASE StepNext /\ Renamed
  <2>1. t = <<>>
    BY <1>3, <1>4, <1>5, <1>9 DEF Renamed, Doing, Proceeds
  <2> QED
    BY <1>6, <1>7, <1>9, <2>1
<1>10. CASE SystemCallFails
  <2>1. Fails /\ UNCHANGED <<fds, backupResult>> /\ Head(todo).do \notin Decisions /\ trouble' # 0
    <3>1. trouble \in Nat
      BY <1>2 DEF FilesIInv, ClientTypeOK
    <3> QED
      BY <1>4, <1>5, <1>10, <3>1 DEF SystemCallFails, BlockDeeds
  <2>2. t # <<>> /\ t[Len(t)] = Last /\ Head(t).do # "move"
    BY <1>1, <1>3, <2>1, FailPairs
  <2>3. UNCHANGED diskVars /\ Primary(q) \in Names
    BY <2>1, NamesAre DEF Fails
  <2>4. Handed(p, q, c)'
    BY <2>3, NoEffect, HandedStays DEF diskVars, Grows
  <2> QED
    BY <1>6, <2>2, <2>4
<1> QED
  BY <1>8, <1>9, <1>10

\* A file that leaves its path is the one that its target has now.
LEMMA MoveCarries ==
    ASSUME SurviveIInv, FilesIInv', Move, Exists(Primary(Path)), NEW m \in moving'
    PROVE  /\ m.from \in Paths /\ m.to \in Paths /\ m.from # m.to /\ m.content # "none"
           /\ StandsAt(m.from, m.to, m.content)'
<1>1. PICK p : p = Path
  OBVIOUS
<1>2. PICK q : q = Head(todo).to
  OBVIOUS
<1>3. PICK t : t = todo'
  OBVIOUS
<1>4. /\ Struct /\ FilesIInv /\ Injective /\ Point /\ Disk /\ Disk'
      /\ todo # <<>> /\ Head(todo).do = "move" /\ ~Renames(Head(todo), Last)
  BY DEF SurviveIInv, Sure, FilesIInv, Move, Doing, NoCall, Renames
<1>5. /\ Head(todo) \in FileSteps /\ p \in Paths /\ q \in Paths /\ p # q
      /\ Last.do = "renamed" /\ Last.at = p /\ Last.to = q
  <2>1. Head(todo) \in FileSteps /\ Belongs(Head(todo), Last)
    BY <1>4, TailChained DEF Struct, Last
  <2> QED
    BY <1>1, <1>2, <1>4, <2>1 DEF Belongs, PairDeeds, TargetDeeds, BlockDeeds, FileSteps, Path
<1>6. Rest(p)
  <2>1. PointAt(Head(todo), Ahead, Last)
    BY <1>4 DEF Point
  <2>2. Place(p, "move", Ahead, Head(todo).flags)
    BY <1>1, <1>4, <2>1 DEF PointAt, Path
  <2> QED
    BY <2>2 DEF Place, RestDeeds
<1>7. PICK c : c = Content(p)
  OBVIOUS
<1>8. /\ Exists(Primary(p)) /\ Proceeds /\ m \in moving'
      /\ names' = [names EXCEPT ![Primary(q)] = names[Primary(p)], ![Primary(p)] = 0]
      /\ namesLeft' = namesLeft \cup {names'}
      /\ UNCHANGED <<inodes, inodesLeft>>
      /\ Moves(p, q)
  BY <1>1, <1>2 DEF Move
<1>9. /\ m = [from |-> p, to |-> q, content |-> c] /\ p \notin loose
      /\ Validates(At(Primary(p))) /\ inodesLeft[names[Primary(p)]] = {At(Primary(p))}
  BY <1>7, <1>8 DEF Moves
<1>10. m.from = p /\ m.to = q /\ m.content = c
  BY <1>9
<1>11. At(Primary(p)) = Sealed(c) /\ c # "none"
  BY <1>4, <1>5, <1>7, <1>8, <1>9, PlainIs
<1>12. Now(Primary(p)) = {Sealed(c)}
  BY <1>8, <1>9, <1>11 DEF Now, Left, Exists
<1>13. Durable(Primary(p))
  BY <1>6, <1>9 DEF Rest, Resting, Kept, Flush
<1>14. Primary(p) \in Names /\ Primary(q) \in Names /\ Primary(p) # Primary(q)
  BY <1>5, NamesAre
<1>15. /\ Exists(Primary(q))' /\ Now(Primary(q))' = {Sealed(c)} /\ names'[Primary(q)] = names[Primary(p)]
       /\ \A left \in namesLeft' : left \in namesLeft \/ left[Primary(p)] = 0
  BY <1>4, <1>8, <1>12, <1>14, MoveEffect
<1>16. names'[Primary(q)] = names'[Primary(q)] /\ \A left \in namesLeft' :
          left[Primary(p)] = names'[Primary(q)] \/ left[Primary(q)] = names'[Primary(q)]
  BY <1>8, <1>13, <1>15 DEF Durable
<1>17. Handed(p, q, c)'
  BY <1>15, <1>16 DEF Handed
<1>18. /\ t # <<>> /\ Head(t).do = "sync_move" /\ t[Len(t)] = Last
  <2>1. t = Tail(todo)
    BY <1>3, <1>8 DEF Proceeds
  <2>2. t # <<>>
    BY <1>4, <2>1, Comes DEF Endings
  <2>3. Follows(Head(todo), Head(t)) /\ t[Len(t)] = Last
    BY <1>4, <2>1, <2>2, Comes
  <2> QED
    BY <1>4, <2>2, <2>3 DEF Follows, FollowsHere, FollowsThere
<1>19. (todo # <<>>)' /\ (Head(todo).do)' = "sync_move" /\ Last' = Last
  BY <1>3, <1>18 DEF Last
<1>20. StandsAt(p, q, c)'
  <2>1. Renames(Head(todo), Last)' /\ (Last.at)' = p /\ (Last.to)' = q
    BY <1>5, <1>19 DEF Renames
  <2> QED
    BY <1>17, <1>19, <2>1 DEF StandsAt
<1> QED
  BY <1>5, <1>10, <1>11, <1>20

\* A file that is to be deleted has been copied to its target.
LEMMA LeaveCarries ==
    ASSUME SurviveIInv, FilesIInv', CopyHolds, Leave, NEW m \in moving'
    PROVE  /\ m.from \in Paths /\ m.to \in Paths /\ m.from # m.to /\ m.content # "none"
           /\ StandsAt(m.from, m.to, m.content)'
<1>1. PICK p : p = Path
  OBVIOUS
<1>2. PICK q : q = Head(todo).to
  OBVIOUS
<1>3. PICK t : t = todo'
  OBVIOUS
<1>4. /\ Struct /\ FilesIInv /\ Disk
      /\ todo # <<>> /\ Head(todo).do = "leave"
  BY DEF SurviveIInv, Sure, FilesIInv, Leave, Doing, NoCall
<1>5. /\ Head(todo) \in FileSteps /\ p \in Paths /\ q \in Paths /\ Head(todo).at = p
      /\ Last.do = "deleted" /\ Last.at = p
  <2>1. Head(todo) \in FileSteps /\ Belongs(Head(todo), Last)
    BY <1>4, TailChained DEF Struct, Last
  <2> QED
    BY <1>1, <1>2, <1>4, <2>1 DEF Belongs, FileSteps, Path
<1>6. PICK c : c = Content(p)
  OBVIOUS
<1>7. /\ m \in moving' /\ Proceeds /\ UNCHANGED diskVars /\ Moves(p, q)
  BY <1>1, <1>2 DEF Leave
<1>8. /\ m = [from |-> p, to |-> q, content |-> c] /\ p \notin loose /\ trouble <= 1
      /\ Validates(At(Primary(p)))
  BY <1>6, <1>7 DEF Moves
<1>9. m.from = p /\ m.to = q /\ m.content = c
  BY <1>8
<1>10. c # "none"
  BY <1>4, <1>5, <1>6, <1>8, PlainIs
<1>11. q # p /\ Firm(q, c)
  <2>1. CopyAt(p, Head(todo), Ahead)
    BY <1>4, <1>5, <1>8 DEF CopyHolds
  <2> QED
    BY <1>2, <1>4, <1>5, <1>6, <2>1 DEF CopyAt
<1>12. Handed(p, q, c) \/ Covered(q, c)
  BY <1>11 DEF Firm, Handed, Durable
<1>13. Handed(p, q, c)' \/ Covered(q, c)'
  <2>1. Primary(q) \in Names /\ Backup(q) \in Names
    BY <1>5, NamesAre
  <2>2. /\ Same(Primary(q)) /\ Same(Backup(q)) /\ (Durable(Primary(q))' <=> Durable(Primary(q)))
        /\ (Durable(Backup(q))' <=> Durable(Backup(q))) /\ Grows
    BY <1>7, <2>1, NoEffect DEF diskVars, Grows
  <2>3. Handed(p, q, c) => Handed(p, q, c)'
    BY <1>5, <2>2, HandedStays
  <2>4. Covered(q, c) => Covered(q, c)'
    BY <1>5, <2>2, CoveredStays
  <2> QED
    BY <1>12, <2>3, <2>4
<1>14. /\ t # <<>> /\ Head(t).do = "unlink" /\ Head(t).at = p /\ t[Len(t)] = Last
  <2>1. t = Tail(todo)
    BY <1>3, <1>7 DEF Proceeds
  <2>2. t # <<>>
    BY <1>4, <2>1, Comes DEF Endings
  <2>3. Follows(Head(todo), Head(t)) /\ t[Len(t)] = Last
    BY <1>4, <2>1, <2>2, Comes
  <2> QED
    BY <1>4, <1>5, <2>2, <2>3 DEF Follows, FollowsHere, FollowsThere
<1>15. (todo # <<>>)' /\ (Head(todo).do)' = "unlink" /\ Path' = p /\ Last' = Last
  BY <1>3, <1>14 DEF Last, Path
<1>16. StandsAt(p, q, c)'
  <2>1. (Last.do)' # "renamed" /\ (Head(todo).do)' \in DeleteDeeds
    BY <1>5, <1>15 DEF DeleteDeeds
  <2> QED
    BY <1>13, <1>15, <2>1 DEF StandsAt
<1> QED
  BY <1>5, <1>9, <1>10, <1>11, <1>16

\* Wherever a rename stands, its file is found after a crash.
LEMMA StandsFindable ==
    ASSUME Disk, NEW p \in Paths, NEW q \in Paths, NEW c, c # "none", StandsAt(p, q, c)
    PROVE  Findable(p, q, c)
<1>1. Handed(p, q, c) \/ Covered(q, c) \/ Findable(p, q, c)
  BY DEF StandsAt
<1> QED
  BY <1>1, HandedFindable

\* And after the crash.
LEMMA CrashCarries ==
    ASSUME SurviveIInv, Crash, NEW p \in Paths, NEW q \in Paths, NEW c, c # "none", StandsAt(p, q, c)
    PROVE  StandsAt(p, q, c)'
<1>1. Disk /\ fds' = {} /\ todo' = <<>> /\ namesLeft' = {names'}
  BY DEF SurviveIInv, FilesIInv, Crash
<1>2. /\ \A n \in Names : Now(n)' = {At(n)'}
      /\ \E left \in namesLeft : \A n \in Names : At(n)' \in Left(left[n])
  BY <1>1, CrashLeaves
<1>3. PICK left \in namesLeft : \A n \in Names : At(n)' \in Left(left[n])
  BY <1>2
<1>4. Finds(p, left) = {c} \/ Finds(q, left) = {c}
  BY <1>1, StandsFindable DEF Findable
<1>5. ASSUME NEW r \in Paths, Finds(r, left) = {c} PROVE Finds(r, names)' = {c}
  <2>1. Primary(r) \in Names /\ Backup(r) \in Names
    BY NamesAre
  <2>2. Finds(r, names)' = {Found(At(Primary(r))', At(Backup(r))')}
    <3>1. Left(names[Primary(r)])' = {At(Primary(r))'} /\ Left(names[Backup(r)])' = {At(Backup(r))'}
      BY <1>2, <2>1 DEF Now
    <3>2. Finds(r, names)' = {Found(f, g) : f \in Left(names[Primary(r)])', g \in Left(names[Backup(r)])'}
      BY DEF Finds, Found
    <3> QED
      BY <3>1, <3>2
  <2>3. Found(At(Primary(r))', At(Backup(r))') \in Finds(r, left)
    BY <1>3, <2>1 DEF Finds
  <2> QED
    BY <1>5, <2>2, <2>3
<1>6. Findable(p, q, c)'
  <2>1. Finds(p, names)' = {c} \/ Finds(q, names)' = {c}
    BY <1>4, <1>5
  <2>2. \A x \in namesLeft' : x = names'
    BY <1>1
  <2>3. \A x : x = names' => (Finds(p, x)' = Finds(p, names)' /\ Finds(q, x)' = Finds(q, names)')
    BY DEF Finds
  <2> QED
    BY <2>1, <2>2, <2>3 DEF Findable
<1> QED
  BY <1>1, <1>6 DEF StandsAt

\* A client closes a file between two calls.
LEMMA ClosingCarries ==
    ASSUME SurviveIInv, NEW fd \in fds, taf_pa_file_Close(fd),
           NEW p \in Paths, NEW q \in Paths, NEW c, StandsAt(p, q, c)
    PROVE  StandsAt(p, q, c)'
<1>1. todo = <<>> /\ UNCHANGED diskVars /\ fds # {} /\ Primary(q) \in Names /\ Backup(q) \in Names
  BY NamesAre DEF taf_pa_file_Close, NoCall
<1>2. Handed(p, q, c) \/ Covered(q, c)
  BY <1>1 DEF StandsAt
<1>3. Handed(p, q, c)' \/ Covered(q, c)'
  <2>1. /\ Same(Primary(q)) /\ Same(Backup(q)) /\ (Durable(Primary(q))' <=> Durable(Primary(q)))
        /\ (Durable(Backup(q))' <=> Durable(Backup(q))) /\ Grows
    BY <1>1, NoEffect DEF diskVars, Grows
  <2>2. Handed(p, q, c) => Handed(p, q, c)'
    BY <2>1, HandedStays
  <2>3. Covered(q, c) => Covered(q, c)'
    BY <2>1, CoveredStays
  <2> QED
    BY <1>2, <2>2, <2>3
<1>4. CASE todo' = <<>>
  BY <1>3, <1>4 DEF StandsAt
<1>5. CASE todo' # <<>>
  <2>1. PICK r \in Paths : todo' = Closing(r)
    BY <1>1, <1>5 DEF taf_pa_file_Close
  <2>2. PICK t : t = Closing(r)
    OBVIOUS
  <2>3. Closes(t) /\ t # <<>> /\ Head(t).do = "checksum"
    BY <2>2, ClosingCloses, ClosingChained
  <2>4. (todo # <<>>)' /\ (Head(todo).do)' = "checksum" /\ Closes(todo)'
    BY <2>1, <2>2, <2>3 DEF Closes
  <2> QED
    BY <1>3, <2>4 DEF StandsAt
<1> QED
  BY <1>4, <1>5

\* What is on its way gets there, whatever happens.
LEMMA CarriedStep ==
    ASSUME SurviveIInv, FilesIInv', CopyHolds, MoveHolds, [FilesNext]_fileVars
    PROVE  MoveHolds'
<1> SUFFICES ASSUME NEW m \in moving'
             PROVE  /\ m.from \in Paths /\ m.to \in Paths /\ m.from # m.to /\ m.content # "none"
                    /\ StandsAt(m.from, m.to, m.content)'
  BY DEF MoveHolds
<1>1. CASE m \in moving
  <2>1. PICK p : p = m.from
    OBVIOUS
  <2>2. PICK q : q = m.to
    OBVIOUS
  <2>3. PICK c : c = m.content
    OBVIOUS
  <2>4. p \in Paths /\ q \in Paths /\ p # q /\ c # "none" /\ StandsAt(p, q, c)
    BY <1>1, <2>1, <2>2, <2>3 DEF MoveHolds
  <2>5. CASE StepNext \/ SystemCallFails
    <3>1. CASE todo = <<>>
      <4>1. todo # <<>>
        BY <2>5, Zenon
           DEF SystemCallFails, StepNext, Enter, Refresh, CopyToBackup, CopyToPrimary, Label, LabelBackup, Sync, Unlink,
               Open, Fill, Match, Move, Leave, Overlook, Tracked, Filled, CloseDone, Deleted, GoOn,
               Moved, Renamed, Doing, DoingOneOf, NoCall
      <4> QED
        BY <3>1, <4>1
    <3>2. CASE todo # <<>>
      <4>1. \/ Renames(Head(todo), Last) /\ Last.at = p /\ Last.to = q /\ Handed(p, q, c)
            \/ /\ Last.do # "renamed" /\ Path = p /\ Head(todo).do \in DeleteDeeds
               /\ Handed(p, q, c) \/ Covered(q, c)
            \/ /\ Closes(todo)
               /\ \/ Handed(p, q, c)
                  \/ Covered(q, c) /\ (Path # q \/ Head(todo).do \in {"checksum", "sync", "closed"})
        BY <2>4, <3>2 DEF StandsAt
      <4>2. StandsAt(p, q, c)'
        BY <2>4, <2>5, <3>2, <4>1, PairCarries, DeleteCarries, CloseCarries
      <4> QED
        BY <2>1, <2>2, <2>3, <2>4, <4>2
    <3> QED
      BY <3>1, <3>2
  <2>6. CASE ClientCalls
    <3>1. PICK fd \in fds : taf_pa_file_Close(fd)
      <4>1. \A s : Calls(s) => moving' = {}
        BY DEF Calls
      <4>2. moving' # {}
        OBVIOUS
      <4> QED
        BY <2>6, <4>1, <4>2
           DEF ClientCalls, taf_pa_file_Delete, taf_pa_file_Open, taf_pa_file_Copy, taf_pa_file_Rename, taf_pa_file_Write
    <3>2. StandsAt(p, q, c)'
      BY <2>4, <3>1, ClosingCarries
    <3> QED
      BY <2>1, <2>2, <2>3, <2>4, <3>2
  <2>7. CASE Crash
    <3>1. StandsAt(p, q, c)'
      BY <2>4, <2>7, CrashCarries
    <3> QED
      BY <2>1, <2>2, <2>3, <2>4, <3>1
  <2>8. CASE \E r \in Paths : Damage(r)
    BY <2>8 DEF Damage
  <2>9. CASE UNCHANGED fileVars
    <3>1. StandsAt(p, q, c)'
      <4>1. UNCHANGED <<names, namesLeft, inodes, inodesLeft, fds, todo>>
        BY <2>9 DEF fileVars, diskVars
      <4>2. Handed(p, q, c)' <=> Handed(p, q, c)
        BY <4>1 DEF Handed, Exists, Now, Left
      <4>3. Covered(q, c)' <=> Covered(q, c)
        BY <4>1 DEF Covered, Exists, Now, Left, Content, At, Durable
      <4>4. Findable(p, q, c)' <=> Findable(p, q, c)
        <5>1. \A r, left : Finds(r, left)' = Finds(r, left)
          BY <4>1 DEF Finds, Left
        <5> QED
          BY <4>1, <5>1 DEF Findable
      <4>5. Path' = Path /\ Last' = Last /\ (Head(todo).do)' = Head(todo).do /\ (Closes(todo)' <=> Closes(todo))
            /\ (Renames(Head(todo), Last)' <=> Renames(Head(todo), Last))
        BY <4>1 DEF Path, Last, Renames, Closes
      <4> QED
        BY <2>4, <4>1, <4>2, <4>3, <4>4, <4>5 DEF StandsAt
    <3> QED
      BY <2>1, <2>2, <2>3, <2>4, <3>1
  <2> QED
    BY <2>5, <2>6, <2>7, <2>8, <2>9 DEF FilesNext
<1>2. CASE m \notin moving
  <2>1. moving' # moving
    BY <1>2
  <2>2. CASE Leave
    BY <2>2, LeaveCarries
  <2>3. CASE Move
    <3>1. Exists(Primary(Path))
      BY <2>1, <2>3 DEF Move
    <3> QED
      BY <2>3, <3>1, MoveCarries
  <2>4. Leave \/ Move
    <3>1. CASE ClientCalls
      <4>1. \A s : Calls(s) => moving' = {}
        BY DEF Calls
      <4>2. \A fd : taf_pa_file_Write(fd) => moving' = {}
        BY DEF taf_pa_file_Write
      <4>3. \A fd : taf_pa_file_Close(fd) => moving' = moving
        BY DEF taf_pa_file_Close, promiseVars
      <4>4. moving' # {}
        OBVIOUS
      <4> QED
        BY <2>1, <3>1, <4>1, <4>2, <4>3, <4>4
           DEF ClientCalls, taf_pa_file_Delete, taf_pa_file_Open, taf_pa_file_Copy, taf_pa_file_Rename
    <3>2. CASE SystemCallFails \/ Crash \/ \E r \in Paths : Damage(r)
      BY <2>1, <3>2 DEF SystemCallFails, Fails, Crash, Damage, promiseVars
    <3>3. CASE UNCHANGED fileVars
      BY <2>1, <3>3 DEF fileVars, promiseVars
    <3>4. CASE StepNext
      <4>1. Fails \/ UNCHANGED promiseVars => moving' = moving
        BY DEF Fails, promiseVars
      <4>2. ~Renamed
        BY <1>2 DEF Renamed
      <4>3. Enter \/ Refresh \/ CopyToBackup \/ CopyToPrimary \/ Label \/ LabelBackup \/ Sync \/ Unlink
                \/ Open \/ Fill \/ Match => moving' = moving
        BY <4>1 DEF Enter, Refresh, CopyToBackup, CopyToPrimary, Label, LabelBackup, Sync, Unlink, Open, Fill, Match
      <4>4. Overlook \/ Tracked \/ Filled \/ CloseDone \/ Deleted \/ GoOn \/ Moved => moving' = moving
        BY <4>1 DEF Overlook, Tracked, Filled, CloseDone, Deleted, GoOn, Moved
      <4> QED
        BY <2>1, <3>4, <4>2, <4>3, <4>4 DEF StepNext
    <3> QED
      BY <3>1, <3>2, <3>3, <3>4 DEF FilesNext
  <2> QED
    BY <2>2, <2>3, <2>4
<1> QED
  BY <1>1, <1>2

-----------------------------------------------------------------------------
(* A rename by a copy.  The source is deleted when its target has a backup   *)
(* of the same content: then the target is flushed, or that backup was there *)
(* before, and counts.                                                       *)

\* A call keeps its last step, unless it is given up.
LEMMA SameLast ==
    ASSUME Struct, StepNext \/ SystemCallFails, NEW t, t = todo', t # <<>>,
           t[Len(t)].do = "deleted", t[Len(t)].at \notin loose'
    PROVE  todo # <<>> /\ t[Len(t)] = Last
<1>1. todo # <<>>
  BY Zenon
     DEF SystemCallFails, StepNext, Enter, Refresh, CopyToBackup, CopyToPrimary, Label, LabelBackup, Sync, Unlink,
         Open, Fill, Match, Move, Leave, Overlook, Tracked, Filled, CloseDone, Deleted, GoOn,
         Moved, Renamed, Doing, DoingOneOf, NoCall
<1>2. Chained(todo)
  BY DEF Struct
<1>3. ASSUME Proceeds PROVE t[Len(t)] = Last
  <2>1. PICK u : u = Tail(todo)
    OBVIOUS
  <2>2. t = u
    BY <1>3, <2>1 DEF Proceeds
  <2> QED
    BY <1>1, <2>1, <2>2, Comes
<1>4. ASSUME Fails PROVE t[Len(t)] = Last
  <2>1. t = FromLanding(todo)
    BY <1>4 DEF Fails
  <2> QED
    BY <1>1, <1>2, <2>1, SuffixChained DEF Last
<1>5. ~EndCall
  BY DEF EndCall
<1>6. CASE Enter
  <2>1. Head(todo).do = "enter"
    BY <1>6 DEF Enter, Doing
  <2>2. PICK u : u = Tail(todo)
    OBVIOUS
  <2>3. PICK o : o = Opening(Head(todo).at, Head(todo).flags) \o u
    OBVIOUS
  <2>4. IF u = <<>> THEN o[Len(o)].do = "open" ELSE o[Len(o)] = todo[Len(todo)]
    BY ONLY <1>1, <1>2, <2>1, <2>2, <2>3, OpeningChained
  <2>5. t = o
    BY <1>6, <2>2, <2>3 DEF Enter, Path
  <2> QED
    BY <1>1, <2>4, <2>5 DEF Last
<1>7. CASE Refresh
  <2>1. Head(todo).do = "refresh"
    BY <1>7 DEF Refresh, Doing
  <2>2. PICK o : o = RefreshBackupIfNeeded(Head(todo).at) \o Tail(todo)
    OBVIOUS
  <2>3. o[Len(o)] = todo[Len(todo)]
    BY ONLY <1>1, <1>2, <2>1, <2>2, RefreshChained
  <2>4. t = o
    BY <1>7, <2>2 DEF Refresh, Path
  <2> QED
    BY <1>1, <2>3, <2>4 DEF Last
<1>8. CASE Filled
  <2>1. PICK p : p = Path
    OBVIOUS
  <2>2. p \in Paths
    <3>1. Head(todo) \in FileSteps
      BY <1>1, <1>2, TailChained
    <3> QED
      BY <2>1, <3>1 DEF FileSteps, Path
  <2>3. ~failed
    <3>1. PICK o : o = Labelling(p) \o <<Step("discarded", p)>> \o Deleting(p)
      OBVIOUS
    <3>2. o[Len(o)].at = p
      BY <2>2, <3>1, DiscardingChained
    <3>3. failed => t = o /\ p \in loose'
      BY <1>8, <2>1, <3>1 DEF Filled
    <3> QED
      BY <3>2, <3>3
  <2> QED
    BY <1>1, <1>3, <1>8, <2>3 DEF Filled
<1>9. CASE Moved
  <2>1. Head(todo).do = "moved"
    BY <1>9 DEF Moved, Doing
  <2>2. /\ Tail(todo) # <<>> /\ Tail(todo)[Len(Tail(todo))] = todo[Len(todo)] /\ todo[Len(todo)].do = "renamed"
        /\ LET o == DeleteBackup(Head(todo).to) \o Tail(todo)
           IN  o[Len(o)] = todo[Len(todo)]
    BY ONLY <1>1, <1>2, <2>1, MovedChained
  <2>3. PICK o : o = DeleteBackup(Head(todo).to) \o Tail(todo)
    OBVIOUS
  <2>4. PICK u : u = Tail(todo)
    OBVIOUS
  <2>5. u \in Seq(FileSteps)
    BY <1>1, <1>2, <2>4 DEF Chained
  <2>6. t = o \/ t = u
    <3>1. <<>> \o u = u
      BY <2>5
    <3> QED
      BY <1>9, <2>3, <2>4, <3>1 DEF Moved
  <2> QED
    BY <2>2, <2>3, <2>4, <2>6, <1>1 DEF Last
<1>10. CASE SystemCallFails
  BY <1>1, <1>4, <1>5, <1>10 DEF SystemCallFails
<1>11. CASE CopyToBackup \/ CopyToPrimary \/ Open \/ Match \/ Move \/ Tracked
  <2>1. Proceeds \/ Fails \/ EndCall
    BY <1>11, Zenon DEF CopyToBackup, CopyToPrimary, Open, Match, Move, Tracked
  <2> QED
    BY <1>1, <1>3, <1>4, <1>5, <2>1
<1>12. CASE Label \/ LabelBackup \/ Sync \/ Unlink \/ Fill \/ Leave \/ Overlook \/ CloseDone \/ Deleted \/ GoOn \/ Renamed
  <2>1. Proceeds
    BY <1>12, Zenon DEF Label, LabelBackup, Sync, Unlink, Fill, Leave, Overlook, CloseDone, Deleted, GoOn, Renamed
  <2> QED
    BY <1>1, <1>3, <2>1
<1> QED
  BY <1>1, <1>6, <1>7, <1>8, <1>9, <1>10, <1>11, <1>12 DEF StepNext

\* A call that begins.
LEMMA CallCopies ==
    ASSUME SurviveIInv, ClientCalls PROVE CopyHolds'
<1>1. PICK t : t = todo'
  OBVIOUS
<1>2. SUFFICES ASSUME t # <<>>, t[Len(t)].do = "deleted"
               PROVE  CopyAt(t[Len(t)].at, Head(t), AheadOf(t))'
  <2>1. (todo # <<>> /\ Last.do = "deleted")' => t # <<>> /\ t[Len(t)].do = "deleted"
    BY <1>1 DEF Last
  <2>2. (Last.at)' = t[Len(t)].at /\ Head(todo)' = Head(t) /\ Ahead' = AheadOf(t)
    BY <1>1 DEF Last, Ahead
  <2>3. CopyAt(t[Len(t)].at, Head(t), AheadOf(t))' => CopyAt(Last.at, Head(todo), Ahead)'
    BY <2>2 DEF CopyAt
  <2> QED
    BY <2>1, <2>3 DEF CopyHolds
<1>3. ASSUME NEW p \in Paths, NEW do \in {"enter", "unlink"}, t[Len(t)].at = p, Head(t).at = p,
             Head(t).do = do, do = "enter" => trouble' = 0
      PROVE  CopyAt(t[Len(t)].at, Head(t), AheadOf(t))'
  BY <1>3 DEF CopyAt, SourceDeeds, BlockDeeds, RestoreDeeds
<1>4. ASSUME NEW p \in Paths, taf_pa_file_Delete(p)
      PROVE  CopyAt(t[Len(t)].at, Head(t), AheadOf(t))'
  <2>1. t = Deleting(p)
    BY <1>1, <1>4 DEF taf_pa_file_Delete, Calls
  <2>2. Head(t).do = "unlink" /\ Head(t).at = p /\ t[Len(t)].at = p
    BY <2>1, DeletingChained
  <2> QED
    BY <1>3, <2>2
<1>5. ASSUME NEW p \in Paths, NEW flags \in ClientFlags, taf_pa_file_Open(p, flags) PROVE FALSE
  <2>1. t = <<StepWith("enter", p, flags)>>
    BY <1>1, <1>5 DEF taf_pa_file_Open, Calls
  <2> QED
    BY <1>2, <2>1, EnteringChained
<1>6. ASSUME NEW p \in Paths, NEW q \in Paths, taf_pa_file_Copy(p, q) PROVE FALSE
  <2>1. t = Copying(p, q) /\ p # q
    BY <1>1, <1>6 DEF taf_pa_file_Copy, Calls
  <2> QED
    BY <1>2, <2>1, CopyingChained
<1>7. ASSUME NEW p \in Paths, NEW q \in Paths, taf_pa_file_Rename(p, q)
      PROVE  CopyAt(t[Len(t)].at, Head(t), AheadOf(t))'
  <2>1. p # q /\ trouble' = 0 /\ (t = Renaming(p, q) \/ t = RenamingByCopy(p, q))
    BY <1>1, <1>7 DEF taf_pa_file_Rename, Calls, NoTrouble
  <2>2. t # Renaming(p, q)
    BY <1>2, <2>1, RenamingChained
  <2>3. Head(t).do = "enter" /\ Head(t).at = p /\ t[Len(t)].at = p
    BY <2>1, <2>2, RenamingByCopyChained
  <2> QED
    BY <1>3, <2>1, <2>3
<1>8. ASSUME NEW fd \in fds, taf_pa_file_Write(fd) \/ taf_pa_file_Close(fd) PROVE FALSE
  <2>1. todo = <<>>
    BY <1>8 DEF taf_pa_file_Write, taf_pa_file_Close, NoCall
  <2>2. PICK p \in Paths : t = Closing(p)
    BY <1>1, <1>2, <1>8, <2>1 DEF taf_pa_file_Write, taf_pa_file_Close
  <2> QED
    BY <1>2, <2>2, ClosingChained
<1> QED
  BY <1>4, <1>5, <1>6, <1>7, <1>8 DEF ClientCalls, ClientFlags

\* What is to be shown of a step at the source.
LEMMA SourceCopies ==
    ASSUME NEW p, NEW u, NEW l, u.at = p, u.do # "leave",
           u.do \in SourceDeeds \/ (u.do \in BlockDeeds /\ l \in {"refreshed", "tracked"}) => trouble' = 0
    PROVE  CopyAt(p, u, l)'
  BY DEF CopyAt

\* A path that rests and has a backup has its file for sure, if nothing has gone wrong.
LEMMA RestAnchored ==
    ASSUME Disk, NEW q \in Paths, Rest(q), trouble = 0
    PROVE  Anchored(q)
<1>1. Backup(q) \in Names /\ (~Exists(Backup(q)) => At(Backup(q)) = NoFile)
  BY NamesAre, AtIs
<1>2. Validates(At(Backup(q))) => Exists(Backup(q))
  BY <1>1 DEF Validates, NoFile
<1> QED
  BY <1>2 DEF Rest, Resting, Kept, Flush, Anchored

\* The same in the next state.
LEMMA RestAnchoredNext ==
    (\A q \in Paths : (Disk /\ Rest(q) /\ trouble = 0) => Anchored(q))'
<1>1. \A q \in Paths : (Disk /\ Rest(q) /\ trouble = 0) => Anchored(q)
  BY RestAnchored
<1> QED
  BY <1>1, PTL

\* A path that is exempt stays so, until a close, a deletion or a rename is done.
LEMMA LooseGrows ==
    ASSUME StepNext, ~CloseDone, ~Deleted, ~Renamed
    PROVE  loose \subseteq loose'
<1>1. Fails => loose \subseteq loose'
  BY DEF Fails
<1>2. CASE Enter \/ Refresh \/ CopyToBackup \/ CopyToPrimary \/ LabelBackup \/ Sync \/ Unlink \/ Fill
  BY <1>1, <1>2 DEF Enter, Refresh, CopyToBackup, CopyToPrimary, LabelBackup, Sync, Unlink, Fill, promiseVars
<1>3. CASE Label \/ Open \/ Move \/ Filled
  BY <1>3 DEF Label, Open, Move, Filled
<1>4. CASE Match \/ Leave \/ Overlook \/ Tracked \/ GoOn \/ Moved
  BY <1>4 DEF Match, Leave, Overlook, Tracked, GoOn, Moved, promiseVars
<1> QED
  BY <1>2, <1>3, <1>4 DEF StepNext

\* What a step leaves to be done.
LEMMA StepGoesOn ==
    ASSUME StepNext, todo' # <<>>, ~Move
    PROVE  Enter \/ Refresh \/ Moved \/ Fails \/ Proceeds \/ (Filled /\ failed)
<1>1. CASE CopyToBackup \/ CopyToPrimary \/ Open \/ Match \/ Tracked \/ Filled
  BY <1>1 DEF CopyToBackup, CopyToPrimary, Open, Match, Tracked, Filled, EndCall
<1>2. CASE Label \/ LabelBackup \/ Sync \/ Unlink \/ Fill \/ Leave \/ Overlook \/ CloseDone \/ Deleted \/ GoOn \/ Renamed
  BY <1>2 DEF Label, LabelBackup, Sync, Unlink, Fill, Leave, Overlook, CloseDone, Deleted, GoOn, Renamed
<1> QED
  BY <1>1, <1>2 DEF StepNext

\* The first step of an open is one of its path.
LEMMA OpeningAt ==
    ASSUME NEW p \in Paths, NEW flags \in Flags, NEW u \in Seq(FileSteps)
    PROVE  LET o == Opening(p, flags) \o u
           IN  /\ Head(o).at = p
               /\ Head(o).do \in {"open", "copy_to_primary", "refreshed", "copy_to_backup"}
               /\ Head(o).do = "copy_to_backup" => AheadOf(o) \in {"refreshed", "tracked"}
<1>1. LET h == Opening(p, flags) \o u
          x == Head(h)
          copies == x.do = "copy_to_backup" /\ x.at = p
          opens == x.do = "open" /\ x.at = p /\ x.flags = flags
          restores(l) == x.do = "copy_to_primary" /\ x.at = p /\ AheadOf(h) = l
      IN  IF ~Exists(Primary(p))
          THEN IF WantsFresh(flags) THEN opens
               ELSE restores(IF flags.creates THEN "restored" ELSE "tracked")
          ELSE IF Validates(At(Primary(p)))
          THEN IF HasMatchingBackup(p) THEN x.do = "refreshed" /\ x.at = p
               ELSE copies /\ AheadOf(h) = "refreshed"
          ELSE IF At(Primary(p)).label = "none" /\ ~Validates(At(Backup(p)))
          THEN copies /\ AheadOf(h) = "tracked"
          ELSE restores("tracked")
  BY ONLY p \in Paths, u \in Seq(FileSteps), flags \in Flags, OpeningHead
<1> QED
  BY <1>1

\* The copy is read from its source.
LEMMA CopySource ==
    ASSUME SurviveIInv, SurviveIInv', StepNext, Stands, NEW p \in Paths, Path = p,
           Last.do = "deleted", Last.at = p, p \notin loose',
           p \notin loose => CopyAt(p, Head(todo), Ahead),
           NEW t, t = todo', t # <<>>, t[Len(t)] = Last
    PROVE  CopyAt(p, Head(t), AheadOf(t))'
<1>1. /\ Struct /\ todo # <<>> /\ Chained(todo) /\ Head(todo) \in FileSteps /\ Head(todo).at = p
      /\ Belongs(Head(todo), Last) /\ FilesIInv /\ Disk'
  BY TailChained DEF Stands, Struct, Path, Last, SurviveIInv, FilesIInv
<1>2. PICK s : s = Head(todo)
  OBVIOUS
<1>3. s.do \notin PairDeeds \cup TargetDeeds
  BY <1>1, <1>2 DEF Belongs
<1>4. trouble' = trouble
  BY <1>1, <1>2, <1>3, StepPromises DEF Doing, PairDeeds
<1>5. PICK u : u = Tail(todo)
  OBVIOUS
<1>6. ~Fails /\ ~(Filled /\ failed) /\ ~Moved /\ ~Move
  BY <1>2, <1>3 DEF Fails, Filled, Moved, Move, Doing, PairDeeds
<1>7. CASE Enter
  <2>1. s.do = "enter" /\ p \notin loose
    BY <1>2, <1>7 DEF Enter, Doing, promiseVars
  <2>2. trouble' = 0
    BY <1>1, <1>2, <1>4, <2>1 DEF CopyAt, SourceDeeds
  <2>3. Head(t).at = p /\ Head(t).do \in {"open", "copy_to_primary", "refreshed", "copy_to_backup"}
    <3>1. s.flags \in Flags /\ u \in Seq(FileSteps)
      <4>1. s.flags \in Flags
        BY <1>1, <1>2 DEF FileSteps
      <4>2. todo \in Seq(FileSteps)
        BY <1>1 DEF Chained
      <4> QED
        BY <1>1, <1>5, <4>1, <4>2
    <3>2. PICK f \in Flags, v \in Seq(FileSteps) : f = s.flags /\ v = u
      BY <3>1
    <3>3. PICK o : o = Opening(p, f) \o v
      OBVIOUS
    <3>4. t = o
      BY <1>1, <1>2, <1>5, <1>7, <3>2, <3>3 DEF Enter, Path
    <3>5. Head(o).at = p /\ Head(o).do \in {"open", "copy_to_primary", "refreshed", "copy_to_backup"}
      BY ONLY <3>3, OpeningAt, p \in Paths, f \in Flags, v \in Seq(FileSteps)
    <3> QED
      BY <3>4, <3>5
  <2> QED
    BY <2>2, <2>3, SourceCopies
<1>8. CASE Refresh
  <2>1. s.do = "refresh" /\ t = RefreshBackupIfNeeded(p) \o u
    BY <1>2, <1>5, <1>8 DEF Refresh, Doing, Path
  <2>2. /\ Head(u).do \in {"closed", "discarded"} /\ Head(u).at = p
        /\ IF HasMatchingBackup(p) THEN t = u
           ELSE Head(t).do = "copy_to_backup" /\ Head(t).at = p /\ AheadOf(t) = Head(u).do
    <3>1. LET o == RefreshBackupIfNeeded(Head(todo).at) \o Tail(todo)
          IN  /\ Tail(todo) # <<>> /\ Head(Tail(todo)).do \in {"closed", "discarded"}
              /\ Head(Tail(todo)).at = Head(todo).at
              /\ IF HasMatchingBackup(Head(todo).at) THEN o = Tail(todo)
                 ELSE /\ Head(o).do = "copy_to_backup" /\ Head(o).at = Head(todo).at
                      /\ AheadOf(o) = Head(Tail(todo)).do
      BY ONLY <1>1, <1>2, <2>1, RefreshChained
    <3> QED
      BY ONLY <1>1, <1>5, <2>1, <3>1
  <2>3. Head(t).at = p /\ Head(t).do \in {"closed", "discarded", "copy_to_backup"}
        /\ (Head(t).do = "copy_to_backup" => AheadOf(t) \in {"closed", "discarded"})
    BY <2>2
  <2> QED
    BY <2>3, SourceCopies DEF SourceDeeds, RestoreDeeds, BlockDeeds
<1>9. CASE Proceeds
  <2>1. t = u /\ u # <<>>
    BY <1>5, <1>9 DEF Proceeds
  <2>2. /\ Follows(s, Head(t)) /\ Belongs(Head(t), Last)
        /\ s.do \in BlockDeeds \cup RestoreDeeds =>
               Ahead = IF Head(t).do \in Landings THEN Head(t).do ELSE AheadOf(t)
    BY <1>1, <1>2, <1>5, <2>1, Comes DEF Ahead
  <2>3. PICK d : d = Head(t).do
    OBVIOUS
  <2>4. d \notin PairDeeds \cup TargetDeeds
    BY <2>2, <2>3 DEF Belongs
  <2>5. CASE Head(t).at = p
    <3>1. d # "leave" /\ FollowsHere(s, Head(t))
      BY <1>1, <1>2, <2>2, <2>3, <2>4, <2>5 DEF Follows, FollowsHere, FollowsThere, PairDeeds, TargetDeeds
    <3>2. ASSUME d \in SourceDeeds \/ (d \in BlockDeeds /\ AheadOf(t) \in {"refreshed", "tracked"})
          PROVE  trouble' = 0
      <4>1. \/ s.do \in RestoreDeeds \cup {"tracked", "refreshed", "restored"}
            \/ s.do \in BlockDeeds /\ Ahead \in {"refreshed", "tracked"}
        <5>1. s.do \in RestoreDeeds \cup {"tracked", "refreshed", "restored"} \cup BlockDeeds
          BY <1>3, <2>3, <3>1, <3>2 DEF FollowsHere, SourceDeeds, RestoreDeeds, BlockDeeds, TargetDeeds
        <5>2. CASE s.do \in BlockDeeds
          <6>1. d \in BlockDeeds \/ d \in {"tracked", "refreshed"}
            BY <2>3, <3>1, <3>2, <5>2 DEF FollowsHere, SourceDeeds, RestoreDeeds, BlockDeeds
          <6>2. d \in BlockDeeds => d \notin Landings
            BY BlocksLandNot
          <6>3. d \in {"tracked", "refreshed"} => d \in Landings
            BY DEF Landings
          <6>4. d \in BlockDeeds => d \notin SourceDeeds
            BY DEF BlockDeeds, SourceDeeds, RestoreDeeds
          <6> QED
            BY <2>2, <2>3, <3>2, <5>2, <6>1, <6>2, <6>3, <6>4
        <5> QED
          BY <5>1, <5>2
      <4>2. s.do \notin {"closed", "deleted", "renamed"}
        BY <4>1 DEF RestoreDeeds, BlockDeeds
      <4>3. ~CloseDone /\ ~Deleted /\ ~Renamed
        BY <1>2, <4>2 DEF CloseDone, Deleted, Renamed, Doing
      <4>4. p \notin loose
        BY <4>3, LooseGrows
      <4> QED
        BY <1>1, <1>2, <1>4, <4>1, <4>4 DEF CopyAt, SourceDeeds
    <3> QED
      BY <2>3, <2>5, <3>1, <3>2, SourceCopies
  <2>6. CASE Head(t).at # p
    <3>1. s.do \in {"enter", "open"} /\ d = "enter"
      BY <1>1, <1>2, <2>2, <2>3, <2>4, <2>6 DEF Follows, FollowsThere, Belongs, PairDeeds, TargetDeeds
    <3>2. ~CloseDone /\ ~Deleted /\ ~Renamed
      BY <1>2, <3>1 DEF CloseDone, Deleted, Renamed, Doing
    <3>3. p \notin loose
      BY <3>2, LooseGrows
    <3>4. trouble' = 0
      BY <1>1, <1>2, <1>4, <3>1, <3>3 DEF CopyAt, SourceDeeds
    <3>5. PICK q : q = Head(t).at
      OBVIOUS
    <3>6. q \in Paths
      <4>1. Chained(t)
        BY DEF SurviveIInv, Sure, Struct
      <4> QED
        BY <3>5, <4>1, TailChained DEF FileSteps
    <3>7. Rest(q)'
      <4>1. PointAt(Head(t), AheadOf(t), t[Len(t)])'
        BY DEF SurviveIInv, Sure, Point, Ahead, Last
      <4>2. Place(q, d, AheadOf(t), Head(t).flags)'
        BY <2>3, <3>5, <4>1 DEF PointAt, Renames
      <4> QED
        BY <3>1, <4>2 DEF Place, RestDeeds
    <3>8. Anchored(q)'
      BY <1>1, <3>4, <3>6, <3>7, RestAnchoredNext
    <3> QED
      BY <2>3, <2>6, <3>1, <3>4, <3>5, <3>8 DEF CopyAt, RestoreDeeds, BlockDeeds
  <2> QED
    BY <2>5, <2>6
<1> QED
  BY <1>6, <1>7, <1>8, <1>9, StepGoesOn

\* A rename by a copy, at its target.
Filling(p, q) ==
    /\ Stands /\ HasFile
    /\ p \in Paths /\ q \in Paths /\ p # q /\ Path = q
    /\ Last.do = "deleted" /\ Last.at = p
    /\ trouble \in {0, 1}
    /\ CopyAt(p, Head(todo), Ahead)

\* The step that comes next.
LEMMA FillingNext ==
    ASSUME NEW p, NEW q, Filling(p, q), NEW t, t = Tail(todo), t # <<>>, NEW s, s = Head(todo)
    PROVE  /\ s.at = q /\ s.do \notin PairDeeds \cup TargetDeeds
           /\ Head(t).do \notin PairDeeds \cup TargetDeeds
           /\ \/ Head(t).at = q /\ FollowsHere(s, Head(t))
              \/ s.do = "match" /\ Head(t).do = "leave" /\ Head(t).at = p /\ Head(t).to = q
           /\ s.do \in {"enter", "open"} => s.flags = O_TRUNC
           /\ Head(t).do \in {"enter", "open"} => Head(t).flags = O_TRUNC
           /\ s.do = "fill" => s.to = p
           /\ s.do \in BlockDeeds \cup RestoreDeeds =>
                  /\ Head(t).do \in Landings => Ahead = Head(t).do
                  /\ Head(t).do \notin Landings => Ahead = AheadOf(t)
<1>1. /\ Struct /\ todo # <<>> /\ s.at = q /\ Path = q
      /\ Last.do = "deleted" /\ Last.at = p /\ q # p
  BY DEF Filling, Stands, Path
<1>2. Belongs(s, Last)
  BY <1>1, TailChained DEF Struct, Last
<1>3. PICK u : u = Head(t)
  OBVIOUS
<1>4. /\ Follows(s, u) /\ Belongs(u, Last)
      /\ s.do \in BlockDeeds \cup RestoreDeeds =>
                  Ahead = IF u.do \in Landings THEN u.do ELSE AheadOf(t)
  BY <1>1, <1>3, Comes DEF Ahead
<1>5. s.do \notin PairDeeds \cup TargetDeeds /\ u.do \notin PairDeeds \cup TargetDeeds
  BY <1>1, <1>2, <1>4 DEF Belongs
<1>6. s.do \in {"enter", "open"} => s.flags = O_TRUNC
  BY <1>1, <1>2 DEF Belongs
<1>7. O_TRUNC # O_RDONLY
  BY DEF O_TRUNC, O_RDONLY, O_CREAT
<1>8. \/ u.at = q /\ FollowsHere(s, u)
      \/ s.do = "match" /\ u.do = "leave" /\ u.at = p /\ u.to = q
  <2>1. CASE u.at = q /\ FollowsHere(s, u)
    BY <2>1
  <2>2. CASE FollowsThere(s, u)
    <3>1. s.do = "match" /\ u.do = "leave" /\ u.to = q
      BY <1>1, <1>5, <1>6, <1>7, <2>2 DEF FollowsThere, PairDeeds, TargetDeeds
    <3> QED
      BY <1>1, <1>4, <3>1 DEF Belongs
  <2> QED
    BY <1>1, <1>4, <2>1, <2>2 DEF Follows
<1>9. u.do \in {"enter", "open"} => u.flags = O_TRUNC
  BY <1>1, <1>4, <1>8 DEF Belongs
<1>10. s.do = "fill" => s.to = p
  BY <1>1, <1>2 DEF Belongs
<1> QED
  BY <1>1, <1>3, <1>4, <1>5, <1>6, <1>8, <1>9, <1>10

\* Nothing is done to the source.
LEMMA FillingFrame ==
    ASSUME NEW p, NEW q, Filling(p, q), FilesIInv', StepNext
    PROVE  Content(p)' = Content(p) /\ trouble' = trouble /\ Disk /\ Disk' /\ Injective /\ FilesIInv
<1>1. /\ FilesIInv /\ Injective /\ HasFile /\ Struct /\ todo # <<>> /\ Head(todo).do # "move"
      /\ p \in Paths /\ q \in Paths /\ p # q /\ Path = q
  <2>1. FilesIInv /\ Injective /\ HasFile /\ Struct /\ todo # <<>> /\ Last.do = "deleted"
        /\ p \in Paths /\ q \in Paths /\ p # q /\ Path = q
    BY DEF Filling, Stands
  <2>2. Belongs(Head(todo), Last)
    BY <2>1, TailChained DEF Struct, Last
  <2> QED
    BY <2>1, <2>2 DEF Belongs, PairDeeds
<1>2. ~Doing("move")
  BY <1>1 DEF Doing
<1>3. trouble' = trouble
  BY <1>1, <1>2, StepPromises
<1>4. \E n \in {Primary(q), Backup(q)} : Touches(n)
  BY <1>1, <1>2, StepTouches DEF TouchesPath
<1>5. Primary(p) \in Names /\ Primary(p) # Primary(q) /\ Primary(p) # Backup(q)
  BY <1>1, NamesAre
<1>6. Same(Primary(p))
  BY <1>4, <1>5 DEF Touches
<1> QED
  BY <1>1, <1>3, <1>6 DEF Same, Content, FilesIInv

\* A file that was there for sure still is.
LEMMA AnchoredStays ==
    ASSUME NEW q, Anchored(q), At(Backup(q))' = At(Backup(q)), Exists(Primary(q)) => Exists(Primary(q))',
           Durable(Primary(q)) => Durable(Primary(q))'
    PROVE  Anchored(q)'
  BY DEF Anchored, Validates

\* What is known of a copy while nothing is done.
LEMMA NoCopies ==
    ASSUME UNCHANGED diskVars, NEW q \in Paths
    PROVE  /\ Anchored(q)' <=> Anchored(q)
           /\ Content(q)' = Content(q)
           /\ HasMatchingBackup(q)' <=> HasMatchingBackup(q)
           /\ \A c : (Firm(q, c)' <=> Firm(q, c)) /\ (Covered(q, c)' <=> Covered(q, c))
<1>1. /\ \A n : At(n)' = At(n) /\ Now(n)' = Now(n) /\ (Exists(n)' <=> Exists(n)) /\ (Durable(n)' <=> Durable(n))
  BY DEF diskVars, At, Now, Left, Exists, Durable
<1>2. Content(q)' = Content(q)
  BY <1>1 DEF Content
<1>3. \A c : Covered(q, c)' <=> Covered(q, c)
  BY <1>1, <1>2 DEF Covered
<1> QED
  BY <1>1, <1>2, <1>3 DEF Anchored, Firm, HasMatchingBackup, Validates

\* A copy goes on that a step only decides about.
LEMMA DecisionCopies ==
    ASSUME NEW p, NEW q, Filling(p, q), FilesIInv', StepNext, NEW t, t = todo', t # <<>>, Proceeds,
           UNCHANGED diskVars, NEW d, d = Head(todo).do,
           d \in {"tracked", "filled"} => ~failed,
           d = "match" => HasMatchingBackup(q),
           d \in {"tracked", "refreshed", "restored", "discarded", "filled", "copy_context", "fill_in_part",
                  "closed", "match", "deleted"}
    PROVE  CopyAt(p, Head(t), AheadOf(t))'
<1>1. PICK s : s = Head(todo)
  OBVIOUS
<1>2. PICK u : u = Head(t)
  OBVIOUS
<1>3. t = Tail(todo)
  BY DEF Proceeds
<1>4. /\ s.at = q
      /\ \/ u.at = q /\ FollowsHere(s, u)
         \/ s.do = "match" /\ u.do = "leave" /\ u.at = p /\ u.to = q
      /\ u.do \in {"enter", "open"} => u.flags = O_TRUNC
  BY <1>1, <1>2, <1>3, FillingNext
<1>5. Content(p)' = Content(p) /\ q \in Paths /\ p # q
  BY FillingFrame DEF Filling
<1>6. CopyAt(p, s, Ahead)
  BY <1>1 DEF Filling
<1>7. /\ Anchored(q)' <=> Anchored(q)
      /\ Content(q)' = Content(q)
      /\ HasMatchingBackup(q)' <=> HasMatchingBackup(q)
      /\ \A c : (Firm(q, c)' <=> Firm(q, c)) /\ (Covered(q, c)' <=> Covered(q, c))
  BY <1>5, NoCopies
<1>8. O_TRUNC # O_CREAT
  BY DEF O_TRUNC, O_CREAT, O_RDONLY
<1>9. PICK c : c = Content(p)
  OBVIOUS
<1>10. CASE d \in {"tracked", "refreshed", "restored", "discarded", "deleted"}
  <2>1. u.at = q /\ ((u.do = "open" /\ d \in {"tracked", "refreshed"}) \/ u.do = "unlink")
    BY <1>1, <1>4, <1>8, <1>10 DEF FollowsHere
  <2>2. u.do = "open" => Anchored(q)
    BY <1>1, <1>4, <1>5, <1>6, <2>1 DEF CopyAt, AnchorDeeds
  <2> QED
    BY <1>2, <1>5, <1>7, <2>1, <2>2 DEF CopyAt, AnchorDeeds, BlockDeeds, RestoreDeeds
<1>11. CASE d \in {"filled", "copy_context", "fill_in_part"}
  <2>1. u.at = q /\ u.do = (IF d = "filled" THEN "checksum" ELSE IF d = "copy_context" THEN "filled" ELSE "fill")
    BY <1>1, <1>4, <1>11 DEF FollowsHere
  <2>2. Anchored(q) /\ (d # "fill_in_part" => Content(q) = c)
    BY <1>1, <1>4, <1>5, <1>6, <1>9, <1>11 DEF CopyAt, AnchorDeeds
  <2> QED
    BY <1>2, <1>5, <1>7, <1>9, <1>11, <2>1, <2>2 DEF CopyAt, BlockDeeds, RestoreDeeds
<1>12. CASE d \in {"closed", "match"}
  <2>1. Content(q) = c /\ (HasMatchingBackup(q) => Firm(q, c))
    BY <1>1, <1>4, <1>5, <1>6, <1>9, <1>12 DEF CopyAt
  <2>2. CASE u.at = q
    <3>1. u.do = "match"
      BY <1>1, <1>4, <1>5, <1>12, <2>2 DEF FollowsHere
    <3>2. Content(q)' = Content(p)' /\ (HasMatchingBackup(q)' => Firm(q, c)') /\ c = Content(q)'
      BY <1>5, <1>7, <1>9, <2>1
    <3>3. HasMatchingBackup(q)' => Firm(q, Content(q))'
      BY <3>2 DEF Firm, Covered
    <3> QED
      BY <1>2, <1>5, <2>2, <3>1, <3>2, <3>3 DEF CopyAt, AnchorDeeds, BlockDeeds, RestoreDeeds
  <2>3. CASE u.at # q
    <3>1. d = "match" /\ u.do = "leave" /\ u.at = p /\ u.to = q
      BY <1>1, <1>4, <2>3
    <3>2. Firm(q, c)' /\ c = Content(p)'
      BY <1>5, <1>7, <1>9, <2>1, <3>1
    <3>3. Firm(q, Content(p))'
      BY <3>2 DEF Firm, Covered
    <3> QED
      BY <1>2, <1>5, <3>1, <3>3 DEF CopyAt, SourceDeeds, BlockDeeds, RestoreDeeds
  <2> QED
    BY <2>2, <2>3
<1> QED
  BY <1>10, <1>11, <1>12

\* The target of a copy is entered.
LEMMA EnterCopies ==
    ASSUME NEW p, NEW q, Filling(p, q), FilesIInv', Enter, NEW t, t = todo', t # <<>>
    PROVE  CopyAt(p, Head(t), AheadOf(t))'
<1>1. /\ Struct /\ todo # <<>> /\ Head(todo) \in FileSteps /\ Head(todo).at = q /\ q \in Paths /\ p # q
      /\ Chained(todo) /\ CopyAt(p, Head(todo), Ahead) /\ Head(todo).do = "enter"
      /\ UNCHANGED diskVars /\ trouble' = trouble
  BY DEF Filling, Stands, Struct, Path, Enter, Doing
<1>2. Anchored(q) /\ trouble = 0
  BY <1>1 DEF CopyAt, AnchorDeeds
<1>3. Anchored(q)' /\ trouble' = 0
  BY <1>1, <1>2, NoCopies
<1>4. PICK f \in Flags, v \in Seq(FileSteps) : f = Head(todo).flags /\ v = Tail(todo)
  <2>1. Head(todo).flags \in Flags
    BY <1>1 DEF FileSteps
  <2>2. Tail(todo) \in Seq(FileSteps)
    BY <1>1 DEF Chained
  <2> QED
    BY <2>1, <2>2
<1>5. PICK o : o = Opening(q, f) \o v
  OBVIOUS
<1>6. t = o
  BY <1>1, <1>4, <1>5 DEF Enter, Path
<1>7. q \in Paths
  BY <1>1
<1>8. /\ Head(o).at = q
      /\ Head(o).do \in {"open", "copy_to_primary", "refreshed", "copy_to_backup"}
      /\ Head(o).do = "copy_to_backup" => AheadOf(o) \in {"refreshed", "tracked"}
  BY ONLY <1>5, <1>7, OpeningAt, f \in Flags, v \in Seq(FileSteps)
<1>9. PICK u, l : u = Head(t) /\ l = AheadOf(t)
  OBVIOUS
<1>10. /\ u.at = q /\ u.do \in {"open", "copy_to_primary", "refreshed", "copy_to_backup"}
       /\ u.do = "copy_to_backup" => l \in {"refreshed", "tracked"}
  BY <1>6, <1>8, <1>9
<1>11. CopyAt(p, u, l)'
  BY ONLY <1>1, <1>3, <1>10 DEF CopyAt, RestoreDeeds, BlockDeeds
<1> QED
  BY <1>9, <1>11 DEF CopyAt

\* The target of a copy is opened.
LEMMA OpenCopies ==
    ASSUME NEW p, NEW q, Filling(p, q), FilesIInv', Open, NEW t, t = todo', t # <<>>
    PROVE  CopyAt(p, Head(t), AheadOf(t))'
<1>1. /\ todo # <<>> /\ q \in Paths /\ p # q /\ Path = q /\ Head(todo).at = q /\ Disk /\ Injective
      /\ CopyAt(p, Head(todo), Ahead) /\ Head(todo).do = "open"
  BY DEF Filling, Stands, FilesIInv, Path, Open, Doing
<1>2. Anchored(q)
  BY <1>1 DEF CopyAt, AnchorDeeds
<1>3. t = Tail(todo)
  BY DEF Open, EndCall, Proceeds
<1>4. PICK s : s = Head(todo)
  OBVIOUS
<1>5. s.flags = O_TRUNC /\ Head(t).at = q /\ FollowsHere(s, Head(t))
  BY <1>1, <1>3, <1>4, FillingNext
<1>6. Head(t).do = "fill_in_part"
  BY <1>1, <1>4, <1>5 DEF FollowsHere
<1>7. /\ Primary(q) \in Names /\ Backup(q) \in Names /\ Primary(q) # Backup(q)
  BY <1>1, NamesAre
<1>8. Anchored(q)'
  <2>1. CASE ~Exists(Primary(q))
    <3>1. Creates(Primary(q), "empty")
      BY <1>1, <1>3, <2>1 DEF Open, EndCall
    <3>2. At(Backup(q))' = At(Backup(q))
      BY <1>1, <1>7, <3>1, CreatesEffect DEF Same
    <3> QED
      BY <1>2, <2>1, <3>2 DEF Anchored, Validates
  <2>2. CASE Exists(Primary(q))
    <3>1. PICK f : f = [At(Primary(q)) EXCEPT !.data = "empty"]
      OBVIOUS
    <3>2. Becomes(names[Primary(q)], f)
      <4>1. O_TRUNC.truncates
        BY FlagsAre DEF O_TRUNC, O_RDONLY, O_CREAT
      <4> QED
        BY <1>1, <1>3, <1>4, <1>5, <2>2, <3>1, <4>1 DEF Open, EndCall
    <3>3. f \in File
      <4>1. "empty" \in Data
        BY DEF Data, Whole
      <4> QED
        BY <1>1, <1>7, <2>2, <3>1, <4>1, AtIs, FileIs
    <3>4. UNCHANGED <<names, namesLeft>> /\ At(Backup(q))' = At(Backup(q))
      BY <1>1, <1>7, <2>2, <3>2, <3>3, BecomesEffect DEF Same
    <3>5. (Exists(Primary(q))' <=> Exists(Primary(q))) /\ (Durable(Primary(q))' <=> Durable(Primary(q)))
      BY <1>7, <3>4, NamesStay
    <3> QED
      BY <1>2, <3>4, <3>5, AnchoredStays
  <2> QED
    BY <2>1, <2>2
<1> QED
  BY <1>1, <1>5, <1>6, <1>8 DEF CopyAt, RestoreDeeds, BlockDeeds

\* The content of the source is written to the target.
LEMMA FillCopies ==
    ASSUME NEW p, NEW q, Filling(p, q), FilesIInv', Fill, NEW t, t = todo', t # <<>>
    PROVE  CopyAt(p, Head(t), AheadOf(t))'
<1>1. /\ todo # <<>> /\ q \in Paths /\ p # q /\ Path = q /\ Head(todo).at = q /\ Disk /\ Injective
      /\ CopyAt(p, Head(todo), Ahead) /\ Head(todo).do \in {"fill_in_part", "fill", "copy_context"}
      /\ Exists(Primary(q)) /\ t = Tail(todo) /\ FilesIInv /\ p \in Paths
  BY DEF Filling, Stands, FilesIInv, Path, Fill, Doing, Proceeds, Place
<1>2. Proceeds /\ StepNext
  BY DEF Fill, StepNext
<1>3. PICK d : d = Head(todo).do
  OBVIOUS
<1>4. PICK s : s = Head(todo)
  OBVIOUS
<1>5. CASE UNCHANGED diskVars /\ d \in {"fill_in_part", "copy_context"}
  BY <1>2, <1>3, <1>5, DecisionCopies
<1>6. CASE d = "fill" \/ (d = "fill_in_part" /\ ~UNCHANGED diskVars)
  <2>1. Anchored(q)
    BY <1>1, <1>3, <1>6 DEF CopyAt, AnchorDeeds
  <2>2. /\ Primary(q) \in Names /\ Backup(q) \in Names /\ Primary(q) # Backup(q)
        /\ inodes[names[Primary(q)]] = At(Primary(q))
    BY <1>1, NamesAre DEF At
  <2>3. PICK c : c = IF d = "fill" THEN Content(p) ELSE "part"
    OBVIOUS
  <2>4. PICK f : f = [At(Primary(q)) EXCEPT !.data = c]
    OBVIOUS
  <2>5. d = "fill" => s.to = p
    BY <1>3, <1>4, FillingNext, <1>1
  <2>6. c \in Data
    <3>1. CASE d = "fill"
      <4>1. Head(todo).to \in There
        BY <1>1, <1>3, <3>1, HeadIs DEF Needs, FilesIInv
      <4> QED
        BY <1>1, <1>4, <2>3, <2>5, <3>1, <4>1, ContentIs
    <3>2. CASE d # "fill"
      BY <2>3, <3>2 DEF Data
    <3> QED
      BY <3>1, <3>2
  <2>7. f \in File /\ f.data = c
    <3>1. At(Primary(q)) \in File
      BY <1>1, <2>2, AtIs
    <3> QED
      BY <2>4, <2>6, <3>1, FileIs DEF File
  <2>8. Becomes(names[Primary(q)], f)
    BY <1>1, <1>3, <1>4, <1>6, <2>2, <2>3, <2>4, <2>5 DEF Fill, Doing
  <2>9. /\ UNCHANGED <<names, namesLeft>> /\ At(Primary(q))' = f /\ At(Backup(q))' = At(Backup(q))
    BY <1>1, <2>2, <2>7, <2>8, BecomesEffect DEF Same
  <2>10. (Exists(Primary(q))' <=> Exists(Primary(q))) /\ (Durable(Primary(q))' <=> Durable(Primary(q)))
    BY <2>2, <2>9, NamesStay
  <2>11. Anchored(q)'
    BY <2>1, <2>9, <2>10, AnchoredStays
  <2>12. Content(p)' = Content(p)
    BY <1>2, FillingFrame
  <2>13. Content(q)' = c
    BY <2>7, <2>9 DEF Content
  <2>14. Head(t).at = q /\ Head(t).do = IF d = "fill" THEN "copy_context" ELSE "fill"
    <3>1. \/ Head(t).at = q /\ FollowsHere(s, Head(t))
          \/ s.do = "match" /\ Head(t).do = "leave" /\ Head(t).at = p /\ Head(t).to = q
      BY <1>1, <1>4, FillingNext
    <3> QED
      BY <1>3, <1>4, <1>6, <3>1 DEF FollowsHere
  <2> QED
    BY <1>1, <1>6, <2>3, <2>11, <2>12, <2>13, <2>14 DEF CopyAt, RestoreDeeds, BlockDeeds
<1>7. d = "copy_context" => UNCHANGED diskVars
  BY <1>3, <1>1 DEF Fill, Doing
<1> QED
  BY <1>1, <1>3, <1>5, <1>6, <1>7

\* The backup of a file that rests covers it, if it matches and nothing has gone wrong.
LEMMA RestCovered ==
    ASSUME Disk, NEW q \in Paths, Resting(q, TRUE), Exists(Primary(q)), trouble = 0, HasMatchingBackup(q)
    PROVE  Covered(q, Content(q))
<1>1. Exists(Backup(q)) /\ At(Backup(q)) = Sealed(Content(q)) /\ At(Backup(q)).label = Content(q)
  BY PlainIs DEF HasMatchingBackup, Validates, Content
<1>2. /\ Durable(Primary(q)) /\ Durable(Backup(q)) /\ Now(Backup(q)) = {At(Backup(q))}
      /\ At(Primary(q)).label = Content(q) /\ Labels(q)
  BY <1>1 DEF Resting, Kept, Watched, Flush, Ready
<1> QED
  BY <1>1, <1>2 DEF Covered, Labels

\* The target of a copy gets its checksum.
LEMMA ChecksumCopies ==
    ASSUME NEW p, NEW q, Filling(p, q), FilesIInv', Label, Head(todo).do = "checksum",
           NEW t, t = todo', t # <<>>
    PROVE  CopyAt(p, Head(t), AheadOf(t))'
<1>1. /\ todo # <<>> /\ q \in Paths /\ p # q /\ Path = q /\ Head(todo).at = q /\ Disk /\ Disk' /\ Injective
      /\ CopyAt(p, Head(todo), Ahead) /\ Exists(Primary(q)) /\ t = Tail(todo) /\ Resting(q, TRUE)
      /\ Becomes(names[Primary(q)], Sealed(Content(q))) /\ trouble' = trouble
  BY DEF Filling, Stands, FilesIInv, Path, Label, Doing, Proceeds, Place, Sealed
<1>2. Anchored(q) /\ Content(q) = Content(p)
  BY <1>1 DEF CopyAt, AnchorDeeds
<1>3. Content(p)' = Content(p)
  BY FillingFrame DEF StepNext
<1>4. Head(t).at = q /\ Head(t).do = "sync"
  <2>1. PICK s : s = Head(todo)
    OBVIOUS
  <2>2. \/ Head(t).at = q /\ FollowsHere(s, Head(t))
        \/ s.do = "match" /\ Head(t).do = "leave" /\ Head(t).at = p /\ Head(t).to = q
    BY <1>1, <2>1, FillingNext
  <2> QED
    BY <2>1, <2>2 DEF FollowsHere
<1>5. /\ Primary(q) \in Names /\ Backup(q) \in Names /\ Primary(q) # Backup(q)
  BY <1>1, NamesAre
<1>6. Content(q)' = Content(q) /\ Same(Backup(q)) /\ UNCHANGED <<names, namesLeft>>
  BY <1>1, <1>5, LabelsOwn
<1>7. Anchored(q)'
  <2>1. (Exists(Primary(q))' <=> Exists(Primary(q))) /\ (Durable(Primary(q))' <=> Durable(Primary(q)))
    BY <1>5, <1>6, NamesStay
  <2> QED
    BY <1>2, <1>6, <2>1, AnchoredStays DEF Same
<1>8. trouble' = 0 /\ HasMatchingBackup(q)' => Covered(q, Content(q))'
  <2>1. HasMatchingBackup(q)' <=> HasMatchingBackup(q)
    BY <1>6 DEF HasMatchingBackup, Same, Content, Validates
  <2>2. PICK c : c = Content(q)
    OBVIOUS
  <2>3. trouble' = 0 /\ HasMatchingBackup(q)' => Covered(q, c)'
    BY <1>1, <2>1, <2>2, RestCovered, CoveredLabels
  <2>4. c = Content(q)'
    BY <1>6, <2>2
  <2> QED
    BY <2>3, <2>4 DEF Covered
<1>9. Content(q)' = Content(p)'
  BY <1>2, <1>3, <1>6
<1> QED
  BY <1>1, <1>4, <1>7, <1>8, <1>9 DEF CopyAt, RestoreDeeds, BlockDeeds

\* The target of a copy is flushed.
LEMMA SyncCopies ==
    ASSUME NEW p, NEW q, Filling(p, q), FilesIInv', Sync, Head(todo).do = "sync",
           NEW t, t = todo', t # <<>>
    PROVE  CopyAt(p, Head(t), AheadOf(t))'
<1>1. /\ todo # <<>> /\ q \in Paths /\ p # q /\ Path = q /\ Head(todo).at = q /\ Disk /\ Injective
      /\ CopyAt(p, Head(todo), Ahead) /\ t = Tail(todo) /\ SyncFile(Primary(q))
  BY DEF Filling, Stands, FilesIInv, Path, Sync, Doing, DoingOneOf, Proceeds
<1>2. Anchored(q) /\ Content(q) = Content(p)
  BY <1>1 DEF CopyAt, AnchorDeeds
<1>3. Content(p)' = Content(p)
  BY FillingFrame DEF StepNext
<1>4. Head(t).at = q /\ Head(t).do = "refresh"
  <2>1. PICK s : s = Head(todo)
    OBVIOUS
  <2>2. \/ Head(t).at = q /\ FollowsHere(s, Head(t))
        \/ s.do = "match" /\ Head(t).do = "leave" /\ Head(t).at = p /\ Head(t).to = q
    BY <1>1, <2>1, FillingNext
  <2> QED
    BY <2>1, <2>2 DEF FollowsHere
<1>5. /\ Primary(q) \in Names /\ Backup(q) \in Names /\ Primary(q) # Backup(q)
  BY <1>1, NamesAre
<1>6. UNCHANGED <<names, namesLeft>> /\ At(Primary(q))' = At(Primary(q)) /\ Same(Backup(q))
  BY <1>1, <1>5, SyncFileEffect
<1>7. Anchored(q)'
  <2>1. (Exists(Primary(q))' <=> Exists(Primary(q))) /\ (Durable(Primary(q))' <=> Durable(Primary(q)))
    BY <1>5, <1>6, NamesStay
  <2> QED
    BY <1>2, <1>6, <2>1, AnchoredStays DEF Same
<1>8. Content(q)' = Content(p)'
  BY <1>2, <1>3, <1>6 DEF Content
<1> QED
  BY <1>1, <1>4, <1>7, <1>8 DEF CopyAt, RestoreDeeds, BlockDeeds

\* The backup of the target of a copy is made anew, or is the same.
LEMMA RefreshCopies ==
    ASSUME NEW p, NEW q, Filling(p, q), FilesIInv', Refresh, NEW t, t = todo', t # <<>>
    PROVE  CopyAt(p, Head(t), AheadOf(t))'
<1>1. /\ todo # <<>> /\ q \in Paths /\ p # q /\ Path = q /\ Head(todo).at = q /\ Disk /\ Injective /\ Struct
      /\ CopyAt(p, Head(todo), Ahead) /\ Head(todo).do = "refresh" /\ UNCHANGED diskVars
      /\ t = RefreshBackupIfNeeded(q) \o Tail(todo)
      /\ Exists(Primary(q)) /\ Now(Primary(q)) = {Sealed(Content(q))}
  BY DEF Filling, Stands, FilesIInv, Path, Refresh, Doing, Place, Summed
<1>2. Anchored(q) /\ Content(q) = Content(p)
  BY <1>1 DEF CopyAt, AnchorDeeds
<1>3. Content(p)' = Content(p)
  BY FillingFrame DEF StepNext
<1>4. /\ Tail(todo) # <<>> /\ Head(Tail(todo)).do \in {"closed", "discarded"}
      /\ Head(Tail(todo)).at = q
      /\ IF HasMatchingBackup(q) THEN t = Tail(todo)
         ELSE Head(t).do = "copy_to_backup" /\ Head(t).at = q /\ AheadOf(t) = Head(Tail(todo)).do
  <2>1. LET o == RefreshBackupIfNeeded(Head(todo).at) \o Tail(todo)
        IN  /\ Tail(todo) # <<>> /\ Head(Tail(todo)).do \in {"closed", "discarded"}
            /\ Head(Tail(todo)).at = Head(todo).at
            /\ IF HasMatchingBackup(Head(todo).at) THEN o = Tail(todo)
               ELSE /\ Head(o).do = "copy_to_backup" /\ Head(o).at = Head(todo).at
                    /\ AheadOf(o) = Head(Tail(todo)).do
    BY ONLY <1>1, RefreshChained DEF Struct
  <2> QED
    BY ONLY <1>1, <2>1
<1>5. /\ Anchored(q)' <=> Anchored(q)
      /\ Content(q)' = Content(q)
      /\ HasMatchingBackup(q)' <=> HasMatchingBackup(q)
      /\ \A c : (Firm(q, c)' <=> Firm(q, c)) /\ (Covered(q, c)' <=> Covered(q, c))
  BY <1>1, NoCopies
<1>6. Content(q)' = Content(p)' /\ Anchored(q)'
  BY <1>2, <1>3, <1>5
<1>7. HasMatchingBackup(q)' => Firm(q, Content(q))'
  <2>1. PICK c : c = Content(q)
    OBVIOUS
  <2>2. HasMatchingBackup(q)' => Firm(q, c)'
    <3>1. HasMatchingBackup(q) => Firm(q, c)
      BY <1>1, <1>2, <2>1 DEF Firm, Anchored, HasMatchingBackup
    <3> QED
      BY <1>5, <3>1
  <2>3. c = Content(q)'
    BY <1>5, <2>1
  <2> QED
    BY <2>2, <2>3 DEF Firm, Covered
<1>8. Head(t).at = q /\ (Head(t).do \in {"closed", "discarded"}
                         \/ (Head(t).do = "copy_to_backup" /\ ~HasMatchingBackup(q)'))
  BY <1>4, <1>5
<1>9. PICK u, l : u = Head(t) /\ l = AheadOf(t)
  OBVIOUS
<1>10. CopyAt(p, u, l)'
  BY ONLY <1>1, <1>6, <1>7, <1>8, <1>9 DEF CopyAt, RestoreDeeds, BlockDeeds
<1> QED
  BY <1>9, <1>10 DEF CopyAt

\* The backup of the target of a copy is made.
LEMMA BlockCopies ==
    ASSUME NEW p, NEW q, Filling(p, q), FilesIInv', StepNext, NEW t, t = todo', t # <<>>, Proceeds,
           Head(todo).do \in BlockDeeds, UNCHANGED <<fds, failed, worth, loose, trouble>>,
           \/ Doing("copy_to_backup") /\ Creates(Backup(q), Content(q))
           \/ Doing("sync_copy_name") /\ SyncName(Backup(q))
           \/ Doing("label") /\ Becomes(names[Primary(q)], Sealed(Content(q)))
           \/ Doing("label_backup") /\ Becomes(names[Backup(q)], Sealed(At(Backup(q)).data))
           \/ Doing("sync_backup") /\ SyncFile(Backup(q))
    PROVE  CopyAt(p, Head(t), AheadOf(t))'
<1>1. /\ todo # <<>> /\ q \in Paths /\ p # q /\ Path = q /\ Head(todo).at = q /\ Disk /\ Disk' /\ Injective
      /\ CopyAt(p, Head(todo), Ahead) /\ t = Tail(todo) /\ Stands /\ Steady
      /\ Block(q, Head(todo).do, Ahead)
  BY DEF Filling, Stands, FilesIInv, Path, Proceeds, Place, Steady
<1>2. PICK d, l, m, u : d = Head(todo).do /\ l = Ahead /\ m = AheadOf(t) /\ u = Head(t)
  OBVIOUS
<1>3. /\ u.at = q /\ FollowsHere(Head(todo), u)
      /\ u.do \in Landings => l = u.do
      /\ u.do \notin Landings => l = m
  <2>1. PICK s : s = Head(todo)
    OBVIOUS
  <2>2. Filling(p, q) /\ t = Tail(todo) /\ t # <<>>
    BY <1>1
  <2>3. \/ Head(t).at = q /\ FollowsHere(s, Head(t))
        \/ s.do = "match" /\ Head(t).do = "leave" /\ Head(t).at = p /\ Head(t).to = q
    BY ONLY <2>1, <2>2, FillingNext
  <2>4. s.do \in BlockDeeds \cup RestoreDeeds =>
               /\ Head(t).do \in Landings => Ahead = Head(t).do
               /\ Head(t).do \notin Landings => Ahead = AheadOf(t)
    BY ONLY <2>1, <2>2, FillingNext
  <2> QED
    BY <1>2, <2>1, <2>3, <2>4 DEF BlockDeeds
<1>4. (l = "closed" => Content(q) = Content(p)) /\ Content(p)' = Content(p)
  <2>1. l = "closed" => Content(q) = Content(p)
    BY <1>1, <1>2 DEF CopyAt
  <2> QED
    BY <2>1, FillingFrame
<1>5. u.do \in BlockDeeds => u.do \notin Landings /\ Block(q, u.do, l)'
  <2>1. Reached(q, t)'
    BY <1>1, BlockReaches
  <2>2. Place(q, u.do, m, u.flags)'
    BY <1>2, <1>3, <2>1 DEF Reached
  <2> QED
    BY <1>2, <1>3, <2>2, BlocksLandNot DEF Place
<1>6. /\ Primary(q) \in Names /\ Backup(q) \in Names /\ Primary(q) # Backup(q)
      /\ Exists(Primary(q)) /\ (d # "copy_to_backup" => Exists(Backup(q)))
  BY <1>1, <1>2, NamesAre DEF Block, Begun
<1>7. Content(q)' = Content(q)
  <2>1. CASE d = "copy_to_backup"
    BY <1>1, <1>2, <1>6, <2>1, CreatesEffect DEF Doing, Same, Content
  <2>2. CASE d = "sync_copy_name"
    BY <1>1, <1>2, <1>6, <2>2, SyncNameEffect DEF Doing, Same, Content
  <2>3. CASE d = "label"
    BY <1>1, <1>2, <1>6, <2>3, LabelsOwn DEF Doing
  <2>4. CASE d = "label_backup"
    <3>1. Becomes(names[Backup(q)], Sealed(At(Backup(q)).data))
      BY <1>2, <2>4 DEF Doing
    <3>2. Sealed(At(Backup(q)).data) \in File
      BY <1>1, <1>2, <1>6, <2>4, AtIs, FileIs DEF Sealed
    <3> QED
      BY <1>1, <1>6, <2>4, <3>1, <3>2, BecomesEffect DEF Same, Content
  <2>5. CASE d = "sync_backup"
    BY <1>1, <1>2, <1>6, <2>5, SyncFileEffect DEF Doing, Same, Content
  <2> QED
    BY <1>2, <2>1, <2>2, <2>3, <2>4, <2>5 DEF BlockDeeds
<1>8. ASSUME d # "sync_backup" PROVE CopyAt(p, u, m)'
  <2>1. u.do \in BlockDeeds /\ u.do # "copy_to_backup"
    BY <1>2, <1>3, <1>8 DEF FollowsHere, BlockDeeds
  <2>2. m = l /\ Block(q, u.do, l)'
    BY <1>3, <1>5, <2>1
  <2>3. Anchored(q)'
    <3>1. CASE u.do = "sync_backup"
      <4>1. Still' /\ Exists(Primary(q))'
        BY <2>2, <3>1 DEF Block, Begun
      <4>2. \A n : Durable(n)'
        BY <4>1, StillNext
      <4> QED
        BY <4>1, <4>2 DEF Anchored
    <3>2. CASE u.do # "sync_backup"
      <4>1. At(Backup(q))' = Bare(Content(q)')
        BY <2>1, <2>2, <3>2 DEF Block, BlockDeeds, Bare
      <4> QED
        BY <4>1 DEF Anchored, Validates, Bare
    <3> QED
      BY <3>1, <3>2
  <2>4. l = "closed" => Content(q)' = Content(p)'
    BY <1>4, <1>7
  <2> QED
    BY ONLY <1>1, <1>3, <2>1, <2>2, <2>3, <2>4 DEF CopyAt, RestoreDeeds, BlockDeeds
<1>9. ASSUME d = "sync_backup" PROVE CopyAt(p, u, m)'
  <2>1. u.do \in {"tracked", "refreshed", "closed", "discarded"} /\ l = u.do
    BY <1>2, <1>3, <1>9 DEF FollowsHere, Landings
  <2>2. Backed(q)' /\ Begun(q, l)'
    BY <1>1, <1>2, <1>9, BackupSynced DEF Doing
  <2>3. \A n : Durable(n)'
    BY <2>2, StillNext DEF Backed
  <2>4. Anchored(q)'
    BY <2>2, <2>3 DEF Backed, Anchored
  <2>5. u.do = "closed" => Content(q)' = Content(p)' /\ Firm(q, Content(q))'
    BY <1>4, <1>7, <2>1, <2>2, <2>3 DEF Firm, Begun
  <2> QED
    BY ONLY <1>1, <1>3, <2>1, <2>4, <2>5 DEF CopyAt, RestoreDeeds, BlockDeeds
<1> QED
  BY <1>2, <1>8, <1>9 DEF CopyAt

\* The target of a copy is restored.
LEMMA RestoreCopies ==
    ASSUME NEW p, NEW q, Filling(p, q), FilesIInv', NEW t, t = todo', t # <<>>, Proceeds,
           Head(todo).do \in RestoreDeeds, UNCHANGED <<fds, failed, worth, loose, trouble>>,
           \/ /\ Doing("copy_to_primary") /\ Validates(At(Backup(q)))
              /\ Creates(Primary(q), At(Backup(q)).data)
           \/ Doing("sync_restored_name") /\ SyncName(Primary(q))
           \/ Doing("label_restored") /\ Becomes(names[Primary(q)], Sealed(Content(q)))
           \/ Doing("sync_restored") /\ SyncFile(Primary(q))
           \/ Doing("sync_name_again") /\ SyncName(Primary(q))
    PROVE  CopyAt(p, Head(t), AheadOf(t))'
<1>1. /\ todo # <<>> /\ q \in Paths /\ p # q /\ Path = q /\ Head(todo).at = q /\ Disk'
      /\ CopyAt(p, Head(todo), Ahead) /\ t = Tail(todo) /\ Stands
  BY DEF Filling, Stands, FilesIInv, Path, Proceeds
<1>2. trouble' = 0
  BY <1>1 DEF CopyAt
<1>3. PICK u, m : u = Head(t) /\ m = AheadOf(t)
  OBVIOUS
<1>4. u.at = q /\ u.do \in RestoreDeeds \cup {"restored", "tracked"}
  <2>1. PICK s : s = Head(todo)
    OBVIOUS
  <2>2. \/ Head(t).at = q /\ FollowsHere(s, Head(t))
        \/ s.do = "match" /\ Head(t).do = "leave" /\ Head(t).at = p /\ Head(t).to = q
    BY <1>1, <2>1, FillingNext
  <2> QED
    BY <1>3, <2>1, <2>2 DEF FollowsHere, RestoreDeeds
<1>5. u.do = "tracked" => Anchored(q)'
  <2>1. Reached(q, t)'
    BY <1>1, RestoreReaches
  <2>2. Place(q, u.do, m, u.flags)'
    BY <1>3, <1>4, <2>1 DEF Reached
  <2>3. u.do = "tracked" => Rest(q)'
    BY <2>2 DEF Place, RestDeeds
  <2> QED
    BY <1>1, <1>2, <2>3, RestAnchoredNext
<1>6. CopyAt(p, u, m)'
  BY ONLY <1>1, <1>2, <1>4, <1>5 DEF CopyAt, AnchorDeeds, RestoreDeeds, BlockDeeds
<1> QED
  BY <1>3, <1>6 DEF CopyAt

\* The target of a copy is deleted.
LEMMA UnlinkCopies ==
    ASSUME NEW p, NEW q, Filling(p, q), NEW t, t = todo', t # <<>>, Proceeds,
           Head(todo).do \in {"unlink", "sync_unlink", "unlink_backup", "sync_unlink_backup"}
    PROVE  CopyAt(p, Head(t), AheadOf(t))'
<1>1. p # q /\ t = Tail(todo)
  BY DEF Filling, Proceeds
<1>2. PICK u, m : u = Head(t) /\ m = AheadOf(t)
  OBVIOUS
<1>3. u.at = q /\ u.do \in {"sync_unlink", "unlink_backup", "sync_unlink_backup", "deleted"}
  <2>1. PICK s : s = Head(todo)
    OBVIOUS
  <2>2. \/ Head(t).at = q /\ FollowsHere(s, Head(t))
        \/ s.do = "match" /\ Head(t).do = "leave" /\ Head(t).at = p /\ Head(t).to = q
    BY <1>1, <2>1, FillingNext
  <2> QED
    BY <1>2, <2>1, <2>2 DEF FollowsHere
<1>4. CopyAt(p, u, m)'
  BY ONLY <1>1, <1>3 DEF CopyAt, AnchorDeeds, RestoreDeeds, BlockDeeds
<1> QED
  BY <1>2, <1>4 DEF CopyAt

\* A step of a copy fails at its target.
LEMMA FailCopies ==
    ASSUME NEW p, NEW q, Filling(p, q), FilesIInv', Fails, NEW t, t = todo', t # <<>>,
           \/ trouble = 0 /\ Head(todo).do \notin Decisions
           \/ Head(todo).do \in {"copy_to_backup", "copy_to_primary"},
           Head(todo).do \in Landed
    PROVE  CopyAt(p, Head(t), AheadOf(t))'
<1>1. /\ todo # <<>> /\ q \in Paths /\ p \in Paths /\ p # q /\ Path = q /\ Head(todo).at = q /\ Disk
      /\ CopyAt(p, Head(todo), Ahead) /\ Chained(todo) /\ Last.do = "deleted"
      /\ UNCHANGED diskVars /\ failed' /\ t = FromLanding(todo)
      /\ Place(q, Head(todo).do, Ahead, Head(todo).flags)
  BY DEF Filling, Stands, FilesIInv, Path, Struct, Fails
<1>2. PICK d, l, m, u : d = Head(todo).do /\ l = Ahead /\ m = AheadOf(t) /\ u = Head(t)
  OBVIOUS
<1>3. l = u.do
  BY <1>1, <1>2 DEF Ahead, AheadOf
<1>4. u.do \notin PairDeeds \cup TargetDeeds
  <2>1. Chained(t) /\ t[Len(t)] = Last
    BY <1>1, SuffixChained DEF Last
  <2>2. Belongs(u, Last)
    BY <1>2, <2>1, TailChained
  <2> QED
    BY <1>1, <2>2 DEF Belongs
<1>5. Lands(todo)
  BY <1>1, LandsAhead
<1>6. /\ d \in BlockDeeds => u.do \in {"tracked", "refreshed", "closed", "discarded"} /\ u.at = q
      /\ d \in RestoreDeeds => u.do \in {"restored", "tracked"} /\ u.at = q
      /\ d \in {"fill_in_part", "fill", "copy_context"} => u.do = "filled" /\ u.at = q
      /\ d \in {"checksum", "sync", "refresh"} => u.do \in {"closed", "discarded"} /\ u.at = q
      /\ d \in {"unlink", "sync_unlink", "unlink_backup", "sync_unlink_backup"} =>
             u.do = "deleted" /\ u.at = q
      /\ d \notin {"sync_move", "checksum_moved"}
  <2>1. d \notin {"sync_move", "checksum_moved"}
    <3>1. Belongs(Head(todo), Last)
      BY <1>1, TailChained DEF Last
    <3> QED
      BY <1>1, <1>2, <3>1 DEF Belongs, TargetDeeds
  <2> QED
    BY <1>1, <1>2, <1>4, <1>5, <2>1 DEF Lands, PairDeeds, TargetDeeds
<1>7. /\ Anchored(q)' <=> Anchored(q)
      /\ Content(q)' = Content(q)
      /\ HasMatchingBackup(q)' <=> HasMatchingBackup(q)
      /\ \A c : (Firm(q, c)' <=> Firm(q, c)) /\ (Covered(q, c)' <=> Covered(q, c))
  BY <1>1, NoCopies
<1>8. Content(p)' = Content(p)
  BY <1>1, NoCopies
<1>9. ASSUME u.do \in {"refreshed", "filled"} PROVE Anchored(q)'
  <2>1. d \in BlockDeeds \cup {"fill_in_part", "fill", "copy_context"}
    BY <1>2, <1>6, <1>9 DEF Landed, RestoreDeeds
  <2> QED
    BY <1>1, <1>2, <1>7, <2>1 DEF CopyAt, AnchorDeeds
<1>10. ASSUME u.do = "closed"
       PROVE  Content(q)' = Content(p)' /\ (HasMatchingBackup(q)' => Firm(q, Content(q))')
  <2>1. d \in BlockDeeds \/ (d \in {"checksum", "sync"} /\ trouble = 0)
    BY <1>2, <1>6, <1>10 DEF Landed, RestoreDeeds, Decisions
  <2>2. Content(q) = Content(p)
    BY <1>1, <1>2, <1>3, <1>10, <2>1 DEF CopyAt
  <2>3. PICK c : c = Content(q)
    OBVIOUS
  <2>4. ASSUME HasMatchingBackup(q) PROVE Firm(q, c)
    <3>1. CASE d \in BlockDeeds
      <4>1. Block(q, d, "closed")
        BY <1>1, <1>2, <1>3, <1>10, <3>1 DEF Place
      <4>2. d # "copy_to_backup"
        BY <1>1, <1>2, <1>3, <1>10, <2>4, <3>1 DEF CopyAt
      <4>3. d \notin {"sync_copy_name", "label", "label_backup"}
        BY <2>4, <4>1 DEF Block, HasMatchingBackup, Validates, Bare
      <4>4. d = "sync_backup"
        BY <3>1, <4>2, <4>3 DEF BlockDeeds
      <4> QED
        BY <2>3, <4>1, <4>4 DEF Block, Begun, Firm, Still, Durable
    <3>2. CASE d = "checksum"
      <4>1. Exists(Primary(q)) /\ Resting(q, TRUE)
        BY <1>1, <1>2, <3>2 DEF Place
      <4> QED
        BY <1>1, <2>1, <2>3, <2>4, <3>2, <4>1, RestCovered DEF Firm, BlockDeeds
    <3>3. CASE d = "sync"
      BY <1>1, <1>2, <2>1, <2>3, <2>4, <3>3 DEF CopyAt, Firm, BlockDeeds
    <3> QED
      BY <2>1, <3>1, <3>2, <3>3
  <2>5. c = Content(q)' /\ (HasMatchingBackup(q)' => Firm(q, c)')
    BY <1>7, <2>3, <2>4
  <2>6. HasMatchingBackup(q)' => Firm(q, Content(q))'
    BY <2>5 DEF Firm, Covered
  <2> QED
    BY <1>7, <1>8, <2>2, <2>6
<1>11. u.at = q /\ u.do \in {"tracked", "refreshed", "closed", "discarded", "restored", "filled", "deleted"}
  BY <1>2, <1>6 DEF Landed
<1>12. CopyAt(p, u, m)'
  BY ONLY <1>1, <1>9, <1>10, <1>11 DEF CopyAt, AnchorDeeds, RestoreDeeds, BlockDeeds
<1> QED
  BY <1>2, <1>12 DEF CopyAt

\* Each step of a copy, and each failure, leaves its target as the next one is to find it.
LEMMA CopyTarget ==
    ASSUME NEW p, NEW q, Filling(p, q), FilesIInv', StepNext \/ (SystemCallFails /\ trouble' <= 1),
           NEW t, t = todo', t # <<>>, t[Len(t)] = Last
    PROVE  CopyAt(p, Head(t), AheadOf(t))'
<1>1. /\ todo # <<>> /\ q \in Paths /\ p # q /\ Path = q /\ Head(todo).at = q /\ Chained(todo)
      /\ Last.do = "deleted" /\ Last.at = p /\ trouble \in {0, 1}
      /\ Head(todo) \in FileSteps
  BY DEF Filling, Stands, Path, Struct
<1>2. PICK d : d = Head(todo).do
  OBVIOUS
<1>3. d \in Deeds /\ d \notin PairDeeds \cup TargetDeeds \cup {"leave"}
  <2>1. Belongs(Head(todo), Last)
    BY <1>1, TailChained DEF Last
  <2> QED
    BY <1>1, <1>2, <2>1 DEF Belongs, FileSteps
<1>4. CASE SystemCallFails /\ trouble' <= 1
  <2>1. trouble = 0 /\ d \notin Decisions
    BY <1>1, <1>2, <1>4 DEF SystemCallFails
  <2>2. d # "open" /\ Fails
    BY <1>2, <1>3, <1>4 DEF SystemCallFails, EndCall, PairDeeds
  <2>3. d \in Landed
    BY <1>3, <2>1, <2>2 DEF Deeds, Landed, Decisions, BlockDeeds, RestoreDeeds, PairDeeds
  <2> QED
    BY <1>2, <2>1, <2>2, <2>3, FailCopies
<1>5. CASE StepNext
  <2>1. CASE Enter \/ Refresh \/ Open \/ Fill
    BY <2>1, EnterCopies, RefreshCopies, OpenCopies, FillCopies
  <2>2. CASE CopyToBackup \/ CopyToPrimary
    <3>1. CASE Fails
      <4>1. d \in {"copy_to_backup", "copy_to_primary"}
        BY <1>2, <2>2 DEF CopyToBackup, CopyToPrimary, Doing
      <4> QED
        BY <1>2, <3>1, <4>1, FailCopies DEF Landed, BlockDeeds, RestoreDeeds
    <3>2. CASE ~Fails /\ CopyToBackup
      <4>1. /\ Proceeds /\ UNCHANGED <<fds, failed, worth, loose, trouble>> /\ d \in BlockDeeds
            /\ Doing("copy_to_backup") /\ Creates(Backup(q), Content(q))
        BY <1>1, <1>2, <3>2 DEF CopyToBackup, Doing, promiseVars, BlockDeeds
      <4> QED
        BY <1>2, <1>5, <4>1, BlockCopies
    <3>3. CASE ~Fails /\ CopyToPrimary
      <4>1. /\ Proceeds /\ UNCHANGED <<fds, failed, worth, loose, trouble>> /\ d \in RestoreDeeds
            /\ Doing("copy_to_primary") /\ Validates(At(Backup(q)))
            /\ Creates(Primary(q), At(Backup(q)).data)
        BY <1>1, <1>2, <3>3 DEF CopyToPrimary, Doing, promiseVars, RestoreDeeds
      <4> QED
        BY <1>2, <4>1, RestoreCopies
    <3> QED
      BY <2>2, <3>1, <3>2, <3>3
  <2>3. CASE Label
    <3>1. /\ Proceeds /\ d \in {"label", "label_restored", "checksum"}
          /\ Becomes(names[Primary(q)], Sealed(Content(q)))
          /\ d # "checksum" => UNCHANGED <<fds, failed, worth, loose, trouble>>
      BY <1>1, <1>2, <1>3, <2>3 DEF Label, Doing, DoingOneOf, Checksums, TargetDeeds, Sealed
    <3>2. CASE d = "label"
      <4>1. d \in BlockDeeds /\ Doing("label")
        BY <1>1, <1>2, <3>2 DEF BlockDeeds, Doing, NoCall
      <4> QED
        BY <1>2, <1>5, <3>1, <3>2, <4>1, BlockCopies
    <3>3. CASE d = "label_restored"
      <4>1. d \in RestoreDeeds /\ Doing("label_restored")
        BY <1>1, <1>2, <3>3 DEF RestoreDeeds, Doing, NoCall
      <4> QED
        BY <1>2, <3>1, <3>3, <4>1, RestoreCopies
    <3> QED
      BY <1>2, <2>3, <3>1, <3>2, <3>3, ChecksumCopies
  <2>4. CASE LabelBackup
    <3>1. /\ Proceeds /\ UNCHANGED <<fds, failed, worth, loose, trouble>> /\ d \in BlockDeeds
          /\ Doing("label_backup") /\ Becomes(names[Backup(q)], Sealed(At(Backup(q)).data))
      BY <1>1, <1>2, <2>4 DEF LabelBackup, Doing, promiseVars, BlockDeeds, Sealed
    <3> QED
      BY <1>2, <1>5, <3>1, BlockCopies
  <2>5. CASE Sync
    <3>1. Proceeds /\ UNCHANGED <<fds, failed, worth, loose, trouble>>
      BY <2>5 DEF Sync, promiseVars
    <3>2. \/ d = "sync"
          \/ d \in {"sync_unlink", "sync_unlink_backup"}
          \/ d \in BlockDeeds /\ (\/ Doing("sync_copy_name") /\ SyncName(Backup(q))
                                  \/ Doing("sync_backup") /\ SyncFile(Backup(q)))
          \/ d \in RestoreDeeds /\ (\/ Doing("sync_restored_name") /\ SyncName(Primary(q))
                                    \/ Doing("sync_restored") /\ SyncFile(Primary(q))
                                    \/ Doing("sync_name_again") /\ SyncName(Primary(q)))
      BY <1>1, <1>2, <1>3, <2>5 DEF Sync, Doing, DoingOneOf, BlockDeeds, RestoreDeeds, TargetDeeds
    <3> QED
      BY <1>2, <1>5, <2>5, <3>1, <3>2, SyncCopies, UnlinkCopies, BlockCopies, RestoreCopies
  <2>6. CASE Unlink
    <3>1. Proceeds /\ d \in {"unlink", "unlink_backup"}
      BY <1>2, <2>6 DEF Unlink, Doing
    <3> QED
      BY <1>2, <3>1, UnlinkCopies
  <2>7. CASE Match
    <3>1. Proceeds /\ UNCHANGED diskVars /\ d = "match" /\ HasMatchingBackup(q)
      BY <1>1, <1>2, <2>7 DEF Match, Doing, EndCall
    <3> QED
      BY <1>2, <1>5, <3>1, DecisionCopies
  <2>8. CASE Overlook \/ Tracked \/ CloseDone \/ Deleted
    <3>1. /\ Proceeds /\ UNCHANGED diskVars /\ (d = "tracked" => ~failed)
          /\ d \in {"refreshed", "discarded", "restored", "tracked", "closed", "deleted"}
      BY <1>2, <2>8 DEF Overlook, Tracked, CloseDone, Deleted, Doing, DoingOneOf, EndCall
    <3> QED
      BY <1>2, <1>5, <3>1, DecisionCopies
  <2>9. CASE Filled
    <3>1. ~failed
      <4>1. SUFFICES ASSUME failed PROVE FALSE
        OBVIOUS
      <4>2. t = Labelling(q) \o <<Step("discarded", q)>> \o Deleting(q)
        BY <1>1, <2>9, <4>1 DEF Filled
      <4>3. PICK r \in Paths : r = q
        BY <1>1
      <4>4. t[Len(t)].at = q
        <5>1. LET o == Labelling(r) \o <<Step("discarded", r)>> \o Deleting(r)
              IN  o[Len(o)].at = r
          BY ONLY r \in Paths, DiscardingChained
        <5> QED
          BY ONLY <4>2, <4>3, <5>1
      <4> QED
        BY <1>1, <4>4
    <3>2. Proceeds /\ UNCHANGED diskVars /\ d = "filled"
      BY <1>2, <2>9, <3>1 DEF Filled, Doing
    <3> QED
      BY <1>2, <1>5, <3>1, <3>2, DecisionCopies
  <2>10. ~Move /\ ~Leave /\ ~GoOn /\ ~Moved /\ ~Renamed
    BY <1>2, <1>3 DEF Move, Leave, GoOn, Moved, Renamed, Doing, DoingOneOf, PairDeeds, TargetDeeds
  <2> QED
    BY <1>5, <2>1, <2>2, <2>3, <2>4, <2>5, <2>6, <2>7, <2>8, <2>9, <2>10 DEF StepNext
<1> QED
  BY <1>4, <1>5

\* A rename by a copy keeps the file it is to delete, or one at its target, whatever happens.
LEMMA CopiesStep ==
    ASSUME SurviveIInv, SurviveIInv', CopyHolds, [FilesNext]_fileVars
    PROVE  CopyHolds'
<1>1. PICK t : t = todo'
  OBVIOUS
<1>2. CASE StepNext \/ SystemCallFails
  <2>1. SUFFICES ASSUME t # <<>>, t[Len(t)].do = "deleted", t[Len(t)].at \notin loose', trouble' <= 1
                 PROVE  CopyAt(t[Len(t)].at, Head(t), AheadOf(t))'
    <3>1. (todo # <<>> /\ Last.do = "deleted" /\ Last.at \notin loose /\ trouble <= 1)' =>
              t # <<>> /\ t[Len(t)].do = "deleted" /\ t[Len(t)].at \notin loose' /\ trouble' <= 1
      BY <1>1 DEF Last
    <3>2. (Last.at)' = t[Len(t)].at /\ Head(todo)' = Head(t) /\ Ahead' = AheadOf(t)
      BY <1>1 DEF Last, Ahead
    <3>3. CopyAt(t[Len(t)].at, Head(t), AheadOf(t))' => CopyAt(Last.at, Head(todo), Ahead)'
      BY <3>2 DEF CopyAt
    <3> QED
      BY <3>1, <3>3 DEF CopyHolds
  <2>2. Struct /\ FilesIInv /\ FilesIInv'
    BY DEF SurviveIInv, Sure
  <2>3. todo # <<>> /\ t[Len(t)] = Last
    BY <1>1, <1>2, <2>1, <2>2, SameLast
  <2>4. PICK p : p = t[Len(t)].at
    OBVIOUS
  <2>5. Last.do = "deleted" /\ Last.at = p /\ p \notin loose'
    BY <2>1, <2>3, <2>4
  <2>6. Last \in FileSteps /\ Belongs(Head(todo), Last) /\ todo \in Seq(FileSteps)
    <3>1. Chained(todo)
      BY <2>2 DEF Struct
    <3>2. todo \in Seq(FileSteps) /\ Belongs(Head(todo), Last)
      BY <2>3, <3>1, TailChained DEF Last, Chained
    <3> QED
      BY <2>3, <3>2 DEF Last
  <2>7. p \in Paths
    BY <2>5, <2>6 DEF FileSteps
  <2>8. ~Renames(Head(todo), Last) /\ ~Doing("move") /\ ~Doing("renamed")
    BY <2>5, <2>6 DEF Belongs, Renames, Doing, PairDeeds
  <2>9. Stands /\ HasFile
    BY <2>3, <2>8, StandsIs
  <2>10. trouble \in {0, 1} /\ (StepNext => trouble' = trouble)
    <3>1. trouble \in Nat
      BY <2>2, FilesAssumption DEF FilesIInv, ClientTypeOK
    <3>2. StepNext => trouble' = trouble
      BY <2>2, <2>8, StepPromises
    <3>3. SystemCallFails => trouble' = trouble + 1
      BY DEF SystemCallFails
    <3> QED
      BY <1>2, <2>1, <3>1, <3>2, <3>3
  <2>11. SystemCallFails => Path # p /\ loose \subseteq loose'
    <3> HAVE SystemCallFails
    <3>1. Fails
      BY <1>1, <2>1 DEF SystemCallFails, EndCall
    <3> QED
      BY <2>5, <3>1 DEF Fails
  <2>12. CASE Path = p
    <3>1. StepNext
      BY <1>2, <2>11, <2>12
    <3>2. p \notin loose => CopyAt(p, Head(todo), Ahead)
      BY <2>3, <2>5, <2>10 DEF CopyHolds
    <3>3. CopyAt(p, Head(t), AheadOf(t))'
      BY <1>1, <2>1, <2>3, <2>5, <2>7, <2>9, <2>12, <3>1, <3>2, CopySource
    <3> QED
      BY <2>4, <3>3 DEF CopyAt
  <2>13. CASE Path # p
    <3>1. p \notin loose
      <4>1. StepNext => Unpromised(p)
        BY <2>2, <2>7, <2>8, <2>13, StepPromises
      <4> QED
        BY <1>2, <2>5, <2>11, <4>1 DEF Unpromised
    <3>2. CopyAt(p, Head(todo), Ahead)
      BY <2>3, <2>5, <2>10, <3>1 DEF CopyHolds
    <3>3. PICK q : q = Path
      OBVIOUS
    <3>4. Filling(p, q)
      BY <2>5, <2>7, <2>9, <2>10, <2>13, <3>2, <3>3 DEF Filling, Stands
    <3>5. CopyAt(p, Head(t), AheadOf(t))'
      BY <1>1, <1>2, <2>1, <2>2, <2>3, <3>4, CopyTarget
    <3> QED
      BY <2>4, <3>5 DEF CopyAt
  <2> QED
    BY <2>12, <2>13
<1>3. CASE ClientCalls
  BY <1>3, CallCopies
<1>4. CASE Crash \/ \E p \in Paths : Damage(p)
  <2>1. todo' = <<>>
    BY <1>4 DEF Crash, Damage, NoCall
  <2> QED
    BY <2>1 DEF CopyHolds
<1>5. CASE UNCHANGED fileVars
  <2>1. UNCHANGED <<names, namesLeft, inodes, inodesLeft, todo, failed, loose, trouble>>
    BY <1>5 DEF fileVars, diskVars, promiseVars
  <2>2. \A q : /\ Anchored(q)' <=> Anchored(q)
               /\ Content(q)' = Content(q)
               /\ HasMatchingBackup(q)' <=> HasMatchingBackup(q)
    BY <2>1 DEF Anchored, Validates, HasMatchingBackup, Content, At, Exists, Durable
  <2>3. \A q : \A c : (Covered(q, c)' <=> Covered(q, c)) /\ (Firm(q, c)' <=> Firm(q, c))
    BY <2>1 DEF Covered, Firm, Content, At, Exists, Durable, Now, Left
  <2>4. \A p, s, l : CopyAt(p, s, l) => CopyAt(p, s, l)'
    <3> SUFFICES ASSUME NEW p, NEW s, NEW l, CopyAt(p, s, l) PROVE CopyAt(p, s, l)'
      OBVIOUS
    <3>1. PICK q, c, e : q = s.at /\ c = Content(p) /\ e = Content(q)
      OBVIOUS
    <3>2. (Firm(s.to, c) => Firm(s.to, Content(p))') /\ (Firm(q, e) => Firm(q, Content(q))')
          /\ (Covered(q, e) => Covered(q, Content(q))')
      <4>1. c = Content(p)' /\ e = Content(q)'
        BY <2>2, <3>1
      <4> QED
        BY <2>3, <4>1 DEF Firm, Covered
    <3> QED
      BY <2>1, <2>2, <3>1, <3>2 DEF CopyAt
  <2>5. Last' = Last /\ Head(todo)' = Head(todo) /\ Ahead' = Ahead
    BY <2>1 DEF Last, Ahead
  <2>6. PICK p, s, l : p = Last.at /\ s = Head(todo) /\ l = Ahead
    OBVIOUS
  <2>7. CopyHolds' <=> ((todo # <<>> /\ Last.do = "deleted" /\ p \notin loose /\ trouble <= 1) => CopyAt(p, s, l)')
    BY <2>1, <2>5, <2>6 DEF CopyHolds, CopyAt
  <2> QED
    BY <2>4, <2>6, <2>7 DEF CopyHolds
<1> QED
  BY <1>2, <1>3, <1>4, <1>5 DEF FilesNext

\* What holds of a rename in every state.
LEMMA RenameInvariant == FilesSpec => [](SurviveIInv /\ MoveHolds /\ CopyHolds)
<1>1. FilesInit => SurviveIInv /\ MoveHolds /\ CopyHolds
  BY SurviveInit DEF FilesInit, MoveHolds, CopyHolds
<1>2. SurviveIInv /\ MoveHolds /\ CopyHolds /\ [FilesNext]_fileVars => (SurviveIInv /\ MoveHolds /\ CopyHolds)'
  <2> SUFFICES ASSUME SurviveIInv, MoveHolds, CopyHolds, [FilesNext]_fileVars
               PROVE  (SurviveIInv /\ MoveHolds /\ CopyHolds)'
    OBVIOUS
  <2>1. SurviveIInv' /\ FilesIInv'
    BY SurviveStep DEF SurviveIInv
  <2> QED
    BY <2>1, CarriedStep, CopiesStep
<1> QED
  BY <1>1, <1>2, PTL DEF FilesSpec

\* Whatever a call has done when the power fails, however often a step failed before, one open
\* later every file that was whole is the old one or the new one, and a file on its way from one
\* path to another is at one of them: a rename hands it on before its source is unnamed, and a
\* rename by a copy deletes the source only when its target, or the backup of it, is flushed
\* (tafFilePa.c:1650, 1741, 1874, 1940).
THEOREM FilesSurviveAlways == FilesSpec => []FilesSurvive
<1>1. SurviveIInv /\ MoveHolds => MoveLosesNothing
  <2> SUFFICES ASSUME SurviveIInv, MoveHolds, NEW m \in moving
               PROVE  \A left \in namesLeft :
                          Finds(m.from, left) = {m.content} \/ Finds(m.to, left) = {m.content}
    BY DEF MoveLosesNothing
  <2>1. PICK p, q, c : p = m.from /\ q = m.to /\ c = m.content
    OBVIOUS
  <2>2. p \in Paths /\ q \in Paths /\ c # "none" /\ StandsAt(p, q, c)
    BY <2>1 DEF MoveHolds
  <2>3. Findable(p, q, c)
    BY <2>2, StandsFindable DEF SurviveIInv, FilesIInv
  <2> QED
    BY <2>1, <2>3 DEF Findable
<1> QED
  BY <1>1, RenameInvariant, OldOrNewSurvives, PTL DEF FilesSurvive
=================================================================================
