-------------------------- MODULE FilesSurvive_proofs --------------------------
(***************************************************************************)
(* Proofs about what is left of the key store's files, for any paths and    *)
(* versions, any number of rounds and any trouble: an open tells the truth, *)
(* and a file that is damaged or cut is the old one or the new one.         *)
(***************************************************************************)
EXTENDS Services_proofs

-----------------------------------------------------------------------------
(* A path that is opened.                                                  *)

\* What an open does first, of a path that rests.
LEMMA Opens1 ==
    ASSUME Disk, NEW p \in Paths, Rest(p), p \notin loose => Safe(p), Exists(Primary(p))
    PROVE  /\ Validates(At(Primary(p))) /\ HasMatchingBackup(p) => MayOpen(p, FALSE)
           /\ Validates(At(Primary(p))) /\ ~HasMatchingBackup(p) =>
                  Block(p, "copy_to_backup", "refreshed")
           /\ At(Primary(p)).label = "none" /\ ~Validates(At(Backup(p))) =>
                  Block(p, "copy_to_backup", "tracked")
<1> DEFINE f == At(Primary(p))
           g == At(Backup(p))
<1>0. /\ Primary(p) \in Names /\ Backup(p) \in Names
      /\ f \in Reach(Primary(p)) /\ g \in Reach(Backup(p)) /\ f # NoFile
  BY NamesAre, NowIs, PlainIs DEF Content, NoFile
<1>1. ASSUME p \notin loose, Validates(f) \/ (f.label = "none" /\ ~Validates(g))
      PROVE  Content(p) \in worth[p]
  <2>1. Trusts(p, f, g)
    BY <1>0, <1>1 DEF Safe
  <2>2. Found(f, g) = f.data
    BY <1>0, <1>1 DEF Found
  <2> QED
    BY <2>1, <2>2 DEF Trusts, Content
<1>2. ASSUME Validates(f), HasMatchingBackup(p) PROVE MayOpen(p, FALSE)
  <2>1. Ready(p)
    BY <1>2 DEF Ready, HasMatchingBackup, Validates
  <2> QED
    BY <1>1, <1>2, <2>1 DEF MayOpen
<1>3. ASSUME NEW l \in {"tracked", "refreshed"}, Own(p),
             Validates(f) \/ (f.label = "none" /\ ~Validates(g)), ~(Ready(p) /\ Kept(p))
      PROVE  Block(p, "copy_to_backup", l)
  <2>1. p \in loose \/ ~Writer(p)
    BY <1>3 DEF Rest, Resting, Kept
  <2>2. Watched(p) => Labels(p) /\ (Writer(p) \/ Uniform(p))
    BY DEF Rest, Resting
  <2>3. p \notin loose => Durable(Primary(p))
    BY DEF Rest, Resting, Kept, Flush
  <2>4. trouble = 0 /\ Exists(Backup(p)) => Validates(g)
    BY DEF Rest, Resting
  <2> QED
    BY <1>1, <1>3, <2>1, <2>2, <2>3, <2>4 DEF Block, Begun
<1>4. ASSUME Validates(f), ~HasMatchingBackup(p) PROVE Block(p, "copy_to_backup", "refreshed")
  <2>1. Own(p) /\ ~Ready(p)
    BY <1>4 DEF Own, Ready, Validates, HasMatchingBackup, Content
  <2> QED
    BY <1>3, <1>4, <2>1
<1>5. ASSUME f.label = "none", ~Validates(g) PROVE Block(p, "copy_to_backup", "tracked")
  <2>1. Own(p) /\ ~Ready(p)
    BY <1>5 DEF Own, Ready
  <2> QED
    BY <1>3, <1>5, <2>1
<1> QED
  BY <1>2, <1>4, <1>5

-----------------------------------------------------------------------------
(* What a client is told when a call is done.                              *)

\* A path of which nothing is left to be flushed.
LEMMA KeepsRests ==
    ASSUME Disk, Injective, NEW p \in Paths, NEW c, c # "none", NEW w, Resting(p, w), Keeps(p, c),
           worth \in [Paths -> SUBSET (Whole \cup {"missing"})],
           UNCHANGED diskVars, UNCHANGED trouble,
           \/ /\ Exists(Primary(p)) /\ c = Content(p) /\ At(Primary(p)) = Sealed(c)
              /\ Now(Primary(p)) = {Sealed(c)} /\ HasMatchingBackup(p)
           \/ /\ ~Exists(Primary(p)) /\ ~Exists(Backup(p)) /\ c = "missing"
              /\ Durable(Primary(p)) /\ Durable(Backup(p)) /\ ~w
    PROVE  /\ Resting(p, w)' /\ \A q \in Paths \ {p} : worth'[q] = worth[q] /\ (q \in loose' <=> q \in loose)
           /\ p \notin loose' => Safe(p)' /\ Apart(p)'
<1>0. Primary(p) \in Names /\ Backup(p) \in Names
  BY NamesAre
<1>1. /\ worth'[p] = {c} /\ \A q \in Paths \ {p} : worth'[q] = worth[q]
      /\ \A q \in Paths \ {p} : q \in loose' <=> q \in loose
      /\ p \notin loose' => p \notin loose \/ trouble = 0 \/ Flushed(p)
  BY DEF Keeps
<1>2. /\ \A n \in Names : /\ Same(n) /\ (Exists(n)' <=> Exists(n)) /\ (Durable(n)' <=> Durable(n))
                          /\ Stable(n)
      /\ Injective' /\ Disk'
  BY NoEffect, SameDisk
<1>3. Flushed(p) => Flush(p)
  BY DEF Flushed, Flush, Durable, Now
<1>4. ASSUME p \notin loose' \/ Kept(p)' PROVE Flush(p)
  <2>1. CASE p \notin loose'
    <3>1. p \notin loose \/ (trouble = 0 /\ Exists(Backup(p))) => Flush(p)
      BY DEF Resting, Kept
    <3>2. CASE Exists(Primary(p)) /\ HasMatchingBackup(p)
      <4>1. Exists(Backup(p))
        BY <3>2, PlainIs DEF HasMatchingBackup
      <4> QED
        BY <1>1, <1>3, <2>1, <3>1, <4>1
    <3>3. CASE ~Exists(Primary(p)) /\ ~Exists(Backup(p)) /\ Durable(Primary(p)) /\ Durable(Backup(p))
      BY <1>0, <3>3, NowIs DEF Flush
    <3> QED
      BY <3>2, <3>3
  <2>2. CASE p \in loose' /\ Kept(p)'
    <3>1. trouble = 0 /\ Exists(Backup(p))
      BY <1>0, <1>2, <2>2 DEF Kept
    <3> QED
      BY <3>1 DEF Resting, Kept
  <2> QED
    BY <1>4, <2>1, <2>2
<1>5. Labels(p) /\ Uniform(p) /\ (Exists(Primary(p)) => Own(p) /\ Content(p) = c)
      /\ (w => Ready(p))
      /\ (Exists(Backup(p)) => Exists(Primary(p)) /\ Validates(At(Backup(p))))
  <2>1. CASE /\ Exists(Primary(p)) /\ c = Content(p) /\ At(Primary(p)) = Sealed(c)
             /\ Now(Primary(p)) = {Sealed(c)} /\ HasMatchingBackup(p)
    <3>1. Sealed(c).data = c /\ Sealed(c).label = c
      BY DEF Sealed
    <3> QED
      BY <2>1, <3>1 DEF Labels, Uniform, Own, Ready, HasMatchingBackup
  <2>2. CASE ~Exists(Primary(p)) /\ ~Exists(Backup(p)) /\ ~w
    <3>1. At(Primary(p)) = NoFile /\ Now(Primary(p)) = {NoFile} /\ NoFile.label = "none"
      BY <1>0, <2>2, NowIs DEF NoFile
    <3> QED
      BY <2>2, <3>1 DEF Labels, Uniform, Content
  <2> QED
    BY <2>1, <2>2
<1>6. Resting(p, w)'
  <2>1. Labels(p)' /\ Uniform(p)' /\ (Own(p) => Own(p)') /\ (Ready(p) => Ready(p)')
        /\ (Flush(p) => Flush(p)') /\ Content(p)' = Content(p)
    BY <1>0, <1>2, <1>5 DEF Labels, Uniform, Own, Ready, Flush, Content, Same
  <2>2. /\ Exists(Backup(p))' => Exists(Primary(p))' /\ Validates(At(Backup(p)))'
        /\ Exists(Primary(p))' => Own(p)' /\ Content(p)' \in worth'[p]
    BY <1>0, <1>1, <1>2, <1>5, <2>1 DEF Same
  <2> QED
    BY <1>4, <1>5, <2>1, <2>2 DEF Resting
<1>7. ASSUME p \notin loose' PROVE Safe(p)' /\ Apart(p)'
  <2>1. Durable(Primary(p))' /\ Durable(Backup(p))' /\ Now(Backup(p))' = {At(Backup(p))}
        /\ Reach(Backup(p))' = {At(Backup(p))} /\ Reach(Primary(p))' = Now(Primary(p))
    BY <1>0, <1>2, <1>4, <1>7, NowIsNext DEF Flush, Same
  <2>2. ASSUME Exists(Primary(p)), c = Content(p), Now(Primary(p)) = {Sealed(c)},
               HasMatchingBackup(p), At(Primary(p)) = Sealed(c)
        PROVE  Safe(p)'
    <3>1. At(Backup(p)).data = c /\ Sealed(c).data = c /\ Sealed(c).label = c
      BY <2>2 DEF HasMatchingBackup, Validates, Content, Sealed
    <3> QED
      BY <1>1, <2>1, <2>2, <3>1, SafeFromNext
  <2>3. ASSUME ~Exists(Primary(p)), ~Exists(Backup(p)), c = "missing"
        PROVE  Safe(p)'
    <3>1. At(Backup(p)) = NoFile /\ Now(Primary(p)) = {NoFile} /\ ~Validates(NoFile)
      BY <1>0, <2>3, NowIs DEF NoFile, Validates
    <3> QED
      BY <1>1, <2>1, <2>3, <3>1, SafeGoneNext
  <2> QED
    BY <1>2, <2>1, <2>2, <2>3, DurableApartNext
<1> QED
  BY <1>1, <1>6, <1>7

-----------------------------------------------------------------------------
(* A file that is deleted.                                                 *)

\* Its name goes.
LEMMA UnlinkedPrimary ==
    ASSUME Disk, Injective, NEW p \in Paths, Unlinks(Primary(p)),
           worth'[p] = worth[p] \cup {"missing"}, UNCHANGED loose
    PROVE  Gone(p, "sync_unlink")' /\ (p \notin loose /\ Safe(p) => Safe(p)')
<1>0. Primary(p) \in Names /\ Backup(p) \in Names \ {Primary(p)}
  BY NamesAre
<1>1. /\ ~Exists(Primary(p))' /\ Stable(Backup(p))
      /\ \A x \in Reach(Primary(p))' : x = NoFile \/ x \in Reach(Primary(p))
  BY <1>0, UnlinksEffect
<1>2. Gone(p, "sync_unlink")'
  BY <1>1 DEF Gone
<1>3. ASSUME p \notin loose, Safe(p) PROVE Safe(p)'
  <2> SUFFICES ASSUME NEW f \in Reach(Primary(p))', NEW g \in Reach(Backup(p))'
               PROVE  Trusts(p, f, g)'
    BY DEF Safe
  <2>1. g \in Reach(Backup(p))
    BY <1>1 DEF Stable
  <2>2. \E x : x \in Reach(Primary(p))
    BY <1>0, NowIs
  <2>3. Validates(g) => g.data \in worth[p]
    BY <1>3, <2>1, <2>2 DEF Safe, Trusts
  <2>4. CASE f = NoFile
    <3>1. f.label = "none"
      BY <2>4 DEF NoFile
    <3>2. Found(f, g) \in worth'[p]
      BY <2>3, <2>4 DEF Found
    <3> QED
      BY <2>3, <3>1, <3>2 DEF Trusts
  <2>5. CASE f \in Reach(Primary(p))
    <3>1. Trusts(p, f, g)
      BY <1>3, <2>1, <2>5 DEF Safe
    <3> QED
      BY <3>1 DEF Trusts
  <2> QED
    BY <1>1, <2>4, <2>5
<1> QED
  BY <1>2, <1>3

\* Its directory is flushed.
LEMMA UnlinkedSynced ==
    ASSUME Disk, NEW p \in Paths, Gone(p, "sync_unlink"), Steady, SyncName(Primary(p))
    PROVE  Gone(p, "unlink_backup")' /\ (p \notin loose /\ Safe(p) => Safe(p)')
<1>0. Primary(p) \in Names /\ Backup(p) \in Names
  BY NamesAre
<1>1. Same(Primary(p)) /\ Stable(Primary(p)) /\ Stable(Backup(p)) /\ Durable(Primary(p))'
  BY <1>0, SyncNameEffect
<1> QED
  BY <1>1, SafeShrinks DEF Gone, Steady, Same, Stable, Exists

\* The name of its backup goes.
LEMMA UnlinkedBackup ==
    ASSUME Disk, Disk', Injective, NEW p \in Paths, Gone(p, "unlink_backup"), Steady, Unlinks(Backup(p))
    PROVE  Gone(p, "sync_unlink_backup")' /\ (p \notin loose /\ Safe(p) => Safe(p)')
<1>0. Backup(p) \in Names /\ Primary(p) \in Names \ {Backup(p)}
  BY NamesAre
<1>1. /\ ~Exists(Backup(p))' /\ Stable(Primary(p)) /\ Same(Primary(p))
      /\ \A x \in Reach(Backup(p))' : x = NoFile \/ x \in Reach(Backup(p))
  BY <1>0, UnlinksEffect
<1>2. Durable(Primary(p))' /\ ~Exists(Primary(p))' /\ ("missing" \in worth[p] \/ p \in loose)
  BY <1>1 DEF Gone, Stable, Same, Exists
<1>3. Gone(p, "sync_unlink_backup")'
  BY <1>1, <1>2 DEF Gone, Steady
<1>4. ASSUME p \notin loose, Safe(p) PROVE Safe(p)'
  <2>1. \A f \in Reach(Primary(p))' : f = NoFile
    BY <1>0, <1>2, NowIsNext
  <2>2. \E x : x \in Reach(Primary(p))
    BY <1>0, NowIs
  <2>3. \A g \in Reach(Backup(p))' : Validates(g) => g.data \in worth[p]
    <3>1. ~Validates(NoFile)
      BY DEF Validates, NoFile
    <3> QED
      BY <1>1, <1>4, <2>2, <3>1 DEF Safe, Trusts
  <2> QED
    BY <1>2, <1>4, <2>1, <2>3, SafeGoneNext DEF Steady
<1> QED
  BY <1>3, <1>4

\* That is flushed too.
LEMMA DeletedRests ==
    ASSUME Disk, Disk', NEW p \in Paths, Gone(p, "sync_unlink_backup"), Steady, SyncName(Backup(p)),
           \A fd \in fds : fd.id # 0
    PROVE  /\ Rest(p)' /\ (p \notin loose /\ Safe(p) => Safe(p)')
           /\ ~Exists(Primary(p))' /\ ~Exists(Backup(p))' /\ Durable(Primary(p))' /\ Durable(Backup(p))'
<1>0. Primary(p) \in Names /\ Backup(p) \in Names
  BY NamesAre
<1>1. /\ Same(Primary(p)) /\ Stable(Primary(p)) /\ Stable(Backup(p)) /\ Durable(Backup(p))'
      /\ Same(Backup(p))
  BY <1>0, SyncNameEffect
<1>2. /\ ~Exists(Primary(p))' /\ ~Exists(Backup(p))' /\ Durable(Primary(p))' /\ Durable(Backup(p))'
  BY <1>1 DEF Gone, Same, Stable, Exists
<1>3. /\ At(Primary(p))' = NoFile /\ Now(Primary(p))' = {NoFile}
      /\ At(Backup(p))' = NoFile /\ Now(Backup(p))' = {NoFile}
  BY <1>0, <1>2, NowIsNext
<1>4. ~Writer(p)'
  BY <1>2 DEF Writer, Exists, Steady
<1>5. Labels(p)' /\ Uniform(p)' /\ Flush(p)'
  BY <1>2, <1>3 DEF Labels, Uniform, Flush, Content, NoFile
<1>6. Rest(p)'
  BY <1>2, <1>4, <1>5 DEF Rest, Resting
<1> QED
  BY <1>1, <1>2, <1>6, SafeShrinks DEF Steady, Stable

-----------------------------------------------------------------------------
(* What happens from outside.                                              *)

\* A path whose file and backup are one content, of which one or the other goes bad.
LEMMA DamageRests ==
    ASSUME Disk, Disk', Injective, NEW p \in Paths, Damage(p), Rest(p), p \notin loose => Safe(p),
           trouble \in Nat, \A fd \in fds : fd.id # 0
    PROVE  Rest(p)' /\ (p \notin loose' => Safe(p)')
<1>0. /\ Primary(p) \in Names /\ Backup(p) \in Names /\ Primary(p) # Backup(p)
      /\ trouble' # 0 /\ UNCHANGED <<worth, fds>>
  BY NamesAre DEF Damage
<1>1. CASE p \in loose'
  BY <1>0, <1>1, ExemptRestsNext
<1>2. CASE p \notin loose'
  <2> DEFINE c == Content(p)
  <2>1. p \notin loose /\ Validates(At(Primary(p))) /\ HasMatchingBackup(p)
    BY <1>2 DEF Damage
  <2>2. /\ Exists(Primary(p)) /\ Exists(Backup(p)) /\ c # "none"
        /\ At(Primary(p)) = Sealed(c) /\ At(Backup(p)) = Sealed(c)
        /\ Sealed(c).data = c /\ Sealed(c).label = c /\ Validates(Sealed(c))
    <3>1. At(Primary(p)) = Sealed(c) /\ Sealed(c).data = c /\ Sealed(c).label = c /\ c # "none"
      BY <2>1, PlainIs DEF Sealed
    <3>2. At(Backup(p)).data = c
      BY <2>1 DEF HasMatchingBackup, Validates, Content
    <3> QED
      BY <2>1, <3>1, <3>2, PlainIs DEF HasMatchingBackup, Validates
  <2>3. ~Writer(p)
    BY DEF Damage, Closed, Writer
  <2>4. /\ Labels(p) /\ Uniform(p) /\ Durable(Primary(p)) /\ Durable(Backup(p))
        /\ Now(Backup(p)) = {Sealed(c)}
    BY <2>1, <2>2, <2>3 DEF Rest, Resting, Watched, Kept, Flush
  <2> HIDE DEF c
  <2>5. c \in worth[p]
    <3>1. At(Backup(p)) \in Reach(Backup(p)) /\ At(Primary(p)) \in Reach(Primary(p))
      BY <1>0, NowIs
    <3> QED
      BY <2>1, <2>2, <3>1 DEF Safe, Trusts
  <2>6. \A left \in namesLeft : left[Backup(p)] # names[Primary(p)] /\ left[Primary(p)] # names[Backup(p)]
    BY <1>0, <2>2, <2>4 DEF Durable, Injective
  <2>7. ASSUME Durable(Primary(p))', Durable(Backup(p))',
               \/ Same(Backup(p)) /\ \E l \in {c, "none"} : \E d : At(Primary(p))' = [data |-> d, label |-> l]
               \/ At(Primary(p))' = Sealed(c) /\ At(Backup(p)).label' = c,
               Same(Primary(p)) \/ Now(Primary(p))' = {At(Primary(p))'},
               Same(Backup(p)) \/ Now(Backup(p))' = {At(Backup(p))'}, ~Writer(p)',
               Same(Primary(p)) \/ Same(Backup(p))
        PROVE  Rest(p)' /\ Safe(p)'
    <3>1. Labels(p)' /\ Uniform(p)'
      BY <2>4, <2>7 DEF Labels, Uniform, Same, Content
    <3>2. Flush(p)'
      BY <2>2, <2>4, <2>7 DEF Flush, Same
    <3>3. Rest(p)'
      BY <1>0, <2>7, <3>1, <3>2 DEF Rest, Resting
    <3>4. Reach(Primary(p))' = Now(Primary(p))' /\ Reach(Backup(p))' = Now(Backup(p))'
      BY <1>0, <2>7, NowIsNext
    <3>5. CASE Same(Backup(p))
      <4>1. Reach(Backup(p))' = {Sealed(c)}
        BY <2>4, <3>4, <3>5 DEF Same
      <4>2. At(Primary(p)).label' \in {c, "none"}
        BY <2>2, <2>7 DEF Sealed
      <4>3. \A f \in Reach(Primary(p))' : f.label = "none" \/ f.label = c
        BY <2>2, <2>4, <2>7, <3>1, <3>4, <4>2 DEF Labels
      <4> QED
        BY <1>0, <2>2, <2>5, <3>3, <4>1, <4>3, SafeBackedNext
    <3>6. CASE Same(Primary(p)) /\ ~Same(Backup(p))
      <4>1. \A f \in Reach(Primary(p))' : f.data = c /\ f.label \in {"none", c}
        BY <2>2, <2>4, <3>4, <3>6 DEF Labels, Uniform, Same, c
      <4>2. \A g \in Reach(Backup(p))' : g.label = c
        BY <2>7, <3>4, <3>6
      <4> QED
        BY <1>0, <2>2, <2>5, <3>3, <4>1, <4>2, SafeFromNext DEF Validates
    <3> QED
      BY <2>7, <3>5, <3>6
  <2>8. ASSUME NEW l \in {c, "none"}, Rots(Primary(p), l) PROVE Rest(p)' /\ Safe(p)'
    <3>1. /\ UNCHANGED <<names, namesLeft>>
          /\ At(Primary(p))' = [data |-> "rot", label |-> l] /\ Now(Primary(p))' = {At(Primary(p))'}
          /\ Same(Backup(p))
      BY <1>0, <2>2, <2>8, RotsEffect
    <3>2. Durable(Primary(p))' /\ Durable(Backup(p))' /\ ~Writer(p)'
      BY <1>0, <2>3, <2>4, <3>1, NamesStay DEF Writer
    <3> QED
      BY <2>7, <3>1, <3>2
  <2>9. CASE Disappears(Primary(p))
    <3>1. /\ At(Primary(p))' = NoFile /\ Now(Primary(p))' = {NoFile} /\ ~Exists(Primary(p))'
          /\ Durable(Primary(p))' /\ Same(Backup(p)) /\ Stable(Backup(p))
      BY <1>0, <2>9, DisappearsEffect
    <3>2. Durable(Backup(p))'
      BY <2>4, <3>1 DEF Stable
    <3>3. ~Writer(p)'
      BY <1>0, <3>1 DEF Writer, Exists
    <3>4. \E l \in {c, "none"} : \E d : At(Primary(p))' = [data |-> d, label |-> l]
      BY <3>1 DEF NoFile
    <3> QED
      BY <2>7, <3>1, <3>2, <3>3, <3>4
  <2>11. CASE Rots(Backup(p), At(Backup(p)).label)
    <3>1. /\ UNCHANGED <<names, namesLeft>>
          /\ At(Backup(p))' = [data |-> "rot", label |-> c] /\ Now(Backup(p))' = {At(Backup(p))'}
          /\ Same(Primary(p))
      BY <1>0, <2>2, <2>11, RotsEffect
    <3>2. Durable(Primary(p))' /\ Durable(Backup(p))' /\ ~Writer(p)'
      BY <1>0, <2>3, <2>4, <3>1, NamesStay DEF Writer
    <3>3. At(Primary(p))' = Sealed(c) /\ At(Backup(p)).label' = c
      BY <2>2, <3>1 DEF Same
    <3> QED
      BY <2>7, <3>1, <3>2, <3>3
  <2> QED
    BY <1>2, <2>2, <2>8, <2>9, <2>11 DEF Damage, c
<1> QED
  BY <1>1, <1>2

-----------------------------------------------------------------------------
(* What a step leaves alone.                                               *)

\* What is done under one name leaves the others as they are.
Touches(n) ==
    /\ \A m \in Names \ {n} :
           /\ Same(m) /\ (Durable(m) => Durable(m)')
           /\ (\A left \in namesLeft : ~(Exists(n) /\ left[m] = names[n])) =>
                  Reach(m)' \subseteq Reach(m)
    /\ names'[n] = names[n] \/ names'[n] = 0 \/ names'[n] \notin Ids
    /\ Injective'
    /\ \A p \in Paths : Apart(p) => Apart(p)'

\* Each of the operations on the disk is one under one name.
LEMMA NothingTouches ==
    ASSUME Injective, UNCHANGED diskVars, NEW n \in Names PROVE Touches(n)
BY NoEffect DEF Touches, Stable, Same, diskVars

\* A change of a file touches only the name that leads to it.
LEMMA BecomesTouches ==
    ASSUME Disk, Injective, NEW n \in Names, NEW f \in File, Exists(n), Becomes(names[n], f)
    PROVE  Touches(n)
<1>1. /\ UNCHANGED <<names, namesLeft>>
      /\ \A m \in Names \ {n} :
             Same(m) /\ ((\A left \in namesLeft : left[m] # names[n]) => Stable(m))
  BY BecomesEffect
<1>2. \A m \in Names : Durable(m) => Durable(m)'
  BY <1>1, NamesStay
<1>3. Injective' /\ \A p \in Paths : Apart(p) => Apart(p)'
  BY <1>1, NamesStay
<1> QED
  BY <1>1, <1>2, <1>3 DEF Touches, Stable

\* Damage to a file touches only the name that leads to it.
LEMMA RotsTouches ==
    ASSUME Disk, Injective, NEW n \in Names, NEW l, Exists(n), Rots(n, l)
    PROVE  Touches(n)
<1>1. /\ UNCHANGED <<names, namesLeft>>
      /\ \A m \in Names \ {n} :
             Same(m) /\ ((\A left \in namesLeft : left[m] # names[n]) => Stable(m))
  BY RotsEffect
<1>2. \A m \in Names : Durable(m) => Durable(m)'
  BY <1>1, NamesStay
<1>3. Injective' /\ \A p \in Paths : Apart(p) => Apart(p)'
  BY <1>1, NamesStay
<1> QED
  BY <1>1, <1>2, <1>3 DEF Touches, Stable

\* A new file touches only its name.
LEMMA CreatesTouches ==
    ASSUME Disk, Injective, NEW n \in Names, NEW c, Creates(n, c) PROVE Touches(n)
BY CreatesEffect DEF Touches, Stable

\* A removal touches only its name.
LEMMA UnlinksTouches ==
    ASSUME Disk, Injective, NEW n \in Names, Unlinks(n) PROVE Touches(n)
<1>1. names'[n] = 0
  BY UnlinksEffect DEF Exists
<1> QED
  BY <1>1, UnlinksEffect DEF Touches, Stable

\* A name that disappears touches no other.
LEMMA DisappearsTouches ==
    ASSUME Disk, Injective, NEW n \in Names, Disappears(n) PROVE Touches(n)
<1>1. names'[n] = 0
  BY DisappearsEffect DEF Exists
<1> QED
  BY <1>1, DisappearsEffect DEF Touches, Stable

\* A flush of a file touches only the name that leads to it.
LEMMA SyncFileTouches ==
    ASSUME Disk, Injective, NEW n \in Names, SyncFile(n) PROVE Touches(n)
<1>1. /\ UNCHANGED <<names, namesLeft>> /\ \A m \in Names : Stable(m) /\ (m # n => Same(m))
  BY SyncFileEffect
<1>2. Injective' /\ \A p \in Paths : Apart(p) => Apart(p)'
  BY <1>1, NamesStay
<1> QED
  BY <1>1, <1>2 DEF Touches, Stable

\* A flush of a directory touches only its name: what it leaves of the others was left before.
LEMMA SyncNameTouches ==
    ASSUME Disk, Injective, NEW n \in Names, SyncName(n) PROVE Touches(n)
BY SyncNameEffect DEF Touches, Stable

\* A step that changes a file finds it there.
HasFile ==
    /\ DoingOneOf({"label", "label_restored", "fill_in_part", "fill"} \cup Checksums) =>
           Exists(Primary(Path))
    /\ Doing("label_backup") => Exists(Backup(Path))

\* A step of a call does something under one of the names of its path.
TouchesPath == \E n \in {Primary(Path), Backup(Path)} : Touches(n)

\* A step of a call other than the move touches the names of its path only.
LEMMA StepTouches ==
    ASSUME FilesIInv, Injective, HasFile, StepNext, ~Doing("move")
    PROVE  TouchesPath
<1> USE DEF FilesIInv
<1>0. todo # <<>>
  BY Zenon
     DEF StepNext, Enter, Refresh, CopyToBackup, CopyToPrimary, Label, LabelBackup, Sync, Unlink,
         Open, Fill, Match, Move, Leave, Overlook, Tracked, Filled, CloseDone, Deleted, GoOn,
         Moved, Renamed, Doing, DoingOneOf, NoCall
<1>1. /\ Path \in Paths /\ Head(todo).to \in Paths /\ Needs(Head(todo)) \subseteq There
      /\ Primary(Path) \in Names /\ Backup(Path) \in Names
  BY <1>0, HeadIs
<1>2. CASE UNCHANGED diskVars
  BY <1>1, <1>2, NothingTouches DEF TouchesPath
<1>3. ASSUME NEW n \in {Primary(Path), Backup(Path)}, NEW f,
             Exists(n), f \in File, Becomes(names[n], f)
      PROVE  TouchesPath
  BY <1>1, <1>3, BecomesTouches DEF TouchesPath
<1>4. ASSUME NEW n \in {Primary(Path), Backup(Path)}, NEW c, Creates(n, c) PROVE TouchesPath
  BY <1>1, <1>4, CreatesTouches DEF TouchesPath
<1>5. ASSUME NEW p \in Paths, Exists(Primary(p)) PROVE At(Primary(p)) \in File /\ Content(p) \in Data
  BY <1>5, ContentIs DEF There
<1>6. CASE CopyToBackup \/ CopyToPrimary
  BY <1>2, <1>4, <1>6, Zenon DEF CopyToBackup, CopyToPrimary, Fails
<1>7. CASE Label
  <2>1. Exists(Primary(Path))
    BY <1>7 DEF Label, HasFile, DoingOneOf
  <2> DEFINE f == [data |-> Content(Path), label |-> Content(Path)]
  <2>2. f \in File
    BY <1>1, <1>5, <2>1, FileIs
  <2>3. Becomes(names[Primary(Path)], f)
    BY <1>7 DEF Label
  <2> HIDE DEF f
  <2> QED
    BY <1>3, <2>1, <2>2, <2>3
<1>8. CASE LabelBackup
  <2>1. Exists(Backup(Path))
    BY <1>8 DEF LabelBackup, HasFile
  <2> DEFINE f == [data |-> At(Backup(Path)).data, label |-> At(Backup(Path)).data]
  <2>2. f \in File
    BY <1>1, <2>1, AtIs, FileIs
  <2>3. Becomes(names[Backup(Path)], f)
    BY <1>8 DEF LabelBackup
  <2> HIDE DEF f
  <2> QED
    BY <1>3, <2>1, <2>2, <2>3
<1>9. CASE Sync
  <2>1. \E n \in {Primary(Path), Backup(Path)} : SyncFile(n) \/ SyncName(n)
    BY <1>9, Zenon DEF Sync
  <2> QED
    BY <1>1, <2>1, SyncFileTouches, SyncNameTouches DEF TouchesPath
<1>10. CASE Unlink
  <2>1. \E n \in {Primary(Path), Backup(Path)} : Unlinks(n)
    BY <1>10, Zenon DEF Unlink
  <2> QED
    BY <1>1, <2>1, UnlinksTouches DEF TouchesPath
<1>11. CASE Open
  <2> DEFINE f == [At(Primary(Path)) EXCEPT !.data = "empty"]
  <2>1. \/ UNCHANGED diskVars
        \/ Creates(Primary(Path), "empty")
        \/ Exists(Primary(Path)) /\ Becomes(names[Primary(Path)], f)
    BY <1>11, Zenon DEF Open
  <2>2. CASE Exists(Primary(Path)) /\ Becomes(names[Primary(Path)], f)
    <3>1. f \in File
      BY <1>1, <1>5, <2>2 DEF File, Whole
    <3> HIDE DEF f
    <3> QED
      BY <1>3, <2>2, <3>1
  <2> HIDE DEF f
  <2> QED
    BY <1>2, <1>4, <2>1, <2>2
<1>12. CASE Fill
  <2> DEFINE f(c) == [inodes[names[Primary(Path)]] EXCEPT !.data = c]
  <2>1. \/ UNCHANGED diskVars
        \/ Doing("fill_in_part") /\ Becomes(names[Primary(Path)], f("part"))
        \/ Doing("fill") /\ Becomes(names[Primary(Path)], f(Content(Head(todo).to)))
    BY <1>12, Zenon DEF Fill
  <2>2. ASSUME Exists(Primary(Path)), NEW c \in Data PROVE f(c) \in File
    <3>1. At(Primary(Path)) \in File /\ inodes[names[Primary(Path)]] = At(Primary(Path))
      BY <1>1, <1>5, <2>2 DEF At
    <3> QED
      BY <3>1 DEF File, Data, Whole
  <2>3. CASE Doing("fill_in_part") /\ Becomes(names[Primary(Path)], f("part"))
    <3>1. Exists(Primary(Path)) /\ "part" \in Data
      BY <2>3 DEF HasFile, Doing, DoingOneOf, Data
    <3>2. f("part") \in File
      BY <2>2, <3>1
    <3> HIDE DEF f
    <3> QED
      BY <1>3, <2>3, <3>1, <3>2
  <2>4. CASE Doing("fill") /\ Becomes(names[Primary(Path)], f(Content(Head(todo).to)))
    <3>1. Exists(Primary(Path)) /\ Head(todo).to \in There
      BY <1>1, <2>4 DEF HasFile, Doing, DoingOneOf, Needs
    <3>2. Content(Head(todo).to) \in Data
      BY <3>1, ContentIs
    <3>3. f(Content(Head(todo).to)) \in File
      BY <2>2, <3>1, <3>2
    <3> HIDE DEF f
    <3> QED
      BY <1>3, <2>4, <3>1, <3>3
  <2> HIDE DEF f
  <2> QED
    BY <1>2, <2>1, <2>3, <2>4
<1>13. CASE Enter \/ Refresh \/ Match \/ Leave \/ Overlook \/ Tracked \/ Filled \/ CloseDone
            \/ Deleted \/ GoOn \/ Moved \/ Renamed
  <2>1. UNCHANGED diskVars
    BY <1>13, Zenon DEF Enter, Refresh, Match, Leave, Overlook, Tracked, Filled, CloseDone, Deleted,
                        GoOn, Moved, Renamed
  <2> QED
    BY <1>2, <2>1
<1> QED
  BY <1>6, <1>7, <1>8, <1>9, <1>10, <1>11, <1>12, <1>13 DEF StepNext, Move

\* The promises of a path stay.
Unpromised(r) == worth'[r] = worth[r] /\ (r \in loose' <=> r \in loose)

\* What a step does under one name of a path leaves the other paths as they are, and keeps the
\* names apart.
LEMMA FrameIs ==
    ASSUME FilesIInv, FilesIInv', Injective, Roles, NEW p \in Paths,
           \E n \in {Primary(p), Backup(p)} : Touches(n), trouble' = trouble \/ trouble' # 0,
           \A fd \in fds' : fd \in fds \/ fd.id = names'[Primary(p)],
           \A fd \in fds : \/ fd \in fds' \/ ~fd.writes
                           \/ \A r \in Paths \ {p} : names[Primary(r)] # fd.id
    PROVE  /\ \A r \in Paths \ {p} : Unpromised(r) /\ (r \notin loose => Apart(r)) => Calm(r)
           /\ Roles' /\ Injective'
           /\ \A r \in Paths : Apart(r) => Apart(r)'
<1> USE NamesAre
<1>1. PICK n \in {Primary(p), Backup(p)} : Touches(n)
  OBVIOUS
<1>2. /\ n \in Names
      /\ \A m \in Names \ {n} :
             /\ Same(m) /\ (Durable(m) => Durable(m)')
             /\ (\A left \in namesLeft : ~(Exists(n) /\ left[m] = names[n])) =>
                    Reach(m)' \subseteq Reach(m)
      /\ names'[n] = names[n] \/ names'[n] = 0 \/ names'[n] \notin Ids
      /\ Injective'
      /\ \A r \in Paths : Apart(r) => Apart(r)'
  BY <1>1 DEF Touches
<1>3. (\A fd \in fds : fd.id # 0 /\ fd.id \in Ids) /\ \A fd \in fds' : fd.id # 0
  BY DEF FilesIInv, Descriptors, ClientTypeOK
<1>4. \A m, k \in Names : names'[m] = names'[k] /\ names'[m] # 0 => m = k
  BY <1>2 DEF Injective, Exists
<1>5. ASSUME NEW r \in Paths \ {p}, Unpromised(r), r \notin loose => Apart(r) PROVE Calm(r)
  <2>0. Primary(r) \in Names \ {n} /\ Backup(r) \in Names \ {n}
    BY DEF Primary, Backup
  <2>1. \A m \in {Primary(r), Backup(r)} : m \in Names \ {n} /\ Same(m) /\ (Durable(m) => Durable(m)')
    BY <1>2, <2>0
  <2>2. ASSUME r \notin loose, NEW m \in {Primary(r), Backup(r)} PROVE Reach(m)' \subseteq Reach(m)
    <3>1. \A left \in namesLeft : ~(Exists(n) /\ left[m] = names[n])
      BY <1>2, <1>5, <2>1, <2>2 DEF Apart
    <3> QED
      BY <1>2, <2>1, <3>1
  <2>3. names'[Primary(r)] = names[Primary(r)]
    BY <2>1 DEF Same
  <2>4. Writer(r)' => Writer(r)
    <3> SUFFICES ASSUME NEW fd \in fds', fd.writes, fd.id = names'[Primary(r)] PROVE Writer(r)
      BY DEF Writer
    <3>1. fd.id # names'[Primary(p)]
      BY <1>3, <1>4 DEF Primary
    <3> QED
      BY <2>3, <3>1 DEF Writer
  <2>5. Writer(r) => Writer(r)'
    BY <2>3 DEF Writer
  <2> QED
    BY <1>5, <2>1, <2>2, <2>4, <2>5 DEF Calm, Unpromised
<1>6. Roles'
  <2> SUFFICES ASSUME NEW fd \in fds', NEW q \in Paths, names'[Backup(q)] = fd.id PROVE FALSE
    BY DEF Roles
  <2>1. CASE fd \in fds
    <3>1. names[Backup(q)] # fd.id /\ fd.id # 0 /\ fd.id \in Ids
      BY <1>3, <2>1 DEF Roles
    <3>2. names'[Backup(q)] = names[Backup(q)] \/ Backup(q) = n
      BY <1>2 DEF Same
    <3> QED
      BY <1>2, <3>1, <3>2
  <2>2. CASE fd.id = names'[Primary(p)]
    <3>1. Backup(q) = Primary(p)
      BY <1>3, <1>4, <2>2
    <3> QED
      BY <3>1 DEF Primary, Backup
  <2> QED
    BY <2>1, <2>2
<1> QED
  BY <1>2, <1>5, <1>6

\* A step of a call makes promises for its own path, and a rename at its end for the other one.
LEMMA StepPromises ==
    ASSUME FilesIInv, StepNext, ~Doing("move")
    PROVE  /\ todo # <<>> /\ trouble' = trouble
           /\ \A r \in Paths \ {Path} : (Doing("renamed") => r # Head(todo).to) => Unpromised(r)
           /\ fds \subseteq fds' /\ (~Doing("open") => UNCHANGED fds)
           /\ \A fd \in fds' : fd \in fds \/ fd.id = names'[Primary(Path)]
<1>1. worth \in [Paths -> SUBSET (Whole \cup {"missing"})]
  BY DEF FilesIInv, ClientTypeOK
<1>2. CASE Open
  <2>1. UNCHANGED fds \/ \E w : fds' = fds \cup {[id |-> names'[Primary(Path)], writes |-> w]}
    BY <1>2, Zenon DEF Open
  <2>2. loose' = loose \/ loose' = loose \cup {Path}
    BY <1>2, Zenon DEF Open
  <2> QED
    BY <1>2, <2>1, <2>2 DEF Open, Unpromised, Doing, NoCall
<1>3. CASE Enter \/ Refresh \/ LabelBackup \/ Sync \/ Fill \/ Match \/ Leave \/ Overlook \/ Tracked
           \/ GoOn \/ Moved
  BY <1>3, Zenon DEF Enter, Refresh, LabelBackup, Sync, Fill, Match, Leave, Overlook, Tracked, GoOn, Moved,
                Doing, DoingOneOf, NoCall, promiseVars, Unpromised
<1>4. CASE CopyToBackup \/ CopyToPrimary
  <2>1. UNCHANGED <<fds, trouble>> /\ todo # <<>> /\ (UNCHANGED promiseVars \/ Fails)
        /\ (Doing("copy_to_backup") \/ Doing("copy_to_primary"))
    BY <1>4, Zenon DEF CopyToBackup, CopyToPrimary, Doing, NoCall
  <2> QED
    BY <2>1 DEF Fails, Unpromised, promiseVars, Doing
<1>5. CASE Label
  BY <1>1, <1>5 DEF Label, Unpromised, Doing, DoingOneOf, NoCall
<1>6. CASE Unlink
  BY <1>1, <1>6 DEF Unlink, Unpromised, Doing, NoCall
<1>7. CASE Filled
  BY <1>7 DEF Filled, Unpromised, Doing, NoCall
<1>8. CASE CloseDone
  BY <1>1, <1>8 DEF CloseDone, Keeps, Unpromised, Doing, NoCall
<1>9. CASE Deleted
  BY <1>1, <1>9 DEF Deleted, Keeps, Unpromised, Doing, NoCall
<1>10. CASE Renamed
  BY <1>1, <1>10 DEF Renamed, Unpromised, Doing, NoCall
<1> QED
  BY <1>2, <1>3, <1>4, <1>5, <1>6, <1>7, <1>8, <1>9, <1>10 DEF StepNext, Move

-----------------------------------------------------------------------------
(* A step of a call that is no rename.                                     *)

\* What is left of a call when a step of path p is done: what holds of p.
Reached(p, t) ==
    IF t = <<>> THEN Rest(p)
    ELSE /\ Head(t).at # p => Rest(p) /\ Head(t).do \in {"enter", "leave"} /\ ~failed
         /\ Head(t).at = p =>
              /\ Place(p, Head(t).do, AheadOf(t), Head(t).flags)
              /\ failed => Head(t).do \in Landings /\ p \in loose

\* The point a call has reached, when it is no rename: its own path and all others.
LEMMA ReachesPoint ==
    ASSUME NEW p \in Paths, NEW t, t = todo', t # <<>> => t[Len(t)].do # "renamed",
           t # <<>> => Head(t).at \in Paths,
           \A r \in Paths \ {p} : Rest(r)', Reached(p, t)', backupResult', t = <<>> => ~failed'
    PROVE  Point' /\ OthersRest' /\ AtRest' /\ NotRename'
<1>1. CASE t = <<>>
  BY <1>1 DEF Point, OthersRest, AtRest, NotRename, Reached, Busy
<1>2. CASE t # <<>>
  <2> DEFINE s == Head(t)
             e == t[Len(t)]
  <2>1. ~Renames(s, e)
    BY <1>2 DEF Renames
  <2>2. Head(todo)' = s /\ Last' = e /\ todo' # <<>> /\ Path' = s.at /\ Ahead' = AheadOf(t)
    BY <1>2 DEF Last, Path, Ahead
  <2>3. Busy' = {s.at}
    BY <2>1, <2>2 DEF Busy
  <2>4. AtRest' /\ NotRename'
    BY <2>2 DEF AtRest, NotRename
  <2>5. CASE s.at = p
    <3>1. /\ Place(p, s.do, AheadOf(t), s.flags)'
          /\ failed' => s.do \in Landings /\ p \in loose'
      BY <1>2, <2>5 DEF Reached
    <3>2. PointAt(s, AheadOf(t), e)'
      BY <2>1, <2>5, <3>1 DEF PointAt
    <3>3. Point'
      BY <2>2, <3>2 DEF Point
    <3>4. OthersRest'
      BY <2>3, <2>5 DEF OthersRest
    <3> QED
      BY <2>4, <3>3, <3>4
  <2>6. CASE s.at # p
    <3>1. Rest(p)' /\ s.do \in {"enter", "leave"} /\ ~failed'
      BY <1>2, <2>6 DEF Reached
    <3>2. Rest(s.at)' /\ \A r \in Paths : Rest(r)'
      BY <1>2, <3>1
    <3>3. Place(s.at, s.do, AheadOf(t), s.flags)'
      BY <3>1, <3>2 DEF Place, BlockDeeds, RestoreDeeds
    <3>4. PointAt(s, AheadOf(t), e)'
      BY <2>1, <3>1, <3>3 DEF PointAt
    <3>5. Point'
      BY <2>2, <3>4 DEF Point
    <3>6. OthersRest'
      BY <3>2 DEF OthersRest
    <3> QED
      BY <2>4, <3>5, <3>6
  <2> QED
    BY <2>5, <2>6
<1> QED
  BY <1>1, <1>2

\* Where a call stands that is no rename.
Stands ==
    /\ FilesIInv /\ Injective /\ Roles /\ Struct /\ todo # <<>>
    /\ Path \in Paths /\ Head(todo) \in FileSteps /\ Last.do # "renamed"
    /\ Place(Path, Head(todo).do, Ahead, Head(todo).flags)
    /\ failed => Head(todo).do \in Landings /\ Path \in loose
    /\ Path \notin loose => Safe(Path) /\ Apart(Path)

\* The step that comes next, when there is one.
LEMMA Comes ==
    ASSUME Struct, todo # <<>>, NEW t, t = Tail(todo)
    PROVE  /\ t = <<>> => Head(todo).do \in Endings /\ Last = Head(todo)
           /\ t # <<>> =>
                /\ Follows(Head(todo), Head(t)) /\ Belongs(Head(t), Last)
                /\ Head(t) \in FileSteps /\ t[Len(t)] = Last
                /\ Head(todo).do \in BlockDeeds \cup RestoreDeeds =>
                       AheadOf(todo) = IF Head(t).do \in Landings THEN Head(t).do ELSE AheadOf(t)
<1>1. Chained(todo) /\ Chained(t) /\ todo \in Seq(FileSteps) /\ t \in Seq(FileSteps)
  BY TailChained DEF Struct, Chained
<1>2. CASE t = <<>>
  BY <1>1, <1>2, TailChained, Zenon DEF Last
<1>3. CASE t # <<>>
  <2>1. Follows(Head(todo), Head(t)) /\ t[Len(t)] = Last
    BY <1>1, <1>3, TailChained DEF Last
  <2>2. Head(t) \in FileSteps /\ Belongs(Head(t), t[Len(t)])
    BY <1>1, <1>3, TailChained, Zenon
  <2>3. ASSUME Head(todo).do \in BlockDeeds \cup RestoreDeeds
        PROVE  AheadOf(todo) = IF Head(t).do \in Landings THEN Head(t).do ELSE AheadOf(t)
    <3>1. Head(todo).do \notin Landings
      BY <2>3, BlocksLandNot
    <3>2. CASE Head(t).do \in Landings
      <4>1. FromLanding(t) # <<>> /\ Head(FromLanding(t)) = Head(t)
        BY <1>1, <1>3, <3>2, LandingHere
      <4>2. FromLanding(todo) # <<>> /\ Head(FromLanding(todo)) = Head(t)
        BY <1>1, <3>1, <4>1, LandingAfter
      <4> QED
        BY <3>2, <4>2 DEF AheadOf
    <3>3. CASE Head(t).do \notin Landings
      <4>1. Head(t).do \in BlockDeeds \cup RestoreDeeds
        BY <2>1, <2>3, <3>3 DEF Follows, FollowsHere, FollowsThere, BlockDeeds, RestoreDeeds, Landings
      <4>2. Lands(t)
        BY <1>1, <1>3, <4>1, LandsAhead DEF Landed
      <4>3. FromLanding(t) # <<>>
        BY <4>2 DEF Lands
      <4>4. FromLanding(todo) # <<>> /\ Head(FromLanding(todo)) = Head(FromLanding(t))
        BY <1>1, <3>1, <4>3, LandingAfter
      <4> QED
        BY <3>3, <4>3, <4>4 DEF AheadOf
    <3> QED
      BY <3>2, <3>3
  <2> QED
    BY <1>3, <2>1, <2>2, <2>3
<1> QED
  BY <1>2, <1>3

\* The step that comes next is one of the same path, or another path is entered or left.
LEMMA ComesPlain ==
    ASSUME Stands, NEW p, p = Path, NEW t, t = Tail(todo), t # <<>>
    PROVE  /\ Follows(Head(todo), Head(t)) /\ Head(t) \in FileSteps /\ t[Len(t)].do # "renamed"
           /\ Head(t).do \notin PairDeeds \cup TargetDeeds
           /\ Head(t).do \in {"enter", "open"} => Head(t).flags \in ClientFlags
<1>1. Struct /\ todo # <<>> /\ Last.do # "renamed"
  BY DEF Stands
<1>2. /\ Follows(Head(todo), Head(t)) /\ Belongs(Head(t), Last) /\ Head(t) \in FileSteps
      /\ t[Len(t)] = Last
  BY <1>1, Comes
<1> QED
  BY <1>1, <1>2 DEF Belongs

\* A file is backed up.
LEMMA BlockReaches ==
    ASSUME Stands, FilesIInv', NEW p, p = Path, NEW t, t = todo', Proceeds,
           Head(todo).do \in BlockDeeds, UNCHANGED <<fds, failed, worth, loose, trouble>>,
           \/ Doing("copy_to_backup") /\ Creates(Backup(p), Content(p))
           \/ Doing("sync_copy_name") /\ SyncName(Backup(p))
           \/ Doing("label") /\ Becomes(names[Primary(p)], Sealed(Content(p)))
           \/ Doing("label_backup") /\ Becomes(names[Backup(p)], Sealed(At(Backup(p)).data))
           \/ Doing("sync_backup") /\ SyncFile(Backup(p))
    PROVE  Reached(p, t)' /\ (p \notin loose' => Safe(p)') /\ t # <<>> /\ t[Len(t)].do # "renamed"
<1>0. PICK l : l = Ahead
  OBVIOUS
<1> DEFINE d == Head(todo).do
           u == Head(t)
<1>1. /\ Disk /\ Disk' /\ Injective /\ p \in Paths /\ Steady /\ Block(p, d, l) /\ ~failed'
      /\ p \notin loose => Safe(p)
  <2>1. Block(p, d, l)
    BY <1>0 DEF Stands, Place
  <2>2. ~failed
    BY BlocksLandNot DEF Stands
  <2> QED
    BY <2>1, <2>2 DEF Stands, FilesIInv, Steady
<1>2. t = Tail(todo) /\ todo # <<>> /\ Struct
  BY DEF Proceeds, Stands
<1>3. t # <<>>
  BY <1>2, Comes DEF Endings, BlockDeeds
<1>4. /\ Follows(Head(todo), u) /\ t[Len(t)].do # "renamed" /\ u.do \notin PairDeeds \cup TargetDeeds
      /\ l = IF u.do \in Landings THEN u.do ELSE AheadOf(t)
  BY <1>0, <1>2, <1>3, Comes, ComesPlain DEF Ahead
<1>5. u.at = p
  BY <1>4 DEF Follows, FollowsThere, BlockDeeds, PairDeeds, Path
<1> HIDE DEF u
<1>6. ASSUME NEW e \in BlockDeeds, u.do = e, Block(p, e, l)' PROVE Reached(p, t)'
  <2>1. AheadOf(t) = l
    BY <1>4, <1>6, BlocksLandNot
  <2>2. Place(p, e, l, u.flags)'
    BY <1>6 DEF Place, RestDeeds, BlockDeeds, RestoreDeeds
  <2> QED
    BY <1>1, <1>3, <1>5, <1>6, <2>1, <2>2 DEF Reached, u
<1>7. CASE d = "copy_to_backup"
  <2>1. Block(p, "sync_copy_name", l)' /\ (p \notin loose /\ Safe(p) => Safe(p)')
    BY <1>1, <1>7, CopiedBlock DEF Doing
  <2>2. u.do = "sync_copy_name"
    BY <1>4, <1>7 DEF Follows, FollowsHere, FollowsThere
  <2> QED
    BY <1>1, <1>3, <1>4, <1>6, <2>1, <2>2 DEF BlockDeeds
<1>8. CASE d = "sync_copy_name"
  <2>1. Block(p, "label", l)' /\ (p \notin loose /\ Safe(p) => Safe(p)')
    BY <1>1, <1>8, CopySynced DEF Doing
  <2>2. u.do = "label"
    BY <1>4, <1>8 DEF Follows, FollowsHere, FollowsThere
  <2> QED
    BY <1>1, <1>3, <1>4, <1>6, <2>1, <2>2 DEF BlockDeeds
<1>9. CASE d = "label"
  <2>1. Block(p, "label_backup", l)' /\ (p \notin loose /\ Safe(p) => Safe(p)')
    BY <1>1, <1>9, LabelledBlock DEF Doing
  <2>2. u.do = "label_backup"
    BY <1>4, <1>9 DEF Follows, FollowsHere, FollowsThere
  <2> QED
    BY <1>1, <1>3, <1>4, <1>6, <2>1, <2>2 DEF BlockDeeds
<1>10. CASE d = "label_backup"
  <2>1. Block(p, "sync_backup", l)' /\ (p \notin loose /\ Safe(p) => Safe(p)')
    BY <1>1, <1>10, LabelledBackup DEF Doing
  <2>2. u.do = "sync_backup"
    BY <1>4, <1>10 DEF Follows, FollowsHere, FollowsThere
  <2> QED
    BY <1>1, <1>3, <1>4, <1>6, <2>1, <2>2 DEF BlockDeeds
<1>11. CASE d = "sync_backup"
  <2>1. u.do \in {"tracked", "refreshed", "closed", "discarded"}
    BY <1>4, <1>11 DEF Follows, FollowsHere, FollowsThere, PairDeeds
  <2>2. l = u.do
    BY <1>4, <2>1 DEF Landings
  <2>3. /\ Begun(p, l)' /\ (p \notin loose /\ Safe(p) => Safe(p)')
        /\ Rest(p)' /\ MayOpen(p, FALSE)' /\ HasMatchingBackup(p)'
    BY <1>1, <1>11, <2>1, <2>2, BackupSynced DEF Doing
  <2>4. u.do = "closed" =>
            /\ At(Primary(p))' = Sealed(Content(p)') /\ Now(Primary(p))' = {Sealed(Content(p)')}
            /\ Exists(Primary(p))'
    BY <2>2, <2>3 DEF Begun, Sealed
  <2>5. Place(p, u.do, AheadOf(t), u.flags)'
    BY <2>1, <2>3, <2>4 DEF Place, BlockDeeds, RestoreDeeds, Sealed
  <2> QED
    BY <1>1, <1>3, <1>4, <1>5, <2>3, <2>5 DEF Reached, u
<1> QED
  BY <1>7, <1>8, <1>9, <1>10, <1>11 DEF BlockDeeds

\* A file is restored.
LEMMA RestoreReaches ==
    ASSUME Stands, FilesIInv', NEW p, p = Path, NEW t, t = todo', Proceeds,
           Head(todo).do \in RestoreDeeds, UNCHANGED <<fds, failed, worth, loose, trouble>>,
           \/ /\ Doing("copy_to_primary") /\ Validates(At(Backup(p)))
              /\ Creates(Primary(p), At(Backup(p)).data)
           \/ Doing("sync_restored_name") /\ SyncName(Primary(p))
           \/ Doing("label_restored") /\ Becomes(names[Primary(p)], Sealed(Content(p)))
           \/ Doing("sync_restored") /\ SyncFile(Primary(p))
           \/ Doing("sync_name_again") /\ SyncName(Primary(p))
    PROVE  Reached(p, t)' /\ (p \notin loose' => Safe(p)') /\ t # <<>> /\ t[Len(t)].do # "renamed"
<1> DEFINE d == Head(todo).do
           u == Head(t)
<1>1. /\ Disk /\ Disk' /\ Injective /\ p \in Paths /\ Steady /\ ~failed'
      /\ p \notin loose => Safe(p)
      /\ d = "copy_to_primary" => Rest(p)
      /\ d # "copy_to_primary" => Restoring(p, d)
  <2>1. /\ d = "copy_to_primary" => Rest(p)
        /\ d # "copy_to_primary" => Restoring(p, d)
    BY DEF Stands, Place, RestDeeds
  <2>2. ~failed
    BY BlocksLandNot DEF Stands
  <2> QED
    BY <2>1, <2>2 DEF Stands, FilesIInv, Steady
<1>2. t = Tail(todo) /\ todo # <<>> /\ Struct
  BY DEF Proceeds, Stands
<1>3. t # <<>>
  BY <1>2, Comes DEF Endings, RestoreDeeds
<1>4. Follows(Head(todo), u) /\ t[Len(t)].do # "renamed" /\ u.do \notin PairDeeds \cup TargetDeeds
  BY <1>2, <1>3, ComesPlain
<1>5. u.at = p
  BY <1>4 DEF Follows, FollowsThere, RestoreDeeds, Path
<1> HIDE DEF u
<1>6. ASSUME NEW e \in RestoreDeeds \ {"copy_to_primary"}, u.do = e, Restoring(p, e)'
      PROVE  Reached(p, t)'
  <2>2. Place(p, e, AheadOf(t), u.flags)'
    BY <1>6 DEF Place, RestDeeds, BlockDeeds, RestoreDeeds
  <2> QED
    BY <1>1, <1>3, <1>5, <1>6, <2>2 DEF Reached, u
<1>7. CASE d = "copy_to_primary"
  <2>1. Restoring(p, "sync_restored_name")' /\ (p \notin loose /\ Safe(p) => Safe(p)')
    <3>1. \E w : Resting(p, w)
      BY <1>1, <1>7 DEF Rest
    <3> QED
      BY <1>1, <1>7, <3>1, CopiedBack DEF Doing
  <2>2. u.do = "sync_restored_name"
    BY <1>4, <1>7 DEF Follows, FollowsHere, FollowsThere
  <2> QED
    BY <1>1, <1>3, <1>4, <1>6, <2>1, <2>2 DEF RestoreDeeds
<1>8. CASE d = "sync_restored_name"
  <2>1. Restoring(p, "label_restored")' /\ (p \notin loose /\ Safe(p) => Safe(p)')
    BY <1>1, <1>8, RestoredName DEF Doing
  <2>2. u.do = "label_restored"
    BY <1>4, <1>8 DEF Follows, FollowsHere, FollowsThere
  <2> QED
    BY <1>1, <1>3, <1>4, <1>6, <2>1, <2>2 DEF RestoreDeeds
<1>9. CASE d = "label_restored"
  <2>1. Restoring(p, "sync_restored")' /\ (p \notin loose /\ Safe(p) => Safe(p)')
    BY <1>1, <1>9, LabelledBack DEF Doing
  <2>2. u.do = "sync_restored"
    BY <1>4, <1>9 DEF Follows, FollowsHere, FollowsThere
  <2> QED
    BY <1>1, <1>3, <1>4, <1>6, <2>1, <2>2 DEF RestoreDeeds
<1>10. CASE d = "sync_restored"
  <2>1. Restoring(p, "sync_name_again")' /\ (p \notin loose /\ Safe(p) => Safe(p)')
    BY <1>1, <1>10, RestoredFile DEF Doing
  <2>2. u.do = "sync_name_again"
    BY <1>4, <1>10 DEF Follows, FollowsHere, FollowsThere
  <2> QED
    BY <1>1, <1>3, <1>4, <1>6, <2>1, <2>2 DEF RestoreDeeds
<1>11. CASE d = "sync_name_again"
  <2>1. u.do \in {"restored", "tracked"}
    BY <1>4, <1>11 DEF Follows, FollowsHere, FollowsThere
  <2>3. Rest(p)' /\ MayOpen(p, FALSE)' /\ (p \notin loose /\ Safe(p) => Safe(p)')
    BY <1>1, <1>11, RestoredAgain DEF Doing
  <2>5. Place(p, u.do, AheadOf(t), u.flags)'
    BY <2>1, <2>3 DEF Place, BlockDeeds, RestoreDeeds
  <2> QED
    BY <1>1, <1>3, <1>4, <1>5, <2>3, <2>5 DEF Reached, u
<1> QED
  BY <1>7, <1>8, <1>9, <1>10, <1>11 DEF RestoreDeeds

\* Nothing happens to what a path promises.
LEMMA Unmoved ==
    ASSUME UNCHANGED diskVars, UNCHANGED <<fds, worth, loose, trouble>>, NEW p \in Paths
    PROVE  /\ Rest(p)' <=> Rest(p)
           /\ \A w : Resting(p, w)' <=> Resting(p, w)
           /\ Exists(Primary(p))' <=> Exists(Primary(p))
           /\ \A f : MayOpen(p, f)' <=> MayOpen(p, f)
           /\ \A d, l : Block(p, d, l)' <=> Block(p, d, l)
           /\ Safe(p)' <=> Safe(p)
           /\ Closed(p)' <=> Closed(p)
<1> USE DEF diskVars
<1>1. \A w : Resting(p, w)' <=> Resting(p, w)
  BY DEF Resting, Watched, Kept, Labels, Uniform, Flush, Ready, Own, Durable, Now, Left, At, Exists,
         Content, Validates
<1>2. Rest(p)' <=> Rest(p)
  <2>1. Writer(p)' = Writer(p)
    BY DEF Writer
  <2>2. CASE Writer(p)
    BY <1>1, <2>1, <2>2, RestIs, RestIsNext
  <2>3. CASE ~Writer(p)
    BY <1>1, <2>1, <2>3, RestIs, RestIsNext
  <2> QED
    BY <2>2, <2>3
<1>3. \A f : MayOpen(p, f)' <=> MayOpen(p, f)
  BY DEF MayOpen, Kept, Ready, At, Exists, Content, Validates
<1>4. \A l : Begun(p, l)' <=> Begun(p, l)
  BY DEF Begun, Watched, Own, Labels, Uniform, Writer, Durable, Now, Left, At, Exists, Content
<1>5. \A d, l : Block(p, d, l)' <=> Block(p, d, l)
  BY <1>4 DEF Block, Still, Newest, Now, Left, At, Exists, Content, Validates
<1>6. Safe(p)' <=> Safe(p)
  BY DEF Safe, Trusts, Reach, Left
<1>7. Closed(p)' <=> Closed(p)
  BY DEF Closed
<1>8. Exists(Primary(p))' <=> Exists(Primary(p))
  BY DEF Exists
<1> QED
  BY <1>1, <1>2, <1>3, <1>5, <1>6, <1>7, <1>8

\* What is left of a path that goes on.
LEMMA PathGoesOn ==
    ASSUME Stands, NEW p, p = Path, NEW t, t = Tail(todo),
           Head(todo).do \notin {"enter", "open", "match"}
    PROVE  t # <<>> => /\ Head(t).at = p /\ FollowsHere(Head(todo), Head(t))
                       /\ t[Len(t)].do # "renamed"
<1> HAVE t # <<>>
<1>1. /\ Follows(Head(todo), Head(t)) /\ t[Len(t)].do # "renamed"
      /\ Head(t).do \notin PairDeeds \cup TargetDeeds
  BY ComesPlain
<1>2. Head(todo).do # "after_move" /\ Head(todo).do # "move"
  <2>1. Belongs(Head(todo), Last) /\ Last.do # "renamed"
    BY TailChained DEF Stands, Struct, Last
  <2> QED
    BY <2>1 DEF Belongs, TargetDeeds, PairDeeds
<1>3. ~FollowsThere(Head(todo), Head(t))
  BY <1>1, <1>2 DEF FollowsThere, PairDeeds, TargetDeeds
<1> QED
  BY <1>1, <1>3 DEF Follows, Path

\* A file is given its checksum.
LEMMA ChecksumReaches ==
    ASSUME Stands, FilesIInv', NEW p, p = Path, NEW t, t = todo', Doing("checksum"), Label
    PROVE  Reached(p, t)' /\ (p \notin loose' => Safe(p)') /\ t # <<>> /\ t[Len(t)].do # "renamed"
<1>1. /\ Disk /\ Disk' /\ Injective /\ p \in Paths /\ (p \notin loose => Safe(p)) /\ ~failed
      /\ Exists(Primary(p)) /\ Resting(p, TRUE) /\ worth \in [Paths -> SUBSET (Whole \cup {"missing"})]
  BY DEF Stands, FilesIInv, ClientTypeOK, Doing, Landings, Place
<1>2. /\ Becomes(names[Primary(p)], Sealed(Content(p))) /\ trouble' = trouble
      /\ worth'[p] = worth[p] \cup ({Content(p)} \cap Whole)
      /\ loose' = IF Content(p) \in Whole THEN loose ELSE loose \cup {p}
      /\ t = Tail(todo) /\ ~failed'
  BY <1>1 DEF Label, Doing, DoingOneOf, Checksums, Sealed, Proceeds
<1>3. Summed(p)' /\ (p \notin loose' => Safe(p)')
  BY <1>1, <1>2, Checksummed
<1>4. t # <<>>
  BY <1>2, Comes DEF Endings, Doing, Stands
<1>5. Head(t).at = p /\ Head(t).do = "sync" /\ t[Len(t)].do # "renamed"
  BY <1>2, <1>4, PathGoesOn DEF FollowsHere, Doing
<1>6. Place(p, "sync", AheadOf(t), Head(t).flags)'
  BY <1>3 DEF Place, RestDeeds, BlockDeeds, RestoreDeeds
<1> QED
  BY <1>2, <1>3, <1>4, <1>5, <1>6 DEF Reached

\* A file that has its checksum is flushed.
LEMMA SyncReaches ==
    ASSUME Stands, FilesIInv', NEW p, p = Path, NEW t, t = todo', Doing("sync"), Sync
    PROVE  Reached(p, t)' /\ (p \notin loose' => Safe(p)') /\ t # <<>> /\ t[Len(t)].do # "renamed"
<1>1. /\ Disk /\ Disk' /\ Injective /\ p \in Paths /\ (p \notin loose => Safe(p)) /\ ~failed
      /\ Summed(p)
  BY DEF Stands, FilesIInv, Doing, Landings, Place
<1>2. SyncFile(Primary(p)) /\ Steady /\ t = Tail(todo) /\ ~failed'
  BY <1>1 DEF Sync, Doing, DoingOneOf, Steady, promiseVars, Proceeds
<1>3. /\ Summed(p)' /\ Now(Primary(p))' = {Sealed(Content(p)')}
      /\ (p \notin loose' => Safe(p)')
  BY <1>1, <1>2, SummedSynced DEF Steady
<1>4. t # <<>>
  BY <1>2, Comes DEF Endings, Doing, Stands
<1>5. Head(t).at = p /\ Head(t).do = "refresh" /\ t[Len(t)].do # "renamed"
  BY <1>2, <1>4, PathGoesOn DEF FollowsHere, Doing
<1>6. Place(p, "refresh", AheadOf(t), Head(t).flags)'
  BY <1>3 DEF Place, RestDeeds, BlockDeeds, RestoreDeeds, Sealed
<1> QED
  BY <1>2, <1>3, <1>4, <1>5, <1>6 DEF Reached

\* The backup of a file is made anew, or is the same.
LEMMA RefreshReaches ==
    ASSUME Stands, FilesIInv', NEW p, p = Path, NEW t, t = todo', Refresh
    PROVE  Reached(p, t)' /\ (p \notin loose' => Safe(p)') /\ t # <<>> /\ t[Len(t)].do # "renamed"
<1>1. /\ Disk /\ p \in Paths /\ (p \notin loose => Safe(p)) /\ ~failed /\ Struct /\ todo # <<>>
      /\ Head(todo).do = "refresh" /\ Head(todo).at = p
      /\ Summed(p) /\ Now(Primary(p)) = {Sealed(Content(p))}
  BY DEF Stands, FilesIInv, Refresh, Doing, Landings, Place, Path
<1>2. /\ t = RefreshBackupIfNeeded(p) \o Tail(todo) /\ ~failed'
      /\ UNCHANGED diskVars /\ UNCHANGED <<fds, worth, loose, trouble>>
  BY <1>1 DEF Refresh, promiseVars
<1>3. /\ Chained(t) /\ t # <<>> /\ t[Len(t)] = Last
      /\ Tail(todo) # <<>> /\ Head(Tail(todo)).do \in {"closed", "discarded"}
      /\ Head(Tail(todo)).at = p
      /\ IF HasMatchingBackup(p) THEN t = Tail(todo)
         ELSE /\ Head(t).do = "copy_to_backup" /\ Head(t).at = p
              /\ AheadOf(t) = Head(Tail(todo)).do
  BY <1>1, <1>2, RefreshChained, Zenon DEF Struct, Last
<1>4. t[Len(t)].do # "renamed" /\ (p \notin loose' => Safe(p)')
  BY <1>1, <1>2, <1>3, Unmoved DEF Stands
<1>5. /\ HasMatchingBackup(p) => Rest(p)
      /\ Block(p, "copy_to_backup", "closed") /\ Block(p, "copy_to_backup", "discarded")
  BY <1>1, SummedRests
<1>6. CASE HasMatchingBackup(p)
  <2>1. /\ Rest(p)' /\ At(Primary(p))' = Sealed(Content(p)') /\ Exists(Primary(p))'
        /\ Now(Primary(p))' = {Sealed(Content(p)')} /\ HasMatchingBackup(p)'
    <3>1. Rest(p)' /\ Exists(Primary(p))'
      BY <1>1, <1>2, <1>5, <1>6, Unmoved DEF Summed
    <3>2. \A n \in Names : Same(n)
      BY <1>2, NoEffect
    <3>3. /\ At(Primary(p))' = At(Primary(p)) /\ At(Backup(p))' = At(Backup(p))
          /\ Now(Primary(p))' = Now(Primary(p))
      BY <1>1, <3>2, NamesAre DEF Same
    <3> QED
      BY <1>1, <1>6, <3>1, <3>3 DEF Summed, HasMatchingBackup, Content
  <2>2. Place(p, Head(t).do, AheadOf(t), Head(t).flags)'
    BY <1>3, <1>6, <2>1 DEF Place, RestDeeds, BlockDeeds, RestoreDeeds, Sealed
  <2> QED
    BY <1>2, <1>3, <1>4, <1>6, <2>2 DEF Reached
<1>7. CASE ~HasMatchingBackup(p)
  <2>1. Block(p, "copy_to_backup", AheadOf(t))
    BY <1>3, <1>5, <1>7
  <2>2. PICK l : l = AheadOf(t)
    OBVIOUS
  <2>3. Block(p, "copy_to_backup", l)'
    BY <1>1, <1>2, <2>1, <2>2, Unmoved
  <2>4. Place(p, "copy_to_backup", l, Head(t).flags)'
    BY <2>3 DEF Place, RestDeeds, BlockDeeds, RestoreDeeds
  <2> QED
    BY <1>2, <1>3, <1>4, <1>7, <2>2, <2>4 DEF Reached
<1> QED
  BY <1>6, <1>7

\* A copy is filled.
LEMMA FillReaches ==
    ASSUME Stands, FilesIInv', NEW p, p = Path, NEW t, t = todo', Fill
    PROVE  Reached(p, t)' /\ (p \notin loose' => Safe(p)') /\ t # <<>> /\ t[Len(t)].do # "renamed"
<1> DEFINE f(c) == [At(Primary(p)) EXCEPT !.data = c]
<1>1. /\ Disk /\ Disk' /\ Injective /\ p \in Paths /\ (p \notin loose => Safe(p)) /\ ~failed
      /\ Exists(Primary(p)) /\ Resting(p, TRUE) /\ t = Tail(todo) /\ todo # <<>> /\ ~failed'
      /\ UNCHANGED <<fds, worth, loose, trouble>>
      /\ Head(todo).do \in {"fill_in_part", "fill", "copy_context"}
  BY DEF Stands, FilesIInv, Fill, Doing, Landings, Place, promiseVars, Proceeds
<1>2. inodes[names[Primary(p)]] = At(Primary(p))
  BY <1>1 DEF At
<1>3. \/ UNCHANGED diskVars
      \/ Becomes(names[Primary(p)], f("part"))
      \/ Doing("fill") /\ Becomes(names[Primary(p)], f(Content(Head(todo).to)))
  BY <1>2 DEF Fill
<1>4. \/ UNCHANGED diskVars \/ \E d \in Data : Becomes(names[Primary(p)], f(d))
  <2>1. "part" \in Data
    BY DEF Data
  <2>2. Doing("fill") => Content(Head(todo).to) \in Data
    <3> HAVE Doing("fill")
    <3>1. Head(todo).to \in There
      BY HeadIs DEF Needs, Doing, Stands, FilesIInv
    <3> QED
      BY <1>1, <3>1, ContentIs
  <2> HIDE DEF f
  <2> QED
    BY <1>3, <2>1, <2>2
<1>5. Exists(Primary(p))' /\ Resting(p, TRUE)' /\ (p \notin loose' => Safe(p)')
  <2>1. CASE UNCHANGED diskVars
    BY <1>1, <2>1, Unmoved
  <2>2. ASSUME NEW d \in Data, Becomes(names[Primary(p)], f(d))
        PROVE  Exists(Primary(p))' /\ Resting(p, TRUE)' /\ (p \notin loose' => Safe(p)')
    <3>1. Kept(p) => Ready(p)
      BY <1>1 DEF Resting
    <3>2. Exists(Primary(p))' /\ Resting(p, TRUE)' /\ (p \notin loose /\ Safe(p) => Safe(p)')
      BY <1>1, <2>2, <3>1, Overwritten
    <3> QED
      BY <1>1, <3>2
  <2> QED
    BY <1>4, <2>1, <2>2
<1>6. t # <<>>
  BY <1>1, Comes DEF Endings, Stands
<1>7. Head(t).at = p /\ Head(t).do \in {"fill", "copy_context", "filled"} /\ t[Len(t)].do # "renamed"
  BY <1>1, <1>6, PathGoesOn DEF FollowsHere
<1>8. Place(p, Head(t).do, AheadOf(t), Head(t).flags)'
  BY <1>5, <1>7 DEF Place, RestDeeds, BlockDeeds, RestoreDeeds
<1> QED
  BY <1>1, <1>5, <1>6, <1>7, <1>8 DEF Reached

\* A copy that was filled is closed, or closed and deleted.
LEMMA FilledReaches ==
    ASSUME Stands, FilesIInv', NEW p, p = Path, NEW t, t = todo', Filled
    PROVE  Reached(p, t)' /\ (p \notin loose' => Safe(p)') /\ t # <<>> /\ t[Len(t)].do # "renamed"
<1>1. /\ Disk /\ p \in Paths /\ (p \notin loose => Safe(p)) /\ ~failed' /\ todo # <<>>
      /\ Exists(Primary(p)) /\ Resting(p, TRUE) /\ Head(todo).do = "filled"
      /\ UNCHANGED diskVars /\ UNCHANGED <<fds, worth, trouble>>
      /\ loose' = IF failed THEN loose \cup {p} ELSE loose
      /\ IF failed THEN t = Labelling(p) \o <<Step("discarded", p)>> \o Deleting(p) ELSE t = Tail(todo)
  BY DEF Stands, FilesIInv, Filled, Doing, Place, Proceeds
<1>2. Exists(Primary(p))' /\ Resting(p, TRUE)' /\ (p \notin loose' => Safe(p)')
  <2>1. CASE failed
    <3>1. Resting(p, TRUE)'
      BY <1>1, <2>1, LooseRests
    <3> QED
      BY <1>1, <2>1, <3>1 DEF Exists, diskVars
  <2>2. CASE ~failed
    BY <1>1, <2>2, Unmoved
  <2> QED
    BY <2>1, <2>2
<1>3. t # <<>> /\ Head(t).at = p /\ Head(t).do = "checksum" /\ t[Len(t)].do # "renamed"
  <2>1. CASE failed
    <3> DEFINE o == Labelling(p) \o <<Step("discarded", p)>> \o Deleting(p)
    <3>1. o # <<>> /\ Head(o).at = p /\ Head(o).do = "checksum" /\ o[Len(o)].do = "deleted"
      BY <1>1, DiscardingChained
    <3>2. t = o
      BY <1>1, <2>1
    <3> HIDE DEF o
    <3> QED
      BY <3>1, <3>2
  <2>2. CASE ~failed
    <3>1. t # <<>>
      BY <1>1, <2>2, Comes DEF Endings, Stands
    <3> QED
      BY <1>1, <2>2, <3>1, PathGoesOn DEF FollowsHere
  <2> QED
    BY <2>1, <2>2
<1>4. Place(p, "checksum", AheadOf(t), Head(t).flags)'
  BY <1>2 DEF Place, RestDeeds, BlockDeeds, RestoreDeeds
<1> QED
  BY <1>1, <1>2, <1>3, <1>4 DEF Reached

\* The client is told that a file is as it was closed.
LEMMA CloseReaches ==
    ASSUME Stands, FilesIInv', NEW p, p = Path, NEW t, t = todo', CloseDone
    PROVE  Reached(p, t)' /\ (p \notin loose' => Safe(p)' /\ (p \in loose => Apart(p)'))
           /\ (t # <<>> => t[Len(t)].do # "renamed")
<1>1. /\ Disk /\ Injective /\ p \in Paths /\ (p \notin loose => Safe(p)) /\ ~failed' /\ todo # <<>>
      /\ Rest(p) /\ Head(todo).do = "closed" /\ t = Tail(todo)
      /\ UNCHANGED diskVars /\ UNCHANGED <<fds, trouble>>
      /\ \/ failed
         \/ /\ At(Primary(p)) = Sealed(Content(p)) /\ Now(Primary(p)) = {Sealed(Content(p))}
            /\ HasMatchingBackup(p) /\ Exists(Primary(p))
      /\ \/ ~failed /\ Keeps(p, Content(p))
         \/ UNCHANGED <<worth, loose>>
      /\ worth \in [Paths -> SUBSET (Whole \cup {"missing"})]
  BY DEF Stands, FilesIInv, ClientTypeOK, CloseDone, Doing, Place, Proceeds, RestDeeds
<1>2. Rest(p)' /\ (p \notin loose' => Safe(p)' /\ (p \in loose => Apart(p)'))
  <2>1. CASE UNCHANGED <<worth, loose>>
    BY <1>1, <2>1, Unmoved
  <2>2. CASE ~failed /\ Keeps(p, Content(p))
    <3>1. PICK w \in BOOLEAN : w = Writer(p) /\ Resting(p, w)
      BY <1>1 DEF Rest, Writer
    <3>2. Content(p) # "none" /\ Exists(Primary(p))
      BY <1>1, <2>2, PlainIs
    <3>3. PICK c : c = Content(p)
      OBVIOUS
    <3>4. /\ Resting(p, w)'
          /\ p \notin loose' => Safe(p)' /\ Apart(p)'
      BY <1>1, <2>2, <3>1, <3>2, <3>3, KeepsRests
    <3>5. Writer(p)' = Writer(p)
      BY <1>1 DEF Writer, diskVars
    <3>6. Rest(p)'
      BY <1>1, <3>1, <3>4, <3>5, RestIsNext
    <3> QED
      BY <3>4, <3>6
  <2> QED
    BY <1>1, <2>1, <2>2
<1>3. t # <<>> => Head(t).at = p /\ Head(t).do = "match" /\ t[Len(t)].do # "renamed"
  BY <1>1, PathGoesOn DEF FollowsHere
<1>4. Place(p, "match", AheadOf(t), Head(t).flags)'
  BY <1>2 DEF Place, RestDeeds, BlockDeeds, RestoreDeeds
<1> QED
  BY <1>1, <1>2, <1>3, <1>4 DEF Reached

\* The client is told that there is no file any more.
LEMMA DeletedReaches ==
    ASSUME Stands, FilesIInv', NEW p, p = Path, NEW t, t = todo', Deleted
    PROVE  Reached(p, t)' /\ (p \notin loose' => Safe(p)' /\ (p \in loose => Apart(p)'))
           /\ (t # <<>> => t[Len(t)].do # "renamed")
<1>1. /\ Disk /\ Injective /\ p \in Paths /\ (p \notin loose => Safe(p)) /\ ~failed' /\ todo # <<>>
      /\ Rest(p) /\ Head(todo).do = "deleted" /\ t = Tail(todo) /\ Descriptors
      /\ UNCHANGED diskVars /\ UNCHANGED <<fds, trouble>>
      /\ \/ failed
         \/ ~Exists(Primary(p)) /\ ~Exists(Backup(p)) /\ Durable(Primary(p)) /\ Durable(Backup(p))
      /\ \/ ~failed /\ Keeps(p, "missing")
         \/ UNCHANGED <<worth, loose>>
      /\ worth \in [Paths -> SUBSET (Whole \cup {"missing"})]
  BY DEF Stands, FilesIInv, ClientTypeOK, Deleted, Doing, Place, Proceeds, RestDeeds
<1>2. Rest(p)' /\ (p \notin loose' => Safe(p)' /\ (p \in loose => Apart(p)'))
  <2>1. CASE UNCHANGED <<worth, loose>>
    BY <1>1, <2>1, Unmoved
  <2>2. CASE ~failed /\ Keeps(p, "missing")
    <3>1. ~Writer(p) /\ ~Writer(p)'
      BY <1>1, <2>2 DEF Writer, Descriptors, Exists, diskVars
    <3>2. Resting(p, FALSE)
      BY <1>1, <3>1, RestIs
    <3>4. /\ Resting(p, FALSE)'
          /\ p \notin loose' => Safe(p)' /\ Apart(p)'
      BY <1>1, <2>2, <3>2, KeepsRests
    <3>6. Rest(p)'
      BY <1>1, <3>1, <3>4, RestIsNext
    <3> QED
      BY <3>4, <3>6
  <2> QED
    BY <1>1, <2>1, <2>2
<1>3. t = <<>>
  BY <1>1, PathGoesOn DEF FollowsHere
<1> QED
  BY <1>2, <1>3 DEF Reached

\* A file and its backup are deleted.
LEMMA UnlinkReaches ==
    ASSUME Stands, FilesIInv', NEW p, p = Path, NEW t, t = todo',
           \/ Unlink
           \/ DoingOneOf({"sync_unlink", "sync_unlink_backup"}) /\ Sync
    PROVE  Reached(p, t)' /\ (p \notin loose' => Safe(p)') /\ t # <<>> /\ t[Len(t)].do # "renamed"
<1> DEFINE d == Head(todo).do
<1>1. /\ Disk /\ Disk' /\ Injective /\ p \in Paths /\ (p \notin loose => Safe(p))
      /\ t = Tail(todo) /\ todo # <<>> /\ UNCHANGED <<fds, failed, loose, trouble>>
      /\ d \in {"unlink", "unlink_backup", "sync_unlink", "sync_unlink_backup"}
      /\ d \in {"sync_unlink", "unlink_backup", "sync_unlink_backup"} => Gone(p, d)
      /\ d # "unlink" => Steady
  BY DEF Stands, FilesIInv, Unlink, Sync, Doing, DoingOneOf, Place, promiseVars, Proceeds, Steady
<1>2. ~failed /\ ~failed'
  BY <1>1 DEF Stands, Landings
<1>3. t # <<>>
  BY <1>1, Comes DEF Endings, Stands
<1>4. Head(t).at = p /\ FollowsHere(Head(todo), Head(t)) /\ t[Len(t)].do # "renamed"
  BY <1>1, <1>3, PathGoesOn
<1>5. ASSUME NEW e \in {"sync_unlink", "unlink_backup", "sync_unlink_backup"}, Head(t).do = e, Gone(p, e)'
      PROVE  Reached(p, t)'
  <2>1. Place(p, e, AheadOf(t), Head(t).flags)'
    BY <1>5 DEF Place, RestDeeds, BlockDeeds, RestoreDeeds
  <2> QED
    BY <1>2, <1>3, <1>4, <1>5, <2>1 DEF Reached
<1>6. CASE d = "unlink"
  <2>1. Unlinks(Primary(p)) /\ worth'[p] = worth[p] \cup {"missing"}
    BY <1>1, <1>6 DEF Unlink, Doing, DoingOneOf, Stands, FilesIInv, ClientTypeOK
  <2>2. Gone(p, "sync_unlink")' /\ (p \notin loose' => Safe(p)')
    BY <1>1, <2>1, UnlinkedPrimary
  <2>3. Head(t).do = "sync_unlink"
    BY <1>4, <1>6 DEF FollowsHere
  <2> QED
    BY <1>3, <1>4, <1>5, <2>2, <2>3
<1>7. CASE d = "sync_unlink"
  <2>1. SyncName(Primary(p))
    BY <1>1, <1>7 DEF Sync, Unlink, Doing, DoingOneOf
  <2>2. Gone(p, "unlink_backup")' /\ (p \notin loose' => Safe(p)')
    BY <1>1, <1>7, <2>1, UnlinkedSynced
  <2>3. Head(t).do = "unlink_backup"
    BY <1>4, <1>7 DEF FollowsHere
  <2> QED
    BY <1>3, <1>4, <1>5, <2>2, <2>3
<1>8. CASE d = "unlink_backup"
  <2>1. Unlinks(Backup(p))
    BY <1>1, <1>8 DEF Unlink, Doing, DoingOneOf
  <2>2. Gone(p, "sync_unlink_backup")' /\ (p \notin loose' => Safe(p)')
    BY <1>1, <1>8, <2>1, UnlinkedBackup
  <2>3. Head(t).do = "sync_unlink_backup"
    BY <1>4, <1>8 DEF FollowsHere
  <2> QED
    BY <1>3, <1>4, <1>5, <2>2, <2>3
<1>9. CASE d = "sync_unlink_backup"
  <2>1. SyncName(Backup(p)) /\ \A fd \in fds : fd.id # 0
    BY <1>1, <1>9 DEF Sync, Unlink, Doing, DoingOneOf, Stands, FilesIInv, Descriptors
  <2>2. /\ Rest(p)' /\ (p \notin loose' => Safe(p)')
        /\ ~Exists(Primary(p))' /\ ~Exists(Backup(p))' /\ Durable(Primary(p))' /\ Durable(Backup(p))'
    BY <1>1, <1>9, <2>1, DeletedRests
  <2>3. Head(t).do = "deleted"
    BY <1>4, <1>9 DEF FollowsHere
  <2>4. Place(p, "deleted", AheadOf(t), Head(t).flags)'
    BY <2>2 DEF Place, RestDeeds, BlockDeeds, RestoreDeeds
  <2> QED
    BY <1>2, <1>3, <1>4, <2>2, <2>3, <2>4 DEF Reached
<1> QED
  BY <1>1, <1>6, <1>7, <1>8, <1>9

\* A step that only decides what comes next.
LEMMA DecisionReaches ==
    ASSUME Stands, FilesIInv', NEW p, p = Path, NEW t, t = todo',
           Overlook \/ Tracked \/ Match \/ Leave
    PROVE  /\ Reached(p, t)' /\ (p \notin loose' => Safe(p)')
           /\ t # <<>> => t[Len(t)].do # "renamed" /\ Head(t) \in FileSteps
           /\ t = <<>> => ~failed'
<1> DEFINE d == Head(todo).do
<1>1. /\ p \in Paths /\ (p \notin loose => Safe(p)) /\ todo # <<>> /\ Rest(p)
      /\ UNCHANGED diskVars /\ UNCHANGED <<fds, worth, loose, trouble>>
      /\ d \in {"refreshed", "discarded", "restored", "tracked", "match", "leave"}
      /\ d \in {"refreshed", "restored"} \/ (d = "tracked" /\ ~failed) => MayOpen(p, FALSE)
      /\ failed => d \in Landings /\ p \in loose
  BY DEF Stands, Overlook, Tracked, Match, Leave, Doing, DoingOneOf, Place, RestDeeds, promiseVars
<1>2. Rest(p)' /\ (p \notin loose' => Safe(p)')
  BY <1>1, Unmoved
<1>3. ~failed'
  BY <1>1 DEF Overlook, Tracked, Match, Leave, Doing, DoingOneOf, EndCall, Landings
<1>4. t = <<>> \/ t = Tail(todo)
  BY DEF Overlook, Tracked, Match, Leave, EndCall, Proceeds
<1>5. CASE t = <<>>
  BY <1>2, <1>3, <1>5 DEF Reached
<1>6. CASE t = Tail(todo) /\ t # <<>>
  <2>1. Follows(Head(todo), Head(t)) /\ Head(t) \in FileSteps /\ t[Len(t)].do # "renamed"
        /\ Head(t).do \notin PairDeeds \cup TargetDeeds
    BY <1>6, ComesPlain
  <2>2. \/ d \in {"refreshed", "tracked", "restored"} /\ Head(t).at = p /\ Head(t).do = "open"
        \/ d = "discarded" /\ Head(t).at = p /\ Head(t).do = "unlink"
        \/ d = "leave" /\ Head(t).at = p /\ Head(t).do = "unlink"
        \/ d = "match" /\ Head(t).at = p /\ Head(t).do = "match"
        \/ d = "match" /\ Head(t).at # p /\ Head(t).do = "leave"
    BY <1>1, <2>1 DEF Follows, FollowsHere, FollowsThere, Path, PairDeeds
  <2>3. CASE Head(t).at # p
    BY <1>2, <1>3, <1>6, <2>1, <2>2, <2>3 DEF Reached
  <2>4. CASE Head(t).at = p /\ Head(t).do = "open"
    <3>1. MayOpen(p, FALSE)'
      <4>1. t # <<>> /\ d = "tracked" => ~failed
        BY <1>6, <2>2, <2>4 DEF Tracked, Overlook, Match, Leave, Doing, DoingOneOf, EndCall
      <4> QED
        BY <1>1, <1>6, <2>2, <2>4, <4>1, Unmoved
    <3>2. MayOpen(p, WantsFresh(Head(t).flags))'
      BY <3>1 DEF MayOpen
    <3>3. Place(p, "open", AheadOf(t), Head(t).flags)'
      BY <1>2, <3>2 DEF Place, RestDeeds, BlockDeeds, RestoreDeeds
    <3> QED
      BY <1>2, <1>3, <1>6, <2>1, <2>4, <3>3 DEF Reached
  <2>5. CASE Head(t).at = p /\ Head(t).do \in {"unlink", "match"}
    <3>3. Place(p, Head(t).do, AheadOf(t), Head(t).flags)'
      BY <1>2, <2>5 DEF Place, RestDeeds, BlockDeeds, RestoreDeeds
    <3> QED
      BY <1>2, <1>3, <1>6, <2>1, <2>5, <3>3 DEF Reached
  <2> QED
    BY <2>2, <2>3, <2>4, <2>5
<1> QED
  BY <1>4, <1>5, <1>6

\* What an open is to do is decided by what it finds.
LEMMA EnterReaches ==
    ASSUME Stands, FilesIInv', NEW p, p = Path, NEW t, t = todo', Enter
    PROVE  Reached(p, t)' /\ (p \notin loose' => Safe(p)') /\ t # <<>> /\ t[Len(t)].do # "renamed"
<1> DEFINE flags == Head(todo).flags
           s == Head(t)
<1>1. /\ Disk /\ p \in Paths /\ (p \notin loose => Safe(p)) /\ todo # <<>> /\ Rest(p) /\ Struct
      /\ UNCHANGED diskVars /\ UNCHANGED <<fds, worth, loose, trouble>>
      /\ Head(todo).do = "enter" /\ Head(todo).at = p /\ ~failed' /\ flags \in Flags
      /\ t = Opening(p, flags) \o Tail(todo)
  BY DEF Stands, FilesIInv, Enter, Doing, Place, RestDeeds, promiseVars, Landings, FileSteps, Path
<1>2. Chained(t) /\ t # <<>> /\ t[Len(t)].do # "renamed"
  <2> DEFINE o == Opening(p, flags) \o Tail(todo)
  <2>1. Chained(o) /\ o # <<>> /\ o[Len(o)].do # "renamed"
    BY <1>1, OpeningChained DEF Struct
  <2>2. t = o
    BY <1>1
  <2> HIDE DEF o
  <2> QED
    BY <2>1, <2>2
<1>3. Tail(todo) \in Seq(FileSteps)
  BY <1>1, TailChained DEF Struct, Chained
<1>4. IF ~Exists(Primary(p))
      THEN IF WantsFresh(flags) THEN s.do = "open" /\ s.at = p /\ s.flags = flags
           ELSE s.do = "copy_to_primary" /\ s.at = p
      ELSE IF Validates(At(Primary(p)))
      THEN IF HasMatchingBackup(p) THEN s.do = "refreshed" /\ s.at = p
           ELSE s.do = "copy_to_backup" /\ s.at = p /\ AheadOf(t) = "refreshed"
      ELSE IF At(Primary(p)).label = "none" /\ ~Validates(At(Backup(p)))
      THEN s.do = "copy_to_backup" /\ s.at = p /\ AheadOf(t) = "tracked"
      ELSE s.do = "copy_to_primary" /\ s.at = p
  <2> DEFINE o == Opening(p, flags) \o Tail(todo)
  <2>1. IF ~Exists(Primary(p))
        THEN IF WantsFresh(flags) THEN Head(o).do = "open" /\ Head(o).at = p /\ Head(o).flags = flags
             ELSE Head(o).do = "copy_to_primary" /\ Head(o).at = p
        ELSE IF Validates(At(Primary(p)))
        THEN IF HasMatchingBackup(p) THEN Head(o).do = "refreshed" /\ Head(o).at = p
             ELSE Head(o).do = "copy_to_backup" /\ Head(o).at = p /\ AheadOf(o) = "refreshed"
        ELSE IF At(Primary(p)).label = "none" /\ ~Validates(At(Backup(p)))
        THEN Head(o).do = "copy_to_backup" /\ Head(o).at = p /\ AheadOf(o) = "tracked"
        ELSE Head(o).do = "copy_to_primary" /\ Head(o).at = p
    <3>1. PICK u \in Seq(FileSteps), f \in Flags : u = Tail(todo) /\ f = flags
      BY <1>1, <1>3
    <3>2. LET h == Opening(p, f) \o u
              x == Head(h)
              copies == x.do = "copy_to_backup" /\ x.at = p
              opens == x.do = "open" /\ x.at = p /\ x.flags = f
              restores(l) == x.do = "copy_to_primary" /\ x.at = p /\ AheadOf(h) = l
          IN  IF ~Exists(Primary(p))
              THEN IF WantsFresh(f) THEN opens
                   ELSE restores(IF f.creates THEN "restored" ELSE "tracked")
              ELSE IF Validates(At(Primary(p)))
              THEN IF HasMatchingBackup(p) THEN x.do = "refreshed" /\ x.at = p
                   ELSE copies /\ AheadOf(h) = "refreshed"
              ELSE IF At(Primary(p)).label = "none" /\ ~Validates(At(Backup(p)))
              THEN copies /\ AheadOf(h) = "tracked"
              ELSE restores("tracked")
      <4>1. p \in Paths
        BY <1>1
      <4> QED
        BY ONLY <4>1, p \in Paths, u \in Seq(FileSteps), f \in Flags, OpeningHead
    <3>3. o = Opening(p, f) \o u
      BY <3>1
    <3> HIDE DEF flags, o
    <3> QED
      BY <3>1, <3>2, <3>3
  <2>2. t = o
    BY <1>1
  <2> HIDE DEF o
  <2> QED
    BY <2>1, <2>2
<1>5. Rest(p)' /\ (p \notin loose' => Safe(p)')
  BY <1>1, Unmoved
<1> HIDE DEF s, flags
<1>6. CASE s.do = "open" /\ ~Exists(Primary(p)) /\ WantsFresh(s.flags) /\ s.at = p
  <2>1. MayOpen(p, WantsFresh(s.flags))
    BY <1>6 DEF MayOpen
  <2>2. MayOpen(p, WantsFresh(s.flags))'
    <3>1. PICK f : f = WantsFresh(s.flags)
      OBVIOUS
    <3>2. MayOpen(p, f)'
      BY <1>1, <2>1, <3>1, Unmoved
    <3> QED
      BY <3>1, <3>2
  <2>3. Place(p, "open", AheadOf(t), s.flags)'
    BY <1>5, <2>2 DEF Place, RestDeeds, BlockDeeds, RestoreDeeds
  <2> QED
    BY <1>1, <1>2, <1>5, <1>6, <2>3 DEF Reached, s
<1>7. CASE s.do = "copy_to_primary" /\ s.at = p
  <2>3. Place(p, "copy_to_primary", AheadOf(t), s.flags)'
    BY <1>5 DEF Place, RestDeeds, BlockDeeds, RestoreDeeds
  <2> QED
    BY <1>1, <1>2, <1>5, <1>7, <2>3 DEF Reached, s
<1>8. CASE s.do = "refreshed" /\ s.at = p /\ Exists(Primary(p)) /\ Validates(At(Primary(p)))
           /\ HasMatchingBackup(p)
  <2>1. MayOpen(p, FALSE)
    BY <1>1, <1>8, Opens1
  <2>2. MayOpen(p, FALSE)'
    BY <1>1, <2>1, Unmoved
  <2>3. Place(p, "refreshed", AheadOf(t), s.flags)'
    BY <1>5, <2>2 DEF Place, RestDeeds, BlockDeeds, RestoreDeeds
  <2> QED
    BY <1>1, <1>2, <1>5, <1>8, <2>3 DEF Reached, s
<1>9. ASSUME NEW l, l = AheadOf(t), s.do = "copy_to_backup", s.at = p, Block(p, "copy_to_backup", l)
      PROVE  Reached(p, t)'
  <2>1. Block(p, "copy_to_backup", l)'
    BY <1>1, <1>9, Unmoved
  <2>2. Place(p, "copy_to_backup", l, s.flags)'
    BY <2>1 DEF Place, RestDeeds, BlockDeeds, RestoreDeeds
  <2> QED
    BY <1>1, <1>2, <1>9, <2>2 DEF Reached, s
<1>10. CASE s.do = "copy_to_backup" /\ s.at = p /\ Exists(Primary(p))
           /\ \/ Validates(At(Primary(p))) /\ ~HasMatchingBackup(p) /\ AheadOf(t) = "refreshed"
              \/ At(Primary(p)).label = "none" /\ ~Validates(At(Backup(p))) /\ AheadOf(t) = "tracked"
  <2>1. Block(p, "copy_to_backup", AheadOf(t))
    BY <1>1, <1>10, Opens1
  <2> QED
    BY <1>2, <1>5, <1>9, <1>10, <2>1
<1> QED
  BY <1>2, <1>4, <1>5, <1>6, <1>7, <1>8, <1>10

\* A file is opened.
LEMMA OpenReaches ==
    ASSUME Stands, FilesIInv', NEW p, p = Path, NEW t, t = todo', Open
    PROVE  /\ Reached(p, t)' /\ (p \notin loose' => Safe(p)')
           /\ t # <<>> => t[Len(t)].do # "renamed" /\ Head(t) \in FileSteps
           /\ t = <<>> => ~failed'
<1> DEFINE flags == Head(todo).flags
<1>1. /\ Disk /\ Disk' /\ Injective /\ p \in Paths /\ (p \notin loose => Safe(p)) /\ todo # <<>>
      /\ Rest(p) /\ MayOpen(p, WantsFresh(flags))
      /\ Head(todo).do = "open" /\ ~failed /\ ~failed' /\ Head(todo).at = p
      /\ UNCHANGED <<worth, trouble>>
  BY DEF Stands, FilesIInv, Open, Doing, Place, RestDeeds, Landings, EndCall, Path
<1>2. flags \in ClientFlags /\ Len(todo) \in Nat /\ Len(todo) >= 1
      /\ Len(Tail(todo)) = Len(todo) - 1
  <2>1. Belongs(Head(todo), Last) /\ Len(Tail(todo)) = Len(todo) - 1 /\ todo \in Seq(FileSteps)
    BY <1>1, TailChained DEF Stands, Struct, Last, Chained
  <2> QED
    BY <1>1, <2>1 DEF Belongs
<1>3. CASE UNCHANGED diskVars /\ UNCHANGED <<fds, loose>> /\ t = <<>>
  BY <1>1, <1>3, Unmoved DEF Reached
<1>4. CASE /\ t = Tail(todo)
           /\ IF ~Exists(Primary(p)) THEN Creates(Primary(p), "empty")
              ELSE IF flags.truncates
              THEN Becomes(names[Primary(p)], [At(Primary(p)) EXCEPT !.data = "empty"])
              ELSE UNCHANGED diskVars
           /\ fds' = IF Len(todo) > 1 THEN fds
                     ELSE fds \cup {[id |-> names'[Primary(p)], writes |-> flags.writes]}
           /\ loose' = IF Exists(Primary(p)) THEN loose ELSE loose \cup {p}
  <2>1. /\ t # <<>> => /\ Follows(Head(todo), Head(t)) /\ Head(t) \in FileSteps
                       /\ t[Len(t)].do # "renamed" /\ Len(todo) > 1
        /\ t = <<>> => ~(Len(todo) > 1)
    <3>1. t # <<>> => /\ Follows(Head(todo), Head(t)) /\ Head(t) \in FileSteps
                      /\ t[Len(t)].do # "renamed"
      BY <1>4, ComesPlain
    <3>2. t # <<>> => Len(todo) > 1
      BY <1>1, <1>4, TailChained DEF Stands, Struct
    <3>3. t = <<>> => Len(t) = 0
      OBVIOUS
    <3> QED
      BY <1>2, <1>4, <3>1, <3>2, <3>3
  <2>2. t # <<>> => \/ Head(t).at = p /\ Head(t).do = "fill_in_part" /\ flags = O_TRUNC
                    \/ Head(t).at # p /\ Head(t).do = "enter" /\ flags = O_RDONLY
    BY <1>1, <2>1 DEF Follows, FollowsHere, FollowsThere
  <2>3. /\ O_TRUNC.truncates /\ ~O_RDONLY.truncates
        /\ flags.truncates => flags.writes
    <3>1. O_TRUNC.truncates /\ O_TRUNC.writes /\ ~O_RDONLY.truncates
      BY FlagsAre DEF O_TRUNC, O_RDONLY, O_CREAT
    <3>2. ~O_CREAT.truncates /\ ~O_EXCL.truncates
      BY FlagsAre DEF O_EXCL, O_RDONLY, O_CREAT
    <3> HIDE DEF flags
    <3> QED
      BY <1>2, <3>1, <3>2 DEF ClientFlags
  <2>4. ASSUME Rest(p)', p \notin loose' => Safe(p)',
               flags = O_TRUNC => Exists(Primary(p))' /\ Resting(p, TRUE)'
        PROVE  Reached(p, t)'
    <3>1. CASE t = <<>>
      BY <2>4, <3>1 DEF Reached
    <3>2. CASE t # <<>> /\ Head(t).at = p
      <4>1. Place(p, "fill_in_part", AheadOf(t), Head(t).flags)'
        BY <2>2, <2>4, <3>2 DEF Place, RestDeeds, BlockDeeds, RestoreDeeds
      <4> QED
        BY <1>1, <2>2, <3>2, <4>1 DEF Reached
    <3>3. CASE t # <<>> /\ Head(t).at # p
      BY <1>1, <2>2, <2>4, <3>3 DEF Reached
    <3> QED
      BY <3>1, <3>2, <3>3
  <2> HIDE DEF flags
  <2>5. CASE ~Exists(Primary(p))
    <3>1. Creates(Primary(p), "empty") /\ p \in loose'
      BY <1>4, <2>5
    <3>2. PICK w : Resting(p, w)
      BY <1>1 DEF Rest
    <3>3. \A v : Exists(Primary(p))' /\ Resting(p, v)'
      BY <1>1, <2>5, <3>1, <3>2, CreatedRests
    <3>4. Rest(p)'
      BY <1>1, <3>3, RestIsNext
    <3> QED
      BY <2>1, <1>1, <2>4, <3>1, <3>3, <3>4
  <2>6. CASE Exists(Primary(p)) /\ flags.truncates
    <3>1. /\ Becomes(names[Primary(p)], [At(Primary(p)) EXCEPT !.data = "empty"])
          /\ loose' = loose
      BY <1>4, <2>6
    <3>2. PICK w : Resting(p, w)
      BY <1>1 DEF Rest
    <3>3. "empty" \in Data /\ (Kept(p) => Ready(p))
      BY <1>1, <2>6 DEF MayOpen, Data, Whole
    <3>4. Exists(Primary(p))' /\ Resting(p, TRUE)' /\ (p \notin loose' => Safe(p)')
      BY <1>1, <2>6, <3>1, <3>2, <3>3, Overwritten
    <3>5. Rest(p)' \/ t # <<>>
      <4> SUFFICES ASSUME t = <<>> PROVE Rest(p)'
        OBVIOUS
      <4>1. fds' = fds \cup {[id |-> names'[Primary(p)], writes |-> flags.writes]}
        BY <1>4, <2>1
      <4>2. Writer(p)'
        <5> DEFINE fd == [id |-> names'[Primary(p)], writes |-> flags.writes]
        <5>1. fd \in fds' /\ fd.writes /\ fd.id = names'[Primary(p)]
          BY <2>3, <2>6, <4>1
        <5> HIDE DEF fd
        <5> QED
          BY <5>1 DEF Writer
      <4> QED
        BY <1>1, <3>4, <4>2, RestIsNext
    <3>6. CASE t = <<>>
      BY <2>1, <1>1, <3>4, <3>5, <3>6 DEF Reached
    <3>7. CASE t # <<>>
      <4>1. Head(t).at = p /\ Head(t).do = "fill_in_part"
        BY <2>2, <2>3, <2>6, <3>7
      <4>2. Place(p, "fill_in_part", AheadOf(t), Head(t).flags)'
        BY <3>4 DEF Place, RestDeeds, BlockDeeds, RestoreDeeds
      <4>3. Reached(p, t)'
        BY <1>1, <3>7, <4>1, <4>2 DEF Reached
      <4> QED
        BY <2>1, <3>4, <3>7, <4>3
    <3> QED
      BY <3>6, <3>7
  <2>7. CASE Exists(Primary(p)) /\ ~flags.truncates
    <3>1. UNCHANGED diskVars /\ loose' = loose /\ fds \subseteq fds'
      BY <1>4, <2>7
    <3>2. Rest(p)'
      BY <1>1, <2>7, <3>1, OpenedRests
    <3>3. p \notin loose' => Safe(p)'
      BY <1>1, <3>1 DEF Safe, Trusts, Reach, Left, diskVars
    <3>4. flags # O_TRUNC
      BY <2>3, <2>7
    <3> QED
      BY <2>1, <1>1, <2>4, <3>2, <3>3, <3>4
  <2> QED
    BY <2>5, <2>6, <2>7
<1>5. Path = p /\ Head(todo).flags = flags
  OBVIOUS
<1> QED
  BY <1>1, <1>3, <1>4 DEF Open, EndCall, Proceeds

\* A step fails, by the system or for want of room or of a good backup.
LEMMA FailReaches ==
    ASSUME Stands, FilesIInv', NEW p, p = Path, NEW t, t = todo', Fails, UNCHANGED fds,
           \/ trouble' # 0 /\ Head(todo).do \notin Decisions \cup {"open", "move"}
           \/ trouble' = trouble /\ Doing("copy_to_backup") /\ ~Exists(Backup(p))
           \/ trouble' = trouble /\ Doing("copy_to_primary") /\ ~Validates(At(Backup(p)))
    PROVE  Reached(p, t)' /\ (p \notin loose' => Safe(p)') /\ t # <<>> /\ t[Len(t)].do # "renamed"
<1> DEFINE d == Head(todo).do
           u == Head(t)
<1>1. /\ Disk /\ p \in Paths /\ Struct /\ todo # <<>> /\ Head(todo).at = p /\ d \in Deeds
      /\ t = FromLanding(todo) /\ failed' /\ p \in loose' /\ UNCHANGED diskVars
      /\ Place(p, d, Ahead, Head(todo).flags) /\ Last.do # "renamed"
  BY DEF Stands, FilesIInv, Fails, Path, FileSteps
<1>2. d \in Landed
  BY <1>1 DEF Deeds, Landed, Decisions, BlockDeeds, RestoreDeeds, Doing
<1>3. Lands(todo)
  BY <1>1, <1>2, LandsAhead DEF Struct
<1>4. t # <<>> /\ Chained(t) /\ t[Len(t)] = Last /\ u.do \in Landings /\ u \in FileSteps
      /\ Belongs(u, Last)
  <2>1. t # <<>>
    BY <1>1, <1>3 DEF Lands
  <2>2. Chained(t) /\ t[Len(t)] = Last /\ u.do \in Landings
    BY <1>1, <2>1, SuffixChained DEF Struct, Last
  <2>3. u \in FileSteps /\ Belongs(u, t[Len(t)])
    BY <2>1, <2>2, TailChained, Zenon
  <2> QED
    BY <2>1, <2>2, <2>3
<1>5. u.do \notin PairDeeds \cup TargetDeeds
  BY <1>1, <1>4 DEF Belongs
<1> HIDE DEF u
<1>6. /\ u.at = p
      /\ d \in BlockDeeds => u.do \in {"tracked", "refreshed", "closed", "discarded"}
      /\ d \in RestoreDeeds => u.do \in {"tracked", "restored"}
      /\ u.do \in {"tracked", "refreshed", "closed", "discarded", "restored", "filled", "deleted"}
      /\ u.do = "filled" => d \in {"fill_in_part", "fill", "copy_context"}
  BY <1>1, <1>2, <1>3, <1>5 DEF Lands, Landed, PairDeeds, TargetDeeds, u, BlockDeeds, RestoreDeeds
<1>7. ASSUME Rest(p)', MayOpen(p, FALSE)',
             u.do = "filled" => Exists(Primary(p))' /\ Resting(p, TRUE)'
      PROVE  Reached(p, t)'
  <2>1. Place(p, u.do, AheadOf(t), u.flags)'
    BY <1>1, <1>6, <1>7 DEF Place, RestDeeds, BlockDeeds, RestoreDeeds
  <2> QED
    BY <1>1, <1>4, <1>6, <2>1 DEF Reached, u
<1>8. CASE trouble' # 0
  <2>1. Rest(p)' /\ MayOpen(p, FALSE)' /\ Resting(p, TRUE)'
    BY <1>1, <1>8, ExemptRestsNext
  <2>2. u.do = "filled" => Exists(Primary(p))'
    BY <1>1, <1>6 DEF Place, diskVars, Exists
  <2> QED
    BY <1>1, <1>4, <1>7, <2>1, <2>2
<1>9. CASE trouble' = trouble /\ Doing("copy_to_backup") /\ ~Exists(Backup(p))
  <2>1. \E l : Begun(p, l)
    BY <1>1, <1>9 DEF Place, Block, BlockDeeds, Doing
  <2>2. Rest(p)' /\ MayOpen(p, FALSE)'
    BY <1>1, <1>9, <2>1, BackupFails
  <2>3. u.do # "filled"
    BY <1>6, <1>9 DEF Doing
  <2> QED
    BY <1>1, <1>4, <1>7, <2>2, <2>3
<1>10. CASE trouble' = trouble /\ Doing("copy_to_primary") /\ ~Validates(At(Backup(p)))
  <2>1. Rest(p)
    BY <1>1, <1>10 DEF Place, RestDeeds, Doing
  <2>2. PICK w \in BOOLEAN : w = Writer(p) /\ Resting(p, w)
    BY <2>1 DEF Rest, Writer
  <2>3. Resting(p, w)'
    BY <1>1, <1>10, <2>2, LooseRests
  <2>4. Writer(p)' = Writer(p)
    BY <1>1 DEF Writer, diskVars
  <2>5. Rest(p)'
    BY <1>1, <2>2, <2>3, <2>4, RestIsNext
  <2>6. ~(trouble = 0 /\ Exists(Backup(p)))
    BY <1>10, <2>2 DEF Resting
  <2>7. MayOpen(p, FALSE)'
    BY <1>1, <1>10, <2>6 DEF MayOpen, Kept, Exists, diskVars
  <2>8. u.do # "filled"
    BY <1>6, <1>10 DEF Doing
  <2> QED
    BY <1>1, <1>4, <1>7, <2>5, <2>7, <2>8
<1> QED
  BY <1>8, <1>9, <1>10

-----------------------------------------------------------------------------
(* The steps of a call that is no rename, and of none.                      *)

Sure == Struct /\ Injective /\ Roles /\ AllSafe /\ AllApart /\ Point /\ OthersRest /\ AtRest /\ NotRename
SurviveIInv == FilesIInv /\ Sure

\* What is to be shown of a step that treats one path.
LEMMA OnePath ==
    ASSUME SurviveIInv, Struct', NEW p \in Paths, NEW t, t = todo', Roles', Injective', backupResult',
           \A r \in Paths \ {p} : Calm(r) /\ Rest(r) /\ (r \notin loose => Apart(r)),
           \A r \in Paths : Apart(r) => Apart(r)',
           Reached(p, t)', p \notin loose' => Safe(p)' /\ Apart(p)',
           t # <<>> => t[Len(t)].do # "renamed", t = <<>> => ~failed'
    PROVE  Sure'
<1>1. \A r \in Paths \ {p} : Rest(r)' /\ (r \notin loose' => r \notin loose /\ Safe(r)' /\ Apart(r)')
  <2> SUFFICES ASSUME NEW r \in Paths \ {p}
               PROVE  Rest(r)' /\ (r \notin loose' => r \notin loose /\ Safe(r)' /\ Apart(r)')
    OBVIOUS
  <2>1. Calm(r) /\ Rest(r) /\ (r \notin loose => Safe(r) /\ Apart(r))
    BY DEF SurviveIInv, Sure, AllSafe
  <2> QED
    BY <2>1, CalmPath DEF Calm
<1>2. t # <<>> => Head(t).at \in Paths
  <2> HAVE t # <<>>
  <2>1. Chained(t)
    BY DEF Struct
  <2>2. Head(t) \in FileSteps
    BY <2>1, TailChained
  <2> QED
    BY <2>2 DEF FileSteps
<1>3. Point' /\ OthersRest' /\ AtRest' /\ NotRename'
  BY <1>1, <1>2, ReachesPoint
<1>4. AllSafe' /\ AllApart'
  BY <1>1 DEF AllSafe, AllApart
<1> QED
  BY <1>3, <1>4 DEF Sure

\* What is known where a call stands that is no rename.
LEMMA StandsIs ==
    ASSUME SurviveIInv, todo # <<>>, ~Renames(Head(todo), Last), ~Doing("move")
    PROVE  /\ Stands /\ HasFile /\ backupResult
           /\ \A r \in Paths \ {Path} : Rest(r)
           /\ \A r \in Paths \ loose : Apart(r)
           /\ ~DoingOneOf(PairDeeds \cup TargetDeeds)
<1>1. /\ Struct /\ FilesIInv /\ Injective /\ Roles /\ Point /\ OthersRest /\ AllSafe /\ AllApart /\ NotRename
  BY DEF SurviveIInv, Sure
<1>2. Head(todo) \in FileSteps /\ Path \in Paths /\ Belongs(Head(todo), Last)
  BY <1>1, TailChained DEF Struct, Last, FileSteps, Path
<1>3. Last.do # "renamed"
  BY DEF Renames, Doing, NoCall
<1>4. /\ Place(Path, Head(todo).do, Ahead, Head(todo).flags)
      /\ failed => Head(todo).do \in Landings /\ Path \in loose
  BY <1>1 DEF Point, PointAt, Path
<1>5. \A r \in Paths \ loose : Apart(r)
  BY <1>1, <1>3 DEF AllApart, Renames
<1>6. Stands
  BY <1>1, <1>2, <1>3, <1>4, <1>5 DEF Stands, AllSafe
<1>7. Head(todo).do \notin PairDeeds \cup TargetDeeds
  BY <1>2, <1>3 DEF Belongs
<1>8. HasFile
  <2>1. Head(todo).do \in {"label", "label_backup"} => Exists(Primary(Path)) /\ Exists(Backup(Path))
    BY <1>4 DEF Place, Block, Begun, BlockDeeds
  <2>2. Head(todo).do = "label_restored" => Exists(Primary(Path))
    BY <1>4 DEF Place, Restoring, RestoreDeeds
  <2>3. Head(todo).do \in {"checksum", "fill_in_part", "fill"} => Exists(Primary(Path))
    BY <1>4 DEF Place
  <2> QED
    BY <1>7, <2>1, <2>2, <2>3 DEF HasFile, Doing, DoingOneOf, Checksums, TargetDeeds
<1>9. \A r \in Paths \ {Path} : Rest(r)
  BY <1>1 DEF OthersRest, Busy
<1> QED
  BY <1>1, <1>5, <1>6, <1>7, <1>8, <1>9 DEF NotRename, DoingOneOf

\* Everything stays as it is, but that a call may end and trouble may come.
LEMMA AllCalm ==
    ASSUME SurviveIInv, UNCHANGED diskVars, UNCHANGED <<fds, worth, loose>>,
           trouble' = trouble \/ trouble' # 0
    PROVE  /\ \A p \in Paths : Calm(p) /\ (Apart(p)' <=> Apart(p)) /\ (Closed(p)' <=> Closed(p))
           /\ Injective' /\ Roles'
<1>1. \A n \in Names : Same(n) /\ Stable(n)
  BY NoEffect
<1>2. \A p \in Paths : Calm(p)
  <2> SUFFICES ASSUME NEW p \in Paths PROVE Calm(p)
    OBVIOUS
  <2>1. Writer(p)' <=> Writer(p)
    BY DEF Writer, diskVars
  <2> QED
    BY <1>1, <2>1, NamesAre DEF Calm, Stable
<1>3. Injective' /\ \A p \in Paths : Apart(p)' <=> Apart(p)
  BY NoEffect DEF SurviveIInv, Sure
<1>4. Roles'
  BY DEF SurviveIInv, Sure, Roles, diskVars
<1> QED
  BY <1>2, <1>3, <1>4 DEF Closed, diskVars

\* A call ends, or none is made, and nothing else happens.
LEMMA NothingHappens ==
    ASSUME SurviveIInv, UNCHANGED diskVars, UNCHANGED <<fds, worth, loose>>,
           trouble' = trouble \/ trouble' # 0, todo' = <<>>, ~failed', backupResult',
           \A p \in Paths : Rest(p), \A p \in Paths \ loose : Apart(p)
    PROVE  Sure'
<1>1. /\ \A p \in Paths : Calm(p) /\ (Apart(p)' <=> Apart(p))
      /\ Injective' /\ Roles'
  BY AllCalm
<1>2. \A p \in Paths : Rest(p)' /\ (p \notin loose' => Safe(p)' /\ Apart(p)')
  <2> SUFFICES ASSUME NEW p \in Paths PROVE Rest(p)' /\ (p \notin loose' => Safe(p)' /\ Apart(p)')
    OBVIOUS
  <2>1. Calm(p) /\ Rest(p) /\ (p \notin loose => Safe(p) /\ Apart(p)')
    BY <1>1 DEF SurviveIInv, Sure, AllSafe
  <2> QED
    BY <2>1, CalmPath
<1>3. Struct'
  BY NothingChained DEF Struct
<1> QED
  BY <1>1, <1>2, <1>3 DEF Sure, AllSafe, AllApart, Point, OthersRest, AtRest, NotRename, Busy

\* Each step of a call that is no rename leaves its path as the next one is to find it.
LEMMA StepReaches ==
    ASSUME Stands, FilesIInv', NEW p, p = Path, NEW t, t = todo', StepNext,
           ~DoingOneOf(PairDeeds \cup TargetDeeds)
    PROVE  /\ Reached(p, t)' /\ (p \notin loose' => Safe(p)')
           /\ p \notin loose' /\ p \in loose => Apart(p)'
           /\ t # <<>> => t[Len(t)].do # "renamed"
           /\ t = <<>> => ~failed'
           /\ UNCHANGED backupResult
<1> DEFINE Good1 == Reached(p, t)' /\ (p \notin loose' => Safe(p)')
           Loose1 == p \in loose => p \in loose'
           Ends1 == (t # <<>> => t[Len(t)].do # "renamed") /\ (t = <<>> => ~failed')
           Result1 == UNCHANGED backupResult
<1> SUFFICES Good1 /\ (Loose1 \/ (p \notin loose' => Apart(p)')) /\ Ends1 /\ Result1
  OBVIOUS
<1>1. CASE Enter
  <2>1. Loose1 /\ Result1
    BY <1>1 DEF Enter, promiseVars
  <2> QED
    BY <1>1, <2>1, EnterReaches
<1>2. CASE Refresh
  <2>1. Loose1 /\ Result1
    BY <1>2 DEF Refresh, promiseVars
  <2> QED
    BY <1>2, <2>1, RefreshReaches
<1>3. CASE CopyToBackup
  <2>1. Result1 /\ UNCHANGED <<fds, trouble>> /\ Doing("copy_to_backup")
        /\ Head(todo).do \in BlockDeeds
    BY <1>3 DEF CopyToBackup, Doing, BlockDeeds
  <2>2. CASE Creates(Backup(Path), Content(Path)) /\ Proceeds /\ UNCHANGED <<failed, promiseVars>>
    <3>1. Loose1 /\ UNCHANGED <<fds, failed, worth, loose, trouble>>
      BY <2>1, <2>2 DEF promiseVars
    <3> QED
      BY <2>1, <2>2, <3>1, BlockReaches
  <2>3. CASE ~Exists(Backup(Path)) /\ Fails
    <3>1. Loose1
      BY <2>3 DEF Fails
    <3> QED
      BY <2>1, <2>3, <3>1, FailReaches
  <2> QED
    BY <1>3, <2>2, <2>3 DEF CopyToBackup
<1>4. CASE CopyToPrimary
  <2>1. Result1 /\ UNCHANGED <<fds, trouble>> /\ Doing("copy_to_primary")
        /\ Head(todo).do \in RestoreDeeds
    BY <1>4 DEF CopyToPrimary, Doing, RestoreDeeds
  <2>2. CASE /\ Validates(At(Backup(Path))) /\ Creates(Primary(Path), At(Backup(Path)).data)
             /\ Proceeds /\ UNCHANGED <<failed, promiseVars>>
    <3>1. Loose1 /\ UNCHANGED <<fds, failed, worth, loose, trouble>>
      BY <2>1, <2>2 DEF promiseVars
    <3> QED
      BY <2>1, <2>2, <3>1, RestoreReaches
  <2>3. CASE ~Validates(At(Backup(Path))) /\ Fails
    <3>1. Loose1
      BY <2>3 DEF Fails
    <3> QED
      BY <2>1, <2>3, <3>1, FailReaches
  <2> QED
    BY <1>4, <2>2, <2>3 DEF CopyToPrimary
<1>5. CASE Label
  <2>1. Loose1 /\ Result1
    BY <1>5 DEF Label
  <2>2. CASE Doing("checksum")
    BY <1>5, <2>1, <2>2, ChecksumReaches
  <2>3. CASE Doing("label") \/ Doing("label_restored")
    <3>1. /\ Becomes(names[Primary(p)], Sealed(Content(p))) /\ Proceeds
          /\ UNCHANGED <<fds, failed, worth, loose, trouble>>
      BY <1>5, <2>3 DEF Label, Doing, DoingOneOf, Checksums, Sealed
    <3>2. Head(todo).do \in BlockDeeds \/ Head(todo).do \in RestoreDeeds
      BY <2>3 DEF Doing, BlockDeeds, RestoreDeeds
    <3>3. CASE Doing("label")
      BY <2>1, <3>1, <3>3, BlockReaches DEF Doing, BlockDeeds
    <3>4. CASE Doing("label_restored")
      BY <2>1, <3>1, <3>4, RestoreReaches DEF Doing, RestoreDeeds
    <3> QED
      BY <2>3, <3>3, <3>4
  <2> QED
    BY <1>5, <2>2, <2>3 DEF Label, Checksums, DoingOneOf, Doing, TargetDeeds
<1>6. CASE LabelBackup
  <2>1. /\ Loose1 /\ Result1 /\ Doing("label_backup") /\ Head(todo).do \in BlockDeeds
        /\ Becomes(names[Backup(p)], Sealed(At(Backup(p)).data)) /\ Proceeds
        /\ UNCHANGED <<fds, failed, worth, loose, trouble>>
    BY <1>6 DEF LabelBackup, promiseVars, Sealed, Doing, BlockDeeds
  <2> QED
    BY <2>1, BlockReaches
<1>7. CASE Sync
  <2>1. Loose1 /\ Result1 /\ Proceeds /\ UNCHANGED <<fds, failed, worth, loose, trouble>>
    BY <1>7 DEF Sync, promiseVars
  <2>2. CASE Doing("sync")
    BY <1>7, <2>1, <2>2, SyncReaches
  <2>3. CASE DoingOneOf({"sync_unlink", "sync_unlink_backup"})
    BY <1>7, <2>1, <2>3, UnlinkReaches
  <2>4. CASE Doing("sync_backup") /\ SyncFile(Backup(p))
    BY <2>1, <2>4, BlockReaches DEF Doing, BlockDeeds
  <2>5. CASE Doing("sync_copy_name") /\ SyncName(Backup(p))
    BY <2>1, <2>5, BlockReaches DEF Doing, BlockDeeds
  <2>6. CASE Doing("sync_restored") /\ SyncFile(Primary(p))
    BY <2>1, <2>6, RestoreReaches DEF Doing, RestoreDeeds
  <2>7. CASE Doing("sync_restored_name") /\ SyncName(Primary(p))
    BY <2>1, <2>7, RestoreReaches DEF Doing, RestoreDeeds
  <2>8. CASE Doing("sync_name_again") /\ SyncName(Primary(p))
    BY <2>1, <2>8, RestoreReaches DEF Doing, RestoreDeeds
  <2> QED
    BY <1>7, <2>2, <2>3, <2>4, <2>5, <2>6, <2>7, <2>8 DEF Sync, Doing, DoingOneOf, TargetDeeds
<1>8. CASE Unlink
  <2>1. Loose1 /\ Result1
    BY <1>8 DEF Unlink
  <2> QED
    BY <1>8, <2>1, UnlinkReaches
<1>9. CASE Open
  <2>1. Loose1 /\ Result1
    BY <1>9 DEF Open
  <2> QED
    BY <1>9, <2>1, OpenReaches
<1>10. CASE Fill
  <2>1. Loose1 /\ Result1
    BY <1>10 DEF Fill, promiseVars
  <2> QED
    BY <1>10, <2>1, FillReaches
<1>11. CASE Overlook \/ Tracked \/ Match \/ Leave
  <2>1. Loose1 /\ Result1
    BY <1>11 DEF Overlook, Tracked, Match, Leave, promiseVars
  <2> QED
    BY <1>11, <2>1, DecisionReaches
<1>12. CASE Filled
  <2>1. Loose1 /\ Result1
    BY <1>12 DEF Filled
  <2> QED
    BY <1>12, <2>1, FilledReaches
<1>13. CASE CloseDone
  <2>1. Result1 /\ ~failed'
    BY <1>13 DEF CloseDone
  <2> QED
    BY <1>13, <2>1, CloseReaches
<1>14. CASE Deleted
  <2>1. Result1 /\ ~failed'
    BY <1>14 DEF Deleted
  <2> QED
    BY <1>14, <2>1, DeletedReaches
<1>15. ~Move /\ ~GoOn /\ ~Moved /\ ~Renamed
  BY DEF Move, GoOn, Moved, Renamed, Doing, DoingOneOf, PairDeeds, TargetDeeds
<1> QED
  BY <1>1, <1>2, <1>3, <1>4, <1>5, <1>6, <1>7, <1>8, <1>9, <1>10, <1>11, <1>12, <1>13, <1>14, <1>15
     DEF StepNext

\* A step of a call that is no rename, and the first of one that is, keep the invariant.
LEMMA PlainStep ==
    ASSUME SurviveIInv, FilesIInv', Struct', todo # <<>>, ~Renames(Head(todo), Last), ~Doing("move"),
           StepNext
    PROVE  Sure'
<1>1. PICK p : p = Path
  OBVIOUS
<1>2. PICK t : t = todo'
  OBVIOUS
<1>3. /\ Stands /\ HasFile /\ backupResult
      /\ \A r \in Paths \ {p} : Rest(r)
      /\ \A r \in Paths \ loose : Apart(r)
      /\ ~DoingOneOf(PairDeeds \cup TargetDeeds)
  BY <1>1, StandsIs
<1>4. FilesIInv /\ Injective /\ Roles /\ p \in Paths
  BY <1>1, <1>3 DEF Stands
<1>5. \E n \in {Primary(p), Backup(p)} : Touches(n)
  BY <1>1, <1>3, <1>4, StepTouches DEF TouchesPath
<1>6. /\ trouble' = trouble
      /\ \A r \in Paths \ {p} : Unpromised(r)
      /\ fds \subseteq fds'
      /\ \A fd \in fds' : fd \in fds \/ fd.id = names'[Primary(p)]
  <2>1. ~Doing("renamed")
    BY <1>3 DEF DoingOneOf, Doing, PairDeeds
  <2> QED
    BY <1>1, <1>4, <2>1, StepPromises
<1>7. /\ \A r \in Paths \ {p} : Unpromised(r) /\ (r \notin loose => Apart(r)) => Calm(r)
      /\ Roles' /\ Injective'
      /\ \A r \in Paths : Apart(r) => Apart(r)'
  BY <1>4, <1>5, <1>6, FrameIs
<1>8. /\ Reached(p, t)' /\ (p \notin loose' => Safe(p)')
      /\ p \notin loose' /\ p \in loose => Apart(p)'
      /\ t # <<>> => t[Len(t)].do # "renamed"
      /\ t = <<>> => ~failed'
      /\ UNCHANGED backupResult
  BY <1>1, <1>2, <1>3, StepReaches
<1>9. \A r \in Paths \ {p} : Calm(r) /\ Rest(r) /\ (r \notin loose => Apart(r))
  BY <1>3, <1>6, <1>7
<1>10. p \notin loose' => Safe(p)' /\ Apart(p)'
  BY <1>3, <1>4, <1>7, <1>8
<1> QED
  BY <1>2, <1>3, <1>4, <1>7, <1>8, <1>9, <1>10, OnePath

\* A system call that fails.
LEMMA PlainFails ==
    ASSUME SurviveIInv, FilesIInv', Struct', todo # <<>>, ~Renames(Head(todo), Last), ~Doing("move"),
           SystemCallFails
    PROVE  Sure'
<1>1. PICK p : p = Path
  OBVIOUS
<1>2. PICK t : t = todo'
  OBVIOUS
<1>3. /\ Stands /\ HasFile /\ backupResult
      /\ \A r \in Paths \ {p} : Rest(r)
      /\ \A r \in Paths \ loose : Apart(r)
      /\ ~DoingOneOf(PairDeeds \cup TargetDeeds)
  BY <1>1, StandsIs
<1>4. FilesIInv /\ Injective /\ Roles /\ p \in Paths
  BY <1>1, <1>3 DEF Stands
<1>5. UNCHANGED diskVars /\ UNCHANGED <<fds, worth, backupResult>> /\ trouble' # 0
  BY <1>4 DEF SystemCallFails, Fails, promiseVars, FilesIInv, ClientTypeOK
<1>6. CASE Doing("open")
  <2>1. EndCall /\ UNCHANGED loose
    BY <1>6 DEF SystemCallFails, Doing, promiseVars
  <2>2. Rest(p)
    BY <1>1, <1>3, <1>6 DEF Stands, Place, RestDeeds, Doing
  <2> QED
    BY <1>3, <1>4, <1>5, <2>1, <2>2, NothingHappens DEF EndCall
<1>7. CASE ~Doing("open")
  <2>1. Fails /\ Head(todo).do \notin Decisions \cup {"open", "move"}
    BY <1>7 DEF SystemCallFails, Doing, NoCall
  <2>2. /\ Reached(p, t)' /\ (p \notin loose' => Safe(p)')
        /\ t # <<>> /\ t[Len(t)].do # "renamed"
    BY <1>1, <1>2, <1>3, <1>5, <2>1, FailReaches
  <2>3. \A r \in Paths \ {p} : Unpromised(r)
    BY <1>1, <2>1 DEF Fails, Unpromised
  <2>4. \E n \in {Primary(p), Backup(p)} : Touches(n)
    BY <1>4, <1>5, NamesAre, NothingTouches
  <2>5. /\ \A r \in Paths \ {p} : Unpromised(r) /\ (r \notin loose => Apart(r)) => Calm(r)
        /\ Roles' /\ Injective'
        /\ \A r \in Paths : Apart(r) => Apart(r)'
    BY <1>4, <1>5, <2>4, FrameIs
  <2>6. \A r \in Paths \ {p} : Calm(r) /\ Rest(r) /\ (r \notin loose => Apart(r))
    BY <1>3, <2>3, <2>5
  <2>7. p \in loose'
    BY <1>1, <2>1 DEF Fails
  <2> QED
    BY <1>2, <1>3, <1>4, <1>5, <2>2, <2>5, <2>6, <2>7, OnePath
<1> QED
  BY <1>6, <1>7

-----------------------------------------------------------------------------
(* The client.                                                             *)

\* Between two calls every path rests.
LEMMA Between ==
    ASSUME SurviveIInv, todo = <<>>
    PROVE  /\ \A p \in Paths : Rest(p) /\ (p \notin loose => Safe(p) /\ Apart(p))
           /\ ~failed /\ backupResult /\ FilesIInv /\ Injective /\ Roles
  BY DEF SurviveIInv, Sure, OthersRest, Busy, AllSafe, AllApart, AtRest

\* A call that begins leaves everything as it is.
LEMMA Begins ==
    ASSUME SurviveIInv, NEW steps, Calls(steps)
    PROVE  /\ \A p \in Paths : /\ Rest(p)' /\ (p \notin loose' => Safe(p)' /\ Apart(p)')
                               /\ (Closed(p)' <=> Closed(p))
           /\ Injective' /\ Roles' /\ ~failed' /\ backupResult' /\ trouble' = trouble /\ todo' = steps
<1>1. /\ todo = <<>> /\ UNCHANGED diskVars /\ UNCHANGED <<fds, worth, loose, failed, backupResult, trouble>>
      /\ todo' = steps
  BY DEF Calls, NoCall
<1>2. /\ \A p \in Paths : Rest(p) /\ (p \notin loose => Safe(p) /\ Apart(p))
      /\ ~failed /\ backupResult
  BY <1>1, Between
<1>3. /\ \A p \in Paths : Calm(p) /\ (Apart(p)' <=> Apart(p)) /\ (Closed(p)' <=> Closed(p))
      /\ Injective' /\ Roles'
  BY <1>1, AllCalm
<1>4. \A p \in Paths : Rest(p)' /\ (p \notin loose' => Safe(p)' /\ Apart(p)')
  <2> SUFFICES ASSUME NEW p \in Paths PROVE Rest(p)' /\ (p \notin loose' => Safe(p)' /\ Apart(p)')
    OBVIOUS
  <2>1. Calm(p) /\ Rest(p) /\ (p \notin loose => Safe(p) /\ Apart(p)')
    BY <1>2, <1>3
  <2> QED
    BY <1>1, <2>1, CalmPath
<1> QED
  BY <1>1, <1>2, <1>3, <1>4

\* A call of open, delete or copy.
LEMMA PlainCall ==
    ASSUME SurviveIInv, Struct', NEW p \in Paths, NEW steps, Calls(steps), steps # <<>>,
           Head(steps).at = p, Head(steps).do \in {"enter", "unlink"}, steps[Len(steps)].do # "renamed"
    PROVE  Sure'
<1>1. /\ \A r \in Paths : Rest(r)' /\ (r \notin loose' => Safe(r)' /\ Apart(r)')
      /\ Injective' /\ Roles' /\ ~failed' /\ backupResult' /\ todo' = steps
  BY Begins
<1>2. PICK l : l = AheadOf(steps)
  OBVIOUS
<1>3. Place(p, Head(steps).do, l, Head(steps).flags)'
  BY <1>1 DEF Place, RestDeeds, BlockDeeds, RestoreDeeds
<1>4. Reached(p, steps)'
  BY <1>1, <1>2, <1>3 DEF Reached
<1>5. Point' /\ OthersRest' /\ AtRest' /\ NotRename'
  BY <1>1, <1>4, ReachesPoint
<1> QED
  BY <1>1, <1>5 DEF Sure, AllSafe, AllApart

\* A call of rename.
LEMMA RenameCall ==
    ASSUME SurviveIInv, Struct', NEW p \in Paths, NEW steps, Calls(steps), steps # <<>>,
           Head(steps).at = p, Head(steps).do = "move", trouble = 0, Closed(p)
    PROVE  Sure'
<1>1. /\ \A r \in Paths : /\ Rest(r)' /\ (r \notin loose' => Safe(r)' /\ Apart(r)')
                          /\ (Closed(r)' <=> Closed(r))
      /\ Injective' /\ Roles' /\ ~failed' /\ backupResult' /\ trouble' = trouble /\ todo' = steps
  BY Begins
<1>2. PICK l : l = AheadOf(steps)
  OBVIOUS
<1>3. Place(p, "move", l, Head(steps).flags)'
  BY <1>1 DEF Place, RestDeeds, BlockDeeds, RestoreDeeds
<1>4. ~Renames(Head(todo), Last)'
  BY <1>1 DEF Renames
<1>5. PointAt(Head(todo), Ahead, Last)'
  BY <1>1, <1>2, <1>3, <1>4 DEF PointAt, Ahead
<1> QED
  BY <1>1, <1>5 DEF Sure, AllSafe, AllApart, Point, OthersRest, AtRest, NotRename

\* Whatever rests and is left alone between two calls is as it was.
LEMMA AllRest ==
    ASSUME SurviveIInv, todo = <<>>, todo' = <<>>, ~failed', backupResult', Struct',
           \A p \in Paths : Calm(p) /\ (Apart(p) => Apart(p)'), Injective', Roles'
    PROVE  Sure'
<1>1. \A p \in Paths : Rest(p)' /\ (p \notin loose' => Safe(p)' /\ Apart(p)')
  <2> SUFFICES ASSUME NEW p \in Paths PROVE Rest(p)' /\ (p \notin loose' => Safe(p)' /\ Apart(p)')
    OBVIOUS
  <2>1. Calm(p) /\ Rest(p) /\ (p \notin loose => Safe(p) /\ Apart(p)')
    BY Between
  <2> QED
    BY <2>1, CalmPath DEF Calm
<1> QED
  BY <1>1 DEF Sure, AllSafe, AllApart, Point, OthersRest, AtRest, NotRename, Busy

\* A client writes to a file it has opened.
LEMMA WriteStep ==
    ASSUME SurviveIInv, FilesIInv', Struct', NEW fd \in fds, taf_pa_file_Write(fd)
    PROVE  Sure'
<1>1. /\ todo = <<>> /\ todo' = <<>> /\ fd.writes
      /\ UNCHANGED <<fds, failed, backupResult, worth, loose, trouble>>
  BY DEF taf_pa_file_Write, NoCall
<1>2. /\ \A r \in Paths : Rest(r) /\ (r \notin loose => Safe(r) /\ Apart(r))
      /\ ~failed /\ backupResult /\ FilesIInv /\ Injective /\ Roles
  BY <1>1, Between
<1>3. PICK n \in Names : names[n] = fd.id
  BY DEF taf_pa_file_Write
<1>4. fd.id # 0 /\ Disk /\ Disk'
  BY <1>2 DEF FilesIInv, Descriptors
<1>5. PICK p \in Paths : n = Primary(p) \/ n = Backup(p)
  BY DEF Names, Primary, Backup
<1>6. n = Primary(p) /\ Exists(Primary(p)) /\ At(Primary(p)) = inodes[fd.id]
  BY <1>2, <1>3, <1>4, <1>5 DEF Roles, Exists, At
<1>7. PICK content \in Versions : Becomes(names[Primary(p)], [At(Primary(p)) EXCEPT !.data = content])
  BY <1>3, <1>6 DEF taf_pa_file_Write
<1>8. content \in Data /\ Primary(p) \in Names
  BY NamesAre DEF Data, Whole
<1>9. Writer(p)
  BY <1>1, <1>3, <1>6 DEF Writer
<1>10. Resting(p, TRUE)
  BY <1>2, <1>9, RestIs
<1>11. Kept(p) => Ready(p)
  BY <1>10 DEF Resting
<1>12. Resting(p, TRUE)' /\ (p \notin loose /\ Safe(p) => Safe(p)')
  BY <1>1, <1>2, <1>4, <1>6, <1>7, <1>8, <1>10, <1>11, Overwritten
<1>13. Touches(Primary(p))
  <2>1. [At(Primary(p)) EXCEPT !.data = content] \in File
    BY <1>4, <1>6, <1>8, AtIs, FileIs
  <2> QED
    BY <1>2, <1>4, <1>6, <1>7, <1>8, <2>1, BecomesTouches
<1>14. \A r \in Paths \ {p} : Unpromised(r)
  BY <1>1 DEF Unpromised
<1>15. /\ \A r \in Paths \ {p} : Unpromised(r) /\ (r \notin loose => Apart(r)) => Calm(r)
       /\ Roles' /\ Injective'
       /\ \A r \in Paths : Apart(r) => Apart(r)'
  BY <1>1, <1>2, <1>13, FrameIs
<1>16. Rest(p)'
  <2>1. names' = names
    BY <1>7 DEF Becomes
  <2>2. Writer(p)'
    BY <1>1, <1>9, <2>1 DEF Writer
  <2> QED
    BY <1>12, <2>2, RestIsNext
<1>17. Reached(p, <<>>)'
  BY <1>16 DEF Reached
<1> QED
  BY <1>1, <1>2, <1>12, <1>14, <1>15, <1>17, OnePath

\* A client closes a file.
LEMMA CloseStep ==
    ASSUME SurviveIInv, FilesIInv', Struct', NEW fd \in fds, taf_pa_file_Close(fd)
    PROVE  Sure'
<1>1. /\ todo = <<>> /\ fds' = fds \ {fd}
      /\ UNCHANGED diskVars /\ UNCHANGED <<failed, backupResult, worth, loose, trouble>>
  BY DEF taf_pa_file_Close, NoCall, promiseVars
<1>2. /\ \A r \in Paths : Rest(r) /\ (r \notin loose => Safe(r) /\ Apart(r))
      /\ ~failed /\ backupResult /\ FilesIInv /\ Injective /\ Roles
  BY <1>1, Between
<1>3. \A n \in Names : Same(n) /\ Stable(n) /\ (Exists(n)' <=> Exists(n))
  BY <1>1, NoEffect
<1>4. CASE \E p \in Paths : names[Primary(p)] = fd.id /\ fd.writes /\ todo' = Closing(p)
  <2>1. PICK p \in Paths : names[Primary(p)] = fd.id /\ fd.writes /\ todo' = Closing(p)
    BY <1>4
  <2>2. PICK t : t = Closing(p)
    OBVIOUS
  <2>3. t # <<>> /\ Head(t).do = "checksum" /\ Head(t).at = p /\ t[Len(t)].do = "closed"
    BY <2>2, ClosingChained
  <2>4. Exists(Primary(p)) /\ Writer(p)
    BY <1>2, <2>1 DEF FilesIInv, Descriptors, Exists, Writer
  <2>5. \A r \in Paths \ {p} : names[Primary(r)] # fd.id
    BY <1>2, <2>1, <2>4, NamesAre DEF Injective
  <2>6. \E n \in {Primary(p), Backup(p)} : Touches(n)
    BY <1>1, <1>2, NamesAre, NothingTouches
  <2>7. \A r \in Paths \ {p} : Unpromised(r)
    BY <1>1 DEF Unpromised
  <2>8. /\ \A r \in Paths \ {p} : Unpromised(r) /\ (r \notin loose => Apart(r)) => Calm(r)
        /\ Roles' /\ Injective'
        /\ \A r \in Paths : Apart(r) => Apart(r)'
    BY <1>1, <1>2, <2>5, <2>6, FrameIs
  <2>9. Resting(p, TRUE)
    BY <1>2, <2>4, RestIs
  <2>10. Resting(p, TRUE)' /\ (p \notin loose /\ Safe(p) => Safe(p)')
    BY <1>1, <2>9 DEF Resting, Watched, Kept, Labels, Uniform, Flush, Ready, Own, Durable, Now, Left, At,
         Exists, Content, Validates, Safe, Reach, Trusts, diskVars
  <2>11. PICK l : l = AheadOf(t)
    OBVIOUS
  <2>12. Place(p, "checksum", l, Head(t).flags)'
    <3>1. Exists(Primary(p))'
      BY <1>3, <2>4, NamesAre
    <3> QED
      BY <2>10, <3>1 DEF Place, RestDeeds, BlockDeeds, RestoreDeeds
  <2>13. Reached(p, t)'
    BY <1>1, <1>2, <2>3, <2>11, <2>12 DEF Reached
  <2> QED
    BY <1>1, <1>2, <2>1, <2>2, <2>3, <2>7, <2>8, <2>10, <2>13, OnePath
<1>5. CASE /\ ~fd.writes \/ \A p \in Paths : names[Primary(p)] # fd.id
           /\ UNCHANGED todo
  <2>1. \A p \in Paths : Calm(p)
    <3> SUFFICES ASSUME NEW p \in Paths PROVE Calm(p)
      OBVIOUS
    <3>1. Writer(p)' <=> Writer(p)
      BY <1>1, <1>5 DEF Writer, diskVars
    <3> QED
      BY <1>1, <1>3, <3>1, NamesAre DEF Calm, Stable
  <2>2. Injective' /\ \A p \in Paths : Apart(p)' <=> Apart(p)
    BY <1>1, <1>2, NoEffect
  <2>3. Roles'
    BY <1>1, <1>2 DEF Roles, diskVars
  <2> QED
    BY <1>1, <1>2, <1>5, <2>1, <2>2, <2>3, AllRest
<1> QED
  BY <1>4, <1>5 DEF taf_pa_file_Close

\* A file goes bad, or is gone.
LEMMA DamageStep ==
    ASSUME SurviveIInv, FilesIInv', Struct', NEW p \in Paths, Damage(p)
    PROVE  Sure'
<1>1. todo = <<>> /\ todo' = <<>> /\ UNCHANGED <<fds, failed, backupResult, worth>>
  BY DEF Damage, NoCall
<1>2. /\ \A r \in Paths : Rest(r) /\ (r \notin loose => Safe(r) /\ Apart(r))
      /\ ~failed /\ backupResult /\ FilesIInv /\ Injective /\ Roles
  BY <1>1, Between
<1>3. /\ trouble \in Nat /\ trouble' # 0 /\ Disk /\ Disk' /\ \A fd \in fds : fd.id # 0
  BY <1>2 DEF Damage, FilesIInv, ClientTypeOK, Descriptors
<1>4. Rest(p)' /\ (p \notin loose' => Safe(p)')
  BY <1>2, <1>3, DamageRests
<1>5. \E n \in {Primary(p), Backup(p)} : Touches(n)
  <2>1. CASE Validates(At(Primary(p)))
    BY <1>2, <1>3, <2>1, PlainIs, RotsTouches, DisappearsTouches DEF Damage
  <2>2. CASE Validates(At(Backup(p)))
    BY <1>2, <1>3, <2>2, PlainIs, RotsTouches, DisappearsTouches DEF Damage
  <2> QED
    BY <2>1, <2>2 DEF Damage
<1>6. \A r \in Paths \ {p} : Unpromised(r)
  BY <1>1 DEF Unpromised, Damage
<1>7. /\ \A r \in Paths \ {p} : Unpromised(r) /\ (r \notin loose => Apart(r)) => Calm(r)
      /\ Roles' /\ Injective'
      /\ \A r \in Paths : Apart(r) => Apart(r)'
  BY <1>1, <1>2, <1>3, <1>5, FrameIs
<1>8. p \notin loose' => p \notin loose
  BY DEF Damage
<1>9. Reached(p, <<>>)'
  BY <1>4 DEF Reached
<1> QED
  BY <1>1, <1>2, <1>4, <1>6, <1>7, <1>8, <1>9, OnePath

\* What the client does keeps the invariant.
LEMMA ClientSure ==
    ASSUME SurviveIInv, FilesIInv', Struct', ClientCalls
    PROVE  Sure'
<1>1. ASSUME NEW p \in Paths, taf_pa_file_Delete(p) PROVE Sure'
  <2>1. PICK t : t = Deleting(p)
    OBVIOUS
  <2>2. t # <<>> /\ Head(t).do = "unlink" /\ Head(t).at = p /\ t[Len(t)].do # "renamed"
    BY <2>1, DeletingChained
  <2> QED
    BY <1>1, <2>1, <2>2, PlainCall DEF taf_pa_file_Delete
<1>2. ASSUME NEW p \in Paths, NEW flags \in {O_RDONLY, O_CREAT, O_TRUNC, O_EXCL},
             taf_pa_file_Open(p, flags)
      PROVE  Sure'
  <2>1. PICK t : t = <<StepWith("enter", p, flags)>>
    OBVIOUS
  <2>2. t # <<>> /\ Head(t).do = "enter" /\ Head(t).at = p /\ t[Len(t)].do # "renamed"
    BY <2>1, EnteringChained DEF ClientFlags
  <2> QED
    BY <1>2, <2>1, <2>2, PlainCall DEF taf_pa_file_Open
<1>3. ASSUME NEW p \in Paths, NEW q \in Paths, taf_pa_file_Copy(p, q) PROVE Sure'
  <2>1. PICK t : t = Copying(p, q)
    OBVIOUS
  <2>2. t # <<>> /\ Head(t).do = "enter" /\ Head(t).at = p /\ t[Len(t)].do # "renamed"
    BY <1>3, <2>1, CopyingChained DEF taf_pa_file_Copy
  <2> QED
    BY <1>3, <2>1, <2>2, PlainCall DEF taf_pa_file_Copy
<1>4. ASSUME NEW p \in Paths, NEW q \in Paths, taf_pa_file_Rename(p, q), Calls(RenamingByCopy(p, q))
      PROVE  Sure'
  <2>1. PICK t : t = RenamingByCopy(p, q)
    OBVIOUS
  <2>2. t # <<>> /\ Head(t).do = "enter" /\ Head(t).at = p /\ t[Len(t)].do # "renamed"
    BY <1>4, <2>1, RenamingByCopyChained DEF taf_pa_file_Rename
  <2> QED
    BY <1>4, <2>1, <2>2, PlainCall
<1>5. ASSUME NEW p \in Paths, NEW q \in Paths, taf_pa_file_Rename(p, q), Calls(Renaming(p, q))
      PROVE  Sure'
  <2>1. PICK t : t = Renaming(p, q)
    OBVIOUS
  <2>2. t # <<>> /\ Head(t).do = "move" /\ Head(t).at = p
    BY <1>5, <2>1, RenamingChained DEF taf_pa_file_Rename
  <2> QED
    BY <1>5, <2>1, <2>2, RenameCall DEF taf_pa_file_Rename, NoTrouble
<1> QED
  BY <1>1, <1>2, <1>3, <1>4, <1>5, WriteStep, CloseStep DEF ClientCalls, taf_pa_file_Rename

-----------------------------------------------------------------------------
(* What a crash leaves.                                                    *)

\* A disk on which nothing waits to be flushed, by its files.
SettledBy(files) ==
    /\ names = NamesFor(files) /\ inodes = InodesFor(files) /\ namesLeft = {names}
    /\ inodesLeft = [i \in 1..Len(inodes) |-> {inodes[i]}]

\* What its names lead to.
LEMMA SettledAre ==
    ASSUME NEW files \in [Names -> File \cup {NoFile}], SettledBy(files)
    PROVE  /\ Still /\ Injective
           /\ \A n \in Names : /\ At(n) = files[n] /\ Now(n) = {files[n]} /\ Reach(n) = {files[n]}
                               /\ Exists(n) <=> files[n] # NoFile
<1> DEFINE c == Cardinality(Names)
           NameOf(i) == CHOOSE n \in Names : Number[n] = i
<1>1. c \in Nat /\ \A i \in 1..c : NameOf(i) \in Names /\ Number[NameOf(i)] = i
  BY NumberIs
<1>2. inodes = [i \in 1..c |-> files[NameOf(i)]]
  BY DEF InodesFor, SettledBy
<1>3. \A n \in Names : Number[n] \in 1..c /\ NameOf(Number[n]) = n
  BY <1>1, NumberIs
<1> HIDE DEF c, NameOf
<1>4. Len(inodes) = c /\ \A i \in 1..c : inodes[i] = files[NameOf(i)]
  BY <1>1, <1>2
<1>5. \A i \in 1..c : inodesLeft[i] = {inodes[i]}
  BY <1>4 DEF SettledBy
<1>6. \A n \in Names : names[n] = IF files[n] = NoFile THEN 0 ELSE Number[n]
  BY DEF NamesFor, SettledBy
<1>7. \A n \in Names : Number[n] # 0
  BY <1>1, <1>3
<1>8. Injective
  BY <1>6, <1>7, NumberIs DEF Injective, Exists
<1>9. \A n \in Names : At(n) = files[n] /\ Now(n) = {files[n]} /\ (Exists(n) <=> files[n] # NoFile)
  <2> SUFFICES ASSUME NEW n \in Names
               PROVE  At(n) = files[n] /\ Now(n) = {files[n]} /\ (Exists(n) <=> files[n] # NoFile)
    OBVIOUS
  <2>1. inodes[Number[n]] = files[n] /\ inodesLeft[Number[n]] = {files[n]}
    BY <1>3, <1>4, <1>5
  <2> QED
    BY <1>6, <1>7, <2>1 DEF At, Now, Left, Exists
<1>10. Still
  BY DEF SettledBy, Still
<1> QED
  BY <1>8, <1>9, <1>10 DEF Reach, Now, Still

\* The same in the next state.
LEMMA SettledAreNext ==
    (\A files \in [Names -> File \cup {NoFile}] : SettledBy(files) =>
         /\ Still /\ Injective
         /\ \A n \in Names : /\ At(n) = files[n] /\ Now(n) = {files[n]} /\ Reach(n) = {files[n]}
                             /\ Exists(n) <=> files[n] # NoFile)'
<1>1. \A files \in [Names -> File \cup {NoFile}] : SettledBy(files) =>
         /\ Still /\ Injective
         /\ \A n \in Names : /\ At(n) = files[n] /\ Now(n) = {files[n]} /\ Reach(n) = {files[n]}
                             /\ Exists(n) <=> files[n] # NoFile
  BY SettledAre
<1> QED
  BY <1>1, PTL

\* A crash leaves each name a file that it may leave.
LEMMA CrashLeaves ==
    ASSUME Disk, Crash
    PROVE  /\ Still' /\ Injective'
           /\ \A n \in Names : At(n)' \in Reach(n) /\ Now(n)' = {At(n)'} /\ Reach(n)' = {At(n)'}
           /\ \E left \in namesLeft : \A n \in Names : At(n)' \in Left(left[n])
<1>1. PICK left \in namesLeft :
          LET unsure == {n \in Names : Cardinality(Left(left[n])) > 1}
          IN  \E found \in [unsure -> UNION {Left(left[n]) : n \in unsure}] :
                   /\ \A n \in unsure : found[n] \in Left(left[n])
                   /\ LET files == [n \in Names |-> IF n \in unsure THEN found[n]
                                                    ELSE CHOOSE f \in Left(left[n]) : TRUE]
                      IN  names' = NamesFor(files) /\ inodes' = InodesFor(files)
  BY Zenon DEF Crash
<1> DEFINE unsure == {n \in Names : Cardinality(Left(left[n])) > 1}
<1>2. PICK found \in [unsure -> UNION {Left(left[n]) : n \in unsure}] :
          /\ \A n \in unsure : found[n] \in Left(left[n])
          /\ LET files == [n \in Names |-> IF n \in unsure THEN found[n]
                                           ELSE CHOOSE f \in Left(left[n]) : TRUE]
             IN  names' = NamesFor(files) /\ inodes' = InodesFor(files)
  BY <1>1, Zenon
<1> DEFINE files == [n \in Names |-> IF n \in unsure THEN found[n]
                                     ELSE CHOOSE f \in Left(left[n]) : TRUE]
<1>3. \A n \in Names : left[n] \in Ids
  BY DEF Disk, DiskTypeOK
<1> HIDE DEF unsure
<1>4. \A n \in Names : files[n] \in File \cup {NoFile} /\ files[n] \in Reach(n) /\ files[n] \in Left(left[n])
  <2> SUFFICES ASSUME NEW n \in Names
               PROVE  files[n] \in File \cup {NoFile} /\ files[n] \in Reach(n) /\ files[n] \in Left(left[n])
    BY Zenon
  <2>1. Left(left[n]) # {} /\ Left(left[n]) \subseteq File \cup {NoFile}
    BY <1>3, LeftIs
  <2>2. files[n] \in Left(left[n])
    BY <1>2, <2>1
  <2> QED
    BY <2>1, <2>2 DEF Reach
<1>5. files \in [Names -> File \cup {NoFile}]
  BY <1>4
<1>6. names' = NamesFor(files) /\ inodes' = InodesFor(files)
  BY <1>2
<1>7. namesLeft' = {names'} /\ inodesLeft' = [i \in 1..Len(inodes') |-> {inodes'[i]}]
  BY DEF Crash
<1> HIDE DEF files
<1>8. PICK g : g = files
  OBVIOUS
<1>9. g \in [Names -> File \cup {NoFile}] /\ \A n \in Names : g[n] \in Reach(n) /\ g[n] \in Left(left[n])
  BY <1>4, <1>5, <1>8
<1>10. SettledBy(g)'
  BY <1>6, <1>7, <1>8 DEF SettledBy
<1> QED
  BY <1>9, <1>10, SettledAreNext

\* Whatever a crash leaves of a path was worth something, and rests.
LEMMA CrashStep ==
    ASSUME SurviveIInv, FilesIInv', Struct', Crash
    PROVE  Sure'
<1>1. /\ Disk /\ Disk' /\ trouble' # 0 /\ UNCHANGED <<worth, loose>>
      /\ fds' = {} /\ todo' = <<>> /\ ~failed' /\ backupResult' /\ AllSafe
  BY DEF SurviveIInv, Sure, FilesIInv, ClientTypeOK, Crash, promiseVars
<1>2. /\ Still' /\ Injective'
      /\ \A n \in Names : At(n)' \in Reach(n) /\ Now(n)' = {At(n)'} /\ Reach(n)' = {At(n)'}
  BY <1>1, CrashLeaves
<1>3. ASSUME NEW p \in Paths
      PROVE  Rest(p)' /\ (p \notin loose' => Safe(p)' /\ Apart(p)')
  <2>1. Primary(p) \in Names /\ Backup(p) \in Names
    BY NamesAre
  <2>2. Durable(Primary(p))' /\ Durable(Backup(p))'
    BY <1>2, StillNext
  <2>3. Resting(p, FALSE)'
    BY <1>1, <1>2, <2>1, <2>2 DEF Resting, Watched, Kept, Labels, Uniform, Flush, Content
  <2>4. Rest(p)'
    BY <1>1, <2>3, RestIsNext DEF Writer
  <2>5. p \notin loose' => Safe(p)'
    BY <1>1, <1>2, <2>1, SafeShrinks DEF AllSafe
  <2>6. Apart(p)'
    BY <1>1, <1>2, <2>2, DurableApartNext
  <2> QED
    BY <2>4, <2>5, <2>6
<1>4. Roles'
  BY <1>1 DEF Roles
<1> QED
  BY <1>1, <1>2, <1>3, <1>4
     DEF Sure, AllSafe, AllApart, Point, OthersRest, AtRest, NotRename, Busy

\* At first every path is worth what it has.
LEMMA SureInit == FilesInit => Sure
<1> SUFFICES ASSUME FilesInit PROVE Sure
  OBVIOUS
<1>1. PICK kept \in SUBSET Paths, untracked \in SUBSET Paths :
          /\ LET files == [n \in Names |->
                     IF n[1] \in kept THEN [data |-> n[1], label |-> n[1]]
                     ELSE IF n[1] \in untracked /\ n[2] = "primary"
                     THEN [data |-> n[1], label |-> "none"] ELSE NoFile]
             IN  names = NamesFor(files) /\ inodes = InodesFor(files)
          /\ worth = [p \in Paths |->
                 IF p \in kept \cup untracked THEN {p} ELSE {"missing"}]
  BY Zenon DEF FilesInit
<1> DEFINE files == [n \in Names |->
                IF n[1] \in kept THEN [data |-> n[1], label |-> n[1]]
                ELSE IF n[1] \in untracked /\ n[2] = "primary"
                THEN [data |-> n[1], label |-> "none"] ELSE NoFile]
<1>2. files \in [Names -> File \cup {NoFile}]
  <2>1. \A n \in Names : n[1] \in Data
    BY DEF Names, Data, Whole
  <2>2. \A n \in Names : files[n] \in File \cup {NoFile}
    BY <2>1, FileIs
  <2> QED
    BY <2>2
<1>3. names = NamesFor(files) /\ inodes = InodesFor(files)
  BY <1>1
<1>4. \A p \in Paths :
          /\ files[Primary(p)] = IF p \in kept THEN Sealed(p) ELSE IF p \in untracked THEN Bare(p) ELSE NoFile
          /\ files[Backup(p)] = IF p \in kept THEN Sealed(p) ELSE NoFile
  BY NamesAre DEF Primary, Backup, Sealed, Bare
<1> HIDE DEF files
<1>5. Len(inodes) = Cardinality(Names)
  BY <1>3, NumberIs DEF InodesFor
<1>6. SettledBy(files)
  BY <1>3, <1>5 DEF FilesInit, SettledBy
<1>7. /\ Still /\ Injective
      /\ \A n \in Names : /\ At(n) = files[n] /\ Now(n) = {files[n]} /\ Reach(n) = {files[n]}
                          /\ Exists(n) <=> files[n] # NoFile
  BY <1>2, <1>6, SettledAre
<1>8. /\ fds = {} /\ todo = <<>> /\ ~failed /\ backupResult /\ loose = {} /\ trouble = 0
      /\ \A p \in Paths : worth[p] = IF p \in kept \cup untracked THEN {p} ELSE {"missing"}
  BY <1>1 DEF FilesInit
<1>9. ASSUME NEW p \in Paths PROVE Rest(p) /\ Safe(p) /\ Apart(p)
  <2>1. Primary(p) \in Names /\ Backup(p) \in Names
    BY NamesAre
  <2>2. p # "none" /\ p \in Data
    BY FilesAssumption DEF Data, Whole
  <2>8. Sealed(p) # NoFile /\ Bare(p) # NoFile
    BY <2>2 DEF Sealed, Bare, NoFile
  <2>3. Durable(Primary(p)) /\ Durable(Backup(p)) /\ ~Writer(p)
    BY <1>7, <1>8 DEF Still, Durable, Writer
  <2>4. Apart(p)
    <3>1. Disk
      BY <1>2, <1>6, SettledDisk DEF SettledBy, Settled
    <3> QED
      BY <1>7, <2>3, <3>1, DurableApart
  <2>5. CASE p \in kept
    <3>1. /\ At(Primary(p)) = Sealed(p) /\ At(Backup(p)) = Sealed(p) /\ worth[p] = {p}
          /\ Reach(Primary(p)) = {Sealed(p)} /\ Reach(Backup(p)) = {Sealed(p)}
          /\ Now(Primary(p)) = {Sealed(p)} /\ Now(Backup(p)) = {Sealed(p)}
          /\ Exists(Primary(p))
      BY <1>4, <1>7, <1>8, <2>1, <2>5, <2>8
    <3>2. Resting(p, FALSE)
      BY <2>2, <2>3, <3>1 DEF Resting, Labels, Uniform, Own, Flush, Content, Validates, Sealed
    <3>3. Safe(p)
      BY <2>2, <3>1 DEF Safe, Trusts, Found, Validates, Sealed, NoFile
    <3> QED
      BY <2>3, <2>4, <3>2, <3>3, RestIs
  <2>6. CASE p \in untracked \ kept
    <3>1. /\ At(Primary(p)) = Bare(p) /\ At(Backup(p)) = NoFile /\ worth[p] = {p}
          /\ Reach(Primary(p)) = {Bare(p)} /\ Reach(Backup(p)) = {NoFile}
          /\ Now(Primary(p)) = {Bare(p)} /\ Now(Backup(p)) = {NoFile}
          /\ Exists(Primary(p)) /\ ~Exists(Backup(p))
      BY <1>4, <1>7, <1>8, <2>1, <2>6, <2>8
    <3>2. Resting(p, FALSE)
      BY <2>2, <2>3, <3>1 DEF Resting, Labels, Uniform, Own, Flush, Content, Validates, Bare
    <3>3. Safe(p)
      BY <2>2, <3>1 DEF Safe, Trusts, Found, Validates, Bare, NoFile
    <3> QED
      BY <2>3, <2>4, <3>2, <3>3, RestIs
  <2>7. CASE p \notin untracked \cup kept
    <3>1. /\ At(Primary(p)) = NoFile /\ At(Backup(p)) = NoFile /\ worth[p] = {"missing"}
          /\ Reach(Primary(p)) = {NoFile} /\ Reach(Backup(p)) = {NoFile}
          /\ Now(Primary(p)) = {NoFile} /\ Now(Backup(p)) = {NoFile}
          /\ ~Exists(Primary(p)) /\ ~Exists(Backup(p))
      BY <1>4, <1>7, <1>8, <2>1, <2>7
    <3>2. Resting(p, FALSE)
      BY <2>3, <3>1 DEF Resting, Labels, Uniform, Own, Flush, Content, Validates, NoFile
    <3>3. Safe(p)
      BY <3>1 DEF Safe, Trusts, Found, Validates, NoFile
    <3> QED
      BY <2>3, <2>4, <3>2, <3>3, RestIs
  <2> QED
    BY <2>5, <2>6, <2>7
<1>10. Roles /\ Struct
  BY <1>8, NothingChained DEF Roles, Struct
<1> QED
  BY <1>7, <1>8, <1>9, <1>10 DEF Sure, AllSafe, AllApart, Point, OthersRest, AtRest, NotRename, Busy

\* Nothing happens to a path of a call.
LEMMA UnmovedPlace ==
    ASSUME UNCHANGED diskVars, UNCHANGED <<fds, worth, loose, trouble>>,
           UNCHANGED <<failed, backupResult>>, NEW p \in Paths
    PROVE  /\ \A d, l, flags : Place(p, d, l, flags)' <=> Place(p, d, l, flags)
           /\ \A q \in Paths : \A d, at : RenameAt(p, q, d, at)' <=> RenameAt(p, q, d, at)
<1>1. \A q \in Paths :
          /\ Rest(q)' <=> Rest(q)
          /\ \A w : Resting(q, w)' <=> Resting(q, w)
          /\ Exists(Primary(q))' <=> Exists(Primary(q))
          /\ \A f : MayOpen(q, f)' <=> MayOpen(q, f)
          /\ \A d, l : Block(q, d, l)' <=> Block(q, d, l)
          /\ Closed(q)' <=> Closed(q)
  BY Unmoved
<1>2. \A n \in Names : Same(n) /\ (Exists(n)' <=> Exists(n)) /\ (Newest(n)' <=> Newest(n))
                       /\ (Durable(n)' <=> Durable(n))
  BY NoEffect
<1>3. Still' <=> Still
  BY NoEffect
<1>4. \A q \in Paths : Primary(q) \in Names /\ Backup(q) \in Names
  BY NamesAre
<1>5. \A q \in Paths :
          /\ At(Primary(q))' = At(Primary(q)) /\ At(Backup(q))' = At(Backup(q))
          /\ Now(Primary(q))' = Now(Primary(q)) /\ Now(Backup(q))' = Now(Backup(q))
          /\ Content(q)' = Content(q) /\ (Exists(Backup(q))' <=> Exists(Backup(q)))
          /\ (Durable(Primary(q))' <=> Durable(Primary(q)))
          /\ (Durable(Backup(q))' <=> Durable(Backup(q)))
          /\ (Newest(Primary(q))' <=> Newest(Primary(q)))
  BY <1>2, <1>4 DEF Same, Content
<1>6. \A q \in Paths : (Own(q)' <=> Own(q)) /\ (Labels(q)' <=> Labels(q)) /\ (Uniform(q)' <=> Uniform(q))
                       /\ (Watched(q)' <=> Watched(q)) /\ (Kept(q)' <=> Kept(q))
                       /\ (Flush(q)' <=> Flush(q)) /\ (Writer(q)' <=> Writer(q))
                       /\ (Backed(q)' <=> Backed(q))
  BY <1>1, <1>3, <1>5 DEF Own, Labels, Uniform, Watched, Kept, Flush, Writer, Backed, diskVars
<1>7. \A d : Restoring(p, d)' <=> Restoring(p, d)
  BY <1>1, <1>3, <1>5, <1>6 DEF Restoring, Validates
<1>8. (Summed(p)' <=> Summed(p)) /\ \A d : Gone(p, d)' <=> Gone(p, d)
  BY <1>1, <1>5, <1>6 DEF Summed, Gone, Validates
<1>9. \A d, l, flags : Place(p, d, l, flags)' <=> Place(p, d, l, flags)
  <2> SUFFICES ASSUME NEW d, NEW l, NEW flags
               PROVE  Place(p, d, l, flags)' <=> Place(p, d, l, flags)
    OBVIOUS
  <2>1. PICK w : w = WantsFresh(flags)
    OBVIOUS
  <2>2. MayOpen(p, WantsFresh(flags))' <=> MayOpen(p, WantsFresh(flags))
    BY <1>1, <2>1
  <2>3. HasMatchingBackup(p)' <=> HasMatchingBackup(p)
    BY <1>5 DEF HasMatchingBackup, Validates, Content
  <2>4. MayOpen(p, FALSE)' <=> MayOpen(p, FALSE)
    BY <1>1
  <2>5. Resting(p, TRUE)' <=> Resting(p, TRUE)
    BY <1>1
  <2>6. Block(p, d, l)' <=> Block(p, d, l)
    BY <1>1
  <2>7. /\ (At(Primary(p)) = Sealed(Content(p)))' <=> At(Primary(p)) = Sealed(Content(p))
        /\ (Now(Primary(p)) = {Sealed(Content(p))})' <=> Now(Primary(p)) = {Sealed(Content(p))}
    BY <1>5 DEF Sealed
  <2>8. /\ Rest(p)' <=> Rest(p)
        /\ (trouble = 0 /\ Closed(p))' <=> (trouble = 0 /\ Closed(p))
        /\ Exists(Primary(p))' <=> Exists(Primary(p))
        /\ Exists(Backup(p))' <=> Exists(Backup(p))
        /\ Durable(Primary(p))' <=> Durable(Primary(p))
        /\ Durable(Backup(p))' <=> Durable(Backup(p))
        /\ Restoring(p, d)' <=> Restoring(p, d)
        /\ Summed(p)' <=> Summed(p)
        /\ Gone(p, d)' <=> Gone(p, d)
        /\ failed' <=> failed
    BY <1>1, <1>5, <1>7, <1>8
  <2>9. Place(p, d, l, flags) => Place(p, d, l, flags)'
    BY ONLY <2>2, <2>3, <2>4, <2>5, <2>6, <2>7, <2>8 DEF Place
  <2>10. Place(p, d, l, flags)' => Place(p, d, l, flags)
    BY ONLY <2>2, <2>3, <2>4, <2>5, <2>6, <2>7, <2>8 DEF Place
  <2> QED
    BY <2>9, <2>10
<1>10. \A q \in Paths : Source(p, q)' <=> Source(p, q)
  BY <1>1, <1>5, <1>6 DEF Source, Exists, diskVars
<1>11. \A q \in Paths : \A d : Target(q, d)' <=> Target(q, d)
  BY <1>1, <1>5, <1>6 DEF Target
<1>12. \A q \in Paths : \A d, at : RenameAt(p, q, d, at)' <=> RenameAt(p, q, d, at)
  BY <1>1, <1>5, <1>6, <1>10, <1>11 DEF RenameAt, Validates
<1> QED
  BY <1>9, <1>12

\* Nothing happens.
LEMMA SureStays ==
    ASSUME Sure, UNCHANGED fileVars
    PROVE  Sure'
<1>1. UNCHANGED diskVars /\ UNCHANGED <<names, namesLeft, inodes, inodesLeft, fds, todo, failed, backupResult,
                                        worth, loose, moving, trouble>>
  BY DEF fileVars, diskVars, promiseVars
<1>2. Struct' /\ Injective' /\ Roles'
  BY <1>1 DEF Sure, Struct, Injective, Roles, Exists
<1>3. \A p \in Paths : (Rest(p)' <=> Rest(p)) /\ (Safe(p)' <=> Safe(p)) /\ (Apart(p)' <=> Apart(p))
  BY <1>1, Unmoved, NoEffect
<1>4. PICK s : s = Head(todo)
  OBVIOUS
<1>5. PICK e : e = Last
  OBVIOUS
<1>6. PICK l : l = Ahead
  OBVIOUS
<1>7. Head(todo)' = s /\ Last' = e /\ Ahead' = l
  BY <1>1, <1>4, <1>5, <1>6 DEF Last, Ahead
<1>8. /\ Busy' = Busy /\ (Renames(Head(todo), Last)' <=> Renames(Head(todo), Last))
      /\ UNCHANGED <<todo, failed, backupResult, loose>>
  BY <1>1, <1>4, <1>5, <1>7 DEF Busy, Renames, Path
<1>9. OthersRest' /\ AllSafe'
  BY <1>3, <1>8 DEF Sure, OthersRest, AllSafe
<1>10. AllApart'
  BY <1>3, <1>5, <1>7, <1>8 DEF Sure, AllApart
<1>11. AtRest' /\ NotRename'
  BY <1>8 DEF Sure, AtRest, NotRename
<1>12. Point'
  <2>1. CASE todo = <<>>
    BY <1>8, <2>1 DEF Point
  <2>2. CASE todo # <<>>
    <3>1. s.at \in Paths /\ s \in FileSteps /\ e \in FileSteps
      <4>1. Chained(todo)
        BY DEF Sure, Struct
      <4>2. s \in FileSteps
        BY <1>4, <2>2, <4>1, TailChained
      <4>3. e \in FileSteps
        BY <1>5, <2>2, <4>1 DEF Chained, Last
      <4> QED
        BY <4>2, <4>3 DEF FileSteps
    <3>2. e.at \in Paths /\ e.to \in Paths
      BY <3>1 DEF FileSteps
    <3>3. PointAt(s, l, e)
      BY <1>4, <1>5, <1>6, <2>2 DEF Sure, Point
    <3>4. PointAt(s, l, e)'
      BY <1>1, <1>8, <3>1, <3>2, <3>3, UnmovedPlace DEF PointAt, Renames
    <3> QED
      BY <1>7, <3>4 DEF Point
  <2> QED
    BY <2>1, <2>2
<1> QED
  BY <1>2, <1>9, <1>10, <1>11, <1>12 DEF Sure

-----------------------------------------------------------------------------
(* A rename.  The file leaves its source at once, and its target is made    *)
(* sure of step by step; what a crash may bring back of the source is the   *)
(* file that the target has now.                                            *)

\* The content of a path that is not exempt is one a client may be told of.
LEMMA WorthIs ==
    ASSUME ClientTypeOK, Disk, NEW p \in Paths, Exists(Primary(p)), Content(p) \in worth[p]
    PROVE  Content(p) \in Whole
<1>1. Content(p) \in Whole \cup {"part", "rot"}
  BY PlainIs DEF Data
<1>2. Content(p) \in Whole \cup {"missing"}
  BY DEF ClientTypeOK
<1> QED
  BY <1>1, <1>2

\* A source that is gone is worth what its target has.
LEMMA SourceSafe ==
    ASSUME Disk, NEW p \in Paths, NEW q \in Paths, Source(p, q), p \notin loose, Exists(Primary(q)),
           \A g \in Reach(Backup(p)) : Validates(g) => g.data \in worth[p]
    PROVE  Safe(p)
<1>1. PICK c : c = Content(q)
  OBVIOUS
<1>2. c # "none" /\ c \in worth[p] /\ "missing" \in worth[p]
  BY <1>1, PlainIs DEF Source
<1>3. \A f \in Reach(Primary(p)) : f = NoFile \/ f \in Now(Primary(q))
  BY DEF Reach, Source, Left, Now
<1>4. \A f \in Now(Primary(q)) : f.data = c /\ f.label \in {"none", c}
  BY <1>1 DEF Source, Uniform, Labels, Own
<1>5. ASSUME NEW f \in Reach(Primary(p)), NEW g \in Reach(Backup(p)) PROVE Trusts(p, f, g)
  <2>1. CASE f = NoFile
    BY <1>2, <1>5, <2>1 DEF Trusts, Found, NoFile
  <2>2. CASE f.data = c /\ f.label \in {"none", c}
    <3>1. f # NoFile
      BY <1>2, <2>2 DEF NoFile
    <3> QED
      BY <1>2, <1>5, <2>2, <3>1 DEF Trusts, Found, Validates
  <2> QED
    BY <1>3, <1>4, <2>1, <2>2
<1> QED
  BY <1>5 DEF Safe

\* The same in the next state.
LEMMA SourceSafeNext ==
    (\A p, q \in Paths : (Disk /\ Source(p, q) /\ p \notin loose /\ Exists(Primary(q))
         /\ \A g \in Reach(Backup(p)) : Validates(g) => g.data \in worth[p]) => Safe(p))'
<1>1. \A p, q \in Paths : (Disk /\ Source(p, q) /\ p \notin loose /\ Exists(Primary(q))
         /\ \A g \in Reach(Backup(p)) : Validates(g) => g.data \in worth[p]) => Safe(p)
  BY SourceSafe
<1> QED
  BY <1>1, PTL

\* A target whose name is flushed is worth what it has.
LEMMA TargetSafe ==
    ASSUME Disk, NEW q \in Paths, NEW d, Target(q, d), d # "sync_move", q \notin loose,
           \A g \in Reach(Backup(q)) : Validates(g) => g.data \in worth[q]
    PROVE  Safe(q)
<1>1. PICK c : c = Content(q)
  OBVIOUS
<1>2. c # "none" /\ c \in worth[q]
  BY <1>1, PlainIs DEF Target
<1>3. Reach(Primary(q)) = Now(Primary(q))
  BY NowIs, NamesAre DEF Target
<1>4. \A f \in Reach(Primary(q)) : f.data = c /\ f.label \in {"none", c}
  BY <1>1, <1>3 DEF Target, Watched, Uniform, Labels, Own
<1> QED
  BY <1>2, <1>4, SafeFrom

\* The same in the next state.
LEMMA TargetSafeNext ==
    (\A q \in Paths : \A d : (Disk /\ Target(q, d) /\ d # "sync_move" /\ q \notin loose
         /\ \A g \in Reach(Backup(q)) : Validates(g) => g.data \in worth[q]) => Safe(q))'
<1>1. \A q \in Paths : \A d : (Disk /\ Target(q, d) /\ d # "sync_move" /\ q \notin loose
         /\ \A g \in Reach(Backup(q)) : Validates(g) => g.data \in worth[q]) => Safe(q)
  BY TargetSafe
<1> QED
  BY <1>1, PTL

\* The backups of a path that is safe.
LEMMA SafeIs ==
    ASSUME Disk, NEW p \in Paths, Safe(p)
    PROVE  \A g \in Reach(Backup(p)) : Validates(g) => g.data \in worth[p]
<1>1. At(Primary(p)) \in Reach(Primary(p))
  BY NowIs, NamesAre
<1> QED
  BY <1>1 DEF Safe, Trusts

\* What is to be shown of a step of a rename that goes on.
LEMMA PairPath ==
    ASSUME SurviveIInv, Struct', NEW p \in Paths, NEW q \in Paths, p # q, NEW t, t = todo', t # <<>>,
           t[Len(t)].do = "renamed", t[Len(t)].at = p, t[Len(t)].to = q, Head(t).do # "move",
           Roles', Injective',
           \A r \in Paths \ {p, q} : Calm(r) /\ Rest(r) /\ (r \notin loose => Apart(r)'),
           RenameAt(p, q, Head(t).do, Head(t).at)',
           q \notin loose' => Safe(q)' /\ Apart(q)', p \notin loose' => Safe(p)'
    PROVE  Sure'
<1>1. \A r \in Paths \ {p, q} : Rest(r)' /\ (r \notin loose' => Safe(r)' /\ Apart(r)')
  <2> SUFFICES ASSUME NEW r \in Paths \ {p, q}
               PROVE  Rest(r)' /\ (r \notin loose' => Safe(r)' /\ Apart(r)')
    OBVIOUS
  <2>1. Calm(r) /\ Rest(r) /\ (r \notin loose => Safe(r) /\ Apart(r)')
    BY DEF SurviveIInv, Sure, AllSafe
  <2> QED
    BY <2>1, CalmPath DEF Calm
<1>2. PICK e : e = t[Len(t)]
  OBVIOUS
<1>3. e.do = "renamed" /\ e.at = p /\ e.to = q
  BY <1>2
<1>4. Last' = e
  BY <1>2 DEF Last
<1>5. PICK s : s = Head(t)
  OBVIOUS
<1>6. Head(todo)' = s /\ s.do # "move" /\ RenameAt(p, q, s.do, s.at)'
  BY <1>5
<1>7. Renames(Head(todo), Last)'
  BY <1>3, <1>4, <1>6 DEF Renames
<1>8. Point'
  <2>1. PICK l : l = AheadOf(t)
    OBVIOUS
  <2>2. Ahead' = l
    BY <2>1 DEF Ahead
  <2>3. PointAt(s, l, e)'
    BY <1>3, <1>6 DEF PointAt, Renames
  <2> QED
    BY <1>4, <1>6, <2>2, <2>3 DEF Point
<1>9. Busy' = {p, q}
  BY <1>3, <1>4, <1>7 DEF Busy
<1>10. OthersRest' /\ AtRest' /\ NotRename'
  BY <1>1, <1>7, <1>9 DEF OthersRest, AtRest, NotRename
<1>11. AllSafe'
  BY <1>1 DEF AllSafe
<1>12. AllApart'
  BY <1>1, <1>3, <1>4, <1>7 DEF AllApart
<1> QED
  BY <1>8, <1>10, <1>11, <1>12 DEF Sure

\* The file leaves its source.
LEMMA MoveSure ==
    ASSUME SurviveIInv, FilesIInv', Struct', Move
    PROVE  Sure'
<1>1. PICK p : p = Path
  OBVIOUS
<1>2. PICK q : q = Head(todo).to
  OBVIOUS
<1>3. PICK t : t = todo'
  OBVIOUS
<1>4. /\ Struct /\ FilesIInv /\ FilesIInv' /\ Injective /\ Roles /\ Point /\ OthersRest /\ AllSafe /\ AllApart
      /\ NotRename /\ Disk /\ Disk'
  BY DEF SurviveIInv, Sure, FilesIInv
<1>5. /\ todo # <<>> /\ Head(todo).do = "move" /\ ~Renames(Head(todo), Last)
      /\ UNCHANGED <<fds, backupResult, rounds, trouble>>
  BY DEF Move, Doing, NoCall, Renames
<1>6. /\ Head(todo) \in FileSteps /\ p \in Paths /\ q \in Paths /\ p # q
      /\ Last.do = "renamed" /\ Last.at = p /\ Last.to = q
  <2>1. Head(todo) \in FileSteps /\ Belongs(Head(todo), Last)
    BY <1>4, <1>5, TailChained DEF Struct, Last
  <2> QED
    BY <1>1, <1>2, <1>5, <2>1 DEF Belongs, PairDeeds, TargetDeeds, BlockDeeds, FileSteps, Path
<1>7. Rest(p) /\ trouble = 0 /\ Closed(p) /\ ~failed /\ backupResult
  <2>1. PointAt(Head(todo), Ahead, Last)
    BY <1>4, <1>5 DEF Point
  <2>2. Place(p, "move", Ahead, Head(todo).flags) /\ (failed => "move" \in Landings)
    BY <1>1, <1>5, <2>1 DEF PointAt, Path
  <2> QED
    BY <1>4, <1>5, <2>2 DEF Place, RestDeeds, Landings, NotRename
<1>8. /\ \A r \in Paths : Rest(r)
      /\ \A r \in Paths \ loose : Apart(r) /\ Safe(r)
  BY <1>1, <1>4, <1>5, <1>7 DEF OthersRest, Busy, AllApart, AllSafe
<1>9. CASE ~Exists(Primary(p))
  <2>1. EndCall /\ UNCHANGED <<diskVars, worth, loose>>
    BY <1>1, <1>9 DEF Move
  <2> QED
    BY <1>5, <1>7, <1>8, <2>1, NothingHappens DEF EndCall
<1>10. CASE Exists(Primary(p))
  <2>1. PICK c : c = Content(p)
    OBVIOUS
  <2>2. /\ Proceeds
        /\ names' = [names EXCEPT ![Primary(q)] = names[Primary(p)], ![Primary(p)] = 0]
        /\ namesLeft' = namesLeft \cup {names'}
        /\ worth' = [worth EXCEPT ![q] = @ \cup ({c} \cap Whole), ![p] = @ \cup {"missing"}]
        /\ loose' = IF p \in loose \/ c \notin worth[p] \/ At(Primary(p)).label \notin {c, "none"}
                    THEN loose \cup {q} ELSE loose
        /\ UNCHANGED <<failed, inodes, inodesLeft>>
    BY <1>1, <1>2, <1>10, <2>1 DEF Move
  <2>3. Primary(p) \in Names /\ Primary(q) \in Names /\ Backup(p) \in Names /\ Backup(q) \in Names
        /\ Primary(p) # Primary(q)
    BY <1>6, NamesAre
  <2>4. /\ ~Exists(Primary(p))' /\ At(Primary(p))' = NoFile /\ Now(Primary(p))' = {NoFile}
        /\ Exists(Primary(q))' /\ At(Primary(q))' = At(Primary(p)) /\ Now(Primary(q))' = Now(Primary(p))
        /\ names'[Primary(q)] = names[Primary(p)]
        /\ \A o \in Names \ {Primary(p), Primary(q)} : Same(o) /\ Stable(o)
        /\ \A x \in Reach(Primary(p))' : x = NoFile \/ x \in Reach(Primary(p))
        /\ \A x \in Reach(Primary(q))' : x \in Now(Primary(p)) \/ x \in Reach(Primary(q))
        /\ \A left \in namesLeft' : left \in namesLeft \/ left[Primary(p)] = 0
        /\ Injective'
        /\ \A r \in Paths : Primary(p) # Primary(r) /\ Primary(p) # Backup(r) /\ Apart(r) => Apart(r)'
    BY <1>4, <1>10, <2>2, <2>3, MoveEffect
  <2>5. Same(Backup(p)) /\ Stable(Backup(p)) /\ Same(Backup(q)) /\ Stable(Backup(q))
    BY <1>6, <2>3, <2>4, NamesAre
  <2>6. worth'[p] = worth[p] \cup {"missing"} /\ worth'[q] = worth[q] \cup ({c} \cap Whole)
        /\ \A r \in Paths \ {p, q} : Unpromised(r)
    BY <1>4, <1>6, <2>2 DEF Unpromised, FilesIInv, ClientTypeOK
  <2>7. (p \notin loose' => p \notin loose) /\ (q \notin loose' => q \notin loose /\ p \notin loose
            /\ c \in worth[p] /\ At(Primary(p)).label \in {c, "none"})
    BY <1>6, <2>2
  \* What was known of the source.
  <2>8. /\ Labels(p) /\ Uniform(p) /\ Own(p) /\ ~Writer(p)
        /\ p \notin loose => Durable(Primary(p)) /\ Durable(Backup(p)) /\ c \in worth[p]
    <3>1. ~Writer(p)
      BY <1>7 DEF Closed, Writer
    <3>2. Resting(p, FALSE)
      BY <1>6, <1>7, <3>1, RestIs
    <3> QED
      BY <1>7, <1>10, <2>1, <3>1, <3>2 DEF Resting, Watched, Kept, Flush
  <2>9. /\ Content(q)' = c /\ Own(q)' /\ Labels(q)' /\ Uniform(q)'
    BY <2>1, <2>4, <2>8 DEF Own, Labels, Uniform, Content
  <2>10. c \in Data /\ c # "none" /\ (c \in worth[p] => c \in Whole)
    BY <1>4, <1>6, <1>10, <2>1, PlainIs, WorthIs DEF FilesIInv
  <2>11. Target(q, "sync_move")'
    <3>1. ~Writer(q)'
      BY <1>5, <1>7, <2>4 DEF Writer, Closed
    <3> QED
      BY <2>4, <2>6, <2>7, <2>9, <2>10, <3>1 DEF Target
  <2>12. Source(p, q)'
    <3> SUFFICES ASSUME p \notin loose'
                 PROVE  /\ ("missing" \in worth[p] /\ Content(q) \in worth[p])'
                        /\ (\A left \in namesLeft : left[Primary(p)] \in {0, names[Primary(q)]})'
                        /\ (\A left \in namesLeft, m \in Names :
                               left[Backup(p)] = names[m] /\ Exists(m) => m = Backup(p))'
      BY <2>4, <2>9 DEF Source
    <3>1. Durable(Primary(p)) /\ Durable(Backup(p)) /\ c \in worth[p]
      BY <2>7, <2>8
    <3>2. ("missing" \in worth[p] /\ Content(q) \in worth[p])'
      BY <2>6, <2>9, <3>1
    <3>3. (\A left \in namesLeft : left[Primary(p)] \in {0, names[Primary(q)]})'
      BY <2>4, <3>1 DEF Durable
    <3>4. \A left \in namesLeft' : left[Backup(p)] = names'[Backup(p)]
      BY <2>2, <2>5, <3>1 DEF Durable, Same
    <3>5. (\A left \in namesLeft, m \in Names :
                left[Backup(p)] = names[m] /\ Exists(m) => m = Backup(p))'
      <4> SUFFICES ASSUME NEW left \in namesLeft', NEW m \in Names,
                          left[Backup(p)] = names'[m], Exists(m)'
                   PROVE  m = Backup(p)
        OBVIOUS
      <4>1. names'[m] = names'[Backup(p)]
        BY <3>4
      <4> QED
        BY <2>3, <2>4, <4>1 DEF Injective
    <3> QED
      BY <3>2, <3>3, <3>5
  <2>13. PICK s : s = Head(t)
    OBVIOUS
  <2>14. t # <<>> /\ s.do = "sync_move" /\ s.at = q /\ t[Len(t)] = Last
    <3>1. t = Tail(todo)
      BY <1>3, <2>2 DEF Proceeds
    <3>2. t # <<>> /\ Follows(Head(todo), s) /\ t[Len(t)] = Last
      BY <1>4, <1>5, <2>13, <3>1, Comes DEF Endings
    <3> QED
      BY <1>2, <1>5, <3>2 DEF Follows, FollowsHere, FollowsThere
  <2>15. RenameAt(p, q, "sync_move", q)'
    <3>1. (Exists(Backup(q)) => Validates(At(Backup(q))))'
      <4>1. Exists(Backup(q)) => Validates(At(Backup(q)))
        BY <1>6, <1>7, <1>8 DEF Rest, Resting
      <4> QED
        BY <2>5, <4>1 DEF Same, Exists, Validates
    <3>2. trouble' = 0 /\ backupResult' /\ ~failed'
      BY <1>5, <1>7, <2>2
    <3> QED
      BY <1>6, <2>11, <2>12, <3>1, <3>2 DEF RenameAt, BlockDeeds
  <2>16. p \notin loose' => Safe(p)'
    <3> HAVE p \notin loose'
    <3>1. Safe(p)
      BY <1>6, <1>8, <2>7
    <3>2. \A g \in Reach(Backup(p)) : Validates(g) => g.data \in worth[p]
      BY <1>4, <1>6, <3>1, SafeIs
    <3>3. \A g \in Reach(Backup(p))' : g \in Reach(Backup(p))
      BY <2>5 DEF Stable
    <3>4. \A g \in Reach(Backup(p))' : Validates(g) => g.data \in worth'[p]
      BY <2>6, <3>2, <3>3
    <3> QED
      BY <1>4, <1>6, <2>4, <2>12, <3>4, SourceSafeNext
  <2>17. q \notin loose' => Safe(q)'
    <3> HAVE q \notin loose'
    <3>1. Safe(q) /\ c \in worth'[q] /\ worth[q] \subseteq worth'[q]
      BY <1>6, <1>8, <2>6, <2>7, <2>10
    <3>2. \A f \in Now(Primary(p)) : f.data = c /\ f.label \in {"none", c}
      BY <2>1, <2>8 DEF Uniform, Labels, Own
    <3>3. \A g \in Reach(Backup(q)) : Validates(g) => g.data \in worth[q]
      BY <1>4, <1>6, <3>1, SafeIs
    <3>4. ASSUME NEW f \in Reach(Primary(q))', NEW g \in Reach(Backup(q))' PROVE Trusts(q, f, g)'
      <4>1. g \in Reach(Backup(q))
        BY <2>5 DEF Stable
      <4>2. CASE f \in Now(Primary(p))
        <5>1. f.data = c /\ f.label \in {"none", c} /\ f # NoFile
          BY <2>10, <3>2, <4>2 DEF NoFile
        <5> QED
          BY <2>10, <3>1, <3>3, <4>1, <5>1 DEF Trusts, Found, Validates
      <4>3. CASE f \in Reach(Primary(q))
        BY <3>1, <4>1, <4>3 DEF Safe, Trusts
      <4> QED
        BY <2>4, <4>2, <4>3
    <3> QED
      BY <3>4 DEF Safe
  <2>18. \A r \in Paths \ {p} : r \notin loose' => Apart(r)'
    <3> SUFFICES ASSUME NEW r \in Paths \ {p}, r \notin loose' PROVE Apart(r)'
      OBVIOUS
    <3>1. r \notin loose
      BY <2>6, <2>7 DEF Unpromised
    <3> QED
      BY <1>6, <1>8, <2>4, <3>1, NamesAre
  <2>19. \A r \in Paths \ {p, q} : Calm(r) /\ Rest(r) /\ (r \notin loose => Apart(r)')
    <3> SUFFICES ASSUME NEW r \in Paths \ {p, q} PROVE Calm(r) /\ (r \notin loose => Apart(r)')
      BY <1>8
    <3>1. /\ Same(Primary(r)) /\ Stable(Primary(r)) /\ Same(Backup(r)) /\ Stable(Backup(r))
      BY <1>6, <2>3, <2>4, NamesAre
    <3>2. Writer(r)' <=> Writer(r)
      BY <1>5, <3>1 DEF Writer, Same
    <3>3. Unpromised(r)
      BY <2>6
    <3> QED
      BY <1>5, <2>18, <3>1, <3>2, <3>3 DEF Calm, Stable, Unpromised
  <2>20. Roles'
    <3> SUFFICES ASSUME NEW fd \in fds', NEW r \in Paths PROVE names'[Backup(r)] # fd.id
      BY DEF Roles
    <3>1. Same(Backup(r))
      BY <1>6, <2>3, <2>4, NamesAre
    <3> QED
      BY <1>4, <1>5, <3>1 DEF Roles, Same
  <2>21. q \notin loose' => Safe(q)' /\ Apart(q)'
    BY <1>6, <2>17, <2>18
  <2>22. Head(t).do # "move" /\ RenameAt(p, q, Head(t).do, Head(t).at)'
    BY <2>13, <2>14, <2>15
  <2>23. t # <<>> /\ t[Len(t)].do = "renamed" /\ t[Len(t)].at = p /\ t[Len(t)].to = q
    BY <1>6, <2>14
  <2> QED
    BY <1>3, <1>6, <2>4, <2>16, <2>19, <2>20, <2>21, <2>22, <2>23, PairPath
<1> QED
  BY <1>9, <1>10

\* Where a rename stands.
Pairing(p, q) ==
    /\ FilesIInv /\ Injective /\ Roles /\ Struct /\ todo # <<>>
    /\ p \in Paths /\ q \in Paths /\ p # q
    /\ Last.do = "renamed" /\ Last.at = p /\ Last.to = q
    /\ Head(todo) \in FileSteps /\ Head(todo).do # "move" /\ Belongs(Head(todo), Last)
    /\ Path \in {p, q}
    /\ RenameAt(p, q, Head(todo).do, Path)
    /\ \A r \in Paths \ {p, q} : Rest(r)
    /\ \A r \in Paths \ loose : Safe(r) /\ (r # p => Apart(r))

\* What a rename under way knows of its two paths.
LEMMA PairingIs ==
    ASSUME SurviveIInv, todo # <<>>, Renames(Head(todo), Last)
    PROVE  Pairing(Last.at, Last.to) /\ HasFile
<1>1. PICK p : p = Last.at
  OBVIOUS
<1>2. PICK q : q = Last.to
  OBVIOUS
<1>3. /\ Struct /\ FilesIInv /\ Injective /\ Roles /\ Point /\ OthersRest /\ AllSafe /\ AllApart
  BY DEF SurviveIInv, Sure
<1>4. /\ Head(todo) \in FileSteps /\ Belongs(Head(todo), Last) /\ Last \in FileSteps
  <2>1. Chained(todo)
    BY <1>3 DEF Struct
  <2>2. Head(todo) \in FileSteps /\ Belongs(Head(todo), Last)
    BY <2>1, TailChained DEF Last
  <2>3. Last \in FileSteps
    BY <2>1 DEF Chained, Last
  <2> QED
    BY <2>2, <2>3
<1>5. Last.do = "renamed" /\ Head(todo).do # "move"
  BY DEF Renames
<1>6. p \in Paths /\ q \in Paths
  BY <1>1, <1>2, <1>4 DEF FileSteps
<1>7. p # q /\ Path \in {p, q}
  BY <1>1, <1>2, <1>4, <1>5 DEF Belongs, Path
<1>8. RenameAt(p, q, Head(todo).do, Path)
  BY <1>1, <1>2, <1>3 DEF Point, PointAt, Path
<1>9. \A r \in Paths \ {p, q} : Rest(r)
  BY <1>1, <1>2, <1>3 DEF OthersRest, Busy
<1>10. \A r \in Paths \ loose : Safe(r) /\ (r # p => Apart(r))
  BY <1>1, <1>3 DEF AllSafe, AllApart
<1>11. Pairing(p, q)
  BY <1>1, <1>2, <1>3, <1>4, <1>5, <1>6, <1>7, <1>8, <1>9, <1>10 DEF Pairing
<1>12. HasFile
  <2>1. Head(todo).do \in {"label", "label_backup", "checksum_moved"} => Path = q
    BY <1>2, <1>4, <1>5 DEF Belongs, Path, PairDeeds
  <2>2. Head(todo).do \notin {"label_restored", "fill_in_part", "fill", "checksum"}
    BY <1>4, <1>5 DEF Belongs, PairDeeds, TargetDeeds, BlockDeeds
  <2>3. Exists(Primary(q))
    BY <1>8 DEF RenameAt, Target
  <2>4. Head(todo).do = "label_backup" => Exists(Backup(q))
    BY <1>8 DEF RenameAt, Block, BlockDeeds
  <2> QED
    BY <2>1, <2>2, <2>3, <2>4 DEF HasFile, Doing, DoingOneOf, Checksums
<1> QED
  BY <1>1, <1>2, <1>11, <1>12

\* What may be done to the disk between the first step of a rename and the last.
PairOp(p, q) ==
    \/ UNCHANGED diskVars
    \/ SyncName(Primary(q)) \/ SyncName(Backup(q)) \/ SyncName(Backup(p)) \/ SyncFile(Backup(q))
    \/ Creates(Backup(q), Content(q))
    \/ Exists(Backup(q)) /\ Becomes(names[Backup(q)], Sealed(At(Backup(q)).data))
    \/ Becomes(names[Primary(q)], Sealed(Content(q)))
    \/ Unlinks(Backup(p)) \/ Unlinks(Backup(q))

\* It leaves the names of both files where they are.
LEMMA PairNames ==
    ASSUME Disk, Disk', NEW p \in Paths, NEW q \in Paths, p # q, PairOp(p, q)
    PROVE  /\ namesLeft' \subseteq namesLeft \cup {names'}
           /\ names'[Primary(q)] = names[Primary(q)] /\ names'[Primary(p)] = names[Primary(p)]
           /\ names'[Backup(p)] \in {names[Backup(p)], 0}
           /\ \A m \in Names : names'[m] = names[m] \/ names'[m] = 0 \/ names'[m] \notin Ids
<1>1. /\ Primary(p) \in Names /\ Backup(p) \in Names /\ Primary(q) \in Names /\ Backup(q) \in Names
      /\ Backup(p) # Backup(q) /\ Primary(p) # Backup(q) /\ Primary(q) # Backup(q)
      /\ Primary(p) # Backup(p) /\ Primary(q) # Backup(p)
  BY NamesAre DEF Primary, Backup
<1>2. ASSUME NEW n \in {Backup(p), Backup(q)}, NEW i, Points(n, i), i = 0 \/ i = Len(inodes) + 1,
             i # 0 => n = Backup(q)
      PROVE  /\ namesLeft' \subseteq namesLeft \cup {names'}
             /\ names'[Primary(q)] = names[Primary(q)] /\ names'[Primary(p)] = names[Primary(p)]
             /\ names'[Backup(p)] \in {names[Backup(p)], 0}
             /\ \A m \in Names : names'[m] = names[m] \/ names'[m] = 0 \/ names'[m] \notin Ids
  <2>1. names \in [Names -> Ids] /\ Len(inodes) \in Nat
    BY DEF Disk, DiskTypeOK
  <2>2. \A m \in Names : names'[m] = IF m = n THEN i ELSE names[m]
    BY <1>1, <1>2, <2>1 DEF Points
  <2>3. Len(inodes) + 1 \notin Ids
    BY <2>1 DEF Ids
  <2> QED
    BY <1>1, <1>2, <2>2, <2>3 DEF Points
<1>3. CASE UNCHANGED names /\ namesLeft' \subseteq namesLeft
  BY <1>3
<1>4. CASE Creates(Backup(q), Content(q))
  BY <1>2, <1>4 DEF Creates
<1>5. CASE Unlinks(Backup(p)) \/ Unlinks(Backup(q))
  BY <1>2, <1>5 DEF Unlinks
<1> QED
  BY <1>3, <1>4, <1>5 DEF PairOp, SyncName, SyncFile, Becomes, diskVars

\* It is done under one name.
LEMMA PairTouches ==
    ASSUME Disk, Injective, NEW p \in Paths, NEW q \in Paths, p # q, Exists(Primary(q)), PairOp(p, q)
    PROVE  /\ \E n \in {Primary(q), Backup(q), Backup(p)} : Touches(n)
           /\ \/ \E n \in Names \ {Backup(p)} : Touches(n)
              \/ \A x \in Reach(Backup(p))' : x = NoFile \/ x \in Reach(Backup(p))
<1>1. /\ Backup(p) \in Names /\ Primary(q) \in Names /\ Backup(q) \in Names
      /\ Primary(q) # Backup(p) /\ Backup(q) # Backup(p)
  BY NamesAre DEF Backup
<1>2. Sealed(Content(q)) \in File
  BY <1>1, AtIs, FileIs DEF Content, Sealed
<1>3. Exists(Backup(q)) => Sealed(At(Backup(q)).data) \in File
  BY <1>1, AtIs, FileIs DEF Sealed
<1>4. CASE Touches(Primary(q)) \/ Touches(Backup(q))
  BY <1>1, <1>4
<1>5. CASE UNCHANGED diskVars
  BY <1>1, <1>4, <1>5, NothingTouches
<1>6. CASE SyncName(Primary(q)) \/ SyncFile(Backup(q)) \/ Becomes(names[Primary(q)], Sealed(Content(q)))
           \/ SyncName(Backup(q)) \/ Creates(Backup(q), Content(q))
           \/ (Exists(Backup(q)) /\ Becomes(names[Backup(q)], Sealed(At(Backup(q)).data)))
           \/ Unlinks(Backup(q))
  <2>1. Touches(Primary(q)) \/ Touches(Backup(q))
    BY <1>1, <1>2, <1>3, <1>6, SyncNameTouches, SyncFileTouches, BecomesTouches, CreatesTouches, UnlinksTouches
  <2> QED
    BY <1>4, <2>1
<1>7. CASE SyncName(Backup(p))
  <2>1. Touches(Backup(p)) /\ Stable(Backup(p))
    BY <1>1, <1>7, SyncNameTouches, SyncNameEffect
  <2> QED
    BY <2>1 DEF Stable
<1>8. CASE Unlinks(Backup(p))
  <2>1. Touches(Backup(p)) /\ \A x \in Reach(Backup(p))' : x = NoFile \/ x \in Reach(Backup(p))
    BY <1>1, <1>8, UnlinksTouches, UnlinksEffect
  <2> QED
    BY <2>1
<1> QED
  BY <1>5, <1>6, <1>7, <1>8 DEF PairOp

\* It leaves the content of the target as it is.
LEMMA PairFile ==
    ASSUME Disk, Disk', Injective, NEW p \in Paths, NEW q \in Paths, p # q, Exists(Primary(q)), PairOp(p, q)
    PROVE  /\ Content(q)' = Content(q)
           /\ Own(q) /\ Labels(q) => Own(q)' /\ Labels(q)'
           /\ Uniform(q) => Uniform(q)'
           /\ Durable(Primary(q)) => Durable(Primary(q))'
           /\ SyncName(Primary(q)) => Durable(Primary(q))'
<1>1. /\ Backup(p) \in Names /\ Primary(q) \in Names /\ Backup(q) \in Names
      /\ Primary(q) # Backup(p) /\ Primary(q) # Backup(q)
  BY NamesAre
<1>2. SyncName(Primary(q)) => Durable(Primary(q))'
  BY <1>1, SyncNameEffect
<1>3. CASE Becomes(names[Primary(q)], Sealed(Content(q)))
  <2>1. /\ Content(q)' = Content(q) /\ Own(q)'
        /\ Own(q) /\ Labels(q) => Labels(q)'
        /\ Uniform(q) => Uniform(q)'
        /\ UNCHANGED <<names, namesLeft>>
    BY <1>3, LabelsOwn
  <2> QED
    BY <1>2, <2>1 DEF Durable
<1>4. CASE Same(Primary(q)) /\ (Durable(Primary(q)) => Durable(Primary(q))')
  BY <1>2, <1>4 DEF Same, Content, Own, Labels, Uniform
<1>5. CASE UNCHANGED diskVars \/ SyncName(Primary(q)) \/ SyncName(Backup(q)) \/ SyncName(Backup(p))
  BY <1>1, <1>4, <1>5, NoEffect, SyncNameEffect DEF Stable
<1>6. CASE SyncFile(Backup(q)) \/ Unlinks(Backup(p)) \/ Unlinks(Backup(q)) \/ Creates(Backup(q), Content(q))
           \/ (Exists(Backup(q)) /\ Becomes(names[Backup(q)], Sealed(At(Backup(q)).data)))
  <2>1. Touches(Backup(p)) \/ Touches(Backup(q))
    <3>1. Exists(Backup(q)) => Sealed(At(Backup(q)).data) \in File
      BY <1>1, AtIs, FileIs DEF Sealed
    <3> QED
      BY <1>1, <1>6, <3>1, SyncFileTouches, BecomesTouches, CreatesTouches, UnlinksTouches
  <2> QED
    BY <1>1, <1>4, <2>1 DEF Touches
<1> QED
  BY <1>3, <1>5, <1>6 DEF PairOp

\* A rename goes on: its source is gone, and its target is what it was.
LEMMA PairStays ==
    ASSUME Disk, Disk', Injective, NEW p \in Paths, NEW q \in Paths, p # q, PairOp(p, q),
           NEW d, NEW e, Source(p, q), Target(q, d),
           UNCHANGED fds, worth[p] \subseteq worth'[p], worth[q] \subseteq worth'[q],
           loose \subseteq loose', trouble' = trouble \/ trouble' # 0,
           d = "sync_move" => e = "sync_move" \/ q \in loose' \/ SyncName(Primary(q))
    PROVE  Source(p, q)' /\ Target(q, e)'
<1>1. /\ Content(q)' = Content(q)
      /\ Own(q) /\ Labels(q) => Own(q)' /\ Labels(q)'
      /\ Uniform(q) => Uniform(q)'
      /\ Durable(Primary(q)) => Durable(Primary(q))'
      /\ SyncName(Primary(q)) => Durable(Primary(q))'
  BY PairFile DEF Target
<1>2. /\ namesLeft' \subseteq namesLeft \cup {names'}
      /\ names'[Primary(q)] = names[Primary(q)] /\ names'[Primary(p)] = names[Primary(p)]
      /\ names'[Backup(p)] \in {names[Backup(p)], 0}
      /\ \A m \in Names : names'[m] = names[m] \/ names'[m] = 0 \/ names'[m] \notin Ids
  BY PairNames
<1>3. Exists(Primary(q))' /\ ~Exists(Primary(p))'
  BY <1>2 DEF Exists, Source, Target
<1>4. Target(q, e)'
  <2>1. ~Writer(q)'
    BY <1>2 DEF Writer, Target
  <2>2. Watched(q)' => Watched(q)
    BY DEF Watched
  <2>3. Watched(q)' => (Own(q) /\ Labels(q) /\ Uniform(q))'
    BY <1>1, <2>2 DEF Target
  <2>4. q \notin loose' => Content(q)' \in worth'[q] /\ (e # "sync_move" => Durable(Primary(q))')
    BY <1>1 DEF Target
  <2> QED
    BY <1>3, <2>1, <2>3, <2>4 DEF Target
<1>5. Source(p, q)'
  <2> SUFFICES ASSUME p \notin loose'
               PROVE  /\ ("missing" \in worth[p] /\ Content(q) \in worth[p])'
                      /\ (\A left \in namesLeft : left[Primary(p)] \in {0, names[Primary(q)]})'
                      /\ (\A left \in namesLeft, m \in Names :
                             left[Backup(p)] = names[m] /\ Exists(m) => m = Backup(p))'
                      /\ (Own(q) /\ Labels(q) /\ Uniform(q))'
    BY <1>3 DEF Source
  <2>1. /\ "missing" \in worth[p] /\ Content(q) \in worth[p]
        /\ \A left \in namesLeft : left[Primary(p)] \in {0, names[Primary(q)]}
        /\ \A left \in namesLeft, m \in Names :
               left[Backup(p)] = names[m] /\ Exists(m) => m = Backup(p)
        /\ Own(q) /\ Labels(q) /\ Uniform(q)
    BY DEF Source
  <2>2. ("missing" \in worth[p] /\ Content(q) \in worth[p])'
    BY <1>1, <2>1
  <2>3. (\A left \in namesLeft : left[Primary(p)] \in {0, names[Primary(q)]})'
    BY <1>2, <2>1 DEF Source, Exists
  <2>4. (\A left \in namesLeft, m \in Names :
             left[Backup(p)] = names[m] /\ Exists(m) => m = Backup(p))'
    <3> SUFFICES ASSUME NEW left \in namesLeft', NEW m \in Names,
                        left[Backup(p)] = names'[m], names'[m] # 0
                 PROVE  m = Backup(p)
      BY DEF Exists
    <3>1. PICK y \in namesLeft : left[Backup(p)] = y[Backup(p)] /\ y[Backup(p)] # 0
      <4>1. CASE left \in namesLeft
        BY <4>1
      <4>2. CASE left = names'
        <5>1. names'[Backup(p)] = names[Backup(p)] /\ names \in namesLeft
          BY <1>2, <4>2 DEF Disk, DiskTypeOK
        <5> QED
          BY <4>2, <5>1
      <4> QED
        BY <1>2, <4>1, <4>2
    <3>2. y[Backup(p)] \in Ids
      BY NamesAre DEF Disk, DiskTypeOK
    <3>3. names'[m] = names[m]
      BY <1>2, <3>1, <3>2
    <3> QED
      BY <2>1, <3>1, <3>3 DEF Exists
  <2>5. (Own(q) /\ Labels(q) /\ Uniform(q))'
    BY <1>1, <2>1
  <2> QED
    BY <2>2, <2>3, <2>4, <2>5
<1> QED
  BY <1>4, <1>5

\* And what a crash may leave is worth something.
LEMMA PairSafe ==
    ASSUME NEW p, NEW q, Pairing(p, q), FilesIInv', PairOp(p, q), NEW e,
           UNCHANGED fds, worth[p] \subseteq worth'[p], worth[q] \subseteq worth'[q],
           loose \subseteq loose', trouble' = trouble \/ trouble' # 0, e # "sync_move",
           Doing("sync_move") => q \in loose' \/ SyncName(Primary(q))
    PROVE  /\ Source(p, q)' /\ Target(q, e)' /\ (p \notin loose' => Safe(p)')
           /\ (\A g \in Reach(Backup(q))' : g = NoFile \/ g \in Reach(Backup(q))) =>
                  (q \notin loose' => Safe(q)')
<1>1. /\ Disk /\ Disk' /\ Injective /\ p \in Paths /\ q \in Paths /\ p # q
      /\ Source(p, q) /\ Target(q, Head(todo).do) /\ todo # <<>>
      /\ \A r \in Paths \ loose : Safe(r) /\ (r # p => Apart(r))
  BY DEF Pairing, FilesIInv, RenameAt
<1>2. Head(todo).do = "sync_move" => q \in loose' \/ SyncName(Primary(q))
  BY <1>1 DEF Doing, NoCall
<1>3. Source(p, q)' /\ Target(q, e)'
  BY <1>1, <1>2, PairStays
<1>4. Exists(Primary(q)) /\ Exists(Primary(q))'
  BY <1>1, <1>3 DEF Target
<1>5. ~Validates(NoFile)
  BY DEF Validates, NoFile
<1>6. p \notin loose' => Safe(p)'
  <2> HAVE p \notin loose'
  <2>1. p \notin loose /\ Safe(p)
    BY <1>1
  <2>2. \A g \in Reach(Backup(p)) : Validates(g) => g.data \in worth[p]
    BY <1>1, <2>1, SafeIs
  <2>3. \A g \in Reach(Backup(p))' : g = NoFile \/ g \in Reach(Backup(p))
    <3>1. ASSUME NEW n \in Names \ {Backup(p)}, Touches(n)
          PROVE  Reach(Backup(p))' \subseteq Reach(Backup(p))
      <4>1. \A left \in namesLeft : ~(Exists(n) /\ left[Backup(p)] = names[n])
        BY <1>1, <2>1 DEF Source
      <4> QED
        BY <1>1, <3>1, <4>1, NamesAre DEF Touches
    <3>2. \/ \E n \in Names \ {Backup(p)} : Touches(n)
          \/ \A x \in Reach(Backup(p))' : x = NoFile \/ x \in Reach(Backup(p))
      BY <1>1, <1>4, PairTouches
    <3> QED
      BY <3>1, <3>2
  <2>4. \A g \in Reach(Backup(p))' : Validates(g) => g.data \in worth'[p]
    BY <1>5, <2>2, <2>3
  <2> QED
    BY <1>1, <1>3, <1>4, <2>4, SourceSafeNext
<1>7. ASSUME \A g \in Reach(Backup(q))' : g = NoFile \/ g \in Reach(Backup(q)), q \notin loose'
      PROVE  Safe(q)'
  <2>1. q \notin loose /\ Safe(q)
    BY <1>1, <1>7
  <2>2. \A g \in Reach(Backup(q)) : Validates(g) => g.data \in worth[q]
    BY <1>1, <2>1, SafeIs
  <2>3. \A g \in Reach(Backup(q))' : Validates(g) => g.data \in worth'[q]
    BY <1>5, <1>7, <2>2
  <2> QED
    BY <1>1, <1>3, <1>7, <2>3, TargetSafeNext
<1> QED
  BY <1>3, <1>6, <1>7

\* What the next step of a rename is to find.
InPair(p, q, t) ==
    /\ RenameAt(p, q, Head(t).do, Head(t).at)
    /\ q \notin loose => Safe(q)
    /\ p \notin loose => Safe(p)

\* The step that comes next in a rename.
LEMMA ComesPair ==
    ASSUME NEW p, NEW q, Pairing(p, q), NEW t, t = Tail(todo), NEW d, d = Head(todo).do
    PROVE  /\ d \in {"sync_move", "after_move", "after_unlink", "checksum_moved"} \cup BlockDeeds => Path = q
           /\ d \in {"sync_move", "after_move", "after_unlink", "checksum_moved", "unlink_backup",
                     "sync_unlink_backup", "moved", "renamed"} \cup BlockDeeds
           /\ d \in {"moved", "renamed"} => Path = p /\ Head(todo).to = q
           /\ d # "renamed" =>
                /\ t # <<>> /\ t[Len(t)] = Last /\ Head(t).do # "move"
                /\ d = "sync_move" => Head(t).do = "after_move"
                /\ d = "after_move" => Head(t).do = "unlink_backup" /\ Head(t).at = p
                /\ d = "unlink_backup" => Head(t).do = "sync_unlink_backup" /\ Head(t).at = Path
                /\ d = "sync_unlink_backup" =>
                       Head(t).do = (IF Path = p THEN "after_unlink" ELSE "renamed")
                /\ d = "after_unlink" => Head(t).do = "checksum_moved"
                /\ d = "checksum_moved" => Head(t).do = "copy_to_backup"
                /\ d = "copy_to_backup" => Head(t).do = "sync_copy_name"
                /\ d = "sync_copy_name" => Head(t).do = "label"
                /\ d = "label" => Head(t).do = "label_backup"
                /\ d = "label_backup" => Head(t).do = "sync_backup"
                /\ d = "sync_backup" => Head(t).do = "moved"
                /\ d = "moved" => Head(t).do = "renamed"
           /\ d = "renamed" => t = <<>>
<1>1. /\ Struct /\ todo # <<>> /\ p # q /\ Last.do = "renamed" /\ Last.at = p /\ Last.to = q
      /\ Head(todo).do # "move" /\ Belongs(Head(todo), Last) /\ Path \in {p, q}
  BY DEF Pairing
<1>2. PICK s : s = Head(todo)
  OBVIOUS
<1>3. PICK u : u = Head(t)
  OBVIOUS
<1>4. PICK e : e = Last
  OBVIOUS
<1>5. /\ s.do = d /\ s.at = Path /\ s.do # "move" /\ Belongs(s, e) /\ e.do = "renamed" /\ e.at = p /\ e.to = q
  BY <1>1, <1>2, <1>4 DEF Path
<1>6. /\ t = <<>> => d \in Endings
      /\ t # <<>> => Follows(s, u) /\ Belongs(u, e) /\ t[Len(t)] = e
  BY <1>1, <1>2, <1>3, <1>4, Comes
<1>7. /\ d \in {"sync_move", "after_move", "after_unlink", "checksum_moved"} \cup BlockDeeds => Path = q
      /\ d \in {"sync_move", "after_move", "after_unlink", "checksum_moved", "unlink_backup",
                "sync_unlink_backup", "moved", "renamed"} \cup BlockDeeds
      /\ d \in {"moved", "renamed"} => Path = p /\ s.to = q
  BY <1>1, <1>5 DEF Belongs, PairDeeds, TargetDeeds, BlockDeeds
<1>8. CASE t = <<>>
  <2>1. d = "renamed"
    BY <1>6, <1>7, <1>8 DEF Endings, BlockDeeds
  <2> QED
    BY <1>2, <1>7, <1>8, <2>1
<1>9. CASE t # <<>>
  <2>1. Follows(s, u) /\ Belongs(u, e) /\ t[Len(t)] = e
    BY <1>6, <1>9
  <2>2. d # "renamed" /\ u.do # "move"
    BY <1>5, <2>1 DEF Follows, FollowsHere, FollowsThere
  <2>3. CASE d \in BlockDeeds
    BY <1>1, <1>2, <1>3, <1>4, <1>5, <1>7, <1>9, <2>1, <2>2, <2>3
       DEF Follows, FollowsHere, FollowsThere, BlockDeeds, Belongs, PairDeeds, TargetDeeds
  <2>4. CASE d \in {"sync_move", "after_move", "after_unlink", "checksum_moved", "moved"}
    BY <1>1, <1>2, <1>3, <1>4, <1>5, <1>7, <1>9, <2>1, <2>2, <2>4
       DEF Follows, FollowsHere, FollowsThere, BlockDeeds, Belongs, PairDeeds, TargetDeeds
  <2>5. CASE d \in {"unlink_backup", "sync_unlink_backup"}
    BY <1>1, <1>2, <1>3, <1>4, <1>5, <1>7, <1>9, <2>1, <2>2, <2>5
       DEF Follows, FollowsHere, FollowsThere, BlockDeeds, Belongs, PairDeeds, TargetDeeds
  <2> QED
    BY <1>7, <2>2, <2>3, <2>4, <2>5
<1> QED
  BY <1>8, <1>9

\* The move is flushed.
LEMMA SyncMovePairs ==
    ASSUME NEW p, NEW q, Pairing(p, q), FilesIInv', NEW t, t = todo', Proceeds, Doing("sync_move"),
           SyncName(Primary(q)), UNCHANGED <<fds, failed, backupResult, worth, loose, trouble>>
    PROVE  InPair(p, q, t)' /\ t # <<>> /\ t[Len(t)] = Last /\ Head(t).do # "move"
<1>1. PICK u : u = Head(t)
  OBVIOUS
<1>2. Head(todo).do = "sync_move" /\ RenameAt(p, q, "sync_move", Path)
  BY DEF Doing, Pairing
<1>3. Path = q /\ t # <<>> /\ t[Len(t)] = Last /\ u.do = "after_move"
  BY <1>1, <1>2, ComesPair DEF Proceeds
<1>4. /\ Disk /\ p \in Paths /\ q \in Paths /\ Backup(q) \in Names
  BY NamesAre DEF Pairing, FilesIInv
<1>5. \A m \in Names : Same(m) /\ Stable(m)
  BY <1>4, NamesAre, SyncNameEffect
<1>6. /\ Source(p, q)' /\ Target(q, "after_move")' /\ (p \notin loose' => Safe(p)')
      /\ (q \notin loose' => Safe(q)')
  BY <1>4, <1>5, PairSafe DEF PairOp, Stable
<1>7. (Exists(Backup(q)) => Validates(At(Backup(q))))' <=> (Exists(Backup(q)) => Validates(At(Backup(q))))
  BY <1>4, <1>5 DEF Same, Exists, Validates
<1>8. RenameAt(p, q, "after_move", u.at)'
  BY <1>2, <1>6, <1>7 DEF RenameAt, BlockDeeds
<1> QED
  BY <1>1, <1>3, <1>6, <1>8 DEF InPair

\* What stands of a rename where nothing is done to a disk but under other names.
LEMMA GoOnPairs ==
    ASSUME NEW p, NEW q, Pairing(p, q), FilesIInv', NEW t, t = todo', GoOn
    PROVE  InPair(p, q, t)' /\ t # <<>> /\ t[Len(t)] = Last /\ Head(t).do # "move"
<1>1. PICK u : u = Head(t)
  OBVIOUS
<1>2. PICK d : d = Head(todo).do
  OBVIOUS
<1>3. /\ d \in {"after_move", "after_unlink"} /\ Proceeds /\ UNCHANGED diskVars
      /\ backupResult' = (backupResult /\ ~failed) /\ ~failed'
      /\ UNCHANGED <<fds, worth, loose, trouble>>
  BY <1>2 DEF GoOn, DoingOneOf, NoCall, promiseVars
<1>4. RenameAt(p, q, d, Path) /\ backupResult \in BOOLEAN /\ failed \in BOOLEAN
  BY <1>2 DEF Pairing, FilesIInv, ClientTypeOK
<1>5. /\ t # <<>> /\ t[Len(t)] = Last
      /\ u.do = IF d = "after_move" THEN "unlink_backup" ELSE "checksum_moved"
      /\ d = "after_move" => u.at = p
  <2>1. t = Tail(todo) /\ (d = "after_move" \/ d = "after_unlink")
    BY <1>3 DEF Proceeds
  <2> QED
    BY ONLY Pairing(p, q), <1>1, <1>2, <2>1, ComesPair
<1>6. /\ Disk /\ p \in Paths /\ q \in Paths /\ Backup(q) \in Names /\ Backup(p) \in Names /\ p # q
  BY NamesAre DEF Pairing, FilesIInv
<1>7. \A m \in Names : Same(m) /\ Stable(m) /\ (Exists(m)' <=> Exists(m))
  BY <1>3, NoEffect
<1>8. /\ Source(p, q)' /\ Target(q, u.do)' /\ (p \notin loose' => Safe(p)')
      /\ (q \notin loose' => Safe(q)')
  <2>1. u.do # "sync_move" /\ ~Doing("sync_move")
    BY <1>2, <1>3, <1>5 DEF Doing
  <2> QED
    BY <1>3, <1>6, <1>7, <2>1, PairSafe DEF PairOp, Stable
<1>9. (Exists(Backup(q)) => Validates(At(Backup(q))))' <=> (Exists(Backup(q)) => Validates(At(Backup(q))))
  BY <1>6, <1>7 DEF Same, Exists, Validates
<1>10. Exists(Backup(p))' <=> Exists(Backup(p))
  BY <1>6, <1>7
<1>11. trouble = 0 => backupResult /\ ~failed
  BY <1>3, <1>4 DEF RenameAt
<1>12. RenameAt(p, q, u.do, u.at)'
  <2>1. CASE d = "after_move"
    BY <1>3, <1>4, <1>5, <1>6, <1>8, <1>9, <1>11, <2>1 DEF RenameAt, BlockDeeds
  <2>2. CASE d = "after_unlink"
    BY <1>3, <1>4, <1>5, <1>6, <1>8, <1>9, <1>10, <1>11, <2>2 DEF RenameAt, BlockDeeds
  <2> QED
    BY <1>3, <2>1, <2>2
<1> QED
  BY <1>1, <1>3, <1>5, <1>8, <1>12 DEF InPair

\* The backup of the source is deleted.
LEMMA UnlinkSourcePairs ==
    ASSUME NEW p, NEW q, Pairing(p, q), FilesIInv', NEW t, t = todo', Proceeds, Path = p,
           UNCHANGED <<fds, failed, backupResult, worth, loose, trouble>>,
           \/ Doing("unlink_backup") /\ Unlinks(Backup(p))
           \/ Doing("sync_unlink_backup") /\ SyncName(Backup(p))
    PROVE  InPair(p, q, t)' /\ t # <<>> /\ t[Len(t)] = Last /\ Head(t).do # "move"
<1>1. PICK u : u = Head(t)
  OBVIOUS
<1>2. PICK d : d = Head(todo).do
  OBVIOUS
<1>3. d \in {"unlink_backup", "sync_unlink_backup"}
      /\ (d = "unlink_backup" => Unlinks(Backup(p))) /\ (d = "sync_unlink_backup" => SyncName(Backup(p)))
  BY <1>2 DEF Doing
<1>4. RenameAt(p, q, d, p)
  BY <1>2 DEF Pairing
<1>5. /\ t # <<>> /\ t[Len(t)] = Last
      /\ u.do = IF d = "unlink_backup" THEN "sync_unlink_backup" ELSE "after_unlink"
      /\ d = "unlink_backup" => u.at = p
  BY <1>1, <1>2, <1>3, ComesPair DEF Proceeds
<1>6. /\ Disk /\ Injective /\ p \in Paths /\ q \in Paths /\ Backup(q) \in Names /\ Backup(p) \in Names /\ p # q
      /\ Backup(p) # Backup(q)
  BY NamesAre DEF Pairing, FilesIInv, Backup
<1>7. \A m \in Names \ {Backup(p)} : Same(m) /\ Stable(m)
  BY <1>3, <1>6, UnlinksEffect, SyncNameEffect
<1>8. /\ Source(p, q)' /\ Target(q, u.do)' /\ (p \notin loose' => Safe(p)')
      /\ (q \notin loose' => Safe(q)')
  <2>1. u.do # "sync_move" /\ ~Doing("sync_move")
    BY <1>2, <1>3, <1>5 DEF Doing
  <2>2. PairOp(p, q)
    BY <1>3 DEF PairOp
  <2>3. \A g \in Reach(Backup(q))' : g = NoFile \/ g \in Reach(Backup(q))
    BY <1>6, <1>7 DEF Stable
  <2> QED
    BY <2>1, <2>2, <2>3, PairSafe
<1>9. (Exists(Backup(q)) => Validates(At(Backup(q))))' <=> (Exists(Backup(q)) => Validates(At(Backup(q))))
  BY <1>6, <1>7 DEF Same, Exists, Validates
<1>10. trouble = 0 => ~Exists(Backup(p))'
  <2>1. CASE d = "unlink_backup"
    BY <1>3, <1>6, <2>1, UnlinksEffect
  <2>2. CASE d = "sync_unlink_backup"
    <3>1. Same(Backup(p))
      BY <1>3, <1>6, <2>2, SyncNameEffect
    <3> QED
      BY <1>4, <1>6, <2>2, <3>1 DEF Same, Exists, RenameAt
  <2> QED
    BY <1>3, <2>1, <2>2
<1>11. RenameAt(p, q, u.do, u.at)'
  <2>1. CASE d = "unlink_backup"
    BY <1>4, <1>5, <1>6, <1>8, <1>9, <1>10, <2>1 DEF RenameAt, BlockDeeds
  <2>2. CASE d = "sync_unlink_backup"
    BY <1>4, <1>5, <1>6, <1>8, <1>9, <1>10, <2>2 DEF RenameAt, BlockDeeds
  <2> QED
    BY <1>3, <2>1, <2>2
<1> QED
  BY <1>1, <1>3, <1>5, <1>8, <1>11 DEF InPair

\* The backup of the target is deleted, which could not be made anew.
LEMMA UnlinkTargetPairs ==
    ASSUME NEW p, NEW q, Pairing(p, q), FilesIInv', NEW t, t = todo', Proceeds, Path = q,
           UNCHANGED <<fds, failed, backupResult, worth, loose, trouble>>,
           \/ Doing("unlink_backup") /\ Unlinks(Backup(q))
           \/ Doing("sync_unlink_backup") /\ SyncName(Backup(q))
    PROVE  InPair(p, q, t)' /\ t # <<>> /\ t[Len(t)] = Last /\ Head(t).do # "move"
<1>1. PICK u : u = Head(t)
  OBVIOUS
<1>2. PICK d : d = Head(todo).do
  OBVIOUS
<1>3. d \in {"unlink_backup", "sync_unlink_backup"}
      /\ (d = "unlink_backup" => Unlinks(Backup(q))) /\ (d = "sync_unlink_backup" => SyncName(Backup(q)))
  BY <1>2 DEF Doing
<1>4. RenameAt(p, q, d, q)
  BY <1>2 DEF Pairing
<1>6. /\ Disk /\ Injective /\ p \in Paths /\ q \in Paths /\ Backup(q) \in Names /\ Backup(p) \in Names /\ p # q
      /\ Backup(p) # Backup(q)
  BY NamesAre DEF Pairing, FilesIInv, Backup
<1>5. /\ t # <<>> /\ t[Len(t)] = Last
      /\ u.do = IF d = "unlink_backup" THEN "sync_unlink_backup" ELSE "renamed"
      /\ d = "unlink_backup" => u.at = q
  BY <1>1, <1>2, <1>3, <1>6, ComesPair DEF Proceeds
<1>7. \A m \in Names \ {Backup(q)} : Same(m) /\ Stable(m)
  BY <1>3, <1>6, UnlinksEffect, SyncNameEffect
<1>8. /\ Source(p, q)' /\ Target(q, u.do)' /\ (p \notin loose' => Safe(p)')
      /\ (q \notin loose' => Safe(q)')
  <2>1. u.do # "sync_move" /\ ~Doing("sync_move")
    BY <1>2, <1>3, <1>5 DEF Doing
  <2>2. PairOp(p, q)
    BY <1>3 DEF PairOp
  <2>3. \A g \in Reach(Backup(q))' : g = NoFile \/ g \in Reach(Backup(q))
    <3>1. CASE d = "unlink_backup"
      BY <1>3, <1>6, <3>1, UnlinksEffect
    <3>2. CASE d = "sync_unlink_backup"
      <4>1. Stable(Backup(q))
        BY <1>3, <1>6, <3>2, SyncNameEffect
      <4> QED
        BY <4>1 DEF Stable
    <3> QED
      BY <1>3, <3>1, <3>2
  <2> QED
    BY <2>1, <2>2, <2>3, PairSafe
<1>9. Exists(Backup(p))' <=> Exists(Backup(p))
  BY <1>6, <1>7 DEF Same, Exists
<1>10. trouble = 0 => ~Exists(Backup(q))'
  <2>1. CASE d = "unlink_backup"
    BY <1>3, <1>6, <2>1, UnlinksEffect
  <2>2. CASE d = "sync_unlink_backup"
    <3>1. Same(Backup(q))
      BY <1>3, <1>6, <2>2, SyncNameEffect
    <3> QED
      BY <1>3, <1>4, <1>6, <2>2, <3>1 DEF Same, Exists, RenameAt
  <2> QED
    BY <1>3, <2>1, <2>2
<1>11. ~backupResult /\ ~failed
  BY <1>3, <1>4 DEF RenameAt
<1>12. RenameAt(p, q, u.do, u.at)'
  <2>1. CASE d = "unlink_backup"
    <3>1. trouble = 0 => ~Exists(Backup(p))
      BY <1>4, <1>6, <2>1 DEF RenameAt
    <3>2. (Exists(Backup(q)) => Validates(At(Backup(q))))' \/ trouble # 0
      BY <1>10
    <3> QED
      BY <1>5, <1>6, <1>8, <1>9, <1>10, <1>11, <2>1, <3>1 DEF RenameAt, BlockDeeds
  <2>2. CASE d = "sync_unlink_backup"
    <3>1. trouble = 0 => ~Exists(Backup(p))
      BY <1>4, <1>6, <2>2 DEF RenameAt
    <3> QED
      BY <1>5, <1>6, <1>8, <1>9, <1>10, <1>11, <2>2, <3>1 DEF RenameAt, BlockDeeds
  <2> QED
    BY <1>3, <2>1, <2>2
<1> QED
  BY <1>1, <1>3, <1>5, <1>8, <1>12 DEF InPair

\* The target of a rename is begun to be backed up, when its name is flushed.
LEMMA TargetBegun ==
    ASSUME NEW q, NEW d, Target(q, d), d # "sync_move"
    PROVE  Begun(q, "moved")
  BY DEF Target, Begun

\* The same in the next state.
LEMMA TargetBegunNext ==
    (\A q, d : Target(q, d) /\ d # "sync_move" => Begun(q, "moved"))'
<1>1. \A q, d : Target(q, d) /\ d # "sync_move" => Begun(q, "moved")
  BY TargetBegun
<1> QED
  BY <1>1, PTL

\* The file that was moved gets its label.
LEMMA ChecksumPairs ==
    ASSUME NEW p, NEW q, Pairing(p, q), FilesIInv', NEW t, t = todo', Doing("checksum_moved"), Label
    PROVE  InPair(p, q, t)' /\ t # <<>> /\ t[Len(t)] = Last /\ Head(t).do # "move"
<1>1. PICK u : u = Head(t)
  OBVIOUS
<1>2. Head(todo).do = "checksum_moved"
  BY DEF Doing
<1>3. RenameAt(p, q, "checksum_moved", Path)
  BY <1>2 DEF Pairing
<1>4. t = Tail(todo)
  BY DEF Label, Proceeds
<1>5. /\ t # <<>> /\ t[Len(t)] = Last /\ u.do = "copy_to_backup" /\ Path = q
  BY ONLY Pairing(p, q), <1>1, <1>2, <1>4, ComesPair
<1>6. /\ Disk /\ Disk' /\ Injective /\ p \in Paths /\ q \in Paths /\ p # q
      /\ Backup(q) \in Names /\ Backup(p) \in Names /\ Primary(q) \in Names
      /\ Backup(p) # Primary(q) /\ Backup(q) # Primary(q) /\ ClientTypeOK
      /\ \A r \in Paths \ loose : Safe(r) /\ (r # p => Apart(r))
  BY NamesAre DEF Pairing, FilesIInv
<1>7. /\ Becomes(names[Primary(q)], Sealed(Content(q)))
      /\ worth' = [worth EXCEPT ![q] = @ \cup ({Content(q)} \cap Whole)]
      /\ loose \subseteq loose' /\ UNCHANGED <<fds, failed, backupResult, trouble>>
  BY <1>2, <1>5 DEF Label, Doing, DoingOneOf, Checksums, Sealed
<1>8. worth[p] \subseteq worth'[p] /\ worth[q] \subseteq worth'[q]
  BY <1>6, <1>7 DEF ClientTypeOK
<1>9. Exists(Primary(q))
  BY <1>3 DEF RenameAt, Target
<1>10. /\ \A n \in Names \ {Primary(q)} :
             Same(n) /\ ((\A left \in namesLeft : left[n] # names[Primary(q)]) => Stable(n))
       /\ UNCHANGED <<names, namesLeft>>
  BY <1>6, <1>7, <1>9, LabelsOwn
<1>11. /\ Source(p, q)' /\ Target(q, "copy_to_backup")' /\ (p \notin loose' => Safe(p)')
       /\ (\A g \in Reach(Backup(q))' : g = NoFile \/ g \in Reach(Backup(q))) =>
              (q \notin loose' => Safe(q)')
  <2>1. PairOp(p, q) /\ ~Doing("sync_move")
    BY <1>2, <1>7 DEF PairOp, Doing
  <2> QED
    BY <1>7, <1>8, <2>1, PairSafe
<1>12. q \notin loose' => Safe(q)'
  <2> HAVE q \notin loose'
  <2>1. Apart(q)
    BY <1>6, <1>7
  <2>2. \A left \in namesLeft : left[Backup(q)] # names[Primary(q)]
    BY <1>6, <1>9, <2>1 DEF Apart
  <2>3. Stable(Backup(q))
    BY <1>6, <1>10, <2>2
  <2> QED
    BY <1>11, <2>3 DEF Stable
<1>13. /\ Exists(Backup(p))' <=> Exists(Backup(p))
       /\ (Exists(Backup(q)) => Validates(At(Backup(q))))' <=> (Exists(Backup(q)) => Validates(At(Backup(q))))
  BY <1>6, <1>10 DEF Same, Exists, Validates
<1>14. Block(q, "copy_to_backup", "moved")'
  <2>1. Begun(q, "moved")'
    BY <1>11, TargetBegunNext
  <2>2. (trouble = 0 /\ Exists(Backup(q)) => Validates(At(Backup(q))))'
    BY <1>3, <1>7, <1>13 DEF RenameAt
  <2> QED
    BY <2>1, <2>2 DEF Block
<1>15. RenameAt(p, q, "copy_to_backup", u.at)'
  <2>1. u.at # p
    <3>1. Head(t) = u /\ Follows(Head(todo), u)
      BY <1>1, <1>4, <1>5, Comes DEF Pairing
    <3> QED
      BY <1>2, <1>5, <1>6, <3>1 DEF Follows, FollowsHere, FollowsThere, Path
  <2> QED
    BY <1>3, <1>6, <1>7, <1>11, <1>13, <1>14, <2>1 DEF RenameAt, BlockDeeds
<1> QED
  BY <1>1, <1>5, <1>11, <1>12, <1>15 DEF InPair

\* The file that was moved is backed up.
LEMMA BlockPairs ==
    ASSUME NEW p, NEW q, Pairing(p, q), FilesIInv', NEW t, t = todo', Proceeds,
           Head(todo).do \in BlockDeeds, UNCHANGED <<fds, failed, backupResult, worth, loose, trouble>>,
           \/ Doing("copy_to_backup") /\ Creates(Backup(q), Content(q))
           \/ Doing("sync_copy_name") /\ SyncName(Backup(q))
           \/ Doing("label") /\ Becomes(names[Primary(q)], Sealed(Content(q)))
           \/ Doing("label_backup") /\ Becomes(names[Backup(q)], Sealed(At(Backup(q)).data))
           \/ Doing("sync_backup") /\ SyncFile(Backup(q))
    PROVE  InPair(p, q, t)' /\ t # <<>> /\ t[Len(t)] = Last /\ Head(t).do # "move"
<1>1. PICK u : u = Head(t)
  OBVIOUS
<1>2. PICK d : d = Head(todo).do
  OBVIOUS
<1>3. /\ d \in BlockDeeds
      /\ d = "copy_to_backup" => Creates(Backup(q), Content(q))
      /\ d = "sync_copy_name" => SyncName(Backup(q))
      /\ d = "label" => Becomes(names[Primary(q)], Sealed(Content(q)))
      /\ d = "label_backup" => Becomes(names[Backup(q)], Sealed(At(Backup(q)).data))
      /\ d = "sync_backup" => SyncFile(Backup(q))
  BY <1>2 DEF Doing
<1>4. RenameAt(p, q, d, Path)
  BY <1>2 DEF Pairing
<1>5. t = Tail(todo)
  BY DEF Proceeds
<1>6. /\ t # <<>> /\ t[Len(t)] = Last /\ Path = q
      /\ d = "copy_to_backup" => u.do = "sync_copy_name"
      /\ d = "sync_copy_name" => u.do = "label"
      /\ d = "label" => u.do = "label_backup"
      /\ d = "label_backup" => u.do = "sync_backup"
      /\ d = "sync_backup" => u.do = "moved"
  BY ONLY Pairing(p, q), <1>1, <1>2, <1>3, <1>5, ComesPair DEF BlockDeeds
<1>7. /\ Disk /\ Disk' /\ Injective /\ p \in Paths /\ q \in Paths /\ p # q
      /\ Backup(q) \in Names /\ Backup(p) \in Names /\ Primary(q) \in Names
      /\ Backup(p) # Primary(q) /\ Backup(q) # Primary(q) /\ Backup(p) # Backup(q)
      /\ \A r \in Paths \ loose : Safe(r)
  BY NamesAre DEF Pairing, FilesIInv, Backup
<1>8. Steady /\ Block(q, d, "moved") /\ Exists(Primary(q))
  BY <1>3, <1>4 DEF Steady, RenameAt, Target
<1>9. d = "label_backup" => Exists(Backup(q))
  BY <1>8 DEF Block
<1>10. /\ d = "copy_to_backup" => Block(q, "sync_copy_name", "moved")'
       /\ d = "sync_copy_name" => Block(q, "label", "moved")'
       /\ d = "label" => Block(q, "label_backup", "moved")'
       /\ d = "label_backup" => Block(q, "sync_backup", "moved")'
       /\ d = "sync_backup" => Backed(q)'
       /\ q \notin loose /\ Safe(q) => Safe(q)'
  <2>1. CASE d = "copy_to_backup"
    BY <1>3, <1>7, <1>8, <2>1, CopiedBlock
  <2>2. CASE d = "sync_copy_name"
    BY <1>3, <1>7, <1>8, <2>2, CopySynced
  <2>3. CASE d = "label"
    BY <1>3, <1>7, <1>8, <2>3, LabelledBlock
  <2>4. CASE d = "label_backup"
    BY <1>3, <1>7, <1>8, <2>4, LabelledBackup
  <2>5. CASE d = "sync_backup"
    BY <1>3, <1>7, <1>8, <2>5, BackupSynced
  <2> QED
    BY <1>3, <2>1, <2>2, <2>3, <2>4, <2>5 DEF BlockDeeds
<1>11. PairOp(p, q) /\ ~Doing("sync_move") /\ u.do # "sync_move"
  BY <1>2, <1>3, <1>6, <1>9 DEF PairOp, Doing, BlockDeeds
<1>12. Source(p, q)' /\ Target(q, u.do)' /\ (p \notin loose' => Safe(p)')
  BY <1>11, PairSafe
<1>13. q \notin loose' => Safe(q)'
  BY <1>7, <1>10
<1>14. trouble = 0 => ~Exists(Backup(p)) /\ backupResult
  BY <1>3, <1>4, <1>6, <1>7 DEF RenameAt, BlockDeeds
<1>15. Exists(Backup(p))' <=> Exists(Backup(p))
  <2>1. Touches(Primary(q)) \/ Touches(Backup(q))
    <3>1. Sealed(Content(q)) \in File /\ (Exists(Backup(q)) => Sealed(At(Backup(q)).data) \in File)
      BY <1>7, <1>8, AtIs, FileIs DEF Content, Sealed
    <3> QED
      BY <1>3, <1>7, <1>8, <1>9, <3>1, SyncNameTouches, SyncFileTouches, BecomesTouches, CreatesTouches
         DEF BlockDeeds
  <2> QED
    BY <1>7, <2>1 DEF Touches, Same, Exists
<1>16. ~failed /\ (backupResult => trouble = 0)
  BY <1>3, <1>4 DEF RenameAt, BlockDeeds
<1>17. RenameAt(p, q, u.do, u.at)'
  <2>1. CASE d # "sync_backup"
    <3>1. u.do \in BlockDeeds /\ Block(q, u.do, "moved")' /\ u.at = q
      <4>1. Follows(Head(todo), u)
        BY <1>1, <1>5, <1>6, Comes DEF Pairing
      <4>2. u.at = q
        BY <1>2, <1>3, <1>6, <2>1, <4>1 DEF Follows, FollowsHere, FollowsThere, Path, BlockDeeds
      <4> QED
        BY <1>3, <1>6, <1>10, <2>1, <4>2 DEF BlockDeeds
    <3> QED
      BY <1>7, <1>12, <1>14, <1>15, <1>16, <3>1 DEF RenameAt, BlockDeeds
  <2>2. CASE d = "sync_backup"
    <3>1. Validates(At(Backup(q)))'
      <4>1. PICK c : c = Content(q)'
        OBVIOUS
      <4>2. Exists(Primary(q))' /\ At(Backup(q))' = Sealed(c)
        BY <1>10, <2>2, <4>1 DEF Backed
      <4>3. c # "none"
        BY <1>7, <4>1, <4>2, PlainIsNext
      <4> QED
        BY <4>2, <4>3 DEF Validates, Sealed
    <3> QED
      BY <1>6, <1>7, <1>10, <1>12, <1>14, <1>15, <1>16, <2>2, <3>1 DEF RenameAt, BlockDeeds
  <2> QED
    BY <2>1, <2>2
<1>18. u.do # "move"
  BY <1>3, <1>6 DEF BlockDeeds
<1> QED
  BY <1>1, <1>6, <1>12, <1>13, <1>17, <1>18 DEF InPair

\* A step of a rename fails, by the system or for want of room.
LEMMA FailPairs ==
    ASSUME NEW p, NEW q, Pairing(p, q), FilesIInv', NEW t, t = todo', Fails,
           UNCHANGED <<fds, backupResult>>,
           \/ trouble' # 0 /\ Head(todo).do \notin Decisions
           \/ trouble' = trouble /\ Doing("copy_to_backup") /\ ~Exists(Backup(q))
    PROVE  InPair(p, q, t)' /\ t # <<>> /\ t[Len(t)] = Last /\ Head(t).do # "move"
<1>1. PICK u : u = Head(t)
  OBVIOUS
<1>2. PICK d : d = Head(todo).do
  OBVIOUS
<1>3. PICK l : l = Last
  OBVIOUS
<1>4. /\ t = FromLanding(todo) /\ failed' /\ loose' = loose \cup {Path}
      /\ UNCHANGED diskVars /\ UNCHANGED <<worth, moving>>
  BY DEF Fails
<1>5. /\ RenameAt(p, q, d, Path) /\ Struct /\ todo # <<>> /\ p # q /\ p \in Paths /\ q \in Paths
      /\ Head(todo) \in FileSteps /\ Belongs(Head(todo), l) /\ l.do = "renamed" /\ l.at = p /\ l.to = q
      /\ d # "move" /\ Disk
  BY <1>2, <1>3 DEF Pairing, FilesIInv
<1>6. /\ d \in {"sync_move", "after_move", "after_unlink", "checksum_moved"} \cup BlockDeeds => Path = q
      /\ d \in {"sync_move", "after_move", "after_unlink", "checksum_moved", "unlink_backup",
                "sync_unlink_backup", "moved", "renamed"} \cup BlockDeeds
  <2>1. PICK r : r = Tail(todo)
    OBVIOUS
  <2> QED
    BY ONLY Pairing(p, q), <1>2, <2>1, ComesPair
<1>7. d \notin Decisions
  BY <1>2 DEF Doing, Decisions, Landings
<1>8. d \in Landed
  BY <1>6, <1>7 DEF Landed, Decisions, Landings
<1>9. Lands(todo)
  BY <1>2, <1>5, <1>8, LandsAhead DEF Struct
<1>10. t # <<>> /\ Chained(t) /\ t[Len(t)] = l /\ u.do \in Landings /\ Belongs(u, l)
  <2>1. t # <<>>
    BY <1>4, <1>9 DEF Lands
  <2>2. Chained(t) /\ t[Len(t)] = l /\ u.do \in Landings
    BY <1>1, <1>3, <1>4, <1>5, <2>1, SuffixChained DEF Struct, Last
  <2>3. Belongs(u, t[Len(t)])
    BY <1>1, <2>1, <2>2, TailChained, Zenon
  <2> QED
    BY <2>1, <2>2, <2>3
<1>11. u.do \in {"after_move", "after_unlink", "moved", "renamed"}
  BY <1>5, <1>10 DEF Belongs, Landings, PairDeeds, TargetDeeds, BlockDeeds
<1>12. \A m \in Names : Same(m) /\ Stable(m) /\ (Exists(m)' <=> Exists(m))
  BY <1>4, NoEffect
<1>13. /\ Source(p, q)' /\ Target(q, u.do)' /\ (p \notin loose' => Safe(p)')
       /\ (q \notin loose' => Safe(q)')
  <2>1. Doing("sync_move") => q \in loose'
    BY <1>2, <1>4, <1>6 DEF Doing
  <2>2. PairOp(p, q) /\ u.do # "sync_move" /\ worth' = worth /\ loose \subseteq loose' /\ UNCHANGED fds
    BY <1>4, <1>11 DEF PairOp
  <2>3. trouble' = trouble \/ trouble' # 0
    OBVIOUS
  <2>4. \A g \in Reach(Backup(q))' : g \in Reach(Backup(q))
    BY <1>5, <1>12, NamesAre DEF Stable
  <2> QED
    BY <2>1, <2>2, <2>3, <2>4, PairSafe
<1>14. RenameAt(p, q, u.do, u.at)'
  <2>1. CASE trouble' # 0
    BY <1>4, <1>5, <1>11, <1>13, <2>1 DEF RenameAt, BlockDeeds
  <2>2. CASE trouble' = 0
    <3>1. trouble = 0 /\ d = "copy_to_backup" /\ ~Exists(Backup(q))
      BY <1>2, <2>2 DEF Doing
    <3>2. u.do = "moved"
      <4>1. d \in BlockDeeds
        BY <3>1 DEF BlockDeeds
      <4> QED
        BY <1>1, <1>2, <1>4, <1>9, <1>11, <4>1 DEF Lands
    <3>3. ~Exists(Backup(p)) /\ backupResult
      BY <1>5, <3>1 DEF RenameAt
    <3>4. ~Exists(Backup(p))' /\ ~Exists(Backup(q))'
      BY <1>5, <1>12, <3>1, <3>3, NamesAre
    <3> QED
      BY <1>4, <1>5, <1>13, <2>2, <3>2, <3>3, <3>4 DEF RenameAt, BlockDeeds
  <2> QED
    BY <2>1, <2>2
<1> QED
  BY <1>1, <1>3, <1>10, <1>11, <1>13, <1>14 DEF InPair

\* The rename looks whether the backup was made, and deletes it if it was not.
LEMMA MovedPairs ==
    ASSUME NEW p, NEW q, Pairing(p, q), FilesIInv', NEW t, t = todo', Moved
    PROVE  InPair(p, q, t)' /\ t # <<>> /\ t[Len(t)] = Last /\ Head(t).do # "move"
<1>1. PICK u : u = Head(t)
  OBVIOUS
<1>2. PICK l : l = Last
  OBVIOUS
<1>3. /\ Head(todo).do = "moved" /\ backupResult' = (backupResult /\ ~failed) /\ ~failed'
      /\ t = (IF failed THEN DeleteBackup(Head(todo).to) ELSE <<>>) \o Tail(todo)
      /\ UNCHANGED diskVars /\ UNCHANGED <<fds, worth, loose, trouble>>
  BY DEF Moved, Doing, promiseVars
<1>4. /\ RenameAt(p, q, "moved", Path) /\ Struct /\ todo # <<>> /\ p # q /\ p \in Paths /\ q \in Paths
      /\ l.do = "renamed" /\ l.at = p /\ l.to = q /\ Disk /\ backupResult \in BOOLEAN /\ failed \in BOOLEAN
  BY <1>2, <1>3 DEF Pairing, FilesIInv, ClientTypeOK
<1>5. /\ Head(todo).to = q /\ Path = p
      /\ Tail(todo) # <<>> /\ Chained(Tail(todo)) /\ Head(Tail(todo)).do = "renamed"
      /\ Tail(todo)[Len(Tail(todo))] = l
      /\ LET o == DeleteBackup(Head(todo).to) \o Tail(todo)
         IN  /\ o # <<>> /\ o[Len(o)] = l
             /\ Head(o).do = "unlink_backup" /\ Head(o).at = Head(todo).to
  BY <1>2, <1>3, <1>4, MovedChained DEF Struct, Last, Path
<1>6. /\ t # <<>> /\ t[Len(t)] = l
      /\ u.do = IF failed THEN "unlink_backup" ELSE "renamed"
      /\ failed => u.at = q
  <2>1. Tail(todo) \in Seq(FileSteps)
    BY <1>5 DEF Chained
  <2>2. <<>> \o Tail(todo) = Tail(todo)
    BY <2>1
  <2> QED
    BY <1>1, <1>3, <1>5, <2>2
<1>7. \A m \in Names : Same(m) /\ Stable(m) /\ (Exists(m)' <=> Exists(m))
  BY <1>3, NoEffect
<1>8. /\ Source(p, q)' /\ Target(q, u.do)' /\ (p \notin loose' => Safe(p)')
      /\ (q \notin loose' => Safe(q)')
  <2>1. ~Doing("sync_move") /\ u.do # "sync_move" /\ PairOp(p, q)
    BY <1>3, <1>6 DEF Doing, PairOp
  <2>2. \A g \in Reach(Backup(q))' : g \in Reach(Backup(q))
    BY <1>4, <1>7, NamesAre DEF Stable
  <2> QED
    BY <1>3, <2>1, <2>2, PairSafe
<1>9. /\ Exists(Backup(p))' <=> Exists(Backup(p))
      /\ Exists(Backup(q))' <=> Exists(Backup(q))
      /\ Validates(At(Backup(q)))' <=> Validates(At(Backup(q)))
      /\ Backed(q)' <=> Backed(q)
  BY <1>3 DEF diskVars, Exists, At, Validates, Backed, Still, Now, Left, Content, Sealed
<1>10. RenameAt(p, q, u.do, u.at)'
  <2>1. CASE failed
    BY <1>3, <1>4, <1>5, <1>6, <1>8, <1>9, <2>1 DEF RenameAt, BlockDeeds
  <2>2. CASE ~failed
    <3>1. (trouble = 0 => backupResult /\ Backed(q) /\ ~Exists(Backup(p))
              /\ (Exists(Backup(q)) => Validates(At(Backup(q)))))
          /\ (backupResult => trouble = 0)
      BY <1>4, <1>5, <2>2 DEF RenameAt
    <3> QED
      BY <1>3, <1>4, <1>6, <1>8, <1>9, <2>2, <3>1 DEF RenameAt, BlockDeeds
  <2> QED
    BY <2>1, <2>2
<1> QED
  BY <1>1, <1>2, <1>6, <1>8, <1>10 DEF InPair

\* A path that has neither a file nor a backup.
LEMMA BareRests ==
    ASSUME NEW p \in Paths, ~Exists(Primary(p)), ~Exists(Backup(p)), Still \/ p \in loose,
           \A fd \in fds : fd.id # 0
    PROVE  Rest(p)
<1>1. /\ names[Primary(p)] = 0 /\ names[Backup(p)] = 0 /\ ~Writer(p)
      /\ Now(Primary(p)) = {NoFile} /\ At(Primary(p)) = NoFile
      /\ Now(Backup(p)) = {NoFile} /\ At(Backup(p)) = NoFile
  BY DEF Exists, Writer, Now, At, Left
<1>2. Labels(p) /\ Uniform(p)
  BY <1>1 DEF Labels, Uniform, Content, NoFile
<1>3. Kept(p) => Flush(p)
  BY <1>1 DEF Kept, Flush, Still, Durable, Exists
<1> QED
  BY <1>1, <1>2, <1>3 DEF Rest, Resting

\* The same in the next state.
LEMMA BareRestsNext ==
    (\A p \in Paths : (~Exists(Primary(p)) /\ ~Exists(Backup(p)) /\ (Still \/ p \in loose)
         /\ \A fd \in fds : fd.id # 0) => Rest(p))'
<1>1. \A p \in Paths : (~Exists(Primary(p)) /\ ~Exists(Backup(p)) /\ (Still \/ p \in loose)
         /\ \A fd \in fds : fd.id # 0) => Rest(p)
  BY BareRests
<1> QED
  BY <1>1, PTL

\* A path that is exempt and has no backup.
LEMMA UnbackedRests ==
    ASSUME NEW p \in Paths, p \in loose, ~Exists(Backup(p)), Labels(p), Uniform(p), Own(p)
    PROVE  Rest(p)
  BY DEF Rest, Resting, Kept

\* The same in the next state.
LEMMA UnbackedRestsNext ==
    (\A p \in Paths : (p \in loose /\ ~Exists(Backup(p)) /\ Labels(p) /\ Uniform(p) /\ Own(p)) => Rest(p))'
<1>1. \A p \in Paths : (p \in loose /\ ~Exists(Backup(p)) /\ Labels(p) /\ Uniform(p) /\ Own(p)) => Rest(p)
  BY UnbackedRests
<1> QED
  BY <1>1, PTL

\* At the end of a rename both paths rest.
LEMMA RenamedSure ==
    ASSUME SurviveIInv, NEW p, NEW q, Pairing(p, q), FilesIInv', Struct', Renamed
    PROVE  Sure'
<1>1. PICK c : c = Content(q)
  OBVIOUS
<1>2. /\ Head(todo).do = "renamed" /\ todo' = Tail(todo)
      /\ ~failed' /\ backupResult' /\ UNCHANGED diskVars /\ UNCHANGED <<fds, trouble>>
  BY DEF Renamed, Doing, Proceeds
<1>3. /\ RenameAt(p, q, "renamed", Path) /\ p # q /\ p \in Paths /\ q \in Paths
      /\ Disk /\ Disk' /\ Injective /\ Roles /\ ClientTypeOK
      /\ \A r \in Paths \ {p, q} : Rest(r)
      /\ \A r \in Paths \ loose : Safe(r) /\ (r # p => Apart(r))
  BY <1>2 DEF Pairing, FilesIInv
<1>4. Path = p /\ Head(todo).to = q /\ todo' = <<>>
  <2>1. PICK r : r = Tail(todo)
    OBVIOUS
  <2>2. Path = p /\ Head(todo).to = q /\ r = <<>>
    BY ONLY Pairing(p, q), <1>2, <2>1, ComesPair
  <2> QED
    BY <1>2, <2>1, <2>2
<1>5. /\ \A n \in Names : /\ Same(n) /\ Stable(n) /\ (Exists(n)' <=> Exists(n))
                          /\ (Durable(n)' <=> Durable(n))
      /\ Still' <=> Still
      /\ Injective' <=> Injective
      /\ \A r \in Paths : Apart(r)' <=> Apart(r)
  BY <1>2, NoEffect
<1>6. /\ Primary(p) \in Names /\ Backup(p) \in Names /\ Primary(q) \in Names /\ Backup(q) \in Names
  BY <1>3, NamesAre
<1>7. \A r \in Paths : /\ Content(r)' = Content(r) /\ (Own(r)' <=> Own(r)) /\ (Labels(r)' <=> Labels(r))
                       /\ (Uniform(r)' <=> Uniform(r)) /\ (Backed(r)' <=> Backed(r))
                       /\ (Writer(r)' <=> Writer(r))
  BY <1>2 DEF diskVars, Content, At, Exists, Own, Labels, Uniform, Now, Left, Backed, Still, Sealed, Writer
<1>8. \A fd \in fds' : fd.id # 0
  BY <1>2 DEF Pairing, FilesIInv, ClientTypeOK, Descriptors
<1>9. /\ ~Exists(Primary(p))' /\ (trouble = 0 => ~Exists(Backup(p))')
      /\ (trouble = 0 /\ backupResult => Backed(q)') /\ (trouble = 0 /\ ~backupResult => ~Exists(Backup(q))')
      /\ (failed => trouble # 0) /\ (backupResult /\ ~failed => trouble = 0)
  BY <1>3, <1>5, <1>6, <1>7 DEF RenameAt, Source, BlockDeeds
<1>10. Exists(Primary(q)) /\ (Watched(q) => Own(q) /\ Labels(q) /\ Uniform(q)) /\ c # "none"
  <2>1. Exists(Primary(q)) /\ (Watched(q) => Own(q) /\ Labels(q) /\ Uniform(q))
    BY <1>3 DEF RenameAt, Target
  <2> QED
    BY <1>1, <1>3, <2>1, PlainIs
<1> DEFINE Tells == failed \/ ~backupResult \/ c \notin Whole
\* What the others have.
<1>11. \A r \in Paths \ {p, q} : Rest(r)' /\ (r \notin loose' => Safe(r)' /\ Apart(r)')
  <2> SUFFICES ASSUME NEW r \in Paths \ {p, q}
               PROVE  Rest(r)' /\ (r \notin loose' => Safe(r)' /\ Apart(r)')
    OBVIOUS
  <2>1. worth'[r] = worth[r] /\ (r \in loose' <=> r \in loose)
    BY <1>3, <1>4 DEF Renamed, ClientTypeOK
  <2>2. Calm(r)
    BY <1>2, <1>5, <1>7, <2>1, NamesAre DEF Calm, Stable
  <2> QED
    BY <1>3, <1>5, <2>1, <2>2, CalmPath
\* The rename failed.
<1>12. CASE Tells
  <2>1. p \in loose' /\ q \in loose' /\ UNCHANGED worth
    BY <1>1, <1>4, <1>12 DEF Renamed
  <2>2. Rest(p)' /\ Rest(q)'
    <3>1. CASE trouble # 0
      BY <1>2, <1>3, <2>1, <3>1, ExemptRestsNext
    <3>2. CASE trouble = 0
      <4>1. Rest(p)'
        BY <1>3, <1>8, <1>9, <2>1, <3>2, BareRestsNext
      <4>2. (Own(q) /\ Labels(q) /\ Uniform(q))'
        BY <1>3, <1>7, <1>10, <3>2 DEF Watched
      <4>3. CASE backupResult
        <5>1. Backed(q)'
          BY <1>9, <3>2, <4>3
        <5>2. \A x, y : Resting(q, x)' /\ MayOpen(q, y)'
          BY <1>3, <2>1, <4>2, <5>1, BackedRestsNext
        <5>3. Rest(q)'
          BY <1>3, <5>2, RestIsNext
        <5> QED
          BY <4>1, <5>3
      <4>4. CASE ~backupResult
        BY <1>3, <1>9, <2>1, <3>2, <4>1, <4>2, <4>4, UnbackedRestsNext
      <4> QED
        BY <4>3, <4>4
    <3> QED
      BY <3>1, <3>2
  <2>3. \A r \in Paths : Rest(r)' /\ (r \notin loose' => Safe(r)' /\ Apart(r)')
    BY <1>11, <2>1, <2>2
  <2> QED
    BY <1>2, <1>3, <1>4, <1>5, <2>3 DEF Sure, AllSafe, AllApart, Point, OthersRest, AtRest, NotRename, Busy, Roles, diskVars
\* The rename was done.
<1>13. CASE ~Tells
  <2>1. /\ c \in Whole /\ worth' = [worth EXCEPT ![p] = {"missing"}, ![q] = {c}]
        /\ trouble = 0 /\ backupResult /\ ~failed
    BY <1>1, <1>4, <1>9, <1>13 DEF Renamed
  <2>2. worth'[p] = {"missing"} /\ worth'[q] = {c}
    BY <1>3, <2>1 DEF ClientTypeOK
  <2>3. /\ ~Exists(Primary(p))' /\ ~Exists(Backup(p))' /\ Backed(q)' /\ Still'
        /\ (Own(q) /\ Labels(q) /\ Uniform(q))' /\ Content(q)' = c
    <3>1. ~Exists(Primary(p))' /\ ~Exists(Backup(p))' /\ Backed(q)'
      BY <1>9, <2>1
    <3>2. (Own(q) /\ Labels(q) /\ Uniform(q))' /\ Content(q)' = c
      BY <1>1, <1>3, <1>7, <1>10, <2>1 DEF Watched
    <3> QED
      BY <3>1, <3>2 DEF Backed
  <2>4. /\ Rest(p)' /\ Rest(q)'
    <3>1. Rest(p)'
      BY <1>3, <1>8, <2>3, BareRestsNext
    <3>2. \A x : Resting(q, x)'
      BY <1>3, <2>2, <2>3, BackedRestsNext
    <3> QED
      BY <1>3, <3>1, <3>2, RestIsNext
  <2>5. \A n \in Names : Durable(n)' /\ Reach(n)' = Now(n)'
    <3>1. \A n \in Names : Durable(n)'
      BY <2>3, StillNext
    <3> QED
      BY <1>3, <3>1, NowIsNext
  <2>6. Apart(p)' /\ Apart(q)'
    BY <1>3, <1>5, <1>6, <2>5, DurableApartNext
  <2>7. Safe(p)'
    <3>1. Now(Primary(p))' = {NoFile} /\ Now(Backup(p))' = {NoFile}
      BY <1>3, <1>6, <2>3, NowIsNext
    <3>2. \A f \in Reach(Primary(p))' : f = NoFile
      BY <1>6, <2>5, <3>1
    <3>3. \A g \in Reach(Backup(p))' : ~Validates(g)
      BY <1>6, <2>5, <3>1 DEF Validates, NoFile
    <3> QED
      BY <1>3, <2>2, <3>2, <3>3, SafeGoneNext
  <2>8. Safe(q)'
    <3>1. \A f \in Reach(Primary(q))' : f.data = c /\ f.label \in {"none", c}
      BY <1>6, <2>3, <2>5 DEF Own, Labels, Uniform
    <3>2. \A g \in Reach(Backup(q))' : g.data = c
      BY <1>6, <2>3, <2>5 DEF Backed, Sealed
    <3> QED
      BY <1>3, <1>10, <2>2, <3>1, <3>2, SafeFromNext
  <2>9. \A r \in Paths : Rest(r)' /\ (r \notin loose' => Safe(r)' /\ Apart(r)')
    BY <1>11, <2>4, <2>6, <2>7, <2>8
  <2> QED
    BY <1>2, <1>3, <1>4, <1>5, <2>9 DEF Sure, AllSafe, AllApart, Point, OthersRest, AtRest, NotRename, Busy, Roles, diskVars
<1> QED
  BY <1>12, <1>13

\* A step of a rename leaves the other paths as they are.
LEMMA PairFrame ==
    ASSUME SurviveIInv, FilesIInv', Struct', NEW p, NEW q, Pairing(p, q), NEW t, t = todo',
           \E n \in {Primary(Path), Backup(Path)} : Touches(n), UNCHANGED fds,
           trouble' = trouble \/ trouble' # 0, \A r \in Paths \ {Path} : Unpromised(r),
           loose \subseteq loose',
           InPair(p, q, t)' /\ t # <<>> /\ t[Len(t)] = Last /\ Head(t).do # "move"
    PROVE  Sure'
<1>1. /\ FilesIInv /\ Injective /\ Roles /\ p \in Paths /\ q \in Paths /\ p # q /\ Path \in {p, q}
      /\ Last.do = "renamed" /\ Last.at = p /\ Last.to = q
      /\ \A r \in Paths \ {p, q} : Rest(r)
      /\ \A r \in Paths \ loose : Safe(r) /\ (r # p => Apart(r))
  BY DEF Pairing
<1>2. PICK x : x = Path
  OBVIOUS
<1>3. x \in Paths /\ x \in {p, q} /\ (\E n \in {Primary(x), Backup(x)} : Touches(n))
      /\ \A r \in Paths \ {x} : Unpromised(r)
  BY <1>1, <1>2
<1>4. /\ \A r \in Paths \ {x} : Unpromised(r) /\ (r \notin loose => Apart(r)) => Calm(r)
      /\ Roles' /\ Injective'
      /\ \A r \in Paths : Apart(r) => Apart(r)'
  BY <1>1, <1>3, FrameIs
<1>5. \A r \in Paths \ {p, q} : Calm(r) /\ Rest(r) /\ (r \notin loose => Apart(r)')
  BY <1>1, <1>3, <1>4
<1>6. q \notin loose' => Apart(q)'
  BY <1>1, <1>4
<1>7. /\ RenameAt(p, q, Head(t).do, Head(t).at)'
      /\ (q \notin loose => Safe(q))' /\ (p \notin loose => Safe(p))'
  BY DEF InPair
<1>8. /\ t # <<>> /\ t[Len(t)].do = "renamed" /\ t[Len(t)].at = p /\ t[Len(t)].to = q
      /\ Head(t).do # "move"
  BY <1>1
<1> QED
  BY <1>1, <1>4, <1>5, <1>6, <1>7, <1>8, PairPath

\* The steps of a rename.
LEMMA StepPairs ==
    ASSUME NEW p, NEW q, Pairing(p, q), FilesIInv', NEW t, t = todo', StepNext, ~Renamed
    PROVE  /\ InPair(p, q, t)' /\ t # <<>> /\ t[Len(t)] = Last /\ Head(t).do # "move"
           /\ loose \subseteq loose' /\ UNCHANGED fds
<1> DEFINE ToGoOn == InPair(p, q, t)' /\ t # <<>> /\ t[Len(t)] = Last /\ Head(t).do # "move"
           Keep == loose \subseteq loose' /\ UNCHANGED fds
<1>1. PICK d : d = Head(todo).do
  OBVIOUS
<1>2. PICK r : r = Tail(todo)
  OBVIOUS
<1>3. /\ d \in {"sync_move", "after_move", "after_unlink", "checksum_moved"} \cup BlockDeeds => Path = q
      /\ d \in {"sync_move", "after_move", "after_unlink", "checksum_moved", "unlink_backup",
                "sync_unlink_backup", "moved", "renamed"} \cup BlockDeeds
  BY ONLY Pairing(p, q), <1>1, <1>2, ComesPair
<1>4. p # q /\ Path \in {p, q}
  BY DEF Pairing
<1> SUFFICES ToGoOn /\ Keep
  OBVIOUS
<1>5. CASE CopyToBackup
  <2>1. UNCHANGED <<fds, backupResult, rounds, trouble>> /\ Doing("copy_to_backup") /\ Head(todo).do \in BlockDeeds
        /\ Path = q
    BY <1>1, <1>3, <1>5 DEF CopyToBackup, Doing, BlockDeeds
  <2>2. CASE Creates(Backup(Path), Content(Path)) /\ Proceeds /\ UNCHANGED <<failed, promiseVars>>
    <3>1. UNCHANGED <<fds, failed, backupResult, worth, loose, trouble>>
      BY <2>1, <2>2 DEF promiseVars
    <3> QED
      BY <2>1, <2>2, <3>1, BlockPairs
  <2>3. CASE ~Exists(Backup(Path)) /\ Fails
    <3>1. Keep
      BY <2>1, <2>3 DEF Fails
    <3> QED
      BY <2>1, <2>3, <3>1, FailPairs
  <2> QED
    BY <1>5, <2>2, <2>3 DEF CopyToBackup
<1>6. CASE Label
  <2>1. Keep
    BY <1>6 DEF Label
  <2>2. CASE Doing("checksum_moved")
    BY <1>6, <2>1, <2>2, ChecksumPairs
  <2>3. CASE Doing("label")
    <3>1. /\ Becomes(names[Primary(q)], Sealed(Content(q))) /\ Proceeds /\ Head(todo).do \in BlockDeeds
          /\ UNCHANGED <<fds, failed, backupResult, worth, loose, trouble>>
      BY <1>1, <1>3, <1>6, <2>3 DEF Label, Doing, DoingOneOf, Checksums, Sealed, BlockDeeds
    <3> QED
      BY <2>1, <2>3, <3>1, BlockPairs
  <2> QED
    BY <1>1, <1>3, <1>6, <2>2, <2>3 DEF Label, Checksums, DoingOneOf, Doing, BlockDeeds
<1>7. CASE LabelBackup
  <2>1. /\ Becomes(names[Backup(q)], Sealed(At(Backup(q)).data)) /\ Proceeds /\ Head(todo).do \in BlockDeeds
        /\ UNCHANGED <<fds, failed, backupResult, worth, loose, trouble>> /\ Doing("label_backup")
    BY <1>1, <1>3, <1>7 DEF LabelBackup, promiseVars, Doing, Sealed, BlockDeeds
  <2> QED
    BY <2>1, BlockPairs
<1>8. CASE Sync
  <2>1. Keep /\ Proceeds /\ UNCHANGED <<fds, failed, backupResult, worth, loose, trouble>>
    BY <1>8 DEF Sync, promiseVars
  <2>2. CASE Doing("sync_move")
    <3>1. SyncName(Primary(q))
      BY <1>1, <1>3, <1>8, <2>2 DEF Sync, Doing, DoingOneOf
    <3> QED
      BY <2>1, <2>2, <3>1, SyncMovePairs
  <2>3. CASE Doing("sync_copy_name")
    <3>1. SyncName(Backup(q)) /\ Head(todo).do \in BlockDeeds
      BY <1>1, <1>3, <1>8, <2>3 DEF Sync, Doing, DoingOneOf, BlockDeeds
    <3> QED
      BY <2>1, <2>3, <3>1, BlockPairs
  <2>4. CASE Doing("sync_backup")
    <3>1. SyncFile(Backup(q)) /\ Head(todo).do \in BlockDeeds
      BY <1>1, <1>3, <1>8, <2>4 DEF Sync, Doing, DoingOneOf, BlockDeeds
    <3> QED
      BY <2>1, <2>4, <3>1, BlockPairs
  <2>5. CASE Doing("sync_unlink_backup")
    <3>1. SyncName(Backup(Path))
      BY <1>8, <2>5 DEF Sync, Doing, DoingOneOf
    <3>2. CASE Path = p
      BY <2>1, <2>5, <3>1, <3>2, UnlinkSourcePairs
    <3>3. CASE Path = q
      BY <2>1, <2>5, <3>1, <3>3, UnlinkTargetPairs
    <3> QED
      BY <1>4, <3>2, <3>3
  <2> QED
    BY <1>1, <1>3, <1>8, <2>2, <2>3, <2>4, <2>5 DEF Sync, Doing, DoingOneOf, BlockDeeds
<1>9. CASE Unlink
  <2>1. Keep /\ Proceeds /\ UNCHANGED <<fds, failed, backupResult, loose, trouble>>
    BY <1>9 DEF Unlink
  <2>2. Doing("unlink_backup")
    BY <1>1, <1>3, <1>9 DEF Unlink, Doing, BlockDeeds
  <2>3. Unlinks(Backup(Path)) /\ UNCHANGED worth
    BY <1>9, <2>2 DEF Unlink, Doing
  <2>4. CASE Path = p
    BY <2>1, <2>2, <2>3, <2>4, UnlinkSourcePairs
  <2>5. CASE Path = q
    BY <2>1, <2>2, <2>3, <2>5, UnlinkTargetPairs
  <2> QED
    BY <1>4, <2>4, <2>5
<1>10. CASE GoOn
  <2>1. Keep
    BY <1>10 DEF GoOn, promiseVars
  <2> QED
    BY <1>10, <2>1, GoOnPairs
<1>11. CASE Moved
  <2>1. Keep
    BY <1>11 DEF Moved, promiseVars
  <2> QED
    BY <1>11, <2>1, MovedPairs
<1>12. /\ ~Enter /\ ~Refresh /\ ~CopyToPrimary /\ ~Open /\ ~Fill /\ ~Match /\ ~Move /\ ~Leave
       /\ ~Overlook /\ ~Tracked /\ ~Filled /\ ~CloseDone /\ ~Deleted
  BY <1>1, <1>3 DEF Enter, Refresh, CopyToPrimary, Open, Fill, Match, Move, Leave, Overlook, Tracked,
     Filled, CloseDone, Deleted, Doing, DoingOneOf, BlockDeeds
<1> QED
  BY <1>5, <1>6, <1>7, <1>8, <1>9, <1>10, <1>11, <1>12 DEF StepNext

\* A step of a rename keeps the invariant.
LEMMA RenameStep ==
    ASSUME SurviveIInv, FilesIInv', Struct', todo # <<>>, Renames(Head(todo), Last), StepNext
    PROVE  Sure'
<1>1. PICK p, q : Pairing(p, q) /\ HasFile
  BY PairingIs
<1>2. CASE Renamed
  BY <1>1, <1>2, RenamedSure
<1>3. CASE ~Renamed
  <2>1. PICK t : t = todo'
    OBVIOUS
  <2>2. /\ InPair(p, q, t)' /\ t # <<>> /\ t[Len(t)] = Last /\ Head(t).do # "move"
        /\ loose \subseteq loose' /\ UNCHANGED fds
    BY <1>1, <1>3, <2>1, StepPairs
  <2>3. FilesIInv /\ Injective /\ ~Doing("move")
    BY <1>1 DEF Pairing, Doing
  <2>4. TouchesPath
    BY <1>1, <2>3, StepTouches
  <2>5. /\ trouble' = trouble
        /\ \A r \in Paths \ {Path} : (Doing("renamed") => r # Head(todo).to) => Unpromised(r)
    BY <2>3, StepPromises
  <2>6. ~Doing("renamed")
    <3>1. ASSUME Doing("renamed") PROVE Renamed
      BY <3>1 DEF StepNext, Doing, DoingOneOf, Enter, Refresh, CopyToBackup, CopyToPrimary, Label, LabelBackup,
         Sync, Unlink, Open, Fill, Match, Move, Leave, Overlook, Tracked, Filled, CloseDone, Deleted, GoOn,
         Moved, Checksums
    <3> QED
      BY <1>3, <3>1
  <2>7. \A r \in Paths \ {Path} : Unpromised(r)
    BY <2>5, <2>6
  <2> QED
    BY <1>1, <2>1, <2>2, <2>4, <2>5, <2>7, PairFrame DEF TouchesPath
<1> QED
  BY <1>2, <1>3

\* A system call of a rename that fails.
LEMMA RenameFails ==
    ASSUME SurviveIInv, FilesIInv', Struct', todo # <<>>, Renames(Head(todo), Last), SystemCallFails
    PROVE  Sure'
<1>1. PICK p, q : Pairing(p, q) /\ HasFile
  BY PairingIs
<1>2. PICK t : t = todo'
  OBVIOUS
<1>3. PICK d : d = Head(todo).do
  OBVIOUS
<1>4. PICK r : r = Tail(todo)
  OBVIOUS
<1>5. d \in {"sync_move", "after_move", "after_unlink", "checksum_moved", "unlink_backup",
             "sync_unlink_backup", "moved", "renamed"} \cup BlockDeeds
  BY ONLY <1>1, <1>3, <1>4, ComesPair
<1>6. /\ Fails /\ UNCHANGED <<fds, backupResult>> /\ trouble' # 0 /\ Head(todo).do \notin Decisions
  <2>1. trouble \in Nat
    BY <1>1, FilesAssumption DEF Pairing, FilesIInv, ClientTypeOK
  <2> QED
    BY <1>3, <1>5, <2>1 DEF SystemCallFails, BlockDeeds
<1>7. InPair(p, q, t)' /\ t # <<>> /\ t[Len(t)] = Last /\ Head(t).do # "move"
  BY <1>1, <1>2, <1>6, FailPairs
<1>8. /\ UNCHANGED diskVars /\ loose \subseteq loose' /\ \A s \in Paths \ {Path} : Unpromised(s)
  BY <1>6 DEF Fails, Unpromised
<1>9. Touches(Primary(Path))
  <2>1. Primary(Path) \in Names /\ Injective
    BY <1>1, NamesAre DEF Pairing
  <2> QED
    BY <1>8, <2>1, NothingTouches
<1> QED
  BY <1>1, <1>2, <1>6, <1>7, <1>8, <1>9, PairFrame

\* A rename whose system call fails is none.
LEMMA MoveFails ==
    ASSUME SurviveIInv, Doing("move"), SystemCallFails
    PROVE  Sure'
<1>1. /\ FilesIInv /\ Struct /\ Point /\ OthersRest /\ AllApart /\ NotRename
  BY DEF SurviveIInv, Sure
<1>2. /\ todo # <<>> /\ Head(todo).do = "move" /\ ~Renames(Head(todo), Last)
  BY DEF Doing, NoCall, Renames
<1>3. Rest(Path)
  <2>1. PointAt(Head(todo), Ahead, Last)
    BY <1>1, <1>2 DEF Point
  <2>2. Place(Path, "move", Ahead, Head(todo).flags)
    BY <1>2, <2>1 DEF PointAt, Path
  <2> QED
    BY <2>2 DEF Place, RestDeeds
<1>4. /\ \A p \in Paths : Rest(p)
      /\ \A p \in Paths \ loose : Apart(p)
  BY <1>1, <1>2, <1>3 DEF OthersRest, Busy, AllApart
<1>5. /\ EndCall /\ UNCHANGED diskVars /\ UNCHANGED <<fds, worth, loose, backupResult>> /\ trouble' = trouble + 1
  BY <1>2 DEF SystemCallFails, promiseVars
<1>6. trouble' # 0
  <2>1. trouble \in Nat
    BY <1>1, FilesAssumption DEF FilesIInv, ClientTypeOK
  <2> QED
    BY <1>5, <2>1
<1>7. backupResult'
  BY <1>1, <1>2, <1>5 DEF NotRename
<1> QED
  BY <1>4, <1>5, <1>6, <1>7, NothingHappens DEF EndCall

\* It holds at first.
LEMMA SurviveInit == FilesInit => SurviveIInv
  BY FilesInitInv, SureInit DEF SurviveIInv

\* Every step keeps it: calls, steps, failures, crashes and damage.
LEMMA SurviveStep == SurviveIInv /\ [FilesNext]_fileVars => SurviveIInv'
<1> SUFFICES ASSUME SurviveIInv, [FilesNext]_fileVars PROVE SurviveIInv'
  OBVIOUS
<1>1. FilesIInv'
  BY FilesStep DEF SurviveIInv
<1>2. Struct'
  BY StructStep DEF SurviveIInv, Sure
<1>3. CASE ClientCalls
  BY <1>1, <1>2, <1>3, ClientSure DEF SurviveIInv
<1>4. CASE StepNext
  <2>1. todo # <<>>
    <3>1. ASSUME todo = <<>> PROVE FALSE
      BY <1>4, <3>1 DEF StepNext, Doing, DoingOneOf, NoCall, Enter, Refresh, CopyToBackup, CopyToPrimary, Label,
         LabelBackup, Sync, Unlink, Open, Fill, Match, Move, Leave, Overlook, Tracked, Filled, CloseDone,
         Deleted, GoOn, Moved, Renamed
    <3> QED
      BY <3>1
  <2>2. CASE Renames(Head(todo), Last)
    BY <1>1, <1>2, <1>4, <2>1, <2>2, RenameStep DEF SurviveIInv
  <2>3. CASE ~Renames(Head(todo), Last) /\ ~Doing("move")
    BY <1>1, <1>2, <1>4, <2>1, <2>3, PlainStep DEF SurviveIInv
  <2>4. CASE Doing("move")
    <3>1. Move
      BY <1>4, <2>4 DEF StepNext, Doing, DoingOneOf, Enter, Refresh, CopyToBackup, CopyToPrimary, Label,
         LabelBackup, Sync, Unlink, Open, Fill, Match, Leave, Overlook, Tracked, Filled, CloseDone,
         Deleted, GoOn, Moved, Renamed, Checksums
    <3> QED
      BY <1>1, <1>2, <3>1, MoveSure DEF SurviveIInv
  <2> QED
    BY <2>2, <2>3, <2>4
<1>5. CASE SystemCallFails
  <2>1. todo # <<>>
    BY <1>5 DEF SystemCallFails, NoCall
  <2>2. CASE Renames(Head(todo), Last)
    BY <1>1, <1>2, <1>5, <2>1, <2>2, RenameFails DEF SurviveIInv
  <2>3. CASE ~Renames(Head(todo), Last) /\ ~Doing("move")
    BY <1>1, <1>2, <1>5, <2>1, <2>3, PlainFails DEF SurviveIInv
  <2>4. CASE Doing("move")
    BY <1>1, <1>5, <2>4, MoveFails DEF SurviveIInv
  <2> QED
    BY <2>2, <2>3, <2>4
<1>6. CASE Crash
  BY <1>1, <1>2, <1>6, CrashStep DEF SurviveIInv
<1>7. CASE \E p \in Paths : Damage(p)
  BY <1>1, <1>2, <1>7, DamageStep DEF SurviveIInv
<1>8. CASE UNCHANGED fileVars
  BY <1>1, <1>8, SureStays DEF SurviveIInv
<1> QED
  BY <1>3, <1>4, <1>5, <1>6, <1>7, <1>8 DEF FilesNext

\* So it always holds.
LEMMA SurviveInvariant == FilesSpec => []SurviveIInv
  BY SurviveInit, SurviveStep, PTL DEF FilesSpec

\* An open that may find a file finds a content its client can expect, whatever paths there are,
\* however often calls failed, were cut or found their files damaged before: the backup an open
\* restores from, and the file it takes for whole, are of the path's last content
\* (tafFilePa.c:1484-1588).
THEOREM OpensTellTruth == FilesSpec => []OpenTellsTruth
<1>1. SurviveIInv => OpenTellsTruth
  <2> SUFFICES ASSUME SurviveIInv, Doing("open"), Path \notin loose
               PROVE  LET flags == Head(todo).flags
                      IN  \/ flags.truncates \/ flags.exclusive
                          \/ ~Exists(Primary(Path)) /\ ~flags.creates
                          \/ (IF Exists(Primary(Path)) THEN Content(Path) ELSE "missing") \in worth[Path]
    BY DEF OpenTellsTruth
  <2>1. Struct /\ Point
    BY DEF SurviveIInv, Sure
  <2>2. todo # <<>> /\ Head(todo).do = "open"
    BY DEF Doing, NoCall
  <2>3. ~Renames(Head(todo), Last)
    <3>1. Belongs(Head(todo), Last)
      BY <2>1, <2>2, TailChained DEF Struct, Last
    <3> QED
      BY <2>2, <3>1 DEF Belongs, Renames, PairDeeds, TargetDeeds, BlockDeeds
  <2>4. PointAt(Head(todo), Ahead, Last)
    BY <2>1, <2>2 DEF Point
  <2>5. Place(Path, "open", Ahead, Head(todo).flags)
    BY <2>2, <2>3, <2>4 DEF PointAt, Path
  <2>6. MayOpen(Path, WantsFresh(Head(todo).flags))
    BY <2>5 DEF Place
  <2> QED
    BY <2>6 DEF MayOpen, WantsFresh
<1> QED
  BY <1>1, SurviveInvariant, PTL

\* What a crash at any moment leaves of a path that is not exempt is, one open later, the
\* content of the last change that was completed or of the one under way: the order in which a
\* close, a rename and a deletion flush, label and back up (tafFilePa.c:1650, 1741, 1874).
THEOREM OldOrNewSurvives == FilesSpec => []OldOrNew
<1>1. SurviveIInv => OldOrNew
  <2> SUFFICES ASSUME SurviveIInv, NEW p \in Paths \ loose, NEW left \in namesLeft,
                      NEW f \in Left(left[Primary(p)]), NEW g \in Left(left[Backup(p)])
               PROVE  Found(f, g) \in worth[p]
    BY DEF OldOrNew, Finds
  <2>1. Safe(p)
    BY DEF SurviveIInv, Sure, AllSafe
  <2>2. f \in Reach(Primary(p)) /\ g \in Reach(Backup(p))
    BY DEF Reach
  <2> QED
    BY <2>1, <2>2 DEF Safe, Trusts
<1> QED
  BY <1>1, SurviveInvariant, PTL
===============================================================================
