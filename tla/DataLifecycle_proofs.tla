------------------------ MODULE DataLifecycle_proofs ------------------------
(* Theorems about DataLifecycle, for any number of subsystems and slots. *)
EXTENDS DataLifecycle, TLAPS

\* The thread is at a step of some part.
PlaceOK == op \in Ops /\ kind \in Kinds /\ slot \in Slots

LEMMA Positions ==
    /\ Serving \in Kinds /\ 1 \in Slots
    /\ NumKinds > 1 => 2 \in Kinds
    /\ \A k \in Kinds : k < NumKinds => k + 1 \in Kinds
    /\ \A s \in Slots : s < NumSlots => s + 1 \in Slots
  BY LifecycleAssumption DEF LifecycleAssumption, Kinds, Slots, Serving

\* Every place a step goes to is one.
LEMMA Places ==
  ASSUME PlaceOK
  PROVE  /\ here \in Parts
         /\ \A o \in Ops, k \in Kinds : At(<<o, k, 1>>) => PlaceOK'
         /\ At(InitNext) => PlaceOK'
         /\ At(DeinitNext) => PlaceOK'
         /\ \A o \in Ops : Advance(<<o, kind, 1>>) => PlaceOK'
         /\ Advance(InitNext) => PlaceOK'
<1>1. here \in Parts
  BY DEF PlaceOK, here, Parts
<1>2. ASSUME NEW o \in Ops, NEW k \in Kinds, At(<<o, k, 1>>) PROVE PlaceOK'
  BY <1>2, Positions DEF PlaceOK, At
<1>3. ASSUME At(InitNext) PROVE PlaceOK'
  BY <1>3, Positions DEF PlaceOK, At, InitNext, Ops
<1>4. ASSUME At(DeinitNext) PROVE PlaceOK'
  BY <1>4, Positions DEF PlaceOK, At, DeinitNext, Ops
<1>5. ASSUME NEW o \in Ops, Advance(<<o, kind, 1>>) PROVE PlaceOK'
  BY <1>5, Positions DEF PlaceOK, Advance, At
<1>6. ASSUME Advance(InitNext) PROVE PlaceOK'
  BY <1>6, Positions DEF PlaceOK, Advance, At, InitNext, Ops
<1> QED
  BY <1>1, <1>2, <1>3, <1>4, <1>5, <1>6

-----------------------------------------------------------------------------
(* The types.                                                              *)

LEMMA PlaceStep == TypeOK /\ [Next]_vars => PlaceOK'
<1> SUFFICES ASSUME TypeOK, [Next]_vars PROVE PlaceOK'
  OBVIOUS
<1>1. PlaceOK /\ Serving \in Kinds
  BY Positions DEF TypeOK, PlaceOK
<1>2. "idle" \in Ops /\ "init" \in Ops /\ "register" \in Ops /\ "finish" \in Ops
      /\ "deregister" \in Ops /\ "clear" \in Ops /\ "states" \in Ops
      /\ "crashedPhone" \in Ops /\ "crashedServing" \in Ops
  BY DEF Ops
<1>3. ASSUME InitStep PROVE PlaceOK'
  BY <1>1, <1>2, <1>3, Places
  DEF InitStep, InitPhone, SkipSubsystem, InitSkip, InitFails, InitAvailable,
      RegisterSkip, RegisterSlot, RegisterCrash, Finish
<1>4. ASSUME DeinitStep PROVE PlaceOK'
  <2>1. CASE StartDeinit
    <3>1. PICK k \in Kinds : At(<<"deregister", k, 1>>)
      BY <1>1, <2>1, Positions DEF StartDeinit
    <3> QED
      BY <1>1, <1>2, <3>1, Places
  <2>2. CASE ClearMaps
    BY <1>1, <1>2, <2>2 DEF ClearMaps, PlaceOK
  <2> QED
    BY <1>1, <1>2, <1>4, <2>1, <2>2, Places
    DEF DeinitStep, DeregisterFails, DeregisterSkip, DeregisterSlot, KeepMaps,
        ClearStates
<1>5. ASSUME NEW p \in Parts, Notify(p) \/ SetState(p) PROVE PlaceOK'
  BY <1>1, <1>5 DEF Notify, SetState, PlaceOK
<1>6. CASE UNCHANGED vars
  BY <1>1, <1>6 DEF vars, PlaceOK
<1> QED
  BY <1>3, <1>4, <1>5, <1>6 DEF Next

LEMMA TypeStep == TypeOK /\ [Next]_vars => TypeOK'
<1> SUFFICES ASSUME TypeOK, [Next]_vars PROVE TypeOK'
  OBVIOUS
<1>1. PlaceOK' /\ here \in Parts
  BY PlaceStep, Places DEF TypeOK, PlaceOK
<1> USE <1>1 DEF TypeOK, PlaceOK, partVars, boundVars, States, Results
<1>2. CASE InitPhone
  <2>1. inits' \in 0..MaxInits
    BY <1>2, LifecycleAssumption DEF InitPhone, LifecycleAssumption
  <2> QED
    BY <1>2, <2>1 DEF InitPhone
<1>3. CASE SkipSubsystem  BY <1>3 DEF SkipSubsystem
<1>4. CASE InitSkip       BY <1>4 DEF InitSkip
<1>5. CASE InitFails      BY <1>5 DEF InitFails
<1>6. CASE InitAvailable  BY <1>6 DEF InitAvailable
<1>7. CASE RegisterSkip   BY <1>7 DEF RegisterSkip
<1>8. CASE RegisterSlot   BY <1>8 DEF RegisterSlot
<1>9. CASE RegisterCrash  BY <1>9 DEF RegisterCrash
<1>10. CASE Finish        BY <1>10 DEF Finish
<1>11. CASE StartDeinit   BY <1>11 DEF StartDeinit
<1>12. CASE DeregisterFails BY <1>12 DEF DeregisterFails
<1>13. CASE DeregisterSkip BY <1>13 DEF DeregisterSkip
<1>14. CASE DeregisterSlot BY <1>14 DEF DeregisterSlot
<1>15. CASE KeepMaps      BY <1>15 DEF KeepMaps
<1>16. CASE ClearMaps     BY <1>16 DEF ClearMaps
<1>17. CASE ClearStates   BY <1>17 DEF ClearStates
<1>18. ASSUME NEW p \in Parts, Notify(p) PROVE TypeOK'
  <2>1. events' \in 0..MaxEvents
    BY <1>18, LifecycleAssumption DEF Notify, LifecycleAssumption
  <2> QED
    BY <1>18, <2>1 DEF Notify
<1>19. ASSUME NEW p \in Parts, SetState(p) PROVE TypeOK'
  <2>1. state' \in [Parts -> States] /\ late' \in SUBSET Parts
    BY <1>19 DEF SetState
  <2>2. event' \in [Parts -> States \cup {"none"}]
    BY <1>19 DEF SetState
  <2> QED
    BY <1>19, <2>1, <2>2 DEF SetState
<1>20. CASE UNCHANGED vars
  BY <1>20 DEF vars
<1> QED
  BY <1>2, <1>3, <1>4, <1>5, <1>6, <1>7, <1>8, <1>9, <1>10, <1>11, <1>12, <1>13,
     <1>14, <1>15, <1>16, <1>17, <1>18, <1>19, <1>20
  DEF Next, InitStep, DeinitStep

-----------------------------------------------------------------------------
(* The registered flags.                                                   *)

\* The slots a Deinit under way has deregistered, as long as none failed.
Deregistered(p) ==
    /\ p[1] = kind
    /\ \/ op = "deregister" /\ p[2] < slot
       \/ op \in {"clear", "states"}

\* FlagIsTrue is not inductive: the maps may be cleared because the pass over
\* the slots that came before has left no flag behind.
FlagInv ==
    /\ FlagIsTrue
    /\ op = "states" => allOk
    /\ op \in {"deregister", "clear"} => (allOk => \A p \in Parts : Deregistered(p) => ~flag[p])
    /\ op = "states" => \A p \in Parts : p[1] = kind => ~flag[p]

LEMMA FlagStep == TypeOK /\ FlagInv /\ [Next]_vars => FlagInv'
<1> SUFFICES ASSUME TypeOK, FlagInv, [Next]_vars PROVE FlagInv'
  OBVIOUS
<1>1. here \in Parts
  BY Places DEF TypeOK, PlaceOK
<1> USE <1>1 DEF TypeOK, FlagInv, FlagIsTrue, partVars, boundVars, Advance, At
<1>2. CASE InitPhone      BY <1>2 DEF InitPhone
<1>3. CASE SkipSubsystem  BY <1>3 DEF SkipSubsystem, InitNext
<1>4. CASE InitSkip       BY <1>4 DEF InitSkip
<1>5. CASE InitFails      BY <1>5 DEF InitFails
<1>6. CASE InitAvailable  BY <1>6 DEF InitAvailable
<1>7. CASE RegisterSkip   BY <1>7 DEF RegisterSkip, InitNext
<1>8. CASE RegisterSlot   BY <1>8 DEF RegisterSlot, InitNext
<1>9. CASE RegisterCrash  BY <1>9 DEF RegisterCrash
<1>10. CASE Finish        BY <1>10 DEF Finish
<1>11. CASE StartDeinit
  <2>1. ~(\E p \in Parts : Deregistered(p)')
    BY <1>11 DEF StartDeinit, Deregistered, Parts, Slots
  <2> QED
    BY <1>11, <2>1 DEF StartDeinit
<1>12. CASE DeregisterFails BY <1>12 DEF DeregisterFails
<1>13. CASE DeregisterSkip \/ DeregisterSlot
  <2>1. ~flag'[here] /\ UNCHANGED <<manager, allOk>>
    BY <1>13 DEF DeregisterSkip, DeregisterSlot
  <2>2. \A p \in Parts : p # here => flag'[p] = flag[p] /\ sdk'[p] = sdk[p]
    BY <1>13 DEF DeregisterSkip, DeregisterSlot
  <2>3. FlagIsTrue'
    BY <2>1, <2>2
  <2>4. op = "deregister" /\ op' \in {"deregister", "clear"} /\ kind' = kind
    BY <1>13 DEF DeregisterSkip, DeregisterSlot
  <2>5. ASSUME NEW p \in Parts, Deregistered(p)', p # here PROVE Deregistered(p)
    <3>1. p[1] = kind /\ p[2] # slot /\ p[2] \in Slots /\ slot \in Slots
      BY <2>4, <2>5 DEF Deregistered, here, Parts
    <3>2. slot < NumSlots => op' = "deregister" /\ slot' = slot + 1
      BY <1>13 DEF DeregisterSkip, DeregisterSlot
    <3>3. p[2] < slot
      BY <2>5, <3>1, <3>2, LifecycleAssumption
      DEF Deregistered, Slots, LifecycleAssumption
    <3> QED
      BY <2>4, <3>1, <3>3 DEF Deregistered
  <2> QED
    BY <2>1, <2>2, <2>3, <2>4, <2>5
<1>14. CASE KeepMaps
  <2>1. ~(\E p \in Parts : Deregistered(p)')
    BY <1>14 DEF KeepMaps, DeinitNext, Deregistered, Parts, Slots
  <2> QED
    BY <1>14, <2>1 DEF KeepMaps, DeinitNext
<1>15. CASE ClearMaps
  BY <1>15 DEF ClearMaps, Deregistered
<1>16. CASE ClearStates
  <2>1. ~(\E p \in Parts : Deregistered(p)')
    BY <1>16 DEF ClearStates, DeinitNext, Deregistered, Parts, Slots
  <2> QED
    BY <1>16, <2>1 DEF ClearStates, DeinitNext
<1>17. ASSUME NEW p \in Parts, Notify(p) \/ SetState(p) PROVE FlagInv'
  BY <1>17 DEF Notify, SetState, Deregistered
<1>18. CASE UNCHANGED vars
  BY <1>18 DEF vars, Deregistered
<1> QED
  BY <1>2, <1>3, <1>4, <1>5, <1>6, <1>7, <1>8, <1>9, <1>10, <1>11, <1>12, <1>13,
     <1>14, <1>15, <1>16, <1>17, <1>18
  DEF Next, InitStep, DeinitStep

-----------------------------------------------------------------------------
(* The reported states, the crash and gDataPaInitialized.                  *)

StateInv == StateTracksManager /\ CrashNeedsLateEvent /\ ReadyHasPhone

LEMMA StateStep == TypeOK /\ StateInv /\ [Next]_vars => StateInv'
<1> SUFFICES ASSUME TypeOK, StateInv, [Next]_vars PROVE StateInv'
  OBVIOUS
<1>1. here \in Parts
  BY Places DEF TypeOK, PlaceOK
<1> USE <1>1 DEF TypeOK, StateInv, StateTracksManager, CrashNeedsLateEvent,
                 ReadyHasPhone, partVars, boundVars, Advance, At
<1>2. CASE InitPhone
  <2>1. phone => phone'
    BY <1>2 DEF InitPhone
  <2>2. op = "idle" /\ op' # "crashedServing" /\ UNCHANGED <<state, manager, late, ready>>
    BY <1>2 DEF InitPhone
  <2> QED
    BY <2>1, <2>2
<1>3. CASE SkipSubsystem  BY <1>3 DEF SkipSubsystem, InitNext
<1>4. CASE InitSkip       BY <1>4 DEF InitSkip
<1>5. CASE InitFails      BY <1>5 DEF InitFails
<1>6. CASE InitAvailable  BY <1>6 DEF InitAvailable
<1>7. CASE RegisterSkip   BY <1>7 DEF RegisterSkip, InitNext
<1>8. CASE RegisterSlot   BY <1>8 DEF RegisterSlot, InitNext
<1>9. CASE RegisterCrash
  <2>1. here \in late /\ here = <<Serving, slot>>
    BY <1>9 DEF RegisterCrash, Registrable, here
  <2> QED
    BY <1>9, <2>1 DEF RegisterCrash
<1>10. CASE Finish        BY <1>10 DEF Finish
<1>11. CASE StartDeinit   BY <1>11 DEF StartDeinit
<1>12. CASE DeregisterFails BY <1>12 DEF DeregisterFails
<1>13. CASE DeregisterSkip BY <1>13 DEF DeregisterSkip
<1>14. CASE DeregisterSlot BY <1>14 DEF DeregisterSlot
<1>15. CASE KeepMaps      BY <1>15 DEF KeepMaps, DeinitNext
<1>16. CASE ClearMaps     BY <1>16 DEF ClearMaps
<1>17. CASE ClearStates   BY <1>17 DEF ClearStates, DeinitNext
<1>18. ASSUME NEW p \in Parts, Notify(p) PROVE StateInv'
  BY <1>18 DEF Notify
<1>19. ASSUME NEW p \in Parts, SetState(p), Alive PROVE StateInv'
  BY <1>19 DEF SetState, Alive
<1>20. CASE UNCHANGED vars
  BY <1>20 DEF vars
<1> QED
  BY <1>2, <1>3, <1>4, <1>5, <1>6, <1>7, <1>8, <1>9, <1>10, <1>11, <1>12, <1>13,
     <1>14, <1>15, <1>16, <1>17, <1>18, <1>19, <1>20
  DEF Next, InitStep, DeinitStep

-----------------------------------------------------------------------------
LEMMA Initially == Init => TypeOK /\ FlagInv /\ StateInv
<1> SUFFICES ASSUME Init PROVE TypeOK /\ FlagInv /\ StateInv
  OBVIOUS
<1>1. TypeOK
  <2>1. 0 \in 0..MaxInits /\ 0 \in 0..MaxEvents
    BY LifecycleAssumption DEF LifecycleAssumption
  <2> QED
    BY <2>1, Positions DEF Init, TypeOK, States, Results, Ops
<1>2. FlagInv /\ StateInv
  BY DEF Init, FlagInv, FlagIsTrue, StateInv, StateTracksManager,
         CrashNeedsLateEvent, ReadyHasPhone
<1> QED
  BY <1>1, <1>2

\* The strengthened invariants hold of every behaviour, however many slots the
\* device has and however often the PA is initialised and deinitialised.
THEOREM Invariant == Spec => [](TypeOK /\ FlagInv /\ StateInv)
  BY Initially, TypeStep, FlagStep, StateStep, PTL DEF Spec

\* Every step of Init and Deinit the thread may stand at is one of its program, every
\* manager state and result is one the code knows, for any number of slots.
THEOREM TypeCorrect == Spec => []TypeOK
  BY Invariant, PTL

\* A listener held for registered is registered, and its manager is there.
THEOREM FlagsAreTrue == Spec => []FlagIsTrue
<1>1. FlagInv => FlagIsTrue
  BY DEF FlagInv
<1> QED
  BY <1>1, Invariant, PTL

\* AVAILABLE without a manager is the work of a late status event.
THEOREM StatesTrackManagers == Spec => []StateTracksManager
<1>1. StateInv => StateTracksManager
  BY DEF StateInv
<1> QED
  BY <1>1, Invariant, PTL

\* The null manager of a repeated Init is the work of a late status event.
THEOREM CrashesNeedLateEvents == Spec => []CrashNeedsLateEvent
<1>1. StateInv => CrashNeedsLateEvent
  BY DEF StateInv
<1> QED
  BY <1>1, Invariant, PTL

\* A Deinit that is accepted finds the phone manager up.
THEOREM AcceptedDeinitHasPhone == Spec => []ReadyHasPhone
<1>1. StateInv => ReadyHasPhone
  BY DEF StateInv
<1> QED
  BY <1>1, Invariant, PTL

=============================================================================
