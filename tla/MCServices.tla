------------------------------- MODULE MCServices -------------------------------
(***************************************************************************)
(* Small instances of five parts of the PAs that share no state: the       *)
(* network selection of the radio PA, a handler slot, an Init and Deinit,  *)
(* a request the SDK is to have one at a time, and the files of the key    *)
(* store.  A behaviour runs one of them.                                   *)
(***************************************************************************)
EXTENDS NetworkSelection, HandlerSlots, BringUpWays, ExclusiveRequests, BackedFiles

VARIABLE part

allVars == <<part, radioVars, handlerVars, bringVars, exclusiveVars, fileVars>>

\* The paths are alike, so it is enough that the first has as many names as any.
NamesOf(p) == {n \in Names : n[1] = p /\ Exists(n)}
PathsOrdered ==
    \A p \in Paths :
        Cardinality(NamesOf(p)) <= Cardinality(NamesOf(CHOOSE first \in Paths : TRUE))

ServicesInit ==
    /\ part \in {"radio", "handlers", "bring_up", "exclusive", "files"}
    /\ RadioInit /\ HandlersInit /\ BringInit /\ ExclusiveInit /\ FilesInit /\ PathsOrdered
    \* the parts that do not run stay in one of their initial states
    /\ part # "radio" => kind = [w \in Workers |-> "set"]
    /\ part # "handlers" => slot = NetworkReject
    /\ part # "bring_up" => way = taf_pa_therm_Init
    /\ part # "exclusive" => request = PaListProfiles
    /\ part # "files" => \A n \in Names : ~Exists(n)

RadioRuns ==
    /\ part = "radio" /\ RadioNext
    /\ UNCHANGED <<part, handlerVars, bringVars, exclusiveVars, fileVars>>
HandlersRun ==
    /\ part = "handlers" /\ HandlersNext
    /\ UNCHANGED <<part, radioVars, bringVars, exclusiveVars, fileVars>>
BringUpRuns ==
    /\ part = "bring_up" /\ BringNext
    /\ UNCHANGED <<part, radioVars, handlerVars, exclusiveVars, fileVars>>
ExclusiveRuns ==
    /\ part = "exclusive" /\ ExclusiveNext
    /\ UNCHANGED <<part, radioVars, handlerVars, bringVars, fileVars>>
FilesRun ==
    /\ part = "files" /\ FilesNext
    /\ UNCHANGED <<part, radioVars, handlerVars, bringVars, exclusiveVars>>

ServicesNext == RadioRuns \/ HandlersRun \/ BringUpRuns \/ ExclusiveRuns \/ FilesRun

\* The fairness of the radio, for the behaviours that run it.
ServicesFairness ==
    /\ \A w \in Workers : /\ WF_radioVars(part = "radio" /\ Work(w))
                          /\ WF_radioVars(part = "radio" /\ Fulfil(w))
    /\ WF_radioVars(part = "radio" /\ CancelScans)

ServicesSpec == ServicesInit /\ [][ServicesNext]_allVars /\ ServicesFairness

\* Every part keeps its state within its types, in particular the handler slots, the ways
\* and the requests of the repository within what their modules allow.
ServicesTypeOK == RadioTypeOK /\ HandlersTypeOK /\ BringTypeOK /\ ExclusiveTypeOK /\ FilesTypeOK
=============================================================================
