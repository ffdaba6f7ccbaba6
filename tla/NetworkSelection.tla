--------------------------- MODULE NetworkSelection ---------------------------
(***************************************************************************)
(* The network selection of the radio PA, for one instance: the calls that *)
(* set the selection preference, scan for networks and scan for cells, on   *)
(* threads of the service, against a Deinit and an Init of the PA.  The     *)
(* manager is made by the first call that needs it, with one listener for   *)
(* the results of every scan; Deinit wakes the calls that wait.             *)
(***************************************************************************)
EXTENDS Integers

CONSTANTS
    Workers,          \* calls, each on a thread of the service
    NoOne,            \* no worker holds the mutex
    MaxGeneration     \* bound: the number of Deinits

ASSUME WorkersAssumption == NoOne \notin Workers
ASSUME GenerationAssumption == MaxGeneration \in Nat

VARIABLES
    radioUp,          \* gRadioPaInitialized
    isShuttingDown,
    lifecycleGeneration,
    deinitStep,       \* where the holder of initMutex is
    networkSelection, \* the generation the manager was made in, if there is one
    scanListener,     \* the generation the scan listener was made in, likewise
    scanBox,          \* the listener object of a generation
    creating,         \* who holds networkSelectionMutex to make the manager
    scanning,         \* who holds networkScanMutex
    kind,             \* which function a worker runs
    place,            \* where it is
    captured,         \* the generation it captured
    used,             \* the generation of the manager it was given
    box,              \* the generation of the listener it was given
    registered,       \* shutdownRequests
    sdkDoes,          \* what the SDK does for its request
    scanRun,          \* the SDK's scan for it
    claim,            \* who completed its request first, by the result
    value,            \* the value of its promise
    got,              \* whose results it was given
    verdict           \* what it returned

lifeVars == <<radioUp, isShuttingDown, lifecycleGeneration, deinitStep>>
managerVars == <<networkSelection, scanListener, creating>>
callVars == <<captured, used, box>>
requestVars == <<registered, sdkDoes, claim, value>>
returnVars == <<place, scanning, got, verdict>>
radioVars == <<lifeVars, managerVars, scanBox, kind, callVars, requestVars, scanRun,
               returnVars>>

NoLife == -1
Generations == 0..MaxGeneration
Kinds == {"set", "scan", "pci"}
Values == {"ok", "fault", "timeout", "shutdown"}
Verdicts == Values \cup {"refused"}
Places == {"new", "check", "get", "create", "lock", "listen", "reset", "ready", "wait",
           "collect", "pci", "returned"}
Boxes == [completed : BOOLEAN, result : Values, list : SUBSET Workers]
EmptyBox == [completed |-> FALSE, result |-> "ok", list |-> {}]

RadioTypeOK ==
    /\ radioUp \in BOOLEAN /\ isShuttingDown \in BOOLEAN
    /\ lifecycleGeneration \in Generations
    /\ deinitStep \in {"no", "cancel", "reset", "finish", "init"}
    /\ networkSelection \in Generations \cup {NoLife}
    /\ scanListener \in Generations \cup {NoLife}
    /\ scanBox \in [Generations -> Boxes]
    /\ creating \in Workers \cup {NoOne} /\ scanning \in Workers \cup {NoOne}
    /\ kind \in [Workers -> Kinds]
    /\ place \in [Workers -> Places]
    /\ captured \in [Workers -> Generations \cup {NoLife}]
    /\ used \in [Workers -> Generations \cup {NoLife}]
    /\ box \in [Workers -> Generations \cup {NoLife}]
    /\ registered \in SUBSET Workers
    /\ sdkDoes \in [Workers -> {"idle", "owes", "done"}]
    /\ scanRun \in [Workers -> {"none", "running", "over"}]
    /\ claim \in [Workers -> Values \cup {"none"}]
    /\ value \in [Workers -> Values \cup {"none"}]
    /\ got \in [Workers -> SUBSET Workers]
    /\ verdict \in [Workers -> Verdicts \cup {"none"}]

RadioInit ==
    /\ radioUp = FALSE /\ isShuttingDown = FALSE
    /\ lifecycleGeneration = 0 /\ deinitStep = "no"
    /\ networkSelection = NoLife /\ scanListener = NoLife
    /\ scanBox = [g \in Generations |-> EmptyBox]
    /\ creating = NoOne /\ scanning = NoOne
    /\ kind \in [Workers -> Kinds]
    /\ place = [w \in Workers |-> "new"]
    /\ captured = [w \in Workers |-> NoLife]
    /\ used = [w \in Workers |-> NoLife]
    /\ box = [w \in Workers |-> NoLife]
    /\ registered = {}
    /\ sdkDoes = [w \in Workers |-> "idle"]
    /\ scanRun = [w \in Workers |-> "none"]
    /\ claim = [w \in Workers |-> "none"]
    /\ value = [w \in Workers |-> "none"]
    /\ got = [w \in Workers |-> {}]
    /\ verdict = [w \in Workers |-> "none"]

Go(w, p) == place' = [place EXCEPT ![w] = p]

\* A scan gives networkScanMutex back with its return.
ReturnWith(w, r, list) ==
    /\ Go(w, "returned")
    /\ verdict' = [verdict EXCEPT ![w] = r]
    /\ got' = [got EXCEPT ![w] = list]
    /\ scanning' = IF scanning = w THEN NoOne ELSE scanning

ReturnNothing(w, r) == ReturnWith(w, r, {})

-----------------------------------------------------------------------------
(* The threads of the service.                                             *)

\* The generation is captured first, then the flags are looked at.
Capture(w) ==
    /\ place[w] = "new" /\ Go(w, "check")
    /\ captured' = [captured EXCEPT ![w] = lifecycleGeneration]
    /\ UNCHANGED <<lifeVars, managerVars, scanBox, kind, used, box, requestVars, scanRun,
                   scanning, got, verdict>>

CheckFlags(w) ==
    /\ place[w] = "check"
    /\ \/ /\ isShuttingDown \/ ~radioUp
          /\ ReturnNothing(w, "refused")
       \/ /\ ~isShuttingDown /\ radioUp
          /\ Go(w, IF kind[w] = "pci" THEN "pci" ELSE "get")
          /\ UNCHANGED <<scanning, got, verdict>>
    /\ UNCHANGED <<lifeVars, managerVars, scanBox, kind, callVars, requestVars, scanRun>>

\* The scan for cells is one call of the proprietary layer.
ScanCells(w) ==
    /\ place[w] = "pci"
    /\ \E r \in {"ok", "fault"} :
           ReturnNothing(w, IF captured[w] = lifecycleGeneration THEN r ELSE "shutdown")
    /\ UNCHANGED <<lifeVars, managerVars, scanBox, kind, callVars, requestVars, scanRun>>

UseManager(w, g) ==
    /\ used' = [used EXCEPT ![w] = g]
    /\ Go(w, IF kind[w] = "scan" THEN "lock" ELSE "ready")

\* Mutant of GetManager: the flags are not looked at again under the mutex.
GetManagerUnchecked(w) ==
    /\ place[w] = "get" /\ creating = NoOne
    /\ IF networkSelection # NoLife
       THEN UseManager(w, networkSelection) /\ UNCHANGED creating
       ELSE creating' = w /\ Go(w, "create") /\ UNCHANGED used
    /\ UNCHANGED <<lifeVars, networkSelection, scanListener, scanBox, kind, captured, box,
                   requestVars, scanRun, scanning, got, verdict>>

\* GetNetworkSelectionManager, up to the wait for the service of the manager.
GetManager(w) ==
    /\ place[w] = "get" /\ creating = NoOne
    /\ \/ /\ isShuttingDown \/ ~radioUp
          /\ ReturnNothing(w, "refused") /\ UNCHANGED <<used, creating>>
       \/ /\ ~isShuttingDown /\ radioUp /\ networkSelection # NoLife
          /\ UseManager(w, networkSelection)
          /\ UNCHANGED <<creating, scanning, got, verdict>>
       \/ /\ ~isShuttingDown /\ radioUp /\ networkSelection = NoLife
          /\ creating' = w /\ Go(w, "create")
          /\ UNCHANGED <<used, scanning, got, verdict>>
    /\ UNCHANGED <<lifeVars, networkSelection, scanListener, scanBox, kind, captured, box,
                   requestVars, scanRun>>

\* The wait ends with the service, with its failure or with a timeout; the
\* listener may be refused, and the manager is then used without.
Create(w) ==
    /\ place[w] = "create" /\ creating' = NoOne
    /\ \/ /\ ReturnNothing(w, "refused")
          /\ UNCHANGED <<networkSelection, scanListener, used>>
       \/ /\ ~isShuttingDown
          /\ networkSelection' = lifecycleGeneration
          /\ scanListener' \in {scanListener, lifecycleGeneration}
          /\ UseManager(w, lifecycleGeneration)
          /\ UNCHANGED <<scanning, got, verdict>>
    /\ UNCHANGED <<lifeVars, scanBox, kind, captured, box, requestVars, scanRun>>

LockScan(w) ==
    /\ place[w] = "lock" /\ scanning = NoOne
    /\ scanning' = w /\ Go(w, "listen")
    /\ UNCHANGED <<lifeVars, managerVars, scanBox, kind, callVars, requestVars, scanRun,
                   got, verdict>>

FindListener(w) ==
    /\ place[w] = "listen" /\ creating = NoOne
    /\ \/ /\ scanListener = NoLife
          /\ ReturnNothing(w, "refused") /\ UNCHANGED box
       \/ /\ scanListener # NoLife
          /\ box' = [box EXCEPT ![w] = scanListener] /\ Go(w, "reset")
          /\ UNCHANGED <<scanning, got, verdict>>
    /\ UNCHANGED <<lifeVars, managerVars, scanBox, kind, captured, used, requestVars,
                   scanRun>>

\* Mutant of ResetBox: the operators of the last scan stay in the list.
ResetBoxKeepsList(w) ==
    /\ place[w] = "reset" /\ Go(w, "ready")
    /\ scanBox' = [scanBox EXCEPT ![box[w]] = [EmptyBox EXCEPT !.list = scanBox[box[w]].list]]
    /\ UNCHANGED <<lifeVars, managerVars, kind, callVars, requestVars, scanRun, scanning,
                   got, verdict>>

ResetBox(w) ==
    /\ place[w] = "reset" /\ Go(w, "ready")
    /\ scanBox' = [scanBox EXCEPT ![box[w]] = EmptyBox]
    /\ UNCHANGED <<lifeVars, managerVars, kind, callVars, requestVars, scanRun, scanning,
                   got, verdict>>

\* The request is registered for Deinit and passed to the SDK, which may refuse.
Submit(w) ==
    \/ /\ registered' = registered \cup {w}
       /\ sdkDoes' = [sdkDoes EXCEPT ![w] = "owes"]
       /\ scanRun' = IF kind[w] = "scan" THEN [scanRun EXCEPT ![w] = "running"] ELSE scanRun
       /\ Go(w, "wait")
       /\ UNCHANGED <<scanning, got, verdict>>
    \/ ReturnNothing(w, "fault") /\ UNCHANGED <<registered, sdkDoes, scanRun>>

\* Mutant of StartRequest: the generation is not compared.
StartRequestStale(w) ==
    /\ place[w] = "ready"
    /\ IF isShuttingDown
       THEN ReturnNothing(w, "shutdown") /\ UNCHANGED <<registered, sdkDoes, scanRun>>
       ELSE Submit(w)
    /\ UNCHANGED <<lifeVars, managerVars, scanBox, kind, callVars, claim, value>>

\* StartShutdownAwareRequest, under workerRequestMutex.
StartRequest(w) ==
    /\ place[w] = "ready"
    /\ \/ /\ isShuttingDown \/ captured[w] # lifecycleGeneration
          /\ ReturnNothing(w, "shutdown") /\ UNCHANGED <<registered, sdkDoes, scanRun>>
       \/ /\ ~isShuttingDown /\ captured[w] = lifecycleGeneration
          /\ Submit(w)
    /\ UNCHANGED <<lifeVars, managerVars, scanBox, kind, callVars, claim, value>>

\* The wait for the promise is over: a failed scan returns its error as it is.
EndWait(w) ==
    /\ place[w] = "wait" /\ value[w] # "none"
    /\ \/ /\ kind[w] = "scan" /\ value[w] = "ok"
          /\ Go(w, "collect") /\ UNCHANGED <<scanning, got, verdict>>
       \/ /\ kind[w] = "scan" /\ value[w] # "ok"
          /\ ReturnNothing(w, value[w])
       \/ /\ kind[w] # "scan"
          /\ ReturnNothing(w, IF captured[w] = lifecycleGeneration THEN value[w]
                              ELSE "shutdown")
    /\ UNCHANGED <<lifeVars, managerVars, scanBox, kind, callVars, requestVars, scanRun>>

\* A wait that timed out before anyone completed the request completes it.
TimeOutWait(w) ==
    /\ place[w] = "wait" /\ claim[w] = "none"
    /\ claim' = [claim EXCEPT ![w] = "timeout"]
    /\ value' = [value EXCEPT ![w] = "timeout"]
    /\ UNCHANGED <<lifeVars, managerVars, scanBox, kind, callVars, registered, sdkDoes,
                   scanRun, returnVars>>

\* The results are taken when the scan is over, unless Deinit came between.
Collect(w) ==
    /\ place[w] = "collect" /\ scanBox[box[w]].completed
    /\ LET r == IF captured[w] = lifecycleGeneration THEN scanBox[box[w]].result
                ELSE "shutdown"
       IN  /\ ReturnWith(w, r, IF r = "ok" THEN scanBox[box[w]].list ELSE {})
           /\ scanBox' = IF r = "ok" THEN [scanBox EXCEPT ![box[w]].list = {}] ELSE scanBox
    /\ UNCHANGED <<lifeVars, managerVars, kind, callVars, requestVars, scanRun>>

CompleteBox(g, r) ==
    scanBox' = [scanBox EXCEPT ![g] = [@ EXCEPT !.completed = TRUE, !.result = r]]

TimeOutCollect(w) ==
    /\ place[w] = "collect" /\ ~scanBox[box[w]].completed
    /\ CompleteBox(box[w], "timeout")
    /\ UNCHANGED <<lifeVars, managerVars, kind, callVars, requestVars, scanRun, returnVars>>

Work(w) ==
    \/ Capture(w) \/ CheckFlags(w) \/ ScanCells(w) \/ GetManager(w) \/ Create(w)
    \/ LockScan(w) \/ FindListener(w) \/ ResetBox(w) \/ StartRequest(w)
    \/ EndWait(w) \/ Collect(w)

-----------------------------------------------------------------------------
(* The threads of the SDK.                                                 *)

\* Mutant of Verdict: the code of the SDK is passed on as it is.
VerdictRaw(error) == error

\* CommonResponse.
Verdict(error) == IF error = "SUCCESS" THEN "ok" ELSE "fault"

\* The answer to a request, whose scan is over when it failed.
Respond(w) ==
    /\ sdkDoes[w] = "owes"
    /\ sdkDoes' = [sdkDoes EXCEPT ![w] = "done"]
    /\ \E error \in {"SUCCESS", "GENERIC_FAILURE"} :
           /\ claim' = IF claim[w] = "none" THEN [claim EXCEPT ![w] = Verdict(error)]
                       ELSE claim
           /\ scanRun' = IF kind[w] = "scan" /\ error # "SUCCESS"
                         THEN [scanRun EXCEPT ![w] = "over"] ELSE scanRun
    /\ UNCHANGED <<lifeVars, managerVars, scanBox, kind, callVars, registered, value,
                   returnVars>>

\* Who completed the request sets the promise next.
Fulfil(w) ==
    /\ claim[w] # "none" /\ value[w] = "none"
    /\ value' = [value EXCEPT ![w] = claim[w]]
    /\ UNCHANGED <<lifeVars, managerVars, scanBox, kind, callVars, registered, sdkDoes,
                   claim, scanRun, returnVars>>

\* onNetworkScanResults of the listener of the manager that was asked: a scan
\* reports operators, and its end; an object that is completed takes nothing.
ScanResults(w) ==
    /\ scanRun[w] = "running"
    /\ \E status \in {"PARTIAL", "COMPLETE", "FAILED"} :
          /\ scanRun' = [scanRun EXCEPT ![w] = IF status = "PARTIAL" THEN "running" ELSE "over"]
          /\ scanBox' = IF scanBox[used[w]].completed THEN scanBox
                ELSE [scanBox EXCEPT ![used[w]] =
                        [completed |-> status # "PARTIAL",
                         result |-> IF status = "FAILED" THEN "fault" ELSE @.result,
                         list |-> IF status = "FAILED" THEN @.list ELSE @.list \cup {w}]]
    /\ UNCHANGED <<lifeVars, managerVars, kind, callVars, requestVars, returnVars>>

-----------------------------------------------------------------------------
(* Deinit and Init, which hold initMutex.                                  *)

\* Mutant of MarkShutdown: the requests that wait are not completed.
MarkShutdownOnly ==
    /\ deinitStep = "no" /\ radioUp /\ lifecycleGeneration < MaxGeneration
    /\ isShuttingDown' = TRUE
    /\ lifecycleGeneration' = lifecycleGeneration + 1
    /\ deinitStep' = "cancel"
    /\ registered' = {}
    /\ UNCHANGED <<radioUp, managerVars, scanBox, kind, callVars, sdkDoes, claim, value,
                   scanRun, returnVars>>

\* Under workerRequestMutex; a request whose call returned is gone.
MarkShutdown ==
    /\ deinitStep = "no" /\ radioUp /\ lifecycleGeneration < MaxGeneration
    /\ isShuttingDown' = TRUE
    /\ lifecycleGeneration' = lifecycleGeneration + 1
    /\ deinitStep' = "cancel"
    /\ claim' = [w \in Workers |->
                    IF w \in registered /\ claim[w] = "none" THEN "shutdown" ELSE claim[w]]
    /\ registered' = {}
    /\ UNCHANGED <<radioUp, managerVars, scanBox, kind, callVars, sdkDoes, value, scanRun,
                   returnVars>>

CancelScans ==
    /\ deinitStep = "cancel" /\ creating = NoOne
    /\ \A w \in Workers : claim[w] = "shutdown" => value[w] # "none"
    /\ deinitStep' = "reset"
    /\ IF scanListener # NoLife /\ ~scanBox[scanListener].completed
       THEN CompleteBox(scanListener, "shutdown")
       ELSE UNCHANGED scanBox
    /\ UNCHANGED <<radioUp, isShuttingDown, lifecycleGeneration, managerVars, kind, callVars,
                   requestVars, scanRun, returnVars>>

ResetManager ==
    /\ deinitStep = "reset" /\ creating = NoOne
    /\ deinitStep' = "finish"
    /\ networkSelection' = NoLife /\ scanListener' = NoLife
    /\ UNCHANGED <<radioUp, isShuttingDown, lifecycleGeneration, creating, scanBox, kind,
                   callVars, requestVars, scanRun, returnVars>>

FinishDeinit ==
    /\ deinitStep = "finish" /\ deinitStep' = "no"
    /\ radioUp' = FALSE
    /\ UNCHANGED <<isShuttingDown, lifecycleGeneration, managerVars, scanBox, kind, callVars,
                   requestVars, scanRun, returnVars>>

BeginInit ==
    /\ deinitStep = "no" /\ ~radioUp /\ deinitStep' = "init"
    /\ isShuttingDown' = FALSE
    /\ UNCHANGED <<radioUp, lifecycleGeneration, managerVars, scanBox, kind, callVars,
                   requestVars, scanRun, returnVars>>

\* A service that is not ready in time does not fail the Init.
EndInit ==
    /\ deinitStep = "init" /\ deinitStep' = "no"
    /\ radioUp' = TRUE
    /\ UNCHANGED <<isShuttingDown, lifecycleGeneration, managerVars, scanBox, kind, callVars,
                   requestVars, scanRun, returnVars>>

Deinit == MarkShutdown \/ CancelScans \/ ResetManager \/ FinishDeinit

RadioNext ==
    \/ Deinit \/ BeginInit \/ EndInit
    \/ \E w \in Workers :
           \/ Work(w) \/ TimeOutWait(w) \/ TimeOutCollect(w)
           \/ Respond(w) \/ Fulfil(w) \/ ScanResults(w)

RadioSpec == RadioInit /\ [][RadioNext]_radioVars

\* The threads of the service and a Deinit that began go on, and so does who
\* completed a request; nothing is supposed of the SDK or of the timeouts.
RadioFairness ==
    /\ \A w \in Workers : WF_radioVars(Work(w)) /\ WF_radioVars(Fulfil(w))
    /\ WF_radioVars(CancelScans)

RadioFairSpec == RadioSpec /\ RadioFairness

-----------------------------------------------------------------------------
(* Properties.                                                             *)

\* A Deinit leaves neither the manager nor its listener: a call that was making
\* them while Deinit began cannot leave them behind, as the flags are looked at
\* under networkSelectionMutex, before and after the wait for the service.
NothingLeft ==
    ~radioUp => networkSelection = NoLife /\ scanListener = NoLife

\* The operators of a scan are its own.  The listener is shared by all scans and
\* does not know whose results it is told, so another scan's can come in; but
\* only after some call gave up waiting for a scan that went on.
OwnResults ==
    \A w \in Workers :
        kind[w] = "scan" /\ verdict[w] = "ok" =>
            got[w] = {w} \/ \E v \in Workers : verdict[v] = "timeout"

\* A call of an earlier life that waits returns, although no timeout need expire
\* and the SDK need not answer: Deinit completes the requests it finds, and
\* cancels the listener after that, so a call that goes on from the one wait to
\* the other is woken there.
ShutdownWakes ==
    \A w \in Workers :
        (place[w] \in {"wait", "collect"} /\ captured[w] < lifecycleGeneration)
            ~> place[w] = "returned"

Life ==
    INSTANCE ServiceLife WITH
        Calls <- Workers,
        life <- lifecycleGeneration,
        open <- radioUp /\ ~isShuttingDown,
        began <- captured,
        submitted <- {w \in Workers : sdkDoes[w] # "idle"},
        result <- verdict

\* The calls keep what ServiceLife promises: "a rapid stop/start cannot reuse
\* this request" (tafRadioPa.cpp:4968), whatever manager a call was given.
LifeKept == Life!Spec

=============================================================================
