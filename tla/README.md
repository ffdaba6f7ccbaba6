# TLA+ models of the telaf platform adaptors

The repository is the platform adaptor layer (PA) of telaf: for each domain
(data, eCall, SMS, ...) a library under `src/component/taf_pa_*` that the
services of telaf (the north-bound side, NB) call, and that calls the Telematics
SDK (the south-bound side, SB).  A PA is a set of singletons without a thread of
its own: the threads of the services enter through the functions of
`src/include/*.hpp`, the threads of the SDK through listeners and callbacks, and
both move the same members.  There are no tests in the repository.

What is hard in this code is the same everywhere: one-shot answers that find
their client through shared state, lists and slots of handlers changed while an
event is delivered, blocking requests whose timeout races a late answer, `Init`
that gives up half way, `Deinit` and `Init` under all of these, and, in the one PA
that keeps something, files that a crash may find half changed.

## The system

| component | state | operations | what is hard | what makes it correct |
|---|---|---|---|---|
| data: call list (`tafDataTeluxDataConnectionImplPa.cpp`) | a flag and one client entry for all requests | `PaRequestDataCallsListAsync`, `onRequestDataCallList` | the SDK's answer does not say whose it is; six early returns; a `Deinit` and an `Init` in between, slot by slot | one owner, its own answer, the token comes back unless an answer meets a slot without a listener |
| data: profile events (`tafDataTeluxDataProfile*`) | guard, count of detached workers, mutex, managers | `onProfileUpdate`, `PaGetProfileInfo`, the drain of `Deinit` | workers outlive the event; two timeouts race | the count is exact, a complete drain leaves no worker |
| data: init and deinit (`tafDataPa.cpp`, `tafDataTeluxDataImplPa.cpp`) | states, managers, listeners, registered flags of every slot and subsystem | `Init`, `Deinit`, status events | any step fails alone; events between the steps and after them | flags agree with the SDK, states with the managers |
| data: throughput events | list of callbacks, 16-bit ids, gate, indication | add, remove, event, `Deinit` | the gate moves outside the lock of the list | the gate serves the clients, an id finds its client |
| data: profile list, roaming status (`tafDataTeluxDataProfileListCallbackImplPa.cpp`) | a token that is tried, one entry | `PaListProfiles`, `PaGetRoamingStatus` | early returns of the answer, time-outs | the token comes back, one request at a time |
| data: sessions, other profile requests | promises, one-shot callbacks | start, stop, create, update, delete | timeout against late answer | one result for one request |
| eCall (`tafEcallPa.cpp`) | managers, phones, SDK listeners, one service listener | `Init`, `Deinit`, `RegisterListener`, modem restart, events, 16 commands | restart on a thread of the SDK without a lock; commands across a `Deinit` | ids find phones, `Deinit` lets go, commands survive |
| voice call, SAP, remote SIM | manager, promises | commands, card requests | wait without timeout; promise in a frame that is left | as eCall commands |
| SIM: card requests (`tafSimPa.cpp`) | one awaited event, its error, one response, one channel for all calls; a promise for each | open and close a channel, APDU, SIM IO, `WaitForCardEvent` | two waits for one answer; an answer before the wait; a condition without a predicate; the response read without a lock | the callback hears its own answer, the response is the call's own |
| SIM: slots, cards, PIN, profiles | tables of cards, lists of listeners | power, look-ups, profile and PIN commands | waits without a limit, shared promises | as eCall commands |
| location (`tafLocationPa.cpp`) | configurator, clients' managers | 22 requests with a wait of five seconds, listeners, DGNSS | the answer has references to locals of the waiting function; the configurator is not checked | the frame outlives the answer, one callback with the answer |
| radio: network selection (`tafRadioPa.cpp`) | flags, a generation, one manager and one scan listener, the requests that wait | set, network scan, cell scan, `Init`, `Deinit` | a manager that is made while `Deinit` begins; one listener for all scans; waits that `Deinit` must end | no call runs in another life than its own, nothing is left behind |
| radio otherwise, NTN, SMS, audio | managers, promises, handler slots, filter cache, streams | requests, events | handler and context as two words; shared promises | one answer, a handler with its own context |
| net (VLAN, L2TP, SOCKS, NAT), wlan, pms, sensor, time, thermal, health | managers, one flag, handler slots | configuration requests, events, `Init`, `Deinit` | timeout of a pending request; an `Init` that timed out and the next one | as above; `PA_OK` means that the service is there |
| mrc (`tafMrcPa.cpp`) | one mutex tried by all operations of the file system | `SetProcessStatus`, AB sync, scrub | time-outs while the SDK goes on | one operation at a time |
| keystore, encrypted files (`tafFilePa.c`) | files, their checksums in an attribute, copies in a backup directory | open, write, close, copy, rename, delete | several system calls each, any of which fails or is the last before a crash | a file is the old one or the new one |
| common | log level | fan-out to the proprietary libraries | a change during a fan-out | the level stored is the last one |
| flash, deviceinfo, fscrypt, stubs, headers, build files | none of their own | sequential wrappers | - | - |

The PAs do not call each other; they share the log level and the SDK.  Within a
PA the service's control thread (`Init`, `Deinit`), any number of request threads
of the service and the threads of the SDK (answers, listeners) meet in the
members of a singleton.  `PROJECT.json` lists the components with what of each is
modelled, the hazards at their lines and the map from definitions to source lines.

## The modules

Every module has one action for each piece of code between two points where
another thread can act: a lock taken and released is one step, an unprotected
read or write of a member a step of its own.  In `BackedFiles` the points are
those between two system calls.

The data PA, eCall and the card requests, one component each:

* `DataCallList` - `inProgress` is `bRequestCallListInProgress_`, `entry`
  `requestCallListClientEntry_`; `pc[r]` is the service's thread in
  `PaRequestDataCallsListAsync`, `sb[r]` the SDK's thread in
  `onRequestDataCallList`; `life` is the thread that deinitialises and initialises,
  beside the requests; `managers` and `listeners` are the slots that have one, which
  differ while `Init` is between the two stores.  Of the content of the list of calls
  only the slots matter: an answer may name any of the device, and one without a
  listener ends it (`MissingListener`).  `lost` is a history: such an answer left the
  flag set.
* `ProfileEvents` - `count`, `blocked` and `mutex` are
  `activeAsyncThreadCount_`, `deinitInProgress_` and
  `dataProfileGetDetailsMutex_`.  The clock ticks for those who wait with a
  timeout; `Prompt` stops it while a thread can run, so that a counterexample
  does not rest on a slow thread.
* `DataLifecycle` - per subsystem and slot the reported `state`, the `manager`
  in the map, the registered `flag`, and what the SDK holds (`sdk`).  `op`,
  `kind` and `slot` are the position of the one thread in the nested loops of
  `Init` and `Deinit`.  Subsystem 1 is the serving system, which the code treats
  differently; the others (profiles, connections) have the same code.
* `ThroughputEvents` - the list, the ids (wrapped at `IdLimit`), the gate and
  the indication of the SDK; the same form serves the other lists of the data PA.
* `EcallLifecycle` - `held`, `sdk` and `phones` are the managers and phones of
  `EcallPaController` and what the SDK holds of it; `run` and `index` are
  `InitializeSDKSubsystem`, which both `Init` and the restart of the modem run.
* `CardEvents` - `expected`, `received`, `errorOk`, `apduResponse` and
  `openChannel` are the members of the SIM PA's `PlatformAdaptor`; a response is
  the name of the call it answers.  `at[c]` is the thread of one of the six
  functions (by `kind`; the two ways to open and the two ways to send an APDU
  run the same steps), `sdk[c]` the callback object of the SDK, which for a close
  sets its promise before it takes the lock.  `calm` is a history: so far the
  clients called one at a time, no answer was late and no wake-up spurious.

Code that many PAs repeat, once as a module over a set of records, the records in
modules of their own:

* `Requests` - one request of a service to the SDK with an answer: the function on the
  service's thread (`at`), the answer on the SDK's (`sdk`, `todo`), the promise between
  them and a second one for what was asked (`values`), and `Deinit`/`Init` at any moment
  (`manager`).  The functions differ in a few decisions, their *shape*: does it check
  the manager, does it use a copy, what follows a refusal, how does it wait and for
  which promise, in what order does the answer call the client and set them, does the
  answer use locals of the frame, does the function call the client itself, what is
  passed on, what does a timeout return.
* `RadioShapes`, `SmsShapes`, `AudioShapes`, `NetShapes`, `SimShapes`,
  `DeviceShapes` and `DataShapes` name the functions of these PAs by their shape;
  `RequestShapes` adds those of eCall, voice call, SAP, remote SIM and location,
  191 functions in all, and states the properties.
* `Handlers` - a slot that holds the handler of an event and its context:
  registration, the Remove function, `Deinit`, and threads of the SDK that read
  the slot and call the handler.  `slotLock` is who holds the lock of the slot; each
  word is written, taken out and read in a step of its own, under the lock or beside it.
  `HandlerSlots` names 66 slots of thirteen PAs by which of the two words each of these
  functions locks, what a second registration does, and what it leaves of the first.
  Of several Removes or Deinits at once one is modelled, and `Deregister` of the DGNSS
  listener without a context of its own.
* `BringUp` - `Init` and `Deinit` of a PA: get a manager, wait a limited time for
  its service, register a listener; `managers` is what is stored, `service` what
  the SDK has, `owed` the callbacks it still holds.  `BringUpWays` names 23 pairs
  of `Init` and `Deinit` by what they trust, keep after a failure, guard and undo.
* `ExclusiveRequests` - requests that try a token and answer `PA_BUSY`: the
  profile list, whose token comes back with the SDK's answer, and the roaming
  status and the MRC operations, whose token comes back when the function
  returns.

One part each of the radio PA and of the key store:

* `NetworkSelection` - the network selection of the radio PA: `radioUp`,
  `isShuttingDown` and `lifecycleGeneration` are the flags of the PA;
  `networkSelection` and `scanListener` are the members, by the generation they
  were made in; `place[w]` is the thread of a call, `registered` the list
  `shutdownRequests`, `claim` and `value` the completion of a request that an
  answer and `Deinit` compete for.
* `ServiceLife` - the abstract specification of a service that is stopped and
  started under its calls: a call passes nothing to the SDK in another life than
  its own and succeeds only in it.  `NetworkSelection` substitutes the generation
  for the life and the captured generation for the life a call began in.
* `BackedFiles` - a path leads to a file by its primary and by its backup name
  (`names`, `inodes`); a file has content and a *label*, the checksum in its
  extended attribute.  `namesLeft` and `inodesLeft` are what a crash may leave of
  both: every entry of a directory and every file that was not flushed may be
  older, content and attribute independently, a write in part.  A call is a
  sequence of steps (`todo`), one system call each, with *landings* where the code
  looks at what failed before.  A step is named for its place in the code: the flush
  of a name after a copy, after a removal and after a rename are steps of three
  names.  `worth` is a history, what the next open of a path may find by what the
  client was told, and `loose` the paths nothing is claimed of until they are closed
  again: newly created ones, those damaged twice, those a step failed on.  The code
  does not flush again what it failed to flush: a refresh that finds a backup which
  matches takes it for good (`tafFilePa.c:1093`), so after a trouble a call takes its
  path out of `loose` only if nothing of it waits to be flushed (`Flushed`, `Keeps`).

`MCServices` puts the last five parts (network selection, slots, ways, exclusive
requests, files) next to each other in one instance; they share no state, and a
behaviour runs one.  The other `MC*` modules and the `.cfg` files give the
instances of the rest; the `*_proofs` modules hold the theorems.  `Events_proofs` is
about two parts, the card requests and the profile events; `Services_proofs` about the
five parts of `MCServices`; `FilesSurvive_proofs` goes on from it with what is left of
the files, and `FilesRename_proofs` from that with what a rename leaves of them.
`Requests_proofs` is about the requests of `RequestShapes` and the call list.

## What the runs check

| run | bounds | shows |
|---|---|---|
| `call_list` | 3 requests, 2 slots, 1 Deinit and Init beside the requests | `OwnAnswer` and `EveryRequestAnswered` before the first Deinit; `OneOwner` (its half `TokenHeld`) and `TokenReturns` through it |
| `call_list_stale` | 2 requests, 1 Deinit | violated: a late answer reaches the client of a later request, the comment at `tafDataTeluxDataConnectionImplPa.cpp:1205` says it cannot |
| `profile_events` | 2 events, 1 call, 1 Deinit, timeout of 1 tick | `CountIsExact`, `DrainedIsQuiet`, `WorkersLeave` |
| `profile_clear` | 2 events, 1 Deinit, prompt threads | violated: the drain ends while a worker that was queued behind another has yet to use the map that `tafDataTeluxDataProfilePa.hpp:263` calls safe to clear |
| `lifecycle` | 2 subsystems, 2 slots, 3 Inits, 2 status events | `FlagIsTrue`, `StateTracksManager`, `CrashNeedsLateEvent` |
| `lifecycle_ok` | 3 subsystems, 1 slot, 1 Init | violated: `PA_OK` with a listener the SDK refused, against `tafDataPa.cpp:29` |
| `throughput` | 2 clients, 4 additions, ids modulo 4, 1 event, 1 Deinit | `GateServesClients`, `IdsIdentify` |
| `ecall` | 2 phones, 1 restart, 1 other event, 2 Inits, 1 Deinit | `IdFindsPhone`, `DeinitLetsGo` |
| `ecall_phones` | 2 phones, 1 restart, 2 Inits | violated: the list of phones grows with every Init and restart, so `tafEcallPa.cpp:1157` is not reached for an id the device does not have |
| `requests` | 2 calls, one of any of 191 functions, one that waits with a timeout | `HeardBeforeReturn`, `FrameOutlivesAnswer`, `CommandsSurvive`, `RequestsReturn`, `FailureIsHeard` |
| `card_events` | 2 calls of any kinds | `CallbackIsOwn` always; `CalmResponseIsOwn` and `CalmSuccessReturns` while `calm`; `CallsReturn` |
| `services` | network selection: 2 calls, 1 Deinit; any slot: 2 clients (one without a context), 2 events; any way: 2 Inits, 1 Deinit, up to 4 managers; exclusive: 3 calls; files: 2 paths, 1 version, 2 calls, 1 trouble | `NothingLeft`, `OwnResults`, `ShutdownWakes` and `LifeKept`, the refinement of `ServiceLife`; `OwnHandlerContext`; `InitTellsTruth`; `TokenComesBack`; `FilesSurvive`, `OpenTellsTruth` |

Every run also checks the type invariant of its modules, and every property is
broken by a mutant of a definition (`PROJECT.json`, "mutants"; the mutants stand
before the definition they change).

Why the bounds are enough.  The token of the call list needs an owner, one who
is refused and one who comes after a Deinit: three requests; of two slots one has
a listener and the other none, or not yet.  The drain needs a
worker that holds the mutex and one that queues behind it: two events; a timeout
of one tick already lets either of the two waits end first.  Each subsystem after
the serving system runs the same code on state of its own, so two show every
interplay, and the second slot shows the partial failure; the third Init is the
one after a Deinit that failed in part.  The ids of the throughput clients wrap
within the run, and the properties about ids are stated up to the wrap.  The
calls of `Requests` share nothing but the manager, so two show what one does to
another; the one beside the function looked at is of a kind that keeps its
manager or keeps nothing.  The card requests share their event, and the first of
two calls is the one whose event, error or response is left for the second.  In the
network selection one call makes the manager while the other waits, in either life
around a Deinit; two scans are what it takes to mix results.  A slot needs the
client that is there and the one that replaces it, and two events the delivery
that is under way and the one after.  Two Inits are the one that gives up and the
one that trusts what it left, or two at once.  The exclusive token needs a holder,
one who is refused and one who comes after.  A rename has two paths and a version
each, and the call before it leaves what may not have been flushed; one trouble is
the crash or the failure in it.  Trouble is followed only by calls that restore, so
that what is looked at is what that trouble left.  Where a bound matters for a claim
beyond the run, the theorem below does without it.

The runs say `CHECK_DEADLOCK FALSE`: all of these systems may stop, when the
bounded requests, events and Deinits are used up.

## Fairness

Weak fairness is asked of threads in the middle of a function, of an Init or Deinit that
has begun, of the clock (`ProfileEvents`) and of a wait with a timeout (`Requests`,
`CardEvents`): nothing in the code holds them but what the models have as guards.  No
service has to call, no event has to come, and the SDK need not answer, with two
exceptions.  `EveryRequestAnswered` and `TokenReturns` suppose that the SDK answers a
list request it accepted, as the code does, which has no timeout there.
`RequestsReturn` supposes that the SDK finishes an answer it has begun; functions that
wait without a timeout are only claimed to return once it has begun.  `ShutdownWakes`
supposes nothing of the SDK: only that the threads of the calls, one that has completed
a request, and a Deinit that has begun go on.  A call's own timeout (`TimeOutWait`,
`TimeOutCollect`) is not needed, but its wait for the service of a new manager
(`Create`) is one of its steps, and is supposed to end, as `wait_for` at
`tafRadioPa.cpp:982` does.

## What is proved

For every value of the constants, from the named assumptions of the modules
(`CallListAssumption`, `ProfileEventsAssumption`, `LifecycleAssumption`,
`ThroughputAssumption`, `EcallAssumption`, `ShapesAssumption`,
`CardCallsAssumption`, `WorkersAssumption`, `GenerationAssumption`,
`ClientsAssumption`, `SlotsAssumption`, `CallersAssumption`,
`StagesAssumption`, `WaysAssumption`, `TrustAssumption`, `AskersAssumption`,
`FilesAssumption`; the last says, besides that paths are finite and the bounds numbers,
that no content goes by the name of a missing label):

* `Requests_proofs`, for the call list: `ListTypes`, and `TokenHasOneOwner` and
  `AnswersReachTheirClients` (`OneOwner`, `OwnAnswer`) from one inductive invariant:
  before the first Deinit the flag, the entry and the position of the owner agree - the
  entry is the owner's until it is cleared, and a copy is taken from it only by the
  owner's answer.  Neither property is inductive alone, because the answer finds its
  client through the entry.  The other half of `OneOwner`, `TokenHeld`, is about every
  behaviour, with any Deinits and Inits in it: whoever sets the flag is an owner until
  it resets it, and the one step that ends an owner without a reset, the answer that
  meets a slot without a listener, is recorded in `lost`.
* `Events_proofs`, for the profile events: `TypeCorrect`, `CountAlwaysExact`,
  `DrainLeavesNoWorker`, `RequestsAreSerial`.  The count is related to the set of
  workers by the cardinality theorems of the library; the drain follows because a
  blocked guard admits no one once the count has been seen at zero.
* `DataLifecycle_proofs`: `TypeCorrect`, `FlagsAreTrue`, `StatesTrackManagers`,
  `CrashesNeedLateEvents`, `AcceptedDeinitHasPhone`, for any number of
  subsystems, slots, Inits and events.  The strengthenings tie `allOk` to the flags
  of the slots already passed in the loop of `Deinit` (a complete deregistration
  leaves no flag when the maps are cleared).
* `ThroughputEvents_proofs`: `TypeCorrect`, `GateServes` (`GateServesClients`) and
  `IdsAlwaysIdentify` (`IdsIdentify`), for any clients and events and any width of the
  ids.  `IdInv` is about the ids issued so far: until the counter wraps they are all
  below the next one, which is therefore new (`IdsFresh`); an entry of the list carries
  an id issued to its client, and no id is in the list twice (`EntriesOwned`); the
  calls an event still owes are of distinct entries, those it copied (`CallsOwed`); and
  an `Add` that has still to open the gate has its entry, unless a `Deinit` cleared the
  list in between (`OpeningHasEntry`).
* `EcallLifecycle_proofs`: `TypeCorrect`, `IdsFindPhones`, `DeinitIsComplete`,
  `ContextIsOwn`.  For the ids the strengthening says which prefix of the list a
  running loop has appended; for Deinit, what each of its steps has let go.
* `Requests_proofs`, for the requests: `TypeCorrect`, `ClientsHearFirst`,
  `ECallSurvives`, `FramesOutlive` (`FrameOutlivesAnswer`) and `FailuresAreHeard`
  (`FailureIsHeard`).  The last two have a hypothesis, `Shapes \subseteq PaRequests`:
  the properties name the functions whose answer does meet a frame that is gone, or
  whose failure is heard from neither callback nor return value, so they can only be of
  the functions of the repository, of which `PaRequests` is the set; which calls of them
  there are and how many is left open.  The invariant of the first (`FrameInv`) follows,
  through the calls and answers, which of the functions that keep something in the frame
  can be where.  For the others the strengthening relates what is left of the answer
  (`todo`) to what the client heard and the promise holds: a callback still to come has
  not been heard, a promise that is set holds the answer.  That no answer calls its
  client twice is the assumption on the shapes, which TLC evaluates for the 191
  functions.
* `Events_proofs`, for the card requests: `CardTypesCorrect`, `CallbacksAreOwn`,
  `CalmResponsesAreOwn`, `CalmSuccessesReturn`, for any set of calls.  What the
  callbacks hear needs only that promise and answer agree (`Told`).  The calm properties
  need to know that one call is active and that an event in the member is its own
  (`Alone`), what the card has done for it at each place it can be at (`Progress`), and
  that the member and what it has read are its response (`OwnResponse`).
* `Services_proofs`, for the network selection: `LifeIsKept` (the refinement of
  `ServiceLife`), `NothingIsLeft`, `ResultsAreOwn` (`OwnResults`), `RadioTypes`.
  `RadioIInv` says of every place a call can be at which flags it has seen and that a
  generation it carries is not ahead of the service's; a call that may still pass
  something to the SDK has registered in its own generation, and one that holds the
  creating mutex has the only manager that is not stored.  `OwnInv` adds, for the
  operators of a scan, that a call holds `networkScanMutex` from the look for the
  listener until it returns (`Keeper`), that manager and listener are those of the life
  the call began in (`Current`), and that as long as nobody gave up a scan of this life
  that goes on has its call waiting for it (`Awaited`), so that nothing but its own
  operators can be in the listener (`Boxed`).  `OwnResults` is not inductive: the
  listener does not know whose results it is told, and only the mutex keeps the others
  away.  For the slots: `ContextsAreOwn`, `FirstStays`, `NoneLate`, `HandlerTypes`, for
  any clients and events; the first three with the hypothesis `SlotsHere \subseteq
  Slots`, since `OwnHandlerContext` names slots of the repository.  The core is mutual
  exclusion in a slot that locks both words (`Locked`): whoever has a word left to
  write, to take out or to read holds the lock (`HoldersOnly`).  So handler and context
  belong together while nobody writes or takes out, and half of a registration or a
  removal has what it wrote so far (`SlotPaired`); a thread of the SDK has read what
  belongs together (`ReadPaired`); and a handler that refuses a second one stays
  (`FirstKept`).  `SoundSlots` goes through the 66 records.  For `Init` and `Deinit`:
  `InitIsTrue`, `BringTypes`.  `BringIInv` follows a call that runs alone through its
  stages: those behind it are good, that is stored and available or exempt.
  `TrustAssumption` is what keeps a failed service from being trusted later.  For the
  exclusive requests: `TokenAlwaysBack`, `NeverInterleaved`, `ListsAreOwn`,
  `ExclusiveTypes`: the holder of the token is one call, in its function or in its
  answer (`ExclusiveIInv`).  For the files: `FilesTypes` and, for the five parts beside
  each other, `ServicesTypes`.  That names lead to files is not a matter of types alone:
  a step that copied a file that is not there would leave under the name something that
  is no file.  The code does not look before each of them, it relies on the open, the
  backup or the failed step before. `Sound` says of the steps a call has left that each
  which needs a file comes after one that finds or makes it and before any that takes it
  away (`Provided`), and that between a step that can fail and one that makes a file
  there is a place where the failure is seen (`Caught`).  It holds of every script, of
  what is left of it after a step (`TailSound`) or after a failure (`LandingSound`), and
  where an open or a refresh puts other steps in its place (`SpliceSound`).  `Rooted`
  says the same of the disk a crash may leave.
* `FilesSurvive_proofs`, for any paths and contents, any number of calls and troubles
  (after the first of which, as above, the client only opens, writes and closes):
  `OpensTellTruth` (`OpenTellsTruth`) and `OldOrNewSurvives` (`OldOrNew`, the first half
  of `FilesSurvive`).  `OldOrNew` is not inductive: which versions of a file and of its
  backup a crash can leave *together* depends on what was flushed and on where the call
  is.  Of the parts of `SurviveIInv`, `Struct` says that what a call has left is a chain:
  which step may follow which (`Follows`), and which belong to a call that ends as this
  one does (`Belongs`).  So the next step and the last one tell where the code is, and
  the code that jumps to a landing after a failure, or puts the steps of an open or a
  refresh in front, keeps it so (`SuffixChained`, `ConcatChained`).  `Point` says what
  the path the call is at looks like at that place (`Place`): which of its names is
  durable, what the files they lead to may be after a crash, whether the backup is one
  to restore from, and how far a backup or a restore has come (`Block`, `Restoring`); a
  rename has two such paths (`RenameAt`, `Source`, `Target`).  `OthersRest` says that
  every other path is as a call leaves it (`Rest`): the flushes are done, or it is
  exempt; while a client writes, the backup stands for what the file was labelled for.
  `AllSafe` is what `OldOrNew` needs, for every pair of versions that a crash may leave:
  the one an open would take is worth something, and so is every backup that validates
  and every label, since one of them may become the only one (`Trusts`).  `AllApart`
  and `Injective` say that the names of different paths lead to different files in
  every state of the directories a crash may leave, so that a step on one path leaves
  the others as they are (`StepTouches`); only the two paths of a rename share a file.
  A crash makes every version it may leave the disk (`SettledAre`), damage is survived
  because what rests has its backup flushed, and a failed step leaves the path exempt.
* `FilesRename_proofs`, for the same: `FilesSurviveAlways`, all of `FilesSurvive`.  The
  second half, `MoveLosesNothing`, needs two invariants more; with `SurviveIInv` they
  are inductive (`RenameInvariant`).  `MoveHolds` says of every file on its way
  where it stands (`StandsAt`).  Either the rename itself has handed it on (`Handed`):
  its new name leads to a file that is labelled and flushed, and in every state of the
  directories that a crash may leave it has the old name or the new one.  Or it was
  copied (`Covered`): its new name is durable, and so is a backup with its content that
  an open would restore if the copy is not.  That is kept while the source and its
  backup are deleted, while files are closed, which seals what is handed on and labels
  and backs up what was copied, and until the next call; between calls it may also be
  what a crash has left, which is one of the two on a disk that has nothing pending.
  `CopyHolds` is about the time before, when a copy has yet to reach the deletion of its
  source and nothing is on its way: it says of each step of the open, the refresh, the
  filling and the close what source and target hold (`CopyAt`), so that a source is
  given up only when its target is `Firm`.  Its core is that a backup of the target
  that could be restored from has its file beside it on the disk (`Anchored`), so that
  the close either makes a new backup or finds a matching one.  It claims this while no
  more than one thing went wrong, as `Moves` does: a second flush that fails leaves
  nothing sure.  TLC found the three to hold, with two troubles, before the proof.

Only model-checked: the liveness properties (`EveryRequestAnswered`,
`TokenReturns`, `WorkersLeave`, `RequestsReturn`, `CallsReturn`, `ShutdownWakes`),
which the prover has no rules for under fairness.  Every invariant and every action
property that a passing run checks is stated by a theorem above.

## What the models assume of what is outside

* The SDK keeps weak references to listeners: when the PA lets its listener go
  the registration is gone.  An event it has begun to deliver goes on.
* The SDK calls a request's callback at most once, and never when it refused the
  request.
* A data race on a member is an atomic read or write in some order; where two
  threads append to one vector (`AddPhone`) the outcomes of the race are those
  the orders give, and the histories (`disturbed`) exempt them from the
  properties.  A map that `Init` or `Deinit` changes while another thread is inside a
  look-up of it is not modelled.
* Services call `Init` and `Deinit` of the data and eCall PAs from one control
  thread.  Whether requests run beside it is a constant (`SerialLifecycle`) where a
  finding depends on it.  In `BringUp` any calls may overlap, and `overlap`
  exempts those that do.
* The clients of the requests in `Requests` and `CardEvents` pass a callback.
* The card of `CardEvents` is there or not when a call begins; the change of the
  slot is not in the model.
* A file system makes the changes of directories durable in the order they were made, up
  to any of them, content and attributes of a file in any order, and `fsync` what it is
  asked to (`Points`, `Becomes`).  The checksum tells contents apart.

Left out within the modelled parts: what an event or an answer carries, the conversions
between PA and SDK enumerations, logging, `cardConnected` and `cardPoweredOn` of the SAP
PA (written and never read); in `BackedFiles` the switch that turns backups off and the
exempt directories, the limit on the size of a file, the value a call returns (a copy
that meets a short write without an error of the system deletes its destination and
returns 0, `tafFilePa.c:1804`, where the model's call ends; the rename that made the
copy then looks for a matching backup before it unlinks its source, 1941, and finds
none), the second comparison after a backup was written, the SELinux context but for the
step that copies it, a rename to the path itself, `O_RDWR` without `O_CREAT`, and the
error handler.

## The findings

1. `call_list_stale`: `Deinit` frees a token that an answer in flight still uses;
   after the next `Init` that answer calls the client of a new request.
2. `profile_clear`: one timeout for the drain, one for each of the workers that
   queue on a mutex: the map is cleared under the second, which began before the drain.
3. `lifecycle_ok`: `Init` ignores the result of the registrations and answers
   `PA_OK`.
4. `ecall_phones`: nothing but `Deinit` clears the list of phones that every
   `Init` and restart appends to.

`FrameOutlivesAnswer` says where the answer does meet a frame that is gone: after
the time-out of a SAP or remote SIM request, whose promise was a local; of a
location request, whose lambda has references to locals; and of the query for NAT
entries (`tafNatPa.cpp:365`), whose answer refers to two local promises, here also
when the first said that it failed.  A location request that timed out has returned
`PA_OK`, and its client hears nothing.

What `CardEvents` shows outside `calm`, where it claims nothing: after a time-out
the late answer is taken for the event of the next call, which then returns
`TAF_PA_SIM_RESULT_OK` with the response of the call before; two calls at a time
can each get the other's response.  Inside `calm`: an answer with an error that
comes before the wait is returned as `TAF_PA_SIM_RESULT_OK` (only the callback
hears the fault, against `tafSimPa.hpp:746`), and an open answered before the wait
fails after its time-out with the channel open, the exception that
`CalmSuccessReturns` names.

What the exceptions in the properties of `services` stand for:

* `OwnResults`: a scan that timed out goes on in the SDK, and its operators are given
  to the next (`tafRadioPa.cpp:3803`).
* `OwnHandlerContext`: the slots of `MixedSlots` do not lock both words wherever they
  are written, taken out or read: those of the NTN PA, the SMS capability and the events
  of a sensor lock nothing or only one side, voice call, location and the RAT status
  (`tafRadioPa.cpp:4472`) read the context after the lock.  In each of them a handler
  can run with the context of another client.  In those of `HeirSlots` a client that
  registers without a context inherits the last one.  The thermal `Deinit` takes no
  mutex (`tafThermPa.cpp:651`), but its slots have no context.  A handler that calls its
  own Remove function under the mutex of the sensor or DGNSS listener waits for itself.
* `InitTellsTruth`: the time PA trusts a phone manager that an earlier call waited for in
  vain (`tafTimePa.cpp:261`; the health PA stores its own only once it is available,
  `tafHealthPa.cpp:116`); NAT answers `PA_OK` whatever became of its
  manager (`tafNatPa.cpp:137`).
* `TokenComesBack`: an answer to the profile list that finds no phone for its slot
  returns with the token set (`tafDataTeluxDataProfileListCallbackImplPa.cpp:81`), and
  every later request is told `PA_BUSY`.
* `FilesSurvive` and `OpenTellsTruth` claim nothing of a path in `loose`, and of a file
  on its way nothing if it is copied and two steps failed.  A rename
  never validates its source, so a damaged file is labelled and backed up at its
  destination while its good backup is deleted; a copy that fails labels and backs up
  what it has before it deletes it (`tafFilePa.c:1818`); a new file that a crash finds
  half written has no label and is taken for whole (1482-1499); the label that the
  first backup gives a file is not flushed, so that a rename and a crash can bring back
  what the destination had before; a close returns 0 whatever failed.

`RequestsReturn` exempts `taf_pa_net_GetBackhaulPreference`, which waits without a limit
for a second promise that an answer with an error never sets (`tafVlanPa.cpp:1096`).

What modelling the rest showed and no property is about: the settings manager of the
VLAN PA is used unchecked; `Init` of the SIM PA waits without a limit for the status of
a slot; a second `Init` of thermal or remote SIM that fails leaves the flag of the
first; handlers the radio PA has copied run after its `Deinit` returned.

## Not modelled

* The fan-out of the log level: a plain static, handed to the two proprietary
  libraries in turn; they do not hear of a change during a fan-out
  (`tafCommonPa.cpp:254`).  Nothing else depends on it, and no text says they do.
* Flash, deviceinfo and fscrypt: sequential calls of a driver, nothing kept.
* Conversions, headers, stubs and build files: no state.  The conversions are a large
  part of the radio, data and audio PAs.
* The tables of SIM slots, cards, PIN and profiles; audio streams; the cell broadcast
  filters of SMS; the lists of location clients and the injection of DGNSS corrections;
  starting and stopping data sessions and the tables of calls; the order in which
  subsystem events reach the data PA's clients.
* The keys and blobs of the key store, whose functions are calls of the proprietary
  layer, and that layer itself, which is not in the repository.

## Plan

1. The SMS cell broadcast filters: the cached list is read, sent to the SDK and stored
   when the answer comes; two updates, a failed request and a timeout whose answer
   succeeds late.  Abstract specification: one register of filters.
2. Data sessions: start and stop with their detached threads and the tables of calls;
   the order of subsystem events.
3. Audio streams and their deletion; the lists of location clients.
