# StopLiga: a verification development

StopLiga reads a published block status and a list of addresses, and keeps one
route (UniFi, Omada) or one firewall rule with its alias (OPNsense) in step with
them, run after run. This directory models what happens *between* its steps:
requests that fail or mislead, rollbacks, kills, files that cannot be read or
written, two processes on one state directory. Paths below are relative to the
repository.

## 1. The system

| Part | State it keeps | Operations | What is hard | What makes it correct |
|---|---|---|---|---|
| Sync service, `service.py` | `previous_runtime_state`, the exception in flight | `run_once`, `run_loop`, error record | kill or failing file between any two steps; which errors end the loop | a record tells the truth; a failed rollback stays on record and blocks writes; the loop recovers |
| State file and lock, `state.py` | state file, guard file, lock file | acquire, release, load, quarantine, write (temporary file, fsync, rename), healthcheck | two processes; kill or power failure inside a write; damaged file; a reader beside the writer | one run at a time; a reader finds whole records; a malformed file does not stop the service; "healthy" is true |
| Command line, `cli.py` | stop event | main, signals, exit codes | signal during a run; lock busy | every run ends; the lock is freed at each end |
| UniFi driver, update (`routers/unifi.py`, `build_plan`, `apply_plan`, `verify`) | plan, completed steps | one or two PUTs, verify, rollback | half-done update, misleading answers, user edits | never enabled with the wrong list; rollback restores; damage is reported |
| UniFi driver, bootstrap (`sync`, guard) | guard file, bootstrap triple | discovery on two backends, creation, device fallback, manual review | creation that looks failed; guard lost between writes | one route; an unreviewed route is not enabled; a normal one eventually is |
| OPNsense driver, `opnsense.py` | none; configuration and enforced state are the firewall's | alias, reconfigure, rule, apply | second request of a pair fails | configured and enforced agree with the feed |
| Omada driver, `routers/omada.py` | mutations, created/changed flags | groups, route, verify, cleanup, rollback | many objects, one request each | rollback restores; no silent damage; nothing left over |
| Notifier, `notifier.py` | ids of messages, in the state file | change detection, delivery to each provider, retries | loss and duplication around a kill; one provider of several fails; an answer that is lost | at most one copy per change and provider, but for lost answers; every provider is tried; ids are kept |
| Feed, `feed.py`, `feed_policy.py` | none | fetch, parse, decide | failure; two readings of one history; limits | a failed feed changes nothing; a block names its destinations; the order of reports does not matter |
| HTTP clients (in the drivers and the feed) | token, attempt, body | request with retries, renewal of a token | a request carried out after its call failed; retry of what was done; errors nobody catches | a write is carried out at most once; a call ends |
| Configuration, logging, utilities, driver factory, container image | none at run time | | | not modelled |

The service calls the feed, then one driver, which talks to the router; it then
writes the state file, the guard file, and calls the notifier. The drivers
share no state with each other. The UniFi driver receives the previous guard and
two callbacks that write and clear it. Processes interact only through the lock,
the two files and the router.

## 2. Modules

| Module | Models | Actions and the code |
|---|---|---|
| `SyncService` | `run_once`, `run_loop`, `main`, the lock, the state file | `Start`, `LockBusy`, `LockFails` (FileLock); `LoadState`, `RefuseRun`, `QuarantineState`, `LoadFails` (`_load_runtime_state` and the reconciliation test); `FetchFeed`, `FeedFails`; `DriverSucceeds`, `DriverFails`, `DriverLeavesPartial` (the contract of a driver); `WriteState(Fails)`, `WriteGuard(Fails)`, `NothingToNotify`, `Notify`, `WriteIds`, `WriteError(Fails)`; `Wake`, `LoopStops`, `Signal`, `Crash` |
| `MCSyncService` | process sets for TLC | |
| `SyncServiceProofs`, `ReportProofs`, `FeedDecisionProofs`, `RequestsProofs`, `UnifiApplyProofs`, `UnifiBootstrapProofs`, `OpnsenseSyncProofs`, `OmadaSyncProofs` | theorems about the module of that name | section 5 |
| `StateFile` | `StateStore.write` and `quarantine_invalid_file` on a file system that forgets what was not synced | `BeginWrite`, `OpenTemp`, `FillTemp`, `SyncTemp`, `Replace`, `AbandonWrite` (one system call each); `Quarantine`; `FlushDirectory`, `LoseUnsynced`, `Damage` (environment) |
| `Register` | what `StateStore` promises: a file that holds one whole record | abstract; `StateFile` is shown to implement it |
| `Notifier` | `_send_notification_message`, `_post_json` | `PostAccepted`, `PostFails` (`RetryOrFail`), `PostAnswerCut`, one POST each |
| `Report`, `MCReport` | composes `StateFile` and `Notifier`: `run_once` and `run_loop` with each system call and each POST | `Load`, `LoadFails`, `LoadMalformed`, `LoadUndecodable`, `RefuseRun` (the stop after a failed rollback); `RunSucceeds`, `RunFails`; `WriteStep`, `Record`; `GuardRecorded`; `Deliver`, `Told`, `ToldWithIds`, `RecordIds`; `HandleError`, `EndWithError`; `Healthy` (`healthcheck`); `OperatorReconciles` |
| `FeedDecision` | `_parse_hayahora_status_payload`, `extract_hayahora_active_ips`, `load_feed_snapshot` as operators | `CountEntry`, `Hero`, `HeroBlocked`; `Visit`, `Extract`; `Decide` |
| `Requests`, `MCRequests` | one call of each HTTP client (`UniFiClient`, `OPNsenseClient`, `OmadaClient`, `fetch_text`) and the other end | `Authenticate`, `Send`, `ReceiveReply`, `StopWaiting` (`MayRepeat`, `RenewToken`, `Raises`), `Succeed`, `ReadFeed`; `CarryOut`, `Reject`, `Lose` |
| `Call` | what the drivers take a call for: a write happens at most once, at any time | abstract; `Requests` is shown to implement it |
| `RouterUpdate` | what `SyncService` takes a driver for: a run is one step | abstract; `UnifiApply` and `OmadaSync` are shown to implement it |
| `UnifiApply`, `MCUnifiApply` | update of an existing UniFi route | `ReadRoute`, `ReadList` and `MakePlan` (`build_plan`); `Operations` (order of the requests); `SendOperation`, `OperationFails`; `VerifyRoute`, `VerifyList`; `StartRollback`, `SendRollback`, `RollbackFails`; `ErrorBodyTimesOut` |
| `UnifiBootstrap` | discovery, creation, guard | `Start`, `LoadGuard`; `ListV2`, `ListLegacy` and failures; `ChooseCreateBackend`, `GuardAll`, `CreateRoute`, `CreateFails`, `CreateFallback`, `GuardFallback`, `ClearGuard`; `PlanRouteUpdate`, `UpdateFails`, `UpdateLeavesPartial` (the ends of `apply_plan`, whose steps are in `UnifiApply`); the writes that end a run; `OperatorReconciles` |
| `OpnsenseSync`, `MCOpnsenseSync` | OPNsense driver | one action per client call of `sync_opnsense` |
| `OmadaSync`, `MCOmadaSync` | Omada driver | one action per client call of `sync` |

The modules meet in three contracts. `SyncService` treats a driver as one step that
succeeds, fails cleanly, fails partly or vanishes: that is `RouterUpdate`, and the two
drivers that roll back implement it. Whatever is wrong with a run, `SyncService` lets it
leave any status behind, so each end that `RouterUpdate` allows a run is one of
`SyncService`'s; and what `RouterUpdate` takes for granted, that no run follows a partial
failure before the router was repaired, is `PendingBlocksWrites`, while the record is not
lost. Edits by a user, which `SyncService` leaves out, are in the driver modules. It treats a state file as written in one step:
that is `Register`. The drivers treat a request as carried out, not carried out, or
carried out in spite of its error: that is `Call`. OPNsense has no rollback: an error
may leave the alias changed, so it is not claimed to implement `RouterUpdate`.

Every action is one call after which the process can be killed. Local computation
between two calls belongs to the action of the call before or after it. Data is
abstract: a destination list is a model value (`NoDest` is the empty one), an
Omada chunk is one model value, a status is `ACTIVE` or `INACTIVE`, a bootstrap
triple is a source and a shape.

How state corresponds:

* `SyncService.stateFile` is the JSON file; `"none"` is a missing file (`load`
  returns `{}`), `"bad"` one that is not a JSON object (`ConfigError`). `stage` is
  `last_error_stage is not None`.
* `remote` in `SyncService` is the status that the router enforces, as its driver
  understands the feed: a driver that disables a route for want of destinations,
  or keeps one disabled for a review, has done what the contract asks of it. A
  half-done update is `"mixed"`.
* `StateFile.file` is what the name of the state file refers to, `disk` what it refers to
  after a power failure, `solid` whether its data is on the medium. `writing` is the
  next system call of a write. `"torn"` is a file whose data was lost.
* `Report.prev` is `previous_runtime_state`; a record has the status,
  `last_success_at`, `last_is_blocked`, `reconciliation_required` and one id per provider. Announcements are
  numbered by the changes of the recorded status; `fresh` are the ids of this message.
* `Requests.attempt`, `authLeft`, `token` are the locals of the loops and the
  cached token. `inbox` holds requests that the other end has not looked at, the
  current one and those the client gave up. Answers are classes: what a client raises
  for each is `Raises`, `"escape"` being what is no `StopLigaError`.
* `FeedDecision`: an entry has its address, whether it is a Cloudflare one (`hero`), its
  provider and its changes; a change has a state and whether it is in the lookback window.
  An address or a provider that is absent or no string is `"none"`, an address that does
  not parse `"invalid"`.
* `UnifiApply.own` stands for the fields of a route that are the user's and that every
  payload repeats. `UnifiApply.kind` is whether the route holds its destinations or links a traffic
  matching list. `plan`, `todo`, `done`, `undo` are the plan, the operations, the
  completed steps and the rollback steps of `apply_plan`.
* `UnifiBootstrap.guardFile` is the guard file, `runtime` the bootstrap triple of the
  state file, which is asked when there is no guard file, and `reconcile` its
  `reconciliation_required`. A route with
  `shape = "device"` and `origin = "fallback"` was made for the first client device.
* `OpnsenseSync.alias`, `rule` are the configuration, `table`, `filter` what the
  firewall enforces: `reconfigure` and `apply` copy one to the other.
* `OmadaSync.remote` holds groups (id, place in the list, chunk) and the route,
  which refers to groups by id. `todo` are the places still to write, the first one next. `mutations` and `routeDone` are `group_mutations` and
  `created_route` / `route_changed`.

History variables (`dirty`, `amnesia`, `unrecorded`, `announced`, `misled`, `edited`,
`unapplied`, `unseen`, `guardLost`, `overtaken`, `chosen`, `gap`, `dropped`, `hidden`,
`changes`, `tried`, `told`, `given`, `okAt`, `failing`) appear in no guard. Most name
losses that the program cannot see, so that a property can say what holds otherwise:
`amnesia` (the record that asks for reconciliation could not be written or read),
`misled` (an answer was false), `unapplied` (which of alias and rule a failed run wrote
without having it loaded, until a later `reconfigure` or `apply` comes through), `overtaken` (an edit during a run), `gap` (the last
status was lost), `dropped` (ids that went with the failure of another provider),
`hidden` (an error that could not be recorded). Where the repository promises more, the
property without the excuse is a run of its own that is violated (section 4).
Operators marked "Mutant" are plausible bugs; no specification uses them.

What the environment may do: a request fails without effect, fails after its effect,
or succeeds without effect; a file cannot be read or written, or is damaged; a process
dies at any step, or its power fails; an answer comes late, is cut short or lost, or
its body never comes; the feed changes; a user edits the objects; an operator repairs them
and removes the state file. The actions for it are marked external in the map.

## 3. Runs that pass

| Run | Shows | Bounds |
|---|---|---|
| `SyncFaults` | type; one run at a time; a failed rollback is on record and blocks writes; a change is announced at most once, and after its record; "success" is true | loop, a `--once` and a dry run; 1 kill, 1 file fault, 1 failing run, 1 change of status |
| `SyncLive` | every run ends; every change is announced when nothing is killed and no file fails; the service becomes healthy for good, or asks for reconciliation, or was stopped | loop and a `--once`; 1 of each, and a signal |
| `ReportFaults` | a write implements `Register` (`WriteIsAtomic`); no provider gets a copy too many, and each is tried for every change; ids survive failing runs; "healthy" is true; once failures end the record holds the published status for good, or asks for an operator after a failed rollback, or is a file that is not text | two providers, two attempts each; any 2 of failures, failed rollbacks, kills, power failures, damages; 2 changes of status; 1 tick of the clock, and a record is stale after it |
| `RequestFaults` | a call implements `Call` (`CallIsHandledAsAsked`) and ends; a refused token was a new one; one more report, wherever it stands, lifts no block and changes no destination; a block names its addresses | each client, reading and writing; 2 attempts; feeds of up to 2 entries of 27 kinds over 2 sentinels and an address, and of 3 and 4 of some kinds; 2 providers; thresholds 2 and 1, ceiling 2 |
| `UnifiApplyFaults` | a run implements `RouterUpdate` (`RunIsOneStep`): a commit is true, a rollback restores, damage is reported; never enabled with the wrong list, the user's fields survive, runs converge | two lists and the empty one; 3 requests, 1 edit, 1 kill |
| `UnifiBootstrapFaults` | one route, a guarded route stays disabled; a route that waits for no review ends up following the feed, unless a rollback failed and the service refuses every run until an operator has removed the state file | 2 requests, 1 file, 1 kill, 1 edit, dry runs; starts empty or with the fallback route of an older release |
| `OpnsenseFaults` | success is configured, and the alias and the rule are each enforced unless a failed run left that one unapplied; the rule is switched on only while the alias is configured with its list, and over that list as the firewall has it unless a failed run left it unapplied; the configuration converges | two lists and the empty one; 2, 2, 1, dry runs |
| `OmadaFaults` | a run implements `RouterUpdate`: success is true, a rollback restores, damage is reported; the route is switched on only over the whole list, runs converge with no group left over | zero to two groups; 2, 2, 1 |

Why the bounds are enough to be interesting: each hazard needs at most two faults (a
failure, and a failure of what repairs it: the rollback, the error record, the
fallback, the next run) and one change of the feed. Three faults in `UnifiApply` reach
a misleading request, a failure and a failing rollback in one run. Two chunks give
groups to create, to update and to delete in one run. Two lists and the empty one give
every comparison of `build_plan`. Runs repeat without bound; only faults are counted.
Two faults in `Report` reach a kill inside a write after a record was lost, and two
failing providers; two changes of status are a change and its return. In `Requests` two
attempts reach a first, a repeated and a last one, with one renewal of the token in
each; `handled` stops counting at 2, one more than the contract allows for a write. Each
threshold of the feed is missed, met and exceeded: reports of one sentinel up to 4 over
`MinMatches` = 2, two confirmed sentinels over `MinConfirmed` = 1, three distinct addresses
over `MaxDestinations` = 2; `FeedDecisionProofs` has them for any values.
Ids in `UnifiBootstrap` and `OmadaSync` are used again, so their number bounds objects
that exist together and not creations; that one is always left is proved. `MaxGroups` of
`OmadaSync` is `OMADA_MAX_GROUPS` (512 in `omada.py:38`), here 2.

### Fairness

`WF` on the steps of a running process: each is a local call, or a request with a
timeout and a bounded number of retries. In `SyncService` the loop is started again
after any end but a requested one: `restart: unless-stopped` in `docker-compose.yml`.
The driver modules have the same assumption in one condition: the loop goes on; in
`UnifiBootstrap`, where dry runs write the guard too, the loop gets its turn between
them (`SF` of a real start). Nothing is assumed of the feed, users, operators, signals or processes other than the loop.
`Report` has the same of its one process, which the container starts again; `Requests`
of the client only: the other end may never answer, and the timeout is what ends the
call. Faults are bounded in number, which is what "once faults end" means.

## 4. Runs that are violated

Each checks one sentence of the repository and ends in a counterexample.

| Run | The repository says | The code does |
|---|---|---|
| `UnifiReviewSkipped` | `tests/test_integration.py:1483`, an incomplete route is not enabled automatically | the run that keeps it disabled renames its source (`unifi.py:1501`), the next one enables it |
| `OpnsenseNotApplied` | `README.md:49`, the alias is updated, the rule enabled or disabled | a failed reconfigure or apply is never repeated, and later runs report success |
| `OmadaTimeout` | `errors.py:66`, a partial update raises `PartialUpdateError` | a timeout while an answer is read is no `StopLigaError`: no rollback, no record |
| `OmadaRouteLeftBehind` | `tests/test_integration.py:1334`, what a rollback leaves is marked | a route that was created and not found again is left, and the rollback counts as complete |

Five more places where the code does what its tests or its README would not lead one to
expect have no run of their own. A passing property names each as its excuse, and holds
of everything else:

* A dry run that would create the route records `is_blocked` as `False` by default
  (`unifi.py:1649`, `models.py:212`), and the next real run announces the difference
  (`EveryChangeAnnounced` has no dry runs).
* A state file that is no UTF-8 raises `UnicodeDecodeError` (`state.py:106`), which no
  handler knows: every loop that is started on it ends (`RecordCatchesUp`).
* Only the failure of both backends is an error (`unifi.py:1127`): the route of one that
  cannot be listed counts as missing, and a second one is made. So it is after a creation
  that looked failed (`AtMostOneRoute`, `misled`).
* After a lost reconfigure the OPNsense rule may be switched on over the list of before
  (`EnabledOnlyOverItsList`, `unapplied`).
* `update_alias_content` and `toggle_rule` do not read the body of the answer
  (`opnsense.py:248`): one run reports a refused change as made (`SuccessIsReal`,
  `misled`), and the next one repeats it (`ConfigurationConverges`).

## 5. Proofs

Every theorem holds for all values of the constants that the named assumptions allow: any
processes, providers, lists and bounds on faults. Each that is about a specification, as all but those of `FeedDecisionProofs` are, is proved as `Init => IInv`,
`IInv /\ [Next]_vars => IInv'`, `IInv => Inv` (or, for an action property or a
refinement, `IInv /\ [Next]_vars =>` the step) and one temporal step. `IInv` is an
operator of the proof module, stated before the theorem that needs it, with one lemma per
action or family of actions; each was model-checked on the instance of a run before it was
proved. Every safety property of a passing run is stated by a theorem, and so are the four
refinements.

`SyncServiceProofs`:

| Theorem | Property | Argument |
|---|---|---|
| `TypeCorrect` | `TypeOK` | inductive as it stands, with one lemma per family of actions |
| `MutualExclusion` | `AtMostOneRunning` | inductive as it stands: a process leaves "off" only by taking a free lock, and frees only its own |
| `DirtyAlwaysRecorded` | `DirtyIsRecorded` | `ReconInv`: while a failed rollback is unrepaired and its record was not lost, every process is before its load or is writing that very failure; a damaged file holds no flag |
| `PendingAlwaysBlocks` | `PendingBlocksWrites` | `ReconInv` again: no process is at `feed` or `sync` while a recorded failure is unrepaired, which is its third conjunct |
| `RecordedBeforeAnnounced` | `AnnouncedIsRecorded` | `NotifyInv`: from `writeGuard` on, the file still holds the record that the run wrote, or is damaged |
| `AnnouncedAtMostOnce` | `NoChangeAnnouncedTwice` | `NotifyInv`: a run that is to announce a change loaded the other status and recorded this one, which made `announced` false |
| `SuccessAlwaysApplied` | `SuccessMeansApplied` | `SuccessInv`, with `NotifyInv`: a run that synchronized leaves `remote = result` until it is over |
| `EveryChangeIsAnnounced` | `EveryChangeAnnounced` | `AnnounceInv`: without kills, file faults and dry runs a run remembers the status that is on file until it writes its own, and from then on a change that is not announced is one that this run will announce |

`ReportProofs`; its first part is about one write of `StateFile`, for any set of records:

| Theorem | Property | Argument |
|---|---|---|
| `TypeCorrect` | `TypeOK` | `TypeInv` adds `ChangesInv` (the changes so far and the difference still to be recorded are at most the faults and the changes of the feed), `FreshInv` (an id is the number of an announcement) and `FileInv` |
| `WritesAreAtomic` | `WriteIsAtomic` | `FileInv`: what has a name was synced before it got it, so what a power failure restores is a record too; each system call is then a step of `Register` or none |
| `HealthyAnswerIsTrue` | `HealthyIsTrue` | `HealthInv`: no record, in whatever file, is dated after the last success, and a failure is in the file, in its status or as the request for an operator that refuses a run, or is hidden |
| `NoCopyIsNeedless` | `NoNeedlessCopy` | `CopiesInv`: while an announcement is under way, no provider that has still to get it has accepted as many as there are changes |
| `NoProviderPassedOver` | `EveryProviderTried` | `TriedInv`: outside a delivery each provider was tried once per change; in one, all from the turn on lack one |
| `IdsAreKept` | `IdsSurvive` | `IdsInv`, with `TriedInv`: an id goes from the answer to `fresh`, to the record that is written, to the file |

`RequestsProofs`:

| Theorem | Property | Argument |
|---|---|---|
| `TypeCorrect` | `TypeOK` | proved together with `CallInv` |
| `RejectedWithNewTokenOnly` | `RejectedWithNewToken` | `CallInv`: an old token means that a renewal is left, and no call ends as refused before it is used |
| `CallsAreHandledAsAsked` | `CallIsHandledAsAsked` | `CallInv`: a write has one attempt, and is sent again only after a rejection, when nothing of it is under way and nothing was carried out |
| `CallsAdvance` | `LoopAdvances`, stated in the proof module | `StepsLeft`, a number below `8 * Retries`, gets smaller with every step of the client: an attempt that is used up outweighs a renewal, and a renewal the requests of an attempt |
| `ReportsNeverLiftTheBlock` | `ReportsNeverUnblock` | `FeedInv` (the snapshot is what `Decide` makes of the payload that was received), and `DecideRepeats` of `FeedDecisionProofs` |
| `BlocksNameTheirDestinations` | `BlockNamesDestinations` | `FeedInv`, and `CountedAreNamed` |

`FeedDecisionProofs`, about the operators of `FeedDecision` and feeds of any length:

| Theorem | Says |
|---|---|
| `SnapshotIsWhatTheFeedSays` | which feeds `load_feed_snapshot` refuses, which destinations a good one names and when its history blocks, in terms of its entries and not of the two loops; no snapshot has more destinations than the ceiling |
| `OrderOfEntriesIsIrrelevant` | two feeds that hold the same entries, each as often, make the same snapshot |

The loops of `feed.py` are folds there, and the induction over a feed is made by hand. A
set of numbers that holds 0 and the successor of each of its numbers is all of `0 .. n`
(`UpTo`), because a least number that is missing would have a predecessor; the function
that a fold is defined by exists for the same reason (`FoldExists`). So `HeroLoop` and
`ExtractLoop` give the values of the accumulator after each entry, and `HeroValue` and
`ExtractValue` what they are: the number of reports of each address, and the set of the
addresses that the provider's entries name, unless an entry breaks the loop or a set was
too large. The sets of addresses only grow, so the ceiling is passed at some entry exactly
if it is passed at the last. `Repeats(data, more)` says that `more` is `data` with reports repeated, at
any place: counts can only grow, sets stay what they are, and `HeroBlocked` is monotone in
the counts (`BlockedMonotone`).

`UnifiApplyProofs`:

| Theorem | Property | Argument |
|---|---|---|
| `TypeCorrect` | `TypeOK` | inductive as it stands, with lemmas on the plans that `MakePlan` makes |
| `NeverWithAnotherList` | `EnabledOnlyWithItsList` | `RunInv`, and the order of the two requests for each direction of the switch |
| `EditsAlwaysSurvive` | `EditsSurvive` | `OwnInv`: what the run read, what it plans and what the route has are one value, until an edit overtakes the run |
| `EveryRunIsOneStep` | `RunIsOneStep` | `RunInv`: `PlaceInv` (what is done is a prefix of the plan's operations, what is to do the rest, what is to undo a prefix reversed) and `EffectInv` (the controller shows the route that was read with the operations in force, and no others). The end of a run is then the step of `RouterUpdate`, every other step a stutter |

`UnifiBootstrapProofs`:

| Theorem | Property | Argument |
|---|---|---|
| `TypeCorrect` | `TypeOK` | `CountInv`: routes are at most one more than requests that failed, and no more than those where a route is created, so an id is left |
| `NoSecondRoute` | `AtMostOneRoute` | `SingleInv`: what a run that was not misled has seen is still so when it creates its route |
| `GuardedRouteNeverEnabled` | `GuardedRouteStaysDisabled` | `GuardInv`: the guard is in its file or, without one, in the state file and in the run that read it, from before the route exists until its review |

`OpnsenseSyncProofs`:

| Theorem | Property | Argument |
|---|---|---|
| `TypeCorrect` | `TypeOK` | inductive as it stands |
| `SuccessIsAlwaysReal` | `SuccessIsReal` | `ConfigInv`: at each call, how much of the configuration already is what the feed wants, and what the firewall enforces of it |
| `NeverOverAnotherList` | `EnabledOnlyOverItsList` | `ConfigInv`: the alias is as wanted, through whatever failed before, when the rule is searched, and the firewall has what is configured unless `unapplied` says otherwise; the excuse lasts until a reconfigure or an apply has loaded the alias, and what it leaves out is a run over an alias that was not loaded, as in `OpnsenseNotApplied` |

`OmadaSyncProofs`:

| Theorem | Property | Argument |
|---|---|---|
| `TypeCorrect` | `TypeOK` | `TypeInv` adds `PlaceInv`, `ObjectInv` (ids and names correspond among all groups that the run knows of, and each mutation undoes what was read) and `WritingInv` (what is to come is there if it was read); counting groups and references leaves an id for a new group |
| `NeverOverAnotherList` | `EnabledOnlyOverItsList` | `CoverInv` (each wanted group was right, was written or is to be written) and `EffectInv` |
| `EveryRunIsOneStep` | `RunIsOneStep` | `RunInv` = `TypeInv`, `EffectInv` (the groups are those read with the mutations applied, the route as read until it is written), `CoverInv`, `VerifiedInv` (what was verified stays while the rest is deleted) and `SightInv`; undoing the mutations in any order restores the groups, as no two have a name in common |
| `RunsAdvance` | `RunAdvances`, stated in the proof module | `CallsLeft`, at most `3 * MaxGroups + 6`: `TypeInv` has no name written twice and no group left over twice; a group that is written gives up two calls for the one that may undo it |

The assumptions on the constants: bounds are natural numbers (`BoundsAssumption`,
`BudgetAssumption`, `ClockAssumption`), a call has an attempt (`RetriesAssumption`), loops
and dry runs are processes (`ProcsAssumption`), the empty list is a list
(`DestsAssumption`, `ListsAssumption`), each provider has one place in the order
(`OrderAssumption`), there are finitely many addresses, "invalid" is none of them and
the sentinels are (`IpsAssumption`), the thresholds of the feed are natural numbers
(`ThresholdsAssumption`), what the feed's server sends is a payload (`PayloadsAssumption`,
of any entries and any length), the records of `StateFile` are those of `Report`
(`RecordsAssumption`, `NoRecordAssumption`), a list of chunks is no longer than the driver
accepts, `MaxGroups`, and the controller has ids for twice as many groups
(`GroupIdsAssumption`). The program counts no ids: the controller makes them, and the
last assumption is that it never lacks one. TLC evaluates all of them on every run.

Only model-checked:

* All liveness (`RunsEnd`, `EventuallyHealthy`, `Converges`, `EventuallyEnforced`,
  `ConfigurationConverges`, `RecordCatchesUp`, `CallEnds`): fairness and `ENABLED` are out
  of the prover's reach. `CallsAdvance` and `RunsAdvance` are the safety halves of `CallEnds` and
  of the end of an Omada run: what is left to TLC is that there always is a step to take.
* The runs of section 4, where the model violates what the repository says.

What the liveness properties leave open, because the program does: after a rollback that
failed, `RefuseRun` ends every run until an operator acts, and no operator is made to come
(`RecordCatchesUp`, `EventuallyEnforced`, `EventuallyHealthy`); a fallback route waits for
its review and two routes with one name for the user (`EventuallyEnforced`); a state file
that is not text ends every loop (`RecordCatchesUp`); a missing OPNsense rule is the user's
to make (`ConfigurationConverges`).

## 6. Not modelled

* Configuration: settings are read and validated once, before the lock, and become
  constants. Logging: nothing reads a log. Driver factory: a dispatch. Utilities: the
  models start from normal forms. Image build.
* `load_status_snapshot`, `resolve_dns_addresses`, `parse_ip_list`: the service does not
  call them (a `dns://` address of the canonical host is replaced by its JSON feed).
  Redirects and the URL policy of the feed end as a failed fetch.
* The CSRF header and the discovery of prefix and site of UniFi, which only read: a
  failure there is a run that fails before it changes anything.
* Texts of messages; temporary files that a kill leaves behind; the reference time of
  the lookback window, which appears as "recent"; the tolerance of a clock that runs
  ahead in the health check.
* A state file that is no UTF-8 ends every loop: it is modelled in `Report`
  (`LoadUndecodable`), where `RecordCatchesUp` excuses it; `SyncService.CorruptState` has only the
  damage that is quarantined.
* The body of a UniFi request that an error body replaces (`unifi.py:529`): only requests
  of methods without a body are repeated, so it is never sent.
* That no message is delivered twice: `_post_json` repeats a POST whose answer was lost,
  and no client can know of that copy. `NoNeedlessCopy` bounds the others.
* That status and destinations come from one reading of the feed: they are independent by
  design (`tests/test_feed.py:631`); `BlockNamesDestinations` says where they agree.
* A dry run beside the loop meets its lock and ends with exit code 6 (`LockBusy`).
* Omada group names that merely start like a managed name; more than one site.

## 7. Plan

Done: every component that section 1 says is modelled, its runs, and the theorems of
section 5. Left, in order:

1. The safety half of the other liveness properties, as `LoopAdvances` and `RunAdvances`
   are for a call and for an Omada run: a number that each step of a run makes smaller.
2. `SyncService` composed with `RouterUpdate` instead of its own summary of a driver, so
   that edits of a user meet the records of the service.

## 8. Running

    tlc -config SyncFaults.cfg MCSyncService.tla
    tlapm SyncServiceProofs.tla

`PROJECT.json` names the module of each configuration; those of `UnifiBootstrap` run on
the module itself. A proof module takes three minutes at most.
