# Kasumi-Proxy in TLA+

Kasumi-Proxy runs proxy cores (Xray, sing-box) on Android and on the desktop:
it keeps the user's profiles, subscriptions, groups and routes, builds a core
configuration from the active profile, brings up a data path (core, tun helper,
routing, OS proxy) and watches it. These modules model the backend: the service
and its tasks, the settings on disk and as data, what a start leaves on the
machine on each platform, the privileged helper, the background loops, the
tests, and the algorithms that turn profiles, rules, links and provider configs
into what a core runs. TLC checks them on small instances and TLAPS proves the
main safety properties for every value of the constants.

Contents: [the system](#the-system), [modules](#modules), [runs](#runs),
[bounds](#bounds), [fairness](#fairness), [proofs](#proofs),
[disagreements](#where-code-and-comments-disagree),
[seen but not checked](#seen-in-the-models-without-a-run),
[modelling choices](#modelling-choices),
[not modelled](#not-modelled), [plan](#plan).

To check: `tlc -config <run>.cfg <MC module>` (the table of runs names it) and
`tlapm <Module>Proofs.tla`. `PROJECT.json` lists runs, the source lines behind
every definition, mutants that each property catches, hazards and theorems.

## The system

All paths are below `src/`. The backend crates are `crates/kasumi-core` (data
types and pure algorithms), `crates/kasumi-backend` (the service, its
persistence, updaters and jobs, and the platform interface with its desktop
implementation), `crates/kasumi-daemon` (the Android daemon) and
`crates/kasumi-log`. `src-tauri` is the desktop shell and `frontend` the
client.

| component | state | operations | correct when |
|---|---|---|---|
| service (`kasumi-backend/src/service`) | two async locks, the running baseline, pending-restart and stale-asset flags, connectivity verdict with a generation, the once-only auto-start bit | start, stop, restart, reload, edit, probe; boot, network, resume and watchdog tasks | a stop is final; an edit is never silently unapplied; a verdict is about the running core; a dead path is noticed and cleaned up; the two locks never deadlock |
| persistence (`state.rs`, `fsjson.rs`, `commands.rs`) | `profiles.json`, `app-state.json`, their temp files | atomic write of each, lock-free read, read-modify-write | no torn file, no lost acknowledged edit, no active id that dangles because of the read order |
| settings mutations (`kasumi-core/src/mutate.rs`, `chain.rs`, `normalize.rs`, `route.rs`, `state_mw.rs`) | profiles, groups, subscriptions, blocks, routes, selection | 32 intents, the chain before each write, the normalizer on each read | every reference leads somewhere; what is written reads back; a route edit takes effect; a backup adds nothing twice |
| subscription updater (`sub_update.rs`, `sub_apply.rs`, `sub_changes.rs`) | last attempt, error, proposals and answers of each subscription | tick and manual fetch, apply, ask for consent | a refresh takes only what is its own, keeps the user's choice, does not ask twice |
| asset updater (`asset_update.rs`) | geo files, stamps | download, convert, roll back, flag the running core as stale | a core on replaced data is flagged |
| desktop data path (`platform.rs`, `desktop/`) | core and helper processes, run-state document, routing | bring-up with rollback, stop, liveness | what was set up is taken down |
| OS proxy (`desktop/sysproxy.rs`, `pac.rs`) | OS proxy settings, ownership record | set, clear, restore after a crash | the proxy follows the mode; the user's own proxy comes back |
| privileged helper (`desktop/privhelper/`) | the connection, its session, test cores | request and reply, orphan sweep | a reply belongs to its request; nothing outlives its client |
| Android data path and tethering (`kasumi-daemon/src/android/`) | rules, sysctls, tether interfaces | apply, reconcile, tear down | nothing installed after a teardown |
| test jobs (`jobs.rs`) | semaphore, log slots, temporary cores | ping, real ping, speed test | at most the limit; every core is killed |
| config builders (`xray_config.rs`, `singbox_config.rs`, `core.rs`, `outbound_bind.rs`) | none | the core of a chain, its outbounds, rules, DNS and tun inbounds | both cores do what the settings say; nothing loops through the tun; no check is weakened |
| importers and share links (`provider_graph.rs`, `custom_sanitize.rs`, `share.rs`) | none | provider graph to profile to config; link to profile and back | what comes out leads where what came in did |
| logging (`kasumi-log`) | file, replay buffer | append, trim, replay | no line lost or twice |
| daemon, shell, frontend, packaging | transport and presentation | | |

How they interact. Clients reach the service by commands (websocket on Android,
IPC on the desktop). The service holds `serialize` over a whole lifecycle
command, a watchdog teardown, a subscription apply and an asset write;
`state_write` over a settings edit with its recompute of `pending_restart`;
`settle_pending_restart` takes the second inside the first. Everything else —
the baseline, the flags, the verdict, the two files — is shared without either.
The updaters write the same files as edits do but under the other lock. The
platform is called under `serialize`, except that a live mode switch re-points
the OS proxy under `state_write`. On the desktop the platform may be a proxy
for the privileged helper, so each call can be lost with its work done or not.

What is hard: interleavings at every await of those tasks; probes and fetches
that answer seconds after the state they were begun with; crashes and failed
writes between the two files; a restart whose second half fails; references
between settings that an edit, a refresh or a restore has to carry along; replies
without a name on a shared connection; tasks aborted at an await with something
half installed; two builders that have to mean the same by one rule.
`PROJECT.json` lists each such place under "hazards".

## Modules

The modules form five groups; each MC module runs the ones of its row.

| MC module | modules | proofs |
|---|---|---|
| MCServiceLifecycle | ServiceLifecycle | ServiceLifecycleProofs |
| MCAppState, MCImports | AppState, ProviderGraph, ShareLinks | AppStateProofs |
| MCHelpers | PrivHelper (refines HelperCall), HelperSession | PrivHelperProofs |
| MCPaths | DesktopPath, OsProxy, AndroidPath, TestJobs, StateStore | PathProofs, TestJobsProofs, StateStoreProofs |
| MCConfigs | CoreChoice, RouteConfig, Egress | ConfigProofs |
| MCLoops | SubFetch, Tethering | LoopProofs |

The views fit together as follows. In ServiceLifecycle a saved state is one
value that an edit or an updater replaces, what counts is which path it builds,
and the platform's start and stop are a few steps that may fail. StateStore opens
the replacement up into file operations; AppState opens the value up and says
what each edit does to it; SubFetch follows one subscription through its
fetches. DesktopPath and AndroidPath open the platform's start and stop up into
what is spawned, written and installed; OsProxy the one call by which the
service sets or clears the session's proxy; Tethering the watcher that a start
on Android leaves behind; PrivHelper and HelperSession the process in which the
desktop's path runs. CoreChoice, RouteConfig, Egress, ProviderGraph and ShareLinks
are the algorithms between a profile and the config a core is started with.

Where an MC module runs several modules that share no state, a behaviour is of
one of them (`part`) and the others stay in an initial state, so each part is
checked exactly as if alone.

### ServiceLifecycle

`chain` is the program counter of whoever holds `serialize` ("idle" when
it is free) and `stateWrite` names the holder of `state_write`. One step is
what the code does between two awaits that another task can be seen in.

| state | code |
|---|---|
| `saved` | the settings on disk: active profile, the core config each profile builds, mode, auto-start, connectivity check |
| `link core helper doc osProxy` | the platform as the service sees it: helper process reachable, live core, tun helper, recorded run state, OS proxy |
| `want built` | argument and resolved config of the start in the chain |
| `refresh` | calls of `refresh_pending_restart` in flight (from an edit, from the settle, from the subscription apply) |
| `baseline pending assetsStale autoStarted` | `running_config`, `pending_restart`, `assets_stale`, `auto_started` |
| `verdict probe` | `connectivity` and the `probe_and_store` calls in flight |
| `dog` | the watchdog loop |
| `geoChanged wanted` | history: geo data replaced since the live core loaded it; no completed stop since the last requested start |

| actions | code |
|---|---|
| `UserStart UserStop BeginRestart UserReload` | the commands of `Service::dispatch` |
| `BootAutoStart NetworkChange SystemResume` | `service/watchers.rs` |
| `StopOld NoteOldStopped Resolve RecordConnecting SpawnCore BringUp StartFails CleanUpFailed NoteStarted SettleBegin ClearForStop Halt` | `run_lifecycle` and the platform's start and stop |
| `EditSave RefreshClone RefreshBuild RefreshApply RefreshMode` | a settings edit and `refresh_pending_restart` |
| `AssetChanged SubApply` | the updaters, under the lifecycle lock |
| `ProbeBegin ... ProbeStore` | `probe_and_store` |
| `DogSample DogCheck DogLock DogReap DogReaped DogTail` | `spawn_watchdog`, `reap_dead_data_path`, `tear_down_dead_data_path` |
| `CoreDies HelperDies LinkBreaks` | a process dies; the link is lost, in or between calls |

Constants: `Actors` says which tasks take part, `Remote` whether the data path
lives in the helper process, `Uplink` what an uplink change asks of a running
path (the three platform answers), `InitialCores` what an earlier process left.

### StateStore

`disk` and `temp` are the contents of the two paths and of their two temp
paths: absent, empty, complete or torn. `work[w]` is the read-modify-write of
writer `w`: read the shell, read the profiles (`Begin`, `Merge`), then for
each file create the temp file, write it, rename it (`Open`, `WriteData`,
`Rename`), with `WriteFails` and `Crash` anywhere between. `fd` follows an open
temp file through the other writer's renames. `reader` is a `read_app_state`
without a lock. `acked` counts the writes reported as done.

### AppState

`saved` is the document, `fetch[f]` the copy of the subscription that the tick
or the manual fetch began with, `sheet` the copy an edit sheet was opened with.
The rules of the write chain and of the read-side normalizer are operators from
documents to documents (`FixupDanglingGroups`, `FixupActiveId`,
`FixupDanglingVia`, `NormalizeRoutes`, `EnsureBaseGroup`), and `Chain` and
`Normalize` are spelled out separately, as the code does. Each intent is an
action: it reads (`Read`), changes and writes (`Edit`). `Document` is the set of
documents, `IdsAreUnique` says that no list holds an id twice. A filter of a list is `Where`, SelectSeq said by the
rank of what is kept (`Kept`), for the provers do not expand SelectSeq; that the two
agree is an assumption of MCAppState, which TLC evaluates.

| actions | code |
|---|---|
| `AddProfile UpsertProfile RemoveProfiles CloneProfile MoveProfiles DeduplicateProfiles SetActive` | profile intents |
| `AddGroup RenameGroup RemoveGroup ReorderGroups` | group intents |
| `AddSub OpenSheet SaveSheet RemoveSub SetSettings` | subscription intents and `merge_sub_edit` |
| `FetchBegin FetchLand FetchFail` | `sub_update::apply`, `record_error`, `offer_provider_configs` |
| `ResolveSubChange WithdrawProviderConfigs` | answers to a provider's proposals |
| `UpsertRuleBlock RemoveRuleBlock UpsertRoute RemoveRoute SetProfileRoute ImportRoutingLink ImportRoutePackage` | routes |
| `ImportBackup ReplaceState` | restore, by merging or replacing |

### HelperCall, PrivHelper

HelperCall is the promise to the GUI's tasks: a call is carried out at most once
and in one step, and its caller gets the reply to its own request or learns that
the helper is lost. PrivHelper is the code: one held connection behind a mutex,
lines without an identifier, a connection of its own for a ping, a server that
answers in order, test cores by handle with a sweep behind each, files written as
root and handed back, a helper that outlives its GUI for a moment. The refinement
(`Abs`, `ImplementsCall`) maps a caller whose reply is in the pipe to "served" and
one that waits or has sent to "asked".

| actions | code |
|---|---|
| `Call Write Receive Fail` | `client.rs` `call`, `call_oneshot`, a call after the link is lost |
| `Dispatch` | `server.rs`: read, dispatch, hand root's files back, reply |
| `SweepCore` | the sweep behind a test core |
| `GuiGone WatchGui WatchGuiExit HelperDies` | `watch_gui`, the end of either process |

### HelperSession

How a GUI of each platform finds, launches, replaces and gives up its helper:
`pkexec` and a socket on Linux, a transient process for a portable Windows
build, an installed service otherwise. Per GUI its step, its connection, the
helper launched for it; for the service its state, the build and the session it
was started for, the client it serves. Builds of before and after an update
speak different protocols.

### DesktopPath

The command (`BeginPath`, the steps of start and stop, a rollback), `watch_gui`'s
own stop (`Leave`), a crash of the owner, children that die, pids that are
recycled, an uplink that changes. `net` is what is installed: on Linux the rules
by mark, the table, the exclusion; on Windows the host routes and the split
default with `rows`, their record, and the DNS filters as the packets they let by
(`Permitted`, over `Flows`).

The code looks at the status of few of its commands. Any piece in `Flaky` may fail to go in
(`missed`, since the last start) or to go out (`stuck`, until a later removal
takes it), and the properties name these two sets where the code has no way to tell.
On Windows a row that is not added fails the start, a row that is not deleted is
warned about and forgotten, and a record that cannot be written (`Record`) fails the
start after its rows are in: `torn` are the rows that no record names.

### OsProxy

Each key of each layer (gsettings, kioslaverc, environment, WinINet) is written
by a command of its own, one layer after the other; `job` holds what a call has
left, the layers and the keys of the one it is at, and how that one goes (`ok`).
`record` is the
ownership record with the snapshot, which is none, torn or full. Applying,
clearing, quitting, crashing and launching come in between any two writes, and a
command may fail (`MaxFaults`).

### AndroidPath

The daemon's start and stop with the tun of the core itself or of a helper, one
tun or two, the mark chain by uid and the guards of listeners and tuns. `MarkOf`,
`OnTun` and `OnPorts` read the installed chains as a packet of a uid would. A helper
may fail to spawn, or be spawned and its tun never appear (`HelperFails`), the main
one or the second. Pieces in `AFlaky` may fail to go in (`aMissed`) or out
(`aStuck`), as `ip_rule` and the `iptables` calls ignore it; a rule that names a tun
and stays is not found again under the next tun's random name ("old mss").

### Tethering

One action per await of the watcher (`step`), of the teardown (`life`) that
aborts it, and of the boot. `rules` is what is installed, per kind and interface;
`Fate` runs a client's packet through it. Any command of an install or a removal whose
kind is in `Flaky` may do nothing (`FailSets`): `missed` and `stuck` are what the last of each
ran for in vain, and `PlanInPlace` reads back the part that `plan_in_place` does, no
more. `setting` and `saved` are Android's
offload setting and the file with the user's own value; `late` is a put whose
caller gave up and that lands anyway.

### TestJobs

Log slots pruned by each newcomer, the limiter that is replaced when the setting
changes, the look at the socket table before the lease, the core that binds or
does not, measurement, kill, log, and rows deleted meanwhile.

### SubFetch

One subscription, its entry in `sub-meta.json`, and the two fetchers. A fetch
copies both (`Begun`), asks by proxy, directly and at the fallback URL under one
deadline (`Answered`, `RequestFails`, `NoRequest`). Of a reply that has profiles
`Ingested` withholds what the device cannot run (`Unavailable`) and then what the
filter the fetch began with holds back (`Mapped`); the rest lands on what the
subscription is by then (`Land`), writes the entry (`WriteEntry`) or the error
(`RecordError`). The user edits, answers, withdraws; time passes; the daemon
ends; the entry is lost.

### CoreChoice, RouteConfig, Egress

CoreChoice: which core a profile and its chain resolve to, the outbounds each
builder makes of them (transport, TLS, check, server name, dialer), the losses
the interface lists, the candidates of the chain picker. RouteConfig: the rules
of both builders, with each core's own matching as an external operator, against
the rules as written; DNS servers, rules and their resolvers, with any domestic and
remote server and any static hosts (`ChangeDns`); the hijack; the tun
inbounds per app. Lists are joined by `Concat` and read by their first match (`First`,
`Hits`); a catch-all is one that leaves no port out (`CoversEveryPort`,
`NoGapBefore`). Egress: what `outbound_bind.rs` writes into each outbound,
against the socket that carries the traffic (`DialsRemote`). `resolved` is what each
server's name resolved to before the tun came up, nothing included; `PinnedOf`,
`PinFamilies` and `PinStrategy` are `pin_xray_server_hosts`, and `AnsweredByPin` says
whether Xray's DNS then answers the name without asking.

### ProviderGraph, ShareLinks

ProviderGraph: sanitising, validation as one graph, tags, selectors, balancers,
costs, hops and loopback contexts at import, and the rendered form at each build;
Xray's walk over a config is the external reference (`Visits`). Circles and
reachability are fixpoints over bounded folds. ShareLinks: `ParseShareLink` and `BuildShareLink`
of every scheme over sets of parameters, applied again and again, from a link that
was pasted or a profile that was made elsewhere (`Edited`). `NoLinkFor` are the profiles
whose link stands for another one, `Carried` the checks each kind of link has a place
for; both are exact, so a link that starts or ceases to lose something is seen.

## Runs

| run (module) | properties | what it shows |
|---|---|---|
| `lifecycle_edits` (MCServiceLifecycle) | TypeOK, NoMissedRestart, OsProxyFollowsMode | edits before, during and after starts and stops, with crashes: a running path that differs from the saved settings is flagged, and the OS proxy is the one of its mode |
| `lifecycle_watchers` (MCServiceLifecycle) | StoppedStaysStopped, StaleCoreIsFlagged, ReapSparesHealthy | boot, network, resume, watchdog and asset updater over a helper link that may break: none resurrects a stopped path, tears down a healthy one or hides stale geo data |
| `lifecycle_updates` (MCServiceLifecycle) | VerdictMeasuresLatest, StoppedStaysStopped | probes and subscription applies around restarts: no verdict on a core that was replaced |
| `lifecycle_live` (MCServiceLifecycle) | ChainFinishes, DeadPathReaped, VerdictArrives | every command returns, a dead path is dealt with, a running one gets a verdict |
| `app_subs` (MCAppState) | Intact, AskedOnce, RefreshKeepsTheirs, EditIsMinimal | profiles, groups, subscriptions, two fetches in flight, an open sheet, answers: references resolve, a refresh takes what is its own and keeps the user's choice, a sheet undoes nothing, no question comes twice |
| `imports` (MCImports) | DocumentReadsBack, RestoreAddsOnce, RouteEditsTakeEffect, ImportKeepsGraph, LinkKeepsServer | restores, routes and groups; provider configs; share links |
| `helpers` (MCHelpers) | NothingStrays, ServedByItsOwn, ImplementsCall, CallsAndCoresEnd, HelperEnds | the connection implements the abstract call; calls, test cores and helpers end; protocols and paths are not mixed up |
| `paths` (MCPaths) | StopIsClean, PathIsSound, ProxyIsGivenBack, AndroidIsSound, TestsAreSound, StoreIsSafe | what starts, tests and writes leave on the machine, commands that do nothing included |
| `configs` (MCConfigs) | ChosenCoreFits, RulesAsWritten, LookupsFollowRules, EgressPassesTun | the config builders on every small input |
| `loops` (MCLoops) | TetheringIsWhole, FetchIsSafe, ClientsAreSteered, UpdateKeepsTheirs, TriedAgain | the updater of a subscription on a device without naive, and the tethering watcher with commands that do nothing |
| `proxy_after_failed_start` (MCServiceLifecycle), `list_wiped` (MCLoops) | ProxyNeedsCore; KeepsList | the disagreements below; TLC finds each property violated |

The wider properties are conjunctions of named parts, each with its comment. Where
the code has a case in which the plain promise fails, the part names that case and
says what still holds: StopLeavesNothing, HealthyIsWhole and NoLoop (commands that
did nothing, Windows rows without a record), AndroidStopIsWhole,
AndroidHealthyIsWhole and FilterIsHonoured (the same), IntactIsWhole (a rule an
install lost), OnlyWithheldEmpties (the filter and the device), BootstrapAvoidsProxy
(a domestic DNS server nobody resolves), DomainServersArePinned (names that did not
resolve or stand elsewhere), SharedIsSameServer and NeverLessChecked (what a link
cannot say). The cases themselves are listed [below](#seen-in-the-models-without-a-run).

| property | parts |
|---|---|
| StopIsClean | StopLeavesNothing, SparesStrangers, FailureIsReported |
| PathIsSound | HealthyIsWhole, NoLoop, DnsStaysInTun, UplinkIsPhysical |
| ProxyIsGivenBack | OursIsRecorded, PacIsServed, ClearRestores |
| AndroidIsSound | AndroidStopIsWhole, AndroidHealthyIsWhole, FilterIsHonoured, FailureIsOnRecord |
| TestsAreSound | ProbesItsCore, NothingLeaks, LogTellsLast, NeverStuck |
| StoreIsSafe | NeverTorn, NoLostWrite, ReaderFindsActive |
| NothingStrays | HandleHasOneOwner, FilesComeBack |
| ServedByItsOwn | SpeaksItsProtocol, PathHasItsGui |
| CallsAndCoresEnd, HelperEnds | CallsReturn, TestCoresEnd; HelperFollowsGui, ServiceIsGivenUp |
| ChosenCoreFits | ResolvedBuilds, ChainIsWhole, CertCheckIsKept, CoresAgree, LossIsListed, PickerIsHonest |
| RulesAsWritten | SingboxRoutesAsWritten, XrayRoutesAsWritten, NeverWidened, ForcedReachesProxy, CatchAllIsSeen, EveryAppHasItsPath |
| LookupsFollowRules | LookupFollowsTraffic, BootstrapAvoidsProxy, DnsHijackIsClean |
| EgressPassesTun | NothingLoops, LocalRelayReachable, DomainServersArePinned |
| ImportKeepsGraph | SameExits, NeverCircles, PrimaryIsProxied, StoredReadsBack, CostsFollowMembers |
| LinkKeepsServer | LinkSettles, SharedIsSameServer, NeverLessChecked |
| TetheringIsWhole | SettingIsKept, TeardownIsWhole, IntactIsWhole, OffloadIsHandedBack |
| FetchIsSafe, UpdateKeepsTheirs | MetaIsOfItsUrl, ConfigsNeedConsent, BudgetIsShared; OnlyWithheldEmpties, OptOutIsKept |
| RefreshKeepsTheirs | TheirsSurvive, RefreshKeepsChoice |
| DocumentReadsBack | TypeOK, IdsAreUnique, ReadsBack |

## Bounds

- ServiceLifecycle has no counter and its state space is finite without a
  bound. Two profiles and two configs are enough for every comparison the code
  makes (same or other profile, same or other config, does not build); the
  saved states offered contain each: a switch, a duplicate under another id, a
  profile that does not build, a move inside the non-tun modes and into tun. Which
  actors take part is chosen per run so that those that share state meet.
- StateStore: `MaxWrites` = 2 writes: a write that builds on an earlier
  acknowledged one and can take it back.
- AppState: `MaxWrites` = 3 writes from a starting document that already holds
  a subscription with its profile, a hand-made profile that goes through it and
  a route that lists it, or two profiles of one name on two routes, refreshed by
  hand (`TwinStart`);
  fetches and sheets begin and end between writes.
  The properties relate a copy taken, one edit after it and its return: that is
  two writes, and the third lets one more edit prepare or follow.
  `FreshIds` bounds the ids given to fetched and cloned profiles. Answers are a
  moved server, a renamed one beside a second with an offer of routing, and a
  full config that switches the routing off.
- PrivHelper: two testers, two test cores in a behaviour and one call of each of
  the other tasks: enough for a reply and a handle to be taken for another's.
  HelperSession: three GUIs in two sessions, the first of an older build.
- DesktopPath: two pids and every kind of plan. Core and helper need both; a stranger
  matters while a pid file names its pid, which it takes over when the child is gone.
  `Flaky` has a piece of each sort (an escape rule, a capture rule, the autoroute, a
  host route, the split default), and `MaxLost` = 1 of them is missing or left over
  at a time: each exception is then met alone, where it has nothing to hide behind.
  OsProxy: one failing command. AndroidPath: `AMaxEdits` = 2 edits, crashes or failed
  commands, the latter of six sorts (`AFlaky`), and
  five uids, one per class the chains tell apart. TestJobs: two tests of one row
  and one of another, three ports, one change of the limit.
- CoreChoice: every protocol, network and security with up to two further
  settings as one profile, chains of three over four shapes, one edit. RouteConfig: two rules out of one shape per way to write a
  condition, ports 0..3 so that both ends of the port space are met. Egress: two
  outbounds of every shape and two names beside localhost, which resolve to either
  family, both or none; where the core binds instead of marking, to both or none, and a name
  the user mapped himself has both (`FewLookups`), as the pins depend on neither. ProviderGraph: three outbounds, one balancer, two
  rules. ShareLinks: up to three parameters at a time, and profiles of every protocol with
  every mix of the fields a link may drop (`MCEdited`), read and shared twice (a
  fixpoint by then).
- SubFetch: ages up to 2 in units of the retry interval, a budget of three
  units with timeouts of two, so that the second attempt is cut short; two edits
  and one fault. Links with a key, unreadable and blank; replies of servers, of a
  full config, of naive servers, sealed, and an error page; a filter that lets all through, one
  that holds full configs back and one that does not compile (`Passes`). Tethering: two
  downstreams and three changes by the environment, an install or removal with
  commands that fail counted as one.
- All runs but those of the lifecycle say `CHECK_DEADLOCK FALSE`: their edits,
  writes or shapes are used up, and users may stop. That tests never wait for
  each other in a circle is NeverStuck.

## Fairness

- ServiceLifecycle (`FairSpec`): weak fairness of each step of a task that
  runs by itself (the chain, a refresh, a probe, the watchdog's tick), since
  tokio polls a ready task; strong fairness of the two steps that wait for a lock
  (`SettleBegin`, `DogLock`), since tokio's mutex is FIFO and a waiter is passed
  over only finitely often.
- PrivHelper: weak fairness of reading a reply, of failing a lost call, of the
  server, the sweeps and the watch of the GUI; strong fairness of a caller's write,
  which waits for the FIFO mutex. A test that has a core kills it when its time is up.
- HelperSession: the helper's poll and timers and the service manager run.
- SubFetch: the loop wakes, time passes, each request ends in an answer or at
  its timeout. Tethering: the watcher is polled, its commands end, a teardown
  runs on.
- No request of a user, no failure, crash or change by the environment is fair.

## Proofs

Each is proved for every value of the constants that meets the assumptions of
the module.

| theorem | says | inductive invariant |
|---|---|---|
| TypeCorrect | `Spec => []TypeOK` | TypeInv = TypeOK and InHand: the paths that a refresh and a start have in hand are paths |
| VerdictsAreCurrent | `Spec => []VerdictMeasuresLatest` | and BetweenCores: from the note that the old core is gone to the next spawn no core answers and no probe that still counts has measured |
| StopsAreFinal | `Spec => []StoppedStaysStopped` | and NothingWanted, RefreshHoldsLock: with no start wanted there is no baseline and nobody who starts holds the lock; a refresh that could adopt a baseline runs under its caller's lock |
| StaleCoresAreFlagged | `Spec => []StaleCoreIsFlagged` | and FreshStart: a start in the chain has loaded what is on disk |
| WatchdogSparesHealthy | `Spec => ReapSparesHealthy` | ReapsDead: who holds the lock to reap holds it over a dead path |
| EditsAreNeverMissed | without "sub" among the actors, `Spec => []NoMissedRestart` | RefreshInFlight and NoneMissed: the one refresh in flight holds `state_write`, reads the state it was called with and compares with the live baseline, unless a start that settles later or a stop came between |
| ProxyFollowsMode | without "sub" among the actors, `Spec => []OsProxyFollowsMode` | ProxyFits: the OS proxy is that of the mode in hand at each step of a start, a refresh and a mode switch, and only the one refresh in flight may still have to re-point it |
| StoreTypeCorrect | `Spec => []TypeOK` of StateStore | TypeOK itself |
| OneWriterIsSafe | with one kind of writer, `Spec => []StoreIsSafe` | StoreInv = Alone (its temp file is its own), BuildsOnAcked (a write under way contains every acknowledged one), ActiveKnown (an active id in hand is a stored profile's unless it was removed) |
| ChainResolves | for every document, `Chain(s)` resolves | one lemma per rule, each keeping what the earlier rules established; no assumption on the document |
| SettingsStayIntact | `Spec => []Intact` | none: every step leaves the document alone or writes `Chain` of something (StepWrites), whatever the edit |
| ChainReadsBack | a document whose groups hold the base group is written in a form the chain leaves alone: `Normalize(Chain(s)) = Chain(s)` and `Chain(Chain(s)) = Chain(s)` | one lemma per rule, saying that what the earlier rules established makes the later ones, and a second pass of each, change nothing; LeastOf (the least element of a set of numbers, by the library's well-founded minimum) is the induction behind "the first match" |
| FetchesAreSafe | `FetchSpec => []FetchIsSafe` | FetchInv = types and WorkOK: what a fetch has in hand is of its link (the entry it copied and the one it will write), it holds full configs or may bring them only when the user has agreed, and it has spent no more than the budget. It is needed because the link and the consent may change between the copy and the write |
| UpdatesKeepTheirs | `FetchSpec => UpdateKeepsTheirs`, for any device and any filter | FetchInv: a fetch that lands was sent profiles, since the check for an empty list comes first, and brings those of them that neither the device nor its own filter rules out. `list_wiped` shows that these two do empty a list |
| TetheringStaysWhole | `TetherSpec => []TetheringIsWhole` | TetherInv = types, RecordInv (how far setting and record are at each step: the record holds the user's value from before the put until after the restore) and RulesInv (what is installed at each step: after a removal nothing but what is `stuck`, and for what `applied` names all but the routes, which go with their device, and what is `missed`) |
| NothingGoesAstray | `Spec => []NothingStrays` of PrivHelper, for any testers and test cores | HelperInv = types, WireInv (a connection carries one call or none, and on the shared one its sender holds the mutex; no request is left when the helper is gone), HandlesInv (a handle in use is of the past and one tester's, held or in the reply that brings it), FilesInv (root's files are those of the request in hand) |
| HelperImplementsCall | `Spec => ImplementsCall`: the connection implements HelperCall | HelperInv, and one step lemma per action: a dispatch is HelperCall's Serve of the one caller the connection carries (or ServeLeft once the GUI is gone), an exit its Sweep or HelperGone, the rest a step of the same meaning or a stutter |
| GuisKeepApart | `SessionSpec => []ServedByItsOwn`, for any GUIs and sessions | SessionInv = types, SpokenTo (a client that is up speaks its helper's protocol; on Windows this is said of the one GUI that the service serves, for another may be on a line that is being closed) and PathHasItsGui |
| StopsAreClean | `DesktopSpec => []StopIsClean`, for any pids, plans and configs | DesktopInv, below |
| PathStaysSound | `DesktopSpec => []PathIsSound` | DesktopInv |
| AndroidStaysSound | `AndroidSpec => []AndroidIsSound`, for any helper engines and app filters | AndroidInv, below |
| TestsStaySound | `JobSpec => []TestsAreSound`, for any tests, rows and limits | JobInv = types, SlotInv (a test that is asked for has the slot of its row in the map, and one of a row holds it), PermitInv (a permit is had from the queue to the end of the attempt, every semaphore has one, only a new one has none out), PortInv (leases differ, who listens leased the port), RoomInv (a test takes at most one port for good, so while there are as many ports as tests one is free) and LogInv (what a log tells at each step of its row's test) |
| ProxyStaysTheUsers | unless the exit races a call (`QuitRaces`) or KDE lacks its reader, `OsProxySpec => []ProxyIsGivenBack` | ProxyInv, below |
| SocketsPassTun | `EgressSpec => []EgressPassesTun`, for any graph of outbounds and any outcome of the lookups | EgressInv: what was written into each outbound is what `Prepares` says of it, and the pins are those of the names that resolved. The pin part is an equivalence: a name is answered exactly when it resolved and stands under vnext or servers |
| RulesDecide | `RouteSpec => []RulesAsWritten`, for any rules, ports and apps | RouteInv: the rules are a list of rule shapes, the settings and the app filter have their types. The rest is about the builders as functions, below |
| LookupsGoWithTraffic | `RouteSpec => []LookupsFollowRules`, for any DNS settings | RouteInv. The bootstrap part says which server has no resolver: a domestic one named by a domain no static host maps, and no other |
| SettingsReadBack | `Spec => []DocumentReadsBack` of AppState | SettingsInv = what is saved is `Chain` of a well-formed document with no id twice; what fetches and the sheet hold are well-formed subscriptions that ask no question again |
| ProviderAsksOnce | `Spec => []AskedOnce` | SettingsInv |
| SheetsUndoNothing | `Spec => EditIsMinimal` | SettingsInv |
| RouteEditsHold | `Spec => RouteEditsTakeEffect` | SettingsInv |
| RefreshTakesItsOwn | `Spec => RefreshKeepsTheirs` | SettingsInv |
| RestoreIsClean | `Spec => RestoreAddsOnce` | SettingsInv |

DesktopInv is one invariant for both systems, since the two share the chain of
steps and the owner's processes:

- Children: a process of the data path is a child of the owner and in its pid
  file, and the two pid files never name one process. That is why a stop that
  goes by the pid files finds everything.
- Absent and Recorded: which child and which document there is at each step.
  A step of a leave (`watch_gui`'s last stop) may run between any two of the
  command, so these are said of the command's steps under either.
- LinuxRules: the rules that are in place at each step while no leave is under way,
  up to `missed` and `stuck`. WindowsRoutes: each route is on record, was torn by a crash
  or a record that could not be written (`torn`), or was not deleted (`stuck`), from the step
  that adds it to the one that takes it away. Neither StopLeavesNothing nor
  HealthyIsWhole is inductive without them.
- DeviceRoutes: a route through the tun is there only with its device, which is
  why the split default needs no record to go.
- NoLoop and DnsStaysInTun are themselves parts: NetStays carries NoLoop's routing
  types over each step, and the DNS guard, which is all or nothing, decides each
  flow (GuardDecides).

AndroidInv is laid out by the command: OnFile (what runs is in its pid file and of
the engine of the document), StopProgress and StartProgress (what is gone, or
there, at each step), NativeProgress and FrontedProgress (the core's own tun, or
helpers with their marks, rules and tables, up to `aMissed` and `aStuck`), Guarded. A crash of the daemon or the
death of a child may come at any step; what they leave is what the next
command's stop starts from.

ProxyInv follows the commands of one call, which the environment may interrupt
between any two:

- OneCall: one task is at it at a time, each step has the layers and the keys that
  are left for it, and only a restore in which a command failed falls back.
- RecordFits: there is no record before the snapshot, a torn one while it is being
  filled or after a crash in that write, the full one while the app's settings are
  written and taken back.
- NotOurs: a snapshot holds settings of the user, or what a failure or a torn
  record left, never the app's; a clear has dealt with each layer it is past and
  has still to write what is not back yet in the one it is at. This is what
  ClearRestores needs and what makes it inductive.
- PacFits: with the PAC server down no layer at rest is at its script.

Rules (RulesDecide, LookupsGoWithTraffic). Both builders make a list of each rule and
join the lists. FirstPart says that the first entry of the joined list that a
connection matches is the first of the first part that it matches at all, by
induction over the parts. What is left is said per rule: the part that sing-box or
Xray makes of it hears a connection when the rule as written does, in that core's
reading of it, and else is silent (Heard, Silent); and no part is wider than the
rule, where NeverWidened leaves out rules with `!cn`, which sing-box inverts as a
whole. That a catch-all is seen when several rules cover the ports together is the
least port that none of them covers (NoGapBefore). For the lookups the same is said of
the DNS rules.

Settings. One lemma per rule of the chain says that it keeps a document well formed
(ChainTyped, ReadTyped) and its ids unique (the ...Unique lemmas); a fresh id is
there to be had because there are more candidates than items (FreeBlockId).
PlaceOfRank and KeptAll carry what a filter keeps, and in which order. On top of
SettingsInv:

- SheetsUndoNothing: an edit starts from what was saved (ReadIsSaved), so what
  `merge_sub_edit` takes from the copy is what the user changed.
- RouteEditsHold: after the edit the routes claim disjoint profiles and groups, so with
  unique ids `route_for` finds the edited one (ClaimsTakeEffect).
- RefreshTakesItsOwn: what `apply` leaves, item by item (AppliedIs, RefreshedIs), and
  under which id an owned profile comes back (RefreshedIdIs); the active one is
  there again or, if the answer no longer has it, gone with the old list
  (ChosenSurvives).
- RestoreIsClean: who in the backup is taken for whom here (TakenOver, MatchedIdIs),
  and what the merged list is (MergedIs, HereAfterMerge).

EditsAreNeverMissed, ProxyFollowsMode and OneWriterIsSafe carry their hypothesis
because the code needs it (see the next two sections). ChainReadsBack asks that
the routes are a list, as the code's `Vec` is, and that the base group is there:
the read puts a missing one first (`ensure_base_group`) and the write does not, so
without it the two differ. Every edit starts from what was read and RemoveGroup
refuses the base group; only a backup that lacks it takes it away (ReadsBack has the
same hypothesis).

The assumptions of AppState: the base group is a group, there is a name, fresh ids
are finitely many and no profile's id is `None` (IdsAssumption); starting documents and
backups are documents the program wrote, with no id twice and no proposal both
pending and answered (DocumentsAssumption); answers and route drafts have their
types (InputsAssumption), and the number of writes has a bound, whichever
(BoundAssumption). RouteConfig: connections have ports up to `MaxPort`, among them
each port, transport and app and an address literal (ConnsAssumption,
ConnKindsAssumption); an IP list holds no `#` line, which the builders do not skip
(RulesAssumption), and a DNS server's host is no address (DnsAssumption). Egress: an
outbound's servers are in one of the fields the code knows, and a name is not an
address (EgressAssumption). The proofs take commands that fail at any piece, whatever
`Flaky` and `AFlaky` are.
OsProxy: the sessions are the four it names (OsProxyConstants).

DesktopPath assumes of the plans what `DataPathPlan::resolve` makes
of them (an external tun has a helper and only sing-box has its own), AndroidPath
that helper engines are named apart from the core's own tun, HelperSession that no
GUI is the absent one.

Only model-checked: the liveness properties (ChainFinishes, DeadPathReaped,
VerdictArrives, CallsAndCoresEnd, HelperEnds, ClientsAreSteered, TriedAgain), since
fairness and ENABLED are beyond the prover; ChosenCoreFits, ImportKeepsGraph and
LinkKeepsServer, whose operators walk a chain, a graph or a link by folds and
fixpoints, so what they compute for every input is an induction over data: the
runs compare them with a reference on every small input; and the two properties
that a run finds violated. RulesAssumption is a restriction of the proofs as it is of
the run: the `#` line is under "seen" below.

## Where code and comments disagree

Two runs expect a violation; `PROJECT.json` quotes the lines.

1. `proxy_after_failed_start`: a restart whose config does not resolve returns
   before the clean-up that clears the OS proxy of the core it just stopped.
2. `list_wiped`: on a device that cannot run naive, a reply of naive servers
   alone passes the check for an empty list, is emptied afterwards, and wipes the
   subscription that "must never" be wiped. The user's own profile filter comes after
   that check as well (`sub_update.rs:448`) and wipes the list in the same way;
   OnlyWithheldEmpties says that nothing else does.

## Seen in the models without a run

The first group are cases in which the plain form of a checked property fails. The
models have them and the property names each as its exception, so that what it still
says is exact.

- BootstrapAvoidsProxy: a domestic DNS server given by a domain that no static host
  maps is built without a resolver (`singbox_config.rs:774-795`), though the comment
  there says that sing-box refuses such a server. The settings page takes any.
- DomainServersArePinned: `pin_xray_server_hosts` says "Each domain server"
  (`outbound_bind.rs:374`), and leaves out a name that did not resolve (`:400`), the
  address of a hysteria outbound and the endpoints of WireGuard peers (`:377-400`).
- SharedIsSameServer, NeverLessChecked: links of some profiles stand for another
  server or a weaker check (NoLinkFor, Carried): http with reality is shared as plain
  http (`share.rs:1547-1556`), ss with TLS under most plugin modes, the pins of vmess,
  a userinfo with a password alone.
- HealthyIsWhole, NoLoop, StopLeavesNothing on Linux: no `ip` call's status is looked
  at (`linux/routing.rs:121-158`), so a path passes for healthy without a rule, or
  with one of an earlier start.
- The same on Windows: rows are added before their record is written, and a record
  that cannot be written (`windows/routing.rs:746`) fails the start with the rows in,
  though `:730` says of another failure to "fail before the state file is written";
  the clear then has no record to go by and is not "everything" (`:754`). A row that cannot
  be deleted is warned about and forgotten (`:767-777`). A row that stays makes a later
  start with the same route fail.
- AndroidStopIsWhole, AndroidHealthyIsWhole, FilterIsHonoured: the same of `ip_rule`
  and the `iptables` calls (`android/routing.rs:77`), with health told by pids.
- IntactIsWhole: an install ignores every exit status (`tethering.rs:498-523`) and
  `plan_in_place` (`:472-487`) reads back a part, so a plan can pass as in place
  without the FORWARD rule of IPv6 or a hook of nat; the other rules are repaired.
- OnlyWithheldEmpties: see disagreement 2.

The second group is stated as a property of its module, which no run lists; TLC
finds it violated when it is added.

- `NoMissedRestart` with the subscription updater among the actors: its apply
  recomputes `pending_restart` under the lifecycle lock only and can overwrite an
  edit's answer. `OsProxyFollowsMode` with it: of two refreshes that overlap, the
  one that read the older mode can point the OS proxy last.
- `EditSurvives` (StateStore) with both kinds of writer: an updater that read
  before an edit and writes after it takes an acknowledged edit back. `TempIsOwn`:
  two writers of one process share a temp name (`fsjson.rs:81-90`).
- `SelectionSurvives` (AppState): a refresh re-points the selection away from a
  profile the user moved out of the subscription's group, though it keeps it.
  `FreshFollowsSub`: a fetch in flight while the group is changed lands in the old
  group, where no later refresh owns its profiles.
- `WithdrawnIsGone` (SubFetch): a fetch in flight over a withdrawn consent brings
  the configs back (`sub_update.rs:430` reads the copy; `sub_changes.rs:572`).
- `WithinLimit` (TestJobs), with a row per test: changing the concurrency makes a new semaphore while
  the permits of the old one are out (`jobs.rs:34-38`).
- `NoStrangerSignalled` (DesktopPath): the core's pid is signalled without a look
  at what runs under it; the tun helper's is looked at.
- `TakesOwnHelper` (HelperSession): a GUI can end up with an older helper's socket.
- `TargetNeverFailsBuild` (CoreChoice): a rule's target that the core cannot build
  fails the start of a profile that builds without it.
- `ViaIsTaken` (ProviderGraph): a hop put beside an outbound's own proxySettings.
- `StrictCaptures` (AndroidPath): strict routing, which the settings explain as
  "Force every app through the tunnel with no leaks." (`i18n/en.ts:486`), without
  capture of all apps marks every app (`routing.rs:107-119`), but the guards let
  only the forced ones onto the tun (`routing.rs:259-338`) and drop the rest.
- `SettingIsKept` and `TeardownIsWhole` exempt a settings put that was taken for
  failed after its timeout and lands when its record is gone
  (`tether_offload.rs:162`).
- `ClearRestores` (OsProxy) with `QuitRaces`: an exit in the middle of a service
  call; and on a KDE session without `kreadconfig`, whose layer the snapshot cannot
  hold. With a second fault a write that fails and then a fallback that fails leave
  a layer half restored.

The third group was met while reading for the models and is outside them.

- Service: the watchdog's teardown leaves the OS proxy of the dead core set, and
  `assets_stale` up; a probe begun during a start of another profile files its
  verdict under the saved active one (`service/status.rs:184-197`); a live mode
  switch may re-point the OS proxy after a stop that came in between and leaves
  `pending_restart` up (`lifecycle.rs:180`); the 1 Hz pusher compares with its own
  last frame, not with one sent meanwhile (`watchers.rs:297`). The next start or
  frame puts these right.
- Settings: `RemoveSub` sent twice has no group the second time and also deletes
  the profiles the user had moved out (`mutate.rs:471`); a merged backup whose
  legacy rules become `block-main` loses them when a block of that id is here
  (`mutate.rs:780`); the oldest of `DECISIONS_MAX` answers is forgotten and its
  question can come back (`sub_changes.rs:637`). Of two profiles of a subscription with
  one name on two routes a refresh may bring back one, which the earlier route then
  claims; a restored profile whose hop is itself loses the hop.
- Asset updater: a start between a new geo file and the rollback of its failed
  conversion loads the file that is rolled back (`asset_update.rs:79`).
- Desktop: a record of the OS proxy that cannot be written is only logged
  (`sysproxy.rs:118`); the environment layer has no fallback when its restore
  fails; `watch_gui`'s stop may run beside a start in flight.
- Android: a native sing-box that dies leaves its own rules; the guards are built
  from the settings on disk when they are refreshed, the plan from those at start;
  packages that share a uid can ask for opposite things; what a dead daemon
  installed stays until the next stop.
- Builders: Host headers of ws differ between cores; the hysteria2 pin is not
  carried to Xray; vless with flow and mux differs; SOCKS and HTTP auth needs both
  fields on sing-box; Shadowsocks over grpc, h2 or httpupgrade loses its transport
  and over obfs-local its TLS on sing-box; `geoip:!x` inverts the whole sing-box rule and
  `geoip:!private` becomes `ip_is_private: false`; a `#` line in an IP list is not
  skipped; a rule with domains and addresses is an OR on sing-box and an AND on
  Xray; IPIfNonMatch has no effect on Xray behind the catch-all rule; DNS rules
  ignore ports and transports; a direct rule for a whole app moves its traffic but not
  its lookups; forced uids without a force tun are in no tun.
- Links: an empty fragment unsettles a link; `headerType` is not written for url
  based links; an http proxy link without credentials is taken for a subscription.
- Subscriptions: consent
  outlives a change of the URL; a tick that holds an older entry can drop the
  sticky `encrypted`; a removed subscription's entry stays until another write; the
  entry is written though the state's write failed.
- Tests: a port whose core was just killed may be leased again from a stale look
  at the socket table while it lingers.

## Modelling choices

- The probe's generation number is a bit per probe in flight, `current`: whether
  the number it captured is still the service's.
- A lost link stays lost, as the client of the helper never reconnects; what the
  helper then does with its data path is DesktopPath's `Leave`.
- Steps that commute with everything other tasks do are one step (clearing the
  OS proxy with `note_stopped`, setting it with `note_started`).
- In ServiceLifecycle a core config is a value compared for equality: the builders
  are a function of profile and state.
- Each kind of writer of StateStore is serial, by its lock. A crash is the
  process's: loss of power below the file system is not modelled.
- AppState: fresh ids are distinct and otherwise arbitrary; a sheet changes one
  setting per save and a selection is one profile at a time; `Ends` stands for
  a server of one protocol, so that identity and deduplication key coincide
  except for the name; a rejected edit and a failed write change nothing. A
  manual fetch and the tick may be under way together, one of each.
- DesktopPath: pids are not reused within one start. AndroidPath and Tethering: a
  command of an aborted task lands before the teardown's first (but for the
  settings put, `late`); the user does not change the offload setting himself.
- TestJobs: other programs take no ports, and a block of `TEST_PORT_SPAN` ports is one
  port. There are as many ports as tests: with none free a lease is of the first
  block, whoever has it. The two kinds of test have a limiter
  each and are modelled as one kind.
- SubFetch: time is counted in units of the retry interval, the budget in units
  of its own; redirects, cookies, headers and the kinds of error are left out.
- The cores' evaluation of rules, dialers, balancers and DNS, the kernel's of rules
  and filters, and the systems' own tools are external: operators or actions
  modelled from how the code relies on them.

## Not modelled

Inside modules: the per-protocol core table of a profile (`core.rs:344-347`), which
CoreChoice's PreferredCore leaves out; the refusal of a graph that is too deep
(`provider_graph.rs:1450`); ports that do not parse (`singbox_config.rs:974-982`),
which RouteConfig's rules cannot carry. An edit lost between the two kinds
of writer (`asset_update.rs:219`) has no property: StoreIsSafe and its theorem are of one kind, and
EditSurvives above says what happens with both.

Outside: the status frames of the 1 Hz pusher; asset download, conversion and rollback;
rules inside a block and their order in AppState; the settings nothing refers to; the
port check; sysctls, IPv6 twins of rules, macOS stubs, texts of commands; the
encoding of frames; inbounds, logging and API sections of core configs and the
config of the tun helper; sing-box documents at import (`singbox_import.rs`),
regular expressions of costs, durations, URLs, base64, percent encoding; the
device identity and the cookie jar; migrations (one document in, one out, with
golden files as tests); logging; the frontend's store; transport, views,
packaging.

## Plan

Done: the three modules of the core (ServiceLifecycle, StateStore, AppState), and
around them the helper with its refinement, the data paths, the OS proxy, tethering,
the updater, the tests, the builders and the importers.

Next, most important first:

1. Theorems: ChosenCoreFits of CoreChoice (what a chain resolves to) and NeverCircles of
   ProviderGraph, by LeastOf over the steps of the fixpoint.
2. DesktopPath and AndroidPath shown to implement the bring-up, stop and failure
   steps that ServiceLifecycle assumes of the platform.
3. `AssetUpdate`: conversion, rollback and due times; `StatusPush`: frames out of
   order; `LogBuffer`: trim against append; the frontend's optimistic store.
4. `singbox_import.rs` beside ProviderGraph; the migration ladder against its
   golden files.
