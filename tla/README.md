# OpenQuota: TLA+ models and proofs

OpenQuota is a desktop application (Tauri 2: a Rust process with an async runtime and a
blocking pool, and a Svelte page in a webview) that shows the remaining quota of AI coding
services in the tray and in a panel.  Some twenty providers are polled; their snapshots are
cached on disk; settings, credentials and windows are changed by commands of the page, by menu
items of the tray, by window events and by background tasks, all at the same time.  This
directory holds TLA+ models of the parts whose correctness depends on the order of those events,
the TLC configurations that check them, and proofs checked by TLAPS.

Paths below are relative to `src/src-tauri/src/` for Rust files and to `src/src/` for
TypeScript and Svelte files.

## 1. Inventory

Each part is listed with the state it keeps (S), its operations (O), the parts it talks to (I),
what is hard about it (H) and what makes it correct (P).

**Refresh flight** (`service.rs`).
S: per provider a `RefreshFlightState` behind a std mutex (runner_active, attempt, requested and
completed generation), a watch channel carrying the last completed generation, the provider view,
the instants of the last live and the last failed refresh.
O: `refresh(force)`, `run_refresh_flight`, `settle_completed_generation`.
I: called by the refresh loop, the commands of the page and the tray menu; calls
`UsageProvider::refresh_for_service` on the blocking pool.
H: callers join a call already running, a forced caller must not be content with one that began
before it asked; a call may outlive its 120 s timeout; the lock is released before the watch
channel is written; a runner can be created while the previous one is still about to write.
P: one provider call at a time; a forced refresh is answered with data that is not older than the
request; nobody waits for a generation no runner owes; a late answer never replaces a newer one.

**Provider view and snapshot cache** (`service.rs`, `storage.rs`, `models.rs`).
S: view states; one cached snapshot per provider on disk, bound to an account identity.
O: load at start, `apply_refresh_result`, `clear_provider_data`, `activate_account`, staleness.
I: refresh flight, settings (account records), credential commands.
H: clearing is four steps, each under its own lock, and may interleave with a refresh that is
being applied; a crash between the disk write and the view; an account switch while a call of
the previous account is under way; one of several writes failing.
P: data of an account is never shown as another's; what is on disk after a restart is a snapshot
that was live.

**Refresh loop** (`refresh_loop.rs`, `service.rs`, `policy.rs`).
S: the adaptive interval, rounds without a change, a `Notify`.
O: refresh all, emit, notify, sleep or be woken by a changed frequency.
H: a frequency changed while a round runs; a permit left over.
P: a changed frequency is honoured; every round ends although providers fail.

**Settings store** (`settings.rs`, `storage.rs`).
S: the settings, the enablement, credential, settings and account revisions, active account
identities, two tokio mutexes that serialise commands and credential changes.
O: save from a view of a given revision, reset, reset of one provider, detection plan and its
application, credential changes, account activation, dynamic providers.
I: the page (through commands), the tray menu, window code, refresh flight, detection.
H: a save from a stale view; detection that runs for seconds while the user edits; a credential
changed between planning and applying; disk failing after memory changed.
P: an accepted save changes what its user edited, unless it waited behind another save while the
settings changed; the disk and the memory agree after every command; a detection result never overrides
what the user chose meanwhile.

**Settings controller of the page** (`lib/settingsController.svelte.ts`, `App.svelte`).
S: draft, last state of the server, mutation queue, generation, a pending external state.
O: optimistic edits, saves in order, merge of external states, reload after a failure.
H: answers and events arriving out of order; a failure with edits queued behind it.
P: when everything is quiet the page shows the server's state; an edit is not undone by an older
event.

**Layout of the cards** (`settings.rs`, `lib/CustomizeProviderList.svelte`,
`lib/CustomizeProviderDetail.svelte`).
S: the providers in their order, on or off, the metrics of each with their section and star, the
provider ids any launch has known.
O: normalisation at every load, save and detection; edits; resets.
H: releases that know other providers and metrics run one after another, and end before their probe.
P: what the user switched, starred or arranged outlives them; nothing of the release is missing.

**Settings side effects** (`commands/settings.rs`, `lib.rs`).
S: registered shortcuts, autostart entry, window mode; then log level, theme and tray menu.
O: apply each, roll back those applied when a later one or the save fails.
H: one step of several failing, then a rollback step failing; the program ends in between.
P: a refused save leaves the effects of the previous settings.

**Panel height session** (`window.rs`).
S: active, automatic, generation, the latest height, a channel to a thread that saves after
120 ms of quiet, the stored height.
O: begin, record, finish, set_manual, begin and roll back of an automatic reset.
H: events of the window, a worker thread and two kinds of async commands.
P: the stored height is that of the last finished resize; an automatic panel has none stored.

**Window and popup dismissal** (`window.rs`, `popup.rs`, `desktop_integration.rs`, `lib.rs`).
S: whether the window is shown, focused, floating, whether there is a tray, a generation.
O: open, toggle, close, dismiss 100 ms after losing focus, cancel, change the mode, lose the tray.
H: a delayed dismissal racing a tray click or a reopening; a change of the mode on another thread
while the tray disappears.
P: a panel opened after the dismissal was scheduled is not hidden by it; without a tray the window
stays floating.

**Notifications** (`pacing.rs`, `notifications.rs`).
S: per metric, what was last announced for a reset period.  O: evaluate, prune, roll back after a
failed delivery.
H: views evaluated out of order, a rollback racing another evaluation.
P: one notice per crossing and period; a notice that was not delivered is not noted as given, and is
attempted again when nothing comes in between.

**Account records** (`settings.rs`, `providers/*/accounts.rs`): active identity per provider, a
bounded list of known accounts; P: settings of an account follow the account.

**Credentials** (`providers/claude`, `providers/codex`, `providers/grok`, `providers/cursor`
and other `auth.rs`, `providers/credential_store.rs`, `providers/api_key.rs`).
S: logins in files and the keychain, which a command-line client writes too; the last good usage.
O: load candidates, renew a pair, compare with what was read, store, try the next candidate.
H: the client replaces, renews or removes the login at any time; the server takes the old pair back
when it issues the new one; an answer is lost, a write fails, the program ends in between.
P: usage is shown under the account it is of; a renewal overwrites only what it has renewed; a login that
is lost is told about, or dropped in a way that is known.

**Credential detection** (`providers/detection.rs`, `commands/settings.rs`): probes on threads with
a 10 s limit; P: an unfinished probe counts as unknown, never as absent.

**Pricing store** (`pricing/store.rs`): price lists in files, etags in another, lists bundled with the
release, one background thread; H: the program ends between list and etag, one of several sources
fails, a file cannot be read, a release bundles a later list; P: the prices in use are those of the
files, or later bundled ones, and not older than what the server last confirmed.

**HTTP client** (`http_client.rs`).
S: the proxy chosen for each provider, a cached client per provider, resolvers with the machine's
configuration and script, one script parser for the process.
H: clients share a resolver or not, all share the parser; a choice or the machine changes between
two steps of a request; a script does not load.
P: a request goes the way chosen for its provider, else the way of the machine.

**Reset credits** (`providers/codex/reset_claim.rs`, `lib/ResetCreditsDetail.svelte`): claims keyed
by a request id; H: the answer is lost after the credit was spent; P: one credit per claim.

**Usage logs** (`providers/codex/local_usage.rs`, `providers/claude/local_usage.rs`,
`providers/log_usage.rs`, `storage.rs`).
S: the files of the client's sessions, a cached row of events for each.
O: list, look at size and time, parse, cache, prune, sum up.
H: the client goes on writing, moves and copies files, and begins a fork with its parent's lines.
P: every token is counted, and once.

**Updates** (`updates.rs`, `lib/updateController.svelte.ts`, `lib/updateSchedule.ts`, the effects of
`App.svelte`).
S: the operation that runs, the timer of the page, the time of the last check (a setting).
O: check, note the time, install (one retry of a download), set the timer anew with every change.
H: a change of the settings, a launch or a clock set back between two checks.
P: checks are neither too early nor left out; the page shows what the process does.

**Mappers and parsers** (`providers/*/mapper.rs`, `providers/*/local_usage.rs`,
`providers/opencode`, `providers/sub2api`, `codex_environment`): pure translations of responses and
local logs, large and shallow in state.

**Presentation** (`tray_presentation.rs`, `menu_bar.rs`, `tray_icon.rs`, `backdrop.rs`,
`appearance.rs`, `status_item.rs`, `webview_memory.rs`, Svelte components): drawing and layout.

**Start-up, logging, process and platform** (`lib.rs`, `main.rs`, `logging.rs`,
`child_process.rs`, `provider_environment.rs`, `desktop_integration.rs`, `xdg_autostart.rs`,
`hashing.rs`): wiring, and calls of the operating system.

**Sub2API connections** (`providers/sub2api/mod.rs`, `commands/provider.rs`,
`lib/Sub2ApiConfigSection.svelte`).
S: per slot the connection in the keychain, a marker file and its flag, the cached snapshot.
O: save, clear, delete a connection, refresh with the session of an earlier one; in the form
of the page: name a provider, have its address looked up, save optimistically, leave and come back.
I: settings, refresh flight, storage.
H: a command is half a dozen steps in four stores, each of which may fail; a refresh of the old
connection is under way meanwhile, and its token may be taken back between two requests.
P: a cleared slot stays empty; a snapshot is whole and of one connection; after a command the old connection's data is not passed for new.

## 2. Plan

What several actors do to one piece of state comes first, in the order of what a user loses when
it goes wrong.  Each component is a module of its own with its bounds as CONSTANTS; components
meet through what they guarantee each other (a save "that passed the revision check", a flight
"with at most one follow-up") rather than by one product of all state spaces.

| module | models | checked by | proofs |
|---|---|---|---|
| `CoalescedCalls` | abstract: a server that answers forced requests by calls made one at a time | `MCRefreshes` | |
| `RefreshFlight` | refresh flight of one provider; implements `CoalescedCalls` | `MCRefreshes`, `MCProgress` | `RefreshFlight_proofs` |
| `ProxyRouting` | clients, resolvers and the script parser | `MCRefreshes` | `RefreshFlight_proofs` |
| `SettingsStore` | settings, revisions, accounts, the queue of the page, trays, restarts | `MCSettingsStore` | `SettingsStore_proofs` |
| `SettingsPage` | the controller of the page before the process | itself | `SettingsPage_proofs` |
| `CredentialDetection` | plans, probes, credential commands | `MCLaunch`, `MCCredentialDetection` | `Launch_proofs` |
| `UsageLogs` | the logs of Codex and their scan | `MCLaunch` | `Launch_proofs` |
| `ClaudeLogs` | the copies of a message in the logs of Claude | `MCLaunch` | `Launch_proofs` |
| `PanelHeight` | the panel's height and its reset | `MCDesktop` | `Desktop_proofs` |
| `DesktopWindow` | popup, floating window, tray, dismissals | `MCDesktop` | `Desktop_proofs` |
| `SettingsEffects` | shortcut, autostart and mode of a save | `MCDesktop` | `Desktop_proofs` |
| `PaceNotices` | notices of one quota | `MCDesktop` | `Desktop_proofs` |
| `Layouts` | providers and metrics through releases | `MCDesktop` | `Desktop_proofs` |
| `UpdateCheck` | the timer of checks, checks and installations | `MCDesktop` | `Desktop_proofs` |
| `Sub2ApiConnection` | a connection beside its flight, cache and restarts | `MCProviders` | `Providers_proofs` |
| `CliLogin` | logins, their client and the server; extended by the next three | `MCProviders` | `Logins_proofs` |
| `ClaudeLogin`, `CodexLogin`, `GrokLogin` | a refresh beside the client | `MCProviders` | `Logins_proofs` |
| `CursorLogin` | the same, of values read one by one | `MCProviders` | `Logins_proofs` |
| `AntigravityLogin` | the editor's server, the keychain, and a cached token | `MCProviders` | `Logins_proofs` |
| `CopilotLogin` | several logins, and the organisation that is billed | `MCProviders` | `Logins_proofs` |
| `Sub2ApiSession` | a kept session, pages of accounts and their requests | `MCProviders` | `Providers_proofs` |
| `Sub2ApiForm` | the form of a connection: drafts, lookups, optimistic saves | `MCProviders` | `Providers_proofs` |
| `ResetClaim` | a claim from the page to the server | `MCProviders` | `Background_proofs` |
| `PricingStore` | price lists, etags, bundled lists, failures, launches | `MCProviders` | `Background_proofs` |
| `RefreshLoop` | rounds, interval, wake-up | `MCProgress` | `Background_proofs` |

What is left, in this order:
1. An abstract specification of a page with a queue over one store, with `SettingsPage` and
   `SettingsStore` as its implementations: the two meet today through what they model in common.
2. The logins and logs of other providers.

## 3. The modules

**`RefreshFlight`.**  A caller is one run of `refresh()`, a runner one task of
`run_refresh_flight()`, and the two are separate processes because a caller may be dropped while
its runner goes on.  `JoinAsFirst`, `JoinWhileDraining` and `JoinAttempt` are the three ways
through the critical section of `refresh()`.  The runner's stages are the points between which it
holds no lock: `StartAttempt`, `TakeAnswer` or `TimeOut`, `ApplySuccess` or `ApplyFailure`,
`Stamp`, a `Settle...` under the lock, and a `Send...` after it.  The send is apart from the settle
because the code releases the lock in between.  The worker thread answers on its own, in time or
not.  What a snapshot holds is the version of the remote account it saw; the two windows (freshness
and back-off) are flags that may expire at any time.

**`CoalescedCalls`** promises three things of such a server without runners, generations or a watch
channel: calls do not overlap, what is published never gets older, and a caller is answered with a
value no older than its request, or with a failure, or while the server is still busy.
`RefreshFlight` implements it by the refinement mapping at its end (`ServerSpec`).

**`SettingsStore`.**  A page writer is one command of the page.  Its snapshot is what the page showed
when the user asked; it waits in `queue` (`#mutationQueue`) and is sent, when the one before it has been
answered, with the revisions of the view the page took last (`known`, `#serverState`).  So a snapshot may
be older than the revisions it carries, as in the code.  `Refuse` drops what waits behind a refused
request, `Reload` reads the settings again, `PageLearns` is an event or a focus refresh.  A tray writer is
a run of `apply_tray_setting`, which reads snapshot and revisions one after another.  `Activate` is
`activate_account()`, called by refreshes; `EditInPlace` the commands that change current settings under
the write lock.  `Restart` ends the program anywhere.  The settings are a function of fields, the name of
the card among them.  `changes` counts what the page did not save itself, `shownAt` how much of it the page
shows, and `unsaved` holds the user's edits since: a save is `Aware` when the view whose revisions it
carries tells of nothing its snapshot lacks.  `given` and `faithful` are history: the name last given to
each account, and whether an outdated name has been stored by the tray or by such a queued save.

**`CredentialDetection`.**  A detection takes a plan (a copy of both revisions), its probes answer
or reach their limit one by one, and `Apply` is `apply_credential_detection()`.  `Begin`, `Write`
and `Reconcile` are the three stages of a credential command between which it holds only the
credential mutex.  Reset takes two steps under the command mutex.

**`SettingsPage`.**  One turn of the page's event loop is one step.  The process is a revision and
two fields: what the page edits and what others change.  Messages wait in sets and are received in
any order, as answers and events are produced by different tasks.  `Enqueue`, `ReceiveAnswer`,
`ReceiveReload`, `ReceiveEvent`, the focus refresh and the begin, the moves and the end of a drag
are the functions of the controller and of `App.svelte` that touch it.

**`PanelHeight`.**  The main thread runs events and synchronous commands one after another, but
the atomics it reads outside of the persistence lock are steps; `main` says where it is.  The worker
holds one height at a time.  The reset of all settings begins, saves (or not) and rolls back on
another thread.

**`Sub2ApiConnection`.**  The steps of the three commands in their order (`ChangeKeychain`,
`SetConfigured`, `Reconcile`, `DeleteSnapshot`, `ResetView`), any of which may end the command; and
the flight reduced to what `RefreshFlight` shows it to be for one provider: an attempt, at most one
follow-up, a draining worker.  `Restart` keeps what is stored and loads the view from the cached
snapshot if its identity fits.

**`DesktopWindow`.**  The main thread handles events, clicks and dismissals one at a time; `losing`
is the point between reading the mode and taking the token of a dismissal.  A change of the mode
runs on the thread of its command and interleaves with the events call by call.

**`SettingsEffects`.**  The steps of `save_app_settings_inner` in their order, each of which may fail,
and those that take them back, which may fail too.  `spoilt` is history: the parts whose rollback or
set-up failed.  `Relaunch` ends the program anywhere.

**`PaceNotices`.**  `Evaluate` is the transition of one metric from the quota's use, its time and its
state; deliveries and rollbacks of refreshes that overlap come in any order.

**`Layouts`.**  A release is a sequence of providers, a fallback set and the metrics of one provider;
`Launch` is `new_deferred()`, `Probed` the result of its probe, `Save` any edit through
`update_internal()`.  `Entries` takes the entries of a list at some places in their order, as the loops of
`normalize()` and `normalize_metrics()` do.  `switched`, `starred` and `arranged` are history: what the
user last chose, and which providers he put before which others, as far as every release launched since
could keep it.

**`UpdateCheck`.**  `Replaced` is the effect of the page that sets its timer whenever the settings are
replaced, `Fire` the timer and then the interval it starts; `operation` is what holds the lock of the
process.  The time of the last check goes to the disk on its own (`SaveEnds`), and what was not saved is
lost with the program.  `since`, `tried` and `early` are history.

**`CliLogin`, `ClaudeLogin`, `CodexLogin`, `GrokLogin`.**  A login is an account and the number of its
pair; the server accepts a set of pairs and takes a pair back when it renews it.  The client does what
its user likes between any two steps of the worker.  Each provider's module has its own order of
looks, checks and writes.  `late`, `explained`, `silent` and `w.untold` are history: what the client
wrote between the worker's last look and its write, losses that a warning or an error told of, losses
that as refreshes go nobody is told of, and what the refresh under way has dropped so far
(`TryNext`, `LoadAgain`, `ShowLastGood`, `RenewalFails`).  A message counts only if it reaches the user:
`EndsInUsage` tells of the login whose usage is shown, and of no other.

**`CursorLogin`.**  The tokens and the membership are read one value at a time from two places
(`Read`), so what `SelectAuthState` chooses from may be of two accounts.  A renewal brings an access
token only, which `SaveAccessToken` writes back unchecked.  `overtaken` is history: the places the
client wrote since their refresh token was read.

**`AntigravityLogin`.**  A refresh asks the server of the editor first; `CollectCandidates` puts the
token of the keychain before the one an earlier refresh cached, which counts only for the refresh token
it was renewed with (`Usable`).  Files that cannot be written or removed stay as they are.

**`CopilotLogin`.**  `found` is the login of each place, tried in order (`PassOver`, `TryLogin`).  For a
seat that an organisation manages, `AskRemembered`, `FetchOrgs` and `AskOrg` look for the one whose
billing the account may read, within a budget of time that may end before any request; `flawed` says
that an answer was missing.  `stirred` is history: whether a login or a right changed during the refresh.

**`Sub2ApiSession`.**  A scope is what `session_scope()` tells apart.  `ListAccounts` reads a page,
`FetchUsage` and `FetchStats` are the two requests of one account, and each of the three may be refused
once and tried again with a new login (`Refused`).  Meanwhile commands store other connections, tokens
are taken back, and the server lists other accounts; `changed` is history of the latter.

**`Sub2ApiForm`.**  The draft of the chosen upstream stands for the fields.  A lookup is `current` as long
as `providerResolution` has not moved; a call keeps what it was asked with, and what the form showed
before, as the closure of its promise does.  A form that was left leaves its calls behind (`Abandoned`).
`astray` is history: calls met, or a command failed after it had stored something.

**`ResetClaim`.**  The page keeps a request id until it has an answer; the service matches a credit
once per id; the server spends one.  Answers get lost and the detail is closed at any time.

**`PricingStore`.**  One background thread per due set of sources; a list is a version number, in the
order of the dates, an etag the version it belongs to.  `Load` is `load_pricing()`: of each source the
file, or what the release bundles if there is no file, if it is damaged, or if the bundled supplement is
later (`Loaded`).  `Reopen` starts the same or another release from the files.  `unread` is history: the
sources whose file the last load could not take.

**`RefreshLoop`.**  The loop and a refresh of the page go through the same stages of a round; the
command that changes the frequency stores it, resets the count and notifies in separate steps.

**`UsageLogs`.**  A line is its time and what it says of tokens; the client uses tokens, reports again,
begins tasks, forks, archives and copies sessions.  `ParseFrom` goes through the lines of a file as
`parse_jsonl` does, each with what is known from those before; the scan lists, looks, reads and prunes
file by file, and `Turn` is the order in which `discover_session_files` lists them.

**`ClaudeLogs`.**  One step reads a line of any of the files and runs one round of `deduplicate()` over
what it has kept, with the two maps it looks events up in; the order of the lines is open, because that
of the paths says nothing about it.  `Expected` says what should be counted of all lines read.

**`ProxyRouting`.**  A request reads the choice, takes or builds its client, and looks up its way: under
the mutex of its resolver from `Look` or `LookAgain` on, and under that of the parser while a script
is evaluated.  At launch the shared resolver may be warmed up (`WarmUp`): that reads the configuration
whenever it was read before, and does not note when.  `choices`, `configurations`, `recent` and `denied`
are history.

## 4. Runs

`MCRefreshes`, `MCProgress`, `MCLaunch`, `MCDesktop` and `MCProviders` hold several components that
share no state: `part` is chosen initially and says which one moves, so the state spaces add up and
each component is explored as if it were alone.

| run | what it asks | bounds |
|---|---|---|
| `flight_safety` (`MCRefreshes`) | of the flight: overlap, currency, monotonicity, the inductive invariant, refinement; of the requests: their way | 2 callers, 2 runners, 3 generations, 2 account versions; 2 providers, 2 proxies to choose, 2 requests after a warm-up or none, the warm-up only where nothing was chosen before it, 1 choice saved after the first, 1 change of the machine, 1 second |
| `flight_progress` (`MCProgress`) | what must happen in the flight, with calls that may hang; the loop's wait and its changed frequency | 2 callers, 2 runners, 2 generations, 1 version (no answer's progress depends on it); 2 rounds without a change, 3 changes of the frequency |
| `flight_stuck` (violation) | whether every caller returns | 2 callers, 2 runners, 3 generations, 1 version |
| `settings_store` | the invariant (queue, revisions, snapshots, durability), names, and what a save of the page changes | 2 requests of the page at a time, 1 tray, 2 accounts, 2 fields of 2 values, 3 changes, 2 launches; a tray setting begun after the last change is not followed (`TraysInTime`) |
| `settings_tray` (violation) | whether a tray setting loses an update | 2 values, 1 launch |
| `detection_revisions` (`MCLaunch`) | what the revisions of a detection protect; whether the scan of the logs counts each token once, and each message of Claude | 2 providers, launch and one reset, 2 switches, 1 command begun; 2 sessions, 3 writes after the first two, 2 seconds, 2 scans; 2 requests, 2 counts of tokens, 4 lines |
| `detection_choices` (violation) | whether a choice of the user can be undone | the same, all credentials deletable |
| `page` | queue, drafts, convergence | 2 edits, 1 change by others, 1 reset or drag |
| `page_others` (violation) | whether a change of others can be undone | 2 edits, 1 change by others |
| `desktop` (`MCDesktop`) | the stored height and its rollback; dismissals and the lost tray; what a refused save leaves; notices; the layout through releases; when updates are looked for | 3 heights, 5 generations, 2 heights waiting; 5 tokens, 2 dismissals; 2 shortcuts, 3 saves; 2 overlapping refreshes; 2 releases, 4 launches, 2 edits; an interval of 2 ticks, 3 ticks |
| `providers` (`MCProviders`) | a Sub2API slot, its session and its form; the logins of Claude, Codex, Grok, Cursor, Antigravity and Copilot; claims; price lists | 2 saves, 2 refreshes pending, 2 launches; 1 command of the form, 2 calls and 1 lookup under way, 1 name for each upstream; 2 connections, 3 tokens, 2 accounts of the server on pages of 1; 2 accounts, 2 places, 4 pairs, 2 organisations; 2 credits, 2 expiries, 3 request ids; 2 sources, 2 versions published and 2 bundled, the first release with the oldest, 2 launches |
| `sub2api_launch` (violation) | whether a launch shows a cleared slot's data | 1 save, 2 launches |

Why the bounds are enough to meet the interesting cases: two runners exist only while one has
released the flight and not sent yet, which needs two; three generations are an attempt, its
follow-up and a new flight.  A lost update needs a snapshot, a change between, and a save under the
revision of after it: two requests of the page, the second of which waits for the first, and one tray give
all orders.  Two versions on the server and a bundled list that is older or later meet every preference of
a load; two launches are two releases.  Two proxies and a choice before the first request
are a change from one to the other under a cached client.  A
detection overtakes another with two plans, and the fallback set matters with two providers of
which one is in it.  A page needs an edit queued behind another one, a change by others between the
two, and a draft.  A height in the channel, one at the worker and one being recorded are three.
Two saves are an old connection and a new one, with or without a clear between them.  A call of a form that was
left and one of the next form are two.  A renewal is overtaken by one
of the client: two pairs to begin with and two more.  Four launches take a release away, bring it
back and take it away again.  Two sessions are a parent and its fork, two seconds a fork in the
second of its parent's task and one after; two scans are one that fills the cache and one that uses
it.  Two requests over two providers hold the parser and the client at a time, or the second finds what
the first left.  An interval of two ticks and a clock that reaches three hold a check, the next
one, and a clock set back between them.  The mutants of `PROJECT.json` show each property failing within these
bounds when the code is changed.

Deadlock is not checked: every model stops at its bounds, or where the user does no more.

Fairness.  `HangingSpec` of the flight asks weak fairness of each caller's and each runner's own
steps: they are tasks of a multi-threaded runtime that are woken by a timer, a finished worker or a
watch channel, and take a std mutex nobody holds across an await.  It asks nothing of the provider
calls: the timeout is there for the one that never ends.  `DrainingEnds` assumes in its own
statement that every call ends (`WorkersEnd`).  `FairSpec` of the page asks that messages under way
arrive and that the process stores or refuses what it was sent; the user and other writers owe
nothing.  `UpdateCheck` takes for granted that timers fire in time.  `MCProgress` asks of each part what its own module does.  `RefreshLoop` asks that a task of the runtime that can go on does, the loop and the command
each; that a timer fires is not asked, which is the point of `FrequencyTakenUp`.

Symmetry is used over callers, runners, values and accounts that no definition tells apart, and
never in a run with a liveness property.

## 5. Proofs

All are checked for every value of the constants, under the assumptions the modules name, without
any assumption on bounds but that they are naturals.  The assumptions say what a constant is: that a
page of accounts holds at least one, that a release has a provider and none of its providers and metrics
twice (`ReleasesAssumption`), that the interval of updates and the expiries of a quota are
naturals, that a client of the logs reports totals, the last usage or both (`LaunchAssumption`), that "nobody" is no refresh and "no organisation" no organisation, that a resolver has a
name of its own.  One of them is a bound: there are as many names of resolvers (`OwnResolvers`) as
resolvers may be made.

Each module of proofs has an invariant for each part that moves alone, an inductive strengthening of
what the run checks, and one lemma per action (or per group of actions that disturb the same
conjuncts).  `StepOfPart` and its like say that a step of a composition is a step of the part explored.

- `RefreshFlight_proofs`: `FlightInv` is inductive, and `OneCallAtATime`,
  `ForcedAnswersAreCurrent`, `WaitersAreOwed`, `SnapshotNeverRegresses` and the refinement
  `ServerSpec` follow from it.  The properties alone are not inductive.  What carries them is that one
  runner owns the flight (`OneOwner`), how the three counters stand at each stage
  (`GenerationsAgree`: while an attempt is made, it is number `completed + 1` and at most one more is
  requested), and that an attempt that could answer a caller began after it asked (`CallersServed`).
  The other part of `MCRefreshes` is the way of requests: what a request goes by is a choice that was in
  force while it asked (`ChoiceIsTaken`); one request at a time holds the mutex of a resolver (`OneHolds`),
  looks at a configuration it noted itself and has the parser for its own script (`HolderKnows`); and what
  a resolver remembers goes with its configuration, which is of this second unless it is due
  (`CacheIsWhole`, `CacheIsRecent`); hence `RoutesAsChosen`.
- `SettingsStore_proofs`: `StoreInv` is inductive.  The heart is two facts: every change of the settings
  raises the revision, so a stamp with the current revision tells of every change (`StampsAreTrue`); and
  where the page shows every change, what it shows, and each snapshot in its queue, is the settings of the
  process with the user's edits (`SnapshotsAreViews`), also after earlier snapshots of the queue were
  stored, since later ones hold their edits (`EditsAccumulate`).  They give `PageSavesApplyTheirEdits`, and
  with `GivenNamesRecorded` the names.  That property speaks of the saves that are `Aware`; of the others
  nothing of the kind is true (section 6).  The trays are included: they, and queued saves that are not
  `Aware`, are the reason for the history variable `faithful`, as they can store an outdated name.
- `SettingsPage_proofs`: no view on its way is ahead of the process (`NoneAhead`), sequence numbers rise
  along the queue (`Numbered`), and a refusal divides the queue in two: what was queued before it has an
  older generation and a number up to `latestAtFailure`, what came after has the current one
  (`CancelledPart`).  So what a reload leaves is a suffix (`LiveIsLeft`), and `QueueInv`,
  `PageMovesForward`, `CancelledNeverStored` and `LastEditStays` follow.
- `Launch_proofs`: while a detection runs, its revisions equal the current ones exactly
  as long as no command has begun and no other detection has changed anything (`RevisionsTellChanges`);
  the three action properties follow.
  Of the logs, as long as no fork is blurred: the events that all files say together are as many as the
  tokens spent (`SaidOnce`); a session knows the totals it goes on from, and its gate is open once it has a
  task of its own (`ParseFits`); a row of the size of its file holds what the file says, also when it was
  read at a later size than it is stored under (`RowFits`); and while a scan is quiet, what a session says
  has been found or is to be found (`ScanFits`).  That a fork says nothing its parent did not needs two
  readings of each file in the invariant: as it is (`Told`), and as a fork without a time of its own reads
  its copy (`Retold`).  `ParseFrom` is recursive; what the proof needs of it is how one line more at either
  end is read (`ParseLast`, `ParseFirst`) and that nothing is counted behind a gate that stays closed
  (`ClosedReplay`).  Each is shown of the chain of what is known after every line, by the least place at
  which it could go wrong, as the naturals are well founded.
  Of the copies of a message: the places of what is kept are known by key and by message, a message that
  only a side chain tells is kept once, and every event that was read has one that speaks for it
  (`KeptRight`); so what is kept is paired with what should be counted, and `TokensCountedOnce` follows.
- `Desktop_proofs`: a dismissal's token is never ahead of the guard, and equal to it only while no request
  came after the loss of focus (`TokensAreOld`), which is `DismissalSpares`; at which stages of a change of
  mode the window may not be floating (`FloatsThroughout`) for `WithoutTrayFloating`; and how far each part
  of the desktop is ahead of the settings at each step of a save (`FollowsSteps`) for
  `DesktopFollowsSettings`.  The heights on their way to the worker are ordered by generation (`InOrder`),
  so the last that was sent decides: if it is still valid it is the height chosen last, and if not, no
  other is and the disk has the last choice already (`NewestDecides`); hence `HeightInv`,
  `LastChoiceIsStored` and `RollbackRespectsChoices`, for a channel of any length.  `UserIsTold` is of two
  parts.  Of the updates: while there is a timer it runs out no earlier than an interval after the last
  check and no later than one after the last try (`TimerIsDue`), and the time of a check that was not lost
  is remembered (`TimeIsKept`).  Of the notices: what has fired was told, or somebody is about to deliver
  it or to take it back (`FiredIsAccountedFor`), and what was taken back will be found again by the next
  evaluation (`OwnerMayRepeat`, `MissedIsOpen`).
  Of the layout, for any sequence of releases: a list normalised for a release has its entries once, those
  of before in their order (`EntriesOfList`, by the rank of each place among those taken), and keeps the
  stars of the first ones (`OldStarsFirst`); a choice of the user is about a provider that the program
  knows and that no probe may turn on (`SwitchesOutlast`), or a metric the release has and that may be
  starred (`StarsOutlast`).  Hence `ChoicesOutliveReleases`.
- `Background_proofs`: an etag is never ahead of its file (`EtagsBehind`), a file is at least the version
  last confirmed (`FilesConfirmed`), and a snapshot that is not what a load takes of the files and the
  bundled lists is owed a rebuild by the thread at work (`RebuildOwed`, `PricesLoaded`), but for files the
  last load could not take; hence `PricesAreCurrent`.  For the loop: from the end of a round to the
  next wake-up, the interval is the one the frequency asks for, or a permit lies there, or a command is on
  its way to leave one (`IntervalIsAsked`); hence `WaitsAsAsked`.  For claims: a request id consumes the
  credit it was matched with (`SpendsItsMatch`), a new claim gets an id no credit was spent under
  (`FreshIds`), the claim that is pending has the id the page remembers (`PendingIsKept`), and what was
  told of the last answer stays true (`ToldTheTruth`); hence `OneCreditPerClaim`.
- `Logins_proofs`: pairs of tokens are numbered as they are issued, no pair is at two places, and what is
  held or was read of one place is not what another has (`OfOnePlace`).  So a pair that a renewal uses up
  is the one at its place or an earlier one, and a worker that holds the new pair, or has warned that it
  could not store it, will tell of the loss or has noted that it drops it (`LossesExplained`).  What a
  write replaces is what the comparison before it found there, or what the client wrote since
  (`ComparisonStands`, `ReadingStands`): the proof of `KeepsLogins` rests on the comparison, and the
  mutants that leave it out break the property.  The steps of clients and workers that Claude,
  Codex and Grok have in common are lemmas, cited by each.  What is shown is of the account it was fetched
  for because the login that is held is the one that was read, or its renewal (`LoginsAreOwn`,
  `TokensAreOfTheLogin`); for Cursor, because values of two accounts meet only at places in `overtaken`;
  for Copilot, because an organisation that is passed over has no right or did not answer
  (`BillingIsRight`).  `KeepsLogins` follows for the four that renew.
- `Providers_proofs`: the session of a Sub2API connection lists the accounts page by page, and what is known
  is the list up to the end of a page as long as the list stands (`PagesAreKnown`, `AccountsAreRead`).  In
  the form, a command that has met no other call is the only one under way (`AloneCommand`), and
  `FormIsOnCourse` says what the form may show before its answer.  With the logins these are
  `ShowsOwn` and `LossExplained`.  Of a connection: an attempt under way, when no command is changing
  anything, has the stored connection or will be followed by one that reads it (`AnswersAreAwaited`); a
  slot that was emptied has no attempt with a connection and gets none before a save (`CleanSlot`).

Only model-checked:
- everything temporal beyond invariants and action properties (`EveryGenerationCompletes`, `DrainingEnds`,
  `Converges`, `FrequencyTakenUp`): liveness is out of the prover's reach.

Every invariant and every action property of the passing runs is a theorem.

## 6. Where the code and its promises differ

Five have a run that finds them.
- *A caller of `refresh()` may wait on* (`service.rs:374`, run `flight_stuck`): the watch channel is
  written after the flight was released, so a later runner's higher generation may be overwritten by
  the earlier one's.  The caller is released by the next refresh that completes its generation.
- *A tray setting undoes a save* (`commands/settings.rs:57` and `:101`, run `settings_tray`).
- *The detection of the launch enables what the user disabled meanwhile* (`settings.rs:500`, run
  `detection_choices`).
- *A queued edit of the page undoes a change of another writer* (`commands/settings.rs:288`, run
  `page_others`): the answer to the save before it carries a revision that is newer than its snapshot.
- *A launch shows data of a cleared Sub2API slot* (`providers/sub2api/mod.rs:1088`, run
  `sub2api_launch`): an answer of the old connection that arrives late is stored under the identity
  of unconfigured slots.

Others were met while modelling, and the properties are stated around them.
- A save of the page that waited in the queue is sent under the revision of an answer that is newer than
  its snapshot (`settingsController.svelte.ts:125`).  It undoes what the tray, a background command or a
  reset of the page itself changed in between: the time of a check for updates, saved while a reset is
  under way (`App.svelte:698`), brings all settings from before the reset back.  If an account was activated
  in between, its revision is known too, the name of the account before is accepted
  (`settings.rs:380`), and recorded for the new one.  `PageSavesApplyTheirEdits` speaks of the other saves,
  and `NamesFollowAccounts` of the time until that happens (`faithful`); the run `page_others` finds
  the lost change.
- After a restart nobody knows which account was active last: the name on the card is given to the account
  of the bare provider id if that is activated first and was never given one (`settings.rs:243`), and a card
  renamed while no account is active is named anew when one with a recorded name becomes active.  Names
  that were given to an account come back with it (`NamesFollowAccounts`).
- A credential command records its mutation before it writes the key (`commands/provider.rs:214`).
  A plan taken in between has the new revision, its probe may still miss the key, and its
  application marks the provider as absent after the command has marked it as detected.
  `LaterCommandsWin` therefore speaks of commands that begin after the plan.
- The answer of a focus refresh (`settingsController.svelte.ts:75`) is taken although a drag has begun
  since, and replaces the draft on the screen.
- A drag that is cancelled puts back the settings of its start, also when an event has brought newer
  ones meanwhile; they are shown under the newer revision until the next change
  (`App.svelte:279`).  `Converges` excepts runs with drags.
- When the refresh after a save of a Sub2API connection fails, the snapshot of the connection before
  it may stay on the screen under the error message, and is loaded without one by the next launch.
  `OldDataOnlyUnderError` speaks of live data for that reason.
- Window: when the tray goes away between the calls of one change of the mode, the change may leave a
  popup without a tray (`crossed`); and a popup that becomes floating between the look at its mode and
  the token of its dismissal is dismissed once (`window.rs:960`).
- Prices: a file that cannot be read or decoded is passed over for the bundled list, while its etag stays
  and the server goes on answering that nothing was modified; the older prices stay in use until the
  list changes (`pricing/store.rs:368` and `:317`).  `PricesAreCurrent` excepts such a file (`unread`).
- Notices: when the notice that fails to be delivered also began a new period, the rollback restores
  what was noted for the old one, and the notice is not offered again; rollbacks of overlapping
  evaluations can lose or repeat one (`pacing.rs:212`).  `NoticesAreTold` excepts both.
- Claude: the usage of another login may be shown when the account and the login disagree at the
  moment they are loaded, or change twice during one refresh; a login that the client stores between
  the check and the write is overwritten; when the client changes the other place while a pair is
  renewed, the new pair is discarded and the first login is lost without a word
  (`providers/claude/auth.rs:167`), as the refresh loads again and says nothing of the first attempt.
- Claude: the warning that a renewed pair could not be stored is dropped when the last good usage is shown
  instead of an answer (`providers/claude/mod.rs:357` and `:410`): the user is not told that the login on
  disk is worth nothing any more.
- Claude, Codex and Grok: when a login fails and a later one serves, the warnings and the error of the first
  are dropped (`providers/claude/mod.rs:262`, `providers/codex/mod.rs:206`, `providers/grok/mod.rs:161`).
  `LossExplained` counts these losses as `silent`, and excludes every other way not to tell.
- Grok: a newer login of the same entry is overwritten, a renewal ahead of time that fails or whose answer
  is lost is only logged, and what the client writes to another entry between the reading and the writing
  of `save()` is lost (`providers/grok/auth.rs:151`).  When the file is gone, `save()` writes the document
  of the start, and with it the entries of other accounts that were removed (`providers/grok/auth.rs:155`).
  `GrokKeeps` excepts both.
- Cursor: the client may store another login between the reading of the refresh token and the writing of
  the renewed access token, which is not checked (`providers/cursor/auth.rs:52`).  The tokens of two
  accounts then stand side by side, and the usage of the old one is shown until its token runs out.
  `CursorKeeps` excepts the places in `overtaken`.
- Antigravity: the plan is asked after the quotas, and is another account's when the editor switched in
  between (`providers/antigravity/mod.rs:117`, `moved`).
- Copilot: an organisation whose request fails for the moment is passed over for the next one, which is
  then the one remembered (`providers/copilot/mod.rs:273`); a remembered one is kept when the account
  changes, as long as the new account may read it too (`providers/copilot/mod.rs:217`).
- Sub2API: accounts that the server adds or removes between two pages may be missing from a snapshot that
  counts as complete (`providers/sub2api/mod.rs:593`, `changed`).
- The form of a connection: the answer to its load resets whatever was typed before it came, and one that
  is older than a save shows the connection before it; a command that fails after it has stored
  something leaves the old connection on the screen (`lib/Sub2ApiConfigSection.svelte:252` and `:342`,
  `astray`).
- Closing the detail during a claim forgets its request id: the next claim is another request
  (`lib/ResetCreditsDetail.svelte`).
- Layout: a program that ends between the first launch of a release and the result of its probe never
  turns the new providers on, because they are known by then (`settings.rs:120`); a fresh install that
  ends there keeps the fallback set.  A provider that a release lacks comes back turned off and last; a
  metric comes back with its default star.
- Logs: a fork made in the second in which its parent's task began, with rewritten times, has its
  parent's tokens counted again: the log tells of a task to the second only
  (`providers/codex/local_usage.rs:362`, `blurred`).
- Updates: while the settings cannot be saved, every check is followed by another one ten seconds
  later, as the time noted is taken back (`App.svelte:136` and `:698`); after a failed check, any
  change of the settings brings the next one in ten seconds; and while a check hangs, the Install
  button does nothing (`lib/updateController.svelte.ts:35`).
- Proxies: a script behind an unchanged URL is loaded again only after a failure or a change of the
  configuration (`http_client.rs:529`); a script that does not load, with no other proxy, means
  direct; decisions are kept for each URL as long as the resolver is.

## 7. Not modelled

Poisoned locks, overflow of 64-bit revisions and generations, and a full disk that accepts part of
a transaction are left out everywhere.  Payloads are versions or members of small sets: what a
mapper makes of a response is not modelled, nor how settings older than schema 3 are migrated.

The components of section 1 without a module, or with part of one, are listed with their reason in
`PROJECT.json`:

- *Mappers and parsers*, by far the largest part of the code: each is a pure function from a JSON
  document or a log to a list of metrics, where a mistake is a wrong field name or unit.  A model would
  repeat the function over the same few fields, and have nothing to compare it with.
- *Presentation* and the Svelte components: drawing, placement, sizes and wording.
- *Start-up, logging and platform*: wiring and calls of the operating system; what they order (the
  detection of the launch, the loss of the tray, the restoring of effects) is in the modules of the
  parts they start.
- *Updates*: events about the progress of a download, wording of failures, and packages that cannot
  update themselves.
- *Other providers*: their refreshes are a request and a mapper; those that renew a login a client shares are
  the ones modelled.
- *Providers' logs* other than those of Codex and Claude, prices of models, tiers and the window of 30 days.
- *Proxies*: rules for hosts, variables of the environment, credentials (of the warm-up by
  `warm_credentials_for_url()` only what it does to the resolver is modelled, not the keychain it reads), and
  systems other than macOS.  "No proxy" is one of the proxies to choose.

About a third of the implementation's lines are unit tests inside the source files, and more than
a third are mappers, parsers and drawing; the lines named by `map` lie in what remains.
