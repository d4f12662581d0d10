--------------------------- MODULE SettingsStore ---------------------------
(***************************************************************************)
(* SettingsService (settings.rs) and the queue of the page that feeds it   *)
(* (settingsController.svelte.ts): full snapshots of the settings are      *)
(* saved by the page and by the tray menu under a revision check, accounts *)
(* are activated by refreshes, background commands edit in place, and the  *)
(* name of the visible card follows the active account of one provider.    *)
(*                                                                         *)
(* A page writer is one command of the webview (save_app_settings and the  *)
(* reset commands).  Its snapshot is what the page showed when the user    *)
(* asked; it waits in the queue of the page and is sent, when those before *)
(* it have been answered, with the revisions of the view the page took     *)
(* last.  A tray writer is one run of apply_tray_setting: it reads the     *)
(* snapshot and the two revisions one after another.  Both then take the   *)
(* command mutex and save under the write lock.  Everything done under the *)
(* write lock is one step.                                                 *)
(*                                                                         *)
(* A view that the process reads (the answer of a save, a reload, an event *)
(* or a focus refresh) reaches the page in the step that reads it: what    *)
(* the user edits between the reading and the arrival touches the page     *)
(* only, and may be taken to have come before.  A drag is the one edit     *)
(* made when it is dropped; drags that are cancelled, or during which the  *)
(* page saves, are left to SettingsPage; a reload after a refusal does not *)
(* fail.  The settings are a function of a few fields; the field "name" is *)
(* the custom name of the provider's card.  Names are already trimmed;     *)
(* proxies and the side effects of a save belong to other modules.         *)
(***************************************************************************)
EXTENDS Integers, Sequences

CONSTANTS Fields,       \* fields of the settings, "name" among them
          Values, Default,
          Accounts, NoAccount,
          Pages, Trays, \* writers
          NoWriter,
          MaxRevisions, \* bound: changes of the settings in all launches
          MaxLaunches   \* bound: launches of the application

ASSUME StoreAssumption ==
  /\ "name" \in Fields
  /\ Default \in Values
  /\ NoAccount \notin Accounts
  /\ Pages \intersect Trays = {}
  /\ NoWriter \notin Pages \union Trays
  /\ MaxRevisions \in Nat /\ MaxLaunches \in Nat

Writers == Pages \union Trays
Settings == [Fields -> Values]
(* Some fields with the values they are given.                             *)
Patches == UNION {[F -> Values] : F \in SUBSET Fields}
(* The revisions of a view, and how many changes made elsewhere it shows.  *)
Stamps == [rev : Nat, acc : Nat, at : Nat]

VARIABLES
  settings,     \* the settings behind the RwLock
  disk,         \* the settings stored on disk
  records,      \* provider_account_records: card id and custom name
  active,       \* active_account_identities of the provider
  settingsRev,  \* settings_revision
  accountRev,   \* account_revision
  changes,      \* changes that no save of the page made (history variable)
  command,      \* holder of the command_mutation mutex
  pc,           \* where each writer is
  req,          \* what each writer asks for
  queue,        \* requests of the page not completed (#mutationQueue)
  shown,        \* settings the page shows (state.settings)
  shownAt,      \* changes when the page took those settings (history variable)
  unsaved,      \* the user's edits since then (history variable)
  known,        \* the view last taken (#serverState)
  launches,     \* launches so far
  written,      \* settings revisions of the launches before
  given,        \* name last given to each account (history variable)
  faithful      \* no snapshot with an outdated name was stored (history
                \* variable)

storeVars == <<settings, disk, records, active, settingsRev, accountRev, changes, given,
               faithful>>
pageVars == <<queue, shown, shownAt, unsaved, known>>
vars == <<storeVars, pageVars, command, pc, req, launches, written>>

Defaults == [f \in Fields |-> Default]
NoPatch == [f \in {} |-> Default]
NoStamp == [rev |-> 0, acc |-> 0, at |-> 0]
NoRecord == [id |-> "none", name |-> Default]
Records == [id : {"none", "bare", "own"}, name : Values]

(* Settings s with what patch p gives, and patch p with one more edit.     *)
Over(s, p) == [f \in Fields |-> IF f \in DOMAIN p THEN p[f] ELSE s[f]]
With(p, f, v) == [g \in DOMAIN p \union {f} |-> IF g = f THEN v ELSE p[g]]

(* kind: a full snapshot, a reset of a part, or reset_all_settings.        *)
(* patch: what the request means to change; base: the snapshot it saves;   *)
(* sent: the stamp of the view whose revisions it carries.                 *)
Requests == [kind : {"save", "part", "all"}, patch : Patches, base : Settings, sent : Stamps]
NoRequest == [kind |-> "save", patch |-> NoPatch, base |-> Defaults, sent |-> NoStamp]

Stages == {"idle", "queued", "read", "revRead", "asked", "locked", "ready", "saved",
           "reloading"}

TypeOK ==
  /\ settings \in Settings /\ disk \in Settings
  /\ records \in [Accounts -> Records]
  /\ active \in Accounts \union {NoAccount}
  /\ settingsRev \in Nat /\ accountRev \in Nat /\ changes \in Nat
  /\ command \in Writers \union {NoWriter}
  /\ pc \in [Writers -> Stages]
  /\ req \in [Writers -> Requests]
  /\ queue \in Seq(Pages)
  /\ shown \in Settings /\ shownAt \in Nat
  /\ unsaved \in Patches /\ known \in Stamps
  /\ launches \in Nat /\ written \in Nat
  /\ given \in [Accounts -> Values]
  /\ faithful \in BOOLEAN

NothingAsked ==
  /\ pc = [w \in Writers |-> "idle"]
  /\ req = [w \in Writers |-> NoRequest]
  /\ queue = <<>>
  /\ shownAt = 0 /\ unsaved = NoPatch /\ known = NoStamp

(* A fresh installation: new_deferred() has saved the defaults.            *)
Init ==
  /\ settings = Defaults /\ disk = Defaults /\ shown = Defaults
  /\ records = [a \in Accounts |-> NoRecord]
  /\ active = NoAccount
  /\ settingsRev = 0 /\ accountRev = 0 /\ changes = 0
  /\ command = NoWriter
  /\ NothingAsked
  /\ launches = 1 /\ written = 0
  /\ given = [a \in Accounts |-> Default]
  /\ faithful = TRUE

-----------------------------------------------------------------------------
(* Accounts                                                                *)

CanWrite == written + settingsRev < MaxRevisions

Known == {a \in Accounts : records[a].id # "none"}
(* The account whose card id is the bare provider id.                      *)
Bare(a) == records[a].id = "bare"

(* account_record(): the account's record, or the one it would get.        *)
AccountRecord(a) ==
  IF a \in Known THEN records[a]
  ELSE [id |-> IF Known = {} THEN "bare" ELSE "own", name |-> Default]

(* The name that is carried over when no account has been active yet.      *)
AdoptedName(a) ==
  LET mine == AccountRecord(a)
  IN IF mine.name = Default /\ mine.id = "bare" /\ active = NoAccount
     THEN settings["name"] ELSE mine.name

KeptRecord(b) ==
  IF Bare(b) /\ records[b].name = Default /\ active = NoAccount
  THEN [id |-> "bare", name |-> settings["name"]] ELSE records[b]

(* Variant: the record's own name is not projected.                        *)
ActivateKeepsName(a) ==
  /\ active # a
  /\ CanWrite
  /\ records' = [records EXCEPT ![a] = [id |-> AccountRecord(a).id, name |-> settings["name"]]]
  /\ active' = a
  /\ settingsRev' = settingsRev + 1
  /\ changes' = changes + 1
  /\ accountRev' = accountRev + 1
  /\ UNCHANGED <<settings, disk, given, faithful, pageVars, command, pc, req, launches, written>>

(* activate_account(); also run for the identities found at launch.        *)
Activate(a) ==
  /\ active # a
  /\ CanWrite
  /\ settings' = [settings EXCEPT !["name"] = AdoptedName(a)]
  /\ disk' = settings'
  /\ records' = [b \in Accounts |->
                   IF b = a THEN [id |-> AccountRecord(a).id, name |-> AdoptedName(a)]
                   ELSE KeptRecord(b)]
  /\ active' = a
  /\ settingsRev' = settingsRev + 1
  /\ changes' = changes + 1
  /\ accountRev' = accountRev + 1
  /\ UNCHANGED <<given, faithful, pageVars, command, pc, req, launches, written>>

(* Commands that edit the current settings under the write lock: detection,*)
(* credential reconciliation, removal of a dynamic provider.               *)
EditInPlace(f, v) ==
  /\ f # "name" /\ settings[f] # v
  /\ CanWrite
  /\ settings' = [settings EXCEPT ![f] = v]
  /\ disk' = settings'
  /\ settingsRev' = settingsRev + 1
  /\ changes' = changes + 1
  /\ UNCHANGED <<records, active, accountRev, given, faithful, pageVars, command, pc, req,
                 launches, written>>

-----------------------------------------------------------------------------
(* The page                                                                *)

(* The card can be renamed once an account of the provider is known.       *)
Renamable(f) == f = "name" => Known # {}

(* #enqueueMutation: the first request is sent at once.                    *)
Enqueue(w, kind, patch, base) ==
  /\ w \in Pages /\ pc[w] = "idle"
  /\ queue' = Append(queue, w)
  /\ pc' = [pc EXCEPT ![w] = IF queue = <<>> THEN "asked" ELSE "queued"]
  /\ req' = [req EXCEPT ![w] = [kind |-> kind, patch |-> patch, base |-> base,
                                sent |-> known]]
  /\ UNCHANGED <<storeVars, command, shownAt, known, launches, written>>

(* The user edits what is shown; all of it is the snapshot.                *)
PageAsks(w, f, v) ==
  /\ Renamable(f)
  /\ shown' = [shown EXCEPT ![f] = v]
  /\ unsaved' = With(unsaved, f, v)
  /\ Enqueue(w, "save", unsaved', shown')

(* reset_customization and reset_provider; names are not customization.    *)
PageAsksReset(w, f) ==
  /\ f # "name"
  /\ Enqueue(w, "part", [g \in {f} |-> Default], Defaults)
  /\ UNCHANGED <<shown, unsaved>>

PageAsksResetAll(w) ==
  /\ Enqueue(w, "all", Defaults, Defaults)
  /\ UNCHANGED <<shown, unsaved>>

Current == [rev |-> settingsRev, acc |-> accountRev, at |-> changes]

Take ==
  /\ shown' = settings /\ shownAt' = changes /\ unsaved' = NoPatch

(* Request w is over and the page takes the current view: it shows it      *)
(* unless more was asked since, and sends the next request under it.       *)
Complete(w) ==
  /\ queue' = Tail(queue)
  /\ known' = Current
  /\ pc' = [v \in Writers |->
              IF v = w THEN "idle"
              ELSE IF queue' # <<>> /\ v = Head(queue') THEN "asked" ELSE pc[v]]
  /\ req' = [v \in Writers |->
               IF v = w THEN NoRequest
               ELSE IF queue' # <<>> /\ v = Head(queue') THEN [req[v] EXCEPT !.sent = Current]
               ELSE req[v]]
  /\ IF queue' = <<>> THEN Take ELSE UNCHANGED <<shown, shownAt, unsaved>>
  /\ UNCHANGED <<storeVars, command, launches, written>>

(* The answer of a save is the view at its end.                            *)
Answered(w) == w \in Pages /\ pc[w] = "saved" /\ Complete(w)

(* #reloadAfterFailure                                                     *)
Reload(w) == pc[w] = "reloading" /\ Complete(w)

(* An event or a focus refresh; while requests are pending it is kept.     *)
PageLearns ==
  /\ queue = <<>>
  /\ known' = Current
  /\ Take
  /\ UNCHANGED <<storeVars, command, pc, req, queue, launches, written>>

-----------------------------------------------------------------------------
(* The tray menu                                                           *)

TrayReads(w, f, v) ==
  /\ w \in Trays /\ pc[w] = "idle"
  /\ f # "name"
  /\ settings[f] # v
  /\ req' = [req EXCEPT ![w] = [kind |-> "save", patch |-> [g \in {f} |-> v],
                                base |-> [settings EXCEPT ![f] = v], sent |-> NoStamp]]
  /\ pc' = [pc EXCEPT ![w] = "read"]
  /\ UNCHANGED <<storeVars, pageVars, command, launches, written>>

TrayReadsSettingsRevision(w) ==
  /\ w \in Trays /\ pc[w] = "read"
  /\ req' = [req EXCEPT ![w].sent.rev = settingsRev]
  /\ pc' = [pc EXCEPT ![w] = "revRead"]
  /\ UNCHANGED <<storeVars, pageVars, command, launches, written>>

TrayReadsAccountRevision(w) ==
  /\ w \in Trays /\ pc[w] = "revRead"
  /\ req' = [req EXCEPT ![w].sent.acc = accountRev]
  /\ pc' = [pc EXCEPT ![w] = "asked"]
  /\ UNCHANGED <<storeVars, pageVars, command, launches, written>>

(* The command returns (the tray then gives up or starts again).           *)
TrayEnds(w) ==
  /\ w \in Trays /\ pc[w] = "saved"
  /\ pc' = [pc EXCEPT ![w] = "idle"]
  /\ req' = [req EXCEPT ![w] = NoRequest]
  /\ UNCHANGED <<storeVars, pageVars, command, launches, written>>

-----------------------------------------------------------------------------
(* Saving                                                                  *)

LockCommands(w) ==
  /\ pc[w] = "asked" /\ command = NoWriter
  /\ command' = w
  /\ pc' = [pc EXCEPT ![w] = IF req[w].kind = "part" THEN "locked" ELSE "ready"]
  /\ UNCHANGED <<storeVars, pageVars, req, launches, written>>

(* reset_customization and reset_provider build their snapshot from get(), *)
(* under the command mutex but with the revisions of the page.             *)
ReadAgain(w) ==
  /\ pc[w] = "locked"
  /\ req' = [req EXCEPT ![w].base = Over(settings, req[w].patch)]
  /\ pc' = [pc EXCEPT ![w] = "ready"]
  /\ UNCHANGED <<storeVars, pageVars, command, launches, written>>

(* What update_internal() stores: a snapshot of another account keeps the  *)
(* name that the active account has now.                                   *)
Accepted(w) ==
  IF req[w].sent.acc # accountRev /\ active # NoAccount
  THEN [req[w].base EXCEPT !["name"] = settings["name"]] ELSE req[w].base

(* The view whose revisions a save of the page carries tells of no change  *)
(* that its snapshot lacks; a reset does not rest on what the page shows.  *)
Aware(w) == w \in Pages /\ (req[w].kind = "save" => shownAt = req[w].sent.at)

SaveEffect(w) ==
  /\ settings' = Accepted(w)
  /\ disk' = settings'
  /\ records' = [a \in Accounts |->
                   IF req[w].kind = "all" THEN [records[a] EXCEPT !.name = Default]
                   ELSE IF a = active THEN [records[a] EXCEPT !.name = settings'["name"]]
                   ELSE records[a]]
  /\ given' = [a \in Accounts |->
                 IF req[w].kind = "all" THEN Default
                 ELSE IF a = active /\ "name" \in DOMAIN req[w].patch
                      THEN req[w].patch["name"]
                 ELSE given[a]]
  /\ faithful' = (faithful /\ (Aware(w) \/ settings'["name"] = settings["name"]))
  /\ settingsRev' = settingsRev + 1
  /\ changes' = IF w \in Pages /\ req[w].kind = "save" THEN changes ELSE changes + 1
  /\ command' = NoWriter
  /\ pc' = [pc EXCEPT ![w] = "saved"]
  /\ UNCHANGED <<active, accountRev, req, pageVars, launches, written>>

(* Variant: the revision is not compared.                                  *)
SaveUnchecked(w) ==
  /\ pc[w] = "ready"
  /\ CanWrite
  /\ SaveEffect(w)

(* Variant: the account's record keeps its old name.                       *)
SaveWithoutRecords(w) ==
  /\ pc[w] = "ready"
  /\ req[w].sent.rev = settingsRev /\ CanWrite
  /\ settings' = Accepted(w)
  /\ disk' = settings'
  /\ settingsRev' = settingsRev + 1
  /\ command' = NoWriter
  /\ pc' = [pc EXCEPT ![w] = "saved"]
  /\ UNCHANGED <<records, given, faithful, active, accountRev, changes, req, pageVars, launches, written>>

Save(w) ==
  /\ pc[w] = "ready"
  /\ req[w].sent.rev = settingsRev /\ CanWrite
  /\ SaveEffect(w)

(* The snapshot is stale, or it could not be written.  The page drops the  *)
(* requests that wait behind it and reloads.                               *)
Refuse(w) ==
  /\ pc[w] = "ready"
  /\ command' = NoWriter
  /\ queue' = IF w \in Pages THEN <<w>> ELSE queue
  /\ pc' = [v \in Writers |->
              IF v = w THEN IF w \in Pages THEN "reloading" ELSE "idle"
              ELSE IF w \in Pages /\ v \in Pages THEN "idle" ELSE pc[v]]
  /\ req' = [v \in Writers |->
               IF v = w \/ (w \in Pages /\ v \in Pages) THEN NoRequest ELSE req[v]]
  /\ UNCHANGED <<storeVars, shown, shownAt, unsaved, known, launches, written>>

(* The process ends at any point; the next one loads the disk.             *)
Restart ==
  /\ launches < MaxLaunches
  /\ launches' = launches + 1 /\ written' = written + settingsRev
  /\ settings' = disk /\ shown' = disk
  /\ active' = NoAccount
  /\ settingsRev' = 0 /\ accountRev' = 0 /\ changes' = 0
  /\ command' = NoWriter
  /\ pc' = [w \in Writers |-> "idle"]
  /\ req' = [w \in Writers |-> NoRequest]
  /\ queue' = <<>>
  /\ shownAt' = 0 /\ unsaved' = NoPatch /\ known' = NoStamp
  /\ UNCHANGED <<disk, records, given, faithful>>

-----------------------------------------------------------------------------
WriterStep(w) ==
  \/ \E f \in Fields, v \in Values : PageAsks(w, f, v) \/ TrayReads(w, f, v)
  \/ \E f \in Fields : PageAsksReset(w, f)
  \/ PageAsksResetAll(w)
  \/ TrayReadsSettingsRevision(w) \/ TrayReadsAccountRevision(w) \/ TrayEnds(w)
  \/ LockCommands(w) \/ ReadAgain(w) \/ Save(w) \/ Refuse(w)
  \/ Answered(w) \/ Reload(w)

Next ==
  \/ \E a \in Accounts : Activate(a)
  \/ \E f \in Fields, v \in Values : EditInPlace(f, v)
  \/ \E w \in Writers : WriterStep(w)
  \/ PageLearns
  \/ Restart

Spec == Init /\ [][Next]_vars

-----------------------------------------------------------------------------
(* The queue holds the pending requests of the page, each once, and all    *)
(* but the first wait.                                                     *)
QueueOrdered ==
  /\ \A w \in Pages : pc[w] # "idle" => \E i \in DOMAIN queue : queue[i] = w
  /\ \A i, j \in DOMAIN queue : i # j => queue[i] # queue[j]
  /\ \A i \in DOMAIN queue : pc[queue[i]] # "idle"
  /\ \A i \in DOMAIN queue : i > 1 => pc[queue[i]] = "queued"

(* Where a pending request of the page is before it is stored.             *)
Pending(w) == w \in Pages /\ pc[w] \in {"queued", "asked", "locked", "ready"}

(* A stamp of the current revision tells of the current state.             *)
IsStamp(s) ==
  /\ s.rev <= settingsRev
  /\ s.rev = settingsRev => s.acc = accountRev /\ s.at = changes

StampsAreTrue ==
  /\ IsStamp(known)
  /\ \A w \in Pages : Pending(w) => IsStamp(req[w].sent)

(* Settings in which the page shows every change are those of the process  *)
(* with the user's edits, and so is every snapshot that waits.             *)
SnapshotsAreViews ==
  /\ shownAt <= changes
  /\ \A f \in DOMAIN unsaved : shown[f] = unsaved[f]
  /\ shownAt = changes => shown = Over(settings, unsaved)
  /\ \A w \in Pages : Pending(w) /\ req[w].kind = "save" =>
       /\ DOMAIN req[w].patch \subseteq DOMAIN unsaved
       /\ \A f \in DOMAIN req[w].patch : req[w].base[f] = req[w].patch[f]
       /\ shownAt = changes => req[w].base = Over(settings, req[w].patch)

(* A later snapshot holds the edits of those before it.                    *)
EditsAccumulate ==
  \A i, j \in DOMAIN queue :
    /\ i < j
    /\ Pending(queue[i]) /\ req[queue[i]].kind = "save"
    /\ req[queue[j]].kind = "save"
    => DOMAIN req[queue[i]].patch \subseteq DOMAIN req[queue[j]].patch

(* What the resets store.                                                  *)
ResetsAreExact ==
  \A w \in Pages :
    /\ Pending(w) /\ req[w].kind = "all" => req[w].base = Defaults /\ req[w].patch = Defaults
    /\ Pending(w) /\ req[w].kind = "part" => "name" \notin DOMAIN req[w].patch
    /\ pc[w] = "locked" => req[w].kind = "part"
    /\ pc[w] = "ready" /\ req[w].kind = "part" /\ req[w].sent.rev = settingsRev =>
         req[w].base = Over(settings, req[w].patch)

(* The tray menu saves at once, and does not rename cards.                 *)
TrayKeepsToItsFields ==
  \A w \in Trays :
    /\ pc[w] \in {"idle", "read", "revRead", "asked", "ready", "saved"}
    /\ req[w].kind = "save" /\ "name" \notin DOMAIN req[w].patch

(* The name shown is the one recorded for the active account.              *)
NameOfActive ==
  active # NoAccount => active \in Known /\ records[active].name = settings["name"]

(* Memory never holds settings that a crash would lose.                    *)
Durable == disk = settings

(* In the first launch nothing is named before an account is active.       *)
NamelessAtFirst ==
  active = NoAccount /\ launches = 1 =>
    /\ Known = {}
    /\ settings["name"] = Default /\ shown["name"] = Default
    /\ \A w \in Writers : req[w].base["name"] = Default

(* Every record holds the name last given to its account, which after a    *)
(* restart is known of the accounts that were given one.                   *)
GivenNamesRecorded ==
  \A a \in Accounts : launches = 1 \/ given[a] # Default => records[a].name = given[a]

OnlyKnownRecorded == \A a \in Accounts \ Known : records[a] = NoRecord

StoreInv ==
  /\ TypeOK /\ QueueOrdered /\ StampsAreTrue /\ SnapshotsAreViews /\ EditsAccumulate
  /\ ResetsAreExact /\ TrayKeepsToItsFields /\ NameOfActive /\ Durable
  /\ OnlyKnownRecorded /\ NamelessAtFirst /\ launches >= 1
  /\ faithful => GivenNamesRecorded

(* Writer w's snapshot has just been stored.                               *)
Stored(w) == pc[w] = "ready" /\ pc'[w] = "saved"

(* A save of the page that is accepted, under a view that tells of nothing *)
(* its snapshot lacks, applies the user's edits since the page last took   *)
(* the settings of the process, and nothing else; a reset changes what it  *)
(* resets: whatever was saved, edited or activated in between, no change   *)
(* is lost.  (A snapshot that waited in the queue while the process        *)
(* changed the settings is sent under a view that tells of the change, and *)
(* undoes it: the run "page_others" of SettingsPage.)                      *)
PageSavesApplyTheirEdits ==
  [][\A w \in Pages : Stored(w) /\ Aware(w) => settings' = Over(settings, req[w].patch)]_vars

(* The same of a tray setting ("settings_revision_rejects_a_stale_full_    *)
(* snapshot").                                                             *)
TraySavesChangeOnlyTheirEdit ==
  [][\A w \in Trays : Stored(w) => settings' = Over(settings, req[w].patch)]_vars

(* Names follow accounts: the name shown for the active account is the one *)
(* last given to that account ("codex_names_follow_accounts_when_the_      *)
(* active_login_changes"), in every launch if it was given one, until a    *)
(* snapshot with an outdated name is stored by the tray, or by the page    *)
(* under a view that tells of changes the snapshot lacks.                  *)
NamesFollowAccounts ==
  faithful /\ active # NoAccount /\ (launches = 1 \/ given[active] # Default) =>
    settings["name"] = given[active]
=============================================================================
