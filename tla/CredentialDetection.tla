------------------------ MODULE CredentialDetection ------------------------
(***************************************************************************)
(* Which providers are enabled, and which are known to have credentials    *)
(* (settings.rs), while local credentials are probed in the background     *)
(* (providers/detection.rs) for several seconds: once at launch and once   *)
(* after every reset.  Meanwhile the user enables and disables providers   *)
(* and credential commands (commands/provider.rs) save and delete keys.    *)
(*                                                                         *)
(* A detection carries the enablement and credential revisions of its      *)
(* plan, and what it may still change is decided by comparing them.  The   *)
(* page's own revision check is the subject of SettingsStore: here a save  *)
(* of the user is one that passed it.                                      *)
(***************************************************************************)
EXTENDS Integers

CONSTANTS Providers,
          Fallback,    \* definitions with fallback_enabled
          Elsewhere,   \* providers with credentials no command can delete
          Plans,       \* detections
          Startup,     \* the one of the launch
          NoPlan,
          MaxEnablement, \* bound: the user switches below this enRev
          MaxCredential  \* bound: commands begin below this credRev

ASSUME DetectionAssumption ==
  /\ Fallback \subseteq Providers /\ Elsewhere \subseteq Providers
  /\ Startup \in Plans /\ NoPlan \notin Plans
  /\ MaxEnablement \in Nat /\ MaxCredential \in Nat

Statuses == {"pending", "detected", "absent", "unknown"}
(* save_provider_api_key and save_sub2api_config; delete_provider_api_key; *)
(* clear_sub2api_config; delete_sub2api_config.                            *)
Kinds == {"save", "delete", "clear", "remove"}

VARIABLES
  present,     \* providers whose credentials can be found on the machine
  enabled, detected,
  enRev,       \* enablement_revision
  credRev,     \* credential_revision
  resetter,    \* the reset that holds command_mutation, or NoPlan
  stage,       \* where each detection is
  plan,        \* its CredentialDetectionPlan
  results,     \* its CredentialProbeResults
  command,     \* the credential command that holds credential_mutation
  begun,       \* providers whose commands began after the plan was taken (history)
  chosen,      \* providers the user switched after it (history)
  overtaken    \* detections before which another one was applied (history)

shownVars == <<enabled, detected, enRev>>
planVars == <<resetter, stage, plan, results>>
historyVars == <<begun, chosen, overtaken>>
vars == <<present, shownVars, credRev, planVars, command, historyVars>>

PlanRecords == [replace : BOOLEAN, auto : SUBSET Providers, enRev : Nat, credRev : Nat]
EmptyPlan == [replace |-> TRUE, auto |-> {}, enRev |-> 0, credRev |-> 0]
Pending == [p \in Providers |-> "pending"]
NoCommand == [kind |-> "none", provider |-> "none", at |-> "idle"]
Commands == [kind : Kinds, provider : Providers, at : {"recorded", "written"}]

TypeOK ==
  /\ present \subseteq Providers
  /\ enabled \subseteq Providers /\ detected \subseteq Providers
  /\ enRev \in Nat /\ credRev \in Nat
  /\ resetter \in Plans \union {NoPlan}
  /\ stage \in [Plans -> {"none", "resetting", "probing", "done", "failed"}]
  /\ plan \in [Plans -> PlanRecords]
  /\ results \in [Plans -> [Providers -> Statuses]]
  /\ command \in Commands \union {NoCommand}
  /\ begun \in [Plans -> SUBSET Providers]
  /\ chosen \in [Plans -> SUBSET Providers]
  /\ overtaken \subseteq Plans

(* default_settings(): the detected providers, else the fallback set.      *)
Defaults(found) == IF found = {} THEN Fallback ELSE found

(* new_deferred(): a fresh installation shows the fallback set, another    *)
(* one what it had saved, with the providers it never saw disabled.        *)
Launch(replace, auto) ==
  /\ IF replace
     THEN detected = {} /\ enabled = Fallback /\ auto = {}
     ELSE /\ detected \in SUBSET (Providers \ auto)
          /\ enabled \in SUBSET (Providers \ auto)
  /\ plan = [d \in Plans |->
               IF d = Startup THEN [EmptyPlan EXCEPT !.replace = replace, !.auto = auto]
               ELSE EmptyPlan]

Init ==
  /\ present \in {Elsewhere \union keys : keys \in SUBSET Providers}
  /\ \E replace \in BOOLEAN, auto \in SUBSET Providers : Launch(replace, auto)
  /\ enRev = 0 /\ credRev = 0
  /\ resetter = NoPlan
  /\ stage = [d \in Plans |-> IF d = Startup THEN "probing" ELSE "none"]
  /\ results = [d \in Plans |-> Pending]
  /\ command = NoCommand
  /\ begun = [d \in Plans |-> {}]
  /\ chosen = [d \in Plans |-> {}]
  /\ overtaken = {}

-----------------------------------------------------------------------------
(* The user                                                                *)

(* The running detections to which p happens.                              *)
Note(history, p) ==
  [d \in Plans |-> IF stage[d] = "probing" THEN history[d] \union {p} ELSE history[d]]

Bump(before) == enRev' = IF enabled' # before THEN enRev + 1 ELSE enRev

(* Variant: the enabled set is compared after it was replaced.             *)
SwitchUnannounced(p) ==
  /\ resetter = NoPlan
  /\ enRev < MaxEnablement
  /\ enabled' = IF p \in enabled THEN enabled \ {p} ELSE enabled \union {p}
  /\ chosen' = Note(chosen, p)
  /\ UNCHANGED <<present, detected, enRev, credRev, planVars, command, begun, overtaken>>

(* A save that switches one provider.                                      *)
Switch(p) ==
  /\ resetter = NoPlan
  /\ enRev < MaxEnablement
  /\ enabled' = IF p \in enabled THEN enabled \ {p} ELSE enabled \union {p}
  /\ Bump(enabled)
  /\ chosen' = Note(chosen, p)
  /\ UNCHANGED <<present, detected, credRev, planVars, command, begun, overtaken>>

(* reset_customization and reset_all_settings save the defaults.           *)
Reset(d) ==
  /\ resetter = NoPlan /\ stage[d] = "none"
  /\ enabled' = Defaults(detected)
  /\ Bump(enabled)
  /\ resetter' = d
  /\ stage' = [stage EXCEPT ![d] = "resetting"]
  /\ UNCHANGED <<present, detected, credRev, plan, results, command, historyVars>>

(* reset_detection_plan(), still under the command mutex.                  *)
TakePlan(d) ==
  /\ resetter = d
  /\ resetter' = NoPlan
  /\ stage' = [stage EXCEPT ![d] = "probing"]
  /\ plan' = [plan EXCEPT ![d] = [replace |-> TRUE, auto |-> {},
                                  enRev |-> enRev, credRev |-> credRev]]
  /\ UNCHANGED <<present, shownVars, credRev, results, command, historyVars>>

-----------------------------------------------------------------------------
(* Detections                                                              *)

(* has_local_credentials() answers.                                        *)
Probe(d, p) ==
  /\ stage[d] = "probing" /\ results[d][p] = "pending"
  /\ results' = [results EXCEPT ![d] =
                   [results[d] EXCEPT ![p] = IF p \in present THEN "detected" ELSE "absent"]]
  /\ UNCHANGED <<present, shownVars, credRev, resetter, stage, plan, command, historyVars>>

(* The probe panics, or reaches its time limit.                            *)
ProbeFails(d, p) ==
  /\ stage[d] = "probing" /\ results[d][p] = "pending"
  /\ results' = [results EXCEPT ![d] = [results[d] EXCEPT ![p] = "unknown"]]
  /\ UNCHANGED <<present, shownVars, credRev, resetter, stage, plan, command, historyVars>>

With(d, status) == {p \in Providers : results[d][p] = status}
CredentialsMatch(d) == plan[d].credRev = credRev
EnablementMatches(d) == plan[d].enRev = enRev

Found(d) ==
  IF CredentialsMatch(d)
  THEN (detected \union With(d, "detected")) \ With(d, "absent") ELSE detected

(* Providers enabled once the results of d are known.                      *)
Seeded(d) ==
  IF ~CredentialsMatch(d) THEN enabled
  ELSE IF ~plan[d].replace THEN enabled \union (plan[d].auto \intersect With(d, "detected"))
  ELSE IF ~EnablementMatches(d) THEN enabled
  ELSE With(d, "detected")
       \union (IF Found(d) = {} THEN Fallback \intersect With(d, "absent") ELSE {})
       \union (enabled \intersect With(d, "unknown"))

Ready(d) ==
  /\ resetter = NoPlan
  /\ stage[d] = "probing" /\ With(d, "pending") = {}

Running == {d \in Plans : stage[d] = "probing"}
(* The running detections if the detected providers have changed.          *)
Overtaken == IF detected' # detected THEN Running ELSE {}

(* The task of d ends, and the detections of late have been overtaken.     *)
End(d, how, late) ==
  /\ stage' = [stage EXCEPT ![d] = how]
  /\ plan' = [plan EXCEPT ![d] = EmptyPlan]
  /\ results' = [results EXCEPT ![d] = Pending]
  /\ begun' = [begun EXCEPT ![d] = {}]
  /\ chosen' = [chosen EXCEPT ![d] = {}]
  /\ overtaken' = (overtaken \union late) \ {d}

(* Variant: the new enablement is not announced by a revision.             *)
ApplySilently(d) ==
  /\ Ready(d)
  /\ enabled' = Seeded(d)
  /\ detected' = Found(d)
  /\ End(d, "done", Overtaken)
  /\ UNCHANGED <<present, enRev, credRev, resetter, command>>

(* Variant: every application counts as a change of credentials.           *)
ApplyAlwaysBumps(d) ==
  /\ Ready(d)
  /\ enabled' = Seeded(d)
  /\ detected' = Found(d)
  /\ Bump(enabled)
  /\ credRev' = credRev + 1
  /\ End(d, "done", Overtaken)
  /\ UNCHANGED <<present, resetter, command>>

(* apply_credential_detection(), under the command mutex.                  *)
Apply(d) ==
  /\ Ready(d)
  /\ enabled' = Seeded(d)
  /\ detected' = Found(d)
  /\ Bump(enabled)
  /\ credRev' = IF detected' # detected THEN credRev + 1 ELSE credRev
  /\ End(d, "done", Overtaken)
  /\ UNCHANGED <<present, resetter, command>>

(* The settings could not be saved: the results are lost.                  *)
ApplyFails(d) ==
  /\ Ready(d)
  /\ End(d, "failed", {})
  /\ UNCHANGED <<present, shownVars, credRev, resetter, command>>

-----------------------------------------------------------------------------
(* Credential commands                                                     *)

(* Variant: the revision is left alone.                                    *)
BeginUnrecorded(kind, p) ==
  /\ command = NoCommand
  /\ credRev < MaxCredential
  /\ command' = [kind |-> kind, provider |-> p, at |-> "recorded"]
  /\ begun' = Note(begun, p)
  /\ UNCHANGED <<present, shownVars, credRev, planVars, chosen, overtaken>>

(* The credential mutex is taken and the mutation recorded.                *)
Begin(kind, p) ==
  /\ command = NoCommand
  /\ credRev < MaxCredential
  /\ command' = [kind |-> kind, provider |-> p, at |-> "recorded"]
  /\ credRev' = credRev + 1
  /\ begun' = Note(begun, p)
  /\ UNCHANGED <<present, shownVars, planVars, chosen, overtaken>>

(* The blocking call changes what is stored.                               *)
Write ==
  /\ command # NoCommand /\ command.at = "recorded"
  /\ present' = IF command.kind = "save" THEN present \union {command.provider}
                ELSE (present \ {command.provider}) \union Elsewhere
  /\ command' = [command EXCEPT !.at = "written"]
  /\ UNCHANGED <<shownVars, credRev, planVars, historyVars>>

(* What the command tells the settings.  After a deletion the remaining    *)
(* status of the provider is looked up; it counts as unset if it cannot be *)
(* read.                                                                   *)
Remaining(p) == {FALSE} \union {p \in Elsewhere}

Reconcile ==
  /\ command # NoCommand /\ command.at = "written"
  /\ resetter = NoPlan
  /\ LET p == command.provider
     IN /\ \E left \in Remaining(p) :
             detected' = IF \/ command.kind = "save"
                            \/ command.kind = "delete" /\ left
                         THEN detected \union {p} ELSE detected \ {p}
        /\ enabled' = CASE command.kind \in {"save", "clear"} -> enabled \union {p}
                        [] command.kind = "remove" -> enabled \ {p}
                        [] OTHER -> enabled
  /\ Bump(enabled)
  /\ command' = NoCommand
  /\ UNCHANGED <<present, credRev, planVars, historyVars>>

(* The blocking call, or the saving of the settings, fails.                *)
GiveUp ==
  /\ command # NoCommand
  /\ command' = NoCommand
  /\ UNCHANGED <<present, shownVars, credRev, planVars, historyVars>>

-----------------------------------------------------------------------------
Next ==
  \/ \E p \in Providers : Switch(p)
  \/ \E d \in Plans : \/ Reset(d) \/ TakePlan(d) \/ Apply(d) \/ ApplyFails(d)
                      \/ \E p \in Providers : Probe(d, p) \/ ProbeFails(d, p)
  \/ \E kind \in Kinds, p \in Providers : Begin(kind, p)
  \/ Write \/ Reconcile \/ GiveUp

Spec == Init /\ [][Next]_vars

-----------------------------------------------------------------------------
(* What the revisions stand for.                                           *)
RevisionsTellChanges ==
  \A d \in Plans : stage[d] = "probing" =>
    /\ plan[d].credRev <= credRev /\ plan[d].enRev <= enRev
    /\ plan[d].credRev < credRev <=> begun[d] # {} \/ d \in overtaken
    /\ chosen[d] # {} => plan[d].enRev < enRev

PlansAreTaken ==
  /\ \A d \in Plans : stage[d] = "resetting" <=> resetter = d
  /\ \A d \in Plans : stage[d] # "probing" =>
       begun[d] = {} /\ chosen[d] = {} /\ d \notin overtaken

DetectionInv == TypeOK /\ PlansAreTaken /\ RevisionsTellChanges

(* The results of d are being applied.                                     *)
Applied(d) == stage[d] = "probing" /\ stage'[d] = "done"
(* Provider p is shown as before.                                          *)
Untouched(p) == /\ p \in detected' <=> p \in detected
                /\ p \in enabled' <=> p \in enabled

(* A detection does not touch a provider whose credentials a command began *)
(* to change after the plan was taken ("stale_absent_probe_cannot_undo_an_ *)
(* api_key_save_for_a_detected_provider").                                 *)
LaterCommandsWin ==
  [][\A d \in Plans : Applied(d) => \A p \in begun[d] : Untouched(p)]_vars

(* A reseeding detection does not switch any provider when the user has    *)
(* switched one since ("user_enablement_change_wins_over_a_running_        *)
(* detection_pass").                                                       *)
ChoicesWinOverReseeding ==
  [][\A d \in Plans : Applied(d) /\ plan[d].replace /\ chosen[d] # {} =>
       enabled' = enabled]_vars

(* Results that are definite are ignored only when somebody else changed   *)
(* the credentials since.                                                  *)
DroppedOnlyWhenOvertaken ==
  [][\A d \in Plans : Applied(d) /\ begun[d] = {} /\ d \notin overtaken =>
       /\ With(d, "detected") \subseteq detected'
       /\ With(d, "absent") \intersect detected' = {}]_vars

(* The same of every detection, that of the launch included (settings.rs:  *)
(* "without overriding settings changed while it ran").                    *)
ChoicesWin ==
  [][\A d \in Plans : Applied(d) => \A p \in chosen[d] :
       p \in enabled' <=> p \in enabled]_vars
=============================================================================
