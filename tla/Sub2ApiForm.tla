----------------------------- MODULE Sub2ApiForm -----------------------------
(***************************************************************************)
(* The page's form for the connection of one Sub2API slot                  *)
(* (Sub2ApiConfigSection.svelte), beside the commands it calls, which are  *)
(* the subject of Sub2ApiConnection.  The form may be left and entered     *)
(* again while calls of the earlier one are under way; answers come in any *)
(* order.  The draft of the upstream that is chosen stands for the fields  *)
(* themselves.  Whether a password was typed is chosen when it is needed, and   *)
(* an e-mail address is always there.                                      *)
(***************************************************************************)
EXTENDS Naturals, FiniteSets

CONSTANTS Names,        \* of providers the clients' settings define
          MaxCalls,     \* bound: calls under way
          MaxLookups,   \* bound: names being looked up, outdated ones included
          MaxCommands   \* bound: saves, clears and deletions

VARIABLES
  slot,      \* the stored connection
  form,      \* what Sub2ApiConfigSection keeps
  lookups,   \* providers being resolved, by a timer or by the process
  calls,     \* calls under way, answers included
  label,     \* sub2ApiUpstreams of the slot
  commands,  \* commands so far
  astray     \* calls met, or one failed half-way, since the form was read (history)

formVars == <<slot, form, lookups, calls, label, commands, astray>>

Upstreams == {"codex", "claude"}
Blank == "blank"
NoUrl == <<>>
Typed == <<"typed">>

(* The address of a provider by its name, or one that was typed.           *)
Endpoint(up, name) == <<up, name>>
Connection(up, draft) == [up |-> up, draft |-> draft]
NoDraft == [name |-> Blank, custom |-> FALSE, url |-> NoUrl]
NotConfigured == Connection("codex", NoDraft)
Configured(c) == c # NotConfigured

(* connection_target(): the process looks the name up again.               *)
Target(up, draft) ==
  Connection(up, IF draft.custom THEN [NoDraft EXCEPT !.custom = TRUE, !.url = draft.url]
                 ELSE [draft EXCEPT !.url = Endpoint(up, draft.name)])
Connections ==
  {Target(up, draft) : up \in Upstreams,
     draft \in {[name |-> n, custom |-> FALSE, url |-> NoUrl] : n \in Names}
               \union {[name |-> Blank, custom |-> TRUE, url |-> Typed]}} \union {NotConfigured}

Label(c) == IF Configured(c) THEN c.up ELSE "none"

(* cancelProviderResolution() and the count that outdates what was sent.   *)
Outdated == {[l EXCEPT !.current = FALSE] : l \in {k \in lookups : k.sent}}

(* resetEditor().                                                          *)
Reset(f, c) ==
  [f EXCEPT !.up = c.up, !.failed = FALSE, !.resolving = FALSE,
            !.drafts = [[u \in Upstreams |-> NoDraft] EXCEPT ![c.up] = c.draft]]

Fresh ==
  [there |-> TRUE, shown |-> NotConfigured, open |-> FALSE, saving |-> FALSE,
   up |-> "codex", drafts |-> [u \in Upstreams |-> NoDraft],
   failed |-> FALSE, resolving |-> FALSE]
Gone == [Fresh EXCEPT !.there = FALSE]

FormInit ==
  /\ slot \in Connections /\ label = Label(slot)
  /\ form = Gone /\ lookups = {} /\ calls = {}
  /\ commands = 0 /\ astray = FALSE

-----------------------------------------------------------------------------
(* Calls, of this form or one that was left.  Two calls meet when both are *)
(* under way and one is a command.                                         *)
Call(kind, from, to, before) ==
  [kind |-> kind, mine |-> TRUE, at |-> "asked", from |-> from, to |-> to,
   before |-> before, failed |-> FALSE, alone |-> TRUE]
IsCommand(c) == c.kind # "load"
With(c) ==
  LET meets(d) == IsCommand(c) \/ IsCommand(d)
  IN {[d EXCEPT !.alone = @ /\ ~meets(d)] : d \in calls}
     \union {[c EXCEPT !.alone = \A d \in calls : ~meets(d)]}

(* The process reads the slot, or changes it; it may fail before or after. *)
Performed(c, to, failed) ==
  calls' = (calls \ {c}) \union {[c EXCEPT !.at = "done", !.to = to, !.failed = failed]}

PerformLoad(c) ==
  /\ c.kind = "load" /\ c.at = "asked"
  /\ \E failed \in BOOLEAN : Performed(c, slot, failed)
  /\ UNCHANGED <<slot, form, lookups, label, commands, astray>>

PerformCommand(c) ==
  /\ IsCommand(c) /\ c.at = "asked"
  /\ \/ slot' = c.to /\ \E failed \in BOOLEAN : Performed(c, c.to, failed)
     \/ UNCHANGED slot /\ Performed(c, c.to, TRUE)
  /\ UNCHANGED <<form, lookups, label, commands, astray>>

Perform == \E c \in calls : PerformLoad(c) \/ PerformCommand(c)

-----------------------------------------------------------------------------
(* The form comes and goes: onMount(), onDestroy().                        *)
Enter ==
  /\ ~form.there /\ Cardinality(calls) < MaxCalls
  /\ form' = Fresh
  /\ calls' = With(Call("load", NotConfigured, NotConfigured, NotConfigured))
  /\ UNCHANGED <<slot, lookups, label, commands, astray>>

Abandoned(cs) == {[c EXCEPT !.mine = FALSE, !.from = NotConfigured] : c \in cs}

(* Bound: only while a command is under way; otherwise the next form begins *)
(* as the first one did, but for a load that comes late.                   *)
Leave ==
  /\ form.there /\ \E c \in calls : IsCommand(c)
  /\ form' = Gone /\ lookups' = {} /\ calls' = Abandoned(calls)
  /\ UNCHANGED <<slot, label, commands, astray>>

Loaded(c) ==
  /\ c.kind = "load" /\ c.at = "done" /\ calls' = calls \ {c}
  /\ IF c.failed
       THEN /\ form' = IF c.mine THEN [form EXCEPT !.open = TRUE] ELSE form
            /\ astray' = TRUE /\ UNCHANGED <<lookups, label>>
       ELSE /\ form' = IF c.mine THEN Reset([form EXCEPT !.shown = c.to], c.to) ELSE form
            /\ lookups' = IF c.mine THEN Outdated ELSE lookups
            /\ label' = Label(c.to)
            /\ astray' = (~c.alone \/ (astray /\ ~c.mine))
  /\ UNCHANGED <<slot, commands>>

ToggleEditor ==
  /\ form.there
  /\ form' = IF form.open THEN [form EXCEPT !.open = FALSE, !.resolving = FALSE]
             ELSE Reset([form EXCEPT !.open = TRUE], form.shown)
  /\ lookups' = Outdated
  /\ UNCHANGED <<slot, calls, label, commands, astray>>

-----------------------------------------------------------------------------
(* The fields.                                                             *)
Editing == form.there /\ form.open
Draft == form.drafts[form.up]

(* updateProvider() once the name is in the field: what form and lookups   *)
(* become.                                                                 *)
Naming(f, name) ==
  LET asks == name # Blank
  IN /\ form' = [f EXCEPT !.drafts[f.up] = [NoDraft EXCEPT !.name = name], !.failed = FALSE,
                          !.resolving = asks]
     /\ lookups' = Outdated \union
          (IF asks THEN {[up |-> f.up, name |-> name, sent |-> FALSE, current |-> TRUE]} ELSE {})
     /\ Cardinality(lookups') <= MaxLookups

TypeName ==
  /\ Editing /\ ~form.saving /\ ~Draft.custom
  /\ \E name \in Names \union {Blank} : Naming(form, name)
  /\ UNCHANGED <<slot, calls, label, commands, astray>>

(* The menu works while a command runs.                                    *)
SelectUpstream ==
  /\ Editing
  /\ LET up == CHOOSE u \in Upstreams : u # form.up
         next == [form EXCEPT !.up = up, !.failed = FALSE, !.resolving = FALSE]
     IN IF form.drafts[up].custom \/ form.drafts[up].name = Blank
          THEN form' = next /\ lookups' = Outdated
          ELSE Naming(next, form.drafts[up].name)
  /\ UNCHANGED <<slot, calls, label, commands, astray>>

SetCustomBaseUrl ==
  /\ Editing /\ ~form.saving
  /\ form' = [form EXCEPT !.drafts[form.up] = [NoDraft EXCEPT !.custom = ~Draft.custom],
                          !.failed = FALSE, !.resolving = FALSE]
  /\ lookups' = Outdated
  /\ UNCHANGED <<slot, calls, label, commands, astray>>

TypeUrl ==
  /\ Editing /\ ~form.saving /\ Draft.custom
  /\ \E url \in {NoUrl, Typed} : form' = [form EXCEPT !.drafts[form.up].url = url]
  /\ UNCHANGED <<slot, lookups, calls, label, commands, astray>>

SendLookup ==
  /\ \E l \in lookups :
       ~l.sent /\ lookups' = (lookups \ {l}) \union {[l EXCEPT !.sent = TRUE]}
  /\ UNCHANGED <<slot, form, calls, label, commands, astray>>

Found(l) == [form EXCEPT !.drafts[form.up].url = Endpoint(l.up, l.name), !.resolving = FALSE]
NotFound == [form EXCEPT !.failed = TRUE, !.resolving = FALSE]

(* Variant: an outdated answer is taken.                                   *)
AnyLookupEnds ==
  /\ \E l \in lookups :
       /\ l.sent /\ lookups' = lookups \ {l}
       /\ form' \in {Found(l), NotFound}
  /\ UNCHANGED <<slot, calls, label, commands, astray>>

LookupEnds ==
  /\ \E l \in lookups :
       /\ l.sent /\ lookups' = lookups \ {l}
       /\ form' \in IF l.current THEN {Found(l), NotFound} ELSE {form}
  /\ UNCHANGED <<slot, calls, label, commands, astray>>

-----------------------------------------------------------------------------
(* Commands.                                                               *)
Command(kind, to, next) ==
  /\ form.there /\ ~form.saving
  /\ commands < MaxCommands /\ Cardinality(calls) < MaxCalls
  /\ commands' = commands + 1
  /\ calls' = With(IF kind = "save" THEN Call(kind, Connection(form.up, Draft), to, form.shown)
                   ELSE Call(kind, to, to, to))
  /\ form' = [next EXCEPT !.saving = TRUE]

EndpointReady ==
  Draft.url # NoUrl
    /\ (Draft.custom \/ (Draft.name # Blank /\ ~form.failed /\ ~form.resolving))

(* save(): the connection is shown at once and the editor is closed.       *)
Save ==
  /\ Editing /\ EndpointReady
  /\ LET next == Connection(form.up, Draft)
     IN /\ Command("save", Target(form.up, Draft),
                   Reset([form EXCEPT !.shown = next, !.open = FALSE], next))
        /\ label' = Label(next)
  /\ lookups' = Outdated
  /\ UNCHANGED <<slot, astray>>

Clear ==
  /\ Editing /\ Configured(form.shown)
  /\ Command("clear", NotConfigured, form)
  /\ UNCHANGED <<slot, lookups, label, astray>>

Delete ==
  /\ Command("delete", NotConfigured, form)
  /\ UNCHANGED <<slot, lookups, label, astray>>

Ended(c, next) ==
  /\ c.at = "done"
  /\ calls' = IF c.mine /\ ~next.there THEN Abandoned(calls \ {c}) ELSE calls \ {c}
  /\ form' = IF c.mine THEN [next EXCEPT !.saving = FALSE] ELSE form
  /\ astray' = (astray \/ ~c.alone \/ (c.failed /\ slot = c.to))
  /\ UNCHANGED <<slot, commands>>

Saved(c) ==
  /\ c.kind = "save" /\ ~c.failed /\ Ended(c, [form EXCEPT !.shown = c.to])
  /\ label' = Label(c.to) /\ UNCHANGED lookups

(* Variant: the upstream remembered is not taken back.                     *)
SaveFailsKeepingLabel(c) ==
  /\ c.kind = "save" /\ c.failed
  /\ Ended(c, [form EXCEPT !.shown = c.before, !.open = TRUE, !.up = c.from.up,
                           !.drafts[c.from.up] = c.from.draft])
  /\ UNCHANGED <<label, lookups>>

SaveFails(c) ==
  /\ c.kind = "save" /\ c.failed
  /\ Ended(c, [form EXCEPT !.shown = c.before, !.open = TRUE, !.up = c.from.up,
                           !.drafts[c.from.up] = c.from.draft])
  /\ label' = Label(c.before) /\ UNCHANGED lookups

Cleared(c) ==
  /\ c.kind = "clear" /\ ~c.failed /\ Ended(c, Reset([form EXCEPT !.shown = c.to], c.to))
  /\ lookups' = IF c.mine THEN Outdated ELSE lookups
  /\ label' = Label(c.to)

(* The page leaves the form.                                               *)
Deleted(c) ==
  /\ c.kind = "delete" /\ ~c.failed /\ Ended(c, Gone)
  /\ lookups' = IF c.mine THEN {} ELSE lookups
  /\ label' = "none"

RemovalFails(c) ==
  /\ c.kind \in {"clear", "delete"} /\ c.failed /\ Ended(c, form)
  /\ UNCHANGED <<label, lookups>>

Answer ==
  \E c \in calls :
    Loaded(c) \/ Saved(c) \/ SaveFails(c) \/ Cleared(c) \/ Deleted(c) \/ RemovalFails(c)

FormNext ==
  \/ Perform \/ Enter \/ Leave \/ Answer \/ ToggleEditor
  \/ TypeName \/ SelectUpstream \/ SetCustomBaseUrl \/ TypeUrl \/ SendLookup \/ LookupEnds
  \/ Save \/ Clear \/ Delete

FormSpec == FormInit /\ [][FormNext]_formVars

-----------------------------------------------------------------------------
(* When no call is under way the form shows the stored connection, and its *)
(* upstream is the one remembered; the address in the form is that of the  *)
(* provider named for that upstream; and the form is looking for one only  *)
(* while the answer can still come.  Excepted are visits in which calls    *)
(* met or a command failed after it had stored something.                  *)
FormTellsTheTruth ==
  /\ calls = {} /\ ~astray =>
       label = Label(slot) /\ (form.there => form.shown = slot)
  /\ form.there /\ ~astray /\ ~Draft.custom /\ Draft.url # NoUrl =>
       Draft.url = Endpoint(form.up, Draft.name)
  /\ form.resolving => \E l \in lookups : l.current
=============================================================================
