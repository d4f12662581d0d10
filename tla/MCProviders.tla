----------------------------- MODULE MCProviders -----------------------------
(* What goes on per provider beside the flights of refreshes: a Sub2API    *)
(* connection, its session and form, the logins of Claude, Codex, Grok,    *)
(* Cursor, Antigravity and Copilot, the claim of a reset, and the prices.  *)
(* They share no state, so each is explored on its own: part says which    *)
(* one, and it stays the same.                                             *)
EXTENDS Sub2ApiConnection, PricingStore, ResetClaim

CONSTANTS Accounts, MaxIssued, Scopes, AccountIds, PageSize, MaxTokens,
          Orgs, NumPlaces, Names, MaxCalls, MaxLookups, MaxCommands

(* A page of a server has at least one account (100 in mod.rs).            *)
ASSUME PageAssumption == PageSize \in Nat \ {0}

(* Logins are looked for at a number of places; an account is a member of  *)
(* finitely many organisations; and what stands for none is not a name.    *)
ASSUME CopilotAssumption ==
  /\ NumPlaces \in Nat /\ IsFiniteSet(Orgs)
  /\ "no account" \notin Accounts /\ "no organisation" \notin Orgs

VARIABLES
  part,
  stored, accepted, issued, w, late, explained, silent,
  declared, half, cached, lastGood, limited,
  values, worker, overtaken,
  editor, item, cache, errand, moved,
  config, forgets, session, owner, honoured, job,
  found, valid, bills, remembered, visit, stirred,
  slot, form, lookups, calls, label, commands, astray

Claude == INSTANCE ClaudeLogin
Codex == INSTANCE CodexLogin
Grok == INSTANCE GrokLogin
Cursor == INSTANCE CursorLogin
Antigravity == INSTANCE AntigravityLogin
Sessions == INSTANCE Sub2ApiSession
Copilot == INSTANCE CopilotLogin
Forms == INSTANCE Sub2ApiForm

loginVars == <<stored, accepted, issued, w, late, explained, silent>>
cacheVars == <<declared, half, cached, lastGood, limited>>
cursorVars == <<values, worker, overtaken>>
antigravityVars == <<editor, item, cache, errand, moved>>
sessionVars == <<config, forgets, session, owner, honoured, job>>
copilotVars == <<found, valid, bills, remembered, visit, stirred>>
formVars == <<slot, form, lookups, calls, label, commands, astray>>
lateVars == <<cursorVars, antigravityVars, sessionVars, copilotVars, formVars>>

providerVars == <<part, vars, loginVars, cacheVars, lateVars, claimVars, priceVars>>

(* The variables of a part that does not move.                             *)
Unused == "unused"
NoLogins ==
  /\ stored = Unused /\ accepted = Unused /\ issued = Unused /\ w = Unused
  /\ late = Unused /\ explained = Unused /\ silent = Unused
NoCaches ==
  /\ declared = Unused /\ half = Unused /\ cached = Unused
  /\ lastGood = Unused /\ limited = Unused
NoCursor == values = Unused /\ worker = Unused /\ overtaken = Unused
NoAntigravity ==
  /\ editor = Unused /\ item = Unused /\ cache = Unused
  /\ errand = Unused /\ moved = Unused
NoSession ==
  /\ config = Unused /\ forgets = Unused /\ session = Unused
  /\ owner = Unused /\ honoured = Unused /\ job = Unused
NoCopilot ==
  /\ found = Unused /\ valid = Unused /\ bills = Unused
  /\ remembered = Unused /\ visit = Unused /\ stirred = Unused
NoForm ==
  /\ slot = Unused /\ form = Unused /\ lookups = Unused /\ calls = Unused
  /\ label = Unused /\ commands = Unused /\ astray = Unused

(* Which account Claude starts with makes no difference.                   *)
ProvidersInit ==
  /\ part \in {"sub2api", "claude", "codex", "grok", "cursor", "antigravity",
               "copilot", "sessions", "form", "claims", "prices"}
  /\ IF part = "sub2api" THEN TRUE ELSE enabled = TRUE
  /\ IF part = "claims" THEN TRUE
     ELSE expiryOf = [c \in Credits |-> CHOOSE e \in Expiries : TRUE]
  /\ bundled = [s \in Sources |-> CHOOSE v \in Bundles : \A u \in Bundles : v <= u]
  /\ Init /\ ClaimInit /\ PriceInit
  /\ CASE part = "claude" -> Claude!ClaudeInit
       [] part = "codex" -> Codex!CodexInit /\ NoCaches
       [] part = "grok" -> Grok!GrokInit /\ NoCaches
       [] OTHER -> NoLogins /\ NoCaches
  /\ part = "claude" => declared \in {CHOOSE a \in Accounts : TRUE, Claude!NoAccount}
  /\ IF part = "cursor" THEN Cursor!CursorInit ELSE NoCursor
  /\ IF part = "antigravity" THEN Antigravity!AntigravityInit ELSE NoAntigravity
  /\ IF part = "sessions" THEN Sessions!SessionInit ELSE NoSession
  /\ IF part = "copilot" THEN Copilot!CopilotInit ELSE NoCopilot
  /\ IF part = "form" THEN Forms!FormInit ELSE NoForm
  /\ part = "form" => slot = Forms!NotConfigured \/ (slot.up = "claude" /\ slot.draft.custom)

Sub2ApiPart ==
  part = "sub2api" /\ Next
    /\ UNCHANGED <<part, loginVars, cacheVars, lateVars, claimVars, priceVars>>

ClaudePart ==
  part = "claude" /\ Claude!ClaudeNext
    /\ UNCHANGED <<part, vars, lateVars, claimVars, priceVars>>

CodexPart ==
  part = "codex" /\ Codex!CodexNext
    /\ UNCHANGED <<part, vars, lateVars, cacheVars, claimVars, priceVars>>

GrokPart ==
  part = "grok" /\ Grok!GrokNext
    /\ UNCHANGED <<part, vars, lateVars, cacheVars, claimVars, priceVars>>

CursorPart ==
  part = "cursor" /\ Cursor!CursorNext
    /\ UNCHANGED <<part, vars, loginVars, cacheVars, antigravityVars, sessionVars, copilotVars, formVars,
                   claimVars, priceVars>>

AntigravityPart ==
  part = "antigravity" /\ Antigravity!AntigravityNext
    /\ UNCHANGED <<part, vars, loginVars, cacheVars, cursorVars, sessionVars, copilotVars, formVars,
                   claimVars, priceVars>>

CopilotPart ==
  part = "copilot" /\ Copilot!CopilotNext
    /\ UNCHANGED <<part, vars, loginVars, cacheVars, cursorVars, antigravityVars, sessionVars,
                   formVars, claimVars, priceVars>>

SessionsPart ==
  part = "sessions" /\ Sessions!SessionNext
    /\ UNCHANGED <<part, vars, loginVars, cacheVars, cursorVars, antigravityVars, copilotVars,
                   formVars, claimVars, priceVars>>

FormPart ==
  part = "form" /\ Forms!FormNext
    /\ UNCHANGED <<part, vars, loginVars, cacheVars, cursorVars, antigravityVars, sessionVars,
                   copilotVars, claimVars, priceVars>>

ClaimsPart ==
  part = "claims" /\ ClaimNext
    /\ UNCHANGED <<part, vars, loginVars, cacheVars, lateVars, priceVars>>

PricesPart ==
  part = "prices" /\ PriceNext
    /\ UNCHANGED <<part, vars, loginVars, cacheVars, lateVars, claimVars>>

ProvidersNext ==
  \/ Sub2ApiPart \/ ClaudePart \/ CodexPart \/ GrokPart \/ CursorPart
  \/ AntigravityPart \/ CopilotPart \/ SessionsPart \/ FormPart \/ ClaimsPart \/ PricesPart

ProvidersSpec == ProvidersInit /\ [][ProvidersNext]_providerVars

-----------------------------------------------------------------------------
(* Usage is shown under the account it was fetched for, and the parts of   *)
(* one snapshot are of one account, or of one connection with every        *)
(* account of its server (claude/mod.rs, codex/mod.rs, cursor/mod.rs,      *)
(* antigravity/mod.rs, copilot/mod.rs, sub2api/mod.rs); and the form of a  *)
(* connection shows the one that is stored (Sub2ApiConfigSection.svelte).  *)
ShowsOwn ==
  /\ part = "claude" => Claude!ClaudeShowsOwn
  /\ part = "codex" => Codex!CodexShowsOwn
  /\ part = "cursor" => Cursor!CursorShowsOwn
  /\ part = "antigravity" => Antigravity!AntigravityShowsOwn
  /\ part = "copilot" => Copilot!CopilotShowsOwn
  /\ part = "sessions" => Sessions!SnapshotComplete
  /\ part = "form" => Forms!FormTellsTheTruth

(* A renewal overwrites no login but the one that was renewed or stored    *)
(* (Claude, Codex), nor the other entries of the document (Grok), nor does *)
(* it mix the tokens of two accounts (Cursor), but for a client that       *)
(* writes between the last look and the write, and for a document that was *)
(* gone (claude/auth.rs, codex/auth.rs, grok/auth.rs, cursor/auth.rs).     *)
KeepsLogins ==
  [][/\ part = "claude" => Claude!ClaudeKeeps
     /\ part = "codex" => Codex!CodexKeeps
     /\ part = "grok" => Grok!GrokKeeps
     /\ part = "cursor" => Cursor!CursorKeeps]_providerVars

(* Of a login the server no longer renews the user is told, by a warning   *)
(* or the error of a refresh, but in the ways in which refreshes drop what *)
(* they had to say (claude/mod.rs, codex/mod.rs, grok/mod.rs); and a       *)
(* session it no longer takes is replaced before a refresh fails           *)
(* (sub2api/mod.rs).                                                       *)
LossExplained ==
  /\ part = "claude" => Claude!ClaudeLossExplained
  /\ part = "codex" => Codex!CodexLossExplained
  /\ part = "grok" => Grok!GrokLossExplained
  /\ part = "sessions" => Sessions!RefusedAfterLogin
=============================================================================
