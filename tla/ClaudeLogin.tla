---------------------------- MODULE ClaudeLogin ----------------------------
(***************************************************************************)
(* A refresh of Claude (providers/claude/mod.rs, auth.rs): one worker at a *)
(* time reads whose login it is, tries the logins of the keychain and of   *)
(* the file, renews them when they are about to expire or are refused, and *)
(* keeps the last good usage to show while the server limits the rate.     *)
(* The client writes the account (.claude.json) and the login in two       *)
(* steps, in an order of its own.                                          *)
(*                                                                         *)
(* Left out: tokens of the environment and logins without the profile      *)
(* scope (they show no limits), local usage logs.  Candidates are loaded   *)
(* in one step; an answer of the server and the check of the generation    *)
(* that follows it are one step.                                           *)
(***************************************************************************)
EXTENDS CliLogin

VARIABLES
  declared,   \* the account of .claude.json
  half,       \* what the client has still to write of a login
  cached,     \* the login of cached_credential_fingerprint
  lastGood,   \* whose usage last_good is
  limited     \* rate_limited_until is in the future

claudeVars == <<cliVars, history, declared, half, cached, lastGood, limited, w>>
cacheVars == <<cached, lastGood, limited>>

Own == 1     \* the place the client uses; the other one is of an earlier version
Whole == [left |-> "nothing", account |-> NoAccount]
Idle == [at |-> "idle", place |-> 0, login |-> NoLogin, read |-> [p \in Places |-> NoLogin],
         identity |-> NoAccount, usage |-> NoAccount, new |-> 0, reload |-> FALSE, renewed |-> FALSE,
         warned |-> FALSE, untold |-> {}, moved |-> FALSE, doubt |-> FALSE]

ClaudeInit ==
  /\ CliInit
  /\ declared \in Accounts /\ half = Whole
  /\ \A p \in Places : stored[p].account \in {declared, NoAccount}
  /\ cached = NoLogin /\ lastGood = NoAccount /\ limited = FALSE
  /\ w = Idle

-----------------------------------------------------------------------------
(* The client                                                              *)

(* An account that changes twice during a refresh may be the first again.  *)
DeclareAccount(account) ==
  /\ declared' = account
  /\ w' = IF w.at = "idle" THEN w ELSE [w EXCEPT !.moved = TRUE, !.doubt = @ \/ w.moved]

LoginBegins(p, account) ==
  /\ half = Whole
  /\ \/ ClientLogsIn(p, account) /\ half' = [left |-> "account", account |-> account]
        /\ UNCHANGED <<declared, w>>
     \/ DeclareAccount(account) /\ half' = [left |-> "login", account |-> account]
        /\ UNCHANGED <<cliVars, history>>
  /\ UNCHANGED cacheVars

LoginEnds(p) ==
  /\ \/ half.left = "account" /\ DeclareAccount(half.account)
        /\ UNCHANGED <<cliVars, history>>
     \/ half.left = "login" /\ ClientLogsIn(p, half.account) /\ UNCHANGED <<declared, w>>
  /\ half' = Whole
  /\ UNCHANGED cacheVars

Client ==
  \/ \E a \in Accounts : LoginBegins(Own, a)
  \/ LoginEnds(Own)
  \/ (ClientRenews(Own) \/ \E p \in Places : ClientLogsOut(p))
       /\ UNCHANGED <<declared, half, cacheVars, w>>

-----------------------------------------------------------------------------
(* The worker                                                              *)

GiveUp == w' = Idle /\ EndsInError

(* SessionExpired, TokenExpired: the next candidate, else the error.  If   *)
(* the next one serves, nothing is said of this one.                       *)
TryNext ==
  LET p == NextAfter(w.read, w.place)
  IN IF p = 0 THEN GiveUp
     ELSE /\ w' = [w EXCEPT !.at = "try", !.place = p, !.login = w.read[p], !.renewed = FALSE,
                            !.warned = FALSE, !.untold = @ \union {w.place}]
          /\ UNCHANGED losses

(* CredentialsChanged: one reload, if the account is still the same.  A    *)
(* pair renewed for this place but not stored is lost with the attempt.    *)
LoadAgain ==
  IF w.reload /\ declared = w.identity
  THEN /\ w' = [w EXCEPT !.at = "load", !.reload = FALSE, !.untold = @ \union {w.place}]
       /\ UNCHANGED losses
  ELSE GiveUp

StartRefresh ==
  /\ w.at = "idle"
  /\ w' = [Idle EXCEPT !.at = "load", !.identity = declared, !.reload = TRUE]
  /\ KeepLosses
  /\ UNCHANGED <<cliVars, late, declared, half, cacheVars>>

LoadCandidates ==
  /\ w.at = "load"
  /\ LET p == FirstOf(stored)
     IN IF p = 0 THEN GiveUp
        ELSE /\ w' = [w EXCEPT !.at = "try", !.place = p, !.login = stored[p], !.read = stored,
                               !.renewed = FALSE, !.warned = FALSE,
                               !.doubt = @ \/ \E q \in Places : stored[q].account \notin {declared, NoAccount}]
             /\ UNCHANGED losses
  /\ UNCHANGED <<cliVars, late, declared, half, cacheVars>>

(* Variant: another login keeps the usage of the one before.               *)
KeepLiveUsage ==
  /\ w.at = "try"
  /\ cached' = w.login
  /\ w' \in {[w EXCEPT !.at = to] : to \in {"renew", "cooldown"}}
  /\ UNCHANGED <<cliVars, history, declared, half, lastGood, limited>>

(* activate_live_usage_cache; then a login about to expire is renewed.     *)
ActivateLiveUsage ==
  /\ w.at = "try"
  /\ cached' = w.login
  /\ IF cached = w.login THEN UNCHANGED <<lastGood, limited>>
     ELSE lastGood' = NoAccount /\ limited' = FALSE
  /\ w' \in {[w EXCEPT !.at = to] : to \in {"renew", "cooldown"}}
  /\ UNCHANGED <<cliVars, history, declared, half>>

(* refresh_credential asks for another pair.                               *)
AskToRenew ==
  /\ w.at = "renew"
  /\ \/ Rotate(w.login) /\ w' = [w EXCEPT !.at = "check", !.new = issued'] /\ UNCHANGED losses
     \/ Rotate(w.login) /\ GiveUp                       \* the answer is lost
     \/ Refused(w.login) /\ TryNext /\ UNCHANGED <<accepted, issued>>
     \/ GiveUp /\ UNCHANGED <<accepted, issued>>        \* the request fails
  /\ UNCHANGED <<stored, late, declared, half, cacheVars>>

(* Variant: the new pair is stored whatever the client did meanwhile.      *)
StoreUnchecked ==
  /\ w.at = "check" /\ w' = [w EXCEPT !.at = "save"]
  /\ UNCHANGED <<cliVars, history, declared, half, cacheVars>>

(* update_and_save: are the logins still those that were loaded?           *)
CheckGeneration ==
  /\ w.at = "check"
  /\ IF stored = w.read THEN w' = [w EXCEPT !.at = "save"] /\ UNCHANGED losses
     ELSE LoadAgain
  /\ UNCHANGED <<cliVars, late, declared, half, cacheVars>>

(* The worker goes on with the new pair, whether it was stored or not.     *)
GoOn(read, warned) ==
  w' = [w EXCEPT !.at = IF w.renewed THEN "fetch" ELSE "cooldown",
                 !.login.pair = w.new, !.new = 0, !.read = read, !.warned = @ \/ warned]

(* Variant: that the pair could not be stored is only logged.              *)
SaveQuietly ==
  /\ w.at = "save"
  /\ \/ /\ stored' = [stored EXCEPT ![w.place] = [w.login EXCEPT !.pair = w.new]]
        /\ GoOn([w.read EXCEPT ![w.place] = stored'[w.place]], FALSE)
     \/ GoOn(w.read, FALSE) /\ UNCHANGED stored
  /\ cached' = IF cached = w.login THEN [w.login EXCEPT !.pair = w.new] ELSE cached
  /\ late' = {}
  /\ UNCHANGED <<accepted, issued, losses, declared, half, lastGood, limited>>

(* ... and the write, which may fail; replace_live_usage_fingerprint.      *)
SavePair ==
  /\ w.at = "save"
  /\ \/ /\ stored' = [stored EXCEPT ![w.place] = [w.login EXCEPT !.pair = w.new]]
        /\ GoOn([w.read EXCEPT ![w.place] = stored'[w.place]], FALSE)
     \/ GoOn(w.read, TRUE) /\ UNCHANGED stored
  /\ cached' = IF cached = w.login THEN [w.login EXCEPT !.pair = w.new] ELSE cached
  /\ late' = {}
  /\ UNCHANGED <<accepted, issued, losses, declared, half, lastGood, limited>>

Show(account) == w' = [w EXCEPT !.at = "finish", !.usage = account]

(* The usage of an earlier refresh, as it was shown then: the warnings of  *)
(* this one are dropped.                                                   *)
ShowLastGood ==
  w' = [w EXCEPT !.at = "finish", !.usage = lastGood, !.warned = @ /\ lastGood = NoAccount,
                 !.untold = @ \union (IF lastGood = NoAccount THEN {} ELSE Warned)]

(* While the rate is limited the last good usage is shown, or none.        *)
Cooldown ==
  /\ w.at = "cooldown"
  /\ IF limited THEN ShowLastGood ELSE w' = [w EXCEPT !.at = "fetch"]
  /\ UNCHANGED <<cliVars, history, declared, half, cacheVars>>

(* Refused access: another pair and another request, once.                 *)
Unauthorized ==
  /\ w.at = "fetch" /\ ~w.renewed
  /\ w' = [w EXCEPT !.at = "renew", !.renewed = TRUE]
  /\ UNCHANGED <<cliVars, history, declared, half, cacheVars>>

(* An answer counts while the logins are those that were loaded.           *)
Answer ==
  /\ w.at = "fetch"
  /\ \/ stored # w.read /\ LoadAgain /\ UNCHANGED cacheVars
     \/ stored = w.read /\ UNCHANGED losses
        /\ \/ Show(w.login.account) /\ lastGood' = w.login.account /\ limited' = FALSE
           \/ ShowLastGood /\ limited' = TRUE /\ UNCHANGED lastGood
        /\ UNCHANGED cached
     \/ stored = w.read /\ w.renewed /\ TryNext /\ UNCHANGED cacheVars
     \/ GiveUp /\ UNCHANGED cacheVars
  /\ UNCHANGED <<cliVars, late, declared, half>>

(* The account is read again; only if it is the same the usage is shown.   *)
Finish ==
  /\ w.at = "finish"
  /\ w' = Idle
  /\ IF declared = w.identity THEN EndsInUsage ELSE EndsInError
  /\ UNCHANGED <<cliVars, late, declared, half, cacheVars>>

LimitEnds ==
  /\ limited /\ limited' = FALSE
  /\ UNCHANGED <<cliVars, history, declared, half, cached, lastGood, w>>

(* The program ends, or crashes, and is launched again.                    *)
Relaunch ==
  /\ w' = Idle
  /\ cached' = NoLogin /\ lastGood' = NoAccount /\ limited' = FALSE
  /\ EndsInError /\ late' = {}
  /\ UNCHANGED <<cliVars, declared, half>>

Worker ==
  \/ StartRefresh \/ LoadCandidates \/ ActivateLiveUsage \/ AskToRenew
  \/ CheckGeneration \/ SavePair \/ Cooldown \/ Unauthorized \/ Answer \/ Finish

ClaudeNext == Client \/ Worker \/ LimitEnds \/ Relaunch

ClaudeSpec == ClaudeInit /\ [][ClaudeNext]_claudeVars

-----------------------------------------------------------------------------
(* Usage is shown under the account it was fetched for, also when it is    *)
(* the last good one of an earlier refresh, whatever the user does with    *)
(* the client meanwhile: as long as the account and the logins on disk     *)
(* agreed when the worker read them, and the user did not change them      *)
(* twice during one refresh (refresh_inner_with_config).                   *)
ClaudeShowsOwn ==
  w.at = "finish" /\ ~w.doubt /\ declared = w.identity =>
    w.usage \in {w.identity, NoAccount}

(* What a write of the program replaces is the login the worker read there *)
(* or stored itself, or one the client wrote between the comparison and    *)
(* the write (update_and_save).                                            *)
ClaudeKeeps ==
  w.at = "save" /\ w'.at \in {"cooldown", "fetch"} /\ stored' # stored
    => stored[w.place] = w.read[w.place] \/ w.place \in late

(* Of a login on disk that the server no longer renews the user was told,  *)
(* by a warning or the error of the refresh that lost it, or is told when  *)
(* it ends; unless it crashed, or what it had to say was dropped for the   *)
(* last good usage, the usage of a later candidate or a reload.            *)
ClaudeLossExplained ==
  \A p \in Places : Lost(p) =>
    \/ p \in explained \union silent \union w.untold
    \/ w.place = p /\ (w.at \in {"check", "save"} \/ w.warned)
=============================================================================
