-------------------------- MODULE AntigravityLogin --------------------------
(***************************************************************************)
(* A refresh of Antigravity (providers/antigravity/mod.rs, auth.rs).  The  *)
(* server of a running editor is asked first; else the login in the        *)
(* keychain is used: its access token, an access token cached by an        *)
(* earlier refresh, or one renewed with its refresh token, which is cached *)
(* under the fingerprint of that refresh token.                            *)
(*                                                                         *)
(* An access token is the account it is of; a refresh token is an account  *)
(* and which of its logins.  The requests made with one access token are   *)
(* one step.  A file may fail to be written or removed.                    *)
(***************************************************************************)
EXTENDS Integers, Sequences

CONSTANTS Accounts

VARIABLES
  editor,   \* account of the running editor's server
  item,     \* the login in the keychain
  cache,    \* the cached access token and the refresh token it is bound to
  errand,   \* the refresh: where it is, what it has read
  moved     \* the editor changed since its quotas were read (history)

antigravityVars == <<editor, item, cache, errand, moved>>

NoAccount == "no account"
NoRefresh == <<NoAccount, 0>>
RefreshTokens == Accounts \X {1, 2}
NoCache == [access |-> NoAccount, boundTo |-> NoRefresh]

(* A keychain item: its access token may have run out or be missing.       *)
Items ==
  {[access |-> a, expired |-> e, refresh |-> r] :
     a \in Accounts \union {NoAccount}, e \in BOOLEAN, r \in RefreshTokens \union {NoRefresh}}
NoItem == [access |-> NoAccount, expired |-> FALSE, refresh |-> NoRefresh]
Logins == {i \in Items : /\ i.refresh[1] \in {i.access, NoAccount} \/ i.access = NoAccount
                         /\ i.expired => i.access # NoAccount}

Resting == [at |-> "idle", login |-> NoItem, left |-> <<>>, refused |-> FALSE,
            tried |-> FALSE, token |-> NoAccount, quotas |-> NoAccount, plan |-> NoAccount]

AntigravityInit ==
  /\ editor = NoAccount /\ item \in Logins
  /\ cache = NoCache /\ errand = Resting /\ moved = FALSE

-----------------------------------------------------------------------------
(* The editor: it runs or not, under any account; so does its login.       *)
Editor ==
  /\ \/ editor' \in Accounts \union {NoAccount} /\ moved' = TRUE /\ UNCHANGED item
     \/ item' \in Logins /\ UNCHANGED <<editor, moved>>
  /\ UNCHANGED <<cache, errand>>

-----------------------------------------------------------------------------
(* The server of the editor, and the snapshot that is given.               *)
Give(quotas, plan) ==
  errand' = [Resting EXCEPT !.at = "done", !.login = errand.login,
                            !.quotas = quotas, !.plan = plan]

(* discover(), RetrieveUserQuotaSummary.                                   *)
AskEditor ==
  /\ errand = Resting
  /\ \/ editor # NoAccount /\ errand' = [Resting EXCEPT !.at = "plan", !.quotas = editor]
     \/ errand' = [Resting EXCEPT !.at = "status"]
  /\ moved' = FALSE
  /\ UNCHANGED <<editor, item, cache>>

(* GetUserStatus for the plan.                                             *)
AskPlan ==
  /\ errand.at = "plan"
  /\ \E plan \in {editor, NoAccount} : Give(errand.quotas, plan)
  /\ UNCHANGED <<editor, item, cache, moved>>

(* GetUserStatus for both, then GetCommandModelConfigs without a plan.     *)
AskStatus ==
  /\ errand.at = "status"
  /\ \/ editor # NoAccount /\ \E plan \in {editor, NoAccount} : Give(editor, plan)
     \/ errand' = [Resting EXCEPT !.at = "load"]
  /\ UNCHANGED <<editor, item, cache, moved>>

-----------------------------------------------------------------------------
(* The login of the keychain.                                              *)
GiveUp == errand' = Resting
Discarded == {NoCache, cache}

LoadToken ==
  /\ errand.at = "load"
  /\ IF item = NoItem THEN GiveUp /\ cache' \in Discarded
     ELSE /\ errand' = [errand EXCEPT !.at = "candidates", !.login = item]
          /\ UNCHANGED cache
  /\ UNCHANGED <<editor, item, moved>>

(* Variant: whatever token is cached.                                      *)
UsableUnbound == cache # NoCache

(* AccessTokenCache::load: a token renewed with this refresh token, that   *)
(* has not run out.                                                        *)
Usable == cache # NoCache /\ cache.boundTo = errand.login.refresh

(* access_token_candidates.                                                *)
CollectCandidates ==
  LET own == IF errand.login.access = NoAccount \/ errand.login.expired THEN <<>>
             ELSE <<errand.login.access>>
      try(cached) == errand' = [errand EXCEPT !.at = "try", !.left = own \o cached,
                                  !.refused = errand.login.expired]
  IN /\ errand.at = "candidates"
     /\ \/ Usable /\ try(<<cache.access>>) /\ UNCHANGED cache
        \/ try(<<>>) /\ cache' \in Discarded
     /\ UNCHANGED <<editor, item, moved>>

(* fetch_remote with the next token: usage, or the next, or an error.      *)
TryCandidate ==
  /\ errand.at = "try" /\ errand.left # <<>>
  /\ LET token == Head(errand.left)
     IN \/ \E plan \in {token, NoAccount} : Give(token, plan)
        \/ \E refused \in BOOLEAN :
             errand' = [errand EXCEPT !.left = Tail(@), !.tried = TRUE,
                                      !.refused = @ \/ refused]
  /\ UNCHANGED <<editor, item, cache, moved>>

(* refresh_google_token, when a token was refused or there was none.       *)
RenewToken ==
  /\ errand.at = "try" /\ errand.left = <<>>
  /\ IF errand.login.refresh # NoRefresh /\ (errand.refused \/ ~errand.tried)
       THEN \/ /\ errand' = [errand EXCEPT !.at = "store", !.token = errand.login.refresh[1]]
               /\ UNCHANGED cache
            \/ GiveUp /\ cache' \in Discarded
       ELSE GiveUp /\ UNCHANGED cache
  /\ UNCHANGED <<editor, item, moved>>

(* AccessTokenCache::store.                                                *)
StoreToken ==
  /\ errand.at = "store"
  /\ errand' = [errand EXCEPT !.at = "fetch"]
  /\ cache' \in {[access |-> errand.token, boundTo |-> errand.login.refresh], cache}
  /\ UNCHANGED <<editor, item, moved>>

(* fetch_remote with the renewed token; a refusal discards it.             *)
FetchRenewed ==
  /\ errand.at = "fetch"
  /\ \/ /\ \E plan \in {errand.token, NoAccount} : Give(errand.token, plan)
        /\ UNCHANGED cache
     \/ GiveUp /\ cache' \in Discarded
  /\ UNCHANGED <<editor, item, moved>>

(* The snapshot is given, or the program ends.                             *)
EndErrand ==
  /\ errand # Resting /\ GiveUp
  /\ UNCHANGED <<editor, item, cache, moved>>

AntigravityNext ==
  \/ Editor \/ AskEditor \/ AskPlan \/ AskStatus
  \/ LoadToken \/ CollectCandidates \/ TryCandidate \/ RenewToken \/ StoreToken
  \/ FetchRenewed \/ EndErrand

AntigravitySpec == AntigravityInit /\ [][AntigravityNext]_antigravityVars

-----------------------------------------------------------------------------
(* What is shown without the editor is of the account of the login read in *)
(* this refresh, whatever was cached by earlier ones; and the plan is of   *)
(* the account of the quotas, unless the editor changed in between         *)
(* (refresh_inner).                                                        *)
AntigravityShowsOwn ==
  errand.at = "done" =>
    /\ errand.login # NoItem =>
         errand.quotas \in {errand.login.access, errand.login.refresh[1]}
    /\ errand.plan \in {errand.quotas, NoAccount} \/ moved
=============================================================================
