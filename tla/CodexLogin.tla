----------------------------- MODULE CodexLogin -----------------------------
(***************************************************************************)
(* A refresh of Codex (providers/codex/mod.rs, auth.rs): the login of each *)
(* file, or of the keychain, holds its account, and the worker reads it    *)
(* again before it renews it, before it writes it and before it answers.   *)
(* Reset credits, the profile and local usage logs are left out; the last  *)
(* answer and the check that follows it are one step.                      *)
(***************************************************************************)
EXTENDS CliLogin

codexVars == <<cliVars, w, history>>

Idle == [at |-> "idle", place |-> 0, login |-> NoLogin, read |-> [p \in Places |-> NoLogin],
         identity |-> NoAccount, new |-> 0, fresh |-> FALSE, renewed |-> FALSE, warned |-> FALSE,
         untold |-> {}]

CodexInit == CliInit /\ w = Idle

Client ==
  /\ \E p \in Places :
       \/ \E a \in Accounts : ClientLogsIn(p, a)
       \/ ClientRenews(p) \/ ClientLogsOut(p)
  /\ UNCHANGED w

-----------------------------------------------------------------------------
GiveUp == w' = Idle /\ EndsInError

Candidate(logins, p, untold) ==
  [Idle EXCEPT !.at = "try", !.place = p, !.login = logins[p], !.read = logins,
               !.identity = logins[p].account, !.untold = untold]

(* SessionExpired, TokenExpired, TokenConflict, TokenRevoked: the next     *)
(* candidate, else the error.  If the next one serves, nothing is said of  *)
(* this one.                                                               *)
TryNext ==
  LET p == NextAfter(w.read, w.place)
  IN IF p = 0 THEN GiveUp
     ELSE w' = Candidate(w.read, p, w.untold \union {w.place}) /\ UNCHANGED losses

LoadCandidates ==
  /\ w.at = "idle" /\ FirstOf(stored) # 0
  /\ w' = Candidate(stored, FirstOf(stored), {})
  /\ KeepLosses
  /\ UNCHANGED <<cliVars, late>>

SameAccount == stored[w.place].account = w.identity

(* A login about to expire is read again, if it can be; another account    *)
(* ends the refresh.  What was read may not need to be renewed any more.   *)
Reload ==
  /\ w.at = "try"
  /\ \/ w' = [w EXCEPT !.at = "fetch"] /\ UNCHANGED losses
     \/ /\ stored[w.place] # NoLogin
        /\ IF SameAccount
             THEN w' \in {[w EXCEPT !.at = to, !.login = stored[w.place]] : to \in {"renew", "fetch"}}
                  /\ UNCHANGED losses
             ELSE GiveUp
     \/ stored[w.place] = NoLogin /\ w' = [w EXCEPT !.at = "renew"] /\ UNCHANGED losses
  /\ UNCHANGED <<cliVars, late>>

(* refresh_access_token asks for another pair.                             *)
AskToRenew ==
  /\ w.at = "renew"
  /\ \/ Rotate(w.login) /\ w' = [w EXCEPT !.at = "check", !.new = issued'] /\ UNCHANGED losses
     \/ Rotate(w.login) /\ GiveUp                       \* the answer is lost
     \/ Refused(w.login) /\ TryNext /\ UNCHANGED <<accepted, issued>>
     \/ GiveUp /\ UNCHANGED <<accepted, issued>>        \* the request fails
  /\ UNCHANGED <<stored, late>>

(* Variant: update_and_save without the comparison.                        *)
StoreUnchecked ==
  /\ w.at = "check"
  /\ w' = [w EXCEPT !.at = "save"]
  /\ UNCHANGED <<cliVars, history>>

(* update_and_save_if_current: the document is the one that was read.      *)
CheckCurrent ==
  /\ w.at = "check"
  /\ IF stored[w.place] = w.login THEN w' = [w EXCEPT !.at = "save"] /\ UNCHANGED losses
     ELSE GiveUp
  /\ UNCHANGED <<cliVars, late>>

GoOn(warned) ==
  w' = [w EXCEPT !.at = "fetch", !.login.pair = w.new, !.new = 0, !.warned = @ \/ warned]

(* The write may fail; the new pair is used all the same.                  *)
SavePair ==
  /\ w.at = "save"
  /\ \/ stored' = [stored EXCEPT ![w.place] = [w.login EXCEPT !.pair = w.new]] /\ GoOn(FALSE)
     \/ GoOn(TRUE) /\ UNCHANGED stored
  /\ late' = {}
  /\ UNCHANGED <<accepted, issued, losses>>

(* Refused access: another pair and another request, once.                 *)
Unauthorized ==
  /\ w.at = "fetch" /\ ~w.renewed
  /\ w' = [w EXCEPT !.at = "renew", !.renewed = TRUE]
  /\ UNCHANGED <<cliVars, history>>

(* Usage is answered for the account that is still logged in there.        *)
Answer ==
  /\ w.at = "fetch"
  /\ \/ SameAccount /\ w' = [w EXCEPT !.at = "finish"] /\ UNCHANGED losses
     \/ ~SameAccount /\ GiveUp
     \/ w.renewed /\ TryNext
     \/ GiveUp
  /\ UNCHANGED <<cliVars, late>>

Finish ==
  /\ w.at = "finish"
  /\ w' = Idle
  /\ EndsInUsage
  /\ UNCHANGED <<cliVars, late>>

Relaunch ==
  /\ w' = Idle
  /\ EndsInError /\ late' = {}
  /\ UNCHANGED cliVars

CodexNext ==
  \/ Client \/ LoadCandidates \/ Reload \/ AskToRenew \/ CheckCurrent \/ SavePair
  \/ Unauthorized \/ Answer \/ Finish \/ Relaunch

CodexSpec == CodexInit /\ [][CodexNext]_codexVars

-----------------------------------------------------------------------------
(* The usage is of the account it is shown under, although the login was   *)
(* read again and renewed on the way (refresh_candidate).                  *)
CodexShowsOwn == w.at = "finish" => w.login.account = w.identity

(* What a write of the program replaces is the login it has renewed, or    *)
(* one the client wrote between the comparison and the write               *)
(* (update_and_save_if_current).                                           *)
CodexKeeps ==
  w.at = "save" /\ w'.at = "fetch" /\ stored' # stored
    => stored[w.place] = w.login \/ w.place \in late

(* Of a login on disk that the server no longer renews the user was told,  *)
(* by a warning or the error of the refresh that lost it, or is told when  *)
(* it ends; unless it crashed, or what it had to say was dropped for the   *)
(* usage of a later candidate.                                             *)
CodexLossExplained ==
  \A p \in Places : Lost(p) =>
    \/ p \in explained \union silent \union w.untold
    \/ w.place = p /\ (w.at \in {"check", "save"} \/ w.warned)
=============================================================================
