----------------------------- MODULE GrokLogin -----------------------------
(***************************************************************************)
(* A refresh of Grok (providers/grok/mod.rs, auth.rs): the entries of one  *)
(* document are the logins.  A pair is renewed without a look at the       *)
(* document; the write reads it again for the sake of the other entries,   *)
(* or takes the one it read or wrote last when the file is gone.  A        *)
(* renewal ahead of time that fails is only logged while the pair still    *)
(* serves.  Settings and local usage logs are left out.                    *)
(***************************************************************************)
EXTENDS CliLogin

grokVars == <<cliVars, w, history>>

Nothing == [p \in Places |-> NoLogin]
(* kept is the document of the state of this candidate, document the one   *)
(* to be written; gone tells that there was no file.                       *)
Idle == [at |-> "idle", place |-> 0, login |-> NoLogin, read |-> Nothing, kept |-> Nothing,
         document |-> Nothing, gone |-> FALSE, new |-> 0, renewed |-> FALSE, warned |-> FALSE,
         untold |-> {}]

GrokInit == CliInit /\ w = Idle

Client ==
  /\ \E p \in Places :
       \/ \E a \in Accounts : ClientLogsIn(p, a)
       \/ ClientRenews(p) \/ ClientLogsOut(p)
  /\ UNCHANGED w

-----------------------------------------------------------------------------
GiveUp == w' = Idle /\ EndsInError

Candidate(logins, p, untold) ==
  [Idle EXCEPT !.at = "try", !.place = p, !.login = logins[p], !.read = logins, !.kept = logins,
               !.untold = untold]

(* Expired, InvalidAuth: the next candidate, else the error.  If the next  *)
(* one serves, nothing is said of this one.                                *)
TryNext ==
  LET p == NextAfter(w.read, w.place)
  IN IF p = 0 THEN GiveUp
     ELSE w' = Candidate(w.read, p, w.untold \union {w.place}) /\ UNCHANGED losses

LoadCandidates ==
  /\ w.at = "idle" /\ FirstOf(stored) # 0
  /\ w' = Candidate(stored, FirstOf(stored), {})
  /\ KeepLosses
  /\ UNCHANGED <<cliVars, late>>

NeedsRefresh ==
  /\ w.at = "try"
  /\ w' \in {[w EXCEPT !.at = to] : to \in {"renew", "fetch"}}
  /\ UNCHANGED <<cliVars, history>>

(* Ahead of time a failure matters only for a pair that has expired, and   *)
(* is only logged otherwise; after refused access it ends the attempt.     *)
RenewalFails(refused) ==
  \/ /\ ~w.renewed /\ w' = [w EXCEPT !.at = "fetch", !.untold = @ \union {w.place}]
     /\ UNCHANGED losses
  \/ (~w.renewed \/ refused) /\ TryNext
  \/ w.renewed /\ ~refused /\ GiveUp

(* refresh_access_token asks for another pair.                             *)
AskToRenew ==
  /\ w.at = "renew"
  /\ \/ Rotate(w.login) /\ w' = [w EXCEPT !.at = "check", !.new = issued'] /\ UNCHANGED losses
     \/ Rotate(w.login) /\ RenewalFails(FALSE)          \* the answer is lost
     \/ RenewalFails(Refused(w.login)) /\ UNCHANGED <<accepted, issued>>
  /\ UNCHANGED <<stored, late>>

(* Variant: the document of the start is written back.                     *)
WriteBackOld ==
  /\ w.at = "check"
  /\ w' = [w EXCEPT !.at = "save", !.document = w.read]
  /\ UNCHANGED <<cliVars, history>>

(* save reads the document again; without any entry it may be gone, and    *)
(* the one of the state takes its place ...                                *)
ReadAgain ==
  /\ w.at = "check"
  /\ \/ w' = [w EXCEPT !.at = "save", !.document = stored]
     \/ stored = Nothing /\ w' = [w EXCEPT !.at = "save", !.document = w.kept, !.gone = TRUE]
  /\ UNCHANGED <<cliVars, history>>

GoOn(kept, warned) ==
  w' = [w EXCEPT !.at = "fetch", !.login.pair = w.new, !.new = 0, !.kept = kept,
                 !.document = Nothing, !.gone = FALSE, !.warned = @ \/ warned]

(* ... and writes it with the new pair; reading or writing may fail.  What *)
(* the client wrote in between, or removed with the file, is put back.     *)
SavePair ==
  /\ w.at = "save"
  /\ \/ /\ stored' = [w.document EXCEPT ![w.place] = [w.login EXCEPT !.pair = w.new]]
        /\ GoOn(stored', FALSE)
        /\ silent' = silent \union {p \in Places : stored[p] # w.document[p]}
     \/ GoOn(w.kept, TRUE) /\ UNCHANGED <<stored, silent>>
  /\ late' = {}
  /\ UNCHANGED <<accepted, issued, explained>>

Unauthorized ==
  /\ w.at = "fetch" /\ ~w.renewed
  /\ w' = [w EXCEPT !.at = "renew", !.renewed = TRUE]
  /\ UNCHANGED <<cliVars, history>>

Answer ==
  /\ w.at = "fetch"
  /\ \/ w' = Idle /\ EndsInUsage
     \/ w.renewed /\ TryNext
     \/ GiveUp
  /\ UNCHANGED <<cliVars, late>>

Relaunch ==
  /\ w' = Idle
  /\ EndsInError /\ late' = {}
  /\ UNCHANGED cliVars

GrokNext ==
  \/ Client \/ LoadCandidates \/ NeedsRefresh \/ AskToRenew \/ ReadAgain \/ SavePair
  \/ Unauthorized \/ Answer \/ Relaunch

GrokSpec == GrokInit /\ [][GrokNext]_grokVars

-----------------------------------------------------------------------------
(* A write leaves the other entries as the client has them, but for what   *)
(* the client wrote between save's reading and its writing, and but for a  *)
(* document the client had removed whole, whose entries come back.  Of its *)
(* own entry it keeps nothing: a login the client stored there is          *)
(* overwritten (save).                                                     *)
GrokKeeps ==
  w.at = "save" /\ w'.at = "fetch" =>
    \A p \in Places \ {w.place} :
      stored'[p] = stored[p] \/ p \in late \/ (w.gone /\ stored[p] = NoLogin)

(* Of an entry the server no longer renews the user was told, by a warning *)
(* or the error of the refresh that lost it, or is told when it ends;      *)
(* unless it crashed, what it had to say was only logged or dropped for    *)
(* the usage of a later candidate, or the write put the entry back.        *)
GrokLossExplained ==
  \A p \in Places : Lost(p) =>
    \/ p \in explained \union silent \union w.untold
    \/ w.place = p /\ (w.at \in {"check", "save"} \/ w.warned)
=============================================================================
