------------------------------ MODULE CliLogin ------------------------------
(***************************************************************************)
(* The logins the providers of subscriptions live on.  A command-line      *)
(* client (claude, codex, grok) stores them, renews them, replaces them    *)
(* and removes them whenever its user likes; OpenQuota reads them, renews  *)
(* them too and writes them back.  External: known from how the providers  *)
(* read and write these places and from the answers they expect of the     *)
(* server.                                                                 *)
(*                                                                         *)
(* A login is its account and the number of its pair of tokens.  To renew  *)
(* a pair is to rotate it: the server takes the old one back.              *)
(***************************************************************************)
EXTENDS Integers

CONSTANTS Accounts,   \* accounts of the user
          MaxIssued   \* bound: pairs of tokens ever issued

VARIABLES
  stored,    \* the login at each place, in the order the program tries them
  accepted,  \* pairs of tokens the server accepts for a renewal
  issued,    \* pairs issued so far
  w,         \* the worker of the provider: where it is, what it holds
  late,      \* places the client wrote after the worker's last look, before
             \* its write (history)
  explained, \* places whose lost login was followed by a warning that was
             \* shown, an error, or a crash (history)
  silent     \* places whose login was lost and of which, as refreshes go, the
             \* user was not told (history)

cliVars == <<stored, accepted, issued>>
losses == <<explained, silent>>
history == <<late, losses>>

Places == {1, 2}
NoAccount == "none"
NoLogin == [account |-> NoAccount, pair |-> 0]
Logins == [account : Accounts, pair : 1 .. MaxIssued]

CliInit ==
  /\ stored \in [Places -> {NoLogin} \union [account : Accounts, pair : Places]]
  /\ \A p \in Places : stored[p] # NoLogin => stored[p].pair = p
  /\ accepted = {stored[p].pair : p \in Places} \ {0} /\ issued = 2
  /\ late = {} /\ explained = {} /\ silent = {}

-----------------------------------------------------------------------------
(* The client                                                              *)

ClientStores(p, login) ==
  /\ stored' = [stored EXCEPT ![p] = login]
  /\ late' = IF w.at = "save" THEN late \union {p} ELSE late
  /\ explained' = explained \ {p} /\ silent' = silent \ {p}

ClientLogsIn(p, account) ==
  /\ issued < MaxIssued /\ issued' = issued + 1
  /\ accepted' = accepted \union {issued'}
  /\ ClientStores(p, [account |-> account, pair |-> issued'])

ClientRenews(p) ==
  /\ stored[p].pair \in accepted
  /\ issued < MaxIssued /\ issued' = issued + 1
  /\ accepted' = (accepted \ {stored[p].pair}) \union {issued'}
  /\ ClientStores(p, [stored[p] EXCEPT !.pair = issued'])

ClientLogsOut(p) ==
  /\ stored[p] # NoLogin
  /\ accepted' = accepted \ {stored[p].pair}
  /\ ClientStores(p, NoLogin)
  /\ UNCHANGED issued

-----------------------------------------------------------------------------
(* The server, asked to renew a login the program holds.                   *)

Rotate(login) ==
  /\ login.pair \in accepted
  /\ issued < MaxIssued /\ issued' = issued + 1
  /\ accepted' = (accepted \ {login.pair}) \union {issued'}

Refused(login) == login.pair \notin accepted

Lost(p) == stored[p] # NoLogin /\ stored[p].pair \notin accepted

-----------------------------------------------------------------------------
(* The ends of a refresh.  w.untold are the places whose warnings and      *)
(* errors it has dropped so far.                                           *)

KeepLosses ==
  /\ explained' = {p \in explained : Lost(p)}
  /\ silent' = {p \in silent : Lost(p)}

EndsInError ==
  /\ explained' = explained \union w.untold \union ({w.place} \ {0})
  /\ UNCHANGED silent

(* Usage is shown with the warnings of the login it is of.                 *)
Warned == IF w.warned THEN {w.place} ELSE {}
EndsInUsage ==
  /\ explained' = explained \union Warned
  /\ silent' = silent \union w.untold

(* load_candidates: the logins there are, in order.                        *)
FirstOf(logins) ==
  IF logins[1] # NoLogin THEN 1 ELSE IF logins[2] # NoLogin THEN 2 ELSE 0

NextAfter(logins, p) == IF p = 1 /\ logins[2] # NoLogin THEN 2 ELSE 0
=============================================================================
