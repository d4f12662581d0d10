--------------------------- MODULE Sub2ApiSession ---------------------------
(***************************************************************************)
(* A refresh of a Sub2API connection (providers/sub2api/mod.rs): a session *)
(* that is kept between refreshes, the pages of the server's accounts, and *)
(* two requests for each account, with one new login wherever the server   *)
(* refuses the token.  Commands change the connection meanwhile.           *)
(*                                                                         *)
(* A scope is what session_scope() tells apart: server, name, password and *)
(* upstream.  A token is its number, owner[n] the scope it was issued to.  *)
(* A session that has run out is one that is not there.                    *)
(***************************************************************************)
EXTENDS Integers, Sequences, SequencesExt

CONSTANTS Scopes, AccountIds,  \* connections; accounts a server may list
          PageSize,       \* accounts of a page
          MaxTokens       \* bound: tokens issued

VARIABLES
  config,    \* the connection in the keychain
  forgets,   \* a command has yet to drop the session
  session,   \* Sub2ApiProvider.session
  owner,     \* scope of each token issued
  honoured,  \* tokens the server still takes
  job        \* the refresh: where it is, what it has read

sessionVars == <<config, forgets, session, owner, honoured, job>>

NoScope == "no connection"
NoSession == [scope |-> NoScope, token |-> 0]
NoJob == [at |-> "idle", scope |-> NoScope, token |-> 0, logins |-> 0, then |-> "list",
          retried |-> FALSE, page |-> 1, known |-> <<>>, list |-> <<>>, changed |-> FALSE,
          usage |-> 0, read |-> <<>>]

(* What a server lists, in the order of the names.                         *)
Lists == UNION {{l \in [1 .. n -> AccountIds] : IsInjective(l)} : n \in 0 .. 2}

SessionInit ==
  /\ config \in Scopes \union {NoScope} /\ forgets = FALSE
  /\ session = NoSession
  /\ owner = <<>> /\ honoured = {}
  /\ job = NoJob

-----------------------------------------------------------------------------
(* The server and the commands.                                            *)
Revoke ==
  /\ \E t \in honoured : honoured' = honoured \ {t}
  /\ UNCHANGED <<config, forgets, session, owner, job>>

RunOut ==
  /\ session # NoSession /\ session' = NoSession
  /\ UNCHANGED <<config, forgets, owner, honoured, job>>

(* save_config and delete_config: the keychain, later the session.         *)
ChangeConfig ==
  /\ ~forgets
  /\ config' \in Scopes \union {NoScope} /\ forgets' = TRUE
  /\ UNCHANGED <<session, owner, honoured, job>>

ForgetSession ==
  /\ forgets /\ forgets' = FALSE
  /\ session' = NoSession
  /\ UNCHANGED <<config, owner, honoured, job>>

-----------------------------------------------------------------------------
(* A refresh.                                                              *)

LoadConfig ==
  /\ job = NoJob /\ config # NoScope
  /\ job' = [NoJob EXCEPT !.at = "session", !.scope = config]
  /\ UNCHANGED <<config, forgets, session, owner, honoured>>

(* Variant: whatever session is kept.                                      *)
FitsAny == session # NoSession

(* session(): the one that is kept, if it is of this scope.                *)
Fits == session.scope = job.scope

TakeSession ==
  /\ job.at = "session"
  /\ job' = IF Fits THEN [job EXCEPT !.at = "list", !.token = session.token]
                    ELSE [job EXCEPT !.at = "login"]
  /\ UNCHANGED <<config, forgets, session, owner, honoured>>

Connect ==
  /\ job.at = "login" /\ Len(owner) < MaxTokens
  /\ owner' = Append(owner, job.scope)
  /\ honoured' = honoured \union {Len(owner')}
  /\ job' = [job EXCEPT !.at = "keep", !.token = Len(owner'), !.logins = 1]
  /\ UNCHANGED <<config, forgets, session>>

KeepSession ==
  /\ job.at = "keep"
  /\ session' = [scope |-> job.scope, token |-> job.token]
  /\ job' = [job EXCEPT !.at = job.then]
  /\ UNCHANGED <<config, forgets, owner, honoured>>

(* The first refusal of a request brings a new login, the second ends it.  *)
Refused(next) ==
  /\ job.token \notin honoured
  /\ job' = IF job.retried THEN [job EXCEPT !.at = "refused"]
            ELSE [job EXCEPT !.at = "login", !.then = next, !.retried = TRUE,
                             !.page = 1, !.known = IF next = "list" THEN <<>> ELSE @]

Page(list, n) ==
  SubSeq(list, (n - 1) * PageSize + 1, IF n * PageSize < Len(list) THEN n * PageSize ELSE Len(list))

(* Variant: the first page is all.                                         *)
ListedOnce(list) ==
  job' = [job EXCEPT !.known = Page(list, 1), !.list = list, !.at = "usage", !.retried = FALSE]

(* The accounts of a page that are new: all, unless the list has changed.  *)
Added(page) ==
  IF ToSet(page) \intersect ToSet(job.known) = {} THEN page
  ELSE SelectSeq(page, LAMBDA a : a \notin ToSet(job.known))

(* One page; the server may list others than for the page before.          *)
Listed(list) ==
  LET known == job.known \o Added(Page(list, job.page))
      seen == [job EXCEPT !.known = known, !.list = list, !.page = @ + 1,
                          !.changed = job.page > 1 /\ (@ \/ list # job.list)]
  IN IF Len(known) >= Len(list) THEN job' = [seen EXCEPT !.at = "usage", !.retried = FALSE]
     ELSE IF Len(known) = Len(job.known) THEN job' = NoJob
     ELSE job' = seen

ListAccounts ==
  /\ job.at = "list"
  /\ \/ job.token \in honoured /\ \E list \in Lists : Listed(list)
     \/ Refused("list")
  /\ UNCHANGED <<config, forgets, session, owner, honoured>>

Account == job.known[Len(job.read) + 1]

(* Variant: no new login after the accounts are known.                     *)
FetchUsageOnce ==
  /\ job.at = "usage" /\ Len(job.read) < Len(job.known)
  /\ IF job.token \in honoured THEN job' = [job EXCEPT !.at = "stats", !.usage = job.token]
     ELSE job' = [job EXCEPT !.at = "refused"]
  /\ UNCHANGED <<config, forgets, session, owner, honoured>>

FetchUsage ==
  /\ job.at = "usage" /\ Len(job.read) < Len(job.known)
  /\ \/ job.token \in honoured /\ job' = [job EXCEPT !.at = "stats", !.usage = job.token]
     \/ Refused("usage")
  /\ UNCHANGED <<config, forgets, session, owner, honoured>>

FetchStats ==
  /\ job.at = "stats"
  /\ \/ /\ job.token \in honoured
        /\ job' = [job EXCEPT !.at = "usage", !.retried = FALSE, !.usage = 0,
                     !.read = Append(@, [id |-> Account, usage |-> job.usage,
                                         stats |-> job.token])]
     \/ Refused("usage")
  /\ UNCHANGED <<config, forgets, session, owner, honoured>>

Publish ==
  /\ job.at = "usage" /\ Len(job.read) = Len(job.known)
  /\ job' = [job EXCEPT !.at = "done"]
  /\ UNCHANGED <<config, forgets, session, owner, honoured>>

(* After an answer, an error of any request, or the end of the program.    *)
EndJob ==
  /\ job # NoJob /\ job' = NoJob
  /\ UNCHANGED <<config, forgets, session, owner, honoured>>

SessionNext ==
  \/ Revoke \/ RunOut \/ ChangeConfig \/ ForgetSession
  \/ LoadConfig \/ TakeSession \/ Connect \/ KeepSession
  \/ ListAccounts \/ FetchUsage \/ FetchStats \/ Publish \/ EndJob

SessionSpec == SessionInit /\ [][SessionNext]_sessionVars

-----------------------------------------------------------------------------
(* A snapshot is of the connection the refresh began with, although others *)
(* were stored and sessions dropped and kept meanwhile; it has every       *)
(* account of the server once, unless the list changed between two pages   *)
(* ("Publish only complete connection snapshots").                         *)
SnapshotComplete ==
  job.at = "done" =>
    /\ \A i \in 1 .. Len(job.read) :
         \A t \in {job.read[i].usage, job.read[i].stats} : owner[t] = job.scope
    /\ ~job.changed => [i \in 1 .. Len(job.read) |-> job.read[i].id] = job.list

(* A session the server no longer takes does not fail a refresh: another   *)
(* login has been tried (refresh_snapshot).                                *)
RefusedAfterLogin == job.at = "refused" => job.logins = 1
=============================================================================
