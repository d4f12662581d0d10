---------------------------- MODULE CursorLogin ----------------------------
(***************************************************************************)
(* A refresh of Cursor (providers/cursor/mod.rs, auth.rs).  The editor     *)
(* keeps an access token, a refresh token and the membership in rows of a  *)
(* database, its command-line client the two tokens in the keychain; each  *)
(* value is read on its own.  A renewal brings another access token of the *)
(* account of the refresh token, and the program writes that one value     *)
(* back, to where it read the others.                                      *)
(*                                                                         *)
(* A token is the account it is of.  Pricing and the forms of the answer   *)
(* are left out; the requests after the usage are one step, as they depend *)
(* on the token in memory only.                                            *)
(***************************************************************************)
EXTENDS Integers, Sequences

CONSTANT Accounts

VARIABLES
  values,    \* what the database and the keychain hold
  worker,    \* the refresh: where it is, what it has read and fetched
  overtaken  \* places the client wrote since their refresh token was read
             \* (history)

cursorVars == <<values, worker, overtaken>>

NoToken == "no token"
Places == {1, 2}   \* CursorAuthSource: Sqlite, Keychain
Access == <<"access", "keychain access">>
Refresh == <<"refresh", "keychain refresh">>
Items == <<"access", "refresh", "membership", "keychain access", "keychain refresh">>

Tokens == Accounts \union {NoToken}
Logins == {l \in [access : Tokens, refresh : Tokens] : l.refresh \in {l.access, NoToken}}

Nothing == [i \in {Items[n] : n \in 1 .. 5} |-> NoToken]
Idle == [at |-> "read", next |-> 1, read |-> Nothing, place |-> 0, access |-> NoToken,
         refresh |-> NoToken, token |-> NoToken, new |-> NoToken, retried |-> FALSE,
         usage |-> NoToken, rest |-> NoToken]

Holding(p, login, held) ==
  [held EXCEPT ![Access[p]] = login.access, ![Refresh[p]] = login.refresh]

CursorInit ==
  /\ \E one, other \in Logins, membership \in {"free", "paid"} :
       values = Holding(1, one, Holding(2, other, [Nothing EXCEPT !["membership"] = membership]))
  /\ worker = Idle /\ overtaken = {}

-----------------------------------------------------------------------------
(* The editor and the command-line client: logins and logouts.             *)
Client ==
  \E p \in Places, login \in Logins, membership \in {"free", "paid"} :
    /\ values' = [Holding(p, login, values) EXCEPT
                    !["membership"] = IF p = 1 THEN membership ELSE @]
    /\ overtaken' = overtaken \union {p}
    /\ UNCHANGED worker

-----------------------------------------------------------------------------
(* load: one value after another.                                          *)
Read ==
  LET item == Items[worker.next]
  IN /\ worker.at = "read"
     /\ worker' = [worker EXCEPT !.read[item] = values[item], !.next = @ + 1,
                                 !.at = IF worker.next = Len(Items) THEN "select" ELSE "read"]
     /\ overtaken' = {p \in overtaken : Refresh[p] # item}
     /\ UNCHANGED values

LoggedIn(p) == \E i \in {Access[p], Refresh[p]} : worker.read[i] # NoToken

(* Two access tokens, of different accounts.                               *)
SubjectsDiffer ==
  /\ \A p \in Places : worker.read[Access[p]] # NoToken
  /\ worker.read[Access[1]] # worker.read[Access[2]]

Selected ==
  {p \in Places : /\ LoggedIn(p)
                  /\ IF worker.read["membership"] = "free" /\ SubjectsDiffer THEN p = 2
                     ELSE p = 2 => ~LoggedIn(1)}

GiveUp == worker' = Idle
FetchWith(state) == [state EXCEPT !.at = "fetch", !.token = state.access]

(* select_auth_state; a token that has expired, or none, is renewed first. *)
SelectAuthState ==
  /\ worker.at = "select"
  /\ \/ Selected = {} /\ GiveUp
     \/ \E p \in Selected :
          LET auth == [Idle EXCEPT !.place = p, !.access = worker.read[Access[p]],
                                   !.refresh = worker.read[Refresh[p]]]
          IN \/ worker' = [auth EXCEPT !.at = "renew"]
             \/ auth.access # NoToken /\ worker' = FetchWith(auth)
  /\ UNCHANGED <<values, overtaken>>

(* Ahead of time, a renewal that fails matters only without a token.       *)
RenewalFails ==
  IF worker.retried \/ worker.access = NoToken THEN GiveUp ELSE worker' = FetchWith(worker)

(* refresh_access_token: another access token, or a refusal, or neither.   *)
RefreshAccessToken ==
  /\ worker.at = "renew"
  /\ \/ /\ worker.refresh # NoToken
        /\ worker' = [worker EXCEPT !.at = "save", !.new = worker.refresh]
     \/ RenewalFails
  /\ UNCHANGED <<values, overtaken>>

GoOn ==
  LET renewed == [worker EXCEPT !.access = worker.new, !.new = NoToken]
  IN worker' = IF worker.retried THEN [renewed EXCEPT !.at = "fetch"] ELSE FetchWith(renewed)

(* Variant: the token is always written to the database.                   *)
SaveToDatabase ==
  /\ worker.at = "save" /\ GoOn
  /\ values' \in {[values EXCEPT !["access"] = worker.new], values}
  /\ UNCHANGED overtaken

(* save_access_token, to where the login was read from.  When it fails the *)
(* token serves this refresh only.                                         *)
SaveAccessToken ==
  /\ worker.at = "save" /\ GoOn
  /\ values' \in {[values EXCEPT ![Access[worker.place]] = worker.new], values}
  /\ UNCHANGED overtaken

(* fetch_usage_with_retry.                                                 *)
FetchUsage ==
  /\ worker.at = "fetch"
  /\ \/ worker' = [worker EXCEPT !.at = "rest",
                                 !.usage = IF worker.retried THEN worker.access ELSE worker.token]
     \/ ~worker.retried /\ worker' = [worker EXCEPT !.at = "renew", !.retried = TRUE]
     \/ GiveUp
  /\ UNCHANGED <<values, overtaken>>

(* Variant: with the token the refresh began with.                         *)
FetchRestAsBegun ==
  /\ worker.at = "rest"
  /\ worker' = [worker EXCEPT !.at = "done", !.rest = worker.token]
  /\ UNCHANGED <<values, overtaken>>

(* The plan, the credits, the balance and the history.                     *)
FetchRest ==
  /\ worker.at = "rest"
  /\ worker' = [worker EXCEPT !.at = "done", !.rest = worker.access]
  /\ UNCHANGED <<values, overtaken>>

(* A snapshot, or the end of the program at any time.                      *)
Finish ==
  /\ worker # Idle /\ GiveUp
  /\ UNCHANGED <<values, overtaken>>

CursorNext ==
  \/ Client \/ Read \/ SelectAuthState \/ RefreshAccessToken \/ SaveAccessToken
  \/ FetchUsage \/ FetchRest \/ Finish

CursorSpec == CursorInit /\ [][CursorNext]_cursorVars

-----------------------------------------------------------------------------
(* The parts of a snapshot are of one account, although the two tokens may *)
(* have been read before and after a login, and the one renewed in between *)
(* (refresh_with_auth).                                                    *)
CursorShowsOwn == worker.at = "done" => worker.usage = worker.rest

(* The token written is of the account of the refresh token beside it,     *)
(* unless the client wrote there since that was read, and the other place  *)
(* is left alone (save_access_token).                                      *)
CursorKeeps ==
  worker.at = "save" /\ worker'.at = "fetch" /\ values' # values =>
    \A p \in Places :
      IF p = worker.place
        THEN p \in overtaken \/ values'[Access[p]] = values'[Refresh[p]]
        ELSE values'[Access[p]] = values[Access[p]]
=============================================================================
