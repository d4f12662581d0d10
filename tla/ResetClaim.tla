----------------------------- MODULE ResetClaim -----------------------------
(***************************************************************************)
(* Spending a credit that resets the limits of Codex, from the detail of   *)
(* the page (ResetCreditsDetail.svelte) over the claim service             *)
(* (providers/codex/reset_claim.rs) to the server, which is external and   *)
(* answers a request repeated for the same credit with "already redeemed". *)
(*                                                                         *)
(* The page knows a credit by its expiry only, and several may share one.  *)
(* An answer may be lost after the server acted on the request; the page   *)
(* then offers to try again, with the request id of the first try.  Logins *)
(* the server refuses are tried in turn and are part of a request that     *)
(* fails.  The cache of 256 ids is not filled by one user.                 *)
(***************************************************************************)
EXTENDS Integers, FiniteSets

CONSTANTS Credits,     \* credits of the account
          Expiries,    \* their expiries
          MaxRequests  \* bound: request ids ever made

NoCredit == "noCreditId"
NoExpiry == "none"
Ids == 1 .. MaxRequests

(* No credit and no expiry is called as what stands for none.              *)
ASSUME ClaimAssumption ==
  MaxRequests \in Nat /\ NoCredit \notin Credits /\ NoExpiry \notin Expiries

VARIABLES
  expiryOf,    \* when each credit expires
  spent,       \* the request each credit was spent by, 0 while available
  requestIds,  \* the id the page keeps for an expiry, 0 when none
  made,        \* ids made so far
  confirming,  \* the expiry the page asks about
  pending,     \* the request whose answer the page waits for, 0 when none
  claims,      \* for each request what the service does for it
  matched,     \* matched_credit_ids
  outcome      \* what the page last showed, for which request

claimVars ==
  <<expiryOf, spent, requestIds, made, confirming, pending, claims, matched, outcome>>

NoClaim == [at |-> "none", expiry |-> NoExpiry, credit |-> NoCredit]
NoOutcome == [id |-> 0, is |-> "none"]

ClaimInit ==
  /\ expiryOf \in [Credits -> Expiries]
  /\ spent = [c \in Credits |-> 0]
  /\ requestIds = [e \in Expiries |-> 0] /\ made = 0
  /\ confirming = NoExpiry /\ pending = 0
  /\ claims = [i \in Ids |-> NoClaim]
  /\ matched = [i \in Ids |-> NoCredit] /\ outcome = NoOutcome

-----------------------------------------------------------------------------
(* The page                                                                *)

(* beginClaim: a failed claim of the same expiry is tried again.           *)
BeginClaim(e) ==
  /\ pending = 0
  /\ confirming' = e /\ outcome' = NoOutcome
  /\ IF requestIds[e] # 0 THEN UNCHANGED <<requestIds, made>>
     ELSE /\ made < MaxRequests /\ made' = made + 1
          /\ requestIds' = [requestIds EXCEPT ![e] = made']
  /\ UNCHANGED <<expiryOf, spent, pending, claims, matched>>

CancelClaim ==
  /\ confirming # NoExpiry /\ pending = 0
  /\ confirming' = NoExpiry
  /\ UNCHANGED <<expiryOf, spent, requestIds, made, pending, claims, matched, outcome>>

(* confirmClaim; a request whose credit is known skips the list.           *)
ConfirmClaim ==
  /\ confirming # NoExpiry /\ pending = 0
  /\ pending' = requestIds[confirming]
  /\ claims' = [claims EXCEPT ![pending'] =
       [at |-> IF matched[pending'] = NoCredit THEN "list" ELSE "consume",
        expiry |-> confirming, credit |-> matched[pending']]]
  /\ UNCHANGED <<expiryOf, spent, requestIds, made, confirming, matched, outcome>>

(* The detail is closed.  A claim under way goes on and nobody hears of    *)
(* its outcome; the credit is asked for again under another request.       *)
CloseDetail ==
  /\ requestIds' = [e \in Expiries |-> 0]
  /\ confirming' = NoExpiry /\ pending' = 0 /\ outcome' = NoOutcome
  /\ UNCHANGED <<expiryOf, spent, made, claims, matched>>

(* The outcome reaches a page that waits: only a failure keeps the id.     *)
Answer(id, is) ==
  /\ claims' = [claims EXCEPT ![id] = NoClaim]
  /\ IF pending # id THEN UNCHANGED <<requestIds, confirming, pending, outcome>>
     ELSE /\ outcome' = [id |-> id, is |-> is]
          /\ pending' = 0 /\ confirming' = NoExpiry
          /\ requestIds' = IF is = "failed" THEN requestIds
                           ELSE [requestIds EXCEPT ![claims[id].expiry] = 0]

-----------------------------------------------------------------------------
(* The claim service                                                       *)

Available(c, e) == spent[c] = 0 /\ expiryOf[c] = e

Matched(id, c) ==
  /\ Available(c, claims[id].expiry)
  /\ claims' = [claims EXCEPT ![id] = [@ EXCEPT !.at = "consume", !.credit = c]]
  /\ UNCHANGED <<requestIds, confirming, pending, outcome>>

NoneMatches(id) ==
  \/ (\A c \in Credits : ~Available(c, claims[id].expiry)) /\ Answer(id, "noCredit")
  \/ Answer(id, "failed")

(* Variant: the credit is looked up anew for every try.                    *)
ListUncached(id) ==
  /\ claims[id].at = "list"
  /\ (NoneMatches(id) \/ \E c \in Credits : Matched(id, c))
  /\ UNCHANGED <<expiryOf, spent, made, matched>>

(* A credit that is available and expires then is the one of this request  *)
(* from now on.                                                            *)
ListCredits(id) ==
  /\ claims[id].at = "list"
  /\ \/ \E c \in Credits : Matched(id, c) /\ matched' = [matched EXCEPT ![id] = c]
     \/ NoneMatches(id) /\ UNCHANGED matched
  /\ UNCHANGED <<expiryOf, spent, made>>

(* consume_reset_credit and outcome_from_consume; the request or its       *)
(* answer may be lost.                                                     *)
Consume(id) ==
  /\ claims[id].at = "consume"
  /\ LET c == claims[id].credit
     IN \/ /\ spent[c] = 0 /\ spent' = [spent EXCEPT ![c] = id]
           /\ \E is \in {"success", "failed"} : Answer(id, is)
        \/ spent[c] = id /\ Answer(id, "success") /\ UNCHANGED spent
        \/ spent[c] \notin {0, id} /\ Answer(id, "noCredit") /\ UNCHANGED spent
        \/ spent[c] = 0 /\ Answer(id, "nothingToReset") /\ UNCHANGED spent
        \/ Answer(id, "failed") /\ UNCHANGED spent
  /\ UNCHANGED <<expiryOf, made, matched>>

(* The program ends and is launched again; with it the page.               *)
Relaunch ==
  /\ requestIds' = [e \in Expiries |-> 0]
  /\ confirming' = NoExpiry /\ pending' = 0 /\ outcome' = NoOutcome
  /\ claims' = [i \in Ids |-> NoClaim] /\ matched' = [i \in Ids |-> NoCredit]
  /\ UNCHANGED <<expiryOf, spent, made>>

ClaimNext ==
  \/ \E e \in Expiries : BeginClaim(e)
  \/ CancelClaim \/ ConfirmClaim \/ CloseDetail
  \/ \E id \in Ids : (ListCredits(id) \/ Consume(id))
  \/ Relaunch

ClaimSpec == ClaimInit /\ [][ClaimNext]_claimVars

-----------------------------------------------------------------------------
(* However often a claim fails and is tried again, it spends one credit at *)
(* most; success is shown only when it spent one, and that the credit is   *)
(* gone or that there was nothing to reset only when it spent none.        *)
OneCreditPerClaim ==
  /\ \A c, d \in Credits : spent[c] # 0 /\ spent[c] = spent[d] => c = d
  /\ outcome.id # 0 =>
       LET spends == \E c \in Credits : spent[c] = outcome.id
       IN /\ outcome.is = "success" => spends
          /\ outcome.is \in {"noCredit", "nothingToReset"} => ~spends
=============================================================================
