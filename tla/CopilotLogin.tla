---------------------------- MODULE CopilotLogin ----------------------------
(***************************************************************************)
(* A refresh of Copilot (providers/copilot/mod.rs, auth.rs): the logins    *)
(* found in several places are tried one after another, and the billing of *)
(* a seat an organisation manages is asked of the organisation remembered  *)
(* from an earlier refresh, else of every one the account is a member of.  *)
(*                                                                         *)
(* A login is the account it is of.  The lookup has a budget of time,      *)
(* which may be used up before any of its requests.                        *)
(***************************************************************************)
EXTENDS Integers, Sequences, FiniteSets, SequencesExt

CONSTANTS Accounts, Orgs,
          NumPlaces   \* where a login may be found

VARIABLES
  found,       \* the login of each place
  valid,       \* accounts whose login the server takes
  bills,       \* per account: organisations whose billing it may read
  remembered,  \* CopilotProvider.cached_org
  visit,       \* the refresh: where it is, what it has read
  stirred      \* a login or a right has changed since it began (history)

copilotVars == <<found, valid, bills, remembered, visit, stirred>>

NoAccount == "no account"
NoOrg == "no organisation"
Places == 1 .. NumPlaces

NoVisit == [at |-> "idle", place |-> 1, seen |-> {}, usage |-> NoAccount, managed |-> FALSE,
            left |-> <<>>, org |-> NoOrg, flawed |-> FALSE]

CopilotInit ==
  /\ found \in [Places -> Accounts \union {NoAccount}]
  /\ valid = Accounts /\ bills \in [Accounts -> SUBSET Orgs]
  /\ remembered = NoOrg /\ visit = NoVisit /\ stirred = FALSE

-----------------------------------------------------------------------------
(* The editors, the GitHub client and the server.                          *)
Toggle(x, S) == IF x \in S THEN S \ {x} ELSE S \union {x}

Others ==
  /\ \/ /\ \E p \in Places, a \in Accounts \union {NoAccount} : found' = [found EXCEPT ![p] = a]
        /\ UNCHANGED <<valid, bills>>
     \/ /\ \E a \in Accounts : valid' = Toggle(a, valid)
        /\ UNCHANGED <<found, bills>>
     \/ /\ \E a \in Accounts, o \in Orgs : bills' = [bills EXCEPT ![a] = Toggle(o, @)]
        /\ UNCHANGED <<found, valid>>
  /\ stirred' = TRUE
  /\ UNCHANGED <<remembered, visit>>

-----------------------------------------------------------------------------
(* The logins.                                                             *)
Visit ==
  /\ visit = NoVisit
  /\ visit' = [NoVisit EXCEPT !.at = "visit"] /\ stirred' = FALSE
  /\ UNCHANGED <<found, valid, bills, remembered>>

Candidate == found[visit.place]
Onward == [visit EXCEPT !.place = @ + 1]

(* visit_candidate(): no login here, or one that was tried before.         *)
PassOver ==
  /\ visit.at = "visit" /\ visit.place <= NumPlaces
  /\ Candidate \in visit.seen \union {NoAccount}
  /\ visit' = Onward
  /\ UNCHANGED <<found, valid, bills, remembered, stirred>>

(* fetch_usage(): taken, or refused; EndVisit is any other failure.        *)
TryLogin ==
  /\ visit.at = "visit" /\ visit.place <= NumPlaces
  /\ Candidate \notin visit.seen \union {NoAccount}
  /\ IF Candidate \in valid
       THEN \E managed \in BOOLEAN :
              visit' = [visit EXCEPT !.at = IF managed THEN "remembered" ELSE "done",
                                     !.usage = Candidate, !.managed = managed]
       ELSE visit' = [Onward EXCEPT !.seen = @ \union {Candidate}]
  /\ UNCHANGED <<found, valid, bills, remembered, stirred>>

NoneLeft ==
  /\ visit.at = "visit" /\ visit.place > NumPlaces
  /\ visit' = [visit EXCEPT !.at = "failed"]
  /\ UNCHANGED <<found, valid, bills, remembered, stirred>>

-----------------------------------------------------------------------------
(* The billing: org_billing_metrics().                                     *)
Billed(org) == visit' = [visit EXCEPT !.at = "done", !.org = org, !.left = <<>>]
Unbilled == visit' = [visit EXCEPT !.at = "done", !.left = <<>>, !.flawed = TRUE]

(* Variant: an organisation without usage is remembered all the same.      *)
AskRememberedOnly ==
  /\ visit.at = "remembered"
  /\ IF remembered = NoOrg THEN visit' = [visit EXCEPT !.at = "orgs"]
     ELSE \/ remembered \in bills[visit.usage] /\ Billed(remembered)
          \/ remembered \notin bills[visit.usage] /\ Billed(NoOrg)
          \/ Unbilled
  /\ UNCHANGED <<found, valid, bills, remembered, stirred>>

AskRemembered ==
  /\ visit.at = "remembered"
  /\ IF remembered = NoOrg
       THEN visit' = [visit EXCEPT !.at = "orgs"] /\ UNCHANGED remembered
       ELSE \/ /\ remembered \in bills[visit.usage] /\ Billed(remembered)
               /\ UNCHANGED remembered
            \/ /\ remembered \notin bills[visit.usage]
               /\ visit' = [visit EXCEPT !.at = "orgs"] /\ remembered' = NoOrg
            \/ Unbilled /\ UNCHANGED remembered
  /\ UNCHANGED <<found, valid, bills, stirred>>

(* fetch_orgs(): those the account is a member of, in any order.           *)
FetchOrgs ==
  /\ visit.at = "orgs"
  /\ \/ \E list \in SetToSeqs(Orgs) : visit' = [visit EXCEPT !.at = "each", !.left = list]
     \/ Unbilled
  /\ UNCHANGED <<found, valid, bills, remembered, stirred>>

AskOrg ==
  /\ visit.at = "each"
  /\ IF visit.left = <<>> THEN Billed(NoOrg) /\ UNCHANGED remembered
     ELSE LET org == Head(visit.left)
          IN \/ org \in bills[visit.usage] /\ Billed(org) /\ remembered' = org
             \/ /\ org \notin bills[visit.usage]
                /\ visit' = [visit EXCEPT !.left = Tail(@)] /\ UNCHANGED remembered
             \/ /\ visit' = [visit EXCEPT !.left = Tail(@), !.flawed = TRUE]
                /\ UNCHANGED remembered
             \/ Unbilled /\ UNCHANGED remembered
  /\ UNCHANGED <<found, valid, bills, stirred>>

(* The refresh ends, at any step if a request fails; the program may be   *)
(* started anew.                                                           *)
EndVisit ==
  /\ visit # NoVisit /\ visit' = NoVisit
  /\ remembered' \in {remembered, NoOrg}
  /\ UNCHANGED <<found, valid, bills, stirred>>

CopilotNext ==
  \/ Others \/ Visit \/ PassOver \/ TryLogin \/ NoneLeft
  \/ AskRemembered \/ FetchOrgs \/ AskOrg \/ EndVisit

CopilotSpec == CopilotInit /\ [][CopilotNext]_copilotVars

-----------------------------------------------------------------------------
(* The billing shown is one the account of the usage may read, whichever   *)
(* account it was remembered for; it is found if there is one and every    *)
(* request was answered; and a refresh fails for its logins only if none   *)
(* of those found is taken.                                                *)
CopilotShowsOwn ==
  ~stirred =>
    /\ visit.at = "done" /\ visit.org # NoOrg => visit.org \in bills[visit.usage]
    /\ visit.at = "done" /\ visit.managed /\ visit.org = NoOrg /\ ~visit.flawed =>
         bills[visit.usage] = {}
    /\ visit.at = "failed" => \A p \in Places : found[p] \notin valid
=============================================================================
