---------------------------- MODULE Logins_proofs ----------------------------
(***************************************************************************)
(* Proofs about the logins of Claude, Codex, Grok, Cursor, Antigravity and *)
(* Copilot, for any accounts and organisations, and any number of places   *)
(* and of renewals.                                                        *)
(*                                                                         *)
(* Pairs of tokens are numbered as they are issued.  No pair is at two     *)
(* places, and what is held or was read of one place is not what another   *)
(* has (OfOnePlace); so a pair that a renewal uses up was the one at its   *)
(* place, or an earlier one, and the worker that holds the new pair, or    *)
(* warned that it could not store it, excuses the loss, or what it had to  *)
(* say of it was shown or dropped before (LossesExplained).                *)
(* The lemmas on LoginInv say what the steps of a client and of a worker   *)
(* do to it; Claude, Codex and Grok cite them step by step.                *)
(*                                                                         *)
(* What is shown is of the account it was fetched for because the login    *)
(* that is held is the one that was read at its place, or its renewal      *)
(* (LoginsAreOwn, TokensAreOfTheLogin and the like).                       *)
(***************************************************************************)
EXTENDS MCProviders, Sequences, FiniteSetTheorems, TLAPS

Cli == INSTANCE CliLogin

-----------------------------------------------------------------------------
(* The logins of a command-line client                                     *)

Two == {1, 2}
TokenPairs == [account : Accounts \union {"none"}, pair : Nat]
PairsByPlace == [Two -> TokenPairs]

LoginsTypeOK ==
  /\ stored \in PairsByPlace /\ issued \in Nat /\ accepted \in SUBSET Nat
  /\ \A p \in Two : stored[p].pair = 0 => stored[p].account = "none"

WorkTypeOK ==
  /\ w.login \in TokenPairs /\ w.read \in PairsByPlace /\ w.new \in Nat
  /\ w.place \in {0, 1, 2} /\ w.warned \in BOOLEAN /\ w.untold \in SUBSET Two

(* Pairs are numbered as they are issued.                                  *)
IssuedPairs ==
  /\ \A n \in accepted : 0 < n /\ n <= issued
  /\ \A p \in Two : stored[p].pair <= issued /\ w.read[p].pair <= issued
  /\ w.login.pair <= issued /\ w.new <= issued

(* A pair is stored at one place, and held or read for that one only.      *)
OfOnePlace ==
  \A p, q \in Two : p # q /\ stored[p].pair # 0 =>
    /\ stored[p].pair # stored[q].pair
    /\ stored[p].pair # w.read[q].pair
    /\ w.place # p => stored[p].pair # w.login.pair

(* The pair to be stored is the only copy, and still good.                 *)
NewIsAccepted ==
  /\ w.at \in {"check", "save"} => w.new \in accepted
  /\ w.new # 0 => \A p \in Two : stored[p].pair # w.new /\ w.read[p].pair # w.new

(* A worker at rest has nothing left to say.                               *)
WorkIsAtAPlace ==
  /\ w.at \in {"idle", "load"} \/ w.place \in Two
  /\ w.at = "idle" => w.untold = {}

(* The user was told of the loss at p, or what was to be said of it was    *)
(* dropped; or the worker that caused it is still at work.                 *)
Accounted(p) == p \in explained \/ p \in silent \/ p \in w.untold
Excused(p) == w.place = p /\ w.at \notin {"idle", "load"} /\ (w.at \in {"check", "save"} \/ w.warned)

Gone(p) == stored[p].pair # 0 /\ stored[p].pair \notin accepted
LossesExplained == \A p \in Two : Gone(p) => Accounted(p) \/ Excused(p)

LoginInv ==
  /\ LoginsTypeOK /\ WorkTypeOK /\ IssuedPairs /\ OfOnePlace /\ NewIsAccepted
  /\ WorkIsAtAPlace /\ LossesExplained

USE DEF Two, TokenPairs, PairsByPlace

(* The client stores, renews or removes a login: what it removes from the  *)
(* accepted pairs is at no other place, and is not the worker's new one.   *)
SameWork ==
  /\ w'.at = w.at /\ w'.place = w.place /\ w'.login = w.login /\ w'.read = w.read
  /\ w'.new = w.new /\ w'.warned = w.warned /\ w'.untold = w.untold

LEMMA ClientKeepsLogins ==
  ASSUME LoginInv, NEW p \in Two, SameWork,
         \/ \E a \in Accounts \union {"none"} : Cli!ClientLogsIn(p, a)
         \/ Cli!ClientRenews(p) \/ Cli!ClientLogsOut(p)
  PROVE  LoginInv'
<1>. USE DEF LoginInv, LoginsTypeOK, WorkTypeOK
<1>1. PICK login \in TokenPairs : stored' = [stored EXCEPT ![p] = login]
        /\ explained' = explained \ {p} /\ silent' = silent \ {p}
        /\ \/ login.pair = issued + 1 /\ issued' = issued + 1
              /\ accepted' \subseteq accepted \union {issued + 1} /\ issued + 1 \in accepted'
              /\ \A n \in accepted : n \in accepted' \/ n = stored[p].pair
           \/ login.pair = 0 /\ login.account = "none" /\ issued' = issued
              /\ accepted' = accepted \ {stored[p].pair}
  <2>1. CASE \E a \in Accounts \union {"none"} : Cli!ClientLogsIn(p, a)
    <3>1. PICK a \in Accounts \union {"none"} : Cli!ClientLogsIn(p, a)
      BY <2>1
    <3>. DEFINE new == [account |-> a, pair |-> issued + 1]
    <3>2. new \in TokenPairs /\ new.pair = issued + 1
      OBVIOUS
    <3>. QED  BY <3>1, <3>2 DEF Cli!ClientLogsIn, Cli!ClientStores
  <2>2. CASE Cli!ClientRenews(p)
    <3>. DEFINE new == [stored[p] EXCEPT !.pair = issued + 1]
    <3>2. new \in TokenPairs /\ new.pair = issued + 1
      OBVIOUS
    <3>. QED  BY <2>2, <3>2 DEF Cli!ClientRenews, Cli!ClientStores
  <2>3. CASE Cli!ClientLogsOut(p)
    <3>2. Cli!NoLogin \in TokenPairs /\ Cli!NoLogin.pair = 0 /\ Cli!NoLogin.account = "none"
      BY DEF Cli!NoLogin, Cli!NoAccount
    <3>. QED  BY <2>3, <3>2 DEF Cli!ClientLogsOut, Cli!ClientStores
  <2>. QED  BY <2>1, <2>2, <2>3
<1>2. \A q \in Two : stored'[q] = IF q = p THEN login ELSE stored[q]
  BY <1>1
<1>3. LoginsTypeOK' /\ WorkTypeOK'
  <2>1. stored' \in PairsByPlace /\ WorkTypeOK'
    BY <1>1 DEF SameWork
  <2>2. accepted' \in SUBSET Nat /\ issued' \in Nat
    BY <1>1
  <2>3. \A q \in Two : stored'[q].pair = 0 => stored'[q].account = "none"
    BY <1>1, <1>2
  <2>. QED  BY <2>1, <2>2, <2>3
<1>4. IssuedPairs'
  <2>1. \A n \in accepted' : 0 < n /\ n <= issued'
    <3>1. \A n \in accepted' : n \in accepted \/ (n = issued + 1 /\ issued' = issued + 1)
      BY <1>1
    <3>2. \A n \in accepted : n \in Nat /\ 0 < n /\ n <= issued
      BY DEF IssuedPairs
    <3>3. issued \in Nat /\ issued' \in Nat /\ issued <= issued'
      BY <1>1
    <3>4. ASSUME NEW n \in accepted' PROVE 0 < n /\ n <= issued'
      <4>1. CASE n \in accepted
        BY <3>2, <3>3, <4>1
      <4>2. CASE n = issued + 1 /\ issued' = issued + 1
        BY <3>3, <4>2
      <4>. QED  BY <3>1, <4>1, <4>2
    <3>. QED  BY <3>4
  <2>2. issued <= issued' /\ \A q \in Two : stored'[q].pair <= issued'
    BY <1>1, <1>2 DEF IssuedPairs
  <2>3. (\A q \in Two : w'.read[q].pair <= issued') /\ w'.login.pair <= issued' /\ w'.new <= issued'
    BY <1>1, <2>2 DEF IssuedPairs, SameWork
  <2>. QED  BY <2>1, <2>2, <2>3 DEF IssuedPairs
<1>5. OfOnePlace'
  BY <1>1, <1>2 DEF OfOnePlace, SameWork, IssuedPairs
<1>6. NewIsAccepted' /\ WorkIsAtAPlace'
  BY <1>1, <1>2 DEF NewIsAccepted, WorkIsAtAPlace, SameWork, IssuedPairs
<1>7. LossesExplained'
  <2>1. ASSUME NEW q \in Two, Gone(q)'
        PROVE  (Accounted(q) \/ Excused(q))'
    <3>1. CASE q = p
      BY <1>1, <1>2, <2>1, <3>1 DEF Gone
    <3>2. CASE q # p
      <4>1. stored'[q] = stored[q] /\ (Accounted(q) => Accounted(q)')
        BY <1>1, <1>2, <3>2 DEF Accounted, SameWork
      <4>2. Gone(q)
        BY <1>1, <2>1, <3>2, <4>1 DEF OfOnePlace, Gone
      <4>. QED  BY <4>1, <4>2 DEF LossesExplained, Excused, SameWork
    <3>. QED  BY <3>1, <3>2
  <2>. QED  BY <2>1 DEF LossesExplained
<1>. QED  BY <1>3, <1>4, <1>5, <1>6, <1>7

(* What the worker goes on with: nothing, the same login, the one that is  *)
(* stored there now, or another one of those it read.                      *)
Holds ==
  \/ w'.login.pair = 0 /\ \A p \in Two : w'.read[p].pair = 0
  \/ w'.read = w.read /\ w'.place = w.place /\ w'.login = w.login
  \/ w'.read = w.read /\ w'.place = w.place /\ w.place \in Two /\ w'.login = stored[w.place]
  \/ w'.read = w.read /\ w'.place \in Two /\ w'.login = w.read[w'.place]

(* It moves, and accounts for what would lose its excuse.                  *)
LEMMA WorkerMovesKeepsLogins ==
  ASSUME LoginInv, WorkTypeOK', WorkIsAtAPlace', Holds,
         stored' = stored, accepted' = accepted, issued' = issued,
         w'.new \in {0, w.new},
         w'.at \in {"check", "save"} => w.at \in {"check", "save"} /\ w'.new = w.new,
         \A p \in Two : Gone(p) /\ (Accounted(p) \/ Excused(p)) => Accounted(p)' \/ Excused(p)'
  PROVE  LoginInv'
<1>. USE DEF LoginInv, LoginsTypeOK, WorkTypeOK
<1>1. LoginsTypeOK'
  OBVIOUS
<1>2. IssuedPairs'
  BY DEF IssuedPairs, Holds
<1>3. OfOnePlace'
  BY DEF OfOnePlace, Holds
<1>4. NewIsAccepted'
  <2>1. w'.at \in {"check", "save"} => w'.new \in accepted'
    BY DEF NewIsAccepted
  <2>2. w'.new # 0 => \A p \in Two : stored'[p].pair # w'.new /\ w'.read[p].pair # w'.new
    BY DEF NewIsAccepted, Holds
  <2>. QED  BY <2>1, <2>2 DEF NewIsAccepted
<1>5. LossesExplained'
  <2>1. ASSUME NEW p \in Two, Gone(p)'
        PROVE  (Accounted(p) \/ Excused(p))'
    <3>1. Gone(p) /\ (Accounted(p) \/ Excused(p))
      BY <2>1 DEF LossesExplained, Gone
    <3>. QED  BY <3>1
  <2>. QED  BY <2>1 DEF LossesExplained
<1>. QED  BY <1>1, <1>2, <1>3, <1>4, <1>5

(* A pair rotated for an answer that is lost: only the worker's place      *)
(* loses by it, and that is accounted for.                                 *)
LEMMA LostAnswerKeepsLogins ==
  ASSUME LoginInv, WorkTypeOK', WorkIsAtAPlace', Holds,
         stored' = stored, Cli!Rotate(w.login),
         w'.new \in {0, w.new}, w'.at \notin {"check", "save"}, w.at \notin {"check", "save"},
         w.place \in Two,
         \A p \in Two : Accounted(p) \/ p = w.place => Accounted(p)'
  PROVE  LoginInv'
<1>. USE DEF LoginInv, LoginsTypeOK, WorkTypeOK
<1>0. /\ issued' = issued + 1 /\ w.login.pair \in accepted
      /\ accepted' = (accepted \ {w.login.pair}) \union {issued + 1}
  BY DEF Cli!Rotate
<1>1. LoginsTypeOK'
  <2>0. issued + 1 \in Nat
    OBVIOUS
  <2>1. accepted' \in SUBSET Nat /\ issued' \in Nat
    BY <1>0, <2>0, Zenon
  <2>. QED  BY <2>1
<1>2. IssuedPairs'
  BY <1>0 DEF IssuedPairs, Holds
<1>3. OfOnePlace'
  BY DEF OfOnePlace, Holds
<1>4. NewIsAccepted'
  BY DEF NewIsAccepted, Holds
<1>5. LossesExplained'
  <2>1. ASSUME NEW p \in Two, Gone(p)'
        PROVE  (Accounted(p) \/ Excused(p))'
    <3>1. p = w.place \/ stored[p].pair # w.login.pair
      BY <1>0, <2>1 DEF OfOnePlace, Gone
    <3>2. p = w.place \/ Gone(p)
      BY <1>0, <2>1, <3>1 DEF Gone
    <3>3. p = w.place \/ Accounted(p)
      BY <3>2 DEF LossesExplained, Excused
    <3>. QED  BY <3>3
  <2>. QED  BY <2>1 DEF LossesExplained
<1>. QED  BY <1>1, <1>2, <1>3, <1>4, <1>5

(* A pair rotated for an answer that comes.                                *)
LEMMA RotateKeepsLogins ==
  ASSUME LoginInv, WorkTypeOK', stored' = stored, Cli!Rotate(w.login),
         \A p \in Two : Accounted(p) => Accounted(p)', w.at = "renew", w'.at = "check",
         w'.new = issued', w'.place = w.place,
         w'.login = w.login, w'.read = w.read
  PROVE  LoginInv'
<1>. USE DEF LoginInv, LoginsTypeOK, WorkTypeOK
<1>0. /\ issued' = issued + 1 /\ w.login.pair \in accepted /\ w.place \in Two
      /\ accepted' = (accepted \ {w.login.pair}) \union {issued + 1}
  BY DEF Cli!Rotate, WorkIsAtAPlace
<1>1. LoginsTypeOK' /\ WorkIsAtAPlace'
  <2>0. issued + 1 \in Nat
    OBVIOUS
  <2>1. accepted' \in SUBSET Nat /\ issued' \in Nat
    BY <1>0, <2>0, Zenon
  <2>. QED  BY <1>0, <2>1 DEF WorkIsAtAPlace
<1>2. IssuedPairs'
  BY <1>0 DEF IssuedPairs
<1>3. OfOnePlace'
  BY DEF OfOnePlace
<1>4. NewIsAccepted'
  BY <1>0 DEF NewIsAccepted, IssuedPairs
<1>5. LossesExplained'
  <2>1. ASSUME NEW p \in Two, Gone(p)'
        PROVE  (Accounted(p) \/ Excused(p))'
    <3>1. p = w.place \/ stored[p].pair # w.login.pair
      BY <1>0, <2>1 DEF OfOnePlace, Gone
    <3>2. p = w.place \/ Gone(p)
      BY <1>0, <2>1, <3>1 DEF Gone
    <3>3. p = w.place \/ Accounted(p)
      BY <3>2 DEF LossesExplained, Excused
    <3>. QED  BY <3>3 DEF Excused
  <2>. QED  BY <2>1 DEF LossesExplained
<1>. QED  BY <1>1, <1>2, <1>3, <1>4, <1>5

(* The worker reads the logins there are, and begins with one of them.     *)
LEMMA LoadKeepsLogins ==
  ASSUME LoginInv, WorkTypeOK', stored' = stored, accepted' = accepted, issued' = issued,
         \A p \in Two : Gone(p) /\ Accounted(p) => Accounted(p)',
         w.at \in {"idle", "load"}, w'.at = "try",
         w'.place \in Two, w'.login = stored[w'.place], w'.read = stored, w'.new \in {0, w.new}
  PROVE  LoginInv'
<1>. USE DEF LoginInv, LoginsTypeOK, WorkTypeOK
<1>1. LoginsTypeOK' /\ WorkIsAtAPlace'
  BY DEF WorkIsAtAPlace
<1>2. IssuedPairs'
  BY DEF IssuedPairs
<1>3. OfOnePlace'
  BY DEF OfOnePlace
<1>4. NewIsAccepted'
  BY DEF NewIsAccepted
<1>5. LossesExplained'
  BY DEF LossesExplained, Excused, Gone
<1>. QED  BY <1>1, <1>2, <1>3, <1>4, <1>5

(* The new pair is stored, or it is not and the worker warns.              *)
LEMMA SaveKeepsLogins ==
  ASSUME LoginInv, WorkTypeOK', accepted' = accepted, issued' = issued,
         \A p \in Two : Accounted(p) => Accounted(p)',
         w.at = "save", w'.at \in {"cooldown", "fetch"}, w'.place = w.place, w'.new = 0,
         w'.login = [w.login EXCEPT !.pair = w.new],
         \/ /\ stored' = [stored EXCEPT ![w.place] = [w.login EXCEPT !.pair = w.new]]
            /\ w'.read \in {w.read, [w.read EXCEPT ![w.place] = stored'[w.place]]}
         \/ stored' = stored /\ w'.read = w.read /\ w'.warned
  PROVE  LoginInv'
<1>. USE DEF LoginInv, LoginsTypeOK, WorkTypeOK
<1>0. /\ w.place \in Two /\ w.new \in accepted /\ 0 < w.new /\ w.new <= issued
      /\ \A p \in Two : stored[p].pair # w.new /\ w.read[p].pair # w.new
      /\ [w.login EXCEPT !.pair = w.new] \in TokenPairs
      /\ [w.login EXCEPT !.pair = w.new].pair = w.new
  BY DEF WorkIsAtAPlace, NewIsAccepted, IssuedPairs
<1>1. PICK kept \in TokenPairs : kept.pair = w.new /\ kept = [w.login EXCEPT !.pair = w.new]
  BY <1>0
<1>2. \A p \in Two : /\ stored'[p] \in {stored[p], IF p = w.place THEN kept ELSE stored[p]}
                     /\ w'.read[p] \in {w.read[p], IF p = w.place THEN kept ELSE w.read[p]}
  BY <1>0, <1>1
<1>3. LoginsTypeOK'
  <2>1. stored' \in PairsByPlace
    BY <1>1
  <2>2. \A p \in Two : stored'[p].pair = 0 => stored'[p].account = "none"
    BY <1>0, <1>1, <1>2
  <2>. QED  BY <2>1, <2>2
<1>4. IssuedPairs'
  BY <1>0, <1>1, <1>2 DEF IssuedPairs
<1>5. OfOnePlace'
  BY <1>0, <1>1, <1>2 DEF OfOnePlace
<1>6. NewIsAccepted' /\ WorkIsAtAPlace'
  BY <1>0 DEF NewIsAccepted, WorkIsAtAPlace
<1>7. LossesExplained'
  <2>1. ASSUME NEW p \in Two, Gone(p)'
        PROVE  (Accounted(p) \/ Excused(p))'
    <3>1. CASE p = w.place
      <4>1. CASE stored'[p] = kept
        BY <1>0, <1>1, <2>1, <4>1 DEF Gone
      <4>2. CASE stored' = stored /\ w'.warned
        BY <3>1, <4>2 DEF Excused
      <4>. QED  BY <1>0, <1>1, <3>1, <4>1, <4>2
    <3>2. CASE p # w.place
      BY <1>2, <2>1, <3>2 DEF LossesExplained, Excused, Gone
    <3>. QED  BY <3>1, <3>2
  <2>. QED  BY <2>1 DEF LossesExplained
<1>. QED  BY <1>3, <1>4, <1>5, <1>6, <1>7

(* What the logins are when the program is started.                        *)
LEMMA LoginsBegin ==
  ASSUME Cli!CliInit, WorkTypeOK, w.at = "idle", w.login.pair = 0, w.new = 0, w.untold = {},
         \A p \in Two : w.read[p].pair = 0
  PROVE  LoginInv
<1>1. /\ stored \in PairsByPlace /\ issued = 2 /\ accepted = {stored[p].pair : p \in Two} \ {0}
      /\ \A p \in Two : stored[p].pair \in {0, p} /\ (stored[p].pair = 0 => stored[p].account = "none")
  <2>1. Cli!NoLogin \in TokenPairs /\ Cli!NoLogin.pair = 0 /\ Cli!NoLogin.account = "none"
    BY DEF Cli!NoLogin, Cli!NoAccount
  <2>2. \A p \in Two : stored[p] = Cli!NoLogin \/ (stored[p] \in TokenPairs /\ stored[p].pair = p)
    BY DEF Cli!CliInit, Cli!Places
  <2>3. stored \in PairsByPlace
    BY <2>1, <2>2 DEF Cli!CliInit, Cli!Places
  <2>. QED  BY <2>1, <2>2, <2>3 DEF Cli!CliInit, Cli!Places
<1>2. \A n \in accepted : n \in {1, 2}
  BY <1>1
<1>3. LoginsTypeOK
  <2>1. accepted \in SUBSET Nat
    BY <1>2
  <2>. QED  BY <1>1, <2>1 DEF LoginsTypeOK
<1>4. IssuedPairs
  BY <1>1, <1>2 DEF IssuedPairs
<1>5. OfOnePlace /\ NewIsAccepted /\ WorkIsAtAPlace /\ LossesExplained
  BY <1>1 DEF OfOnePlace, NewIsAccepted, WorkIsAtAPlace, LossesExplained, Gone
<1>. QED  BY <1>3, <1>4, <1>5 DEF LoginInv

(* What a refresh that ends accounts for: everything, after an error or a  *)
(* crash; and what had been dropped or is warned of, when it shows usage.  *)
LEMMA ErrorsTell ==
  ASSUME Cli!EndsInError
  PROVE  \A p \in Two : Accounted(p) \/ p = w.place => p \in explained' \/ p \in silent'
BY DEF Cli!EndsInError, Accounted

LEMMA UsageTells ==
  ASSUME Cli!EndsInUsage, w.at \notin {"check", "save"}
  PROVE  \A p \in Two : Accounted(p) \/ Excused(p) => p \in explained' \/ p \in silent'
BY DEF Cli!EndsInUsage, Cli!Warned, Accounted, Excused

LEMMA LossesAreKept ==
  ASSUME Cli!KeepLosses, stored \in PairsByPlace, \A p \in Two : stored[p].pair = 0 => stored[p].account = "none"
  PROVE  \A p \in Two : Gone(p) /\ (p \in explained \/ p \in silent) => p \in explained' \/ p \in silent'
BY DEF Cli!KeepLosses, Cli!Lost, Cli!NoLogin, Gone

-----------------------------------------------------------------------------
(* Claude                                                                  *)

ClaudeStages ==
  {"idle", "load", "try", "renew", "check", "save", "cooldown", "fetch", "finish"}
ClaudeWorkers ==
  [at : ClaudeStages, place : {0, 1, 2}, login : TokenPairs, read : PairsByPlace,
   identity : Accounts \union {"none"}, usage : Accounts \union {"none"}, new : Nat,
   reload : BOOLEAN, renewed : BOOLEAN, warned : BOOLEAN, untold : SUBSET Two,
   moved : BOOLEAN, doubt : BOOLEAN]

ClaudeTypeOK ==
  /\ w \in ClaudeWorkers /\ declared \in Accounts \union {"none"}
  /\ half.account \in Accounts \union {"none"}
  /\ cached \in TokenPairs /\ lastGood \in Accounts \union {"none"}

(* The account has not changed during the refresh, or once; if it is then  *)
(* still the one of the beginning, it was so all the time.                 *)
IdentityStands == w.at # "idle" /\ ~w.moved => declared = w.identity

Certain == ~w.doubt /\ declared = w.identity
OwnOrNone == {w.identity, "none"}

LoginsAreOwn ==
  w.at \notin {"idle", "load"} /\ Certain =>
    w.login.account \in OwnOrNone /\ \A p \in Two : w.read[p].account \in OwnOrNone

UsageIsCached ==
  /\ lastGood \in {cached.account, "none"}
  /\ w.at \in {"renew", "check", "save", "cooldown", "fetch"} => cached = w.login

UsageIsOwn == w.at = "finish" /\ Certain => w.usage \in OwnOrNone

(* What the check found stands, but for what the client wrote since.       *)
CheckStands == w.at = "save" => w.place \in late \/ stored[w.place] = w.read[w.place]

ClaudeInv ==
  /\ ClaudeTypeOK /\ LoginInv /\ CheckStands
  /\ IdentityStands /\ LoginsAreOwn /\ UsageIsCached /\ UsageIsOwn

LEMMA ClaudeIdle ==
  /\ Claude!Idle \in ClaudeWorkers /\ Claude!Idle.at = "idle" /\ Claude!Idle.place = 0
  /\ Claude!Idle.login.pair = 0 /\ Claude!Idle.login.account = "none"
  /\ \A p \in Two : Claude!Idle.read[p].pair = 0
  /\ Claude!Idle.new = 0 /\ ~Claude!Idle.warned /\ ~Claude!Idle.moved /\ ~Claude!Idle.doubt
  /\ Claude!Idle.untold = {}
BY DEF Claude!Idle, ClaudeWorkers, ClaudeStages, Claude!NoLogin, Claude!NoAccount, Claude!Places

LEMMA ClaudeWorks ==
  ASSUME w \in ClaudeWorkers
  PROVE  WorkTypeOK
BY DEF ClaudeWorkers, WorkTypeOK

LEMMA ClaudeIsAClient ==
  /\ Claude!EndsInError => Cli!EndsInError
  /\ Claude!EndsInUsage => Cli!EndsInUsage
  /\ Claude!KeepLosses => Cli!KeepLosses
  /\ Claude!Rotate(w.login) => Cli!Rotate(w.login)
BY DEF Claude!EndsInError, Cli!EndsInError, Claude!EndsInUsage, Cli!EndsInUsage, Claude!Warned,
   Cli!Warned, Claude!KeepLosses, Cli!KeepLosses, Claude!Lost, Cli!Lost, Claude!NoLogin, Cli!NoLogin,
   Claude!NoAccount, Cli!NoAccount, Claude!Rotate, Cli!Rotate

(* The refresh ends, and accounts for what would lose its excuse.          *)
LEMMA ClaudeRests ==
  ASSUME ClaudeInv, w' = Claude!Idle, stored' = stored,
         \/ /\ accepted' = accepted /\ issued' = issued
            /\ \A p \in Two : Accounted(p) \/ Excused(p) => p \in explained' \/ p \in silent'
         \/ /\ Cli!Rotate(w.login) /\ w.at = "renew"
            /\ \A p \in Two : Accounted(p) \/ p = w.place => p \in explained' \/ p \in silent',
         declared' = declared, half' = half,
         cached' \in TokenPairs, lastGood' \in Accounts \union {"none"},
         lastGood' \in {cached'.account, "none"}
  PROVE  ClaudeInv'
<1>1. ClaudeTypeOK' /\ WorkTypeOK' /\ WorkIsAtAPlace'
  <2>1. w' \in ClaudeWorkers /\ w'.at = "idle" /\ w'.untold = {}
    BY ClaudeIdle
  <2>. QED  BY <2>1 DEF ClaudeInv, ClaudeTypeOK, ClaudeWorkers, WorkTypeOK, WorkIsAtAPlace
<1>2. Holds /\ w'.new = 0 /\ w'.at = "idle"
  BY ClaudeIdle DEF Holds
<1>3. LoginInv'
  <2>1. CASE /\ accepted' = accepted /\ issued' = issued
             /\ \A p \in Two : Accounted(p) \/ Excused(p) => p \in explained' \/ p \in silent'
    <3>1. \A p \in Two : Gone(p) /\ (Accounted(p) \/ Excused(p)) => Accounted(p)' \/ Excused(p)'
      BY <2>1 DEF Accounted
    <3>. QED  BY <1>1, <1>2, <2>1, <3>1, WorkerMovesKeepsLogins DEF ClaudeInv
  <2>2. CASE /\ Cli!Rotate(w.login) /\ w.at = "renew"
             /\ \A p \in Two : Accounted(p) \/ p = w.place => p \in explained' \/ p \in silent'
    <3>1. w.place \in Two
      BY <2>2 DEF ClaudeInv, LoginInv, WorkIsAtAPlace
    <3>2. \A p \in Two : Accounted(p) \/ p = w.place => Accounted(p)'
      BY <2>2 DEF Accounted
    <3>. QED  BY <1>1, <1>2, <2>2, <3>1, <3>2, LostAnswerKeepsLogins DEF ClaudeInv
  <2>. QED  BY <2>1, <2>2
<1>4. CheckStands' /\ IdentityStands' /\ LoginsAreOwn' /\ UsageIsCached' /\ UsageIsOwn'
  BY <1>2 DEF CheckStands, IdentityStands, LoginsAreOwn, UsageIsCached, UsageIsOwn
<1>. QED  BY <1>1, <1>3, <1>4 DEF ClaudeInv

(* It goes on with a login it holds or has read.                           *)
LEMMA ClaudeGoesOn ==
  ASSUME ClaudeInv, w' \in ClaudeWorkers, LoginInv', CheckStands',
         w'.identity = w.identity, w'.moved = w.moved, w'.doubt = w.doubt,
         declared' = declared, half' = half, cached' \in TokenPairs,
         lastGood' \in Accounts \union {"none"}, UsageIsCached',
         w.at \notin {"idle", "load"},
         w'.at \in {"idle", "load"} \/
           /\ \/ w'.login.account = w.login.account
              \/ \E p \in Two : w'.login.account = w.read[p].account
           /\ \A p \in Two : w'.read[p].account \in {w.read[p].account, w.login.account},
         w'.at = "finish" => w'.usage \in {w.login.account, "none"}
  PROVE  ClaudeInv'
<1>1. ClaudeTypeOK'
  BY DEF ClaudeInv, ClaudeTypeOK
<1>2. IdentityStands'
  BY DEF ClaudeInv, IdentityStands
<1>3. Certain' = Certain /\ OwnOrNone' = OwnOrNone
  BY DEF Certain, OwnOrNone
<1>4. LoginsAreOwn' /\ UsageIsOwn'
  <2>1. CASE ~Certain
    BY <1>3, <2>1 DEF LoginsAreOwn, UsageIsOwn
  <2>2. CASE Certain
    <3>1. w.login.account \in OwnOrNone /\ \A p \in Two : w.read[p].account \in OwnOrNone
      BY <2>2 DEF ClaudeInv, LoginsAreOwn
    <3>2. "none" \in OwnOrNone
      BY DEF OwnOrNone
    <3>. QED  BY <1>3, <3>1, <3>2 DEF LoginsAreOwn, UsageIsOwn
  <2>. QED  BY <2>1, <2>2
<1>. QED  BY <1>1, <1>2, <1>4 DEF ClaudeInv

(* What a step of the worker leaves as it is.                              *)
ClaudeStays == stored' = stored /\ accepted' = accepted /\ issued' = issued /\ declared' = declared /\ half' = half

LEMMA ClaudeGivesUp ==
  ASSUME ClaudeInv, Claude!GiveUp, ClaudeStays, cached' = cached, lastGood' = lastGood
  PROVE  ClaudeInv'
<1>1. Cli!EndsInError /\ w' = Claude!Idle
  BY ClaudeIsAClient DEF Claude!GiveUp
<1>2. \A p \in Two : Accounted(p) \/ Excused(p) => p \in explained' \/ p \in silent'
  BY <1>1, ErrorsTell DEF Excused
<1>. QED  BY <1>1, <1>2, ClaudeRests DEF ClaudeStays, ClaudeInv, ClaudeTypeOK, UsageIsCached

LEMMA ClaudeTriesNext ==
  ASSUME ClaudeInv, Claude!TryNext, ClaudeStays, cached' = cached, lastGood' = lastGood,
         w.at \in {"renew", "fetch"}
  PROVE  ClaudeInv'
<1>0. w \in ClaudeWorkers /\ WorkTypeOK /\ w.place \in Two
  BY ClaudeWorks DEF ClaudeInv, ClaudeTypeOK, LoginInv, WorkIsAtAPlace
<1>1. PICK untold \in SUBSET Two : untold = w.untold \union {w.place}
  BY <1>0 DEF ClaudeWorkers
<1>3. CASE Claude!GiveUp
  BY <1>3, ClaudeGivesUp
<1>4. CASE ~Claude!GiveUp
  <2>1. PICK p \in Two :
          w' = [w EXCEPT !.at = "try", !.place = p, !.login = w.read[p], !.renewed = FALSE,
                         !.warned = FALSE, !.untold = untold]
    <3>1. Claude!NextAfter(w.read, w.place) \in {0, 2}
      BY DEF Claude!NextAfter
    <3>. QED  BY <1>1, <1>4, <3>1 DEF Claude!TryNext
  <2>2. w.read[p] \in TokenPairs
    BY <1>0 DEF WorkTypeOK
  <2>3. /\ w' \in ClaudeWorkers /\ w'.at = "try" /\ w'.place = p /\ w'.login = w.read[p]
        /\ w'.read = w.read /\ w'.new = w.new /\ w'.identity = w.identity /\ w'.moved = w.moved
        /\ w'.doubt = w.doubt /\ w'.untold = untold
    BY <1>0, <2>1, <2>2 DEF ClaudeWorkers, ClaudeStages
  <2>4. WorkTypeOK' /\ WorkIsAtAPlace' /\ Holds
    BY <2>3 DEF ClaudeWorkers, WorkTypeOK, WorkIsAtAPlace, Holds
  <2>5. LoginInv'
    <3>1. UNCHANGED <<explained, silent>>
      BY <1>4 DEF Claude!TryNext, Claude!losses
    <3>2. \A q \in Two : Accounted(q) \/ Excused(q) => Accounted(q)'
      BY <1>1, <2>3, <3>1 DEF Accounted, Excused
    <3>. QED  BY <2>3, <2>4, <3>2, WorkerMovesKeepsLogins DEF ClaudeInv, ClaudeStays
  <2>6. UsageIsCached' /\ CheckStands'
    BY <2>3 DEF ClaudeInv, UsageIsCached, CheckStands
  <2>. QED  BY <2>3, <2>5, <2>6, ClaudeGoesOn DEF ClaudeInv, ClaudeTypeOK, ClaudeStays
<1>. QED  BY <1>3, <1>4

LEMMA ClaudeLoadsAgain ==
  ASSUME ClaudeInv, Claude!LoadAgain, ClaudeStays, cached' = cached, lastGood' = lastGood,
         w.at \in {"check", "fetch"}
  PROVE  ClaudeInv'
<1>0. w \in ClaudeWorkers /\ w.place \in Two
  BY DEF ClaudeInv, ClaudeTypeOK, LoginInv, WorkIsAtAPlace
<1>1. PICK untold \in SUBSET Two : untold = w.untold \union {w.place}
  BY <1>0 DEF ClaudeWorkers
<1>3. CASE Claude!GiveUp
  BY <1>3, ClaudeGivesUp
<1>4. CASE w' = [w EXCEPT !.at = "load", !.reload = FALSE, !.untold = untold] /\ UNCHANGED <<explained, silent>>
  <2>1. /\ w' \in ClaudeWorkers /\ w'.at = "load" /\ w'.place = w.place /\ w'.login = w.login
        /\ w'.read = w.read /\ w'.new = w.new /\ w'.identity = w.identity /\ w'.moved = w.moved
        /\ w'.doubt = w.doubt /\ w'.untold = untold
    BY <1>0, <1>4 DEF ClaudeWorkers, ClaudeStages
  <2>2. WorkTypeOK' /\ WorkIsAtAPlace' /\ Holds
    BY <2>1 DEF ClaudeWorkers, WorkTypeOK, WorkIsAtAPlace, Holds
  <2>3. LoginInv'
    <3>1. \A q \in Two : Accounted(q) \/ Excused(q) => Accounted(q)'
      BY <1>1, <1>4, <2>1 DEF Accounted, Excused
    <3>. QED  BY <2>1, <2>2, <3>1, WorkerMovesKeepsLogins DEF ClaudeInv, ClaudeStays
  <2>4. UsageIsCached' /\ CheckStands'
    BY <2>1 DEF ClaudeInv, UsageIsCached, CheckStands
  <2>. QED  BY <2>1, <2>3, <2>4, ClaudeGoesOn DEF ClaudeInv, ClaudeTypeOK, ClaudeStays
<1>. QED  BY <1>1, <1>3, <1>4 DEF Claude!LoadAgain, Claude!losses

(* The client moves: an account that was certain was so before, too.       *)
LEMMA ClaudeAccountDeclared ==
  ASSUME ClaudeInv, NEW account \in Accounts \union {"none"}, Claude!DeclareAccount(account)
  PROVE  /\ w' \in ClaudeWorkers /\ declared' \in Accounts \union {"none"} /\ SameWork
         /\ IdentityStands' /\ LoginsAreOwn' /\ UsageIsOwn'
<1>0. w \in ClaudeWorkers /\ declared' = account
  BY DEF ClaudeInv, ClaudeTypeOK, Claude!DeclareAccount
<1>1. CASE w.at = "idle" /\ w' = w
  BY <1>0, <1>1 DEF SameWork, IdentityStands, LoginsAreOwn, UsageIsOwn
<1>2. CASE w.at # "idle" /\ w' = [w EXCEPT !.moved = TRUE, !.doubt = @ \/ w.moved]
  <2>1. PICK doubt \in BOOLEAN : doubt <=> w.doubt \/ w.moved
    OBVIOUS
  <2>2. w' = [w EXCEPT !.moved = TRUE, !.doubt = doubt]
    <3>1. w.doubt \in BOOLEAN /\ w.moved \in BOOLEAN
      BY <1>0 DEF ClaudeWorkers
    <3>2. doubt = (w.doubt \/ w.moved)
      BY <2>1, <3>1, Zenon
    <3>. QED  BY <1>2, <3>2, Zenon
  <2>3. /\ w' \in ClaudeWorkers /\ w'.moved = TRUE /\ w'.doubt = doubt /\ SameWork
        /\ w'.identity = w.identity /\ w'.usage = w.usage
    BY <1>0, <2>2 DEF ClaudeWorkers, SameWork
  <2>4. CASE ~doubt
    <3>1. ~w.moved /\ ~w.doubt /\ Certain
      BY <1>2, <2>1, <2>4 DEF ClaudeInv, IdentityStands, Certain
    <3>2. OwnOrNone' = OwnOrNone
      BY <2>3 DEF OwnOrNone
    <3>. QED  BY <1>0, <2>3, <3>1, <3>2 DEF ClaudeInv, LoginsAreOwn, UsageIsOwn, IdentityStands, SameWork
  <2>5. CASE doubt
    BY <1>0, <2>3, <2>5 DEF IdentityStands, LoginsAreOwn, UsageIsOwn, Certain
  <2>. QED  BY <1>0, <2>3, <2>4, <2>5
<1>. QED  BY <1>1, <1>2 DEF Claude!DeclareAccount

LEMMA ClaudeClientKeeps ==
  ASSUME ClaudeInv, Claude!Client
  PROVE  ClaudeInv'
<1>. USE DEF ClaudeInv, ClaudeTypeOK
<1>1. ASSUME NEW p \in Two, NEW a \in Accounts \union {"none"},
             UNCHANGED <<declared, Claude!cacheVars, w>>,
             \/ Claude!ClientLogsIn(p, a)
             \/ Claude!ClientRenews(p) \/ Claude!ClientLogsOut(p),
             half'.account \in Accounts \union {"none"}
      PROVE  ClaudeInv'
  <2>1. \/ \E b \in Accounts \union {"none"} : Cli!ClientLogsIn(p, b)
        \/ Cli!ClientRenews(p) \/ Cli!ClientLogsOut(p)
    BY <1>1 DEF Claude!ClientLogsIn, Claude!ClientRenews, Claude!ClientLogsOut, Claude!ClientStores,
       Cli!ClientLogsIn, Cli!ClientRenews, Cli!ClientLogsOut, Cli!ClientStores, Claude!NoLogin, Cli!NoLogin,
       Claude!NoAccount, Cli!NoAccount
  <2>2. SameWork
    BY <1>1 DEF SameWork
  <2>3. LoginInv'
    BY <2>1, <2>2, ClientKeepsLogins
  <2>4. (w.at = "save" => late' = late \union {p}) /\ \A q \in Two : q = p \/ stored'[q] = stored[q]
    BY <1>1 DEF Claude!ClientLogsIn, Claude!ClientRenews, Claude!ClientLogsOut, Claude!ClientStores,
       LoginInv, LoginsTypeOK
  <2>5. CheckStands'
    BY <1>1, <2>4 DEF CheckStands, LoginInv, WorkIsAtAPlace
  <2>6. IdentityStands' /\ LoginsAreOwn' /\ UsageIsCached' /\ UsageIsOwn'
    BY <1>1 DEF IdentityStands, LoginsAreOwn, UsageIsCached, UsageIsOwn, Certain, OwnOrNone, Claude!cacheVars
  <2>. QED  BY <1>1, <2>3, <2>5, <2>6 DEF Claude!cacheVars
<1>2. ASSUME NEW a \in Accounts \union {"none"}, Claude!DeclareAccount(a),
             UNCHANGED <<Claude!cliVars, Claude!history, Claude!cacheVars>>,
             half'.account \in Accounts \union {"none"}
      PROVE  ClaudeInv'
  <2>1. /\ w' \in ClaudeWorkers /\ declared' \in Accounts \union {"none"} /\ SameWork
        /\ IdentityStands' /\ LoginsAreOwn' /\ UsageIsOwn'
    BY <1>2, ClaudeAccountDeclared
  <2>2. LoginInv'
    <3>1. WorkTypeOK' /\ WorkIsAtAPlace' /\ Holds
      BY <2>1 DEF ClaudeWorkers, WorkTypeOK, LoginInv, WorkIsAtAPlace, Holds, SameWork
    <3>2. \A p \in Two : Accounted(p) \/ Excused(p) => (Accounted(p) \/ Excused(p))'
      BY <1>2, <2>1 DEF Accounted, Excused, SameWork, Claude!history, Claude!losses
    <3>. QED  BY <1>2, <2>1, <3>1, <3>2, WorkerMovesKeepsLogins DEF SameWork, Claude!cliVars
  <2>3. CheckStands' /\ UsageIsCached'
    BY <1>2, <2>1 DEF CheckStands, UsageIsCached, SameWork, Claude!cacheVars, Claude!cliVars, Claude!history
  <2>. QED  BY <1>2, <2>1, <2>2, <2>3 DEF Claude!cacheVars
<1>3. ASSUME NEW a \in Accounts, Claude!LoginBegins(Claude!Own, a)
      PROVE  ClaudeInv'
  <2>1. CASE /\ Claude!ClientLogsIn(Claude!Own, a) /\ half' = [left |-> "account", account |-> a]
             /\ UNCHANGED <<declared, w>>
    BY <1>1, <1>3, <2>1 DEF Claude!LoginBegins, Claude!Own
  <2>2. CASE /\ Claude!DeclareAccount(a) /\ half' = [left |-> "login", account |-> a]
             /\ UNCHANGED <<Claude!cliVars, Claude!history>>
    BY <1>2, <1>3, <2>2 DEF Claude!LoginBegins
  <2>. QED  BY <1>3, <2>1, <2>2 DEF Claude!LoginBegins
<1>4. ASSUME Claude!LoginEnds(Claude!Own)
      PROVE  ClaudeInv'
  <2>0. half'.account \in Accounts \union {"none"}
    BY <1>4 DEF Claude!LoginEnds, Claude!Whole, Claude!NoAccount
  <2>1. CASE /\ half.left = "account" /\ Claude!DeclareAccount(half.account)
             /\ UNCHANGED <<Claude!cliVars, Claude!history>>
    BY <1>2, <1>4, <2>0, <2>1 DEF Claude!LoginEnds
  <2>2. CASE half.left = "login" /\ Claude!ClientLogsIn(Claude!Own, half.account) /\ UNCHANGED <<declared, w>>
    <3>1. PICK a \in Accounts \union {"none"} : a = half.account
      OBVIOUS
    <3>2. Claude!ClientLogsIn(1, a)
      BY <2>2, <3>1 DEF Claude!Own
    <3>. QED  BY <1>1, <1>4, <2>0, <2>2, <3>2 DEF Claude!LoginEnds
  <2>. QED  BY <1>4, <2>1, <2>2 DEF Claude!LoginEnds
<1>5. ASSUME NEW p \in Two, Claude!ClientRenews(p) \/ Claude!ClientLogsOut(p),
             UNCHANGED <<declared, half, Claude!cacheVars, w>>
      PROVE  ClaudeInv'
  BY <1>1, <1>5
<1>. QED  BY <1>3, <1>4, <1>5 DEF Claude!Client, Claude!Own, Claude!Places

LEMMA ClaudeStartRefreshKeeps ==
  ASSUME ClaudeInv, Claude!StartRefresh
  PROVE  ClaudeInv'
<1>. USE DEF ClaudeInv, ClaudeTypeOK
<1>1. /\ w' \in ClaudeWorkers /\ w'.at = "load" /\ w'.login.pair = 0 /\ (\A p \in Two : w'.read[p].pair = 0)
      /\ w'.new = 0 /\ ~w'.moved /\ w'.identity = declared
  BY ClaudeIdle DEF Claude!StartRefresh, ClaudeWorkers, ClaudeStages
<1>2. WorkTypeOK' /\ WorkIsAtAPlace' /\ Holds
  BY <1>1 DEF ClaudeWorkers, WorkTypeOK, WorkIsAtAPlace, Holds
<1>3. \A p \in Two : Gone(p) /\ (Accounted(p) \/ Excused(p)) => Accounted(p)'
  <2>1. w.untold = {} /\ \A p \in Two : ~Excused(p)
    BY DEF Excused, Claude!StartRefresh, LoginInv, WorkIsAtAPlace
  <2>2. Cli!KeepLosses
    BY ClaudeIsAClient DEF Claude!StartRefresh
  <2>. QED  BY <2>1, <2>2, LossesAreKept DEF Accounted, LoginInv, LoginsTypeOK
<1>4. LoginInv'
  BY <1>1, <1>2, <1>3, WorkerMovesKeepsLogins DEF Claude!StartRefresh, Claude!cliVars
<1>. QED  BY <1>1, <1>4 DEF CheckStands, IdentityStands, LoginsAreOwn, UsageIsCached, UsageIsOwn,
          Claude!StartRefresh, Claude!cacheVars

LEMMA ClaudeLoadCandidatesKeeps ==
  ASSUME ClaudeInv, Claude!LoadCandidates
  PROVE  ClaudeInv'
<1>. USE DEF ClaudeInv, ClaudeTypeOK
<1>0. \A p \in Two : ~Excused(p)
  BY DEF Excused, Claude!LoadCandidates
<1>1. CASE Claude!GiveUp
  BY <1>1, ClaudeGivesUp DEF Claude!LoadCandidates, Claude!cliVars, Claude!cacheVars, ClaudeStays
<1>2. CASE ~Claude!GiveUp
  <2>0. PICK doubt \in BOOLEAN :
          doubt <=> w.doubt \/ \E q \in Claude!Places : stored[q].account \notin {declared, Claude!NoAccount}
    OBVIOUS
  <2>1. PICK p \in Two :
          w' = [w EXCEPT !.at = "try", !.place = p, !.login = stored[p], !.read = stored,
                         !.renewed = FALSE, !.warned = FALSE, !.doubt = doubt]
    <3>1. Claude!FirstOf(stored) \in {0, 1, 2}
      BY DEF Claude!FirstOf
    <3>2. w.doubt \in BOOLEAN
      BY DEF ClaudeWorkers
    <3>3. doubt = (w.doubt \/ \E q \in Claude!Places : stored[q].account \notin {declared, Claude!NoAccount})
      BY <2>0, <3>2, Zenon
    <3>. QED  BY <1>2, <3>1, <3>3 DEF Claude!LoadCandidates
  <2>2. stored \in PairsByPlace /\ stored[p] \in TokenPairs
    BY DEF LoginInv, LoginsTypeOK
  <2>3. /\ w' \in ClaudeWorkers /\ w'.at = "try" /\ w'.place = p /\ w'.login = stored[p]
        /\ w'.read = stored /\ w'.new = w.new /\ w'.identity = w.identity /\ w'.moved = w.moved
        /\ w'.doubt = doubt /\ w'.untold = w.untold
    BY <2>1, <2>2 DEF ClaudeWorkers, ClaudeStages
  <2>4. WorkTypeOK'
    BY <2>3 DEF ClaudeWorkers, WorkTypeOK
  <2>5. LoginInv'
    <3>1. UNCHANGED <<explained, silent>>
      BY <1>2 DEF Claude!LoadCandidates, Claude!losses
    <3>2. \A q \in Two : Accounted(q) => Accounted(q)'
      BY <2>3, <3>1 DEF Accounted
    <3>. QED  BY <2>3, <2>4, <3>2, LoadKeepsLogins DEF Claude!LoadCandidates, Claude!cliVars
  <2>6. CheckStands' /\ UsageIsCached' /\ UsageIsOwn'
    BY <2>3 DEF CheckStands, UsageIsCached, UsageIsOwn, Claude!LoadCandidates, Claude!cacheVars
  <2>7. IdentityStands'
    BY <2>3 DEF IdentityStands, Claude!LoadCandidates
  <2>8. LoginsAreOwn'
    <3>1. declared' = declared
      BY DEF Claude!LoadCandidates
    <3>2. SUFFICES ASSUME ~doubt, declared = w.identity
          PROVE  \A q \in Two : stored[q].account \in {w.identity, "none"}
      BY <2>3, <3>1 DEF LoginsAreOwn, Certain, OwnOrNone
    <3>. QED  BY <2>0, <3>2 DEF Claude!Places, Claude!NoAccount
  <2>. QED  BY <2>3, <2>5, <2>6, <2>7, <2>8 DEF Claude!LoadCandidates, Claude!cacheVars
<1>. QED  BY <1>1, <1>2

LEMMA ClaudeActivateKeeps ==
  ASSUME ClaudeInv, Claude!ActivateLiveUsage
  PROVE  ClaudeInv'
<1>. USE DEF ClaudeInv, ClaudeTypeOK
<1>1. PICK to \in {"renew", "cooldown"} : w' = [w EXCEPT !.at = to]
  BY DEF Claude!ActivateLiveUsage
<1>2. /\ w' \in ClaudeWorkers /\ w'.at = to /\ w'.place = w.place /\ w'.login = w.login
      /\ w'.read = w.read /\ w'.new = w.new /\ w'.identity = w.identity /\ w'.moved = w.moved
      /\ w'.doubt = w.doubt /\ w'.warned = w.warned /\ w'.untold = w.untold
  BY <1>1 DEF ClaudeWorkers, ClaudeStages
<1>3. WorkTypeOK' /\ WorkIsAtAPlace' /\ Holds
  BY <1>2 DEF ClaudeWorkers, WorkTypeOK, WorkIsAtAPlace, Holds, LoginInv, Claude!ActivateLiveUsage
<1>4. \A p \in Two : Accounted(p) \/ Excused(p) => (Accounted(p) \/ Excused(p))'
  BY <1>2 DEF Accounted, Excused, Claude!ActivateLiveUsage, Claude!history, Claude!losses
<1>5. LoginInv'
  BY <1>2, <1>3, <1>4, WorkerMovesKeepsLogins DEF Claude!ActivateLiveUsage, Claude!cliVars
<1>6. CheckStands' /\ UsageIsCached' /\ cached' \in TokenPairs /\ lastGood' \in Accounts \union {"none"}
  BY <1>2 DEF CheckStands, UsageIsCached, Claude!ActivateLiveUsage, Claude!NoAccount, ClaudeWorkers
<1>. QED  BY <1>2, <1>5, <1>6, ClaudeGoesOn DEF Claude!ActivateLiveUsage

LEMMA ClaudeAskToRenewKeeps ==
  ASSUME ClaudeInv, Claude!AskToRenew
  PROVE  ClaudeInv'
<1>. USE DEF ClaudeInv, ClaudeTypeOK
<1>0. /\ w.at = "renew" /\ stored' = stored /\ declared' = declared /\ half' = half
      /\ cached' = cached /\ lastGood' = lastGood
  BY DEF Claude!AskToRenew, Claude!cacheVars
<1>1. CASE Claude!Rotate(w.login) /\ w' = [w EXCEPT !.at = "check", !.new = issued'] /\ UNCHANGED Claude!losses
  <2>1. Cli!Rotate(w.login) /\ issued' \in Nat
    BY <1>1, ClaudeIsAClient DEF Cli!Rotate, LoginInv, LoginsTypeOK
  <2>2. /\ w' \in ClaudeWorkers /\ w'.at = "check" /\ w'.place = w.place /\ w'.login = w.login
        /\ w'.read = w.read /\ w'.new = issued' /\ w'.identity = w.identity /\ w'.moved = w.moved
        /\ w'.doubt = w.doubt /\ w'.untold = w.untold
    BY <1>1, <2>1 DEF ClaudeWorkers, ClaudeStages
  <2>3. WorkTypeOK'
    BY <2>2 DEF ClaudeWorkers, WorkTypeOK
  <2>4. \A p \in Two : Accounted(p) => Accounted(p)'
    BY <1>1, <2>2 DEF Accounted, Claude!losses
  <2>5. LoginInv'
    BY <1>0, <1>1, <2>1, <2>2, <2>3, <2>4, RotateKeepsLogins
  <2>6. CheckStands' /\ UsageIsCached'
    BY <1>0, <2>2 DEF CheckStands, UsageIsCached
  <2>. QED  BY <1>0, <2>2, <2>5, <2>6, ClaudeGoesOn
<1>2. CASE Claude!Rotate(w.login) /\ Claude!GiveUp
  <2>1. Cli!Rotate(w.login) /\ w' = Claude!Idle /\ Cli!EndsInError
    BY <1>2, ClaudeIsAClient DEF Claude!GiveUp
  <2>. QED  BY <1>0, <2>1, ErrorsTell, ClaudeRests DEF UsageIsCached
<1>3. CASE Claude!TryNext /\ UNCHANGED <<accepted, issued>>
  BY <1>0, <1>3, ClaudeTriesNext DEF ClaudeStays
<1>4. CASE Claude!GiveUp /\ UNCHANGED <<accepted, issued>>
  BY <1>0, <1>4, ClaudeGivesUp DEF ClaudeStays
<1>. QED  BY <1>1, <1>2, <1>3, <1>4 DEF Claude!AskToRenew

LEMMA ClaudeCheckKeeps ==
  ASSUME ClaudeInv, Claude!CheckGeneration
  PROVE  ClaudeInv'
<1>. USE DEF ClaudeInv, ClaudeTypeOK
<1>0. /\ w.at = "check" /\ ClaudeStays
      /\ cached' = cached /\ lastGood' = lastGood
  BY DEF Claude!CheckGeneration, Claude!cacheVars, Claude!cliVars, ClaudeStays
<1>1. CASE stored = w.read /\ w' = [w EXCEPT !.at = "save"] /\ UNCHANGED Claude!losses
  <2>1. /\ w' \in ClaudeWorkers /\ w'.at = "save" /\ w'.place = w.place /\ w'.login = w.login
        /\ w'.read = w.read /\ w'.new = w.new /\ w'.identity = w.identity /\ w'.moved = w.moved
        /\ w'.doubt = w.doubt /\ w'.warned = w.warned /\ w'.untold = w.untold
    BY <1>1 DEF ClaudeWorkers, ClaudeStages
  <2>2. WorkTypeOK' /\ WorkIsAtAPlace' /\ Holds /\ w.place \in Two
    BY <1>0, <2>1 DEF ClaudeWorkers, WorkTypeOK, WorkIsAtAPlace, Holds, LoginInv
  <2>3. \A p \in Two : Accounted(p) \/ Excused(p) => (Accounted(p) \/ Excused(p))'
    BY <1>0, <1>1, <2>1 DEF Accounted, Excused, Claude!losses
  <2>4. LoginInv'
    BY <1>0, <1>1, <2>1, <2>2, <2>3, WorkerMovesKeepsLogins DEF ClaudeStays
  <2>5. CheckStands' /\ UsageIsCached'
    BY <1>0, <1>1, <2>1, <2>2 DEF CheckStands, UsageIsCached, ClaudeStays
  <2>. QED  BY <1>0, <2>1, <2>4, <2>5, ClaudeGoesOn DEF ClaudeStays
<1>2. CASE Claude!LoadAgain
  BY <1>0, <1>2, ClaudeLoadsAgain
<1>. QED  BY <1>1, <1>2 DEF Claude!CheckGeneration

LEMMA ClaudeSaveKeeps ==
  ASSUME ClaudeInv, Claude!SavePair
  PROVE  ClaudeInv'
<1>. USE DEF ClaudeInv, ClaudeTypeOK
<1>0. /\ w.at = "save" /\ accepted' = accepted /\ issued' = issued
      /\ explained' = explained /\ silent' = silent /\ declared' = declared /\ half' = half /\ lastGood' = lastGood
      /\ cached = w.login /\ w.place \in Two /\ w.login \in TokenPairs /\ w.new \in Nat
  BY DEF Claude!SavePair, Claude!losses, UsageIsCached, LoginInv, WorkIsAtAPlace, WorkTypeOK
<1>1. PICK kept \in TokenPairs : kept = [w.login EXCEPT !.pair = w.new] /\ kept.account = w.login.account
  <2>1. /\ [w.login EXCEPT !.pair = w.new] \in TokenPairs
        /\ [w.login EXCEPT !.pair = w.new].account = w.login.account
    BY <1>0
  <2>. QED  BY <2>1
<1>2. PICK read \in PairsByPlace, warned \in BOOLEAN, to \in {"fetch", "cooldown"} :
        /\ w' = [w EXCEPT !.at = to, !.login = kept, !.new = 0, !.read = read, !.warned = warned]
        /\ \/ /\ stored' = [stored EXCEPT ![w.place] = kept]
              /\ read = [w.read EXCEPT ![w.place] = kept]
           \/ stored' = stored /\ read = w.read /\ warned
  <2>0. stored \in PairsByPlace /\ w.read \in PairsByPlace /\ w.warned \in BOOLEAN
    BY DEF LoginInv, LoginsTypeOK, WorkTypeOK
  <2>1. PICK to \in {"fetch", "cooldown"} : to = IF w.renewed THEN "fetch" ELSE "cooldown"
    OBVIOUS
  <2>2. CASE /\ stored' = [stored EXCEPT ![w.place] = [w.login EXCEPT !.pair = w.new]]
             /\ Claude!GoOn([w.read EXCEPT ![w.place] = stored'[w.place]], FALSE)
    <3>1. stored'[w.place] = kept
      BY <1>0, <1>1, <2>0, <2>2
    <3>2. [w.read EXCEPT ![w.place] = kept] \in PairsByPlace
      BY <1>0, <2>0
    <3>3. w' = [w EXCEPT !.at = to, !.login = kept, !.new = 0, !.read = [w.read EXCEPT ![w.place] = kept],
                         !.warned = w.warned]
      <4>1. (w.warned \/ FALSE) = w.warned
        BY <2>0, Zenon
      <4>2. w' = [w EXCEPT !.at = to, !.login.pair = w.new, !.new = 0,
                           !.read = [w.read EXCEPT ![w.place] = kept], !.warned = @ \/ FALSE]
        BY <2>1, <2>2, <3>1 DEF Claude!GoOn
      <4>. QED  BY <1>1, <4>1, <4>2 DEF ClaudeWorkers
    <3>. QED  BY <1>1, <2>0, <2>1, <2>2, <3>2, <3>3
  <2>3. CASE Claude!GoOn(w.read, TRUE) /\ UNCHANGED stored
    <3>1. w' = [w EXCEPT !.at = to, !.login = kept, !.new = 0, !.read = w.read, !.warned = TRUE]
      <4>1. (w.warned \/ TRUE) = TRUE
        BY <2>0, Zenon
      <4>2. w' = [w EXCEPT !.at = to, !.login.pair = w.new, !.new = 0, !.read = w.read, !.warned = @ \/ TRUE]
        BY <2>1, <2>3 DEF Claude!GoOn
      <4>. QED  BY <1>1, <4>1, <4>2 DEF ClaudeWorkers
    <3>. QED  BY <2>0, <2>1, <2>3, <3>1
  <2>. QED  BY <2>2, <2>3 DEF Claude!SavePair
<1>3. /\ w' \in ClaudeWorkers /\ w'.at = to /\ w'.place = w.place /\ w'.login = kept
      /\ w'.read = read /\ w'.new = 0 /\ w'.identity = w.identity /\ w'.moved = w.moved
      /\ w'.doubt = w.doubt /\ w'.warned = warned /\ w'.untold = w.untold
  BY <1>1, <1>2, ZenonT(30) DEF ClaudeWorkers, ClaudeStages
<1>4. WorkTypeOK'
  BY <1>3 DEF ClaudeWorkers, WorkTypeOK
<1>5. LoginInv'
  <2>1. w'.login = [w.login EXCEPT !.pair = w.new] /\ w'.at \in {"cooldown", "fetch"}
    BY <1>1, <1>3
  <2>2. \/ /\ stored' = [stored EXCEPT ![w.place] = [w.login EXCEPT !.pair = w.new]]
           /\ w'.read \in {w.read, [w.read EXCEPT ![w.place] = stored'[w.place]]}
        \/ stored' = stored /\ w'.read = w.read /\ w'.warned
    <3>1. CASE stored' = [stored EXCEPT ![w.place] = kept] /\ read = [w.read EXCEPT ![w.place] = kept]
      <4>1. stored'[w.place] = kept
        BY <1>0, <3>1 DEF LoginInv, LoginsTypeOK
      <4>. QED  BY <1>1, <1>3, <3>1, <4>1
    <3>2. CASE stored' = stored /\ read = w.read /\ warned
      BY <1>3, <3>2
    <3>. QED  BY <1>2, <3>1, <3>2
  <2>3. \A p \in Two : Accounted(p) => Accounted(p)'
    BY <1>0, <1>3 DEF Accounted
  <2>. QED  BY <1>0, <1>3, <1>4, <2>1, <2>2, <2>3, SaveKeepsLogins
<1>6. cached' = kept
  BY <1>0, <1>1 DEF Claude!SavePair
<1>7. CheckStands' /\ UsageIsCached'
  BY <1>0, <1>1, <1>3, <1>6 DEF CheckStands, UsageIsCached
<1>8. \A p \in Two : w'.read[p].account \in {w.read[p].account, w.login.account}
  BY <1>0, <1>1, <1>2, <1>3 DEF LoginInv, WorkTypeOK
<1>. QED  BY <1>0, <1>1, <1>3, <1>5, <1>6, <1>7, <1>8, ClaudeGoesOn

(* It shows usage: with its own warnings, or that of an earlier refresh.   *)
LEMMA ClaudeShowsKeeps ==
  ASSUME ClaudeInv, ClaudeStays, NEW account \in {lastGood, w.login.account},
         NEW warned \in BOOLEAN, NEW untold \in SUBSET Two,
         w' = [w EXCEPT !.at = "finish", !.usage = account, !.warned = warned, !.untold = untold],
         w.at \in {"cooldown", "fetch"}, UNCHANGED <<explained, silent, cached>>,
         lastGood' \in {lastGood, w.login.account},
         w.untold \subseteq untold, w.warned => warned \/ w.place \in untold
  PROVE  ClaudeInv'
<1>. USE DEF ClaudeInv, ClaudeTypeOK
<1>0. lastGood \in {w.login.account, "none"} /\ account \in Accounts \union {"none"} /\ cached = w.login
  BY DEF UsageIsCached, ClaudeWorkers
<1>1. /\ w' \in ClaudeWorkers /\ w'.at = "finish" /\ w'.place = w.place /\ w'.login = w.login
      /\ w'.read = w.read /\ w'.new = w.new /\ w'.identity = w.identity /\ w'.moved = w.moved
      /\ w'.doubt = w.doubt /\ w'.warned = warned /\ w'.usage = account /\ w'.untold = untold
  BY <1>0 DEF ClaudeWorkers, ClaudeStages
<1>2. WorkTypeOK' /\ WorkIsAtAPlace' /\ Holds
  BY <1>1 DEF ClaudeWorkers, WorkTypeOK, WorkIsAtAPlace, Holds, LoginInv
<1>3. \A p \in Two : Accounted(p) \/ Excused(p) => (Accounted(p) \/ Excused(p))'
  BY <1>1 DEF Accounted, Excused
<1>4. LoginInv'
  BY <1>1, <1>2, <1>3, WorkerMovesKeepsLogins DEF ClaudeStays
<1>5. CheckStands' /\ UsageIsCached'
  BY <1>0, <1>1 DEF CheckStands, UsageIsCached
<1>6. lastGood' \in Accounts \union {"none"}
  BY DEF ClaudeWorkers
<1>. QED  BY <1>0, <1>1, <1>4, <1>5, <1>6, ClaudeGoesOn DEF ClaudeStays

LEMMA ClaudeShowsLastGood ==
  ASSUME ClaudeInv, ClaudeStays, Claude!ShowLastGood, w.at \in {"cooldown", "fetch"},
         UNCHANGED <<explained, silent, cached, lastGood>>
  PROVE  ClaudeInv'
<1>0. w \in ClaudeWorkers /\ w.place \in Two
  BY DEF ClaudeInv, ClaudeTypeOK, LoginInv, WorkIsAtAPlace
<1>1. PICK warned \in BOOLEAN : warned = (w.warned /\ lastGood = Claude!NoAccount)
  OBVIOUS
<1>2. PICK untold \in SUBSET Two :
        untold = w.untold \union (IF lastGood = Claude!NoAccount THEN {} ELSE Claude!Warned)
  BY <1>0 DEF ClaudeWorkers, Claude!Warned
<1>3. w' = [w EXCEPT !.at = "finish", !.usage = lastGood, !.warned = warned, !.untold = untold]
  BY <1>1, <1>2, Zenon DEF Claude!ShowLastGood
<1>4. w.warned => warned \/ w.place \in untold
  <2>1. CASE lastGood = Claude!NoAccount
    BY <1>1, <2>1
  <2>2. CASE lastGood # Claude!NoAccount
    BY <1>2, <2>2 DEF Claude!Warned
  <2>. QED  BY <2>1, <2>2
<1>. QED  BY <1>2, <1>3, <1>4, ClaudeShowsKeeps

(* Between the requests.                                                   *)
LEMMA ClaudeMovesOn ==
  ASSUME ClaudeInv, ClaudeStays, NEW to \in {"fetch", "renew"}, w.at \in {"cooldown", "fetch"},
         w' \in ClaudeWorkers, w'.at = to, w'.place = w.place, w'.login = w.login,
         w'.read = w.read, w'.new = w.new, w'.identity = w.identity, w'.moved = w.moved,
         w'.doubt = w.doubt, w'.warned = w.warned, w'.untold = w.untold,
         UNCHANGED <<explained, silent, cached, lastGood>>
  PROVE  ClaudeInv'
<1>. USE DEF ClaudeInv, ClaudeTypeOK
<1>1. WorkTypeOK' /\ WorkIsAtAPlace' /\ Holds
  BY DEF ClaudeWorkers, WorkTypeOK, WorkIsAtAPlace, Holds, LoginInv
<1>2. \A p \in Two : Accounted(p) \/ Excused(p) => (Accounted(p) \/ Excused(p))'
  BY DEF Accounted, Excused
<1>3. LoginInv'
  BY <1>1, <1>2, WorkerMovesKeepsLogins DEF ClaudeStays
<1>4. CheckStands' /\ UsageIsCached'
  BY DEF CheckStands, UsageIsCached
<1>. QED  BY <1>3, <1>4, ClaudeGoesOn DEF ClaudeStays

LEMMA ClaudeFetches ==
  ASSUME ClaudeInv, Claude!Cooldown \/ Claude!Unauthorized
  PROVE  ClaudeInv'
<1>. USE DEF ClaudeInv, ClaudeTypeOK
<1>0. ClaudeStays /\ UNCHANGED <<explained, silent, cached, lastGood>> /\ w.at \in {"cooldown", "fetch"}
  BY DEF Claude!Cooldown, Claude!Unauthorized, Claude!cliVars, Claude!cacheVars, Claude!history,
     Claude!losses, ClaudeStays
<1>1. CASE Claude!ShowLastGood
  BY <1>0, <1>1, ClaudeShowsLastGood
<1>2. CASE w' = [w EXCEPT !.at = "fetch"]
  <2>1. /\ w' \in ClaudeWorkers /\ w'.at = "fetch" /\ w'.place = w.place /\ w'.login = w.login
        /\ w'.read = w.read /\ w'.new = w.new /\ w'.identity = w.identity /\ w'.moved = w.moved
        /\ w'.doubt = w.doubt /\ w'.warned = w.warned /\ w'.untold = w.untold
    BY <1>2 DEF ClaudeWorkers, ClaudeStages
  <2>. QED  BY <1>0, <2>1, ClaudeMovesOn
<1>3. CASE w' = [w EXCEPT !.at = "renew", !.renewed = TRUE]
  <2>1. /\ w' \in ClaudeWorkers /\ w'.at = "renew" /\ w'.place = w.place /\ w'.login = w.login
        /\ w'.read = w.read /\ w'.new = w.new /\ w'.identity = w.identity /\ w'.moved = w.moved
        /\ w'.doubt = w.doubt /\ w'.warned = w.warned /\ w'.untold = w.untold
    BY <1>3 DEF ClaudeWorkers, ClaudeStages
  <2>. QED  BY <1>0, <2>1, ClaudeMovesOn
<1>. QED  BY <1>1, <1>2, <1>3 DEF Claude!Cooldown, Claude!Unauthorized

LEMMA ClaudeAnswerKeeps ==
  ASSUME ClaudeInv, Claude!Answer
  PROVE  ClaudeInv'
<1>0. w.at = "fetch" /\ ClaudeStays
  BY DEF Claude!Answer, ClaudeStays, Claude!cliVars
<1>1. CASE Claude!LoadAgain /\ UNCHANGED Claude!cacheVars
  BY <1>0, <1>1, ClaudeLoadsAgain DEF Claude!cacheVars
<1>2. CASE Claude!Show(w.login.account) /\ lastGood' = w.login.account /\ cached' = cached /\ UNCHANGED Claude!losses
  <2>1. PICK warned \in BOOLEAN, untold \in SUBSET Two : warned = w.warned /\ untold = w.untold
    BY DEF ClaudeInv, ClaudeTypeOK, ClaudeWorkers
  <2>2. w' = [w EXCEPT !.at = "finish", !.usage = w.login.account, !.warned = warned, !.untold = untold]
    BY <1>2, <2>1 DEF Claude!Show, ClaudeInv, ClaudeTypeOK, ClaudeWorkers
  <2>3. UNCHANGED <<explained, silent>>
    BY <1>2 DEF Claude!losses
  <2>. QED  BY <1>0, <1>2, <2>1, <2>2, <2>3, ClaudeShowsKeeps
<1>3. CASE Claude!ShowLastGood /\ lastGood' = lastGood /\ cached' = cached /\ UNCHANGED Claude!losses
  BY <1>0, <1>3, ClaudeShowsLastGood DEF Claude!losses
<1>4. CASE Claude!TryNext /\ UNCHANGED Claude!cacheVars
  BY <1>0, <1>4, ClaudeTriesNext DEF Claude!cacheVars
<1>5. CASE Claude!GiveUp /\ UNCHANGED Claude!cacheVars
  BY <1>0, <1>5, ClaudeGivesUp DEF Claude!cacheVars
<1>. QED  BY <1>1, <1>2, <1>3, <1>4, <1>5 DEF Claude!Answer

LEMMA ClaudeEnds ==
  ASSUME ClaudeInv, Claude!Finish \/ Claude!Relaunch
  PROVE  ClaudeInv'
<1>. USE DEF ClaudeInv, ClaudeTypeOK
<1>0. /\ w' = Claude!Idle /\ stored' = stored /\ accepted' = accepted /\ issued' = issued
      /\ declared' = declared /\ half' = half
  BY DEF Claude!Finish, Claude!Relaunch, Claude!cliVars
<1>1. \A p \in Two : Accounted(p) \/ Excused(p) => p \in explained' \/ p \in silent'
  <2>1. CASE Claude!EndsInError
    BY <2>1, ClaudeIsAClient, ErrorsTell DEF Excused
  <2>2. CASE w.at = "finish" /\ Claude!EndsInUsage
    BY <2>2, ClaudeIsAClient, UsageTells
  <2>. QED  BY <2>1, <2>2 DEF Claude!Finish, Claude!Relaunch
<1>2. /\ cached' \in TokenPairs /\ lastGood' \in Accounts \union {"none"}
      /\ lastGood' \in {cached'.account, "none"}
  BY DEF Claude!Finish, Claude!Relaunch, Claude!cacheVars, Claude!NoLogin, Claude!NoAccount, UsageIsCached
<1>. QED  BY <1>0, <1>1, <1>2, ClaudeRests

LEMMA ClaudeLimitEndsKeeps ==
  ASSUME ClaudeInv, Claude!LimitEnds \/ UNCHANGED Claude!claudeVars
  PROVE  ClaudeInv'
<1>1. UNCHANGED <<stored, accepted, issued, late, explained, silent, declared, half, cached, lastGood, w>>
  BY DEF Claude!LimitEnds, Claude!claudeVars, Claude!cliVars, Claude!history, Claude!losses
<1>2. ClaudeTypeOK' /\ CheckStands' /\ IdentityStands' /\ LoginsAreOwn' /\ UsageIsCached' /\ UsageIsOwn'
  BY <1>1 DEF ClaudeInv, ClaudeTypeOK, CheckStands, IdentityStands, LoginsAreOwn, UsageIsCached,
     UsageIsOwn, Certain, OwnOrNone
<1>3. LoginInv'
  BY <1>1 DEF ClaudeInv, LoginInv, LoginsTypeOK, WorkTypeOK, IssuedPairs, OfOnePlace, NewIsAccepted,
     WorkIsAtAPlace, LossesExplained, Excused, Accounted, Gone
<1>. QED  BY <1>2, <1>3 DEF ClaudeInv

LEMMA ClaudeStepKeeps ==
  ASSUME ClaudeInv, [Claude!ClaudeNext]_Claude!claudeVars
  PROVE  ClaudeInv'
BY ClaudeClientKeeps, ClaudeStartRefreshKeeps, ClaudeLoadCandidatesKeeps, ClaudeActivateKeeps,
   ClaudeAskToRenewKeeps, ClaudeCheckKeeps, ClaudeSaveKeeps, ClaudeFetches, ClaudeAnswerKeeps,
   ClaudeEnds, ClaudeLimitEndsKeeps DEF Claude!ClaudeNext, Claude!Worker

LEMMA ClaudeBegins ==
  ASSUME Claude!ClaudeInit
  PROVE  ClaudeInv
<1>1. /\ w \in ClaudeWorkers /\ w.at = "idle" /\ w.login.pair = 0 /\ w.new = 0 /\ w.untold = {}
      /\ \A p \in Two : w.read[p].pair = 0
  BY ClaudeIdle DEF Claude!ClaudeInit
<1>2. Cli!CliInit
  BY DEF Claude!ClaudeInit, Claude!CliInit, Cli!CliInit, Claude!Places, Cli!Places, Claude!NoLogin,
     Cli!NoLogin, Claude!NoAccount, Cli!NoAccount
<1>3. LoginInv
  BY <1>1, <1>2, LoginsBegin, ClaudeWorks
<1>4. ClaudeTypeOK
  BY <1>1 DEF Claude!ClaudeInit, ClaudeTypeOK, Claude!Whole, Claude!NoAccount, Claude!NoLogin
<1>5. CheckStands /\ IdentityStands /\ LoginsAreOwn /\ UsageIsCached /\ UsageIsOwn
  BY <1>1 DEF Claude!ClaudeInit, CheckStands, IdentityStands, LoginsAreOwn, UsageIsCached, UsageIsOwn,
     Claude!NoAccount
<1>. QED  BY <1>3, <1>4, <1>5 DEF ClaudeInv

LEMMA ClaudeIsRight ==
  ASSUME ClaudeInv
  PROVE  Claude!ClaudeShowsOwn /\ Claude!ClaudeLossExplained
<1>1. Claude!ClaudeShowsOwn
  BY DEF ClaudeInv, UsageIsOwn, Certain, OwnOrNone, Claude!ClaudeShowsOwn, Claude!NoAccount
<1>2. ASSUME NEW p \in Two, Claude!Lost(p)
      PROVE  p \in explained \union silent \union w.untold \/ (w.place = p /\ (w.at \in {"check", "save"} \/ w.warned))
  <2>1. stored[p].pair # 0 /\ stored[p].pair \notin accepted
    <3>1. stored[p] \in TokenPairs /\ (stored[p].pair = 0 => stored[p].account = "none")
      BY DEF ClaudeInv, LoginInv, LoginsTypeOK
    <3>. QED  BY <1>2, <3>1 DEF Claude!Lost, Claude!NoLogin, Claude!NoAccount
  <2>. QED  BY <2>1 DEF ClaudeInv, LoginInv, LossesExplained, Excused, Accounted, Gone
<1>. QED  BY <1>1, <1>2 DEF Claude!ClaudeLossExplained, Claude!Places

LEMMA ClaudeKeepsLogins ==
  ASSUME ClaudeInv
  PROVE  Claude!ClaudeKeeps
BY DEF ClaudeInv, CheckStands, Claude!ClaudeKeeps

-----------------------------------------------------------------------------
(* Codex                                                                   *)

CodexStages == {"idle", "try", "renew", "check", "save", "fetch", "finish"}
CodexWorkers ==
  [at : CodexStages, place : {0, 1, 2}, login : TokenPairs, read : PairsByPlace,
   identity : Accounts \union {"none"}, new : Nat,
   fresh : BOOLEAN, renewed : BOOLEAN, warned : BOOLEAN, untold : SUBSET Two]

IdentityOfLogin == w.at # "idle" => w.login.account = w.identity

(* What the comparison found stands, but for what the client wrote since.  *)
ComparisonStands == w.at = "save" => w.place \in late \/ stored[w.place] = w.login

CodexInv == w \in CodexWorkers /\ LoginInv /\ ComparisonStands /\ IdentityOfLogin

LEMMA CodexIdle ==
  /\ Codex!Idle \in CodexWorkers /\ Codex!Idle.at = "idle" /\ Codex!Idle.place = 0
  /\ Codex!Idle.login.pair = 0 /\ \A p \in Two : Codex!Idle.read[p].pair = 0
  /\ Codex!Idle.new = 0 /\ ~Codex!Idle.warned /\ Codex!Idle.untold = {}
BY DEF Codex!Idle, CodexWorkers, CodexStages, Codex!NoLogin, Codex!NoAccount, Codex!Places

LEMMA CodexWorks ==
  ASSUME w \in CodexWorkers
  PROVE  WorkTypeOK
BY DEF CodexWorkers, WorkTypeOK

LEMMA CodexIsAClient ==
  /\ Codex!EndsInError => Cli!EndsInError
  /\ Codex!EndsInUsage => Cli!EndsInUsage
  /\ Codex!KeepLosses => Cli!KeepLosses
  /\ Codex!Rotate(w.login) => Cli!Rotate(w.login)
BY DEF Codex!EndsInError, Cli!EndsInError, Codex!EndsInUsage, Cli!EndsInUsage, Codex!Warned,
   Cli!Warned, Codex!KeepLosses, Cli!KeepLosses, Codex!Lost, Cli!Lost, Codex!NoLogin, Cli!NoLogin,
   Codex!NoAccount, Cli!NoAccount, Codex!Rotate, Cli!Rotate

CodexStays == stored' = stored /\ accepted' = accepted /\ issued' = issued

LEMMA CodexRests ==
  ASSUME CodexInv, w' = Codex!Idle, stored' = stored,
         \/ /\ accepted' = accepted /\ issued' = issued
            /\ \A p \in Two : Accounted(p) \/ Excused(p) => p \in explained' \/ p \in silent'
         \/ /\ Cli!Rotate(w.login) /\ w.at = "renew"
            /\ \A p \in Two : Accounted(p) \/ p = w.place => p \in explained' \/ p \in silent'
  PROVE  CodexInv'
<1>1. w' \in CodexWorkers /\ w'.at = "idle" /\ WorkTypeOK' /\ WorkIsAtAPlace'
  <2>1. w' \in CodexWorkers /\ w'.at = "idle" /\ w'.untold = {}
    BY CodexIdle
  <2>. QED  BY <2>1 DEF CodexWorkers, WorkTypeOK, WorkIsAtAPlace
<1>2. Holds /\ w'.new = 0 /\ w'.at = "idle"
  BY CodexIdle DEF Holds
<1>3. LoginInv'
  <2>1. CASE /\ accepted' = accepted /\ issued' = issued
             /\ \A p \in Two : Accounted(p) \/ Excused(p) => p \in explained' \/ p \in silent'
    <3>1. \A p \in Two : Gone(p) /\ (Accounted(p) \/ Excused(p)) => Accounted(p)' \/ Excused(p)'
      BY <2>1 DEF Accounted
    <3>. QED  BY <1>1, <1>2, <2>1, <3>1, WorkerMovesKeepsLogins DEF CodexInv
  <2>2. CASE /\ Cli!Rotate(w.login) /\ w.at = "renew"
             /\ \A p \in Two : Accounted(p) \/ p = w.place => p \in explained' \/ p \in silent'
    <3>1. w.place \in Two
      BY <2>2 DEF CodexInv, LoginInv, WorkIsAtAPlace
    <3>2. \A p \in Two : Accounted(p) \/ p = w.place => Accounted(p)'
      BY <2>2 DEF Accounted
    <3>. QED  BY <1>1, <1>2, <2>2, <3>1, <3>2, LostAnswerKeepsLogins DEF CodexInv
  <2>. QED  BY <2>1, <2>2
<1>. QED  BY <1>1, <1>3 DEF CodexInv, ComparisonStands, IdentityOfLogin

LEMMA CodexGivesUp ==
  ASSUME CodexInv, Codex!GiveUp, CodexStays
  PROVE  CodexInv'
<1>1. Cli!EndsInError /\ w' = Codex!Idle
  BY CodexIsAClient DEF Codex!GiveUp
<1>2. \A p \in Two : Accounted(p) \/ Excused(p) => p \in explained' \/ p \in silent'
  BY <1>1, ErrorsTell DEF Excused
<1>. QED  BY <1>1, <1>2, CodexRests DEF CodexStays

LEMMA CodexCandidate ==
  ASSUME NEW logins \in PairsByPlace, NEW p \in Two, NEW untold \in SUBSET Two,
         w' = Codex!Candidate(logins, p, untold)
  PROVE  /\ w' \in CodexWorkers /\ w'.at = "try" /\ w'.place = p /\ w'.login = logins[p]
         /\ w'.read = logins /\ w'.identity = logins[p].account /\ w'.new = 0 /\ w'.untold = untold
         /\ WorkTypeOK' /\ ComparisonStands' /\ IdentityOfLogin'
<1>1. logins[p] \in TokenPairs
  OBVIOUS
<1>2. /\ w' \in CodexWorkers /\ w'.at = "try" /\ w'.place = p /\ w'.login = logins[p]
      /\ w'.read = logins /\ w'.identity = logins[p].account /\ w'.new = 0 /\ w'.untold = untold
  BY <1>1, CodexIdle DEF Codex!Candidate, CodexWorkers, CodexStages
<1>. QED  BY <1>2 DEF CodexWorkers, WorkTypeOK, ComparisonStands, IdentityOfLogin

LEMMA CodexTriesNext ==
  ASSUME CodexInv, Codex!TryNext, CodexStays, w.at \in {"renew", "fetch"}
  PROVE  CodexInv'
<1>0. WorkTypeOK /\ w.place \in Two
  BY CodexWorks DEF CodexInv, LoginInv, WorkIsAtAPlace
<1>1. PICK untold \in SUBSET Two : untold = w.untold \union {w.place}
  BY <1>0 DEF CodexInv, CodexWorkers
<1>3. CASE Codex!GiveUp
  BY <1>3, CodexGivesUp
<1>4. CASE ~Codex!GiveUp
  <2>1. PICK p \in Two : w' = Codex!Candidate(w.read, p, untold)
    <3>1. Codex!NextAfter(w.read, w.place) \in {0, 2}
      BY DEF Codex!NextAfter
    <3>. QED  BY <1>1, <1>4, <3>1 DEF Codex!TryNext
  <2>2. PICK logins \in PairsByPlace : logins = w.read
    BY <1>0 DEF WorkTypeOK
  <2>3. w' = Codex!Candidate(logins, p, untold)
    BY <2>1, <2>2
  <2>4. /\ w' \in CodexWorkers /\ w'.at = "try" /\ w'.place = p /\ w'.login = w.read[p]
        /\ w'.read = w.read /\ w'.new = 0 /\ w'.untold = untold
        /\ WorkTypeOK' /\ ComparisonStands' /\ IdentityOfLogin'
    BY <2>2, <2>3, CodexCandidate
  <2>5. WorkIsAtAPlace' /\ Holds
    BY <2>4 DEF WorkIsAtAPlace, Holds
  <2>6. LoginInv'
    <3>1. UNCHANGED <<explained, silent>>
      BY <1>4 DEF Codex!TryNext, Codex!losses
    <3>2. \A q \in Two : Accounted(q) \/ Excused(q) => Accounted(q)'
      BY <1>1, <2>4, <3>1 DEF Accounted, Excused
    <3>. QED  BY <2>4, <2>5, <3>2, WorkerMovesKeepsLogins DEF CodexInv, CodexStays
  <2>. QED  BY <2>4, <2>6 DEF CodexInv
<1>. QED  BY <1>3, <1>4

LEMMA CodexLoadCandidatesKeeps ==
  ASSUME CodexInv, Codex!LoadCandidates
  PROVE  CodexInv'
<1>1. PICK p \in Two : w' = Codex!Candidate(stored, p, {})
  <2>1. Codex!FirstOf(stored) \in {1, 2}
    BY DEF Codex!FirstOf, Codex!LoadCandidates
  <2>. QED  BY <2>1 DEF Codex!LoadCandidates
<1>2. PICK logins \in PairsByPlace : logins = stored
  BY DEF CodexInv, LoginInv, LoginsTypeOK
<1>3. PICK untold \in SUBSET Two : untold = {} /\ w' = Codex!Candidate(logins, p, untold)
  BY <1>1, <1>2
<1>4. /\ w' \in CodexWorkers /\ w'.at = "try" /\ w'.place = p /\ w'.login = stored[p]
      /\ w'.read = stored /\ w'.new = 0 /\ WorkTypeOK' /\ ComparisonStands' /\ IdentityOfLogin'
  BY <1>2, <1>3, CodexCandidate
<1>5. \A q \in Two : Gone(q) /\ Accounted(q) => Accounted(q)'
  <2>1. w.untold = {} /\ Cli!KeepLosses
    BY CodexIsAClient DEF Codex!LoadCandidates, CodexInv, LoginInv, WorkIsAtAPlace
  <2>. QED  BY <2>1, LossesAreKept DEF Accounted, CodexInv, LoginInv, LoginsTypeOK
<1>6. LoginInv'
  BY <1>4, <1>5, LoadKeepsLogins DEF CodexInv, Codex!LoadCandidates, Codex!cliVars
<1>. QED  BY <1>4, <1>6 DEF CodexInv

(* It goes on with the login it holds.                                     *)
LEMMA CodexMovesOn ==
  ASSUME CodexInv, CodexStays, w.at # "idle", NEW to \in CodexStages \ {"idle"},
         to \in {"check", "save"} => w.at \in {"check", "save"},
         w.at \in {"check", "save"} => to \in {"check", "save"},
         w' \in CodexWorkers, w'.at = to, w'.place = w.place, w'.login = w.login,
         w'.read = w.read, w'.new = w.new, w'.identity = w.identity, w'.warned = w.warned,
         w'.untold = w.untold, UNCHANGED <<explained, silent>>, ComparisonStands'
  PROVE  CodexInv'
<1>1. WorkTypeOK' /\ WorkIsAtAPlace' /\ Holds
  BY DEF CodexInv, CodexWorkers, CodexStages, WorkTypeOK, WorkIsAtAPlace, Holds, LoginInv
<1>2. \A p \in Two : Accounted(p) \/ Excused(p) => (Accounted(p) \/ Excused(p))'
  BY DEF Accounted, Excused, CodexStages
<1>3. LoginInv'
  BY <1>1, <1>2, WorkerMovesKeepsLogins DEF CodexInv, CodexStays
<1>. QED  BY <1>3 DEF CodexInv, IdentityOfLogin

LEMMA CodexReloadKeeps ==
  ASSUME CodexInv, Codex!Reload
  PROVE  CodexInv'
<1>0. w.at = "try" /\ CodexStays /\ w \in CodexWorkers /\ w.place \in Two /\ stored \in PairsByPlace
  BY DEF Codex!Reload, CodexStays, Codex!cliVars, CodexInv, LoginInv, WorkIsAtAPlace, LoginsTypeOK
<1>1. ASSUME NEW to \in {"renew", "fetch"}, w' = [w EXCEPT !.at = to], UNCHANGED <<explained, silent>>
      PROVE  CodexInv'
  <2>1. /\ w' \in CodexWorkers /\ w'.at = to /\ w'.place = w.place /\ w'.login = w.login
        /\ w'.read = w.read /\ w'.new = w.new /\ w'.identity = w.identity
        /\ w'.warned = w.warned /\ w'.untold = w.untold
    BY <1>0, <1>1 DEF CodexWorkers, CodexStages
  <2>2. ComparisonStands'
    BY <2>1 DEF ComparisonStands
  <2>. QED  BY <1>0, <1>1, <2>1, <2>2, CodexMovesOn DEF CodexStages
<1>2. ASSUME NEW to \in {"renew", "fetch"}, w' = [w EXCEPT !.at = to, !.login = stored[w.place]],
             UNCHANGED <<explained, silent>>, Codex!SameAccount
      PROVE  CodexInv'
  <2>0. stored[w.place] \in TokenPairs
    BY <1>0
  <2>1. /\ w' \in CodexWorkers /\ w'.at = to /\ w'.place = w.place /\ w'.login = stored[w.place]
        /\ w'.read = w.read /\ w'.new = w.new /\ w'.identity = w.identity
        /\ w'.warned = w.warned /\ w'.untold = w.untold
    BY <1>0, <1>2, <2>0 DEF CodexWorkers, CodexStages
  <2>2. ComparisonStands' /\ IdentityOfLogin'
    BY <1>2, <2>1 DEF ComparisonStands, IdentityOfLogin, Codex!SameAccount
  <2>3. WorkTypeOK' /\ WorkIsAtAPlace' /\ Holds
    BY <1>0, <2>1 DEF CodexWorkers, WorkTypeOK, WorkIsAtAPlace, Holds
  <2>4. \A p \in Two : Accounted(p) \/ Excused(p) => (Accounted(p) \/ Excused(p))'
    BY <1>0, <1>2, <2>1 DEF Accounted, Excused
  <2>5. LoginInv'
    BY <1>0, <2>1, <2>3, <2>4, WorkerMovesKeepsLogins DEF CodexInv, CodexStays
  <2>. QED  BY <2>1, <2>2, <2>5 DEF CodexInv
<1>3. CASE Codex!GiveUp
  BY <1>0, <1>3, CodexGivesUp
<1>. QED  BY <1>1, <1>2, <1>3 DEF Codex!Reload, Codex!losses

LEMMA CodexAskToRenewKeeps ==
  ASSUME CodexInv, Codex!AskToRenew
  PROVE  CodexInv'
<1>0. w.at = "renew" /\ stored' = stored /\ w \in CodexWorkers
  BY DEF Codex!AskToRenew, CodexInv
<1>1. CASE Codex!Rotate(w.login) /\ w' = [w EXCEPT !.at = "check", !.new = issued'] /\ UNCHANGED Codex!losses
  <2>1. Cli!Rotate(w.login) /\ issued' \in Nat
    BY <1>1, CodexIsAClient DEF Cli!Rotate, CodexInv, LoginInv, LoginsTypeOK
  <2>2. /\ w' \in CodexWorkers /\ w'.at = "check" /\ w'.place = w.place /\ w'.login = w.login
        /\ w'.read = w.read /\ w'.new = issued' /\ w'.identity = w.identity /\ w'.untold = w.untold
    BY <1>0, <1>1, <2>1 DEF CodexWorkers, CodexStages
  <2>3. WorkTypeOK'
    BY <2>2 DEF CodexWorkers, WorkTypeOK
  <2>4. \A p \in Two : Accounted(p) => Accounted(p)'
    BY <1>1, <2>2 DEF Accounted, Codex!losses
  <2>5. LoginInv'
    BY <1>0, <1>1, <2>1, <2>2, <2>3, <2>4, RotateKeepsLogins DEF CodexInv
  <2>6. ComparisonStands' /\ IdentityOfLogin'
    BY <1>0, <2>2 DEF ComparisonStands, IdentityOfLogin, CodexInv
  <2>. QED  BY <2>2, <2>5, <2>6 DEF CodexInv
<1>2. CASE Codex!Rotate(w.login) /\ Codex!GiveUp
  <2>1. Cli!Rotate(w.login) /\ w' = Codex!Idle /\ Cli!EndsInError
    BY <1>2, CodexIsAClient DEF Codex!GiveUp
  <2>. QED  BY <1>0, <2>1, ErrorsTell, CodexRests
<1>3. CASE Codex!TryNext /\ UNCHANGED <<accepted, issued>>
  BY <1>0, <1>3, CodexTriesNext DEF CodexStays
<1>4. CASE Codex!GiveUp /\ UNCHANGED <<accepted, issued>>
  BY <1>0, <1>4, CodexGivesUp DEF CodexStays
<1>. QED  BY <1>1, <1>2, <1>3, <1>4 DEF Codex!AskToRenew

LEMMA CodexCheckKeeps ==
  ASSUME CodexInv, Codex!CheckCurrent
  PROVE  CodexInv'
<1>0. w.at = "check" /\ CodexStays /\ w \in CodexWorkers
  BY DEF Codex!CheckCurrent, CodexStays, Codex!cliVars, CodexInv
<1>1. CASE stored[w.place] = w.login /\ w' = [w EXCEPT !.at = "save"] /\ UNCHANGED <<explained, silent>>
  <2>1. /\ w' \in CodexWorkers /\ w'.at = "save" /\ w'.place = w.place /\ w'.login = w.login
        /\ w'.read = w.read /\ w'.new = w.new /\ w'.identity = w.identity
        /\ w'.warned = w.warned /\ w'.untold = w.untold
    BY <1>0, <1>1 DEF CodexWorkers, CodexStages
  <2>2. ComparisonStands'
    BY <1>0, <1>1, <2>1 DEF ComparisonStands, CodexStays
  <2>. QED  BY <1>0, <1>1, <2>1, <2>2, CodexMovesOn DEF CodexStages
<1>2. CASE Codex!GiveUp
  BY <1>0, <1>2, CodexGivesUp
<1>. QED  BY <1>1, <1>2 DEF Codex!CheckCurrent, Codex!losses

LEMMA CodexSaveKeeps ==
  ASSUME CodexInv, Codex!SavePair
  PROVE  CodexInv'
<1>. USE DEF CodexInv
<1>0. /\ w.at = "save" /\ accepted' = accepted /\ issued' = issued
      /\ explained' = explained /\ silent' = silent /\ w.place \in Two /\ w.login \in TokenPairs /\ w.new \in Nat
      /\ w.warned \in BOOLEAN /\ w \in CodexWorkers
  BY DEF Codex!SavePair, Codex!losses, LoginInv, WorkIsAtAPlace, WorkTypeOK
<1>1. PICK kept \in TokenPairs : kept = [w.login EXCEPT !.pair = w.new] /\ kept.account = w.login.account
  <2>1. /\ [w.login EXCEPT !.pair = w.new] \in TokenPairs
        /\ [w.login EXCEPT !.pair = w.new].account = w.login.account
    BY <1>0
  <2>. QED  BY <2>1
<1>2. PICK warned \in BOOLEAN :
        /\ w' = [w EXCEPT !.at = "fetch", !.login = kept, !.new = 0, !.warned = warned]
        /\ \/ stored' = [stored EXCEPT ![w.place] = kept]
           \/ stored' = stored /\ warned
  <2>1. \A b \in BOOLEAN : Codex!GoOn(b) => \E warned \in BOOLEAN :
          /\ w' = [w EXCEPT !.at = "fetch", !.login = kept, !.new = 0, !.warned = warned]
          /\ b => warned
    <3>1. SUFFICES ASSUME NEW b \in BOOLEAN, Codex!GoOn(b)
          PROVE  \E warned \in BOOLEAN :
                   /\ w' = [w EXCEPT !.at = "fetch", !.login = kept, !.new = 0, !.warned = warned]
                   /\ b => warned
      OBVIOUS
    <3>2. PICK warned \in BOOLEAN : warned = (w.warned \/ b)
      BY <1>0, Zenon
    <3>3. w' = [w EXCEPT !.at = "fetch", !.login.pair = w.new, !.new = 0, !.warned = warned]
      BY <3>1, <3>2, Zenon DEF Codex!GoOn
    <3>4. w' = [w EXCEPT !.at = "fetch", !.login = kept, !.new = 0, !.warned = warned]
      BY <1>0, <1>1, <3>3 DEF CodexWorkers
    <3>5. b => warned
      BY <3>2, Zenon
    <3>. QED  BY <3>4, <3>5
  <2>. QED  BY <1>1, <2>1 DEF Codex!SavePair
<1>3. /\ w' \in CodexWorkers /\ w'.at = "fetch" /\ w'.place = w.place /\ w'.login = kept
      /\ w'.read = w.read /\ w'.new = 0 /\ w'.identity = w.identity
      /\ w'.warned = warned /\ w'.untold = w.untold
  BY <1>0, <1>1, <1>2 DEF CodexWorkers, CodexStages
<1>4. WorkTypeOK'
  BY <1>3 DEF CodexWorkers, WorkTypeOK
<1>5. LoginInv'
  <2>1. w'.login = [w.login EXCEPT !.pair = w.new] /\ w'.at \in {"cooldown", "fetch"}
    BY <1>1, <1>3
  <2>2. \/ /\ stored' = [stored EXCEPT ![w.place] = [w.login EXCEPT !.pair = w.new]]
           /\ w'.read \in {w.read, [w.read EXCEPT ![w.place] = stored'[w.place]]}
        \/ stored' = stored /\ w'.read = w.read /\ w'.warned
    BY <1>1, <1>2, <1>3
  <2>3. \A p \in Two : Accounted(p) => Accounted(p)'
    BY <1>0, <1>3 DEF Accounted
  <2>. QED  BY <1>0, <1>3, <1>4, <2>1, <2>2, <2>3, SaveKeepsLogins
<1>. QED  BY <1>0, <1>1, <1>3, <1>5 DEF ComparisonStands, IdentityOfLogin

LEMMA CodexFetches ==
  ASSUME CodexInv, Codex!Unauthorized \/ Codex!Answer
  PROVE  CodexInv'
<1>0. w.at = "fetch" /\ CodexStays /\ w \in CodexWorkers
  BY DEF Codex!Unauthorized, Codex!Answer, CodexStays, Codex!cliVars, CodexInv
<1>1. CASE w' = [w EXCEPT !.at = "renew", !.renewed = TRUE] /\ UNCHANGED <<explained, silent>>
  <2>1. /\ w' \in CodexWorkers /\ w'.at = "renew" /\ w'.place = w.place /\ w'.login = w.login
        /\ w'.read = w.read /\ w'.new = w.new /\ w'.identity = w.identity
        /\ w'.warned = w.warned /\ w'.untold = w.untold
    BY <1>0, <1>1 DEF CodexWorkers, CodexStages
  <2>. QED  BY <1>0, <1>1, <2>1, CodexMovesOn DEF CodexStages, ComparisonStands
<1>2. CASE w' = [w EXCEPT !.at = "finish"] /\ UNCHANGED <<explained, silent>>
  <2>1. /\ w' \in CodexWorkers /\ w'.at = "finish" /\ w'.place = w.place /\ w'.login = w.login
        /\ w'.read = w.read /\ w'.new = w.new /\ w'.identity = w.identity
        /\ w'.warned = w.warned /\ w'.untold = w.untold
    BY <1>0, <1>2 DEF CodexWorkers, CodexStages
  <2>. QED  BY <1>0, <1>2, <2>1, CodexMovesOn DEF CodexStages, ComparisonStands
<1>3. CASE Codex!GiveUp
  BY <1>0, <1>3, CodexGivesUp
<1>4. CASE Codex!TryNext
  BY <1>0, <1>4, CodexTriesNext
<1>. QED  BY <1>1, <1>2, <1>3, <1>4 DEF Codex!Unauthorized, Codex!Answer, Codex!history, Codex!losses

LEMMA CodexEnds ==
  ASSUME CodexInv, Codex!Finish \/ Codex!Relaunch
  PROVE  CodexInv'
<1>1. w' = Codex!Idle /\ stored' = stored /\ accepted' = accepted /\ issued' = issued
  BY DEF Codex!Finish, Codex!Relaunch, Codex!cliVars
<1>2. \A p \in Two : Accounted(p) \/ Excused(p) => p \in explained' \/ p \in silent'
  <2>1. CASE Codex!EndsInError
    BY <2>1, CodexIsAClient, ErrorsTell DEF Excused
  <2>2. CASE w.at = "finish" /\ Codex!EndsInUsage
    BY <2>2, CodexIsAClient, UsageTells
  <2>. QED  BY <2>1, <2>2 DEF Codex!Finish, Codex!Relaunch
<1>. QED  BY <1>1, <1>2, CodexRests

LEMMA CodexClientKeeps ==
  ASSUME CodexInv, Codex!Client
  PROVE  CodexInv'
<1>0. w' = w
  BY DEF Codex!Client
<1>1. PICK p \in Two : \/ \E a \in Accounts : Codex!ClientLogsIn(p, a)
                       \/ Codex!ClientRenews(p) \/ Codex!ClientLogsOut(p)
  BY DEF Codex!Client, Codex!Places
<1>2. \/ \E a \in Accounts \union {"none"} : Cli!ClientLogsIn(p, a)
      \/ Cli!ClientRenews(p) \/ Cli!ClientLogsOut(p)
  BY <1>1 DEF Codex!ClientLogsIn, Codex!ClientRenews, Codex!ClientLogsOut, Codex!ClientStores,
     Cli!ClientLogsIn, Cli!ClientRenews, Cli!ClientLogsOut, Cli!ClientStores, Codex!NoLogin, Cli!NoLogin,
     Codex!NoAccount, Cli!NoAccount
<1>3. LoginInv'
  <2>1. SameWork
    BY <1>0 DEF SameWork
  <2>. QED  BY <1>2, <2>1, ClientKeepsLogins DEF CodexInv
<1>4. (w.at = "save" => late' = late \union {p}) /\ \A q \in Two : q = p \/ stored'[q] = stored[q]
  BY <1>1 DEF Codex!ClientLogsIn, Codex!ClientRenews, Codex!ClientLogsOut, Codex!ClientStores,
     CodexInv, LoginInv, LoginsTypeOK
<1>5. ComparisonStands'
  BY <1>0, <1>4 DEF CodexInv, ComparisonStands, LoginInv, WorkIsAtAPlace
<1>. QED  BY <1>0, <1>3, <1>5 DEF CodexInv, IdentityOfLogin

LEMMA CodexStepKeeps ==
  ASSUME CodexInv, [Codex!CodexNext]_Codex!codexVars
  PROVE  CodexInv'
<1>1. CASE UNCHANGED Codex!codexVars
  <2>1. UNCHANGED <<stored, accepted, issued, late, explained, silent, w>>
    BY <1>1 DEF Codex!codexVars, Codex!cliVars, Codex!history, Codex!losses
  <2>. QED  BY <2>1 DEF CodexInv, ComparisonStands, IdentityOfLogin, LoginInv, LoginsTypeOK, WorkTypeOK,
            IssuedPairs, OfOnePlace, NewIsAccepted, WorkIsAtAPlace, LossesExplained, Excused,
            Accounted, Gone
<1>. QED  BY <1>1, CodexClientKeeps, CodexLoadCandidatesKeeps, CodexReloadKeeps, CodexAskToRenewKeeps,
          CodexCheckKeeps, CodexSaveKeeps, CodexFetches, CodexEnds DEF Codex!CodexNext

LEMMA CodexBegins ==
  ASSUME Codex!CodexInit
  PROVE  CodexInv
<1>1. /\ w \in CodexWorkers /\ w.at = "idle" /\ w.login.pair = 0 /\ w.new = 0 /\ w.untold = {}
      /\ \A p \in Two : w.read[p].pair = 0
  BY CodexIdle DEF Codex!CodexInit
<1>2. Cli!CliInit
  BY DEF Codex!CodexInit, Codex!CliInit, Cli!CliInit, Codex!Places, Cli!Places, Codex!NoLogin,
     Cli!NoLogin, Codex!NoAccount, Cli!NoAccount
<1>3. LoginInv
  BY <1>1, <1>2, LoginsBegin, CodexWorks
<1>. QED  BY <1>1, <1>3 DEF CodexInv, ComparisonStands, IdentityOfLogin

LEMMA CodexIsRight ==
  ASSUME CodexInv
  PROVE  Codex!CodexShowsOwn /\ Codex!CodexLossExplained
<1>1. Codex!CodexShowsOwn
  BY DEF CodexInv, IdentityOfLogin, Codex!CodexShowsOwn
<1>2. ASSUME NEW p \in Two, Codex!Lost(p)
      PROVE  p \in explained \union silent \union w.untold \/ (w.place = p /\ (w.at \in {"check", "save"} \/ w.warned))
  <2>1. stored[p].pair # 0 /\ stored[p].pair \notin accepted
    <3>1. stored[p] \in TokenPairs /\ (stored[p].pair = 0 => stored[p].account = "none")
      BY DEF CodexInv, LoginInv, LoginsTypeOK
    <3>. QED  BY <1>2, <3>1 DEF Codex!Lost, Codex!NoLogin, Codex!NoAccount
  <2>. QED  BY <2>1 DEF CodexInv, LoginInv, LossesExplained, Excused, Accounted, Gone
<1>. QED  BY <1>1, <1>2 DEF Codex!CodexLossExplained, Codex!Places

LEMMA CodexKeepsLogins ==
  ASSUME CodexInv
  PROVE  Codex!CodexKeeps
BY DEF CodexInv, ComparisonStands, Codex!CodexKeeps

-----------------------------------------------------------------------------
(* Grok                                                                    *)

GrokStages == {"idle", "try", "renew", "check", "save", "fetch"}
GrokWorkers ==
  [at : GrokStages, place : {0, 1, 2}, login : TokenPairs, read : PairsByPlace,
   kept : PairsByPlace, document : PairsByPlace, gone : BOOLEAN, new : Nat,
   renewed : BOOLEAN, warned : BOOLEAN, untold : SUBSET Two]

(* The document of the state, which a write puts back when the file is     *)
(* gone, keeps the pairs apart as the one that was read does.              *)
Apart(document) ==
  /\ \A p \in Two :
       /\ document[p].pair <= issued
       /\ document[p].pair = 0 => document[p].account = "none"
       /\ w.new # 0 => document[p].pair # w.new
  /\ \A p, q \in Two : p # q /\ document[p].pair # 0 =>
       /\ document[p].pair # document[q].pair
       /\ document[p].pair # w.read[q].pair

KeptApart == Apart(w.kept) /\ Apart(w.read)

(* The document to be written back keeps the pairs apart as the stored one *)
(* does, and what the client writes from now on is not known.              *)
DocumentApart == w.at = "save" => Apart(w.document)

(* What save has read stands, but for what the client wrote since, and for *)
(* the entries of a file that was gone.                                    *)
ReadingStands ==
  w.at = "save" => \A p \in Two :
    p \in late \/ stored[p] = w.document[p] \/ (w.gone /\ stored[p] = Grok!NoLogin)

GrokInv ==
  w \in GrokWorkers /\ LoginInv /\ KeptApart /\ DocumentApart /\ ReadingStands

LEMMA GrokIdle ==
  /\ Grok!Idle \in GrokWorkers /\ Grok!Idle.at = "idle" /\ Grok!Idle.place = 0
  /\ Grok!Idle.login.pair = 0 /\ \A p \in Two : Grok!Idle.read[p].pair = 0
  /\ Grok!Idle.new = 0 /\ ~Grok!Idle.warned /\ Grok!Idle.untold = {}
  /\ \A p \in Two : /\ Grok!Idle.kept[p].pair = 0 /\ Grok!Idle.kept[p].account = "none"
                    /\ Grok!Idle.read[p].account = "none"
<1>1. Grok!Nothing \in PairsByPlace /\ \A p \in Two : Grok!Nothing[p].pair = 0 /\ Grok!Nothing[p].account = "none"
  BY DEF Grok!Nothing, Grok!NoLogin, Grok!NoAccount, Grok!Places
<1>. QED  BY <1>1 DEF Grok!Idle, GrokWorkers, GrokStages, Grok!NoLogin, Grok!NoAccount

LEMMA GrokWorks ==
  ASSUME w \in GrokWorkers
  PROVE  WorkTypeOK
BY DEF GrokWorkers, WorkTypeOK

LEMMA GrokIsAClient ==
  /\ Grok!EndsInError => Cli!EndsInError
  /\ Grok!EndsInUsage => Cli!EndsInUsage
  /\ Grok!KeepLosses => Cli!KeepLosses
  /\ Grok!Rotate(w.login) => Cli!Rotate(w.login)
BY DEF Grok!EndsInError, Cli!EndsInError, Grok!EndsInUsage, Cli!EndsInUsage, Grok!Warned,
   Cli!Warned, Grok!KeepLosses, Cli!KeepLosses, Grok!Lost, Cli!Lost, Grok!NoLogin, Cli!NoLogin,
   Grok!NoAccount, Cli!NoAccount, Grok!Rotate, Cli!Rotate

(* What is kept stays apart while no pair is issued, and with a new one.   *)
LEMMA KeptStaysApart ==
  ASSUME KeptApart, w \in GrokWorkers, issued \in Nat, issued' \in Nat, issued <= issued',
         w'.kept = w.kept, w'.read = w.read,
         w'.new \in {0, w.new} \/ (w'.new = issued' /\ issued < issued')
  PROVE  KeptApart'
<1>1. ASSUME NEW logins \in PairsByPlace, Apart(logins)
      PROVE  /\ \A p \in Two : /\ logins[p].pair <= issued'
                               /\ logins[p].pair = 0 => logins[p].account = "none"
                               /\ w'.new # 0 => logins[p].pair # w'.new
             /\ \A p, q \in Two : p # q /\ logins[p].pair # 0 =>
                  logins[p].pair # logins[q].pair /\ logins[p].pair # w'.read[q].pair
  <2>1. \A p \in Two : logins[p].pair \in Nat /\ logins[p].pair <= issued
    BY <1>1 DEF Apart
  <2>2. \A p \in Two : logins[p].pair <= issued' /\ (w'.new # 0 => logins[p].pair # w'.new)
    BY <1>1, <2>1 DEF Apart
  <2>. QED  BY <1>1, <2>2 DEF Apart
<1>2. w.kept \in PairsByPlace /\ w.read \in PairsByPlace
  BY DEF GrokWorkers
<1>. QED  BY <1>1, <1>2 DEF KeptApart, Apart

GrokStays == stored' = stored /\ accepted' = accepted /\ issued' = issued

LEMMA GrokRests ==
  ASSUME GrokInv, w' = Grok!Idle, stored' = stored,
         \/ /\ accepted' = accepted /\ issued' = issued
            /\ \A p \in Two : Accounted(p) \/ Excused(p) => p \in explained' \/ p \in silent'
         \/ /\ Cli!Rotate(w.login) /\ w.at = "renew"
            /\ \A p \in Two : Accounted(p) \/ p = w.place => p \in explained' \/ p \in silent'
  PROVE  GrokInv'
<1>1. w' \in GrokWorkers /\ w'.at = "idle" /\ WorkTypeOK' /\ WorkIsAtAPlace'
  <2>1. w' \in GrokWorkers /\ w'.at = "idle" /\ w'.untold = {}
    BY GrokIdle
  <2>. QED  BY <2>1 DEF GrokWorkers, WorkTypeOK, WorkIsAtAPlace
<1>2. Holds /\ w'.new = 0 /\ w'.at = "idle"
  BY GrokIdle DEF Holds
<1>3. LoginInv'
  <2>1. CASE /\ accepted' = accepted /\ issued' = issued
             /\ \A p \in Two : Accounted(p) \/ Excused(p) => p \in explained' \/ p \in silent'
    <3>1. \A p \in Two : Gone(p) /\ (Accounted(p) \/ Excused(p)) => Accounted(p)' \/ Excused(p)'
      BY <2>1 DEF Accounted
    <3>. QED  BY <1>1, <1>2, <2>1, <3>1, WorkerMovesKeepsLogins DEF GrokInv
  <2>2. CASE /\ Cli!Rotate(w.login) /\ w.at = "renew"
             /\ \A p \in Two : Accounted(p) \/ p = w.place => p \in explained' \/ p \in silent'
    <3>1. w.place \in Two
      BY <2>2 DEF GrokInv, LoginInv, WorkIsAtAPlace
    <3>2. \A p \in Two : Accounted(p) \/ p = w.place => Accounted(p)'
      BY <2>2 DEF Accounted
    <3>. QED  BY <1>1, <1>2, <2>2, <3>1, <3>2, LostAnswerKeepsLogins DEF GrokInv
  <2>. QED  BY <2>1, <2>2
<1>4. KeptApart'
  <2>1. /\ \A p \in Two : /\ w'.kept[p].pair = 0 /\ w'.kept[p].account = "none"
                          /\ w'.read[p].pair = 0 /\ w'.read[p].account = "none"
        /\ issued' \in Nat
    BY <1>3, GrokIdle DEF LoginInv, LoginsTypeOK
  <2>. QED  BY <1>2, <2>1 DEF KeptApart, Apart
<1>. QED  BY <1>1, <1>3, <1>4 DEF GrokInv, DocumentApart, ReadingStands

LEMMA GrokGivesUp ==
  ASSUME GrokInv, Grok!GiveUp, GrokStays
  PROVE  GrokInv'
<1>1. Cli!EndsInError /\ w' = Grok!Idle
  BY GrokIsAClient DEF Grok!GiveUp
<1>2. \A p \in Two : Accounted(p) \/ Excused(p) => p \in explained' \/ p \in silent'
  BY <1>1, ErrorsTell DEF Excused
<1>. QED  BY <1>1, <1>2, GrokRests DEF GrokStays

LEMMA GrokCandidate ==
  ASSUME NEW logins \in PairsByPlace, NEW p \in Two, NEW untold \in SUBSET Two,
         w' = Grok!Candidate(logins, p, untold)
  PROVE  /\ w' \in GrokWorkers /\ w'.at = "try" /\ w'.place = p /\ w'.login = logins[p]
         /\ w'.read = logins /\ w'.kept = logins /\ w'.new = 0 /\ w'.untold = untold
         /\ WorkTypeOK' /\ DocumentApart' /\ ReadingStands'
<1>1. logins[p] \in TokenPairs
  OBVIOUS
<1>2. /\ w' \in GrokWorkers /\ w'.at = "try" /\ w'.place = p /\ w'.login = logins[p]
      /\ w'.read = logins /\ w'.kept = logins /\ w'.new = 0 /\ w'.untold = untold
  BY <1>1, GrokIdle DEF Grok!Candidate, GrokWorkers, GrokStages
<1>. QED  BY <1>2 DEF GrokWorkers, WorkTypeOK, DocumentApart, ReadingStands

LEMMA GrokTriesNext ==
  ASSUME GrokInv, Grok!TryNext, stored' = stored, w.at \in {"renew", "fetch"},
         \/ accepted' = accepted /\ issued' = issued
         \/ w.at = "renew" /\ Cli!Rotate(w.login)
  PROVE  GrokInv'
<1>0. WorkTypeOK /\ w.place \in Two
  BY GrokWorks DEF GrokInv, LoginInv, WorkIsAtAPlace
<1>1. PICK untold \in SUBSET Two : untold = w.untold \union {w.place}
  BY <1>0 DEF GrokInv, GrokWorkers
<1>3. CASE Grok!GiveUp
  <2>1. w' = Grok!Idle /\ Cli!EndsInError
    BY <1>3, GrokIsAClient DEF Grok!GiveUp
  <2>2. /\ \A p \in Two : Accounted(p) \/ Excused(p) => p \in explained' \/ p \in silent'
        /\ \A p \in Two : Accounted(p) \/ p = w.place => p \in explained' \/ p \in silent'
    BY <2>1, ErrorsTell DEF Excused
  <2>. QED  BY <2>1, <2>2, GrokRests
<1>4. CASE ~Grok!GiveUp
  <2>1. PICK p \in Two : w' = Grok!Candidate(w.read, p, untold)
    <3>1. Grok!NextAfter(w.read, w.place) \in {0, 2}
      BY DEF Grok!NextAfter
    <3>. QED  BY <1>1, <1>4, <3>1 DEF Grok!TryNext
  <2>2. PICK logins \in PairsByPlace : logins = w.read
    BY <1>0 DEF WorkTypeOK
  <2>3. w' = Grok!Candidate(logins, p, untold)
    BY <2>1, <2>2
  <2>4. /\ w' \in GrokWorkers /\ w'.at = "try" /\ w'.place = p /\ w'.login = w.read[p]
        /\ w'.read = w.read /\ w'.kept = w.read /\ w'.new = 0 /\ w'.untold = untold
        /\ WorkTypeOK' /\ DocumentApart' /\ ReadingStands'
    BY <2>2, <2>3, GrokCandidate
  <2>5. WorkIsAtAPlace' /\ Holds
    BY <2>4 DEF WorkIsAtAPlace, Holds
  <2>6. \A q \in Two : Accounted(q) \/ q = w.place => Accounted(q)'
    <3>1. UNCHANGED <<explained, silent>>
      BY <1>4 DEF Grok!TryNext, Grok!losses
    <3>. QED  BY <1>1, <2>4, <3>1 DEF Accounted
  <2>7. LoginInv'
    <3>1. CASE accepted' = accepted /\ issued' = issued
      <4>1. \A q \in Two : Gone(q) /\ (Accounted(q) \/ Excused(q)) => Accounted(q)' \/ Excused(q)'
        BY <2>6 DEF Excused
      <4>. QED  BY <2>4, <2>5, <3>1, <4>1, WorkerMovesKeepsLogins DEF GrokInv
    <3>2. CASE Cli!Rotate(w.login)
      BY <1>0, <2>4, <2>5, <2>6, <3>2, LostAnswerKeepsLogins DEF GrokInv
    <3>. QED  BY <3>1, <3>2
  <2>8. KeptApart'
    <3>1. issued \in Nat /\ issued' \in Nat /\ issued <= issued'
      BY <2>7 DEF GrokInv, LoginInv, LoginsTypeOK, Cli!Rotate
    <3>2. \A q \in Two : w.read[q].pair \in Nat
      BY <1>0 DEF WorkTypeOK
    <3>. QED  BY <2>4, <3>1, <3>2 DEF GrokInv, KeptApart, Apart
  <2>. QED  BY <2>4, <2>7, <2>8 DEF GrokInv
<1>. QED  BY <1>3, <1>4

LEMMA GrokLoadCandidatesKeeps ==
  ASSUME GrokInv, Grok!LoadCandidates
  PROVE  GrokInv'
<1>1. PICK p \in Two : w' = Grok!Candidate(stored, p, {})
  <2>1. Grok!FirstOf(stored) \in {1, 2}
    BY DEF Grok!FirstOf, Grok!LoadCandidates
  <2>. QED  BY <2>1 DEF Grok!LoadCandidates
<1>2. PICK logins \in PairsByPlace : logins = stored
  BY DEF GrokInv, LoginInv, LoginsTypeOK
<1>3. PICK untold \in SUBSET Two : untold = {} /\ w' = Grok!Candidate(logins, p, untold)
  BY <1>1, <1>2
<1>4. /\ w' \in GrokWorkers /\ w'.at = "try" /\ w'.place = p /\ w'.login = stored[p]
      /\ w'.read = stored /\ w'.kept = stored /\ w'.new = 0
      /\ WorkTypeOK' /\ DocumentApart' /\ ReadingStands'
  BY <1>2, <1>3, GrokCandidate
<1>5. \A q \in Two : Gone(q) /\ Accounted(q) => Accounted(q)'
  <2>1. w.untold = {} /\ Cli!KeepLosses
    BY GrokIsAClient DEF Grok!LoadCandidates, GrokInv, LoginInv, WorkIsAtAPlace
  <2>. QED  BY <2>1, LossesAreKept DEF Accounted, GrokInv, LoginInv, LoginsTypeOK
<1>6. LoginInv'
  BY <1>4, <1>5, LoadKeepsLogins DEF GrokInv, Grok!LoadCandidates, Grok!cliVars
<1>7. KeptApart'
  <2>1. issued' = issued
    BY DEF Grok!LoadCandidates, Grok!cliVars
  <2>. QED  BY <1>4, <2>1 DEF GrokInv, LoginInv, LoginsTypeOK, IssuedPairs, OfOnePlace, KeptApart, Apart
<1>. QED  BY <1>4, <1>6, <1>7 DEF GrokInv

(* It goes on with the login it holds.                                     *)
LEMMA GrokMovesOn ==
  ASSUME GrokInv, w.at # "idle", NEW to \in GrokStages \ {"idle", "check"}, stored' = stored,
         to = "save" => w.at = "check", w.at = "check" => to = "save", w.at # "save",
         w' \in GrokWorkers, w'.at = to, w'.place = w.place, w'.login = w.login,
         w'.read = w.read, w'.kept = w.kept, w'.new = w.new, w'.warned = w.warned,
         \/ accepted' = accepted /\ issued' = issued
         \/ w.at = "renew" /\ Cli!Rotate(w.login) /\ w.place \in w'.untold,
         \A p \in Two : Accounted(p) => Accounted(p)',
         DocumentApart', ReadingStands'
  PROVE  GrokInv'
<1>1. WorkTypeOK' /\ WorkIsAtAPlace' /\ Holds /\ \A p \in Two : Excused(p) => Excused(p)'
  BY DEF GrokInv, GrokWorkers, GrokStages, WorkTypeOK, WorkIsAtAPlace, Holds, Excused, LoginInv
<1>2. LoginInv'
  <2>1. CASE accepted' = accepted /\ issued' = issued
    BY <1>1, <2>1, WorkerMovesKeepsLogins DEF GrokInv
  <2>2. CASE w.at = "renew" /\ Cli!Rotate(w.login) /\ w.place \in w'.untold
    <3>1. w.place \in Two /\ w'.at \notin {"check", "save"}
      BY <2>2 DEF GrokInv, LoginInv, WorkIsAtAPlace
    <3>2. \A p \in Two : Accounted(p) \/ p = w.place => Accounted(p)'
      BY <2>2 DEF Accounted
    <3>. QED  BY <1>1, <2>2, <3>1, <3>2, LostAnswerKeepsLogins DEF GrokInv
  <2>. QED  BY <2>1, <2>2
<1>3. KeptApart'
  <2>1. issued \in Nat /\ issued' \in Nat /\ issued <= issued'
    BY <1>2 DEF GrokInv, LoginInv, LoginsTypeOK, Cli!Rotate
  <2>. QED  BY <2>1, KeptStaysApart DEF GrokInv
<1>. QED  BY <1>2, <1>3 DEF GrokInv

LEMMA GrokNeedsRefreshKeeps ==
  ASSUME GrokInv, Grok!NeedsRefresh
  PROVE  GrokInv'
<1>1. PICK to \in {"renew", "fetch"} : w' = [w EXCEPT !.at = to]
  BY DEF Grok!NeedsRefresh
<1>2. /\ w' \in GrokWorkers /\ w'.at = to /\ w'.place = w.place /\ w'.login = w.login
      /\ w'.read = w.read /\ w'.kept = w.kept /\ w'.new = w.new /\ w'.warned = w.warned
        /\ w'.untold = w.untold
  BY <1>1 DEF GrokInv, GrokWorkers, GrokStages
<1>3. DocumentApart' /\ ReadingStands'
  BY <1>2 DEF DocumentApart, ReadingStands
<1>4. \A p \in Two : Accounted(p) => Accounted(p)'
  BY <1>2 DEF Accounted, Grok!NeedsRefresh, Grok!history, Grok!losses
<1>. QED  BY <1>2, <1>3, <1>4, GrokMovesOn DEF Grok!NeedsRefresh, Grok!cliVars, GrokStages

LEMMA GrokRenewalFailsKeeps ==
  ASSUME GrokInv, w.at = "renew", NEW refused, Grok!RenewalFails(refused), stored' = stored,
         (accepted' = accepted /\ issued' = issued) \/ Cli!Rotate(w.login)
  PROVE  GrokInv'
<1>0. w \in GrokWorkers /\ w.place \in Two
  BY DEF GrokInv, LoginInv, WorkIsAtAPlace
<1>1. CASE w' = [w EXCEPT !.at = "fetch", !.untold = @ \union {w.place}] /\ UNCHANGED Grok!losses
  <2>0. PICK untold \in SUBSET Two : untold = w.untold \union {w.place}
    BY <1>0 DEF GrokWorkers
  <2>1. w' = [w EXCEPT !.at = "fetch", !.untold = untold]
    BY <1>1, <2>0
  <2>2. /\ w' \in GrokWorkers /\ w'.at = "fetch" /\ w'.place = w.place /\ w'.login = w.login
        /\ w'.read = w.read /\ w'.kept = w.kept /\ w'.new = w.new /\ w'.warned = w.warned
        /\ w'.untold = untold
    BY <1>0, <2>1 DEF GrokWorkers, GrokStages
  <2>3. DocumentApart' /\ ReadingStands'
    BY <2>2 DEF DocumentApart, ReadingStands
  <2>4. w.place \in w'.untold /\ \A p \in Two : Accounted(p) => Accounted(p)'
    BY <1>1, <2>0, <2>2 DEF Accounted, Grok!losses
  <2>. QED  BY <2>2, <2>3, <2>4, GrokMovesOn DEF GrokStages
<1>2. CASE Grok!TryNext
  BY <1>2, GrokTriesNext
<1>3. CASE Grok!GiveUp
  <2>1. w' = Grok!Idle /\ Cli!EndsInError
    BY <1>3, GrokIsAClient DEF Grok!GiveUp
  <2>2. /\ \A p \in Two : Accounted(p) \/ Excused(p) => p \in explained' \/ p \in silent'
        /\ \A p \in Two : Accounted(p) \/ p = w.place => p \in explained' \/ p \in silent'
    BY <2>1, ErrorsTell DEF Excused
  <2>. QED  BY <2>1, <2>2, GrokRests
<1>. QED  BY <1>1, <1>2, <1>3 DEF Grok!RenewalFails

LEMMA GrokAskToRenewKeeps ==
  ASSUME GrokInv, Grok!AskToRenew
  PROVE  GrokInv'
<1>0. w.at = "renew" /\ stored' = stored /\ w \in GrokWorkers
  BY DEF Grok!AskToRenew, GrokInv
<1>1. CASE Grok!Rotate(w.login) /\ w' = [w EXCEPT !.at = "check", !.new = issued'] /\ UNCHANGED Grok!losses
  <2>1. Cli!Rotate(w.login) /\ issued' \in Nat
    BY <1>1, GrokIsAClient DEF Cli!Rotate, GrokInv, LoginInv, LoginsTypeOK
  <2>2. /\ w' \in GrokWorkers /\ w'.at = "check" /\ w'.place = w.place /\ w'.login = w.login
        /\ w'.read = w.read /\ w'.kept = w.kept /\ w'.new = issued' /\ w'.untold = w.untold
    BY <1>0, <1>1, <2>1 DEF GrokWorkers, GrokStages
  <2>3. WorkTypeOK'
    BY <2>2 DEF GrokWorkers, WorkTypeOK
  <2>4. \A p \in Two : Accounted(p) => Accounted(p)'
    BY <1>1, <2>2 DEF Accounted, Grok!losses
  <2>5. LoginInv'
    BY <1>0, <1>1, <2>1, <2>2, <2>3, <2>4, RotateKeepsLogins DEF GrokInv
  <2>6. DocumentApart' /\ ReadingStands'
    BY <2>2 DEF DocumentApart, ReadingStands
  <2>7. KeptApart'
    <3>1. issued \in Nat /\ issued' \in Nat /\ issued' = issued + 1
      BY <2>1 DEF GrokInv, LoginInv, LoginsTypeOK, Cli!Rotate
    <3>. QED  BY <2>2, <3>1, KeptStaysApart DEF GrokInv
  <2>. QED  BY <2>2, <2>5, <2>6, <2>7 DEF GrokInv
<1>2. CASE Grok!Rotate(w.login) /\ Grok!RenewalFails(FALSE)
  <2>1. Cli!Rotate(w.login)
    BY <1>2, GrokIsAClient
  <2>. QED  BY <1>0, <1>2, <2>1, GrokRenewalFailsKeeps
<1>3. CASE Grok!RenewalFails(Grok!Refused(w.login)) /\ UNCHANGED <<accepted, issued>>
  <2>1. PICK refused : Grok!RenewalFails(refused)
    BY <1>3
  <2>. QED  BY <1>0, <1>3, <2>1, GrokRenewalFailsKeeps
<1>. QED  BY <1>1, <1>2, <1>3 DEF Grok!AskToRenew

(* save reads the document as the client has left it, or takes its own.    *)
LEMMA GrokReadAgainKeeps ==
  ASSUME GrokInv, Grok!ReadAgain
  PROVE  GrokInv'
<1>0. w.at = "check" /\ GrokStays /\ UNCHANGED <<explained, silent>> /\ w \in GrokWorkers
  BY DEF Grok!ReadAgain, GrokStays, Grok!cliVars, Grok!history, Grok!losses, GrokInv
<1>1. stored \in PairsByPlace /\ w.kept \in PairsByPlace
  BY DEF GrokInv, LoginInv, LoginsTypeOK, GrokWorkers
<1>2. PICK document \in PairsByPlace, gone \in BOOLEAN :
        /\ w' = [w EXCEPT !.at = "save", !.document = document, !.gone = gone]
        /\ document = stored \/ (document = w.kept /\ gone /\ stored = Grok!Nothing)
  <2>1. CASE w' = [w EXCEPT !.at = "save", !.document = stored]
    <3>1. PICK gone \in BOOLEAN : gone = w.gone
      BY <1>0 DEF GrokWorkers
    <3>2. w' = [w EXCEPT !.at = "save", !.document = stored, !.gone = gone]
      BY <1>0, <2>1, <3>1 DEF GrokWorkers
    <3>. QED  BY <1>1, <3>2
  <2>2. CASE stored = Grok!Nothing /\ w' = [w EXCEPT !.at = "save", !.document = w.kept, !.gone = TRUE]
    BY <1>1, <2>2
  <2>. QED  BY <2>1, <2>2 DEF Grok!ReadAgain
<1>3. /\ w' \in GrokWorkers /\ w'.at = "save" /\ w'.place = w.place /\ w'.login = w.login
      /\ w'.read = w.read /\ w'.kept = w.kept /\ w'.new = w.new /\ w'.warned = w.warned
      /\ w'.untold = w.untold /\ w'.document = document /\ w'.gone = gone
  BY <1>0, <1>2 DEF GrokWorkers, GrokStages
<1>4. DocumentApart'
  <2>1. Apart(stored)
    <3>1. w.new \in accepted /\ w.new # 0
      BY <1>0 DEF GrokInv, LoginInv, NewIsAccepted, IssuedPairs
    <3>2. \A p \in Two : /\ stored[p].pair <= issued /\ stored[p].pair # w.new
                         /\ stored[p].pair = 0 => stored[p].account = "none"
      BY <3>1 DEF GrokInv, LoginInv, NewIsAccepted, IssuedPairs, LoginsTypeOK
    <3>3. \A p, q \in Two : p # q /\ stored[p].pair # 0 =>
            stored[p].pair # stored[q].pair /\ stored[p].pair # w.read[q].pair
      BY DEF GrokInv, LoginInv, OfOnePlace
    <3>. QED  BY <3>2, <3>3 DEF Apart
  <2>2. Apart(document)
    BY <1>2, <2>1 DEF GrokInv, KeptApart
  <2>. QED  BY <1>0, <1>3, <2>2 DEF DocumentApart, Apart, GrokStays
<1>5. ReadingStands'
  <2>1. document = stored \/ (gone /\ \A p \in Two : stored[p] = Grok!NoLogin)
    BY <1>2 DEF Grok!Nothing, Grok!Places
  <2>. QED  BY <1>0, <1>3, <2>1 DEF ReadingStands, GrokStays
<1>6. \A p \in Two : Accounted(p) => Accounted(p)'
  BY <1>0, <1>3 DEF Accounted
<1>. QED  BY <1>0, <1>3, <1>4, <1>5, <1>6, GrokMovesOn DEF GrokStays, GrokStages

LEMMA GrokSaveKeeps ==
  ASSUME GrokInv, Grok!SavePair
  PROVE  GrokInv'
<1>. USE DEF GrokInv
<1>0. /\ w.at = "save" /\ accepted' = accepted /\ issued' = issued /\ explained' = explained
      /\ w.place \in Two /\ w.login \in TokenPairs /\ w.new \in Nat
      /\ w.warned \in BOOLEAN /\ w \in GrokWorkers
      /\ w.document \in PairsByPlace /\ w.kept \in PairsByPlace
  BY DEF Grok!SavePair, LoginInv, WorkIsAtAPlace, WorkTypeOK, GrokWorkers
<1>1. PICK mine \in TokenPairs : mine = [w.login EXCEPT !.pair = w.new] /\ mine.pair = w.new
  <2>1. /\ [w.login EXCEPT !.pair = w.new] \in TokenPairs
        /\ [w.login EXCEPT !.pair = w.new].pair = w.new
    BY <1>0
  <2>. QED  BY <2>1
<1>2. PICK warned \in BOOLEAN, kept \in PairsByPlace :
        /\ w' = [w EXCEPT !.at = "fetch", !.login = mine, !.new = 0, !.kept = kept,
                          !.document = Grok!Nothing, !.gone = FALSE, !.warned = warned]
        /\ \/ /\ stored' = [w.document EXCEPT ![w.place] = mine] /\ kept = stored'
              /\ silent' = silent \union {p \in Two : stored[p] # w.document[p]}
           \/ stored' = stored /\ silent' = silent /\ kept = w.kept /\ warned
  <2>1. \A b \in BOOLEAN, kept \in PairsByPlace : Grok!GoOn(kept, b) => \E warned \in BOOLEAN :
          /\ w' = [w EXCEPT !.at = "fetch", !.login = mine, !.new = 0, !.kept = kept,
                            !.document = Grok!Nothing, !.gone = FALSE, !.warned = warned]
          /\ b => warned
    <3>1. SUFFICES ASSUME NEW b \in BOOLEAN, NEW kept \in PairsByPlace, Grok!GoOn(kept, b)
          PROVE  \E warned \in BOOLEAN :
                   /\ w' = [w EXCEPT !.at = "fetch", !.login = mine, !.new = 0, !.kept = kept,
                                     !.document = Grok!Nothing, !.gone = FALSE, !.warned = warned]
                   /\ b => warned
      OBVIOUS
    <3>2. PICK warned \in BOOLEAN : warned = (w.warned \/ b)
      BY <1>0, Zenon
    <3>3. w' = [w EXCEPT !.at = "fetch", !.login.pair = w.new, !.new = 0, !.kept = kept,
                         !.document = Grok!Nothing, !.gone = FALSE, !.warned = warned]
      BY <3>1, <3>2, Zenon DEF Grok!GoOn
    <3>4. w' = [w EXCEPT !.at = "fetch", !.login = mine, !.new = 0, !.kept = kept,
                         !.document = Grok!Nothing, !.gone = FALSE, !.warned = warned]
      BY <1>0, <1>1, <3>3 DEF GrokWorkers
    <3>5. b => warned
      BY <3>2, Zenon
    <3>. QED  BY <3>4, <3>5
  <2>2. CASE /\ stored' = [w.document EXCEPT ![w.place] = [w.login EXCEPT !.pair = w.new]]
             /\ Grok!GoOn(stored', FALSE)
             /\ silent' = silent \union {p \in Grok!Places : stored[p] # w.document[p]}
    <3>1. PICK kept \in PairsByPlace : kept = stored'
      BY <1>0, <1>1, <2>2
    <3>2. Grok!GoOn(kept, FALSE)
      BY <2>2, <3>1
    <3>3. PICK warned \in BOOLEAN :
            w' = [w EXCEPT !.at = "fetch", !.login = mine, !.new = 0, !.kept = kept,
                           !.document = Grok!Nothing, !.gone = FALSE, !.warned = warned]
      BY <2>1, <3>2
    <3>. QED  BY <1>1, <2>2, <3>1, <3>3 DEF Grok!Places
  <2>3. CASE Grok!GoOn(w.kept, TRUE) /\ UNCHANGED <<stored, silent>>
    BY <1>0, <2>1, <2>3
  <2>. QED  BY <2>2, <2>3 DEF Grok!SavePair
<1>3. /\ w' \in GrokWorkers /\ w'.at = "fetch" /\ w'.place = w.place /\ w'.login = mine
      /\ w'.read = w.read /\ w'.new = 0 /\ w'.warned = warned /\ w'.kept = kept
      /\ w'.untold = w.untold
  <2>1. Grok!Nothing \in PairsByPlace
    BY DEF Grok!Nothing, Grok!NoLogin, Grok!NoAccount, Grok!Places
  <2>. QED  BY <1>0, <1>1, <1>2, <2>1 DEF GrokWorkers, GrokStages
<1>4. WorkTypeOK' /\ WorkIsAtAPlace' /\ DocumentApart' /\ ReadingStands'
  BY <1>0, <1>3 DEF GrokWorkers, WorkTypeOK, WorkIsAtAPlace, DocumentApart, ReadingStands
<1>5. CASE stored' = stored /\ silent' = silent /\ kept = w.kept /\ warned
  <2>1. w'.login = [w.login EXCEPT !.pair = w.new] /\ w'.at \in {"cooldown", "fetch"} /\ w'.warned
    BY <1>1, <1>3, <1>5
  <2>2. \A p \in Two : Accounted(p) => Accounted(p)'
    BY <1>0, <1>3, <1>5 DEF Accounted
  <2>3. LoginInv'
    BY <1>0, <1>3, <1>4, <1>5, <2>1, <2>2, SaveKeepsLogins
  <2>4. KeptApart'
    <3>1. issued \in Nat
      BY DEF LoginInv, LoginsTypeOK
    <3>. QED  BY <1>0, <1>3, <1>5, <3>1, KeptStaysApart
  <2>. QED  BY <1>3, <1>4, <2>3, <2>4
<1>6. CASE /\ stored' = [w.document EXCEPT ![w.place] = mine] /\ kept = stored'
           /\ silent' = silent \union {p \in Two : stored[p] # w.document[p]}
  <2>1. /\ w.new \in accepted /\ 0 < w.new /\ w.new <= issued
        /\ \A p \in Two : stored[p].pair # w.new /\ w.read[p].pair # w.new
    BY <1>0 DEF LoginInv, NewIsAccepted, IssuedPairs
  <2>2. \A p \in Two : /\ w.document[p].pair <= issued /\ w.document[p].pair # w.new
                       /\ w.document[p].pair = 0 => w.document[p].account = "none"
    BY <1>0, <2>1 DEF DocumentApart, Apart
  <2>3. \A p, q \in Two : p # q /\ w.document[p].pair # 0 =>
          w.document[p].pair # w.document[q].pair /\ w.document[p].pair # w.read[q].pair
    BY <1>0 DEF DocumentApart, Apart
  <2>4. \A p \in Two : stored'[p] = IF p = w.place THEN mine ELSE w.document[p]
    BY <1>0, <1>6
  <2>5. LoginsTypeOK'
    <3>1. stored' \in PairsByPlace
      BY <1>0, <1>1, <1>6
    <3>2. \A p \in Two : stored'[p].pair = 0 => stored'[p].account = "none"
      BY <1>1, <2>1, <2>2, <2>4
    <3>3. accepted' \in SUBSET Nat /\ issued' \in Nat
      BY <1>0 DEF LoginInv, LoginsTypeOK
    <3>. QED  BY <3>1, <3>2, <3>3 DEF LoginsTypeOK
  <2>6. IssuedPairs'
    <3>1. /\ \A n \in accepted : 0 < n /\ n <= issued
          /\ \A p \in Two : w.read[p].pair <= issued
          /\ issued \in Nat
      BY DEF LoginInv, IssuedPairs, LoginsTypeOK
    <3>. QED  BY <1>0, <1>1, <1>3, <2>1, <2>2, <2>4, <3>1 DEF IssuedPairs
  <2>7. OfOnePlace'
    <3>1. SUFFICES ASSUME NEW p \in Two, NEW q \in Two, p # q, stored'[p].pair # 0
          PROVE  /\ stored'[p].pair # stored'[q].pair
                 /\ stored'[p].pair # w'.read[q].pair
                 /\ w'.place # p => stored'[p].pair # w'.login.pair
      BY DEF OfOnePlace
    <3>2. CASE p = w.place
      BY <1>1, <1>3, <2>1, <2>2, <2>4, <3>1, <3>2
    <3>3. CASE p # w.place
      BY <1>1, <1>3, <2>2, <2>3, <2>4, <3>1, <3>3
    <3>. QED  BY <3>2, <3>3
  <2>8. NewIsAccepted'
    BY <1>3 DEF NewIsAccepted
  <2>9. LossesExplained'
    <3>1. ASSUME NEW p \in Two, Gone(p)'
          PROVE  (Accounted(p) \/ Excused(p))'
      <4>1. p # w.place /\ stored'[p] = w.document[p]
        BY <1>0, <1>1, <2>1, <2>4, <3>1 DEF Gone
      <4>2. CASE stored[p] # w.document[p]
        BY <1>6, <4>2 DEF Accounted
      <4>3. CASE stored[p] = w.document[p]
        <5>1. Gone(p)
          BY <1>0, <3>1, <4>1, <4>3 DEF Gone
        <5>2. Accounted(p)
          BY <4>1, <5>1 DEF LoginInv, LossesExplained, Excused
        <5>. QED  BY <1>0, <1>3, <1>6, <5>2 DEF Accounted
      <4>. QED  BY <4>2, <4>3
    <3>. QED  BY <3>1 DEF LossesExplained
  <2>10. LoginInv'
    BY <1>4, <2>5, <2>6, <2>7, <2>8, <2>9 DEF LoginInv
  <2>11. KeptApart'
    <3>1. w'.kept = stored'
      BY <1>3, <1>6
    <3>2. \A p, q \in Two : p # q /\ stored'[p].pair # 0 =>
            stored'[p].pair # stored'[q].pair /\ stored'[p].pair # w'.read[q].pair
      BY <2>7 DEF OfOnePlace
    <3>3. \A p \in Two : stored'[p].pair <= issued' /\ (stored'[p].pair = 0 => stored'[p].account = "none")
      BY <2>5, <2>6 DEF LoginsTypeOK, IssuedPairs
    <3>4. Apart(w.read)'
      BY <1>0, <1>3 DEF KeptApart, Apart
    <3>5. Apart(w.kept)'
      BY <1>3, <3>1, <3>2, <3>3 DEF Apart
    <3>. QED  BY <3>4, <3>5 DEF KeptApart
  <2>. QED  BY <1>3, <1>4, <2>10, <2>11
<1>. QED  BY <1>2, <1>5, <1>6

LEMMA GrokFetches ==
  ASSUME GrokInv, Grok!Unauthorized \/ Grok!Answer \/ Grok!Relaunch
  PROVE  GrokInv'
<1>0. GrokStays /\ w \in GrokWorkers
  BY DEF Grok!Unauthorized, Grok!Answer, Grok!Relaunch, GrokStays, Grok!cliVars, GrokInv
<1>1. CASE w.at = "fetch" /\ w' = [w EXCEPT !.at = "renew", !.renewed = TRUE] /\ UNCHANGED Grok!losses
  <2>1. /\ w' \in GrokWorkers /\ w'.at = "renew" /\ w'.place = w.place /\ w'.login = w.login
        /\ w'.read = w.read /\ w'.kept = w.kept /\ w'.new = w.new /\ w'.warned = w.warned
        /\ w'.untold = w.untold
    BY <1>0, <1>1 DEF GrokWorkers, GrokStages
  <2>2. DocumentApart' /\ ReadingStands' /\ \A p \in Two : Accounted(p) => Accounted(p)'
    BY <1>1, <2>1 DEF DocumentApart, ReadingStands, Accounted, Grok!losses
  <2>. QED  BY <1>0, <1>1, <2>1, <2>2, GrokMovesOn DEF GrokStages, GrokStays
<1>2. CASE w.at = "fetch" /\ w' = Grok!Idle /\ Grok!EndsInUsage
  <2>1. \A p \in Two : Accounted(p) \/ Excused(p) => p \in explained' \/ p \in silent'
    BY <1>2, GrokIsAClient, UsageTells
  <2>. QED  BY <1>0, <1>2, <2>1, GrokRests DEF GrokStays
<1>3. CASE w' = Grok!Idle /\ Grok!EndsInError
  <2>1. Grok!GiveUp
    BY <1>3 DEF Grok!GiveUp
  <2>. QED  BY <1>0, <2>1, GrokGivesUp
<1>4. CASE w.at = "fetch" /\ Grok!TryNext
  BY <1>0, <1>4, GrokTriesNext DEF GrokStays
<1>. QED  BY <1>1, <1>2, <1>3, <1>4 DEF Grok!Unauthorized, Grok!Answer, Grok!Relaunch, Grok!GiveUp,
         Grok!history

LEMMA GrokClientKeeps ==
  ASSUME GrokInv, Grok!Client
  PROVE  GrokInv'
<1>0. w' = w
  BY DEF Grok!Client
<1>1. PICK p \in Two : \/ \E a \in Accounts : Grok!ClientLogsIn(p, a)
                       \/ Grok!ClientRenews(p) \/ Grok!ClientLogsOut(p)
  BY DEF Grok!Client, Grok!Places
<1>2. \/ \E a \in Accounts \union {"none"} : Cli!ClientLogsIn(p, a)
      \/ Cli!ClientRenews(p) \/ Cli!ClientLogsOut(p)
  BY <1>1 DEF Grok!ClientLogsIn, Grok!ClientRenews, Grok!ClientLogsOut, Grok!ClientStores,
     Cli!ClientLogsIn, Cli!ClientRenews, Cli!ClientLogsOut, Cli!ClientStores, Grok!NoLogin, Cli!NoLogin,
     Grok!NoAccount, Cli!NoAccount
<1>3. LoginInv'
  <2>1. SameWork
    BY <1>0 DEF SameWork
  <2>. QED  BY <1>2, <2>1, ClientKeepsLogins DEF GrokInv
<1>4. /\ w.at = "save" => late' = late \union {p}
      /\ \A q \in Two : q = p \/ stored'[q] = stored[q]
      /\ issued' = issued \/ issued' = issued + 1
  BY <1>1 DEF Grok!ClientLogsIn, Grok!ClientRenews, Grok!ClientLogsOut, Grok!ClientStores,
     GrokInv, LoginInv, LoginsTypeOK
<1>5. ReadingStands'
  BY <1>0, <1>4 DEF GrokInv, ReadingStands
<1>6. DocumentApart'
  <2>1. issued \in Nat /\ issued <= issued' /\ issued' \in Nat
    BY <1>4 DEF GrokInv, LoginInv, LoginsTypeOK
  <2>2. \A p_1 \in Two : w.document[p_1].pair \in Nat
    BY DEF GrokInv, GrokWorkers
  <2>. QED  BY <1>0, <2>1, <2>2 DEF GrokInv, DocumentApart, Apart
<1>7. KeptApart'
  <2>1. issued \in Nat /\ issued <= issued' /\ issued' \in Nat
    BY <1>4 DEF GrokInv, LoginInv, LoginsTypeOK
  <2>. QED  BY <1>0, <2>1, KeptStaysApart DEF GrokInv
<1>. QED  BY <1>0, <1>3, <1>5, <1>6, <1>7 DEF GrokInv

LEMMA GrokStepKeeps ==
  ASSUME GrokInv, [Grok!GrokNext]_Grok!grokVars
  PROVE  GrokInv'
<1>1. CASE UNCHANGED Grok!grokVars
  <2>1. UNCHANGED <<stored, accepted, issued, late, explained, silent, w>>
    BY <1>1 DEF Grok!grokVars, Grok!cliVars, Grok!history, Grok!losses
  <2>. QED  BY <2>1 DEF GrokInv, KeptApart, Apart, DocumentApart, ReadingStands, LoginInv, LoginsTypeOK, WorkTypeOK,
            IssuedPairs, OfOnePlace, NewIsAccepted, WorkIsAtAPlace, LossesExplained, Excused,
            Accounted, Gone
<1>. QED  BY <1>1, GrokClientKeeps, GrokLoadCandidatesKeeps, GrokNeedsRefreshKeeps, GrokAskToRenewKeeps,
          GrokReadAgainKeeps, GrokSaveKeeps, GrokFetches DEF Grok!GrokNext

LEMMA GrokBegins ==
  ASSUME Grok!GrokInit
  PROVE  GrokInv
<1>1. /\ w \in GrokWorkers /\ w.at = "idle" /\ w.login.pair = 0 /\ w.new = 0 /\ w.untold = {}
      /\ \A p \in Two : /\ w.read[p].pair = 0 /\ w.read[p].account = "none"
                        /\ w.kept[p].pair = 0 /\ w.kept[p].account = "none"
  BY GrokIdle DEF Grok!GrokInit
<1>2. Cli!CliInit
  BY DEF Grok!GrokInit, Grok!CliInit, Cli!CliInit, Grok!Places, Cli!Places, Grok!NoLogin,
     Cli!NoLogin, Grok!NoAccount, Cli!NoAccount
<1>3. LoginInv
  BY <1>1, <1>2, LoginsBegin, GrokWorks
<1>4. KeptApart
  <2>1. issued \in Nat
    BY <1>3 DEF LoginInv, LoginsTypeOK
  <2>. QED  BY <1>1, <2>1 DEF KeptApart, Apart
<1>. QED  BY <1>1, <1>3, <1>4 DEF GrokInv, DocumentApart, ReadingStands

LEMMA GrokIsRight ==
  ASSUME GrokInv
  PROVE  Grok!GrokLossExplained
<1>1. ASSUME NEW p \in Two, Grok!Lost(p)
      PROVE  p \in explained \union silent \union w.untold \/ (w.place = p /\ (w.at \in {"check", "save"} \/ w.warned))
  <2>1. stored[p].pair # 0 /\ stored[p].pair \notin accepted
    <3>1. stored[p] \in TokenPairs /\ (stored[p].pair = 0 => stored[p].account = "none")
      BY DEF GrokInv, LoginInv, LoginsTypeOK
    <3>. QED  BY <1>1, <3>1 DEF Grok!Lost, Grok!NoLogin, Grok!NoAccount
  <2>. QED  BY <2>1 DEF GrokInv, LoginInv, LossesExplained, Excused, Accounted, Gone
<1>. QED  BY <1>1 DEF Grok!GrokLossExplained, Grok!Places

(* The write puts back what save read, and that is what is stored unless   *)
(* the client wrote in between, or the file was gone.                      *)
LEMMA GrokKeepsLogins ==
  ASSUME GrokInv, [Grok!GrokNext]_Grok!grokVars
  PROVE  Grok!GrokKeeps
<1>1. SUFFICES ASSUME w.at = "save", w'.at = "fetch", NEW p \in Two \ {w.place}
      PROVE  stored'[p] = stored[p] \/ p \in late \/ (w.gone /\ stored[p] = Grok!NoLogin)
  BY DEF Grok!GrokKeeps, Grok!Places
<1>2. Grok!SavePair \/ stored' = stored
  <2>1. CASE Grok!Client \/ UNCHANGED Grok!grokVars
    BY <1>1, <2>1 DEF Grok!Client, Grok!grokVars
  <2>2. CASE Grok!Relaunch
    BY <1>1, <2>2, GrokIdle DEF Grok!Relaunch
  <2>. QED  BY <1>1, <2>1, <2>2 DEF Grok!GrokNext, Grok!LoadCandidates, Grok!NeedsRefresh,
            Grok!AskToRenew, Grok!ReadAgain, Grok!Unauthorized, Grok!Answer
<1>3. CASE stored' = stored
  BY <1>3
<1>4. CASE stored' = [w.document EXCEPT ![w.place] = [w.login EXCEPT !.pair = w.new]]
  <2>1. stored'[p] = w.document[p]
    BY <1>1, <1>4 DEF GrokInv, GrokWorkers
  <2>. QED  BY <1>1, <2>1 DEF GrokInv, ReadingStands
<1>. QED  BY <1>2, <1>3, <1>4 DEF Grok!SavePair

-----------------------------------------------------------------------------
(* Cursor                                                                  *)

CursorItems == {"access", "refresh", "membership", "keychain access", "keychain refresh"}
Values == Accounts \union {"no token", "free", "paid"}
CursorStages == {"read", "select", "renew", "save", "fetch", "rest", "done"}
CursorWorkers ==
  [at : CursorStages, next : Nat, read : [CursorItems -> Values], place : {0, 1, 2},
   access : Values, refresh : Values, token : Values, new : Values, retried : BOOLEAN,
   usage : Values, rest : Values]

CursorTypeOK ==
  /\ values \in [CursorItems -> Values] /\ worker \in CursorWorkers
  /\ worker.at = "read" => worker.next \in {1, 2, 3, 4, 5}
  /\ worker.at \notin {"read", "select"} => worker.place \in Two

(* A refresh token is the one that was read, until the client writes.      *)
HasRead(p) == worker.at = "select" \/ (worker.at = "read" /\ worker.next > IF p = 1 THEN 2 ELSE 5)
RefreshTokenStands ==
  /\ \A p \in Two : HasRead(p) =>
       p \in overtaken \/ values[Cursor!Refresh[p]] = worker.read[Cursor!Refresh[p]]
  /\ worker.at \in {"renew", "fetch", "save"} /\ worker.place \notin overtaken =>
       values[Cursor!Refresh[worker.place]] = worker.refresh

OneTokenServes ==
  /\ worker.at = "save" => worker.new = worker.refresh
  /\ worker.at = "fetch" /\ ~worker.retried => worker.token = worker.access
  /\ worker.at = "rest" => worker.usage = worker.access
  /\ worker.at = "done" => worker.usage = worker.rest

CursorInv == CursorTypeOK /\ RefreshTokenStands /\ OneTokenServes

LEMMA CursorNames ==
  /\ Cursor!Access[1] = "access" /\ Cursor!Access[2] = "keychain access"
  /\ Cursor!Refresh[1] = "refresh" /\ Cursor!Refresh[2] = "keychain refresh"
BY DEF Cursor!Access, Cursor!Refresh

LEMMA CursorItemNames ==
  /\ Cursor!Items[1] = "access" /\ Cursor!Items[2] = "refresh" /\ Cursor!Items[3] = "membership"
  /\ Cursor!Items[4] = "keychain access" /\ Cursor!Items[5] = "keychain refresh"
  /\ Len(Cursor!Items) = 5
BY DEF Cursor!Items

LEMMA CursorIdle ==
  /\ Cursor!Idle \in CursorWorkers /\ Cursor!Idle.at = "read" /\ Cursor!Idle.next = 1
  /\ Cursor!Nothing \in [CursorItems -> Values]
<1>1. {Cursor!Items[n] : n \in 1 .. 5} = CursorItems
  <2>1. 1 .. 5 = {1, 2, 3, 4, 5}
    OBVIOUS
  <2>2. \A n \in {1, 2, 3, 4, 5} : Cursor!Items[n] \in CursorItems
    BY CursorItemNames DEF CursorItems
  <2>3. \A i \in CursorItems : \E n \in {1, 2, 3, 4, 5} : Cursor!Items[n] = i
    BY CursorItemNames DEF CursorItems
  <2>. QED  BY <2>1, <2>2, <2>3
<1>2. Cursor!Nothing \in [CursorItems -> Values]
  BY <1>1 DEF Cursor!Nothing, Cursor!NoToken, Values
<1>. QED  BY <1>2 DEF Cursor!Idle, CursorWorkers, CursorStages, Cursor!NoToken, Values

LEMMA CursorHolding ==
  ASSUME NEW p \in Two, NEW login \in Cursor!Logins, NEW held \in [CursorItems -> Values]
  PROVE  /\ Cursor!Holding(p, login, held) \in [CursorItems -> Values]
         /\ \A q \in Two : q # p =>
              Cursor!Holding(p, login, held)[Cursor!Refresh[q]] = held[Cursor!Refresh[q]]
<1>1. login.access \in Values /\ login.refresh \in Values
  BY DEF Cursor!Logins, Cursor!Tokens, Cursor!NoToken, Values
<1>. QED  BY <1>1, CursorNames DEF Cursor!Holding, CursorItems

LEMMA CursorBegins ==
  ASSUME Cursor!CursorInit
  PROVE  CursorInv
<1>1. values \in [CursorItems -> Values]
  <2>1. PICK one \in Cursor!Logins, other \in Cursor!Logins, membership \in {"free", "paid"} :
          values = Cursor!Holding(1, one, Cursor!Holding(2, other,
                     [Cursor!Nothing EXCEPT !["membership"] = membership]))
    BY DEF Cursor!CursorInit
  <2>2. PICK free \in [CursorItems -> Values] : free = [Cursor!Nothing EXCEPT !["membership"] = membership]
    <3>1. [Cursor!Nothing EXCEPT !["membership"] = membership] \in [CursorItems -> Values]
      BY CursorIdle DEF CursorItems, Values
    <3>. QED  BY <3>1
  <2>3. PICK half_done \in [CursorItems -> Values] : half_done = Cursor!Holding(2, other, free)
    BY CursorHolding
  <2>. QED  BY <2>1, <2>2, <2>3, CursorHolding
<1>2. worker = Cursor!Idle
  BY DEF Cursor!CursorInit
<1>. QED  BY <1>1, <1>2, CursorIdle DEF CursorInv, CursorTypeOK, RefreshTokenStands, HasRead, OneTokenServes

LEMMA CursorClientKeeps ==
  ASSUME CursorInv, Cursor!Client
  PROVE  CursorInv'
<1>. USE DEF CursorInv, CursorTypeOK
<1>1. PICK p \in Two, login \in Cursor!Logins, membership \in {"free", "paid"} :
        /\ values' = [Cursor!Holding(p, login, values) EXCEPT !["membership"] = IF p = 1 THEN membership ELSE @]
        /\ overtaken' = overtaken \union {p} /\ worker' = worker
  BY DEF Cursor!Client, Cursor!Places
<1>2. PICK old \in [CursorItems -> Values] : old = values
  OBVIOUS
<1>3. PICK held \in [CursorItems -> Values] :
        held = Cursor!Holding(p, login, old) /\ \A q \in Two : q # p => held[Cursor!Refresh[q]] = old[Cursor!Refresh[q]]
  BY CursorHolding
<1>4. values' = [held EXCEPT !["membership"] = IF p = 1 THEN membership ELSE @]
  BY <1>1, <1>2, <1>3
<1>5. values' \in [CursorItems -> Values]
  BY <1>4 DEF CursorItems, Values
<1>6. \A q \in Two : q # p => values'[Cursor!Refresh[q]] = values[Cursor!Refresh[q]]
  BY <1>2, <1>3, <1>4, CursorNames DEF CursorItems
<1>. QED  BY <1>1, <1>5, <1>6 DEF RefreshTokenStands, HasRead, OneTokenServes

LEMMA CursorReadKeeps ==
  ASSUME CursorInv, Cursor!Read
  PROVE  CursorInv'
<1>. USE DEF CursorInv, CursorTypeOK
<1>0. worker.at = "read" /\ worker.next \in {1, 2, 3, 4, 5} /\ worker \in CursorWorkers
  BY DEF Cursor!Read
<1>1. PICK one \in CursorItems : one = Cursor!Items[worker.next]
  BY <1>0, CursorItemNames DEF CursorItems
<1>2. PICK read \in [CursorItems -> Values] : read = [worker.read EXCEPT ![one] = values[one]]
  <2>1. [worker.read EXCEPT ![one] = values[one]] \in [CursorItems -> Values]
    BY <1>0 DEF CursorWorkers
  <2>. QED  BY <2>1
<1>3. PICK to \in {"select", "read"} : to = IF worker.next = 5 THEN "select" ELSE "read"
  OBVIOUS
<1>4. /\ worker' = [worker EXCEPT !.read = read, !.next = @ + 1, !.at = to]
      /\ overtaken' = {p \in overtaken : Cursor!Refresh[p] # one} /\ values' = values
  BY <1>0, <1>1, <1>2, <1>3, CursorItemNames DEF Cursor!Read, CursorWorkers
<1>5. /\ worker' \in CursorWorkers /\ worker'.read = read /\ worker'.next = worker.next + 1
      /\ worker'.at = to
  <2>1. PICK next \in Nat : next = worker.next + 1
    BY <1>0
  <2>2. worker' = [worker EXCEPT !.read = read, !.next = next, !.at = to]
    BY <1>0, <1>4, <2>1 DEF CursorWorkers
  <2>3. to \in CursorStages
    BY DEF CursorStages
  <2>. QED  BY <1>0, <2>1, <2>2, <2>3 DEF CursorWorkers
<1>6. CursorTypeOK'
  BY <1>0, <1>3, <1>4, <1>5
<1>7. ASSUME NEW p \in Two, HasRead(p)'
      PROVE  p \in overtaken' \/ values'[Cursor!Refresh[p]] = worker'.read[Cursor!Refresh[p]]
  <2>1. CASE Cursor!Refresh[p] = one
    BY <1>2, <1>4, <1>5, <2>1 DEF CursorWorkers
  <2>2. CASE Cursor!Refresh[p] # one
    <3>1. HasRead(p)
      <4>1. worker.next # IF p = 1 THEN 2 ELSE 5
        BY <1>1, <2>2, CursorNames, CursorItemNames
      <4>2. worker.next + 1 > IF p = 1 THEN 2 ELSE 5
        BY <1>0, <1>3, <1>5, <1>7 DEF HasRead
      <4>. QED  BY <1>0, <4>1, <4>2 DEF HasRead
    <3>2. Cursor!Refresh[p] \in CursorItems
      BY CursorNames DEF CursorItems
    <3>3. read[Cursor!Refresh[p]] = worker.read[Cursor!Refresh[p]]
      BY <1>0, <1>2, <2>2, <3>2 DEF CursorWorkers
    <3>. QED  BY <1>4, <1>5, <2>2, <3>1, <3>3 DEF RefreshTokenStands
  <2>. QED  BY <2>1, <2>2
<1>. QED  BY <1>3, <1>5, <1>6, <1>7 DEF RefreshTokenStands, OneTokenServes

LEMMA CursorRests ==
  ASSUME CursorInv, worker' = Cursor!Idle, values' = values, overtaken' = overtaken
  PROVE  CursorInv'
BY CursorIdle DEF CursorInv, CursorTypeOK, RefreshTokenStands, HasRead, OneTokenServes

(* With the login it holds.                                                *)
LEMMA CursorMovesOn ==
  ASSUME CursorInv, worker.at \in {"renew", "save", "fetch", "rest"}, worker' \in CursorWorkers,
         worker'.at \notin {"read", "select"}, worker'.place = worker.place, overtaken' = overtaken,
         worker'.at \in {"renew", "save", "fetch"} => worker'.refresh = worker.refresh /\ worker.at # "rest",
         values' \in [CursorItems -> Values],
         \A p \in Two : values'[Cursor!Refresh[p]] = values[Cursor!Refresh[p]],
         OneTokenServes'
  PROVE  CursorInv'
BY DEF CursorInv, CursorTypeOK, RefreshTokenStands, HasRead

LEMMA CursorSelectKeeps ==
  ASSUME CursorInv, Cursor!SelectAuthState
  PROVE  CursorInv'
<1>. USE DEF CursorInv, CursorTypeOK
<1>0. worker.at = "select" /\ values' = values /\ overtaken' = overtaken /\ worker \in CursorWorkers
  BY DEF Cursor!SelectAuthState
<1>1. CASE worker' = Cursor!Idle
  BY <1>0, <1>1, CursorRests
<1>2. CASE worker' # Cursor!Idle
  <2>1. PICK p \in Two :
          LET auth == [Cursor!Idle EXCEPT !.place = p, !.access = worker.read[Cursor!Access[p]],
                                          !.refresh = worker.read[Cursor!Refresh[p]]]
          IN \/ worker' = [auth EXCEPT !.at = "renew"]
             \/ auth.access # Cursor!NoToken /\ worker' = Cursor!FetchWith(auth)
    BY <1>2 DEF Cursor!SelectAuthState, Cursor!Selected, Cursor!Places, Cursor!GiveUp
  <2>2. PICK access \in Values, refresh \in Values :
          access = worker.read[Cursor!Access[p]] /\ refresh = worker.read[Cursor!Refresh[p]]
    BY <1>0, CursorNames DEF CursorWorkers, CursorItems
  <2>3. PICK auth \in CursorWorkers :
          /\ auth = [Cursor!Idle EXCEPT !.place = p, !.access = access, !.refresh = refresh]
          /\ auth.place = p /\ auth.access = access /\ auth.refresh = refresh
    <3>. DEFINE a == [Cursor!Idle EXCEPT !.place = p, !.access = access, !.refresh = refresh]
    <3>1. a \in CursorWorkers /\ a.place = p /\ a.access = access /\ a.refresh = refresh
      BY CursorIdle DEF CursorWorkers
    <3>. QED  BY <3>1
  <2>4. worker' = [auth EXCEPT !.at = "renew"] \/ worker' = [auth EXCEPT !.at = "fetch", !.token = access]
    BY <2>1, <2>2, <2>3 DEF Cursor!FetchWith
  <2>5. /\ worker' \in CursorWorkers /\ worker'.at \in {"renew", "fetch"} /\ worker'.place = p
        /\ worker'.refresh = refresh /\ (worker'.at = "fetch" => worker'.token = worker'.access)
    <3>1. CASE worker' = [auth EXCEPT !.at = "renew"]
      BY <2>3, <3>1 DEF CursorWorkers, CursorStages
    <3>2. CASE worker' = [auth EXCEPT !.at = "fetch", !.token = access]
      <4>1. worker' \in CursorWorkers
        <5>1. PICK to \in CursorStages : to = "fetch"
          BY DEF CursorStages
        <5>2. worker' = [auth EXCEPT !.at = to, !.token = access]
          BY <3>2, <5>1
        <5>3. auth \in CursorWorkers /\ access \in Values
          BY <2>2, <2>3
        <5>. QED  BY <5>2, <5>3 DEF CursorWorkers
      <4>2. worker'.at = "fetch" /\ worker'.token = access
        BY <2>3, <3>2 DEF CursorWorkers
      <4>3. worker'.place = p /\ worker'.refresh = refresh /\ worker'.access = access
        BY <2>3, <3>2 DEF CursorWorkers
      <4>. QED  BY <4>1, <4>2, <4>3
    <3>. QED  BY <2>4, <3>1, <3>2
  <2>6. p \in overtaken \/ values[Cursor!Refresh[p]] = refresh
    BY <1>0, <2>2 DEF RefreshTokenStands, HasRead
  <2>7. CursorTypeOK' /\ OneTokenServes'
    BY <1>0, <2>5 DEF OneTokenServes
  <2>8. RefreshTokenStands'
    BY <1>0, <2>5, <2>6 DEF RefreshTokenStands, HasRead
  <2>. QED  BY <2>7, <2>8
<1>. QED  BY <1>1, <1>2

LEMMA CursorRefreshKeeps ==
  ASSUME CursorInv, Cursor!RefreshAccessToken
  PROVE  CursorInv'
<1>. USE DEF CursorInv, CursorTypeOK
<1>0. worker.at = "renew" /\ values' = values /\ overtaken' = overtaken /\ worker \in CursorWorkers
  BY DEF Cursor!RefreshAccessToken
<1>1. CASE worker' = [worker EXCEPT !.at = "save", !.new = worker.refresh]
  <2>1. /\ worker' \in CursorWorkers /\ worker'.at = "save" /\ worker'.place = worker.place
        /\ worker'.refresh = worker.refresh /\ worker'.new = worker.refresh
    BY <1>0, <1>1 DEF CursorWorkers, CursorStages
  <2>. QED  BY <1>0, <2>1, CursorMovesOn DEF OneTokenServes
<1>2. CASE worker' = Cursor!Idle
  BY <1>0, <1>2, CursorRests
<1>3. CASE worker' = [worker EXCEPT !.at = "fetch", !.token = worker.access]
  <2>1. /\ worker' \in CursorWorkers /\ worker'.at = "fetch" /\ worker'.place = worker.place
        /\ worker'.refresh = worker.refresh /\ worker'.token = worker'.access
    BY <1>0, <1>3 DEF CursorWorkers, CursorStages
  <2>. QED  BY <1>0, <2>1, CursorMovesOn DEF OneTokenServes
<1>. QED  BY <1>1, <1>2, <1>3 DEF Cursor!RefreshAccessToken, Cursor!RenewalFails, Cursor!GiveUp, Cursor!FetchWith

LEMMA CursorSaves ==
  ASSUME CursorInv, Cursor!SaveAccessToken
  PROVE  /\ worker.at = "save" /\ worker.place \in Two
         /\ worker' \in CursorWorkers /\ worker'.at = "fetch" /\ worker'.place = worker.place
         /\ worker'.refresh = worker.refresh /\ OneTokenServes'
         /\ values' \in [CursorItems -> Values]
         /\ \A p \in Two : values'[Cursor!Refresh[p]] = values[Cursor!Refresh[p]]
         /\ \A p \in Two : p # worker.place => values'[Cursor!Access[p]] = values[Cursor!Access[p]]
         /\ values' = values \/ values'[Cursor!Access[worker.place]] = worker.refresh
<1>. USE DEF CursorInv, CursorTypeOK
<1>0. /\ worker.at = "save" /\ worker.place \in Two /\ worker \in CursorWorkers
      /\ overtaken' = overtaken /\ worker.new = worker.refresh /\ worker.new \in Values
  BY DEF Cursor!SaveAccessToken, OneTokenServes, CursorWorkers
<1>1. PICK renewed \in CursorWorkers :
        /\ renewed = [worker EXCEPT !.access = worker.new, !.new = Cursor!NoToken]
        /\ renewed.place = worker.place /\ renewed.refresh = worker.refresh
        /\ renewed.access = worker.new /\ renewed.retried = worker.retried
  <2>. DEFINE r == [worker EXCEPT !.access = worker.new, !.new = Cursor!NoToken]
  <2>1. /\ r \in CursorWorkers /\ r.place = worker.place /\ r.refresh = worker.refresh
        /\ r.access = worker.new /\ r.retried = worker.retried
    BY <1>0 DEF CursorWorkers, Cursor!NoToken, Values
  <2>. QED  BY <2>1
<1>2. /\ worker.retried => worker' = [renewed EXCEPT !.at = "fetch"]
      /\ ~worker.retried => worker' = [renewed EXCEPT !.at = "fetch", !.token = renewed.access]
  BY <1>1 DEF Cursor!SaveAccessToken, Cursor!GoOn, Cursor!FetchWith
<1>3. /\ worker' \in CursorWorkers /\ worker'.at = "fetch" /\ worker'.place = worker.place
      /\ worker'.refresh = worker.refresh
      /\ ~worker'.retried => worker'.token = worker'.access
  <2>1. CASE worker.retried
    BY <1>1, <1>2, <2>1 DEF CursorWorkers, CursorStages
  <2>2. CASE ~worker.retried
    BY <1>1, <1>2, <2>2, ZenonT(30) DEF CursorWorkers, CursorStages
  <2>. QED  BY <2>1, <2>2
<1>4. OneTokenServes'
  BY <1>3 DEF OneTokenServes
<1>5. PICK p \in Two : p = worker.place
  BY <1>0
<1>6. values' = values \/ values' = [values EXCEPT ![Cursor!Access[p]] = worker.new]
  BY <1>5 DEF Cursor!SaveAccessToken
<1>7. /\ values' \in [CursorItems -> Values]
      /\ \A q \in Two : values'[Cursor!Refresh[q]] = values[Cursor!Refresh[q]]
      /\ \A q \in Two : q # p => values'[Cursor!Access[q]] = values[Cursor!Access[q]]
      /\ values' = values \/ values'[Cursor!Access[p]] = worker.refresh
  BY <1>0, <1>6, CursorNames, ZenonT(30) DEF CursorItems
<1>. QED  BY <1>0, <1>3, <1>4, <1>5, <1>7

LEMMA CursorFetchKeeps ==
  ASSUME CursorInv, Cursor!FetchUsage
  PROVE  CursorInv'
<1>. USE DEF CursorInv, CursorTypeOK
<1>0. worker.at = "fetch" /\ values' = values /\ overtaken' = overtaken /\ worker \in CursorWorkers
  BY DEF Cursor!FetchUsage
<1>1. CASE worker' = [worker EXCEPT !.at = "rest",
                                    !.usage = IF worker.retried THEN worker.access ELSE worker.token]
  <2>1. (IF worker.retried THEN worker.access ELSE worker.token) = worker.access
    BY <1>0 DEF OneTokenServes
  <2>2. worker' = [worker EXCEPT !.at = "rest", !.usage = worker.access]
    BY <1>1, <2>1
  <2>3. /\ worker' \in CursorWorkers /\ worker'.at = "rest" /\ worker'.place = worker.place
        /\ worker'.usage = worker'.access
    BY <1>0, <2>2 DEF CursorWorkers, CursorStages
  <2>. QED  BY <1>0, <2>3, CursorMovesOn DEF OneTokenServes
<1>2. CASE worker' = [worker EXCEPT !.at = "renew", !.retried = TRUE]
  <2>1. /\ worker' \in CursorWorkers /\ worker'.at = "renew" /\ worker'.place = worker.place
        /\ worker'.refresh = worker.refresh
    BY <1>0, <1>2 DEF CursorWorkers, CursorStages
  <2>. QED  BY <1>0, <2>1, CursorMovesOn DEF OneTokenServes
<1>3. CASE worker' = Cursor!Idle
  BY <1>0, <1>3, CursorRests
<1>. QED  BY <1>1, <1>2, <1>3 DEF Cursor!FetchUsage, Cursor!GiveUp

LEMMA CursorFetchRestKeeps ==
  ASSUME CursorInv, Cursor!FetchRest
  PROVE  CursorInv'
<1>. USE DEF CursorInv, CursorTypeOK
<1>0. worker.at = "rest" /\ values' = values /\ overtaken' = overtaken /\ worker \in CursorWorkers
  BY DEF Cursor!FetchRest
<1>1. /\ worker' \in CursorWorkers /\ worker'.at = "done" /\ worker'.place = worker.place
      /\ worker'.rest = worker.access /\ worker'.usage = worker.usage
  BY <1>0 DEF Cursor!FetchRest, CursorWorkers, CursorStages
<1>. QED  BY <1>0, <1>1, CursorMovesOn DEF OneTokenServes

LEMMA CursorStepKeeps ==
  ASSUME CursorInv, [Cursor!CursorNext]_Cursor!cursorVars
  PROVE  CursorInv'
<1>1. CASE Cursor!SaveAccessToken
  <2>1. overtaken' = overtaken
    BY <1>1 DEF Cursor!SaveAccessToken
  <2>. QED  BY <1>1, <2>1, CursorSaves, CursorMovesOn
<1>2. CASE Cursor!Finish
  BY <1>2, CursorRests DEF Cursor!Finish, Cursor!GiveUp
<1>3. CASE UNCHANGED Cursor!cursorVars
  <2>1. values' = values /\ worker' = worker /\ overtaken' = overtaken
    BY <1>3 DEF Cursor!cursorVars
  <2>. QED  BY <2>1 DEF CursorInv, CursorTypeOK, RefreshTokenStands, HasRead, OneTokenServes
<1>. QED  BY <1>1, <1>2, <1>3, CursorClientKeeps, CursorReadKeeps, CursorSelectKeeps, CursorRefreshKeeps,
          CursorFetchKeeps, CursorFetchRestKeeps DEF Cursor!CursorNext

(* The token written is of the refresh token that was read, and that is    *)
(* the one beside it unless the client wrote since.                        *)
LEMMA CursorKeepsLogins ==
  ASSUME CursorInv, [Cursor!CursorNext]_Cursor!cursorVars
  PROVE  Cursor!CursorKeeps
<1>. SUFFICES ASSUME worker.at = "save", worker'.at = "fetch", values' # values, NEW p \in Two
     PROVE  IF p = worker.place
              THEN p \in overtaken \/ values'[Cursor!Access[p]] = values'[Cursor!Refresh[p]]
              ELSE values'[Cursor!Access[p]] = values[Cursor!Access[p]]
  BY DEF Cursor!CursorKeeps, Cursor!Places
<1>1. Cursor!SaveAccessToken
  BY DEF Cursor!CursorNext, Cursor!Client, Cursor!Read, Cursor!SelectAuthState, Cursor!RefreshAccessToken,
     Cursor!FetchUsage, Cursor!FetchRest, Cursor!Finish, Cursor!cursorVars
<1>2. worker.place \notin overtaken => values[Cursor!Refresh[worker.place]] = worker.refresh
  BY DEF CursorInv, RefreshTokenStands
<1>. QED  BY <1>1, <1>2, CursorSaves

LEMMA CursorIsRight ==
  ASSUME CursorInv
  PROVE  Cursor!CursorShowsOwn
BY DEF CursorInv, OneTokenServes, Cursor!CursorShowsOwn

-----------------------------------------------------------------------------
(* Antigravity                                                             *)

MaybeAccount == Accounts \union {"no account"}
MaybeRefresh == MaybeAccount \X {0, 1, 2}
KeychainItems == [access : MaybeAccount, expired : BOOLEAN, refresh : MaybeRefresh]
ErrandStages == {"idle", "plan", "status", "load", "candidates", "try", "store", "fetch", "done"}
Errands ==
  [at : ErrandStages, login : KeychainItems, left : Seq(MaybeAccount), refused : BOOLEAN,
   tried : BOOLEAN, token : MaybeAccount, quotas : MaybeAccount, plan : MaybeAccount]

AntigravityTypeOK ==
  /\ editor \in MaybeAccount /\ item \in KeychainItems /\ errand \in Errands
  /\ cache \in [access : MaybeAccount, boundTo : MaybeRefresh]

OfLogin(login) == {login.access, login.refresh[1]}

(* A cached token is of the account of the refresh token it is bound to,   *)
(* and every token still to be tried of the login that was read.           *)
TokensAreOfTheLogin ==
  /\ cache.access = cache.boundTo[1]
  /\ errand.at \in {"plan", "status"} => errand.login = Antigravity!NoItem
  /\ errand.at = "plan" => errand.quotas = editor \/ moved
  /\ errand.at = "try" => \A i \in 1 .. Len(errand.left) : errand.left[i] \in OfLogin(errand.login)
  /\ errand.at \in {"store", "fetch"} => errand.token = errand.login.refresh[1]

AntigravityInv == AntigravityTypeOK /\ TokensAreOfTheLogin /\ Antigravity!AntigravityShowsOwn

LEMMA AntigravityItems ==
  ASSUME NEW i \in Antigravity!Items
  PROVE  \E a \in Accounts \union {Antigravity!NoAccount}, e \in BOOLEAN,
            r \in Antigravity!RefreshTokens \union {Antigravity!NoRefresh} :
           i = [access |-> a, expired |-> e, refresh |-> r]
BY DEF Antigravity!Items

LEMMA AntigravityValues ==
  /\ Antigravity!NoAccount = "no account" /\ Antigravity!NoAccount \in MaybeAccount
  /\ Antigravity!NoRefresh \in MaybeRefresh /\ Antigravity!NoRefresh[1] = "no account"
  /\ Antigravity!NoItem \in KeychainItems
  /\ Antigravity!NoItem.access = "no account" /\ Antigravity!NoItem.refresh[1] = "no account"
  /\ Antigravity!NoCache \in [access : MaybeAccount, boundTo : MaybeRefresh]
  /\ Antigravity!NoCache.access = "no account" /\ Antigravity!NoCache.boundTo[1] = "no account"
  /\ Antigravity!Resting \in Errands /\ Antigravity!Resting.at = "idle"
  /\ Antigravity!Resting.login = Antigravity!NoItem
  /\ Antigravity!Items \subseteq KeychainItems /\ Antigravity!Logins \subseteq KeychainItems
<1>. USE DEF Antigravity!NoAccount, MaybeAccount, Antigravity!NoRefresh, MaybeRefresh
<1>0. /\ \A r \in Antigravity!RefreshTokens : r \in MaybeRefresh
      /\ Antigravity!NoRefresh \in MaybeRefresh
      /\ Accounts \union {Antigravity!NoAccount} = MaybeAccount
  <2>1. ASSUME NEW r \in Antigravity!RefreshTokens PROVE r \in MaybeRefresh
    BY DEF Antigravity!RefreshTokens
  <2>. QED  BY <2>1
<1>1. Antigravity!NoItem \in KeychainItems
  BY DEF Antigravity!NoItem, KeychainItems
<1>2. Antigravity!Resting \in Errands
  BY <1>1 DEF Antigravity!Resting, Errands, ErrandStages
<1>3. Antigravity!Items \subseteq KeychainItems
  <2>1. ASSUME NEW i \in Antigravity!Items PROVE i \in KeychainItems
    <3>1. PICK a \in MaybeAccount, e \in BOOLEAN, r \in MaybeRefresh :
            i = [access |-> a, expired |-> e, refresh |-> r]
      BY <1>0, AntigravityItems
    <3>. QED  BY <3>1 DEF KeychainItems
  <2>. QED  BY <2>1
<1>. QED  BY <1>1, <1>2, <1>3 DEF Antigravity!NoItem, Antigravity!NoCache, Antigravity!Resting, Antigravity!Logins

LEMMA AntigravityBegins ==
  ASSUME Antigravity!AntigravityInit
  PROVE  AntigravityInv
<1>1. item \in KeychainItems
  BY AntigravityValues DEF Antigravity!AntigravityInit
<1>. QED  BY <1>1, AntigravityValues
          DEF Antigravity!AntigravityInit, AntigravityInv, AntigravityTypeOK, TokensAreOfTheLogin,
              Antigravity!AntigravityShowsOwn

(* The refresh ends, without usage, and the cached token may be discarded. *)
LEMMA AntigravityRests ==
  ASSUME AntigravityInv, errand' = Antigravity!Resting, cache' \in Antigravity!Discarded,
         UNCHANGED <<editor, item, moved>>
  PROVE  AntigravityInv'
<1>1. cache' = cache \/ cache' = Antigravity!NoCache
  BY DEF Antigravity!Discarded
<1>. QED  BY <1>1, AntigravityValues
          DEF AntigravityInv, AntigravityTypeOK, TokensAreOfTheLogin, Antigravity!AntigravityShowsOwn

(* Usage is given, of the login that was read, or of the editor.           *)
LEMMA AntigravityGives ==
  ASSUME AntigravityInv, NEW quotas \in MaybeAccount, NEW plan \in MaybeAccount,
         Antigravity!Give(quotas, plan), UNCHANGED <<editor, item, cache, moved>>,
         errand.login # Antigravity!NoItem => quotas \in OfLogin(errand.login),
         plan \in {quotas, Antigravity!NoAccount} \/ moved
  PROVE  AntigravityInv'
<1>. USE DEF AntigravityInv, AntigravityTypeOK
<1>1. PICK was \in Errands : was = errand
  OBVIOUS
<1>2. PICK resting \in Errands : resting = Antigravity!Resting
  BY AntigravityValues
<1>3. PICK done \in ErrandStages : done = "done"
  BY DEF ErrandStages
<1>4. errand' = [resting EXCEPT !.at = done, !.login = was.login, !.quotas = quotas, !.plan = plan]
  BY <1>1, <1>2, <1>3 DEF Antigravity!Give
<1>5. /\ errand' \in Errands /\ errand'.at = "done" /\ errand'.login = errand.login
      /\ errand'.quotas = quotas /\ errand'.plan = plan
  BY <1>1, <1>3, <1>4 DEF Errands
<1>6. TokensAreOfTheLogin'
  BY <1>5 DEF TokensAreOfTheLogin
<1>7. Antigravity!AntigravityShowsOwn'
  BY <1>5 DEF Antigravity!AntigravityShowsOwn, OfLogin
<1>. QED  BY <1>5, <1>6, <1>7

LEMMA AntigravityOthersKeep ==
  ASSUME AntigravityInv,
         Antigravity!Editor \/ Antigravity!AskEditor \/ Antigravity!AskPlan \/ Antigravity!AskStatus
           \/ Antigravity!LoadToken
  PROVE  AntigravityInv'
<1>. USE DEF AntigravityInv, AntigravityTypeOK
<1>1. CASE Antigravity!Editor
  <2>1. editor' \in MaybeAccount /\ item' \in KeychainItems /\ errand' = errand /\ cache' = cache
    BY <1>1, AntigravityValues DEF Antigravity!Editor, MaybeAccount
  <2>2. (editor' = editor /\ moved' = moved) \/ moved' = TRUE
    BY <1>1 DEF Antigravity!Editor
  <2>. QED  BY <2>1, <2>2 DEF TokensAreOfTheLogin, Antigravity!AntigravityShowsOwn
<1>2. CASE Antigravity!AskEditor
  <2>1. PICK resting \in Errands : resting = Antigravity!Resting
    BY AntigravityValues
  <2>2. PICK to \in ErrandStages, quotas \in MaybeAccount :
          /\ errand' = [resting EXCEPT !.at = to, !.quotas = quotas]
          /\ (to = "plan" /\ quotas = editor) \/ to = "status"
    <3>1. CASE errand' = [Antigravity!Resting EXCEPT !.at = "plan", !.quotas = editor]
      <4>1. "plan" \in ErrandStages
        BY DEF ErrandStages
      <4>. QED  BY <2>1, <3>1, <4>1
    <3>2. CASE errand' = [Antigravity!Resting EXCEPT !.at = "status"]
      <4>1. "status" \in ErrandStages /\ resting.quotas \in MaybeAccount
        BY DEF ErrandStages, Errands
      <4>2. errand' = [resting EXCEPT !.at = "status", !.quotas = resting.quotas]
        BY <2>1, <3>2 DEF Errands
      <4>. QED  BY <4>1, <4>2
    <3>. QED  BY <1>2, <3>1, <3>2 DEF Antigravity!AskEditor
  <2>3. /\ errand' \in Errands /\ errand'.at = to /\ errand'.login = Antigravity!NoItem
        /\ errand'.quotas = quotas
    BY <2>1, <2>2, AntigravityValues DEF Errands
  <2>4. UNCHANGED <<editor, item, cache>>
    BY <1>2 DEF Antigravity!AskEditor
  <2>5. to \in {"plan", "status"}
    BY <2>2
  <2>6. TokensAreOfTheLogin'
    BY <2>2, <2>3, <2>4, <2>5 DEF TokensAreOfTheLogin
  <2>7. Antigravity!AntigravityShowsOwn'
    BY <2>3, <2>5 DEF Antigravity!AntigravityShowsOwn
  <2>. QED  BY <2>3, <2>4, <2>6, <2>7
<1>3. CASE Antigravity!AskPlan
  <2>1. PICK plan \in {editor, Antigravity!NoAccount} : Antigravity!Give(errand.quotas, plan)
    BY <1>3 DEF Antigravity!AskPlan
  <2>2. plan \in MaybeAccount /\ errand.quotas \in MaybeAccount
    BY AntigravityValues DEF Errands
  <2>3. errand.login = Antigravity!NoItem /\ (plan \in {errand.quotas, Antigravity!NoAccount} \/ moved)
    BY <1>3, <2>1 DEF Antigravity!AskPlan, TokensAreOfTheLogin
  <2>. QED  BY <1>3, <2>1, <2>2, <2>3, AntigravityGives DEF Antigravity!AskPlan
<1>4. CASE Antigravity!AskStatus
  <2>1. CASE \E plan \in {editor, Antigravity!NoAccount} : Antigravity!Give(editor, plan)
    <3>1. PICK plan \in {editor, Antigravity!NoAccount} : Antigravity!Give(editor, plan)
      BY <2>1
    <3>2. plan \in MaybeAccount /\ editor \in MaybeAccount
      BY AntigravityValues
    <3>3. errand.login = Antigravity!NoItem
      BY <1>4 DEF Antigravity!AskStatus, TokensAreOfTheLogin
    <3>. QED  BY <1>4, <3>1, <3>2, <3>3, AntigravityGives DEF Antigravity!AskStatus
  <2>2. CASE errand' = [Antigravity!Resting EXCEPT !.at = "load"]
    <3>1. errand' \in Errands /\ errand'.at = "load"
      BY <2>2, AntigravityValues DEF Errands, ErrandStages
    <3>. QED  BY <1>4, <3>1 DEF Antigravity!AskStatus, TokensAreOfTheLogin, Antigravity!AntigravityShowsOwn
  <2>. QED  BY <1>4, <2>1, <2>2 DEF Antigravity!AskStatus
<1>5. CASE Antigravity!LoadToken
  <2>1. CASE item = Antigravity!NoItem
    BY <1>5, <2>1, AntigravityRests DEF Antigravity!LoadToken, Antigravity!GiveUp
  <2>2. CASE item # Antigravity!NoItem
    <3>1. errand' = [errand EXCEPT !.at = "candidates", !.login = item] /\ UNCHANGED <<editor, item, cache, moved>>
      BY <1>5, <2>2 DEF Antigravity!LoadToken
    <3>2. errand' \in Errands /\ errand'.at = "candidates"
      BY <3>1 DEF Errands, ErrandStages
    <3>. QED  BY <3>1, <3>2 DEF TokensAreOfTheLogin, Antigravity!AntigravityShowsOwn
  <2>. QED  BY <2>1, <2>2
<1>. QED  BY <1>1, <1>2, <1>3, <1>4, <1>5

LEMMA AntigravityCollectKeeps ==
  ASSUME AntigravityInv, Antigravity!CollectCandidates
  PROVE  AntigravityInv'
<1>. USE DEF AntigravityInv, AntigravityTypeOK
<1>1. PICK was \in Errands : was = errand
  OBVIOUS
<1>2. was.login \in KeychainItems /\ was.login.access \in MaybeAccount /\ was.login.expired \in BOOLEAN
  BY DEF Errands, KeychainItems
<1>. DEFINE own == IF was.login.access = Antigravity!NoAccount \/ was.login.expired THEN <<>>
                   ELSE <<was.login.access>>
<1>3. own \in Seq(MaybeAccount) /\ \A i \in 1 .. Len(own) : own[i] \in OfLogin(was.login)
  BY <1>2 DEF OfLogin
<1>4. PICK older \in Seq(MaybeAccount) :
        /\ errand' = [errand EXCEPT !.at = "try", !.left = own \o older, !.refused = errand.login.expired]
        /\ \A i \in 1 .. Len(older) : older[i] \in OfLogin(was.login)
        /\ cache' = cache \/ cache' = Antigravity!NoCache
  <2>1. CASE /\ Antigravity!Usable
             /\ errand' = [errand EXCEPT !.at = "try", !.left = own \o <<cache.access>>,
                                         !.refused = errand.login.expired]
             /\ cache' = cache
    <3>1. PICK token \in MaybeAccount : token = cache.access /\ token \in OfLogin(was.login)
      BY <1>1, <2>1 DEF Antigravity!Usable, TokensAreOfTheLogin, OfLogin
    <3>2. PICK older \in Seq(MaybeAccount) : older = <<token>>
      <4>1. <<token>> \in Seq(MaybeAccount)
        OBVIOUS
      <4>. QED  BY <4>1, Zenon
    <3>3. \A i \in 1 .. Len(older) : older[i] \in OfLogin(was.login)
      BY <3>1, <3>2
    <3>4. errand' = [errand EXCEPT !.at = "try", !.left = own \o older, !.refused = errand.login.expired]
      BY <2>1, <3>1, <3>2
    <3>. QED  BY <2>1, <3>3, <3>4
  <2>2. CASE /\ errand' = [errand EXCEPT !.at = "try", !.left = own \o <<>>, !.refused = errand.login.expired]
             /\ cache' \in Antigravity!Discarded
    <3>1. PICK older \in Seq(MaybeAccount) : older = <<>>
      <4>1. <<>> \in Seq(MaybeAccount)
        OBVIOUS
      <4>. QED  BY <4>1, Zenon
    <3>2. \A i \in 1 .. Len(older) : older[i] \in OfLogin(was.login)
      BY <3>1
    <3>3. cache' = cache \/ cache' = Antigravity!NoCache
      BY <2>2 DEF Antigravity!Discarded
    <3>. QED  BY <2>2, <3>1, <3>2, <3>3
  <2>. QED  BY <1>1, <2>1, <2>2 DEF Antigravity!CollectCandidates
<1>5. PICK left \in Seq(MaybeAccount) :
        left = own \o older /\ \A i \in 1 .. Len(left) : left[i] \in OfLogin(was.login)
  <2>1. own \o older \in Seq(MaybeAccount) /\ Len(own \o older) = Len(own) + Len(older)
    BY <1>3
  <2>2. \A i \in 1 .. Len(own) + Len(older) :
          (own \o older)[i] = IF i <= Len(own) THEN own[i] ELSE older[i - Len(own)]
    BY <1>3
  <2>3. \A i \in 1 .. Len(own) + Len(older) : (own \o older)[i] \in OfLogin(was.login)
    <3>1. ASSUME NEW i \in 1 .. Len(own) + Len(older) PROVE (own \o older)[i] \in OfLogin(was.login)
      <4>1. Len(own) \in Nat /\ Len(older) \in Nat
        BY <1>3
      <4>2. i <= Len(own) => i \in 1 .. Len(own)
        BY <4>1
      <4>3. i > Len(own) => i - Len(own) \in 1 .. Len(older)
        BY <4>1
      <4>. QED  BY <1>3, <1>4, <2>2, <4>1, <4>2, <4>3
    <3>. QED  BY <3>1
  <2>. QED  BY <2>1, <2>3
<1>6. PICK to \in ErrandStages, refused \in BOOLEAN : to = "try" /\ refused = was.login.expired
  BY <1>2 DEF ErrandStages
<1>7. errand' = [was EXCEPT !.at = to, !.left = left, !.refused = refused]
  BY <1>1, <1>4, <1>5, <1>6
<1>8. errand' \in Errands /\ errand'.at = "try" /\ errand'.left = left /\ errand'.login = was.login
  BY <1>6, <1>7 DEF Errands
<1>9. UNCHANGED <<editor, item, moved>> /\ cache' \in [access : MaybeAccount, boundTo : MaybeRefresh]
        /\ cache'.access = cache'.boundTo[1]
  <2>1. UNCHANGED <<editor, item, moved>>
    BY DEF Antigravity!CollectCandidates
  <2>2. cache.access = cache.boundTo[1]
    BY DEF TokensAreOfTheLogin
  <2>. QED  BY <1>4, <2>1, <2>2, AntigravityValues
<1>10. TokensAreOfTheLogin' /\ Antigravity!AntigravityShowsOwn'
  BY <1>5, <1>8, <1>9 DEF TokensAreOfTheLogin, Antigravity!AntigravityShowsOwn
<1>. QED  BY <1>8, <1>9, <1>10

LEMMA AntigravityTriesKeep ==
  ASSUME AntigravityInv, Antigravity!TryCandidate
  PROVE  AntigravityInv'
<1>. USE DEF AntigravityInv, AntigravityTypeOK
<1>0. /\ errand.at = "try" /\ errand.left # <<>> /\ errand.left \in Seq(MaybeAccount)
      /\ UNCHANGED <<editor, item, cache, moved>>
      /\ \A i \in 1 .. Len(errand.left) : errand.left[i] \in OfLogin(errand.login)
  BY DEF Antigravity!TryCandidate, Errands, TokensAreOfTheLogin
<1>1. PICK token \in MaybeAccount : token = Head(errand.left) /\ token \in OfLogin(errand.login)
  BY <1>0
<1>2. CASE \E plan \in {token, Antigravity!NoAccount} : Antigravity!Give(token, plan)
  <2>1. PICK plan \in {token, Antigravity!NoAccount} : Antigravity!Give(token, plan)
    BY <1>2
  <2>2. plan \in MaybeAccount
    BY AntigravityValues
  <2>. QED  BY <1>0, <1>1, <2>1, <2>2, AntigravityGives
<1>3. CASE \E refused \in BOOLEAN :
             errand' = [errand EXCEPT !.left = Tail(@), !.tried = TRUE, !.refused = @ \/ refused]
  <2>1. PICK refused \in BOOLEAN :
          errand' = [errand EXCEPT !.left = Tail(@), !.tried = TRUE, !.refused = @ \/ refused]
    BY <1>3
  <2>2. PICK was \in Errands : was = errand
    OBVIOUS
  <2>3. PICK left \in Seq(MaybeAccount) :
          left = Tail(was.left) /\ \A i \in 1 .. Len(left) : left[i] \in OfLogin(was.login)
    <3>1. PICK old \in Seq(MaybeAccount) : old = was.left /\ old # <<>>
      BY <1>0, <2>2
    <3>2. /\ Tail(old) \in Seq(MaybeAccount) /\ Len(Tail(old)) = Len(old) - 1
          /\ \A i \in 1 .. Len(old) - 1 : Tail(old)[i] = old[i + 1]
      BY <3>1
    <3>3. \A i \in 1 .. Len(Tail(old)) : Tail(old)[i] \in OfLogin(was.login)
      BY <1>0, <2>2, <3>1, <3>2
    <3>. QED  BY <3>1, <3>2, <3>3
  <2>4. PICK so \in BOOLEAN : so = (was.refused \/ refused)
    OBVIOUS
  <2>5. errand' = [was EXCEPT !.left = left, !.tried = TRUE, !.refused = so]
    BY <2>1, <2>2, <2>3, <2>4
  <2>6. errand' \in Errands /\ errand'.at = "try" /\ errand'.left = left /\ errand'.login = was.login
    BY <1>0, <2>2, <2>5 DEF Errands
  <2>. QED  BY <1>0, <2>3, <2>6 DEF TokensAreOfTheLogin, Antigravity!AntigravityShowsOwn
<1>. QED  BY <1>1, <1>2, <1>3 DEF Antigravity!TryCandidate

LEMMA AntigravityRenewalsKeep ==
  ASSUME AntigravityInv,
         Antigravity!RenewToken \/ Antigravity!StoreToken \/ Antigravity!FetchRenewed \/ Antigravity!EndErrand
  PROVE  AntigravityInv'
<1>. USE DEF AntigravityInv, AntigravityTypeOK
<1>0. PICK was \in Errands : was = errand
  OBVIOUS
<1>1. CASE Antigravity!RenewToken
  <2>1. CASE errand' = [errand EXCEPT !.at = "store", !.token = errand.login.refresh[1]] /\ UNCHANGED cache
    <3>1. PICK token \in MaybeAccount, to \in ErrandStages : token = was.login.refresh[1] /\ to = "store"
      BY DEF Errands, KeychainItems, MaybeRefresh, ErrandStages
    <3>2. errand' = [was EXCEPT !.at = to, !.token = token]
      BY <1>0, <2>1, <3>1
    <3>3. errand' \in Errands /\ errand'.at = "store" /\ errand'.token = errand'.login.refresh[1]
      BY <3>1, <3>2 DEF Errands
    <3>. QED  BY <1>1, <2>1, <3>3
              DEF Antigravity!RenewToken, TokensAreOfTheLogin, Antigravity!AntigravityShowsOwn
  <2>2. CASE errand' = Antigravity!Resting /\ cache' \in Antigravity!Discarded
    BY <1>1, <2>2, AntigravityRests DEF Antigravity!RenewToken
  <2>. QED  BY <1>1, <2>1, <2>2 DEF Antigravity!RenewToken, Antigravity!GiveUp, Antigravity!Discarded
<1>2. CASE Antigravity!StoreToken
  <2>1. PICK to \in ErrandStages : to = "fetch"
    BY DEF ErrandStages
  <2>2. errand' = [was EXCEPT !.at = to]
    BY <1>0, <1>2, <2>1 DEF Antigravity!StoreToken
  <2>3. errand' \in Errands /\ errand'.at = "fetch" /\ errand'.token = errand.token /\ errand'.login = errand.login
    BY <1>0, <2>1, <2>2 DEF Errands
  <2>4. errand.token = errand.login.refresh[1] /\ errand.token \in MaybeAccount /\ errand.login.refresh \in MaybeRefresh
    BY <1>2 DEF Antigravity!StoreToken, TokensAreOfTheLogin, Errands, KeychainItems
  <2>5. cache' \in [access : MaybeAccount, boundTo : MaybeRefresh] /\ cache'.access = cache'.boundTo[1]
    <3>1. cache' = cache \/ cache' = [access |-> errand.token, boundTo |-> errand.login.refresh]
      BY <1>2 DEF Antigravity!StoreToken
    <3>. QED  BY <2>4, <3>1 DEF TokensAreOfTheLogin
  <2>. QED  BY <1>2, <2>3, <2>4, <2>5
            DEF Antigravity!StoreToken, TokensAreOfTheLogin, Antigravity!AntigravityShowsOwn
<1>3. CASE Antigravity!FetchRenewed
  <2>1. CASE (\E plan \in {errand.token, Antigravity!NoAccount} : Antigravity!Give(errand.token, plan))
               /\ UNCHANGED cache
    <3>1. PICK plan \in {errand.token, Antigravity!NoAccount} : Antigravity!Give(errand.token, plan)
      BY <2>1
    <3>2. plan \in MaybeAccount /\ errand.token \in MaybeAccount /\ errand.token \in OfLogin(errand.login)
      BY <1>3, AntigravityValues DEF Antigravity!FetchRenewed, TokensAreOfTheLogin, OfLogin, Errands
    <3>. QED  BY <1>3, <2>1, <3>1, <3>2, AntigravityGives DEF Antigravity!FetchRenewed
  <2>2. CASE errand' = Antigravity!Resting /\ cache' \in Antigravity!Discarded
    BY <1>3, <2>2, AntigravityRests DEF Antigravity!FetchRenewed
  <2>. QED  BY <1>3, <2>1, <2>2 DEF Antigravity!FetchRenewed, Antigravity!GiveUp
<1>4. CASE Antigravity!EndErrand
  <2>1. cache' \in Antigravity!Discarded
    BY <1>4 DEF Antigravity!EndErrand, Antigravity!Discarded
  <2>. QED  BY <1>4, <2>1, AntigravityRests DEF Antigravity!EndErrand, Antigravity!GiveUp
<1>. QED  BY <1>1, <1>2, <1>3, <1>4

LEMMA AntigravityStepKeeps ==
  ASSUME AntigravityInv, [Antigravity!AntigravityNext]_(Antigravity!antigravityVars)
  PROVE  AntigravityInv'
<1>1. CASE UNCHANGED Antigravity!antigravityVars
  BY <1>1 DEF Antigravity!antigravityVars, AntigravityInv, AntigravityTypeOK, TokensAreOfTheLogin,
              Antigravity!AntigravityShowsOwn
<1>. QED  BY <1>1, AntigravityOthersKeep, AntigravityCollectKeeps, AntigravityTriesKeep,
             AntigravityRenewalsKeep DEF Antigravity!AntigravityNext

-----------------------------------------------------------------------------
(* Copilot                                                                 *)

LoginPlaces == 1 .. NumPlaces
OrgOrNone == Orgs \union {"no organisation"}
VisitStages == {"idle", "visit", "remembered", "orgs", "each", "done", "failed"}
Visits ==
  [at : VisitStages, place : Nat \ {0}, seen : SUBSET Accounts, usage : MaybeAccount, managed : BOOLEAN,
   left : Seq(Orgs), org : OrgOrNone, flawed : BOOLEAN]

CopilotTypeOK ==
  /\ found \in [LoginPlaces -> MaybeAccount] /\ valid \in SUBSET Accounts
  /\ bills \in [Accounts -> SUBSET Orgs] /\ remembered \in OrgOrNone /\ visit \in Visits

(* Where the refresh is, and what it has.                                  *)
VisitInOrder ==
  /\ visit.at \in {"idle", "visit", "remembered", "orgs", "each", "failed"} =>
       visit.org = "no organisation"
  /\ visit.at \in {"remembered", "orgs", "each"} => visit.managed
  /\ visit.at \in {"remembered", "orgs", "each", "done"} => visit.usage \in Accounts
  /\ visit.at = "failed" => visit.place > NumPlaces

(* What it has seen is so, unless something has changed.                   *)
SeenIsSo ==
  ~stirred =>
    /\ visit.seen \intersect valid = {}
    /\ visit.at \in {"visit", "failed"} =>
         \A p \in LoginPlaces : p < visit.place => found[p] \in visit.seen \union {"no account"}
    /\ visit.at = "each" =>
         visit.flawed \/ \A o \in bills[visit.usage] : \E i \in 1 .. Len(visit.left) : visit.left[i] = o

(* An organisation that is billed is one the account may read; and one is  *)
(* found if there is one.                                                  *)
BillingIsRight ==
  ~stirred /\ visit.at = "done" =>
    /\ visit.org # "no organisation" => visit.org \in bills[visit.usage]
    /\ visit.managed /\ visit.org = "no organisation" /\ ~visit.flawed => bills[visit.usage] = {}

CopilotInv == CopilotTypeOK /\ VisitInOrder /\ SeenIsSo /\ BillingIsRight

LEMMA CopilotNames ==
  /\ Copilot!NoAccount = "no account" /\ Copilot!NoOrg = "no organisation"
  /\ Copilot!Places = LoginPlaces
BY DEF Copilot!NoAccount, Copilot!NoOrg, Copilot!Places, LoginPlaces

LEMMA LoginPlacesAreNumbers ==
  /\ \A p \in LoginPlaces : p \in Nat /\ 1 <= p /\ p <= NumPlaces /\ ~(p < 1)
  /\ \A n \in Nat \ {0} : n <= NumPlaces => n \in LoginPlaces
<1>1. NumPlaces \in Nat
  BY CopilotAssumption
<1>2. ASSUME NEW K \in Nat PROVE /\ \A p \in 1 .. K : p \in Nat /\ 1 <= p /\ p <= K /\ ~(p < 1)
                                 /\ \A n \in Nat \ {0} : n <= K => n \in 1 .. K
  OBVIOUS
<1>. QED  BY <1>1, <1>2, Zenon DEF LoginPlaces

LEMMA PlaceAfter ==
  ASSUME NEW old \in Nat \ {0}
  PROVE  /\ old + 1 \in Nat \ {0}
         /\ \A p \in LoginPlaces : p < old + 1 => p < old \/ p = old
BY LoginPlacesAreNumbers

LEMMA NothingListed == <<>> \in Seq(Orgs)
OBVIOUS

LEMMA CopilotRests ==
  /\ Copilot!NoVisit \in Visits /\ Copilot!NoVisit.at = "idle"
  /\ Copilot!NoVisit.org = "no organisation" /\ Copilot!NoVisit.seen = {}
  /\ Copilot!NoVisit.place = 1
<1>1. PICK L, none : L = Seq(Orgs) /\ none = <<>> /\ none \in L
  BY NothingListed, Zenon
<1>2. /\ "idle" \in VisitStages /\ "no organisation" \in OrgOrNone /\ "no account" \in MaybeAccount
      /\ {} \in SUBSET Accounts /\ 1 \in Nat \ {0}
  BY DEF VisitStages, OrgOrNone, MaybeAccount
<1>3. Copilot!NoVisit = [at |-> "idle", place |-> 1, seen |-> {}, usage |-> "no account",
                         managed |-> FALSE, left |-> none, org |-> "no organisation", flawed |-> FALSE]
  BY <1>1, CopilotNames DEF Copilot!NoVisit
<1>4. Visits = [at : VisitStages, place : Nat \ {0}, seen : SUBSET Accounts, usage : MaybeAccount,
                managed : BOOLEAN, left : L, org : OrgOrNone, flawed : BOOLEAN]
  BY <1>1 DEF Visits
<1>. QED  BY <1>1, <1>2, <1>3, <1>4

(* Every organisation is in a list of them all.                            *)
LEMMA OrgsAreListed ==
  ASSUME NEW list \in Copilot!SetToSeqs(Orgs)
  PROVE  list \in Seq(Orgs) /\ \A o \in Orgs : \E i \in 1 .. Len(list) : list[i] = o
<1>1. PICK n : n = Cardinality(Orgs) /\ n = Copilot!Cardinality(Orgs)
  BY DEF Copilot!Cardinality, Cardinality
<1>2. n \in Nat
  BY <1>1, CopilotAssumption, FS_CardinalityType
<1>3. list \in [1 .. n -> Orgs] /\ \A i, j \in 1 .. n : i # j => list[i] # list[j]
  BY <1>1 DEF Copilot!SetToSeqs
<1>4. list \in Injection(1 .. n, Orgs)
  BY <1>3 DEF Injection, IsInjective
<1>5. Cardinality(1 .. n) = n
  BY <1>2, FS_Interval
<1>6. list \in Surjection(1 .. n, Orgs)
  BY <1>1, <1>4, <1>5, CopilotAssumption, FS_Injection
<1>7. \A o \in Orgs : \E i \in 1 .. n : list[i] = o
  BY <1>6 DEF Surjection
<1>8. list \in Seq(Orgs) /\ Len(list) = n
  BY <1>2, <1>3
<1>. QED  BY <1>7, <1>8

LEMMA CopilotBegins ==
  ASSUME Copilot!CopilotInit
  PROVE  CopilotInv
<1>1. CopilotTypeOK
  <2>1. found \in [LoginPlaces -> MaybeAccount]
    BY CopilotNames DEF Copilot!CopilotInit, MaybeAccount
  <2>2. remembered \in OrgOrNone
    BY CopilotNames DEF Copilot!CopilotInit, OrgOrNone
  <2>3. valid \in SUBSET Accounts /\ bills \in [Accounts -> SUBSET Orgs] /\ visit \in Visits
    BY CopilotRests DEF Copilot!CopilotInit
  <2>. QED  BY <2>1, <2>2, <2>3 DEF CopilotTypeOK
<1>2. /\ visit.at = "idle" /\ visit.org = "no organisation" /\ visit.seen = {}
  BY CopilotRests DEF Copilot!CopilotInit
<1>. QED  BY <1>1, <1>2 DEF CopilotInv, VisitInOrder, SeenIsSo, BillingIsRight

LEMMA CopilotOthersKeep ==
  ASSUME CopilotInv, Copilot!Others
  PROVE  CopilotInv'
<1>1. CopilotTypeOK'
  <2>1. UNCHANGED <<remembered, visit>>
    BY DEF Copilot!Others
  <2>2. found' \in [LoginPlaces -> MaybeAccount]
    BY CopilotNames DEF CopilotInv, CopilotTypeOK, Copilot!Others, MaybeAccount
  <2>3. valid' \in SUBSET Accounts
    BY DEF CopilotInv, CopilotTypeOK, Copilot!Others, Copilot!Toggle
  <2>4. bills' \in [Accounts -> SUBSET Orgs]
    <3>1. CASE \E a \in Accounts, o \in Orgs : bills' = [bills EXCEPT ![a] = Copilot!Toggle(o, @)]
      <4>1. PICK a \in Accounts, o \in Orgs : bills' = [bills EXCEPT ![a] = Copilot!Toggle(o, @)]
        BY <3>1
      <4>2. PICK some \in SUBSET Orgs : some = Copilot!Toggle(o, bills[a])
        BY DEF CopilotInv, CopilotTypeOK, Copilot!Toggle
      <4>. QED  BY <4>1, <4>2 DEF CopilotInv, CopilotTypeOK
    <3>. QED  BY <3>1 DEF CopilotInv, CopilotTypeOK, Copilot!Others
  <2>. QED  BY <2>1, <2>2, <2>3, <2>4 DEF CopilotInv, CopilotTypeOK
<1>2. stirred' = TRUE /\ visit' = visit
  BY DEF Copilot!Others
<1>. QED  BY <1>1, <1>2 DEF CopilotInv, VisitInOrder, SeenIsSo, BillingIsRight

LEMMA CopilotLoginsKeep ==
  ASSUME CopilotInv,
         Copilot!Visit \/ Copilot!PassOver \/ Copilot!TryLogin \/ Copilot!NoneLeft \/ Copilot!EndVisit
  PROVE  CopilotInv'
<1>. USE CopilotNames DEF CopilotInv, CopilotTypeOK
<1>0. PICK was \in Visits : was = visit
  OBVIOUS
<1>1. CASE Copilot!Visit
  <2>1. PICK none \in Visits, to \in VisitStages : none = Copilot!NoVisit /\ to = "visit"
    BY CopilotRests DEF VisitStages
  <2>2. visit' = [none EXCEPT !.at = to]
    BY <1>1, <2>1 DEF Copilot!Visit
  <2>3. /\ visit' \in Visits /\ visit'.at = "visit" /\ visit'.org = "no organisation"
        /\ visit'.seen = {} /\ visit'.place = 1
    BY <2>1, <2>2, CopilotRests DEF Visits
  <2>4. \A p \in LoginPlaces : ~(p < 1)
    BY LoginPlacesAreNumbers, Zenon
  <2>5. SeenIsSo'
    BY <2>3, <2>4 DEF SeenIsSo
  <2>. QED  BY <1>1, <2>3, <2>5 DEF Copilot!Visit, VisitInOrder, BillingIsRight
<1>2. CASE Copilot!PassOver
  <2>1. PICK next \in Nat \ {0} : next = was.place + 1 /\ was.place \in Nat \ {0}
    <3>1. PICK old \in Nat \ {0} : old = was.place
      BY DEF Visits
    <3>. QED  BY <3>1, PlaceAfter, Zenon
  <2>2. visit' = [was EXCEPT !.place = next]
    BY <1>0, <1>2, <2>1 DEF Copilot!PassOver, Copilot!Onward
  <2>3. /\ visit' \in Visits /\ visit'.at = visit.at /\ visit'.org = visit.org
        /\ visit'.seen = visit.seen /\ visit'.place = next
    BY <1>0, <2>1, <2>2 DEF Visits
  <2>4. /\ visit.at = "visit" /\ found[was.place] \in visit.seen \union {"no account"}
        /\ UNCHANGED <<found, valid, bills, remembered, stirred>>
    BY <1>0, <1>2 DEF Copilot!PassOver, Copilot!Candidate
  <2>5. \A p \in LoginPlaces : p < next => p < was.place \/ p = was.place
    BY <2>1, PlaceAfter, Zenon
  <2>6. SeenIsSo'
    BY <1>0, <2>3, <2>4, <2>5 DEF SeenIsSo
  <2>. QED  BY <2>3, <2>4, <2>6 DEF VisitInOrder, BillingIsRight
<1>3. CASE Copilot!TryLogin
  <2>0. /\ visit.at = "visit" /\ visit.place <= NumPlaces
        /\ Copilot!Candidate \notin visit.seen \union {"no account"}
        /\ UNCHANGED <<found, valid, bills, remembered, stirred>>
    BY <1>3 DEF Copilot!TryLogin
  <2>1. CASE Copilot!Candidate \in valid
    <3>1. PICK managed \in BOOLEAN, to \in VisitStages :
            /\ to = IF managed THEN "remembered" ELSE "done"
            /\ visit' = [visit EXCEPT !.at = to, !.usage = Copilot!Candidate, !.managed = managed]
      BY <1>3, <2>1 DEF Copilot!TryLogin, VisitStages
    <3>2. PICK account \in Accounts : account = Copilot!Candidate /\ account \in MaybeAccount
      BY <2>1 DEF MaybeAccount
    <3>3. visit' = [was EXCEPT !.at = to, !.usage = account, !.managed = managed]
      BY <1>0, <3>1, <3>2
    <3>4. /\ visit' \in Visits /\ visit'.at = to /\ visit'.org = visit.org /\ visit'.usage = account
          /\ visit'.managed = managed /\ visit'.seen = visit.seen
      BY <1>0, <3>1, <3>2, <3>3 DEF Visits
    <3>5. (to = "remembered" /\ visit'.managed) \/ (to = "done" /\ ~visit'.managed)
      BY <3>1, <3>4
    <3>6. visit'.org = "no organisation"
      BY <2>0, <3>4 DEF VisitInOrder
    <3>7. VisitInOrder'
      BY <3>2, <3>4, <3>5, <3>6 DEF VisitInOrder
    <3>8. SeenIsSo' /\ BillingIsRight'
      BY <2>0, <3>4, <3>5, <3>6 DEF SeenIsSo, BillingIsRight
    <3>. QED  BY <2>0, <3>4, <3>7, <3>8
  <2>2. CASE Copilot!Candidate \notin valid
    <3>1. PICK next \in Nat \ {0} : next = was.place + 1 /\ was.place \in Nat \ {0}
      <4>1. PICK old \in Nat \ {0} : old = was.place
        BY DEF Visits
      <4>. QED  BY <4>1, PlaceAfter, Zenon
    <3>2. visit.place \in LoginPlaces
      BY <1>0, <2>0, <3>1, LoginPlacesAreNumbers
    <3>3. PICK account \in Accounts : account = found[was.place] /\ account = Copilot!Candidate
      BY <1>0, <2>0, <3>2 DEF Copilot!Candidate, MaybeAccount
    <3>4. PICK seen2 \in SUBSET Accounts : seen2 = was.seen \union {account}
      BY DEF Visits
    <3>5. visit' = [was EXCEPT !.place = next, !.seen = seen2]
      BY <1>0, <1>3, <2>2, <3>1, <3>3, <3>4 DEF Copilot!TryLogin, Copilot!Onward, Visits
    <3>6. /\ visit' \in Visits /\ visit'.at = visit.at /\ visit'.org = visit.org
          /\ visit'.place = next /\ visit'.seen = seen2
      BY <1>0, <3>1, <3>4, <3>5 DEF Visits
    <3>7. \A p \in LoginPlaces : p < next => p < was.place \/ p = was.place
      BY <3>1, PlaceAfter, Zenon
    <3>8. SeenIsSo'
      <4>1. SUFFICES ASSUME ~stirred
            PROVE  /\ seen2 \intersect valid = {}
                   /\ \A p \in LoginPlaces : p < next => found[p] \in seen2 \union {"no account"}
        BY <2>0, <3>6 DEF SeenIsSo
      <4>2. visit.seen \intersect valid = {}
        BY <4>1 DEF SeenIsSo
      <4>3. \A p \in LoginPlaces : p < was.place => found[p] \in visit.seen \union {"no account"}
        BY <1>0, <2>0, <4>1 DEF SeenIsSo
      <4>. QED  BY <1>0, <2>2, <3>3, <3>4, <3>7, <4>2, <4>3
    <3>. QED  BY <2>0, <3>6, <3>8 DEF VisitInOrder, BillingIsRight
  <2>. QED  BY <2>1, <2>2
<1>4. CASE Copilot!NoneLeft
  <2>1. PICK to \in VisitStages : to = "failed"
    BY DEF VisitStages
  <2>2. visit' = [was EXCEPT !.at = to]
    BY <1>0, <1>4, <2>1 DEF Copilot!NoneLeft
  <2>3. /\ visit' \in Visits /\ visit'.at = "failed" /\ visit'.org = visit.org
        /\ visit'.seen = visit.seen /\ visit'.place = visit.place
    BY <1>0, <2>1, <2>2 DEF Visits
  <2>4. visit.at = "visit" /\ visit.place > NumPlaces /\ UNCHANGED <<found, valid, bills, remembered, stirred>>
    BY <1>4 DEF Copilot!NoneLeft
  <2>. QED  BY <2>3, <2>4 DEF VisitInOrder, SeenIsSo, BillingIsRight
<1>5. CASE Copilot!EndVisit
  <2>1. remembered' \in OrgOrNone
    BY <1>5 DEF Copilot!EndVisit, OrgOrNone
  <2>. QED  BY <1>5, <2>1, CopilotRests DEF Copilot!EndVisit, VisitInOrder, SeenIsSo, BillingIsRight
<1>. QED  BY <1>1, <1>2, <1>3, <1>4, <1>5

(* The billing is given, or a request for it fails.                        *)
LEMMA CopilotBills ==
  ASSUME CopilotInv, UNCHANGED <<found, valid, bills, stirred>>, remembered' \in OrgOrNone,
         visit.at \in {"remembered", "each"},
         \/ Copilot!Unbilled
         \/ \E o \in OrgOrNone : Copilot!Billed(o) /\ (o \in bills[visit.usage] /\ o # "no organisation")
         \/ Copilot!Billed("no organisation") /\ (~stirred => bills[visit.usage] = {} \/ visit.flawed)
  PROVE  CopilotInv'
<1>. USE DEF CopilotInv, CopilotTypeOK
<1>0. PICK was \in Visits, to \in VisitStages, none \in Seq(Orgs) : was = visit /\ to = "done" /\ none = <<>>
  <2>1. "done" \in VisitStages
    BY DEF VisitStages
  <2>. QED  BY <2>1, NothingListed, Zenon
<1>1. visit.managed /\ visit.usage \in Accounts /\ visit.org = "no organisation"
  BY DEF VisitInOrder
<1>2. CASE Copilot!Unbilled
  <2>1. visit' = [was EXCEPT !.at = to, !.left = none, !.flawed = TRUE]
    BY <1>0, <1>2 DEF Copilot!Unbilled
  <2>2. /\ visit' \in Visits /\ visit'.at = "done" /\ visit'.flawed /\ visit'.org = visit.org
        /\ visit'.usage = visit.usage /\ visit'.seen = visit.seen
    BY <1>0, <2>1 DEF Visits
  <2>. QED  BY <1>1, <2>2 DEF VisitInOrder, SeenIsSo, BillingIsRight
<1>3. ASSUME NEW o \in OrgOrNone, Copilot!Billed(o)
      PROVE  /\ visit' \in Visits /\ visit'.at = "done" /\ visit'.flawed = visit.flawed
             /\ visit'.org = o /\ visit'.usage = visit.usage /\ visit'.seen = visit.seen
  <2>1. visit' = [was EXCEPT !.at = to, !.org = o, !.left = none]
    BY <1>0, <1>3 DEF Copilot!Billed
  <2>. QED  BY <1>0, <2>1 DEF Visits
<1>4. CASE \E o \in OrgOrNone : Copilot!Billed(o) /\ (o \in bills[visit.usage] /\ o # "no organisation")
  <2>1. PICK o \in OrgOrNone : Copilot!Billed(o) /\ o \in bills[visit.usage] /\ o # "no organisation"
    BY <1>4
  <2>2. /\ visit' \in Visits /\ visit'.at = "done" /\ visit'.org = o
        /\ visit'.usage = visit.usage /\ visit'.seen = visit.seen
    BY <1>3, <2>1
  <2>. QED  BY <1>1, <2>1, <2>2 DEF VisitInOrder, SeenIsSo, BillingIsRight
<1>5. CASE Copilot!Billed("no organisation") /\ (~stirred => bills[visit.usage] = {} \/ visit.flawed)
  <2>1. "no organisation" \in OrgOrNone
    BY DEF OrgOrNone
  <2>2. /\ visit' \in Visits /\ visit'.at = "done" /\ visit'.flawed = visit.flawed
        /\ visit'.org = "no organisation" /\ visit'.usage = visit.usage /\ visit'.seen = visit.seen
    BY <1>3, <1>5, <2>1
  <2>. QED  BY <1>1, <1>5, <2>2 DEF VisitInOrder, SeenIsSo, BillingIsRight
<1>. QED  BY <1>2, <1>4, <1>5

LEMMA CopilotBillingKeeps ==
  ASSUME CopilotInv, Copilot!AskRemembered \/ Copilot!FetchOrgs \/ Copilot!AskOrg
  PROVE  CopilotInv'
<1>. USE DEF CopilotInv, CopilotTypeOK
<1>0. PICK was \in Visits : was = visit
  OBVIOUS
<1>1. CASE Copilot!AskRemembered
  <2>0. visit.at = "remembered" /\ UNCHANGED <<found, valid, bills, stirred>>
    BY <1>1 DEF Copilot!AskRemembered
  <2>1. "no organisation" \in OrgOrNone
    BY DEF OrgOrNone
  <2>2. CASE remembered # Copilot!NoOrg /\ remembered \in bills[visit.usage] /\ Copilot!Billed(remembered)
              /\ UNCHANGED remembered
    BY <2>0, <2>2, CopilotBills, CopilotNames
  <2>3. CASE Copilot!Unbilled /\ UNCHANGED remembered
    BY <2>0, <2>3, CopilotBills
  <2>4. CASE visit' = [visit EXCEPT !.at = "orgs"] /\ remembered' \in {remembered, Copilot!NoOrg}
    <3>1. PICK to \in VisitStages : to = "orgs"
      BY DEF VisitStages
    <3>2. visit' = [was EXCEPT !.at = to]
      BY <1>0, <2>4, <3>1
    <3>3. /\ visit' \in Visits /\ visit'.at = "orgs" /\ visit'.org = visit.org /\ visit'.seen = visit.seen
          /\ visit'.usage = visit.usage /\ visit'.managed = visit.managed
      BY <1>0, <3>1, <3>2 DEF Visits
    <3>4. remembered' \in OrgOrNone
      BY <2>1, <2>4, CopilotNames
    <3>. QED  BY <2>0, <3>3, <3>4 DEF VisitInOrder, SeenIsSo, BillingIsRight
  <2>. QED  BY <1>1, <2>2, <2>3, <2>4 DEF Copilot!AskRemembered
<1>2. CASE Copilot!FetchOrgs
  <2>0. visit.at = "orgs" /\ UNCHANGED <<found, valid, bills, remembered, stirred>>
    BY <1>2 DEF Copilot!FetchOrgs
  <2>1. CASE Copilot!Unbilled
    <3>1. PICK to \in VisitStages, none \in Seq(Orgs) : to = "done" /\ none = <<>>
      <4>1. "done" \in VisitStages
        BY DEF VisitStages
      <4>. QED  BY <4>1, NothingListed, Zenon
    <3>2. visit' = [was EXCEPT !.at = to, !.left = none, !.flawed = TRUE]
      BY <1>0, <2>1, <3>1 DEF Copilot!Unbilled
    <3>3. /\ visit' \in Visits /\ visit'.at = "done" /\ visit'.flawed /\ visit'.org = visit.org
          /\ visit'.usage = visit.usage /\ visit'.seen = visit.seen
      BY <1>0, <3>1, <3>2 DEF Visits
    <3>. QED  BY <2>0, <3>3 DEF VisitInOrder, SeenIsSo, BillingIsRight
  <2>2. CASE \E list \in Copilot!SetToSeqs(Orgs) : visit' = [visit EXCEPT !.at = "each", !.left = list]
    <3>1. PICK list \in Copilot!SetToSeqs(Orgs) : visit' = [visit EXCEPT !.at = "each", !.left = list]
      BY <2>2
    <3>2. PICK to \in VisitStages, left \in Seq(Orgs) :
            to = "each" /\ left = list /\ \A o \in Orgs : \E i \in 1 .. Len(left) : left[i] = o
      BY OrgsAreListed DEF VisitStages
    <3>3. visit' = [was EXCEPT !.at = to, !.left = left]
      BY <1>0, <3>1, <3>2
    <3>4. /\ visit' \in Visits /\ visit'.at = "each" /\ visit'.left = left /\ visit'.org = visit.org
          /\ visit'.usage = visit.usage /\ visit'.managed = visit.managed /\ visit'.seen = visit.seen
      BY <1>0, <3>2, <3>3 DEF Visits
    <3>5. visit.usage \in Accounts /\ bills[visit.usage] \subseteq Orgs
      BY <2>0 DEF VisitInOrder
    <3>6. SeenIsSo'
      BY <2>0, <3>2, <3>4, <3>5 DEF SeenIsSo
    <3>. QED  BY <2>0, <3>4, <3>6 DEF VisitInOrder, BillingIsRight
  <2>. QED  BY <1>2, <2>1, <2>2 DEF Copilot!FetchOrgs
<1>3. CASE Copilot!AskOrg
  <2>0. /\ visit.at = "each" /\ UNCHANGED <<found, valid, bills, stirred>> /\ visit.left \in Seq(Orgs)
        /\ visit.usage \in Accounts /\ visit.managed
    BY <1>3 DEF Copilot!AskOrg, VisitInOrder, Visits
  <2>1. CASE Copilot!Unbilled /\ UNCHANGED remembered
    BY <2>0, <2>1, CopilotBills
  <2>2. CASE visit.left = <<>> /\ Copilot!Billed(Copilot!NoOrg) /\ UNCHANGED remembered
    <3>1. ~stirred => bills[visit.usage] = {} \/ visit.flawed
      <4>1. Len(<<>>) = 0
        OBVIOUS
      <4>2. Len(visit.left) = 0
        BY <2>2, <4>1, Zenon
      <4>. QED  BY <2>0, <4>2 DEF SeenIsSo
    <3>. QED  BY <2>0, <2>2, <3>1, CopilotBills, CopilotNames
  <2>3. CASE /\ visit.left # <<>> /\ Head(visit.left) \in bills[visit.usage]
             /\ Copilot!Billed(Head(visit.left)) /\ remembered' = Head(visit.left)
    <3>1. PICK org \in OrgOrNone : org = Head(visit.left) /\ org # "no organisation"
      BY <2>0, <2>3, CopilotAssumption DEF OrgOrNone
    <3>. QED  BY <2>0, <2>3, <3>1, CopilotBills
  <2>4. CASE /\ visit.left # <<>> /\ UNCHANGED remembered
             /\ \/ Head(visit.left) \notin bills[visit.usage] /\ visit' = [visit EXCEPT !.left = Tail(@)]
                \/ visit' = [visit EXCEPT !.left = Tail(@), !.flawed = TRUE]
    <3>1. PICK old \in Seq(Orgs) : old = was.left /\ old # <<>>
      BY <1>0, <2>0, <2>4
    <3>2. PICK left \in Seq(Orgs) :
            left = Tail(old) /\ \A i \in 1 .. Len(old) : i = 1 \/ \E j \in 1 .. Len(left) : left[j] = old[i]
      <4>1. /\ Tail(old) \in Seq(Orgs) /\ Len(Tail(old)) = Len(old) - 1 /\ Len(old) \in Nat
            /\ \A i \in 1 .. Len(old) - 1 : Tail(old)[i] = old[i + 1]
        BY <3>1
      <4>2. ASSUME NEW i \in 1 .. Len(old), i # 1
            PROVE  \E j \in 1 .. Len(Tail(old)) : Tail(old)[j] = old[i]
        <5>1. i - 1 \in 1 .. Len(Tail(old)) /\ Tail(old)[i - 1] = old[i]
          BY <4>1, <4>2
        <5>. QED  BY <5>1
      <4>. QED  BY <4>1, <4>2
    <3>3. PICK flawed \in BOOLEAN :
            /\ visit' = [was EXCEPT !.left = left, !.flawed = flawed]
            /\ flawed \/ (flawed = was.flawed /\ Head(old) \notin bills[visit.usage])
      <4>1. CASE Head(visit.left) \notin bills[visit.usage] /\ visit' = [visit EXCEPT !.left = Tail(@)]
        <5>1. PICK flawed \in BOOLEAN : flawed = was.flawed
          BY DEF Visits
        <5>2. visit' = [was EXCEPT !.left = left, !.flawed = flawed]
          BY <1>0, <3>1, <3>2, <4>1, <5>1 DEF Visits
        <5>. QED  BY <1>0, <3>1, <4>1, <5>1, <5>2
      <4>2. CASE visit' = [visit EXCEPT !.left = Tail(@), !.flawed = TRUE]
        <5>1. visit' = [was EXCEPT !.left = left, !.flawed = TRUE]
          BY <1>0, <3>1, <3>2, <4>2
        <5>. QED  BY <5>1
      <4>. QED  BY <2>4, <4>1, <4>2
    <3>4. /\ visit' \in Visits /\ visit'.at = visit.at /\ visit'.left = left /\ visit'.org = visit.org
          /\ visit'.usage = visit.usage /\ visit'.managed = visit.managed /\ visit'.seen = visit.seen
          /\ visit'.flawed = flawed
      BY <1>0, <3>2, <3>3 DEF Visits
    <3>5. SeenIsSo'
      <4>1. SUFFICES ASSUME ~stirred, ~flawed
            PROVE  \A o \in bills[visit.usage] : \E i \in 1 .. Len(left) : left[i] = o
        BY <2>0, <3>4 DEF SeenIsSo
      <4>2. Head(old) \notin bills[visit.usage] /\ ~visit.flawed /\ Head(old) = old[1]
        BY <1>0, <3>1, <3>3, <4>1
      <4>3. \A o \in bills[visit.usage] : \E i \in 1 .. Len(old) : old[i] = o
        BY <1>0, <2>0, <3>1, <4>1, <4>2 DEF SeenIsSo
      <4>4. ASSUME NEW o \in bills[visit.usage] PROVE \E i \in 1 .. Len(left) : left[i] = o
        <5>1. PICK i \in 1 .. Len(old) : old[i] = o
          BY <4>3
        <5>2. i # 1
          BY <4>2, <5>1
        <5>. QED  BY <3>2, <5>1, <5>2
      <4>. QED  BY <4>4
    <3>. QED  BY <2>0, <2>4, <3>4, <3>5 DEF VisitInOrder, BillingIsRight
  <2>. QED  BY <1>3, <2>1, <2>2, <2>3, <2>4 DEF Copilot!AskOrg
<1>. QED  BY <1>1, <1>2, <1>3

LEMMA CopilotStepKeeps ==
  ASSUME CopilotInv, [Copilot!CopilotNext]_(Copilot!copilotVars)
  PROVE  CopilotInv'
<1>1. CASE UNCHANGED Copilot!copilotVars
  BY <1>1 DEF Copilot!copilotVars, CopilotInv, CopilotTypeOK, VisitInOrder, SeenIsSo, BillingIsRight
<1>. QED  BY <1>1, CopilotOthersKeep, CopilotLoginsKeep, CopilotBillingKeeps DEF Copilot!CopilotNext

LEMMA CopilotIsRight ==
  ASSUME CopilotInv
  PROVE  Copilot!CopilotShowsOwn
<1>. USE DEF CopilotInv
<1>1. ASSUME ~stirred, visit.at = "failed" PROVE \A p \in LoginPlaces : found[p] \notin valid
  <2>1. PICK place \in Nat : place = visit.place /\ place > NumPlaces
    BY <1>1 DEF VisitInOrder, CopilotTypeOK, Visits
  <2>2. \A p \in LoginPlaces : p < place
    <3>1. NumPlaces \in Nat
      BY CopilotAssumption
    <3>2. ASSUME NEW p \in LoginPlaces PROVE p < place
      <4>1. p \in Nat /\ p <= NumPlaces
        BY LoginPlacesAreNumbers
      <4>. QED  BY <2>1, <3>1, <4>1
    <3>. QED  BY <3>2
  <2>3. \A p \in LoginPlaces : found[p] \in visit.seen \union {"no account"}
    BY <1>1, <2>1, <2>2 DEF SeenIsSo
  <2>4. "no account" \notin valid /\ visit.seen \intersect valid = {}
    BY <1>1, CopilotAssumption DEF SeenIsSo, CopilotTypeOK
  <2>. QED  BY <2>3, <2>4
<1>. QED  BY <1>1, CopilotNames DEF BillingIsRight, Copilot!CopilotShowsOwn

LEMMA AntigravityIsRight ==
  ASSUME AntigravityInv
  PROVE  Antigravity!AntigravityShowsOwn
BY DEF AntigravityInv

-----------------------------------------------------------------------------
(* The logins together                                                     *)

(* A step is one of the part that is explored.                             *)
LEMMA StepOfPart ==
  ASSUME [ProvidersNext]_providerVars
  PROVE  /\ part' = part
         /\ part = "claude" => [Claude!ClaudeNext]_(Claude!claudeVars)
         /\ part = "codex" => [Codex!CodexNext]_(Codex!codexVars)
         /\ part = "grok" => [Grok!GrokNext]_(Grok!grokVars)
         /\ part = "cursor" => [Cursor!CursorNext]_(Cursor!cursorVars)
         /\ part = "antigravity" => [Antigravity!AntigravityNext]_(Antigravity!antigravityVars)
         /\ part = "copilot" => [Copilot!CopilotNext]_(Copilot!copilotVars)
         /\ part = "sessions" => [Sessions!SessionNext]_(Sessions!sessionVars)
         /\ part = "form" => [Forms!FormNext]_(Forms!formVars)
<1>1. CASE UNCHANGED providerVars
  <2>1. UNCHANGED <<part, loginVars, cacheVars, cursorVars, antigravityVars, sessionVars, copilotVars,
                    formVars>>
    BY <1>1 DEF providerVars, lateVars
  <2>2. /\ UNCHANGED Claude!claudeVars /\ UNCHANGED Codex!codexVars /\ UNCHANGED Grok!grokVars
    BY <2>1 DEF loginVars, cacheVars, Claude!claudeVars, Claude!cliVars, Claude!history, Claude!losses,
                Codex!codexVars, Codex!cliVars, Codex!history, Codex!losses,
                Grok!grokVars, Grok!cliVars, Grok!history, Grok!losses
  <2>3. /\ UNCHANGED Cursor!cursorVars /\ UNCHANGED Antigravity!antigravityVars
        /\ UNCHANGED Copilot!copilotVars /\ UNCHANGED Sessions!sessionVars /\ UNCHANGED Forms!formVars
    BY <2>1 DEF cursorVars, antigravityVars, sessionVars, copilotVars, formVars, Cursor!cursorVars,
                Antigravity!antigravityVars, Copilot!copilotVars, Sessions!sessionVars, Forms!formVars
  <2>. QED  BY <2>1, <2>2, <2>3
<1>2. CASE ProvidersNext
  BY <1>2 DEF ProvidersNext, Sub2ApiPart, ClaudePart, CodexPart, GrokPart, CursorPart, AntigravityPart,
              CopilotPart, SessionsPart, FormPart, ClaimsPart, PricesPart
<1>. QED  BY <1>1, <1>2

(* A renewal replaces the login it has read or renewed (Claude, Codex) and *)
(* leaves the other entries of its document alone (Grok), but for what a   *)
(* client writes between the last look and the write, and for a document   *)
(* that was gone; of Cursor it never mixes two accounts (claude/auth.rs,   *)
(* codex/auth.rs, grok/auth.rs, cursor/auth.rs).                           *)
THEOREM LoginsAreKept == ProvidersSpec => KeepsLogins
<1>. DEFINE LoginsInv == /\ part = "claude" => ClaudeInv
                         /\ part = "codex" => CodexInv
                         /\ part = "grok" => GrokInv
                         /\ part = "cursor" => CursorInv
<1>. DEFINE Keeps == /\ part = "claude" => Claude!ClaudeKeeps
                     /\ part = "codex" => Codex!CodexKeeps
                     /\ part = "grok" => Grok!GrokKeeps
                     /\ part = "cursor" => Cursor!CursorKeeps
<1>1. ProvidersInit => LoginsInv
  BY ClaudeBegins, CodexBegins, GrokBegins, CursorBegins DEF ProvidersInit
<1>2. LoginsInv /\ [ProvidersNext]_providerVars => LoginsInv'
  BY StepOfPart, ClaudeStepKeeps, CodexStepKeeps, GrokStepKeeps, CursorStepKeeps
<1>3. LoginsInv /\ [ProvidersNext]_providerVars => [Keeps]_providerVars
  BY StepOfPart, ClaudeKeepsLogins, CodexKeepsLogins, GrokKeepsLogins, CursorKeepsLogins
<1>. QED  BY <1>1, <1>2, <1>3, PTL DEF ProvidersSpec, KeepsLogins
=============================================================================
