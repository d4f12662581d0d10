-------------------------- MODULE Providers_proofs --------------------------
(***************************************************************************)
(* Proofs about the session of a Sub2API connection and its form, about    *)
(* all parts of the providers together, and about the commands and the     *)
(* refreshes of a connection, for any names, scopes and page size, and any *)
(* number of accounts, calls, lookups, saves, refreshes and launches.      *)
(*                                                                         *)
(* The parts share no state, so each has an invariant of its own, and a    *)
(* step of the whole is a step of the part that is explored (StepOfPart).  *)
(*                                                                         *)
(* A session lists the accounts page by page: what is known is the list    *)
(* up to the end of a page, as long as the list stands.                    *)
(*                                                                         *)
(* In the form, a command that has met no other call is the only call      *)
(* under way (AloneCommand), so its answer finds the connection as it left *)
(* it; what the form shows before that answer is what FormIsOnCourse says. *)
(*                                                                         *)
(* Of a connection: outside of a command that is changing something, an    *)
(* attempt under way either has the stored connection or will be followed  *)
(* by one that reads it (AnswersAreAwaited), so what it leaves behind when *)
(* it ends is current or marked by an error (OldDataWhileIdle); and once a *)
(* slot was emptied while no attempt held a connection, none can get one   *)
(* before the next save (CleanSlot).                                       *)
(***************************************************************************)
EXTENDS Logins_proofs, SequenceTheorems

-----------------------------------------------------------------------------
(* A session of Sub2API                                                    *)

JobStages ==
  {"idle", "session", "login", "keep", "list", "usage", "stats", "done", "refused"}
ScopeOrNone == Scopes \union {"no connection"}

(* K holds the accounts known and I their names, whatever a changed list   *)
(* makes of them.                                                          *)
Readings(I) == [id : I, usage : Nat, stats : Nat]
Jobs(K, I) ==
  [at : JobStages, scope : ScopeOrNone, token : Nat, logins : {0, 1}, then : {"list", "usage"},
   retried : BOOLEAN, page : Nat \ {0}, known : K, list : Seq(AccountIds), changed : BOOLEAN,
   usage : Nat, read : Seq(Readings(I))]

SessionTypeOK ==
  /\ config \in ScopeOrNone /\ owner \in Seq(Scopes)
  /\ session \in [scope : ScopeOrNone, token : Nat]
  /\ \E K, I : job \in Jobs(K, I)

(* A token was issued to the scope it is used for.                         *)
Good(token) == token \in 1 .. Len(owner) /\ owner[token] = job.scope
TokensAreOfTheScope ==
  /\ session.scope # "no connection" =>
       session.token \in 1 .. Len(owner) /\ owner[session.token] = session.scope
  /\ job.at # "idle" => job.scope \in Scopes /\ job.scope # "no connection"
  /\ job.at \in {"keep", "list", "usage", "stats", "done"} => Good(job.token)
  /\ job.at = "stats" => Good(job.usage)
  /\ \A i \in 1 .. Len(job.read) : Good(job.read[i].usage) /\ Good(job.read[i].stats)

(* A second refusal comes after a login.                                   *)
LoginsAreTried ==
  /\ job.at = "session" => job.then = "list" /\ ~job.retried
  /\ job.retried => job.at = "login" \/ job.logins = 1
  /\ job.at = "refused" => job.logins = 1

(* While the pages are listed, those before are known.                     *)
PagesAreKnown ==
  /\ job.at \in {"session", "list"} \/ (job.at \in {"login", "keep"} /\ job.then = "list") =>
       job.read = <<>> /\ (job.page = 1 => job.known = <<>>)
  /\ job.at = "session" \/ (job.at \in {"login", "keep"} /\ job.then = "list") => job.page = 1
  /\ job.at = "list" /\ job.page > 1 /\ ~job.changed =>
       /\ (job.page - 1) * PageSize < Len(job.list)
       /\ job.known = SubSeq(job.list, 1, (job.page - 1) * PageSize)

(* Afterwards all are known, and read in that order.                       *)
AccountsAreRead ==
  ~job.changed /\ (\/ job.at \in {"usage", "stats", "done"}
                   \/ job.at \in {"login", "keep"} /\ job.then = "usage") =>
    /\ job.known = job.list /\ Len(job.read) <= Len(job.known)
    /\ job.at = "stats" => Len(job.read) < Len(job.known)
    /\ job.at = "done" => Len(job.read) = Len(job.known)
    /\ \A i \in 1 .. Len(job.read) : job.read[i].id = job.known[i]

SessionInv ==
  SessionTypeOK /\ TokensAreOfTheScope /\ LoginsAreTried /\ PagesAreKnown /\ AccountsAreRead

LEMMA SessionValues ==
  /\ Sessions!NoScope = "no connection" /\ Sessions!NoScope \in ScopeOrNone
  /\ Sessions!NoSession \in [scope : ScopeOrNone, token : Nat]
  /\ Sessions!NoSession.scope = "no connection"
  /\ Sessions!NoJob \in Jobs({<<>>}, {}) /\ Sessions!NoJob.at = "idle" /\ Sessions!NoJob.read = <<>>
  /\ Sessions!NoJob.known = <<>> /\ Sessions!NoJob.page = 1 /\ Sessions!NoJob.then = "list"
  /\ Sessions!NoJob.retried = FALSE
<1>1. "idle" \in JobStages /\ "list" \in {"list", "usage"} /\ FALSE \in BOOLEAN
  BY DEF JobStages
<1>2. <<>> \in Seq(AccountIds) /\ <<>> \in Seq(Readings({})) /\ <<>> \in {<<>>}
  OBVIOUS
<1>3. Sessions!NoScope = "no connection" /\ Sessions!NoScope \in ScopeOrNone
  BY DEF Sessions!NoScope, ScopeOrNone
<1>4. Sessions!NoJob \in Jobs({<<>>}, {})
  <2>1. PICK K, R, L : K = {<<>>} /\ R = Seq(Readings({})) /\ L = Seq(AccountIds)
    OBVIOUS
  <2>2. PICK none \in K : none = <<>> /\ none \in R /\ none \in L
    BY <1>2, <2>1
  <2>3. Sessions!NoJob =
          [at |-> "idle", scope |-> Sessions!NoScope, token |-> 0, logins |-> 0, then |-> "list",
           retried |-> FALSE, page |-> 1, known |-> none, list |-> none, changed |-> FALSE,
           usage |-> 0, read |-> none]
    BY <2>2 DEF Sessions!NoJob
  <2>4. Jobs({<<>>}, {}) =
          [at : JobStages, scope : ScopeOrNone, token : Nat, logins : {0, 1}, then : {"list", "usage"},
           retried : BOOLEAN, page : Nat \ {0}, known : K, list : L, changed : BOOLEAN,
           usage : Nat, read : R]
    BY <2>1 DEF Jobs
  <2>5. PICK Numbers, Few, Phases, B : Numbers = Nat /\ Few = {0, 1} /\ Phases = {"list", "usage"} /\ B = BOOLEAN
    OBVIOUS
  <2>6. PICK at \in JobStages, so \in B, then \in Phases, zero \in Numbers, one \in Numbers \ {0} :
          at = "idle" /\ so = FALSE /\ then = "list" /\ zero = 0 /\ one = 1 /\ zero \in Few
    <3>1. FALSE \in B /\ "list" \in Phases
      BY <2>5, Zenon
    <3>2. 0 \in Numbers /\ 1 \in Numbers \ {0} /\ 0 \in Few
      BY <2>5
    <3>. QED  BY <1>1, <3>1, <3>2, Zenon
  <2>7. Sessions!NoJob =
          [at |-> at, scope |-> Sessions!NoScope, token |-> zero, logins |-> zero, then |-> then,
           retried |-> so, page |-> one, known |-> none, list |-> none, changed |-> so,
           usage |-> zero, read |-> none]
    BY <2>3, <2>6
  <2>8. Jobs({<<>>}, {}) =
          [at : JobStages, scope : ScopeOrNone, token : Numbers, logins : Few, then : Phases,
           retried : B, page : Numbers \ {0}, known : K, list : L, changed : B,
           usage : Numbers, read : R]
    BY <2>4, <2>5
  <2>. QED  BY <1>3, <2>2, <2>6, <2>7, <2>8
<1>. QED  BY <1>3, <1>4 DEF Sessions!NoSession, Sessions!NoJob

LEMMA JobEndKeeps ==
  ASSUME SessionInv, job' = Sessions!NoJob, UNCHANGED <<config, session, owner>>
  PROVE  SessionInv'
<1>1. SessionTypeOK'
  BY SessionValues DEF SessionInv, SessionTypeOK
<1>2. job'.at = "idle" /\ job'.read = <<>> /\ job'.retried = FALSE
  BY SessionValues
<1>3. TokensAreOfTheScope'
  <2>1. \A i \in 1 .. Len(job'.read) : FALSE
    BY <1>2
  <2>. QED  BY <1>2, <2>1 DEF SessionInv, TokensAreOfTheScope, Good
<1>4. LoginsAreTried' /\ PagesAreKnown' /\ AccountsAreRead'
  BY <1>2 DEF LoginsAreTried, PagesAreKnown, AccountsAreRead
<1>. QED  BY <1>1, <1>3, <1>4 DEF SessionInv

LEMMA SessionBegins ==
  ASSUME Sessions!SessionInit
  PROVE  SessionInv
<1>1. SessionTypeOK
  <2>1. config \in ScopeOrNone /\ session \in [scope : ScopeOrNone, token : Nat]
    BY SessionValues DEF Sessions!SessionInit, ScopeOrNone
  <2>2. owner = <<>> /\ owner \in Seq(Scopes)
    BY DEF Sessions!SessionInit
  <2>3. job \in Jobs({<<>>}, {})
    BY SessionValues DEF Sessions!SessionInit
  <2>. QED  BY <2>1, <2>2, <2>3 DEF SessionTypeOK
<1>2. job.at = "idle" /\ job.read = <<>> /\ job.retried = FALSE /\ session.scope = "no connection"
  BY SessionValues DEF Sessions!SessionInit
<1>3. TokensAreOfTheScope
  <2>1. Len(<<>>) = 0
    OBVIOUS
  <2>2. \A i \in 1 .. Len(job.read) : Good(job.read[i].usage) /\ Good(job.read[i].stats)
    <3>1. Len(job.read) = 0
      BY <1>2, <2>1, Zenon
    <3>. QED  BY <3>1
  <2>. QED  BY <1>2, <2>2 DEF TokensAreOfTheScope
<1>4. LoginsAreTried /\ PagesAreKnown /\ AccountsAreRead
  BY <1>2 DEF LoginsAreTried, PagesAreKnown, AccountsAreRead
<1>. QED  BY <1>1, <1>3, <1>4 DEF SessionInv

(* The server and the commands: the session is dropped, or left alone.     *)
LEMMA SessionOthersKeep ==
  ASSUME SessionInv, UNCHANGED <<owner, job>>, config' \in ScopeOrNone,
         session' = session \/ session' = Sessions!NoSession
  PROVE  SessionInv'
<1>1. SessionTypeOK'
  BY SessionValues DEF SessionInv, SessionTypeOK
<1>2. session'.scope # "no connection" => session' = session
  BY SessionValues
<1>3. TokensAreOfTheScope'
  BY <1>2 DEF SessionInv, TokensAreOfTheScope, Good
<1>4. LoginsAreTried' /\ PagesAreKnown' /\ AccountsAreRead'
  BY DEF SessionInv, LoginsAreTried, PagesAreKnown, AccountsAreRead
<1>. QED  BY <1>1, <1>3, <1>4 DEF SessionInv

(* What of the job a step leaves alone.                                    *)
SameReadings ==
  /\ owner' = owner /\ config' \in ScopeOrNone /\ session' = session
  /\ job'.scope = job.scope /\ job'.read = job.read

LEMMA TokensStandStill ==
  ASSUME SessionInv, SameReadings, job.at # "idle",
         job'.at \in {"keep", "list", "usage", "stats", "done"} => Good(job'.token),
         job'.at = "stats" => Good(job'.usage)
  PROVE  TokensAreOfTheScope'
BY DEF SessionInv, TokensAreOfTheScope, SameReadings, Good

LEMMA SessionStartKeeps ==
  ASSUME SessionInv, Sessions!LoadConfig \/ Sessions!TakeSession
  PROVE  SessionInv'
<1>. USE DEF SessionInv, SessionTypeOK
<1>1. CASE Sessions!LoadConfig
  <2>1. PICK none \in Jobs({<<>>}, {}) : none = Sessions!NoJob
    BY SessionValues
  <2>2. PICK to \in JobStages : to = "session"
    BY DEF JobStages
  <2>3. job' = [none EXCEPT !.at = to, !.scope = config] /\ config # "no connection"
        /\ UNCHANGED <<config, session, owner>>
    BY <1>1, <2>1, <2>2, SessionValues DEF Sessions!LoadConfig
  <2>4. job' \in Jobs({<<>>}, {})
    BY <2>3 DEF Jobs
  <2>5. /\ job'.at = "session" /\ job'.scope = config /\ job'.read = <<>> /\ job'.known = <<>>
        /\ job'.page = 1 /\ job'.then = "list" /\ job'.retried = FALSE
    BY <2>1, <2>2, <2>3, SessionValues DEF Jobs
  <2>6. config \in Scopes
    BY <2>3 DEF ScopeOrNone
  <2>7. TokensAreOfTheScope'
    <3>1. \A i \in 1 .. Len(job'.read) : FALSE
      BY <2>5
    <3>. QED  BY <2>3, <2>5, <2>6, <3>1 DEF TokensAreOfTheScope, Good
  <2>8. LoginsAreTried' /\ PagesAreKnown' /\ AccountsAreRead'
    BY <2>5 DEF LoginsAreTried, PagesAreKnown, AccountsAreRead
  <2>. QED  BY <2>3, <2>4, <2>7, <2>8
<1>2. CASE Sessions!TakeSession
  <2>1. PICK K, I : job \in Jobs(K, I)
    OBVIOUS
  <2>2. PICK was \in Jobs(K, I) : was = job
    BY <2>1
  <2>3. job.at = "session" /\ UNCHANGED <<config, session, owner>> /\ session.token \in Nat
    BY <1>2 DEF Sessions!TakeSession
  <2>4. CASE Sessions!Fits
    <3>1. PICK to \in JobStages : to = "list"
      BY DEF JobStages
    <3>2. job' = [was EXCEPT !.at = to, !.token = session.token]
      BY <1>2, <2>2, <2>4, <3>1 DEF Sessions!TakeSession
    <3>3. /\ job' \in Jobs(K, I) /\ job'.at = "list" /\ job'.token = session.token
          /\ job'.scope = job.scope /\ job'.read = job.read /\ job'.known = job.known
          /\ job'.page = job.page /\ job'.then = job.then /\ job'.retried = job.retried
      BY <2>2, <2>3, <3>1, <3>2 DEF Jobs
    <3>4. Good(session.token)
      BY <2>3, <2>4 DEF Sessions!Fits, TokensAreOfTheScope, Good
    <3>5. TokensAreOfTheScope'
      BY <2>3, <3>3, <3>4, TokensStandStill DEF SameReadings
    <3>. QED  BY <2>3, <3>3, <3>5 DEF LoginsAreTried, PagesAreKnown, AccountsAreRead
  <2>5. CASE ~Sessions!Fits
    <3>1. PICK to \in JobStages : to = "login"
      BY DEF JobStages
    <3>2. job' = [was EXCEPT !.at = to]
      BY <1>2, <2>2, <2>5, <3>1 DEF Sessions!TakeSession
    <3>3. /\ job' \in Jobs(K, I) /\ job'.at = "login"
          /\ job'.scope = job.scope /\ job'.read = job.read /\ job'.known = job.known
          /\ job'.page = job.page /\ job'.then = job.then /\ job'.retried = job.retried
      BY <2>2, <2>3, <3>1, <3>2 DEF Jobs
    <3>5. TokensAreOfTheScope'
      BY <2>3, <3>3, TokensStandStill DEF SameReadings
    <3>. QED  BY <2>3, <3>3, <3>5 DEF LoginsAreTried, PagesAreKnown, AccountsAreRead
  <2>. QED  BY <2>4, <2>5
<1>. QED  BY <1>1, <1>2

LEMMA ConnectKeeps ==
  ASSUME SessionInv, Sessions!Connect
  PROVE  SessionInv'
<1>. USE DEF SessionInv, SessionTypeOK
<1>1. PICK K, I : job \in Jobs(K, I)
  OBVIOUS
<1>2. PICK was \in Jobs(K, I) : was = job
  BY <1>1
<1>3. PICK to \in JobStages : to = "keep"
  BY DEF JobStages
<1>4. job.at = "login" /\ UNCHANGED <<config, session>> /\ job.scope \in Scopes
  BY DEF Sessions!Connect, TokensAreOfTheScope
<1>5. PICK tokens \in Seq(Scopes) :
        /\ owner' = tokens /\ Len(tokens) = Len(owner) + 1 /\ Len(owner) \in Nat
        /\ tokens[Len(tokens)] = job.scope /\ \A n \in 1 .. Len(owner) : tokens[n] = owner[n]
  BY <1>4 DEF Sessions!Connect
<1>6. PICK one \in {0, 1}, token \in Nat : one = 1 /\ token = Len(tokens)
  BY <1>5
<1>12. job' = [was EXCEPT !.at = to, !.token = token, !.logins = one]
  BY <1>2, <1>3, <1>5, <1>6 DEF Sessions!Connect
<1>7. /\ job' \in Jobs(K, I) /\ job'.at = "keep" /\ job'.token = Len(tokens) /\ job'.logins = 1
      /\ job'.scope = job.scope /\ job'.read = job.read /\ job'.known = job.known
      /\ job'.page = job.page /\ job'.then = job.then /\ job'.retried = job.retried
      /\ job'.changed = job.changed /\ job'.list = job.list
  BY <1>2, <1>3, <1>6, <1>12 DEF Jobs
<1>8. \A n \in 1 .. Len(owner) : n \in 1 .. Len(tokens) /\ tokens[n] = owner[n]
  BY <1>5
<1>9. TokensAreOfTheScope'
  <2>1. session'.scope # "no connection" =>
          session'.token \in 1 .. Len(owner') /\ owner'[session'.token] = session'.scope
    BY <1>4, <1>5, <1>8 DEF TokensAreOfTheScope
  <2>2. Good(job.token)'
    <3>1. Len(tokens) \in 1 .. Len(tokens)
      BY <1>5
    <3>. QED  BY <1>5, <1>7, <3>1 DEF Good
  <2>3. \A i \in 1 .. Len(job'.read) : Good(job.read[i].usage)' /\ Good(job.read[i].stats)'
    <3>1. \A t : Good(t) => t \in 1 .. Len(owner') /\ owner'[t] = job'.scope
      BY <1>5, <1>7, <1>8 DEF Good
    <3>2. \A i \in 1 .. Len(job.read) : Good(job.read[i].usage) /\ Good(job.read[i].stats)
      BY DEF TokensAreOfTheScope
    <3>. QED  BY <1>7, <3>1, <3>2 DEF Good
  <2>. QED  BY <1>4, <1>7, <2>1, <2>2, <2>3 DEF TokensAreOfTheScope
<1>10. LoginsAreTried' /\ PagesAreKnown' /\ AccountsAreRead'
  BY <1>4, <1>7 DEF LoginsAreTried, PagesAreKnown, AccountsAreRead
<1>11. SessionTypeOK'
  BY <1>4, <1>5, <1>7
<1>. QED  BY <1>9, <1>10, <1>11

LEMMA KeepSessionKeeps ==
  ASSUME SessionInv, Sessions!KeepSession
  PROVE  SessionInv'
<1>. USE DEF SessionInv, SessionTypeOK
<1>1. PICK K, I : job \in Jobs(K, I)
  OBVIOUS
<1>2. PICK was \in Jobs(K, I) : was = job
  BY <1>1
<1>3. PICK to \in JobStages : to = job.then /\ to \in {"list", "usage"}
  BY <1>1 DEF JobStages, Jobs
<1>4. /\ job.at = "keep" /\ UNCHANGED <<config, owner>> /\ job.scope \in Scopes
      /\ job.scope # "no connection" /\ Good(job.token) /\ job.token \in Nat /\ job.scope \in ScopeOrNone
  BY <1>1 DEF Sessions!KeepSession, TokensAreOfTheScope, ScopeOrNone, Jobs
<1>5. job' = [was EXCEPT !.at = to]
  BY <1>2, <1>3 DEF Sessions!KeepSession
<1>6. session' = [scope |-> job.scope, token |-> job.token]
  BY DEF Sessions!KeepSession
<1>7. /\ job' \in Jobs(K, I) /\ job'.at = to /\ job'.token = job.token /\ job'.logins = job.logins
      /\ job'.scope = job.scope /\ job'.read = job.read /\ job'.known = job.known
      /\ job'.page = job.page /\ job'.then = job.then /\ job'.retried = job.retried
      /\ job'.changed = job.changed /\ job'.list = job.list
  BY <1>2, <1>3, <1>5 DEF Jobs
<1>8. TokensAreOfTheScope'
  BY <1>3, <1>4, <1>6, <1>7 DEF TokensAreOfTheScope, Good
<1>9. LoginsAreTried'
  BY <1>3, <1>4, <1>7 DEF LoginsAreTried
<1>10. PagesAreKnown'
  <2>1. CASE job.then = "list"
    <3>1. job'.page = 1 /\ job'.read = <<>> /\ job'.known = <<>>
      BY <1>4, <1>7, <2>1 DEF PagesAreKnown
    <3>. QED  BY <3>1 DEF PagesAreKnown
  <2>2. CASE job.then = "usage"
    BY <1>3, <1>7, <2>2 DEF PagesAreKnown
  <2>. QED  BY <1>3, <2>1, <2>2
<1>11. AccountsAreRead'
  BY <1>3, <1>4, <1>7 DEF AccountsAreRead
<1>12. SessionTypeOK'
  BY <1>4, <1>6, <1>7
<1>. QED  BY <1>8, <1>9, <1>10, <1>11, <1>12

(* A request is refused: the refresh fails, or starts over with a login.   *)
LEMMA RefusalKeeps ==
  ASSUME SessionInv, NEW next \in {"list", "usage"}, Sessions!Refused(next),
         UNCHANGED <<config, session, owner>>,
         job.at \in {"list", "usage", "stats"}, next = "list" <=> job.at = "list"
  PROVE  SessionInv'
<1>. USE DEF SessionInv, SessionTypeOK
<1>1. PICK K, I : job \in Jobs(K, I)
  OBVIOUS
<1>2. PICK was \in Jobs(K, I) : was = job
  BY <1>1
<1>3. CASE job.retried
  <2>1. PICK to \in JobStages : to = "refused"
    BY DEF JobStages
  <2>2. job' = [was EXCEPT !.at = to]
    BY <1>2, <1>3, <2>1 DEF Sessions!Refused
  <2>3. /\ job' \in Jobs(K, I) /\ job'.at = "refused" /\ job'.logins = job.logins
        /\ job'.scope = job.scope /\ job'.read = job.read /\ job'.retried = job.retried
    BY <1>2, <2>1, <2>2 DEF Jobs
  <2>4. TokensAreOfTheScope'
    BY <2>3, TokensStandStill DEF SameReadings
  <2>5. LoginsAreTried' /\ PagesAreKnown' /\ AccountsAreRead'
    BY <1>3, <2>3 DEF LoginsAreTried, PagesAreKnown, AccountsAreRead
  <2>. QED  BY <2>3, <2>4, <2>5
<1>4. CASE ~job.retried
  <2>1. PICK to \in JobStages : to = "login"
    BY DEF JobStages
  <2>2. PICK known \in K \union {<<>>} : known = IF next = "list" THEN <<>> ELSE job.known
    BY <1>1 DEF Jobs
  <2>3. PICK one \in Nat \ {0} : one = 1
    OBVIOUS
  <2>10. job' = [was EXCEPT !.at = to, !.then = next, !.retried = TRUE, !.page = one, !.known = known]
    BY <1>2, <1>4, <2>1, <2>2, <2>3 DEF Sessions!Refused
  <2>4. was \in Jobs(K \union {<<>>}, I)
    BY DEF Jobs
  <2>5. /\ job' \in Jobs(K \union {<<>>}, I) /\ job'.at = "login" /\ job'.logins = job.logins
        /\ job'.then = next /\ job'.page = 1 /\ job'.known = known /\ job'.retried
        /\ job'.scope = job.scope /\ job'.read = job.read
        /\ job'.changed = job.changed /\ job'.list = job.list
    BY <1>2, <2>1, <2>2, <2>3, <2>10, <2>4 DEF Jobs
  <2>6. TokensAreOfTheScope'
    BY <2>5, TokensStandStill DEF SameReadings
  <2>7. LoginsAreTried' /\ PagesAreKnown'
    BY <2>2, <2>5 DEF LoginsAreTried, PagesAreKnown
  <2>8. AccountsAreRead'
    BY <2>2, <2>5 DEF AccountsAreRead
  <2>9. SessionTypeOK'
    BY <2>5
  <2>. QED  BY <2>6, <2>7, <2>8, <2>9
<1>. QED  BY <1>3, <1>4

LEMMA FetchUsageKeeps ==
  ASSUME SessionInv, Sessions!FetchUsage
  PROVE  SessionInv'
<1>. USE DEF SessionInv, SessionTypeOK
<1>0. job.at = "usage" /\ Len(job.read) < Len(job.known) /\ UNCHANGED <<config, session, owner>>
  BY DEF Sessions!FetchUsage
<1>1. CASE Sessions!Refused("usage")
  BY <1>0, <1>1, RefusalKeeps
<1>2. CASE job' = [job EXCEPT !.at = "stats", !.usage = job.token]
  <2>1. PICK K, I : job \in Jobs(K, I)
    OBVIOUS
  <2>2. PICK was \in Jobs(K, I) : was = job
    BY <2>1
  <2>3. PICK to \in JobStages : to = "stats"
    BY DEF JobStages
  <2>4. job' = [was EXCEPT !.at = to, !.usage = was.token]
    BY <1>2, <2>2, <2>3
  <2>5. /\ job' \in Jobs(K, I) /\ job'.at = "stats" /\ job'.usage = job.token
        /\ job'.token = job.token /\ job'.logins = job.logins /\ job'.retried = job.retried
        /\ job'.scope = job.scope /\ job'.read = job.read /\ job'.known = job.known
        /\ job'.changed = job.changed /\ job'.list = job.list
    BY <2>2, <2>3, <2>4 DEF Jobs
  <2>6. Good(job.token)
    BY <1>0 DEF TokensAreOfTheScope
  <2>7. TokensAreOfTheScope'
    BY <1>0, <2>5, <2>6, TokensStandStill DEF SameReadings
  <2>8. LoginsAreTried' /\ PagesAreKnown'
    BY <1>0, <2>5 DEF LoginsAreTried, PagesAreKnown
  <2>9. AccountsAreRead'
    BY <1>0, <2>5 DEF AccountsAreRead
  <2>. QED  BY <1>0, <2>5, <2>7, <2>8, <2>9
<1>. QED  BY <1>1, <1>2 DEF Sessions!FetchUsage

LEMMA FetchStatsKeeps ==
  ASSUME SessionInv, Sessions!FetchStats
  PROVE  SessionInv'
<1>. USE DEF SessionInv, SessionTypeOK
<1>0. job.at = "stats" /\ UNCHANGED <<config, session, owner>>
  BY DEF Sessions!FetchStats
<1>1. CASE Sessions!Refused("usage")
  BY <1>0, <1>1, RefusalKeeps
<1>2. CASE job' = [job EXCEPT !.at = "usage", !.retried = FALSE, !.usage = 0,
                     !.read = Append(@, [id |-> Sessions!Account, usage |-> job.usage,
                                         stats |-> job.token])]
  <2>1. PICK K, I : job \in Jobs(K, I)
    OBVIOUS
  <2>2. PICK was \in Jobs(K, I) : was = job
    BY <2>1
  <2>3. PICK to \in JobStages : to = "usage"
    BY DEF JobStages
  <2>4. PICK ids, name : ids = I \union {name} /\ name = job.known[Len(job.read) + 1]
    OBVIOUS
  <2>5. /\ was.usage \in Nat /\ was.token \in Nat /\ was.read \in Seq(Readings(I))
    BY DEF Jobs
  <2>6. was.read \in Seq(Readings(ids))
    <3>1. Readings(I) \subseteq Readings(ids)
      BY <2>4 DEF Readings
    <3>. QED  BY <2>5, <3>1
  <2>7. PICK new \in Readings(ids) : new = [id |-> name, usage |-> was.usage, stats |-> was.token]
    BY <2>4, <2>5 DEF Readings
  <2>8. PICK read \in Seq(Readings(ids)) :
          /\ read = Append(was.read, new) /\ Len(read) = Len(was.read) + 1 /\ Len(was.read) \in Nat
          /\ read[Len(read)] = new /\ \A i \in 1 .. Len(was.read) : read[i] = was.read[i]
    <3>0. PICK R : R = Readings(ids)
      OBVIOUS
    <3>1. PICK old \in Seq(R) : old = was.read
      BY <2>6, <3>0
    <3>2. new \in R
      BY <3>0
    <3>3. /\ Append(old, new) \in Seq(R) /\ Len(Append(old, new)) = Len(old) + 1 /\ Len(old) \in Nat
          /\ Append(old, new)[Len(old) + 1] = new
          /\ \A i \in 1 .. Len(old) : Append(old, new)[i] = old[i]
      BY <3>2
    <3>. QED  BY <3>0, <3>1, <3>3
  <2>9. was \in Jobs(K, ids)
    BY <2>6 DEF Jobs
  <2>10. job' = [was EXCEPT !.at = to, !.retried = FALSE, !.usage = 0, !.read = read]
    BY <1>2, <2>2, <2>3, <2>4, <2>7, <2>8 DEF Sessions!Account
  <2>11. /\ job' \in Jobs(K, ids) /\ job'.at = "usage" /\ ~job'.retried /\ job'.read = read
         /\ job'.token = job.token /\ job'.logins = job.logins
         /\ job'.scope = job.scope /\ job'.known = job.known
         /\ job'.changed = job.changed /\ job'.list = job.list
    BY <2>2, <2>3, <2>8, <2>9, <2>10 DEF Jobs
  <2>12. Good(job.token) /\ Good(job.usage) /\ job.scope \in Scopes /\ job.scope # "no connection"
    BY <1>0 DEF TokensAreOfTheScope
  <2>13. \A i \in 1 .. Len(read) : i = Len(read) \/ (i \in 1 .. Len(was.read) /\ read[i] = was.read[i])
    BY <2>8
  <2>14. \A i \in 1 .. Len(read) : Good(read[i].usage) /\ Good(read[i].stats)
    <3>1. new.usage = job.usage /\ new.stats = job.token
      BY <2>2, <2>7
    <3>. QED  BY <2>2, <2>8, <2>12, <2>13, <3>1, ZenonT(30) DEF TokensAreOfTheScope
  <2>15. TokensAreOfTheScope'
    <3>1. \A t : Good(t) => Good(t)'
      BY <1>0, <2>11 DEF Good
    <3>2. \A i \in 1 .. Len(job'.read) : Good(job.read[i].usage)' /\ Good(job.read[i].stats)'
      BY <1>0, <2>11, <2>14 DEF Good
    <3>3. Good(job.token)'
      BY <1>0, <2>11, <2>12 DEF Good
    <3>. QED  BY <1>0, <2>11, <2>12, <3>2, <3>3 DEF TokensAreOfTheScope
  <2>16. LoginsAreTried' /\ PagesAreKnown'
    BY <2>11 DEF LoginsAreTried, PagesAreKnown
  <2>17. AccountsAreRead'
    <3>1. SUFFICES ASSUME ~job.changed
          PROVE  /\ job.known = job.list /\ Len(read) <= Len(job.known)
                 /\ \A i \in 1 .. Len(read) : read[i].id = job.known[i]
      BY <2>11 DEF AccountsAreRead
    <3>2. /\ job.known = job.list /\ Len(was.read) < Len(job.known)
          /\ \A i \in 1 .. Len(was.read) : was.read[i].id = job.known[i]
      BY <1>0, <2>2, <3>1 DEF AccountsAreRead
    <3>3. Len(job.known) \in Nat
      BY <2>1, <3>2 DEF Jobs
    <3>4. new.id = job.known[Len(read)]
      BY <2>2, <2>4, <2>7, <2>8
    <3>. QED  BY <2>8, <2>13, <3>2, <3>3, <3>4
  <2>18. SessionTypeOK'
    BY <1>0, <2>11
  <2>. QED  BY <2>15, <2>16, <2>17, <2>18
<1>. QED  BY <1>1, <1>2 DEF Sessions!FetchStats

LEMMA PublishKeeps ==
  ASSUME SessionInv, Sessions!Publish
  PROVE  SessionInv'
<1>. USE DEF SessionInv, SessionTypeOK
<1>1. PICK K, I : job \in Jobs(K, I)
  OBVIOUS
<1>2. PICK was \in Jobs(K, I) : was = job
  BY <1>1
<1>3. PICK to \in JobStages : to = "done"
  BY DEF JobStages
<1>4. job.at = "usage" /\ UNCHANGED <<config, session, owner>> /\ Len(job.read) = Len(job.known)
  BY DEF Sessions!Publish
<1>5. job' = [was EXCEPT !.at = to]
  BY <1>2, <1>3 DEF Sessions!Publish
<1>6. /\ job' \in Jobs(K, I) /\ job'.at = "done" /\ job'.token = job.token /\ job'.logins = job.logins
      /\ job'.scope = job.scope /\ job'.read = job.read /\ job'.known = job.known
      /\ job'.retried = job.retried /\ job'.changed = job.changed /\ job'.list = job.list
  BY <1>2, <1>3, <1>5 DEF Jobs
<1>7. Good(job.token)
  BY <1>4 DEF TokensAreOfTheScope
<1>8. TokensAreOfTheScope'
  BY <1>4, <1>6, <1>7, TokensStandStill DEF SameReadings
<1>9. LoginsAreTried' /\ PagesAreKnown' /\ AccountsAreRead'
  BY <1>4, <1>6 DEF LoginsAreTried, PagesAreKnown, AccountsAreRead
<1>. QED  BY <1>4, <1>6, <1>8, <1>9

(* A page of a list whose earlier pages are known makes the next known.    *)
LEMMA PageMakesKnown ==
  ASSUME NEW list \in Sessions!Lists, NEW n \in Nat \ {0}, (n - 1) * PageSize <= Len(list),
         job.known = SubSeq(list, 1, (n - 1) * PageSize)
  PROVE  \E m \in Nat :
           /\ job.known \o Sessions!Added(Sessions!Page(list, n)) = SubSeq(list, 1, m)
           /\ m = IF n * PageSize < Len(list) THEN n * PageSize ELSE Len(list)
           /\ Len(SubSeq(list, 1, m)) = m
<1>1. /\ list \in Seq(AccountIds) /\ Len(list) \in Nat
      /\ \A i, j \in 1 .. Len(list) : list[i] = list[j] => i = j
  <2>1. PICK k \in 0 .. 2 : list \in [1 .. k -> AccountIds] /\ Sessions!IsInjective(list)
    BY DEF Sessions!Lists
  <2>. QED  BY <2>1 DEF Sessions!IsInjective
<1>2. PICK p \in Nat, q \in Nat : p = (n - 1) * PageSize /\ q = n * PageSize /\ q = p + PageSize
  <2>1. PageSize \in Nat /\ n - 1 \in Nat
    BY PageAssumption
  <2>2. PICK k \in Nat : k = n - 1 /\ n = k + 1
    BY <2>1
  <2>3. k * PageSize \in Nat /\ (k + 1) * PageSize = k * PageSize + PageSize
    BY <2>1
  <2>. QED  BY <2>1, <2>2, <2>3
<1>3. PICK m \in Nat : m = IF q < Len(list) THEN q ELSE Len(list)
  BY <1>1
<1>4. p <= m /\ m <= Len(list)
  BY <1>1, <1>2, <1>3, PageAssumption
<1>5. PICK page \in Seq(AccountIds) :
        page = SubSeq(list, p + 1, m) /\ Len(page) = m - p /\ \A i \in 1 .. m - p : page[i] = list[p + i]
  <2>1. \A i \in p + 1 .. m : list[i] \in AccountIds
    BY <1>1, <1>4
  <2>2. /\ SubSeq(list, p + 1, m) \in Seq(AccountIds)
        /\ Len(SubSeq(list, p + 1, m)) = IF p + 1 <= m THEN m - (p + 1) + 1 ELSE 0
        /\ \A i \in 1 .. m - (p + 1) + 1 : SubSeq(list, p + 1, m)[i] = list[p + 1 + i - 1]
    BY <2>1, SubSeqProperties
  <2>3. m - (p + 1) + 1 = m - p /\ (IF p + 1 <= m THEN m - (p + 1) + 1 ELSE 0) = m - p
    BY <1>4
  <2>4. \A i \in 1 .. m - p : p + 1 + i - 1 = p + i
    OBVIOUS
  <2>5. PICK page : page = SubSeq(list, p + 1, m)
    OBVIOUS
  <2>6. page \in Seq(AccountIds) /\ Len(page) = m - p
    BY <2>2, <2>3, <2>5
  <2>7. \A i \in 1 .. m - p : page[i] = list[p + i]
    BY <2>2, <2>3, <2>4, <2>5
  <2>. QED  BY <2>5, <2>6, <2>7
<1>6. PICK known \in Seq(AccountIds) :
        known = job.known /\ Len(known) = p /\ \A i \in 1 .. p : known[i] = list[i]
  <2>1. \A i \in 1 .. p : list[i] \in AccountIds
    BY <1>1, <1>4
  <2>2. /\ SubSeq(list, 1, p) \in Seq(AccountIds)
        /\ Len(SubSeq(list, 1, p)) = IF 1 <= p THEN p - 1 + 1 ELSE 0
        /\ \A i \in 1 .. p - 1 + 1 : SubSeq(list, 1, p)[i] = list[1 + i - 1]
    BY <2>1, SubSeqProperties
  <2>3. p - 1 + 1 = p /\ (IF 1 <= p THEN p - 1 + 1 ELSE 0) = p /\ \A i \in 1 .. p : 1 + i - 1 = i
    OBVIOUS
  <2>4. PICK known : known = SubSeq(list, 1, p) /\ known = job.known
    BY <1>2
  <2>5. known \in Seq(AccountIds) /\ Len(known) = p
    BY <2>2, <2>3, <2>4
  <2>6. \A i \in 1 .. p : known[i] = list[i]
    BY <2>2, <2>3, <2>4
  <2>. QED  BY <2>4, <2>5, <2>6
<1>7. Sessions!Page(list, n) = page
  BY <1>2, <1>3, <1>5 DEF Sessions!Page
<1>8. Sessions!Added(page) = page
  <2>1. \A i \in 1 .. Len(page), j \in 1 .. Len(known) : page[i] # known[j]
    <3>1. ASSUME NEW i \in 1 .. Len(page), NEW j \in 1 .. Len(known) PROVE page[i] # known[j]
      <4>1. page[i] = list[p + i] /\ known[j] = list[j]
        BY <1>5, <1>6
      <4>2. p + i \in 1 .. Len(list) /\ j \in 1 .. Len(list) /\ p + i # j
        BY <1>1, <1>4, <1>5, <1>6
      <4>. QED  BY <1>1, <4>1, <4>2
    <3>. QED  BY <3>1
  <2>2. Sessions!ToSet(page) \intersect Sessions!ToSet(known) = {}
    BY <2>1 DEF Sessions!ToSet
  <2>. QED  BY <1>6, <2>2 DEF Sessions!Added
<1>9. known \o page = SubSeq(list, 1, m)
  <2>1. known = SubSeq(list, 1, p)
    BY <1>2, <1>6
  <2>2. SubSeq(list, 1, p) \o SubSeq(list, p + 1, m) = SubSeq(list, 1, m)
    BY <1>1, <1>4, ConcatAdjacentSubSeq
  <2>. QED  BY <1>5, <2>1, <2>2
<1>10. Len(SubSeq(list, 1, m)) = m
  BY <1>4, <1>5, <1>6, <1>9, ConcatProperties
<1>. QED  BY <1>2, <1>3, <1>6, <1>7, <1>8, <1>9, <1>10

LEMMA ListingKeeps ==
  ASSUME SessionInv, Sessions!ListAccounts
  PROVE  SessionInv'
<1>. USE DEF SessionInv, SessionTypeOK
<1>0. job.at = "list" /\ UNCHANGED <<config, session, owner>>
  BY DEF Sessions!ListAccounts
<1>1. CASE Sessions!Refused("list")
  BY <1>0, <1>1, RefusalKeeps
<1>2. CASE \E list \in Sessions!Lists : Sessions!Listed(list)
  <2>1. PICK list \in Sessions!Lists : Sessions!Listed(list)
    BY <1>2
  <2>2. PICK K, I : job \in Jobs(K, I)
    OBVIOUS
  <2>3. PICK known, L : known = job.known \o Sessions!Added(Sessions!Page(list, job.page)) /\ L = K \union {known}
    OBVIOUS
  <2>4. PICK was \in Jobs(L, I) : was = job
    BY <2>2, <2>3 DEF Jobs
  <2>5. PICK rows \in Seq(AccountIds) : rows = list
    <3>1. PICK k \in 0 .. 2 : list \in [1 .. k -> AccountIds]
      BY DEF Sessions!Lists
    <3>. QED  BY <3>1
  <2>6. PICK changed \in BOOLEAN : changed = (job.page > 1 /\ (job.changed \/ list # job.list))
    BY Zenon
  <2>7. PICK page \in Nat \ {0} : page = job.page + 1
    BY <2>4 DEF Jobs
  <2>8. PICK listed \in Jobs(L, I) :
          /\ listed = [was EXCEPT !.known = known, !.list = rows, !.page = page, !.changed = changed]
          /\ listed.at = job.at /\ listed.scope = job.scope /\ listed.token = job.token
          /\ listed.logins = job.logins /\ listed.then = job.then /\ listed.retried = job.retried
          /\ listed.page = page /\ listed.known = known /\ listed.list = list /\ listed.changed = changed
          /\ listed.read = job.read
    <3>1. [was EXCEPT !.known = known, !.list = rows, !.page = page, !.changed = changed] \in Jobs(L, I)
      BY <2>3 DEF Jobs
    <3>. QED  BY <2>4, <2>5, <3>1 DEF Jobs
  <2>9. listed = [job EXCEPT !.known = known, !.list = list, !.page = @ + 1,
                           !.changed = job.page > 1 /\ (@ \/ list # job.list)]
    BY <2>4, <2>5, <2>6, <2>7, <2>8
  <2>10. ~changed => \E m \in Nat :
           /\ known = SubSeq(list, 1, m) /\ Len(known) = m
           /\ m = IF job.page * PageSize < Len(list) THEN job.page * PageSize ELSE Len(list)
    <3>1. SUFFICES ASSUME ~changed
          PROVE  /\ (job.page - 1) * PageSize <= Len(list)
                 /\ job.known = SubSeq(list, 1, (job.page - 1) * PageSize)
      <4>1. job.page \in Nat \ {0}
        BY <2>2 DEF Jobs
      <4>2. PICK n \in Nat \ {0} : n = job.page
        BY <4>1
      <4>. QED  BY <2>3, <4>2, PageMakesKnown
    <3>2. CASE job.page = 1
      <4>1. job.known = <<>> /\ (job.page - 1) * PageSize = 0 /\ Len(list) >= 0
        BY <1>0, <2>5, <3>2, PageAssumption DEF PagesAreKnown
      <4>2. SubSeq(list, 1, 0) = <<>>
        BY SubSeqEmpty
      <4>. QED  BY <2>5, <4>1, <4>2
    <3>3. CASE job.page # 1
      <4>1. PICK n \in Nat \ {0} : n = job.page /\ n > 1
        <5>1. PICK n \in Nat \ {0} : n = job.page
          BY <2>2 DEF Jobs
        <5>. QED  BY <3>3, <5>1
      <4>2. ~job.changed /\ list = job.list
        BY <2>6, <3>1, <4>1
      <4>3. PICK k \in Nat : k = (n - 1) * PageSize
        <5>1. n - 1 \in Nat /\ PageSize \in Nat
          BY PageAssumption
        <5>. QED  BY <5>1
      <4>4. Len(list) \in Nat
        BY <2>5
      <4>5. k < Len(list) /\ job.known = SubSeq(list, 1, k)
        BY <1>0, <4>1, <4>2, <4>3 DEF PagesAreKnown
      <4>. QED  BY <4>1, <4>3, <4>4, <4>5
    <3>. QED  BY <3>2, <3>3
  <2>11. CASE /\ Len(known) >= Len(list) /\ job' = [listed EXCEPT !.at = "usage", !.retried = FALSE]
    <3>1. PICK to \in JobStages : to = "usage"
      BY DEF JobStages
    <3>2. job' = [listed EXCEPT !.at = to, !.retried = FALSE]
      BY <2>11, <3>1
    <3>3. /\ job' \in Jobs(L, I) /\ job'.at = "usage" /\ job'.retried = FALSE /\ job'.scope = job.scope
          /\ job'.token = job.token /\ job'.known = known /\ job'.list = list /\ job'.changed = changed
          /\ job'.read = job.read
      BY <2>8, <3>1, <3>2, ZenonT(30) DEF Jobs
    <3>4. Good(job.token)
      BY <1>0 DEF TokensAreOfTheScope
    <3>5. TokensAreOfTheScope'
      BY <1>0, <3>3, <3>4, TokensStandStill DEF SameReadings
    <3>6. LoginsAreTried' /\ PagesAreKnown'
      BY <3>3 DEF LoginsAreTried, PagesAreKnown
    <3>7. ~changed => known = list
      <4>1. SUFFICES ASSUME ~changed PROVE known = list
        OBVIOUS
      <4>2. PICK m \in Nat : known = SubSeq(list, 1, m) /\ Len(known) = m /\ m <= Len(list)
        <5>1. PICK m \in Nat :
                /\ known = SubSeq(list, 1, m) /\ Len(known) = m
                /\ m = IF job.page * PageSize < Len(list) THEN job.page * PageSize ELSE Len(list)
          BY <2>10, <4>1
        <5>2. PICK q : q = job.page * PageSize
          OBVIOUS
        <5>3. Len(list) \in Nat /\ m = IF q < Len(list) THEN q ELSE Len(list)
          BY <2>5, <5>1, <5>2
        <5>4. m <= Len(list)
          BY <5>3
        <5>. QED  BY <5>1, <5>4
      <4>3. m = Len(list)
        BY <2>5, <2>11, <4>2
      <4>. QED  BY <2>5, <4>2, <4>3, SubSeqFull
    <3>8. AccountsAreRead'
      <4>1. job.read = <<>> /\ Len(<<>>) = 0
        BY <1>0 DEF PagesAreKnown
      <4>2. Len(job.read) = 0
        BY <4>1, Zenon
      <4>3. ~changed => Len(job.read) <= Len(known)
        BY <2>5, <3>7, <4>2
      <4>. QED  BY <3>3, <3>7, <4>2, <4>3 DEF AccountsAreRead
    <3>9. SessionTypeOK'
      BY <1>0, <3>3
    <3>. QED  BY <3>5, <3>6, <3>8, <3>9
  <2>12. CASE job' = Sessions!NoJob
    BY <1>0, <2>12, JobEndKeeps
  <2>13. CASE ~(Len(known) >= Len(list)) /\ job' = listed
    <3>1. Good(job.token)
      BY <1>0 DEF TokensAreOfTheScope
    <3>2. TokensAreOfTheScope'
      BY <1>0, <2>8, <2>13, <3>1, TokensStandStill DEF SameReadings
    <3>3. LoginsAreTried' /\ AccountsAreRead'
      BY <1>0, <2>8, <2>13 DEF LoginsAreTried, AccountsAreRead
    <3>4. PagesAreKnown'
      <4>1. page > 1 /\ page - 1 = job.page /\ job.read = <<>>
        <5>1. PICK n \in Nat \ {0} : n = job.page
          BY <2>2 DEF Jobs
        <5>2. page > 1 /\ page - 1 = job.page
          BY <2>7, <5>1
        <5>. QED  BY <1>0, <5>2 DEF PagesAreKnown
      <4>2. ~changed => (page - 1) * PageSize < Len(list) /\ known = SubSeq(list, 1, (page - 1) * PageSize)
        <5>1. SUFFICES ASSUME ~changed
              PROVE  (page - 1) * PageSize < Len(list) /\ known = SubSeq(list, 1, (page - 1) * PageSize)
          OBVIOUS
        <5>2. PICK m \in Nat :
                /\ known = SubSeq(list, 1, m) /\ Len(known) = m
                /\ m = IF job.page * PageSize < Len(list) THEN job.page * PageSize ELSE Len(list)
          BY <2>10, <5>1
        <5>3. Len(list) \in Nat
          BY <2>5
        <5>4. m < Len(list)
          BY <2>13, <5>2, <5>3
        <5>. QED  BY <4>1, <5>2, <5>3, <5>4
      <4>. QED  BY <1>0, <2>8, <2>13, <4>1, <4>2 DEF PagesAreKnown
    <3>5. SessionTypeOK'
      BY <1>0, <2>8, <2>13
    <3>. QED  BY <3>2, <3>3, <3>4, <3>5
  <2>. QED  BY <2>1, <2>3, <2>9, <2>11, <2>12, <2>13 DEF Sessions!Listed
<1>. QED  BY <1>1, <1>2 DEF Sessions!ListAccounts

LEMMA SessionStepKeeps ==
  ASSUME SessionInv, [Sessions!SessionNext]_(Sessions!sessionVars)
  PROVE  SessionInv'
<1>0. config \in ScopeOrNone /\ ScopeOrNone = Scopes \union {Sessions!NoScope}
  BY SessionValues DEF SessionInv, SessionTypeOK, ScopeOrNone
<1>1. CASE UNCHANGED Sessions!sessionVars
  BY <1>0, <1>1, SessionOthersKeep DEF Sessions!sessionVars
<1>2. CASE Sessions!Revoke \/ Sessions!RunOut \/ Sessions!ChangeConfig \/ Sessions!ForgetSession
  BY <1>0, <1>2, SessionOthersKeep
     DEF Sessions!Revoke, Sessions!RunOut, Sessions!ChangeConfig, Sessions!ForgetSession
<1>3. CASE Sessions!EndJob
  BY <1>3, JobEndKeeps DEF Sessions!EndJob
<1>. QED  BY <1>1, <1>2, <1>3, SessionStartKeeps, ConnectKeeps, KeepSessionKeeps, ListingKeeps,
             FetchUsageKeeps, FetchStatsKeeps, PublishKeeps DEF Sessions!SessionNext

LEMMA SessionIsRight ==
  ASSUME SessionInv
  PROVE  Sessions!SnapshotComplete /\ Sessions!RefusedAfterLogin
<1>. USE DEF SessionInv
<1>1. Sessions!RefusedAfterLogin
  BY DEF LoginsAreTried, Sessions!RefusedAfterLogin
<1>2. ASSUME job.at = "done" PROVE
        /\ \A i \in 1 .. Len(job.read) :
             \A t \in {job.read[i].usage, job.read[i].stats} : owner[t] = job.scope
        /\ ~job.changed => [i \in 1 .. Len(job.read) |-> job.read[i].id] = job.list
  <2>1. \A i \in 1 .. Len(job.read) :
          \A t \in {job.read[i].usage, job.read[i].stats} : owner[t] = job.scope
    BY DEF TokensAreOfTheScope, Good
  <2>2. ASSUME ~job.changed PROVE [i \in 1 .. Len(job.read) |-> job.read[i].id] = job.list
    <3>1. /\ job.known = job.list /\ Len(job.read) = Len(job.known)
          /\ \A i \in 1 .. Len(job.read) : job.read[i].id = job.known[i]
      BY <1>2, <2>2 DEF AccountsAreRead
    <3>2. job.list \in Seq(AccountIds)
      BY DEF SessionTypeOK, Jobs
    <3>3. job.list = [i \in 1 .. Len(job.list) |-> job.list[i]]
      BY <3>2
    <3>. QED  BY <3>1, <3>3
  <2>. QED  BY <2>1, <2>2
<1>. QED  BY <1>1, <1>2 DEF Sessions!SnapshotComplete

-----------------------------------------------------------------------------
(* The form of a Sub2API connection                                        *)

Upstreams == {"codex", "claude"}
NamesOrBlank == Names \union {"blank"}
Urls == {Forms!NoUrl, Forms!Typed} \union {Forms!Endpoint(u, n) : u \in Upstreams, n \in NamesOrBlank}
Drafts == [name : NamesOrBlank, custom : BOOLEAN, url : Urls]
FormConnections == [up : Upstreams, draft : Drafts]
Editors ==
  [there : BOOLEAN, shown : FormConnections, open : BOOLEAN, saving : BOOLEAN, up : Upstreams,
   drafts : [Upstreams -> Drafts], failed : BOOLEAN, resolving : BOOLEAN]
Lookups == [up : Upstreams, name : NamesOrBlank, sent : BOOLEAN, current : BOOLEAN]
FormCalls ==
  [kind : {"load", "save", "clear", "delete"}, mine : BOOLEAN, at : {"asked", "done"},
   from : FormConnections, to : FormConnections, before : FormConnections,
   failed : BOOLEAN, alone : BOOLEAN]

FormTypeOK ==
  /\ slot \in FormConnections /\ form \in Editors /\ astray \in BOOLEAN
  /\ lookups \in SUBSET Lookups /\ calls \in SUBSET FormCalls

(* The address in a draft is the one of the provider it names.             *)
Fitting(up, draft) ==
  draft.custom \/ draft.url = Forms!NoUrl \/ draft.url = Forms!Endpoint(up, draft.name)

(* A call that is alone has met no command, nor is it one that met a call. *)
CallsMeet ==
  \A c, d \in calls : c.alone /\ c # d => c.kind = "load" /\ d.kind = "load"

(* The form has at most one command under way, and waits for it.           *)
CallsOfTheForm ==
  /\ \A c \in calls : c.mine => form.there /\ (c.kind # "load" => form.saving)
  /\ \A c, d \in calls : c.mine /\ d.mine /\ c.kind # "load" /\ d.kind # "load" => c = d
  /\ \A c \in calls : c.alone /\ ~c.mine /\ c.kind # "load" => ~form.there

(* What a call that met no other has read or stored is what is there.      *)
AnswersStand ==
  /\ \A c \in calls : c.at = "done" /\ ~c.failed /\ c.alone => c.to = slot
  /\ \A c \in calls : c.kind \in {"clear", "delete"} => c.to = Forms!NotConfigured
  /\ Fitting(slot.up, slot.draft) /\ \A c \in calls : Fitting(c.to.up, c.to.draft)

FormWaits ==
  /\ ~form.there => form = Forms!Gone /\ lookups = {}
  /\ form.resolving => \E l \in lookups : l.current
  /\ \A l \in lookups : l.name # "blank"

(* The drafts fit, and a lookup that counts is for the one that is edited. *)
DraftsFit ==
  /\ \A u \in Upstreams : Fitting(u, form.drafts[u])
  /\ \A l \in lookups : l.current =>
       l.up = form.up /\ form.drafts[l.up].name = l.name /\ ~form.drafts[l.up].custom
ShownFits == Fitting(form.shown.up, form.shown.draft)

(* While a connection is stored, the form shows it, and its draft stays.   *)
SaveFits(c) ==
  /\ Fitting(c.from.up, c.from.draft) /\ Fitting(c.before.up, c.before.draft) /\ form.shown = c.from
  /\ form.drafts[c.from.up].name = c.from.draft.name
  /\ form.drafts[c.from.up].custom = c.from.draft.custom
  /\ \A u \in Upstreams : u # c.from.up => form.drafts[u].name = "blank" /\ ~form.drafts[u].custom
SavesFit == \A c \in calls : c.mine /\ c.kind = "save" => SaveFits(c)

(* What is shown is what is stored, or will be once the calls are answered.*)
LabelFits == label = Forms!Label(slot)
ShowsStored == LabelFits /\ (form.there => form.shown = slot)
OnlyLoads == \A c \in calls : c.kind = "load"
StoredIsShown ==
  OnlyLoads =>
    /\ LabelFits
    /\ form.there => form.shown = slot \/ \E c \in calls : c.mine
CommandFits(c) ==
  IF c.kind = "save" THEN slot = c.before \/ (c.at = "done" /\ slot = c.to)
  ELSE (c.at = "done" /\ slot = c.to) \/ ShowsStored
CommandsFit == \A c \in calls : c.alone /\ c.kind # "load" => CommandFits(c)

FormIsOnCourse ==
  DraftsFit /\ ShownFits /\ SavesFit /\ StoredIsShown /\ CommandsFit

FormInv ==
  /\ FormTypeOK /\ CallsMeet /\ CallsOfTheForm /\ AnswersStand /\ FormWaits
  /\ ~astray => FormIsOnCourse

LEMMA FormValues ==
  /\ Forms!NoUrl \in Urls /\ \A u \in Upstreams, n \in NamesOrBlank : Forms!Endpoint(u, n) \in Urls
  /\ Forms!NoDraft \in Drafts /\ Forms!NoDraft.name = "blank" /\ Forms!NoDraft.custom = FALSE
  /\ Forms!NoDraft.url = Forms!NoUrl
  /\ Forms!NotConfigured \in FormConnections /\ Forms!NotConfigured.up = "codex"
  /\ Forms!NotConfigured.draft = Forms!NoDraft
  /\ Fitting(Forms!NotConfigured.up, Forms!NotConfigured.draft)
<1>1. Forms!NoUrl \in Urls /\ \A u \in Upstreams, n \in NamesOrBlank : Forms!Endpoint(u, n) \in Urls
  BY DEF Urls
<1>2. /\ Forms!NoDraft \in Drafts /\ Forms!NoDraft.name = "blank" /\ Forms!NoDraft.custom = FALSE
      /\ Forms!NoDraft.url = Forms!NoUrl
  BY <1>1 DEF Forms!NoDraft, Forms!Blank, Drafts, NamesOrBlank
<1>. QED  BY <1>1, <1>2 DEF Forms!NotConfigured, Forms!Connection, FormConnections, Upstreams, Fitting

LEMMA FormStates ==
  /\ Forms!Fresh \in Editors /\ Forms!Fresh.there = TRUE /\ Forms!Fresh.resolving = FALSE
  /\ Forms!Fresh.saving = FALSE /\ Forms!Fresh.shown = Forms!NotConfigured
  /\ \A u \in Upstreams : Forms!Fresh.drafts[u] = Forms!NoDraft
  /\ Forms!Gone \in Editors /\ Forms!Gone.there = FALSE /\ Forms!Gone.resolving = FALSE
  /\ Forms!Gone.saving = FALSE /\ Forms!Gone.shown = Forms!NotConfigured
  /\ \A u \in Upstreams : Forms!Gone.drafts[u] = Forms!NoDraft
<1>1. PICK none \in Drafts : none = Forms!NoDraft
  BY FormValues
<1>2. PICK home \in FormConnections : home = Forms!NotConfigured
  BY FormValues
<1>3. Forms!Upstreams = Upstreams
  BY DEF Forms!Upstreams, Upstreams
<1>4. /\ Forms!Fresh \in Editors /\ Forms!Fresh.there = TRUE /\ Forms!Fresh.resolving = FALSE
      /\ Forms!Fresh.saving = FALSE /\ Forms!Fresh.shown = Forms!NotConfigured
      /\ \A u \in Upstreams : Forms!Fresh.drafts[u] = Forms!NoDraft
  BY <1>1, <1>2, <1>3 DEF Forms!Fresh, Editors, Upstreams
<1>. QED  BY <1>4 DEF Forms!Gone, Editors

(* resetEditor() shows the drafts of the connection, and looks up nothing. *)
LEMMA ResetShows ==
  ASSUME NEW f \in Editors, NEW c \in FormConnections
  PROVE  /\ Forms!Reset(f, c) \in Editors
         /\ Forms!Reset(f, c).there = f.there /\ Forms!Reset(f, c).shown = f.shown
         /\ Forms!Reset(f, c).saving = f.saving /\ Forms!Reset(f, c).up = c.up
         /\ Forms!Reset(f, c).resolving = FALSE
         /\ \A u \in Upstreams :
              Forms!Reset(f, c).drafts[u] = IF u = c.up THEN c.draft ELSE Forms!NoDraft
<1>1. PICK none \in Drafts : none = Forms!NoDraft
  BY FormValues
<1>2. Forms!Upstreams = Upstreams
  BY DEF Forms!Upstreams, Upstreams
<1>3. c.up \in Upstreams /\ c.draft \in Drafts
  BY DEF FormConnections
<1>4. PICK drafts \in [Upstreams -> Drafts] :
        drafts = [[u \in Upstreams |-> none] EXCEPT ![c.up] = c.draft]
  BY <1>3
<1>5. Forms!Reset(f, c) = [f EXCEPT !.up = c.up, !.failed = FALSE, !.resolving = FALSE, !.drafts = drafts]
  BY <1>1, <1>2, <1>4 DEF Forms!Reset
<1>6. \A u \in Upstreams : drafts[u] = IF u = c.up THEN c.draft ELSE none
  BY <1>4
<1>. QED  BY <1>1, <1>3, <1>5, <1>6 DEF Editors

(* The process looks up the address that goes with the name.               *)
LEMMA TargetFits ==
  ASSUME NEW up \in Upstreams, NEW draft \in Drafts
  PROVE  /\ Forms!Target(up, draft) \in FormConnections
         /\ Fitting(Forms!Target(up, draft).up, Forms!Target(up, draft).draft)
<1>1. PICK none \in Drafts : none = Forms!NoDraft
  BY FormValues
<1>2. draft.url \in Urls /\ draft.name \in NamesOrBlank
  BY DEF Drafts
<1>3. PICK url \in Urls : url = Forms!Endpoint(up, draft.name)
  BY <1>2, FormValues
<1>4. CASE draft.custom
  <2>0. PICK there \in BOOLEAN, typed \in Urls : there = TRUE /\ typed = draft.url
    BY <1>2
  <2>1. PICK d \in Drafts : d = [none EXCEPT !.custom = there, !.url = typed]
    BY DEF Drafts
  <2>3. d.custom
    BY <2>0, <2>1 DEF Drafts
  <2>2. Forms!Target(up, draft) = [up |-> up, draft |-> d]
    BY <1>1, <1>4, <2>0, <2>1 DEF Forms!Target, Forms!Connection
  <2>4. PICK target \in FormConnections : target = [up |-> up, draft |-> d]
    BY DEF FormConnections
  <2>. QED  BY <2>2, <2>3, <2>4 DEF Fitting
<1>5. CASE ~draft.custom
  <2>1. PICK d \in Drafts : d = [draft EXCEPT !.url = url]
    BY DEF Drafts
  <2>4. d.url = url /\ d.name = draft.name
    BY <2>1 DEF Drafts
  <2>2. Forms!Target(up, draft) = [up |-> up, draft |-> d]
    BY <1>3, <1>5, <2>1 DEF Forms!Target, Forms!Connection
  <2>3. d.url = Forms!Endpoint(up, d.name)
    BY <1>3, <2>4
  <2>5. PICK target \in FormConnections : target = [up |-> up, draft |-> d]
    BY DEF FormConnections
  <2>. QED  BY <2>2, <2>3, <2>5 DEF Fitting
<1>. QED  BY <1>4, <1>5

(* Lookups that are outdated count no more.                                *)
LEMMA OutdatedLookups ==
  ASSUME lookups \in SUBSET Lookups
  PROVE  /\ Forms!Outdated \in SUBSET Lookups
         /\ \A l \in Forms!Outdated : ~l.current /\ \E k \in lookups : l.name = k.name
<1>1. ASSUME NEW l \in Forms!Outdated
      PROVE  l \in Lookups /\ ~l.current /\ \E k \in lookups : l.name = k.name
  <2>1. PICK k \in lookups : l = [k EXCEPT !.current = FALSE]
    BY DEF Forms!Outdated
  <2>2. k \in Lookups
    OBVIOUS
  <2>3. l \in Lookups /\ ~l.current /\ l.name = k.name
    BY <2>1, <2>2 DEF Lookups
  <2>. QED  BY <2>3
<1>. QED  BY <1>1

(* The form is not there when the program is started.                      *)
LEMMA FormBegins ==
  ASSUME Forms!FormInit
  PROVE  FormInv
<1>1. slot \in FormConnections /\ Fitting(slot.up, slot.draft)
  <2>1. CASE slot = Forms!NotConfigured
    BY <2>1, FormValues
  <2>2. CASE slot # Forms!NotConfigured
    <3>1. PICK up \in Upstreams, draft \in {[name |-> n, custom |-> FALSE, url |-> Forms!NoUrl] : n \in Names}
                 \union {[name |-> Forms!Blank, custom |-> TRUE, url |-> Forms!Typed]} :
            slot = Forms!Target(up, draft)
      BY <2>2 DEF Forms!FormInit, Forms!Connections, Forms!Upstreams, Upstreams
    <3>2. draft \in Drafts
      <4>1. Forms!NoUrl \in Urls /\ Forms!Typed \in Urls
        BY DEF Urls
      <4>2. PICK none \in Urls, typed \in Urls : none = Forms!NoUrl /\ typed = Forms!Typed
        BY <4>1
      <4>3. CASE \E n \in Names : draft = [name |-> n, custom |-> FALSE, url |-> none]
        <5>1. PICK n \in NamesOrBlank : draft = [name |-> n, custom |-> FALSE, url |-> none]
          BY <4>3 DEF NamesOrBlank
        <5>. QED  BY <5>1 DEF Drafts
      <4>4. CASE draft = [name |-> "blank", custom |-> TRUE, url |-> typed]
        <5>1. PICK n \in NamesOrBlank : n = "blank"
          BY DEF NamesOrBlank
        <5>. QED  BY <4>4, <5>1 DEF Drafts
      <4>. QED  BY <3>1, <4>2, <4>3, <4>4 DEF Forms!Blank
    <3>. QED  BY <3>1, <3>2, TargetFits
  <2>. QED  BY <2>1, <2>2
<1>2. form = Forms!Gone /\ lookups = {} /\ calls = {} /\ astray = FALSE /\ LabelFits
  BY DEF Forms!FormInit, LabelFits
<1>3. FormTypeOK
  BY <1>1, <1>2, FormStates DEF FormTypeOK
<1>4. CallsMeet /\ CallsOfTheForm /\ AnswersStand /\ FormWaits
  BY <1>1, <1>2, FormStates DEF CallsMeet, CallsOfTheForm, AnswersStand, FormWaits
<1>5. DraftsFit /\ ShownFits
  BY <1>2, FormStates, FormValues DEF DraftsFit, ShownFits, Fitting
<1>6. SavesFit /\ StoredIsShown /\ CommandsFit
  BY <1>2, FormStates DEF SavesFit, StoredIsShown, CommandsFit
<1>. QED  BY <1>3, <1>4, <1>5, <1>6 DEF FormInv, FormIsOnCourse

(* The fields change, and none of the calls.                               *)
LEMMA FieldsKeep ==
  ASSUME FormInv, form.there, slot' = slot, calls' = calls, label' = label, astray' = astray,
         form' \in Editors, form'.there, form'.shown = form.shown, form'.saving = form.saving,
         lookups' \in SUBSET Lookups, \A l \in lookups' : l.name # "blank",
         form'.resolving => \E l \in lookups' : l.current,
         FormIsOnCourse => DraftsFit' /\ SavesFit'
  PROVE  FormInv'
<1>1. FormTypeOK'
  BY DEF FormInv, FormTypeOK
<1>2. CallsMeet'
  BY DEF FormInv, CallsMeet
<1>3. CallsOfTheForm'
  BY DEF FormInv, CallsOfTheForm
<1>4. AnswersStand'
  BY DEF FormInv, AnswersStand
<1>5. FormWaits'
  BY DEF FormWaits
<1>6. ASSUME ~astray'
      PROVE  FormIsOnCourse'
  <2>1. FormIsOnCourse
    BY <1>6 DEF FormInv
  <2>2. ShownFits' /\ StoredIsShown'
    BY <2>1 DEF FormIsOnCourse, ShownFits, StoredIsShown, OnlyLoads, LabelFits
  <2>3. CommandsFit'
    <3>1. ASSUME NEW c \in calls, c.alone, c.kind # "load"
          PROVE  CommandFits(c)'
      BY <2>1, <3>1 DEF FormIsOnCourse, CommandsFit, CommandFits, ShowsStored, LabelFits
    <3>. QED  BY <3>1 DEF CommandsFit
  <2>. QED  BY <2>1, <2>2, <2>3 DEF FormIsOnCourse
<1>. QED  BY <1>1, <1>2, <1>3, <1>4, <1>5, <1>6 DEF FormInv

(* The drafts keep their names, so the one being stored is still there.    *)
LEMMA SameNamesKeepSaves ==
  ASSUME FormInv, FormIsOnCourse, calls' = calls, form'.shown = form.shown,
         \/ ~form.saving
         \/ \A u \in Upstreams : /\ form'.drafts[u].name = form.drafts[u].name
                                 /\ form'.drafts[u].custom = form.drafts[u].custom
  PROVE  SavesFit'
<1>1. ASSUME NEW c \in calls, c.mine, c.kind = "save"
      PROVE  SaveFits(c)'
  <2>1. form.saving /\ SaveFits(c) /\ c.from.up \in Upstreams
    BY <1>1 DEF FormInv, CallsOfTheForm, FormIsOnCourse, SavesFit, FormTypeOK, FormCalls, FormConnections
  <2>. QED  BY <2>1 DEF SaveFits
<1>. QED  BY <1>1 DEF SavesFit

LEMMA TogglingKeeps ==
  ASSUME FormInv, Forms!ToggleEditor
  PROVE  FormInv'
<1>0. /\ form.there /\ slot' = slot /\ calls' = calls /\ label' = label /\ astray' = astray
      /\ lookups' = Forms!Outdated /\ form \in Editors /\ lookups \in SUBSET Lookups
  BY DEF Forms!ToggleEditor, FormInv, FormTypeOK
<1>1. lookups' \in SUBSET Lookups /\ \A l \in lookups' : ~l.current /\ l.name # "blank"
  BY <1>0, OutdatedLookups DEF FormInv, FormWaits
<1>2. form.shown \in FormConnections /\ form.shown.up \in Upstreams
  BY <1>0 DEF Editors, FormConnections
<1>3. /\ form' \in Editors /\ form'.there /\ form'.shown = form.shown /\ form'.saving = form.saving
      /\ form'.resolving = FALSE
      /\ \/ form'.drafts = form.drafts
         \/ \A u \in Upstreams :
              form'.drafts[u] = IF u = form.shown.up THEN form.shown.draft ELSE Forms!NoDraft
  <2>1. CASE form.open
    <3>1. form' = [form EXCEPT !.open = FALSE, !.resolving = FALSE]
      BY <2>1 DEF Forms!ToggleEditor
    <3>. QED  BY <1>0, <3>1 DEF Editors
  <2>2. CASE ~form.open
    <3>1. PICK f \in Editors : f = [form EXCEPT !.open = TRUE]
      BY <1>0 DEF Editors
    <3>2. f.there = form.there /\ f.shown = form.shown /\ f.saving = form.saving
      BY <1>0, <3>1 DEF Editors
    <3>3. form' = Forms!Reset(f, form.shown)
      BY <2>2, <3>1 DEF Forms!ToggleEditor
    <3>. QED  BY <1>0, <1>2, <3>2, <3>3, ResetShows, ZenonT(30)
  <2>. QED  BY <2>1, <2>2
<1>4. ASSUME FormIsOnCourse
      PROVE  DraftsFit' /\ SavesFit'
  <2>1. DraftsFit'
    BY <1>1, <1>3, <1>4, FormValues DEF FormIsOnCourse, DraftsFit, ShownFits, Fitting
  <2>2. ASSUME NEW c \in calls, c.mine, c.kind = "save"
        PROVE  SaveFits(c)'
    <3>1. SaveFits(c) /\ form.shown = c.from /\ c.from.up \in Upstreams
      BY <1>2, <1>4, <2>2 DEF FormIsOnCourse, SavesFit, SaveFits
    <3>. QED  BY <1>3, <3>1, FormValues DEF SaveFits
  <2>. QED  BY <1>0, <2>1, <2>2 DEF SavesFit
<1>. QED  BY <1>0, <1>1, <1>3, <1>4, FieldsKeep

(* What becomes of the drafts when a name is looked up, or not.            *)
LEMMA NamingIs ==
  ASSUME NEW f \in Editors, NEW name \in NamesOrBlank, lookups \in SUBSET Lookups,
         \A l \in lookups : l.name # "blank", Forms!Naming(f, name)
  PROVE  /\ form' \in Editors /\ form'.there = f.there /\ form'.shown = f.shown
         /\ form'.saving = f.saving /\ form'.up = f.up
         /\ \A u \in Upstreams : u # f.up => form'.drafts[u] = f.drafts[u]
         /\ form'.drafts[f.up].name = name /\ form'.drafts[f.up].custom = FALSE
         /\ form'.drafts[f.up].url = Forms!NoUrl
         /\ lookups' \in SUBSET Lookups /\ \A l \in lookups' : l.name # "blank"
         /\ \A l \in lookups' : l.current => l.up = f.up /\ l.name = name
         /\ form'.resolving => \E l \in lookups' : l.current
<1>1. PICK none \in Drafts : none = Forms!NoDraft
  BY FormValues
<1>2. none.custom = FALSE /\ none.url = Forms!NoUrl
  BY <1>1, FormValues
<1>3. PICK draft \in Drafts : draft = [none EXCEPT !.name = name]
  BY DEF Drafts
<1>4. draft.name = name /\ draft.custom = FALSE /\ draft.url = Forms!NoUrl
  BY <1>2, <1>3 DEF Drafts
<1>5. f.up \in Upstreams /\ f.drafts \in [Upstreams -> Drafts]
  BY DEF Editors
<1>6. PICK asks \in BOOLEAN : asks <=> name # "blank"
  OBVIOUS
<1>7. PICK drafts \in [Upstreams -> Drafts] : drafts = [f.drafts EXCEPT ![f.up] = draft]
  BY <1>5
<1>8. form' = [f EXCEPT !.drafts = drafts, !.failed = FALSE, !.resolving = asks]
  BY <1>1, <1>3, <1>6, <1>7 DEF Forms!Naming, Forms!Blank
<1>9. /\ form' \in Editors /\ form'.there = f.there /\ form'.shown = f.shown /\ form'.saving = f.saving
      /\ form'.up = f.up /\ form'.drafts = drafts /\ form'.resolving = asks
  BY <1>8 DEF Editors
<1>10. drafts[f.up] = draft /\ \A u \in Upstreams : u # f.up => drafts[u] = f.drafts[u]
  BY <1>5, <1>7
<1>15. PICK up \in Upstreams, sent \in BOOLEAN, yes \in BOOLEAN :
         up = f.up /\ sent = FALSE /\ yes = TRUE
  BY <1>5
<1>16. PICK l \in Lookups : l = [up |-> up, name |-> name, sent |-> sent, current |-> yes]
  BY DEF Lookups
<1>11. l.up = f.up /\ l.name = name /\ l.current
  BY <1>15, <1>16 DEF Lookups
<1>12. lookups' = Forms!Outdated \union IF asks THEN {l} ELSE {}
  BY <1>6, <1>15, <1>16 DEF Forms!Naming, Forms!Blank
<1>13. /\ Forms!Outdated \in SUBSET Lookups
       /\ \A k \in Forms!Outdated : ~k.current /\ k.name # "blank"
  BY OutdatedLookups
<1>14. /\ lookups' \in SUBSET Lookups /\ \A k \in lookups' : k.name # "blank"
       /\ \A k \in lookups' : k.current => k.up = f.up /\ k.name = name
       /\ asks => \E k \in lookups' : k.current
  BY <1>6, <1>11, <1>12, <1>13
<1>. QED  BY <1>4, <1>9, <1>10, <1>14

LEMMA TypingNameKeeps ==
  ASSUME FormInv, Forms!TypeName
  PROVE  FormInv'
<1>0. /\ form.there /\ ~form.saving /\ slot' = slot /\ calls' = calls /\ label' = label
      /\ astray' = astray /\ form \in Editors /\ lookups \in SUBSET Lookups /\ form.up \in Upstreams
      /\ \A l \in lookups : l.name # "blank"
  BY DEF Forms!TypeName, Forms!Editing, FormInv, FormTypeOK, FormWaits, Editors
<1>1. PICK name \in NamesOrBlank : Forms!Naming(form, name)
  BY DEF Forms!TypeName, NamesOrBlank, Forms!Blank
<1>2. /\ form' \in Editors /\ form'.there = form.there /\ form'.shown = form.shown
      /\ form'.saving = form.saving /\ form'.up = form.up
      /\ \A u \in Upstreams : u # form.up => form'.drafts[u] = form.drafts[u]
      /\ form'.drafts[form.up].name = name /\ form'.drafts[form.up].custom = FALSE
      /\ form'.drafts[form.up].url = Forms!NoUrl
      /\ lookups' \in SUBSET Lookups /\ \A l \in lookups' : l.name # "blank"
      /\ \A l \in lookups' : l.current => l.up = form.up /\ l.name = name
      /\ form'.resolving => \E l \in lookups' : l.current
  BY <1>0, <1>1, NamingIs
<1>3. ASSUME FormIsOnCourse
      PROVE  DraftsFit' /\ SavesFit'
  <2>1. DraftsFit'
    BY <1>2, <1>3 DEF FormIsOnCourse, DraftsFit, Fitting
  <2>2. SavesFit'
    BY <1>0, <1>2, <1>3, SameNamesKeepSaves
  <2>. QED  BY <2>1, <2>2
<1>. QED  BY <1>0, <1>2, <1>3, FieldsKeep

LEMMA SelectingKeeps ==
  ASSUME FormInv, Forms!SelectUpstream
  PROVE  FormInv'
<1>0. /\ form.there /\ slot' = slot /\ calls' = calls /\ label' = label
      /\ astray' = astray /\ form \in Editors /\ lookups \in SUBSET Lookups /\ form.up \in Upstreams
      /\ \A l \in lookups : l.name # "blank"
  BY DEF Forms!SelectUpstream, Forms!Editing, FormInv, FormTypeOK, FormWaits, Editors
<1>1. PICK up \in Upstreams : up = CHOOSE u \in Forms!Upstreams : u # form.up
  <2>1. \E u \in Forms!Upstreams : u # form.up
    BY DEF Forms!Upstreams
  <2>2. (CHOOSE u \in Forms!Upstreams : u # form.up) \in Forms!Upstreams
    BY <2>1
  <2>. QED  BY <2>2 DEF Forms!Upstreams, Upstreams
<1>2. PICK next \in Editors : next = [form EXCEPT !.up = up, !.failed = FALSE, !.resolving = FALSE]
  BY <1>0 DEF Editors
<1>3. /\ next.there = form.there /\ next.shown = form.shown /\ next.saving = form.saving
      /\ next.up = up /\ next.drafts = form.drafts /\ next.resolving = FALSE
  BY <1>0, <1>2 DEF Editors
<1>4. form.drafts[up] \in Drafts /\ form.drafts[up].name \in NamesOrBlank /\ form.drafts[up].custom \in BOOLEAN
  BY <1>0 DEF Editors, Drafts
<1>5. CASE form.drafts[up].custom \/ form.drafts[up].name = "blank"
  <2>1. form' = next /\ lookups' = Forms!Outdated
    BY <1>1, <1>2, <1>5 DEF Forms!SelectUpstream, Forms!Blank
  <2>2. lookups' \in SUBSET Lookups /\ \A l \in lookups' : ~l.current /\ l.name # "blank"
    BY <1>0, <2>1, OutdatedLookups
  <2>3. ASSUME FormIsOnCourse
        PROVE  DraftsFit' /\ SavesFit'
    <3>1. DraftsFit'
      BY <1>3, <2>1, <2>2, <2>3 DEF FormIsOnCourse, DraftsFit
    <3>2. SavesFit'
      BY <1>0, <1>3, <2>1, <2>3, SameNamesKeepSaves
    <3>. QED  BY <3>1, <3>2
  <2>. QED  BY <1>0, <1>3, <2>1, <2>2, <2>3, FieldsKeep
<1>6. CASE ~(form.drafts[up].custom \/ form.drafts[up].name = "blank")
  <2>0. PICK name \in NamesOrBlank : name = form.drafts[up].name
    BY <1>4
  <2>1. Forms!Naming(next, name)
    BY <1>1, <1>2, <1>6, <2>0 DEF Forms!SelectUpstream, Forms!Blank
  <2>2. /\ form' \in Editors /\ form'.there = next.there /\ form'.shown = next.shown
        /\ form'.saving = next.saving /\ form'.up = next.up
        /\ \A u \in Upstreams : u # next.up => form'.drafts[u] = next.drafts[u]
        /\ form'.drafts[next.up].name = name /\ form'.drafts[next.up].custom = FALSE
        /\ form'.drafts[next.up].url = Forms!NoUrl
        /\ lookups' \in SUBSET Lookups /\ \A l \in lookups' : l.name # "blank"
        /\ \A l \in lookups' : l.current => l.up = next.up /\ l.name = name
        /\ form'.resolving => \E l \in lookups' : l.current
    BY <1>0, <2>1, NamingIs
  <2>3. ASSUME FormIsOnCourse
        PROVE  DraftsFit' /\ SavesFit'
    <3>1. DraftsFit'
      BY <1>3, <2>2, <2>3 DEF FormIsOnCourse, DraftsFit, Fitting
    <3>2. \A u \in Upstreams : /\ form'.drafts[u].name = form.drafts[u].name
                               /\ form'.drafts[u].custom = form.drafts[u].custom
      BY <1>3, <1>4, <1>6, <2>0, <2>2
    <3>3. SavesFit'
      BY <1>0, <1>3, <2>2, <2>3, <3>2, SameNamesKeepSaves
    <3>. QED  BY <3>1, <3>3
  <2>. QED  BY <1>0, <1>3, <2>2, <2>3, FieldsKeep
<1>. QED  BY <1>5, <1>6

LEMMA SettingCustomKeeps ==
  ASSUME FormInv, Forms!SetCustomBaseUrl
  PROVE  FormInv'
<1>0. /\ form.there /\ ~form.saving /\ slot' = slot /\ calls' = calls /\ label' = label
      /\ astray' = astray /\ form \in Editors /\ lookups \in SUBSET Lookups /\ form.up \in Upstreams
      /\ \A l \in lookups : l.name # "blank"
  BY DEF Forms!SetCustomBaseUrl, Forms!Editing, FormInv, FormTypeOK, FormWaits, Editors
<1>11. lookups' = Forms!Outdated
  BY DEF Forms!SetCustomBaseUrl
<1>1. lookups' \in SUBSET Lookups /\ \A l \in lookups' : ~l.current /\ l.name # "blank"
  BY <1>0, <1>11, OutdatedLookups
<1>2. PICK none \in Drafts : none = Forms!NoDraft /\ none.url = Forms!NoUrl
  BY FormValues
<1>3. form.drafts \in [Upstreams -> Drafts] /\ form.drafts[form.up].custom \in BOOLEAN
  BY <1>0 DEF Editors, Drafts
<1>4. PICK custom \in BOOLEAN : custom = ~form.drafts[form.up].custom
  BY <1>3
<1>5. PICK draft \in Drafts : draft = [none EXCEPT !.custom = custom]
  BY DEF Drafts
<1>6. draft.url = Forms!NoUrl
  BY <1>2, <1>5 DEF Drafts
<1>7. PICK drafts \in [Upstreams -> Drafts] : drafts = [form.drafts EXCEPT ![form.up] = draft]
  BY <1>3
<1>8. form' = [form EXCEPT !.drafts = drafts, !.failed = FALSE, !.resolving = FALSE]
  BY <1>2, <1>4, <1>5, <1>7 DEF Forms!SetCustomBaseUrl, Forms!Draft
<1>9. /\ form' \in Editors /\ form'.there /\ form'.shown = form.shown
      /\ form'.saving = form.saving /\ form'.drafts = drafts /\ form'.resolving = FALSE
  BY <1>0, <1>8 DEF Editors
<1>10. ASSUME FormIsOnCourse
       PROVE  DraftsFit' /\ SavesFit'
  <2>1. \A u \in Upstreams : drafts[u] = IF u = form.up THEN draft ELSE form.drafts[u]
    BY <1>0, <1>3, <1>7
  <2>2. DraftsFit'
    BY <1>1, <1>6, <1>9, <1>10, <2>1 DEF FormIsOnCourse, DraftsFit, Fitting
  <2>3. SavesFit'
    BY <1>0, <1>9, <1>10, SameNamesKeepSaves
  <2>. QED  BY <2>2, <2>3
<1>. QED  BY <1>0, <1>1, <1>9, <1>10, FieldsKeep

LEMMA TypingUrlKeeps ==
  ASSUME FormInv, Forms!TypeUrl
  PROVE  FormInv'
<1>0. /\ form.there /\ ~form.saving /\ slot' = slot /\ calls' = calls /\ label' = label
      /\ astray' = astray /\ form \in Editors /\ lookups \in SUBSET Lookups /\ form.up \in Upstreams
      /\ lookups' = lookups /\ form.drafts[form.up].custom
  BY DEF Forms!TypeUrl, Forms!Editing, Forms!Draft, FormInv, FormTypeOK, Editors
<1>1. /\ \A l \in lookups : l.name # "blank"
      /\ form.resolving => \E l \in lookups : l.current
  BY DEF FormInv, FormWaits
<1>2. PICK url \in Urls : form' = [form EXCEPT !.drafts[form.up].url = url]
  <2>1. Forms!NoUrl \in Urls /\ Forms!Typed \in Urls
    BY DEF Urls
  <2>. QED  BY <2>1 DEF Forms!TypeUrl
<1>3. form.drafts \in [Upstreams -> Drafts] /\ form.drafts[form.up] \in Drafts
  BY <1>0 DEF Editors
<1>5. PICK draft \in Drafts : draft = [form.drafts[form.up] EXCEPT !.url = url]
  BY <1>3 DEF Drafts
<1>6. draft.name = form.drafts[form.up].name /\ draft.custom = form.drafts[form.up].custom
  BY <1>3, <1>5 DEF Drafts
<1>7. PICK drafts \in [Upstreams -> Drafts] : drafts = [form.drafts EXCEPT ![form.up] = draft]
  BY <1>3
<1>8. form' = [form EXCEPT !.drafts = drafts]
  BY <1>0, <1>2, <1>3, <1>5, <1>7 DEF Editors
<1>9. /\ form' \in Editors /\ form'.there /\ form'.shown = form.shown /\ form'.up = form.up
      /\ form'.saving = form.saving /\ form'.drafts = drafts /\ form'.resolving = form.resolving
  BY <1>0, <1>8 DEF Editors
<1>10. ASSUME FormIsOnCourse
       PROVE  DraftsFit' /\ SavesFit'
  <2>1. \A u \in Upstreams : drafts[u] = IF u = form.up THEN draft ELSE form.drafts[u]
    BY <1>0, <1>3, <1>7
  <2>2. DraftsFit'
    BY <1>0, <1>6, <1>9, <1>10, <2>1 DEF FormIsOnCourse, DraftsFit, Fitting
  <2>3. SavesFit'
    BY <1>0, <1>9, <1>10, SameNamesKeepSaves
  <2>. QED  BY <2>2, <2>3
<1>. QED  BY <1>0, <1>1, <1>9, <1>10, FieldsKeep

LEMMA SendingKeeps ==
  ASSUME FormInv, Forms!SendLookup
  PROVE  FormInv'
<1>0. /\ slot' = slot /\ calls' = calls /\ label' = label /\ form' = form
      /\ astray' = astray /\ form \in Editors /\ lookups \in SUBSET Lookups
  BY DEF Forms!SendLookup, FormInv, FormTypeOK
<1>1. PICK l \in lookups : lookups' = (lookups \ {l}) \union {[l EXCEPT !.sent = TRUE]}
  BY DEF Forms!SendLookup
<1>2. form.there
  BY <1>1 DEF FormInv, FormWaits
<1>3. PICK yes \in BOOLEAN : yes = TRUE
  OBVIOUS
<1>4. l \in Lookups
  BY <1>0, <1>1
<1>5. PICK k \in Lookups : k = [l EXCEPT !.sent = yes]
  BY <1>4 DEF Lookups
<1>6. k.up = l.up /\ k.name = l.name /\ k.current = l.current
  BY <1>4, <1>5 DEF Lookups
<1>7. lookups' = (lookups \ {l}) \union {k}
  BY <1>1, <1>3, <1>5
<1>8. /\ lookups' \in SUBSET Lookups /\ \A m \in lookups' : m.name # "blank"
      /\ form'.resolving => \E m \in lookups' : m.current
  BY <1>0, <1>1, <1>6, <1>7 DEF FormInv, FormWaits
<1>9. ASSUME FormIsOnCourse
      PROVE  DraftsFit' /\ SavesFit'
  <2>1. DraftsFit'
    BY <1>0, <1>1, <1>6, <1>7, <1>9 DEF FormIsOnCourse, DraftsFit
  <2>2. SavesFit'
    BY <1>0, <1>9, SameNamesKeepSaves
  <2>. QED  BY <2>1, <2>2
<1>. QED  BY <1>0, <1>2, <1>8, <1>9, FieldsKeep

LEMMA AnsweredLookupKeeps ==
  ASSUME FormInv, Forms!LookupEnds
  PROVE  FormInv'
<1>0. /\ slot' = slot /\ calls' = calls /\ label' = label
      /\ astray' = astray /\ form \in Editors /\ lookups \in SUBSET Lookups /\ form.up \in Upstreams
  BY DEF Forms!LookupEnds, FormInv, FormTypeOK, Editors
<1>1. PICK l \in lookups : /\ lookups' = lookups \ {l}
                           /\ form' \in IF l.current THEN {Forms!Found(l), Forms!NotFound} ELSE {form}
  BY DEF Forms!LookupEnds
<1>2. form.there /\ \A k \in lookups : k.name # "blank"
  BY <1>1 DEF FormInv, FormWaits
<1>3. lookups' \in SUBSET Lookups /\ \A k \in lookups' : k.name # "blank" /\ k \in lookups
  BY <1>0, <1>1, <1>2
<1>4. CASE ~l.current
  <2>1. form' = form
    BY <1>1, <1>4
  <2>2. form'.resolving => \E k \in lookups' : k.current
    BY <1>1, <1>4, <2>1 DEF FormInv, FormWaits
  <2>3. ASSUME FormIsOnCourse
        PROVE  DraftsFit' /\ SavesFit'
    <3>1. DraftsFit'
      BY <1>3, <2>1, <2>3 DEF FormIsOnCourse, DraftsFit
    <3>2. SavesFit'
      BY <1>0, <2>1, <2>3, SameNamesKeepSaves
    <3>. QED  BY <3>1, <3>2
  <2>. QED  BY <1>0, <1>2, <1>3, <2>1, <2>2, <2>3, FieldsKeep
<1>5. CASE l.current /\ form' = Forms!NotFound
  <2>1. form' = [form EXCEPT !.failed = TRUE, !.resolving = FALSE]
    BY <1>5 DEF Forms!NotFound
  <2>2. /\ form' \in Editors /\ form'.there /\ form'.shown = form.shown /\ form'.up = form.up
        /\ form'.saving = form.saving /\ form'.drafts = form.drafts /\ form'.resolving = FALSE
    BY <1>0, <1>2, <2>1 DEF Editors
  <2>3. ASSUME FormIsOnCourse
        PROVE  DraftsFit' /\ SavesFit'
    <3>1. DraftsFit'
      BY <1>3, <2>2, <2>3 DEF FormIsOnCourse, DraftsFit
    <3>2. SavesFit'
      BY <1>0, <2>2, <2>3, SameNamesKeepSaves
    <3>. QED  BY <3>1, <3>2
  <2>. QED  BY <1>0, <1>2, <1>3, <2>2, <2>3, FieldsKeep
<1>6. CASE l.current /\ form' = Forms!Found(l)
  <2>0. l.up \in Upstreams /\ l.name \in NamesOrBlank
    BY <1>0, <1>1 DEF Lookups
  <2>1. PICK url \in Urls : url = Forms!Endpoint(l.up, l.name)
    BY <2>0, FormValues
  <2>2. form.drafts \in [Upstreams -> Drafts] /\ form.drafts[form.up] \in Drafts
    BY <1>0 DEF Editors
  <2>3. PICK draft \in Drafts : draft = [form.drafts[form.up] EXCEPT !.url = url]
    BY <2>2 DEF Drafts
  <2>4. /\ draft.name = form.drafts[form.up].name /\ draft.custom = form.drafts[form.up].custom
        /\ draft.url = url
    BY <2>2, <2>3 DEF Drafts
  <2>5. PICK drafts \in [Upstreams -> Drafts] : drafts = [form.drafts EXCEPT ![form.up] = draft]
    BY <2>2
  <2>6. form' = [form EXCEPT !.drafts = drafts, !.resolving = FALSE]
    BY <1>0, <1>6, <2>1, <2>2, <2>3, <2>5 DEF Forms!Found, Editors
  <2>7. /\ form' \in Editors /\ form'.there /\ form'.shown = form.shown /\ form'.up = form.up
        /\ form'.saving = form.saving /\ form'.drafts = drafts /\ form'.resolving = FALSE
    BY <1>0, <1>2, <2>6 DEF Editors
  <2>8. \A u \in Upstreams : drafts[u] = IF u = form.up THEN draft ELSE form.drafts[u]
    BY <1>0, <2>2, <2>5
  <2>9. ASSUME FormIsOnCourse
        PROVE  DraftsFit' /\ SavesFit'
    <3>1. l.up = form.up /\ form.drafts[l.up].name = l.name
      BY <1>1, <1>6, <2>9 DEF FormIsOnCourse, DraftsFit
    <3>5. draft.url = Forms!Endpoint(form.up, draft.name)
      BY <2>1, <2>4, <3>1
    <3>6. \A u \in Upstreams : Fitting(u, form'.drafts[u])
      BY <2>7, <2>8, <2>9, <3>5 DEF FormIsOnCourse, DraftsFit, Fitting
    <3>7. \A k \in lookups' : k.current =>
            k.up = form'.up /\ form'.drafts[k.up].name = k.name /\ ~form'.drafts[k.up].custom
      BY <1>0, <1>3, <2>4, <2>7, <2>8, <2>9 DEF FormIsOnCourse, DraftsFit
    <3>2. DraftsFit'
      BY <3>6, <3>7 DEF DraftsFit
    <3>3. \A u \in Upstreams : /\ form'.drafts[u].name = form.drafts[u].name
                               /\ form'.drafts[u].custom = form.drafts[u].custom
      BY <2>4, <2>7, <2>8
    <3>4. SavesFit'
      BY <1>0, <2>7, <2>9, <3>3, SameNamesKeepSaves
    <3>. QED  BY <3>2, <3>4
  <2>. QED  BY <1>0, <1>2, <1>3, <2>7, <2>9, FieldsKeep
<1>. QED  BY <1>1, <1>4, <1>5, <1>6

(* A command that is alone is the only call under way.                     *)
LEMMA AloneCommand ==
  ASSUME FormInv, NEW c \in calls, c.alone, c.kind # "load"
  PROVE  calls = {c}
BY DEF FormInv, CallsMeet

(* The process answers a call: what is stored is what it was to be.        *)
LEMMA PerformingKeeps ==
  ASSUME FormInv, Forms!Perform
  PROVE  FormInv'
<1>0. /\ form' = form /\ lookups' = lookups /\ label' = label /\ astray' = astray
      /\ slot \in FormConnections /\ form \in Editors /\ lookups \in SUBSET Lookups
      /\ calls \in SUBSET FormCalls /\ astray \in BOOLEAN
  BY DEF Forms!Perform, Forms!PerformLoad, Forms!PerformCommand, FormInv, FormTypeOK
<1>1. PICK c \in calls, to \in FormConnections, failed \in BOOLEAN :
        /\ c.at = "asked"
        /\ calls' = (calls \ {c}) \union {[c EXCEPT !.at = "done", !.to = to, !.failed = failed]}
        /\ \/ c.kind = "load" /\ slot' = slot /\ to = slot
           \/ c.kind # "load" /\ to = c.to /\ slot' = c.to
           \/ c.kind # "load" /\ to = c.to /\ slot' = slot /\ failed
  <2>1. PICK c \in calls : Forms!PerformLoad(c) \/ Forms!PerformCommand(c)
    BY DEF Forms!Perform
  <2>2. c.to \in FormConnections
    BY <1>0 DEF FormCalls
  <2>3. PICK yes \in BOOLEAN : yes = TRUE
    OBVIOUS
  <2>4. CASE Forms!PerformLoad(c)
    BY <1>0, <2>4 DEF Forms!PerformLoad, Forms!Performed
  <2>5. CASE Forms!PerformCommand(c)
    <3>1. c.at = "asked" /\ c.kind # "load"
      BY <2>5 DEF Forms!PerformCommand, Forms!IsCommand
    <3>2. \/ slot' = c.to /\ \E failed \in BOOLEAN : Forms!Performed(c, c.to, failed)
          \/ slot' = slot /\ Forms!Performed(c, c.to, yes)
      BY <2>3, <2>5 DEF Forms!PerformCommand
    <3>3. CASE slot' = c.to /\ \E failed \in BOOLEAN : Forms!Performed(c, c.to, failed)
      BY <2>2, <3>1, <3>3 DEF Forms!Performed
    <3>4. CASE slot' = slot /\ Forms!Performed(c, c.to, yes)
      BY <2>2, <2>3, <3>1, <3>4 DEF Forms!Performed
    <3>. QED  BY <3>2, <3>3, <3>4
  <2>. QED  BY <2>1, <2>4, <2>5
<1>2. c \in FormCalls
  BY <1>0
<1>3. PICK done \in {"asked", "done"} : done = "done"
  OBVIOUS
<1>4. PICK d \in FormCalls : d = [c EXCEPT !.at = done, !.to = to, !.failed = failed]
  BY <1>2 DEF FormCalls
<1>5. /\ d.kind = c.kind /\ d.mine = c.mine /\ d.from = c.from /\ d.before = c.before
      /\ d.alone = c.alone /\ d.at = "done" /\ d.to = to /\ d.failed = failed
  BY <1>2, <1>3, <1>4 DEF FormCalls
<1>6. calls' = (calls \ {c}) \union {d}
  BY <1>1, <1>3, <1>4
<1>7. \A e \in calls' : e = d \/ (e \in calls /\ e # c)
  BY <1>6
<1>8. FormTypeOK' /\ slot' \in FormConnections
  <2>1. slot' \in FormConnections /\ calls' \in SUBSET FormCalls
    BY <1>0, <1>1, <1>6
  <2>. QED  BY <1>0, <2>1 DEF FormTypeOK
<1>9. CallsMeet'
  BY <1>5, <1>7 DEF FormInv, CallsMeet
<1>10. CallsOfTheForm'
  <2>1. \A e \in calls' : e.mine => form'.there /\ (e.kind # "load" => form'.saving)
    BY <1>0, <1>5, <1>7 DEF FormInv, CallsOfTheForm
  <2>2. \A e, g \in calls' : e.mine /\ g.mine /\ e.kind # "load" /\ g.kind # "load" => e = g
    BY <1>5, <1>7 DEF FormInv, CallsOfTheForm
  <2>3. \A e \in calls' : e.alone /\ ~e.mine /\ e.kind # "load" => ~form'.there
    BY <1>0, <1>5, <1>7 DEF FormInv, CallsOfTheForm
  <2>. QED  BY <2>1, <2>2, <2>3 DEF CallsOfTheForm
<1>11. AnswersStand'
  <2>1. ASSUME NEW e \in calls', e.at = "done", ~e.failed, e.alone
        PROVE  e.to = slot'
    <3>1. CASE e = d
      BY <1>1, <1>5, <2>1, <3>1
    <3>2. CASE e \in calls /\ e # c
      <4>1. c.kind = "load"
        BY <2>1, <3>2 DEF FormInv, CallsMeet
      <4>. QED  BY <1>1, <2>1, <3>2, <4>1 DEF FormInv, AnswersStand
    <3>. QED  BY <1>7, <3>1, <3>2
  <2>2. \A e \in calls' : e.kind \in {"clear", "delete"} => e.to = Forms!NotConfigured
    BY <1>1, <1>5, <1>7 DEF FormInv, AnswersStand
  <2>3. Fitting(slot'.up, slot'.draft) /\ \A e \in calls' : Fitting(e.to.up, e.to.draft)
    BY <1>1, <1>5, <1>7 DEF FormInv, AnswersStand
  <2>. QED  BY <2>1, <2>2, <2>3 DEF AnswersStand
<1>12. FormWaits'
  BY <1>0 DEF FormInv, FormWaits
<1>13. ASSUME ~astray'
       PROVE  FormIsOnCourse'
  <2>1. FormIsOnCourse
    BY <1>0, <1>13 DEF FormInv
  <2>2. DraftsFit' /\ ShownFits'
    BY <1>0, <2>1 DEF FormIsOnCourse, DraftsFit, ShownFits
  <2>3. SavesFit'
    <3>1. ASSUME NEW e \in calls', e.mine, e.kind = "save"
          PROVE  SaveFits(e)'
      <4>1. PICK g \in calls : g.mine /\ g.kind = "save" /\ g.from = e.from /\ g.before = e.before
        BY <1>5, <1>7, <3>1
      <4>. QED  BY <1>0, <2>1, <4>1 DEF FormIsOnCourse, SavesFit, SaveFits
    <3>. QED  BY <3>1 DEF SavesFit
  <2>4. StoredIsShown'
    <3>1. ASSUME OnlyLoads'
          PROVE  slot' = slot /\ OnlyLoads
      BY <1>1, <1>5, <1>6, <1>7, <3>1 DEF OnlyLoads
    <3>2. (\E e \in calls : e.mine) => \E e \in calls' : e.mine
      BY <1>5, <1>6
    <3>. QED  BY <1>0, <2>1, <3>1, <3>2 DEF FormIsOnCourse, StoredIsShown, LabelFits
  <2>5. ASSUME NEW e \in calls', e.alone, e.kind # "load"
        PROVE  CommandFits(e)'
    <3>1. e = d
      BY <1>7, <2>5 DEF FormInv, CallsMeet
    <3>2. CommandFits(c)
      BY <1>5, <2>1, <2>5, <3>1 DEF FormIsOnCourse, CommandsFit
    <3>3. CASE slot' = c.to
      BY <1>1, <1>5, <2>5, <3>1, <3>3 DEF CommandFits
    <3>4. CASE slot' = slot
      BY <1>0, <1>1, <1>5, <3>1, <3>2, <3>4 DEF CommandFits, ShowsStored, LabelFits
    <3>. QED  BY <1>1, <1>5, <2>5, <3>1, <3>3, <3>4
  <2>. QED  BY <2>1, <2>2, <2>3, <2>4, <2>5 DEF FormIsOnCourse, CommandsFit
<1>. QED  BY <1>8, <1>9, <1>10, <1>11, <1>12, <1>13 DEF FormInv

(* A call is begun: it meets the ones under way, if it is a command or     *)
(* they are.                                                               *)
LEMMA CallBegins ==
  ASSUME FormInv, NEW c \in FormCalls, calls' = Forms!With(c), c.alone
  PROVE  \E n \in FormCalls :
           /\ n.kind = c.kind /\ n.mine = c.mine /\ n.at = c.at /\ n.from = c.from /\ n.to = c.to
           /\ n.before = c.before /\ n.failed = c.failed
           /\ n.alone => /\ c.kind # "load" => calls = {}
                         /\ \A d \in calls : d.kind = "load"
           /\ n \in calls' /\ calls' \in SUBSET FormCalls
           /\ \A e \in calls' : \/ e = n
                                \/ \E d \in calls : e = [d EXCEPT !.alone = d.alone /\ c.kind = "load" /\ d.kind = "load"]
<1>0. calls \in SUBSET FormCalls
  BY DEF FormInv, FormTypeOK
<1>1. PICK alone \in BOOLEAN : alone <=> \A d \in calls : ~(c.kind # "load" \/ d.kind # "load")
  OBVIOUS
<1>2. PICK n \in FormCalls : n = [c EXCEPT !.alone = alone]
  BY DEF FormCalls
<1>3. /\ n.kind = c.kind /\ n.mine = c.mine /\ n.at = c.at /\ n.from = c.from /\ n.to = c.to
      /\ n.before = c.before /\ n.failed = c.failed /\ n.alone = alone
  BY <1>2 DEF FormCalls
<1>4. n \in calls'
  BY <1>1, <1>2 DEF Forms!With, Forms!IsCommand
<1>5. ASSUME NEW e \in calls', e # n
      PROVE  /\ e \in FormCalls
             /\ \E d \in calls : e = [d EXCEPT !.alone = d.alone /\ c.kind = "load" /\ d.kind = "load"]
  <2>1. PICK d \in calls : e = [d EXCEPT !.alone = @ /\ ~(c.kind # "load" \/ d.kind # "load")]
    BY <1>1, <1>2, <1>5 DEF Forms!With, Forms!IsCommand
  <2>2. d \in FormCalls
    BY <1>0
  <2>3. PICK b \in BOOLEAN : b = (d.alone /\ c.kind = "load" /\ d.kind = "load")
    OBVIOUS
  <2>4. b = (d.alone /\ ~(c.kind # "load" \/ d.kind # "load"))
    BY <2>3
  <2>5. PICK g \in FormCalls : g = [d EXCEPT !.alone = b]
    BY <2>2 DEF FormCalls
  <2>6. e = g
    BY <2>1, <2>4, <2>5
  <2>. QED  BY <2>3, <2>5, <2>6
<1>. QED  BY <1>1, <1>3, <1>4, <1>5

(* What a call that is begun leaves of the invariant to be shown.          *)
LEMMA BeginningKeeps ==
  ASSUME FormInv, NEW c \in FormCalls, calls' = Forms!With(c), c.alone, c.mine, c.at = "asked",
         c.kind \in {"clear", "delete"} => c.to = Forms!NotConfigured,
         Fitting(c.to.up, c.to.draft),
         slot' = slot, astray' = astray, form' \in Editors, form'.there,
         c.kind = "load" => ~form.there,
         c.kind # "load" => ~form.saving /\ form'.saving,
         lookups' \in SUBSET Lookups, \A l \in lookups' : l.name # "blank",
         form'.resolving => \E l \in lookups' : l.current,
         FormIsOnCourse => /\ DraftsFit' /\ ShownFits'
                           /\ c.kind = "load" => (LabelFits => LabelFits')
                           /\ c.kind = "save" => SaveFits(c)'
                           /\ c.kind # "load" /\ calls = {} => CommandFits(c)'
  PROVE  FormInv'
<1>1. PICK n \in FormCalls :
           /\ n.kind = c.kind /\ n.mine = c.mine /\ n.at = c.at /\ n.from = c.from /\ n.to = c.to
           /\ n.before = c.before /\ n.failed = c.failed
           /\ n.alone => /\ c.kind # "load" => calls = {}
                         /\ \A d \in calls : d.kind = "load"
           /\ n \in calls' /\ calls' \in SUBSET FormCalls
           /\ \A e \in calls' : \/ e = n
                                \/ \E d \in calls : e = [d EXCEPT !.alone = d.alone /\ c.kind = "load" /\ d.kind = "load"]
  BY CallBegins
<1>2. calls \in SUBSET FormCalls /\ slot \in FormConnections /\ astray \in BOOLEAN
  BY DEF FormInv, FormTypeOK
<1>3. ASSUME NEW d \in calls, NEW e \in calls',
             e = [d EXCEPT !.alone = d.alone /\ c.kind = "load" /\ d.kind = "load"]
      PROVE  /\ e.kind = d.kind /\ e.mine = d.mine /\ e.at = d.at /\ e.from = d.from /\ e.to = d.to
             /\ e.before = d.before /\ e.failed = d.failed
             /\ e.alone => d.alone /\ c.kind = "load" /\ d.kind = "load"
  <2>1. d \in FormCalls
    BY <1>2
  <2>. QED  BY <1>3, <2>1 DEF FormCalls
<1>4. \A e \in calls' : e # n =>
        \E d \in calls :
          /\ e.kind = d.kind /\ e.mine = d.mine /\ e.at = d.at /\ e.from = d.from /\ e.to = d.to
          /\ e.before = d.before /\ e.failed = d.failed
          /\ e.alone => d.alone /\ c.kind = "load" /\ d.kind = "load"
  BY <1>1, <1>3
<1>5. FormTypeOK'
  BY <1>1, <1>2 DEF FormTypeOK
<1>6. CallsMeet'
  <2>1. ASSUME NEW e \in calls', NEW g \in calls', e.alone, e # g
        PROVE  e.kind = "load" /\ g.kind = "load"
    <3>1. CASE e = n
      BY <1>1, <1>4, <2>1, <3>1
    <3>2. CASE e # n /\ g = n
      BY <1>1, <1>4, <2>1, <3>2
    <3>3. CASE e # n /\ g # n
      <4>1. PICK d \in calls : e = [d EXCEPT !.alone = d.alone /\ c.kind = "load" /\ d.kind = "load"]
        BY <1>1, <3>3
      <4>2. PICK h \in calls : g = [h EXCEPT !.alone = h.alone /\ c.kind = "load" /\ h.kind = "load"]
        BY <1>1, <3>3
      <4>5. e.kind = d.kind /\ (e.alone => d.alone)
        <5>1. e.kind = d.kind
          BY <1>3, <4>1
        <5>2. d \in FormCalls /\ d.alone \in BOOLEAN
          BY <1>2 DEF FormCalls
        <5>3. PICK b \in BOOLEAN : b = (d.alone /\ c.kind = "load" /\ d.kind = "load")
          OBVIOUS
        <5>4. [d EXCEPT !.alone = b].alone = b
          BY <5>2 DEF FormCalls
        <5>5. e.alone = b
          <6>1. e = [d EXCEPT !.alone = b]
            BY <4>1, <5>3
          <6>. QED  BY <5>4, <6>1
        <5>. QED  BY <5>1, <5>2, <5>3, <5>5
      <4>6. g.kind = h.kind
        BY <1>3, <4>2
      <4>3. e.kind = d.kind /\ g.kind = h.kind /\ d.alone
        BY <2>1, <4>5, <4>6
      <4>4. d # h
        BY <2>1, <4>1, <4>2
      <4>. QED  BY <4>3, <4>4 DEF FormInv, CallsMeet
    <3>. QED  BY <3>1, <3>2, <3>3
  <2>. QED  BY <2>1 DEF CallsMeet
<1>7. CallsOfTheForm'
  <2>1. \A e \in calls' : e.mine => form'.there /\ (e.kind # "load" => form'.saving)
    BY <1>1, <1>4 DEF FormInv, CallsOfTheForm
  <2>2. ASSUME NEW e \in calls', NEW g \in calls', e.mine, g.mine, e.kind # "load", g.kind # "load"
        PROVE  e = g
    <3>1. CASE e # n /\ g # n
      <4>1. PICK d \in calls : e = [d EXCEPT !.alone = d.alone /\ c.kind = "load" /\ d.kind = "load"]
        BY <1>1, <3>1
      <4>2. PICK h \in calls : g = [h EXCEPT !.alone = h.alone /\ c.kind = "load" /\ h.kind = "load"]
        BY <1>1, <3>1
      <4>3. e.kind = d.kind /\ g.kind = h.kind /\ e.mine = d.mine /\ g.mine = h.mine
        BY <1>3, <4>1, <4>2
      <4>4. d = h
        BY <2>2, <4>3 DEF FormInv, CallsOfTheForm
      <4>. QED  BY <4>1, <4>2, <4>4
    <3>2. ASSUME NEW h \in calls', h # n, h.mine, h.kind # "load"
          PROVE  form.saving
      BY <1>4, <3>2 DEF FormInv, CallsOfTheForm
    <3>. QED  BY <1>1, <2>2, <3>1, <3>2
  <2>3. \A e \in calls' : e.alone /\ ~e.mine /\ e.kind # "load" => ~form'.there
    <3>1. n.mine
      BY <1>1, Zenon
    <3>2. \A e \in calls' : e.alone /\ e.kind # "load" => e = n
      BY <1>4
    <3>. QED  BY <3>1, <3>2
  <2>. QED  BY <2>1, <2>2, <2>3 DEF CallsOfTheForm
<1>8. AnswersStand'
  <2>1. \A e \in calls' : e.at = "done" /\ ~e.failed /\ e.alone => e.to = slot'
    BY <1>1, <1>4 DEF FormInv, AnswersStand
  <2>2. \A e \in calls' : e.kind \in {"clear", "delete"} => e.to = Forms!NotConfigured
    BY <1>1, <1>4 DEF FormInv, AnswersStand
  <2>3. Fitting(slot'.up, slot'.draft) /\ \A e \in calls' : Fitting(e.to.up, e.to.draft)
    BY <1>1, <1>4 DEF FormInv, AnswersStand
  <2>. QED  BY <2>1, <2>2, <2>3 DEF AnswersStand
<1>9. FormWaits'
  BY DEF FormWaits
<1>10. ASSUME ~astray'
       PROVE  FormIsOnCourse'
  <2>1. FormIsOnCourse
    BY <1>10 DEF FormInv
  <2>2. ASSUME NEW e \in calls', e.mine, e.kind = "save"
        PROVE  SaveFits(e)'
    <3>1. e = n
      BY <1>4, <2>2 DEF FormInv, CallsOfTheForm
    <3>2. SaveFits(c)'
      BY <1>1, <2>1, <2>2, <3>1
    <3>. QED  BY <1>1, <3>1, <3>2 DEF SaveFits
  <2>3. StoredIsShown'
    <3>1. ASSUME OnlyLoads'
          PROVE  c.kind = "load" /\ OnlyLoads
      <4>1. c.kind = "load"
        BY <1>1, <3>1 DEF OnlyLoads
      <4>2. ASSUME NEW d \in calls
            PROVE  d.kind = "load"
        <5>1. PICK b \in BOOLEAN : b = (d.alone /\ ~(Forms!IsCommand(c) \/ Forms!IsCommand(d)))
          OBVIOUS
        <5>2. [d EXCEPT !.alone = @ /\ ~(Forms!IsCommand(c) \/ Forms!IsCommand(d))] \in calls'
          BY DEF Forms!With
        <5>3. d \in FormCalls
          BY <1>2
        <5>4. [d EXCEPT !.alone = @ /\ ~(Forms!IsCommand(c) \/ Forms!IsCommand(d))].kind = d.kind
          BY <5>3 DEF FormCalls
        <5>. QED  BY <3>1, <5>2, <5>4 DEF OnlyLoads
      <4>. QED  BY <4>1, <4>2 DEF OnlyLoads
    <3>2. \E e \in calls' : e.mine
      BY <1>1
    <3>3. OnlyLoads' => LabelFits'
      BY <2>1, <3>1 DEF FormIsOnCourse, StoredIsShown
    <3>. QED  BY <3>2, <3>3 DEF StoredIsShown
  <2>4. ASSUME NEW e \in calls', e.alone, e.kind # "load"
        PROVE  CommandFits(e)'
    <3>1. e = n /\ calls = {}
      BY <1>1, <1>4, <2>4
    <3>2. CommandFits(c)'
      BY <1>1, <2>1, <2>4, <3>1
    <3>. QED  BY <1>1, <3>1, <3>2 DEF CommandFits
  <2>. QED  BY <2>1, <2>2, <2>3, <2>4 DEF FormIsOnCourse, SavesFit, CommandsFit
<1>. QED  BY <1>5, <1>6, <1>7, <1>8, <1>9, <1>10 DEF FormInv

LEMMA CallIs ==
  ASSUME NEW kind \in {"load", "save", "clear", "delete"}, NEW from \in FormConnections,
         NEW to \in FormConnections, NEW before \in FormConnections
  PROVE  \E c \in FormCalls :
           /\ c = Forms!Call(kind, from, to, before)
           /\ c.kind = kind /\ c.mine /\ c.at = "asked" /\ c.from = from /\ c.to = to
           /\ c.before = before /\ c.alone
<1>1. PICK yes \in BOOLEAN, no \in BOOLEAN, at \in {"asked", "done"} :
        yes = TRUE /\ no = FALSE /\ at = "asked"
  OBVIOUS
<1>2. PICK c \in FormCalls :
        c = [kind |-> kind, mine |-> yes, at |-> at, from |-> from, to |-> to, before |-> before,
             failed |-> no, alone |-> yes]
  BY DEF FormCalls
<1>3. c = Forms!Call(kind, from, to, before)
  BY <1>1, <1>2 DEF Forms!Call
<1>4. /\ c.kind = kind /\ c.mine = yes /\ c.at = at /\ c.from = from /\ c.to = to
      /\ c.before = before /\ c.alone = yes
  BY <1>2 DEF FormCalls
<1>. QED  BY <1>1, <1>3, <1>4

LEMMA EnteringKeeps ==
  ASSUME FormInv, Forms!Enter
  PROVE  FormInv'
<1>0. /\ ~form.there /\ slot' = slot /\ label' = label /\ astray' = astray /\ lookups' = lookups
      /\ form' = Forms!Fresh /\ lookups = {}
  BY DEF Forms!Enter, FormInv, FormWaits
<1>1. PICK home \in FormConnections : home = Forms!NotConfigured /\ Fitting(home.up, home.draft)
  BY FormValues
<1>2. PICK load \in {"load", "save", "clear", "delete"} : load = "load"
  OBVIOUS
<1>3. PICK c \in FormCalls :
           /\ c = Forms!Call(load, home, home, home)
           /\ c.kind = load /\ c.mine /\ c.at = "asked" /\ c.from = home /\ c.to = home
           /\ c.before = home /\ c.alone
  BY CallIs
<1>4. calls' = Forms!With(c)
  BY <1>1, <1>2, <1>3 DEF Forms!Enter
<1>5. DraftsFit' /\ ShownFits'
  BY <1>0, FormStates, FormValues DEF DraftsFit, ShownFits, Fitting
<1>6. LabelFits => LabelFits'
  BY <1>0 DEF LabelFits
<1>. QED  BY <1>0, <1>1, <1>2, <1>3, <1>4, <1>5, <1>6, FormStates, BeginningKeeps

(* The form is left, and what it waited for is no longer its own.          *)
LEMMA AbandonedCalls ==
  ASSUME NEW cs \in SUBSET FormCalls
  PROVE  /\ Forms!Abandoned(cs) \in SUBSET FormCalls
         /\ \A e \in Forms!Abandoned(cs) :
              /\ ~e.mine
              /\ \E d \in cs :
                   /\ e = [d EXCEPT !.mine = FALSE, !.from = Forms!NotConfigured]
                   /\ e.kind = d.kind /\ e.at = d.at /\ e.to = d.to /\ e.before = d.before
                   /\ e.failed = d.failed /\ e.alone = d.alone
<1>1. ASSUME NEW e \in Forms!Abandoned(cs)
      PROVE  /\ e \in FormCalls /\ ~e.mine
             /\ \E d \in cs :
                   /\ e = [d EXCEPT !.mine = FALSE, !.from = Forms!NotConfigured]
                   /\ e.kind = d.kind /\ e.at = d.at /\ e.to = d.to /\ e.before = d.before
                   /\ e.failed = d.failed /\ e.alone = d.alone
  <2>1. PICK home \in FormConnections, no \in BOOLEAN : home = Forms!NotConfigured /\ no = FALSE
    BY FormValues
  <2>2. PICK d \in cs : e = [d EXCEPT !.mine = no, !.from = home]
    BY <2>1 DEF Forms!Abandoned
  <2>3. d \in FormCalls
    OBVIOUS
  <2>4. e \in FormCalls /\ e.kind = d.kind /\ e.at = d.at /\ e.to = d.to /\ e.before = d.before
    BY <2>2, <2>3 DEF FormCalls
  <2>5. e.mine = no /\ e.failed = d.failed /\ e.alone = d.alone
    BY <2>2, <2>3 DEF FormCalls
  <2>. QED  BY <2>1, <2>2, <2>4, <2>5
<1>. QED  BY <1>1

LEMMA LeavingKeeps ==
  ASSUME FormInv, Forms!Leave
  PROVE  FormInv'
<1>0. /\ slot' = slot /\ label' = label /\ astray' = astray /\ lookups' = {}
      /\ form' = Forms!Gone /\ calls' = Forms!Abandoned(calls)
      /\ slot \in FormConnections /\ calls \in SUBSET FormCalls /\ astray \in BOOLEAN
  BY DEF Forms!Leave, FormInv, FormTypeOK
<1>1. /\ calls' \in SUBSET FormCalls
      /\ \A e \in calls' :
              /\ ~e.mine
              /\ \E d \in calls :
                   /\ e = [d EXCEPT !.mine = FALSE, !.from = Forms!NotConfigured]
                   /\ e.kind = d.kind /\ e.at = d.at /\ e.to = d.to /\ e.before = d.before
                   /\ e.failed = d.failed /\ e.alone = d.alone
  BY <1>0, AbandonedCalls
<1>2. FormTypeOK'
  BY <1>0, <1>1, FormStates DEF FormTypeOK
<1>3. CallsMeet' /\ CallsOfTheForm' /\ AnswersStand' /\ FormWaits'
  <2>1. ASSUME NEW e \in calls', NEW g \in calls', e.alone, e # g
        PROVE  e.kind = "load" /\ g.kind = "load"
    <3>1. PICK d \in calls : /\ e = [d EXCEPT !.mine = FALSE, !.from = Forms!NotConfigured]
                             /\ e.kind = d.kind /\ e.alone = d.alone
      BY <1>1
    <3>2. PICK h \in calls : /\ g = [h EXCEPT !.mine = FALSE, !.from = Forms!NotConfigured]
                             /\ g.kind = h.kind
      BY <1>1
    <3>3. d # h /\ d.alone
      BY <2>1, <3>1, <3>2
    <3>. QED  BY <3>1, <3>2, <3>3 DEF FormInv, CallsMeet
  <2>2. CallsOfTheForm'
    BY <1>0, <1>1, FormStates DEF CallsOfTheForm
  <2>5. ASSUME NEW e \in calls', e.at = "done", ~e.failed, e.alone
        PROVE  e.to = slot'
    <3>1. PICK d \in calls : /\ e.at = d.at /\ e.to = d.to
                             /\ e.failed = d.failed /\ e.alone = d.alone
      BY <1>1
    <3>. QED  BY <1>0, <2>5, <3>1 DEF FormInv, AnswersStand
  <2>6. \A e \in calls' : e.kind \in {"clear", "delete"} => e.to = Forms!NotConfigured
    BY <1>1 DEF FormInv, AnswersStand
  <2>7. Fitting(slot'.up, slot'.draft) /\ \A e \in calls' : Fitting(e.to.up, e.to.draft)
    BY <1>0, <1>1 DEF FormInv, AnswersStand
  <2>3. AnswersStand'
    BY <2>5, <2>6, <2>7 DEF AnswersStand
  <2>4. FormWaits'
    BY <1>0, FormStates DEF FormWaits
  <2>. QED  BY <2>1, <2>2, <2>3, <2>4 DEF CallsMeet
<1>4. ASSUME ~astray'
      PROVE  FormIsOnCourse'
  <2>1. FormIsOnCourse
    BY <1>0, <1>4 DEF FormInv
  <2>2. DraftsFit' /\ ShownFits'
    BY <1>0, FormStates, FormValues DEF DraftsFit, ShownFits, Fitting
  <2>3. SavesFit'
    BY <1>1 DEF SavesFit
  <2>4. StoredIsShown'
    <3>1. PICK c \in calls : c.kind # "load"
      BY DEF Forms!Leave, Forms!IsCommand
    <3>2. [c EXCEPT !.mine = FALSE, !.from = Forms!NotConfigured] \in calls'
      BY <1>0 DEF Forms!Abandoned
    <3>3. c \in FormCalls
      BY <1>0
    <3>4. [c EXCEPT !.mine = FALSE, !.from = Forms!NotConfigured].kind = c.kind
      BY <3>3 DEF FormCalls
    <3>. QED  BY <3>1, <3>2, <3>4 DEF StoredIsShown, OnlyLoads
  <2>5. ASSUME NEW e \in calls', e.alone, e.kind # "load"
        PROVE  CommandFits(e)'
    <3>1. PICK d \in calls : /\ e.kind = d.kind /\ e.at = d.at /\ e.to = d.to /\ e.before = d.before
                             /\ e.failed = d.failed /\ e.alone = d.alone
      BY <1>1
    <3>2. CommandFits(d)
      BY <2>1, <2>5, <3>1 DEF FormIsOnCourse, CommandsFit
    <3>. QED  BY <1>0, <3>1, <3>2, FormStates DEF CommandFits, ShowsStored, LabelFits
  <2>. QED  BY <2>2, <2>3, <2>4, <2>5 DEF FormIsOnCourse, CommandsFit
<1>. QED  BY <1>2, <1>3, <1>4 DEF FormInv

LEMMA SavingKeeps ==
  ASSUME FormInv, Forms!Save
  PROVE  FormInv'
<1>0. /\ form.there /\ slot' = slot /\ astray' = astray /\ form \in Editors /\ lookups \in SUBSET Lookups
      /\ \A l \in lookups : l.name # "blank"
  BY DEF Forms!Save, Forms!Editing, FormInv, FormTypeOK, FormWaits
<1>1. lookups' \in SUBSET Lookups /\ \A l \in lookups' : ~l.current /\ l.name # "blank"
  <2>1. lookups' = Forms!Outdated
    BY DEF Forms!Save
  <2>. QED  BY <1>0, <2>1, OutdatedLookups
<1>2. /\ form.up \in Upstreams /\ form.drafts[form.up] \in Drafts /\ form.shown \in FormConnections
      /\ \A u \in Upstreams : form.drafts[u] \in Drafts
  BY <1>0 DEF Editors
<1>3. PICK next \in FormConnections : next = [up |-> form.up, draft |-> form.drafts[form.up]]
  BY <1>2 DEF FormConnections
<1>4. next.up = form.up /\ next.draft = form.drafts[form.up]
  BY <1>3
<1>5. next = Forms!Connection(form.up, Forms!Draft)
  BY <1>3 DEF Forms!Connection, Forms!Draft
<1>6. PICK to \in FormConnections : to = Forms!Target(form.up, Forms!Draft) /\ Fitting(to.up, to.draft)
  BY <1>2, TargetFits DEF Forms!Draft
<1>7. PICK before \in FormConnections : before = form.shown
  BY <1>2
<1>8. PICK save \in {"load", "save", "clear", "delete"} : save = "save"
  OBVIOUS
<1>9. PICK c \in FormCalls :
           /\ c = Forms!Call(save, next, to, before)
           /\ c.kind = save /\ c.mine /\ c.at = "asked" /\ c.from = next /\ c.to = to
           /\ c.before = before /\ c.alone
  BY CallIs
<1>10. PICK f \in Editors : f = [form EXCEPT !.shown = next, !.open = FALSE]
  BY <1>0 DEF Editors
<1>11. f.there = form.there /\ f.shown = next
  BY <1>0, <1>10 DEF Editors
<1>12. PICK g \in Editors : g = Forms!Reset(f, next)
  BY ResetShows
<1>13. /\ g.there = form.there /\ g.shown = next /\ g.resolving = FALSE
       /\ \A u \in Upstreams : g.drafts[u] = IF u = next.up THEN next.draft ELSE Forms!NoDraft
  <2>1. /\ g.there = f.there /\ g.shown = f.shown /\ g.resolving = FALSE
        /\ \A u \in Upstreams : g.drafts[u] = IF u = next.up THEN next.draft ELSE Forms!NoDraft
    BY <1>12, ResetShows
  <2>. QED  BY <1>11, <2>1
<1>14. Forms!Command("save", to, g)
  BY <1>5, <1>6, <1>10, <1>12 DEF Forms!Save
<1>15. /\ ~form.saving /\ calls' = Forms!With(c) /\ form' = [g EXCEPT !.saving = TRUE]
  <2>1. /\ ~form.saving /\ form' = [g EXCEPT !.saving = TRUE]
        /\ calls' = Forms!With(Forms!Call("save", Forms!Connection(form.up, Forms!Draft), to, form.shown))
    BY <1>14 DEF Forms!Command
  <2>. QED  BY <1>5, <1>7, <1>8, <1>9, <2>1
<1>16. /\ form' \in Editors /\ form'.there /\ form'.shown = next /\ form'.resolving = FALSE /\ form'.saving
       /\ form'.drafts = g.drafts
  BY <1>0, <1>13, <1>15 DEF Editors
<1>17. c.kind = "save" /\ Fitting(c.to.up, c.to.draft)
  BY <1>6, <1>8, <1>9
<1>18. ASSUME FormIsOnCourse
       PROVE  DraftsFit' /\ ShownFits' /\ SaveFits(c)' /\ (calls = {} => CommandFits(c)')
  <2>1. Fitting(next.up, next.draft)
    BY <1>2, <1>4, <1>18 DEF FormIsOnCourse, DraftsFit
  <2>2. DraftsFit'
    BY <1>1, <1>13, <1>16, <2>1, FormValues DEF DraftsFit, Fitting
  <2>3. ShownFits'
    BY <1>16, <2>1 DEF ShownFits
  <2>4. SaveFits(c)'
    <3>1. Fitting(c.before.up, c.before.draft)
      BY <1>7, <1>9, <1>18 DEF FormIsOnCourse, ShownFits
    <3>2. /\ form'.drafts[c.from.up].name = c.from.draft.name
          /\ form'.drafts[c.from.up].custom = c.from.draft.custom
          /\ \A u \in Upstreams : u # c.from.up => form'.drafts[u].name = "blank" /\ ~form'.drafts[u].custom
      BY <1>2, <1>4, <1>9, <1>13, <1>16, FormValues
    <3>. QED  BY <1>9, <1>16, <2>1, <3>1, <3>2 DEF SaveFits
  <2>5. ASSUME calls = {}
        PROVE  CommandFits(c)'
    <3>1. form.shown = slot
      BY <1>0, <1>18, <2>5 DEF FormIsOnCourse, StoredIsShown, OnlyLoads
    <3>. QED  BY <1>0, <1>7, <1>9, <1>17, <3>1 DEF CommandFits
  <2>. QED  BY <2>2, <2>3, <2>4, <2>5
<1>. QED  BY <1>0, <1>1, <1>9, <1>15, <1>16, <1>17, <1>18, BeginningKeeps

(* The connection is cleared, or the provider is deleted.                  *)
LEMMA RemovingKeeps ==
  ASSUME FormInv, Forms!Clear \/ Forms!Delete
  PROVE  FormInv'
<1>0. /\ slot' = slot /\ astray' = astray /\ label' = label /\ lookups' = lookups
      /\ form \in Editors /\ lookups \in SUBSET Lookups /\ \A l \in lookups : l.name # "blank"
      /\ form.resolving => \E l \in lookups : l.current
  BY DEF Forms!Clear, Forms!Delete, FormInv, FormTypeOK, FormWaits
<1>1. PICK home \in FormConnections : home = Forms!NotConfigured /\ Fitting(home.up, home.draft)
  BY FormValues
<1>2. PICK kind \in {"load", "save", "clear", "delete"} :
        kind \in {"clear", "delete"} /\ Forms!Command(kind, home, form)
  BY <1>1 DEF Forms!Clear, Forms!Delete
<1>3. PICK c \in FormCalls :
           /\ c = Forms!Call(kind, home, home, home)
           /\ c.kind = kind /\ c.mine /\ c.at = "asked" /\ c.from = home /\ c.to = home
           /\ c.before = home /\ c.alone
  BY CallIs
<1>4. /\ form.there /\ ~form.saving /\ calls' = Forms!With(c) /\ form' = [form EXCEPT !.saving = TRUE]
  BY <1>2, <1>3 DEF Forms!Command
<1>5. /\ form' \in Editors /\ form'.there /\ form'.shown = form.shown /\ form'.resolving = form.resolving
      /\ form'.saving /\ form'.drafts = form.drafts /\ form'.up = form.up
  BY <1>0, <1>4 DEF Editors
<1>6. ASSUME FormIsOnCourse
      PROVE  DraftsFit' /\ ShownFits' /\ (calls = {} => CommandFits(c)')
  <2>1. DraftsFit' /\ ShownFits'
    BY <1>0, <1>5, <1>6 DEF FormIsOnCourse, DraftsFit, ShownFits
  <2>2. ASSUME calls = {}
        PROVE  CommandFits(c)'
    <3>1. LabelFits /\ form.shown = slot
      BY <1>4, <1>6, <2>2 DEF FormIsOnCourse, StoredIsShown, OnlyLoads
    <3>2. ShowsStored'
      BY <1>0, <1>5, <3>1 DEF ShowsStored, LabelFits
    <3>. QED  BY <1>2, <1>3, <3>2 DEF CommandFits
  <2>. QED  BY <2>1, <2>2
<1>. QED  BY <1>0, <1>1, <1>2, <1>3, <1>4, <1>5, <1>6, BeginningKeeps

(* What was read is shown, if it is this form that asked for it.           *)
LEMMA LoadedKeeps ==
  ASSUME FormInv, NEW c \in calls, Forms!Loaded(c)
  PROVE  FormInv'
<1>0. /\ c.kind = "load" /\ c.at = "done" /\ calls' = calls \ {c} /\ slot' = slot
      /\ slot \in FormConnections /\ form \in Editors /\ lookups \in SUBSET Lookups
      /\ calls \in SUBSET FormCalls /\ astray \in BOOLEAN
  BY DEF Forms!Loaded, FormInv, FormTypeOK
<1>1. c \in FormCalls /\ c.to \in FormConnections /\ Fitting(c.to.up, c.to.draft) /\ c.alone \in BOOLEAN
  BY <1>0 DEF FormInv, AnswersStand, FormCalls
<1>2. c.mine => form.there
  BY DEF FormInv, CallsOfTheForm
<1>3. /\ Forms!Outdated \in SUBSET Lookups
      /\ \A l \in Forms!Outdated : ~l.current /\ \E k \in lookups : l.name = k.name
  BY <1>0, OutdatedLookups
<1>4. /\ form' \in Editors /\ form'.there = form.there /\ form'.saving = form.saving
      /\ lookups' \in SUBSET Lookups /\ astray' \in BOOLEAN
      /\ \A l \in lookups' : \E k \in lookups : l.name = k.name
      /\ form'.resolving => form'.resolving = form.resolving /\ lookups' = lookups
      /\ ~c.mine => form' = form /\ lookups' = lookups
      /\ c.mine /\ ~c.failed =>
           /\ form'.shown = c.to /\ lookups' = Forms!Outdated
           /\ \A u \in Upstreams : form'.drafts[u] = IF u = c.to.up THEN c.to.draft ELSE Forms!NoDraft
  <2>1. CASE c.failed
    <3>1. form' \in {form, [form EXCEPT !.open = TRUE]} /\ lookups' = lookups /\ astray' = TRUE
          /\ (~c.mine => form' = form)
      BY <2>1 DEF Forms!Loaded
    <3>. QED  BY <1>0, <2>1, <3>1 DEF Editors
  <2>2. CASE ~c.failed /\ ~c.mine
    BY <1>0, <1>1, <2>2 DEF Forms!Loaded
  <2>3. CASE ~c.failed /\ c.mine
    <3>1. PICK f \in Editors : f = [form EXCEPT !.shown = c.to]
      BY <1>0, <1>1 DEF Editors
    <3>2. f.there = form.there /\ f.saving = form.saving /\ f.shown = c.to
      BY <1>0, <3>1 DEF Editors
    <3>3. form' = Forms!Reset(f, c.to) /\ lookups' = Forms!Outdated /\ astray' \in BOOLEAN
      BY <1>0, <1>1, <2>3, <3>1 DEF Forms!Loaded
    <3>. QED  BY <1>1, <1>3, <2>3, <3>2, <3>3, ResetShows
  <2>. QED  BY <2>1, <2>2, <2>3
<1>5. FormTypeOK'
  BY <1>0, <1>4 DEF FormTypeOK
<1>6. CallsMeet'
  BY <1>0 DEF FormInv, CallsMeet
<1>7. CallsOfTheForm'
  BY <1>0, <1>4 DEF FormInv, CallsOfTheForm
<1>8. AnswersStand'
  BY <1>0 DEF FormInv, AnswersStand
<1>9. FormWaits'
  <2>1. ~form'.there => form' = Forms!Gone /\ lookups' = {}
    BY <1>2, <1>4 DEF FormInv, FormWaits
  <2>2. form'.resolving => \E l \in lookups' : l.current
    BY <1>4 DEF FormInv, FormWaits
  <2>3. \A l \in lookups' : l.name # "blank"
    BY <1>4 DEF FormInv, FormWaits
  <2>. QED  BY <2>1, <2>2, <2>3 DEF FormWaits
<1>10. ASSUME ~astray'
       PROVE  FormIsOnCourse'
  <2>1. ~c.failed /\ label' = Forms!Label(c.to) /\ c.alone /\ (c.mine \/ ~astray)
    BY <1>10 DEF Forms!Loaded
  <2>2. c.to = slot
    BY <1>0, <2>1 DEF FormInv, AnswersStand
  <2>3. OnlyLoads' /\ OnlyLoads
    BY <1>0, <2>1 DEF FormInv, CallsMeet, OnlyLoads
  <2>4. LabelFits'
    BY <1>0, <2>1, <2>2 DEF LabelFits
  <2>5. SavesFit' /\ CommandsFit'
    BY <2>3 DEF OnlyLoads, SavesFit, CommandsFit
  <2>6. CASE c.mine
    <3>1. DraftsFit'
      BY <1>1, <1>3, <1>4, <2>1, <2>6, FormValues DEF DraftsFit, Fitting
    <3>2. ShownFits'
      BY <1>1, <1>4, <2>1, <2>6 DEF ShownFits
    <3>3. StoredIsShown'
      BY <1>0, <1>4, <2>1, <2>2, <2>4, <2>6 DEF StoredIsShown
    <3>. QED  BY <2>5, <3>1, <3>2, <3>3 DEF FormIsOnCourse
  <2>7. CASE ~c.mine
    <3>1. FormIsOnCourse
      BY <2>1, <2>7 DEF FormInv
    <3>2. DraftsFit' /\ ShownFits'
      BY <1>4, <2>7, <3>1 DEF FormIsOnCourse, DraftsFit, ShownFits
    <3>3. StoredIsShown'
      BY <1>0, <1>4, <2>3, <2>4, <2>7, <3>1 DEF FormIsOnCourse, StoredIsShown
    <3>. QED  BY <2>5, <3>2, <3>3 DEF FormIsOnCourse
  <2>. QED  BY <2>6, <2>7
<1>. QED  BY <1>5, <1>6, <1>7, <1>8, <1>9, <1>10 DEF FormInv

(* A command is answered.                                                  *)
LEMMA EndingKeeps ==
  ASSUME FormInv, NEW c \in calls, c.kind # "load", NEW next \in Editors, Forms!Ended(c, next),
         c.mine => next.there \/ next = Forms!Gone,
         lookups' \in SUBSET Lookups, \A l \in lookups' : l.name # "blank",
         form'.resolving => \E l \in lookups' : l.current,
         ~form'.there => lookups' = {},
         FormIsOnCourse /\ c.alone /\ ~(c.failed /\ slot = c.to) =>
           DraftsFit' /\ ShownFits' /\ ShowsStored'
  PROVE  FormInv'
<1>0. /\ c.at = "done" /\ slot' = slot /\ slot \in FormConnections /\ form \in Editors
      /\ calls \in SUBSET FormCalls /\ astray \in BOOLEAN
      /\ calls' = IF c.mine /\ ~next.there THEN Forms!Abandoned(calls \ {c}) ELSE calls \ {c}
      /\ form' = IF c.mine THEN [next EXCEPT !.saving = FALSE] ELSE form
      /\ astray' = (astray \/ ~c.alone \/ (c.failed /\ slot = c.to))
  BY DEF Forms!Ended, FormInv, FormTypeOK
<1>1. /\ form' \in Editors /\ (c.mine => form'.there = next.there /\ form'.saving = FALSE)
      /\ (c.mine /\ next = Forms!Gone => form' = Forms!Gone)
  <2>1. [next EXCEPT !.saving = FALSE] \in Editors
        /\ [next EXCEPT !.saving = FALSE].there = next.there
        /\ [next EXCEPT !.saving = FALSE].saving = FALSE
    BY DEF Editors
  <2>2. [Forms!Gone EXCEPT !.saving = FALSE] = Forms!Gone
    BY FormStates DEF Editors
  <2>. QED  BY <1>0, <2>1, <2>2
<1>2. calls' \in SUBSET FormCalls /\ astray' \in BOOLEAN
  <2>1. calls \ {c} \in SUBSET FormCalls
    BY <1>0
  <2>. QED  BY <1>0, <2>1, AbandonedCalls
<1>3. FormTypeOK'
  BY <1>0, <1>1, <1>2 DEF FormTypeOK
<1>4. ASSUME c.mine /\ ~next.there
      PROVE  CallsMeet' /\ CallsOfTheForm' /\ AnswersStand'
  <2>1. /\ \A e \in calls' :
              /\ ~e.mine
              /\ \E d \in calls \ {c} :
                   /\ e = [d EXCEPT !.mine = FALSE, !.from = Forms!NotConfigured]
                   /\ e.kind = d.kind /\ e.at = d.at /\ e.to = d.to /\ e.before = d.before
                   /\ e.failed = d.failed /\ e.alone = d.alone
    <3>1. calls \ {c} \in SUBSET FormCalls
      BY <1>0
    <3>. QED  BY <1>0, <1>4, <3>1, AbandonedCalls
  <2>2. ASSUME NEW e \in calls'
        PROVE  ~(e.alone /\ e.kind # "load") /\ ~e.mine
    <3>1. PICK d \in calls \ {c} : e.kind = d.kind /\ e.alone = d.alone
      BY <2>1
    <3>. QED  BY <2>1, <3>1 DEF FormInv, CallsMeet
  <2>3. CallsMeet'
    <3>1. ASSUME NEW e \in calls', NEW g \in calls', e.alone, e # g
          PROVE  e.kind = "load" /\ g.kind = "load"
      <4>1. PICK d \in calls \ {c} : /\ e = [d EXCEPT !.mine = FALSE, !.from = Forms!NotConfigured]
                                     /\ e.kind = d.kind /\ e.alone = d.alone
        BY <2>1
      <4>2. PICK h \in calls \ {c} : /\ g = [h EXCEPT !.mine = FALSE, !.from = Forms!NotConfigured]
                                     /\ g.kind = h.kind
        BY <2>1
      <4>3. d # h /\ d.alone
        BY <3>1, <4>1, <4>2
      <4>. QED  BY <4>1, <4>2, <4>3 DEF FormInv, CallsMeet
    <3>. QED  BY <3>1 DEF CallsMeet
  <2>4. CallsOfTheForm'
    BY <2>2 DEF CallsOfTheForm
  <2>5. AnswersStand'
    <3>1. ASSUME NEW e \in calls', e.at = "done", ~e.failed, e.alone
          PROVE  e.to = slot'
      <4>1. PICK d \in calls : /\ e.at = d.at /\ e.to = d.to
                               /\ e.failed = d.failed /\ e.alone = d.alone
        BY <2>1
      <4>. QED  BY <1>0, <3>1, <4>1 DEF FormInv, AnswersStand
    <3>2. \A e \in calls' : e.kind \in {"clear", "delete"} => e.to = Forms!NotConfigured
      BY <2>1 DEF FormInv, AnswersStand
    <3>3. Fitting(slot'.up, slot'.draft) /\ \A e \in calls' : Fitting(e.to.up, e.to.draft)
      BY <1>0, <2>1 DEF FormInv, AnswersStand
    <3>. QED  BY <3>1, <3>2, <3>3 DEF AnswersStand
  <2>. QED  BY <2>2, <2>3, <2>4, <2>5
<1>5. ASSUME ~(c.mine /\ ~next.there)
      PROVE  CallsMeet' /\ CallsOfTheForm' /\ AnswersStand'
  <2>1. calls' = calls \ {c}
    BY <1>0, <1>5
  <2>2. CallsMeet'
    BY <2>1 DEF FormInv, CallsMeet
  <2>3. CallsOfTheForm'
    <3>1. \A e \in calls' : e.mine => form'.there /\ (e.kind # "load" => form'.saving)
      BY <1>0, <1>1, <1>5, <2>1 DEF FormInv, CallsOfTheForm
    <3>2. \A e, g \in calls' : e.mine /\ g.mine /\ e.kind # "load" /\ g.kind # "load" => e = g
      BY <2>1 DEF FormInv, CallsOfTheForm
    <3>3. \A e \in calls' : ~(e.alone /\ e.kind # "load")
      BY <2>1 DEF FormInv, CallsMeet
    <3>. QED  BY <3>1, <3>2, <3>3 DEF CallsOfTheForm
  <2>4. AnswersStand'
    BY <1>0, <2>1 DEF FormInv, AnswersStand
  <2>. QED  BY <2>2, <2>3, <2>4
<1>6. FormWaits'
  <2>1. ~form'.there => form' = Forms!Gone
    <3>1. CASE c.mine
      BY <1>1, <3>1
    <3>2. CASE ~c.mine
      BY <1>0, <3>2 DEF FormInv, FormWaits
    <3>. QED  BY <3>1, <3>2
  <2>. QED  BY <2>1 DEF FormWaits
<1>7. ASSUME ~astray'
      PROVE  FormIsOnCourse'
  <2>1. ~astray /\ c.alone /\ ~(c.failed /\ slot = c.to)
    BY <1>0, <1>7
  <2>2. DraftsFit' /\ ShownFits' /\ ShowsStored'
    BY <2>1 DEF FormInv
  <2>3. calls' = {}
    <3>1. calls \ {c} = {}
      BY <2>1, AloneCommand
    <3>. QED  BY <1>0, <3>1 DEF Forms!Abandoned
  <2>. QED  BY <2>2, <2>3 DEF FormIsOnCourse, SavesFit, StoredIsShown, ShowsStored, CommandsFit
<1>. QED  BY <1>3, <1>4, <1>5, <1>6, <1>7 DEF FormInv

LEMMA SavedKeeps ==
  ASSUME FormInv, NEW c \in calls, Forms!Saved(c)
  PROVE  FormInv'
<1>0. /\ c.kind = "save" /\ ~c.failed /\ c.at = "done" /\ lookups' = lookups /\ slot' = slot
      /\ label' = Forms!Label(c.to) /\ form \in Editors /\ lookups \in SUBSET Lookups
      /\ \A l \in lookups : l.name # "blank"
      /\ form.resolving => \E l \in lookups : l.current
      /\ ~form.there => lookups = {}
  BY DEF Forms!Saved, Forms!Ended, FormInv, FormTypeOK, FormWaits
<1>1. c.to \in FormConnections /\ Fitting(c.to.up, c.to.draft) /\ (c.mine => form.there)
      /\ (c.alone /\ ~c.mine => ~form.there)
  BY <1>0 DEF FormInv, FormTypeOK, AnswersStand, CallsOfTheForm, FormCalls
<1>2. PICK to \in FormConnections : to = c.to
  BY <1>1
<1>3. PICK next \in Editors : next = [form EXCEPT !.shown = to]
  BY <1>0 DEF Editors
<1>4. /\ next.there = form.there /\ next.shown = to /\ next.drafts = form.drafts
      /\ next.resolving = form.resolving /\ next.up = form.up
  BY <1>0, <1>3 DEF Editors
<1>5. Forms!Ended(c, next) /\ form' = IF c.mine THEN [next EXCEPT !.saving = FALSE] ELSE form
  BY <1>2, <1>3 DEF Forms!Saved, Forms!Ended
<1>6. /\ form'.there = form.there /\ form'.drafts = form.drafts /\ form'.resolving = form.resolving
      /\ form'.up = form.up /\ form'.shown = IF c.mine THEN to ELSE form.shown
  BY <1>4, <1>5 DEF Editors
<1>7. next.there \/ next = Forms!Gone \/ ~c.mine
  BY <1>1, <1>4
<1>8. ASSUME FormIsOnCourse, c.alone
      PROVE  DraftsFit' /\ ShownFits' /\ ShowsStored'
  <2>1. c.to = slot
    BY <1>0, <1>8 DEF FormInv, AnswersStand
  <2>2. DraftsFit'
    BY <1>0, <1>6, <1>8 DEF FormIsOnCourse, DraftsFit
  <2>3. ShownFits'
    BY <1>1, <1>2, <1>6, <1>8 DEF FormIsOnCourse, ShownFits
  <2>4. ShowsStored'
    BY <1>0, <1>1, <1>2, <1>6, <1>8, <2>1 DEF ShowsStored, LabelFits
  <2>. QED  BY <2>2, <2>3, <2>4
<1>. QED  BY <1>0, <1>5, <1>6, <1>7, <1>8, EndingKeeps

(* What the form showed before is shown again, when the save has failed.   *)
LEMMA FailedSaveKeeps ==
  ASSUME FormInv, NEW c \in calls, Forms!SaveFails(c)
  PROVE  FormInv'
<1>0. /\ c.kind = "save" /\ c.failed /\ c.at = "done" /\ lookups' = lookups /\ slot' = slot
      /\ label' = Forms!Label(c.before) /\ form \in Editors /\ lookups \in SUBSET Lookups
      /\ \A l \in lookups : l.name # "blank"
      /\ form.resolving => \E l \in lookups : l.current
      /\ ~form.there => lookups = {}
  BY DEF Forms!SaveFails, Forms!Ended, FormInv, FormTypeOK, FormWaits
<1>1. /\ c.before \in FormConnections /\ c.from \in FormConnections
      /\ (c.mine => form.there) /\ (c.alone /\ ~c.mine => ~form.there)
  BY <1>0 DEF FormInv, FormTypeOK, CallsOfTheForm, FormCalls
<1>2. PICK before \in FormConnections, up \in Upstreams, draft \in Drafts :
        before = c.before /\ up = c.from.up /\ draft = c.from.draft
  BY <1>1 DEF FormConnections
<1>3. form.drafts \in [Upstreams -> Drafts] /\ form.open \in BOOLEAN
  BY <1>0 DEF Editors
<1>4. PICK drafts \in [Upstreams -> Drafts] : drafts = [form.drafts EXCEPT ![up] = draft]
  BY <1>3
<1>5. PICK open \in BOOLEAN : open = TRUE
  OBVIOUS
<1>6. PICK next \in Editors :
        next = [form EXCEPT !.shown = before, !.open = open, !.up = up, !.drafts = drafts]
  BY <1>0 DEF Editors
<1>7. /\ next.there = form.there /\ next.shown = before /\ next.drafts = drafts
      /\ next.resolving = form.resolving /\ next.up = up
  BY <1>0, <1>6 DEF Editors
<1>8. next = [form EXCEPT !.shown = c.before, !.open = TRUE, !.up = c.from.up,
                          !.drafts[c.from.up] = c.from.draft]
  BY <1>0, <1>2, <1>4, <1>5, <1>6 DEF Editors
<1>9. Forms!Ended(c, next) /\ form' = IF c.mine THEN [next EXCEPT !.saving = FALSE] ELSE form
  BY <1>8 DEF Forms!SaveFails, Forms!Ended
<1>10. /\ ~c.mine => form' = form
       /\ c.mine => /\ form'.there = form.there /\ form'.drafts = drafts /\ form'.resolving = form.resolving
                    /\ form'.up = up /\ form'.shown = before
  BY <1>7, <1>9 DEF Editors
<1>11. c.mine => next.there \/ next = Forms!Gone
  BY <1>1, <1>7
<1>12. form'.there = form.there /\ form'.resolving = form.resolving
  BY <1>10
<1>13. ASSUME FormIsOnCourse, c.alone, ~(c.failed /\ slot = c.to)
       PROVE  DraftsFit' /\ ShownFits' /\ ShowsStored'
  <2>1. slot = c.before
    BY <1>0, <1>13 DEF FormIsOnCourse, CommandsFit, CommandFits
  <2>2. CASE c.mine
    <3>1. SaveFits(c)
      BY <1>0, <1>13, <2>2 DEF FormIsOnCourse, SavesFit
    <3>2. \A u \in Upstreams : drafts[u] = IF u = up THEN draft ELSE form.drafts[u]
      BY <1>3, <1>4
    <3>3. Fitting(up, draft) /\ Fitting(before.up, before.draft)
      BY <1>2, <3>1 DEF SaveFits
    <3>4. /\ draft.name = form.drafts[up].name /\ draft.custom = form.drafts[up].custom
          /\ \A u \in Upstreams : u # up => form.drafts[u].name = "blank"
      BY <1>2, <3>1 DEF SaveFits
    <3>5. \A u \in Upstreams : Fitting(u, form'.drafts[u])
      BY <1>10, <1>13, <2>2, <3>2, <3>3 DEF FormIsOnCourse, DraftsFit
    <3>6. ASSUME NEW l \in lookups, l.current
          PROVE  l.up = up /\ drafts[l.up].name = l.name /\ ~drafts[l.up].custom
      <4>1. l.up \in Upstreams /\ form.drafts[l.up].name = l.name /\ ~form.drafts[l.up].custom
        BY <1>0, <1>13, <3>6 DEF FormIsOnCourse, DraftsFit, Lookups
      <4>2. l.up = up
        BY <1>0, <3>4, <4>1
      <4>. QED  BY <3>2, <3>4, <4>1, <4>2
    <3>7. DraftsFit'
      BY <1>0, <1>10, <2>2, <3>5, <3>6 DEF DraftsFit
    <3>8. ShownFits' /\ ShowsStored'
      BY <1>0, <1>2, <1>10, <2>1, <2>2, <3>3 DEF ShownFits, ShowsStored, LabelFits
    <3>. QED  BY <3>7, <3>8
  <2>3. CASE ~c.mine
    <3>1. DraftsFit' /\ ShownFits'
      BY <1>0, <1>10, <1>13, <2>3 DEF FormIsOnCourse, DraftsFit, ShownFits
    <3>2. ShowsStored'
      BY <1>0, <1>1, <1>12, <1>13, <2>1, <2>3 DEF ShowsStored, LabelFits
    <3>. QED  BY <3>1, <3>2
  <2>. QED  BY <2>2, <2>3
<1>. QED  BY <1>0, <1>9, <1>11, <1>12, <1>13, EndingKeeps

LEMMA ClearedKeeps ==
  ASSUME FormInv, NEW c \in calls, Forms!Cleared(c)
  PROVE  FormInv'
<1>0. /\ c.kind = "clear" /\ ~c.failed /\ c.at = "done" /\ slot' = slot
      /\ lookups' = IF c.mine THEN Forms!Outdated ELSE lookups
      /\ label' = Forms!Label(c.to) /\ form \in Editors /\ lookups \in SUBSET Lookups
      /\ \A l \in lookups : l.name # "blank"
      /\ form.resolving => \E l \in lookups : l.current
      /\ ~form.there => lookups = {}
  BY DEF Forms!Cleared, Forms!Ended, FormInv, FormTypeOK, FormWaits
<1>1. c.to \in FormConnections /\ Fitting(c.to.up, c.to.draft) /\ (c.mine => form.there)
      /\ (c.alone /\ ~c.mine => ~form.there)
  BY <1>0 DEF FormInv, FormTypeOK, AnswersStand, CallsOfTheForm, FormCalls
<1>2. PICK to \in FormConnections : to = c.to
  BY <1>1
<1>3. PICK f \in Editors : f = [form EXCEPT !.shown = to]
  BY <1>0 DEF Editors
<1>4. f.there = form.there /\ f.shown = to
  BY <1>0, <1>3 DEF Editors
<1>5. PICK next \in Editors : next = Forms!Reset(f, to)
  BY ResetShows
<1>6. /\ next.there = f.there /\ next.shown = f.shown /\ next.resolving = FALSE
      /\ \A u \in Upstreams : next.drafts[u] = IF u = to.up THEN to.draft ELSE Forms!NoDraft
  BY <1>5, ResetShows
<1>7. Forms!Ended(c, next) /\ form' = IF c.mine THEN [next EXCEPT !.saving = FALSE] ELSE form
  BY <1>2, <1>3, <1>5 DEF Forms!Cleared, Forms!Ended
<1>8. /\ ~c.mine => form' = form
      /\ c.mine => /\ form'.there = form.there /\ form'.drafts = next.drafts /\ form'.resolving = FALSE
                   /\ form'.shown = to
  BY <1>4, <1>6, <1>7 DEF Editors
<1>9. /\ Forms!Outdated \in SUBSET Lookups
      /\ \A l \in Forms!Outdated : ~l.current /\ \E k \in lookups : l.name = k.name
  BY <1>0, OutdatedLookups
<1>10. /\ lookups' \in SUBSET Lookups /\ \A l \in lookups' : l.name # "blank"
       /\ form'.resolving => \E l \in lookups' : l.current
       /\ ~form'.there => lookups' = {}
  BY <1>0, <1>1, <1>8, <1>9
<1>11. c.mine => next.there \/ next = Forms!Gone
  BY <1>1, <1>4, <1>6
<1>12. ASSUME FormIsOnCourse, c.alone
       PROVE  DraftsFit' /\ ShownFits' /\ ShowsStored'
  <2>1. c.to = slot
    BY <1>0, <1>12 DEF FormInv, AnswersStand
  <2>2. CASE c.mine
    <3>1. DraftsFit'
      BY <1>0, <1>1, <1>2, <1>6, <1>8, <1>9, <2>2, FormValues DEF DraftsFit, Fitting
    <3>2. ShownFits' /\ ShowsStored'
      BY <1>0, <1>1, <1>2, <1>8, <2>1, <2>2 DEF ShownFits, ShowsStored, LabelFits
    <3>. QED  BY <3>1, <3>2
  <2>3. CASE ~c.mine
    <3>1. DraftsFit' /\ ShownFits'
      BY <1>0, <1>8, <1>12, <2>3 DEF FormIsOnCourse, DraftsFit, ShownFits
    <3>2. ShowsStored'
      BY <1>0, <1>1, <1>8, <1>12, <2>1, <2>3 DEF ShowsStored, LabelFits
    <3>. QED  BY <3>1, <3>2
  <2>. QED  BY <2>2, <2>3
<1>. QED  BY <1>0, <1>7, <1>10, <1>11, <1>12, EndingKeeps

LEMMA DeletedKeeps ==
  ASSUME FormInv, NEW c \in calls, Forms!Deleted(c)
  PROVE  FormInv'
<1>0. /\ c.kind = "delete" /\ ~c.failed /\ c.at = "done" /\ slot' = slot
      /\ lookups' = IF c.mine THEN {} ELSE lookups
      /\ label' = "none" /\ form \in Editors /\ lookups \in SUBSET Lookups
      /\ \A l \in lookups : l.name # "blank"
      /\ form.resolving => \E l \in lookups : l.current
      /\ ~form.there => lookups = {}
  BY DEF Forms!Deleted, Forms!Ended, FormInv, FormTypeOK, FormWaits
<1>1. c.to = Forms!NotConfigured /\ (c.alone /\ ~c.mine => ~form.there)
  BY <1>0 DEF FormInv, AnswersStand, CallsOfTheForm
<1>2. PICK next \in Editors : next = Forms!Gone
  BY FormStates
<1>3. Forms!Ended(c, next) /\ form' = IF c.mine THEN [next EXCEPT !.saving = FALSE] ELSE form
  BY <1>2 DEF Forms!Deleted, Forms!Ended
<1>4. /\ ~c.mine => form' = form
      /\ c.mine => /\ form'.there = FALSE /\ form'.drafts = next.drafts /\ form'.resolving = FALSE
                   /\ form'.shown = next.shown
  BY <1>2, <1>3, FormStates DEF Editors
<1>5. /\ lookups' \in SUBSET Lookups /\ \A l \in lookups' : l.name # "blank"
      /\ form'.resolving => \E l \in lookups' : l.current
      /\ ~form'.there => lookups' = {}
  BY <1>0, <1>4
<1>6. ASSUME FormIsOnCourse, c.alone
      PROVE  DraftsFit' /\ ShownFits' /\ ShowsStored'
  <2>1. slot = Forms!NotConfigured
    BY <1>0, <1>1, <1>6 DEF FormInv, AnswersStand
  <2>2. LabelFits' /\ ~form'.there
    BY <1>0, <1>1, <1>4, <1>6, <2>1 DEF LabelFits, Forms!Label, Forms!Configured
  <2>3. DraftsFit' /\ ShownFits'
    <3>1. CASE c.mine
      BY <1>0, <1>2, <1>4, <3>1, FormStates, FormValues DEF DraftsFit, ShownFits, Fitting
    <3>2. CASE ~c.mine
      BY <1>0, <1>4, <1>6, <3>2 DEF FormIsOnCourse, DraftsFit, ShownFits
    <3>. QED  BY <3>1, <3>2
  <2>. QED  BY <2>2, <2>3 DEF ShowsStored
<1>. QED  BY <1>0, <1>2, <1>3, <1>5, <1>6, EndingKeeps

LEMMA FailedRemovalKeeps ==
  ASSUME FormInv, NEW c \in calls, Forms!RemovalFails(c)
  PROVE  FormInv'
<1>0. /\ c.kind \in {"clear", "delete"} /\ c.failed /\ c.at = "done" /\ slot' = slot
      /\ lookups' = lookups /\ label' = label /\ form \in Editors /\ lookups \in SUBSET Lookups
      /\ \A l \in lookups : l.name # "blank"
      /\ form.resolving => \E l \in lookups : l.current
      /\ ~form.there => lookups = {}
  BY DEF Forms!RemovalFails, Forms!Ended, FormInv, FormTypeOK, FormWaits
<1>1. Forms!Ended(c, form) /\ form' = IF c.mine THEN [form EXCEPT !.saving = FALSE] ELSE form
  BY DEF Forms!RemovalFails, Forms!Ended
<1>2. /\ form'.there = form.there /\ form'.drafts = form.drafts /\ form'.resolving = form.resolving
      /\ form'.up = form.up /\ form'.shown = form.shown
  BY <1>0, <1>1 DEF Editors
<1>3. form.there \/ form = Forms!Gone
  BY DEF FormInv, FormWaits
<1>4. ASSUME FormIsOnCourse, c.alone, ~(c.failed /\ slot = c.to)
      PROVE  DraftsFit' /\ ShownFits' /\ ShowsStored'
  <2>1. ShowsStored
    BY <1>0, <1>4 DEF FormIsOnCourse, CommandsFit, CommandFits
  <2>2. DraftsFit' /\ ShownFits'
    BY <1>0, <1>2, <1>4 DEF FormIsOnCourse, DraftsFit, ShownFits
  <2>3. ShowsStored'
    BY <1>0, <1>2, <2>1 DEF ShowsStored, LabelFits
  <2>. QED  BY <2>2, <2>3
<1>. QED  BY <1>0, <1>1, <1>2, <1>3, <1>4, EndingKeeps

LEMMA FormStepKeeps ==
  ASSUME FormInv, [Forms!FormNext]_(Forms!formVars)
  PROVE  FormInv'
<1>1. CASE UNCHANGED Forms!formVars
  <2>1. /\ slot' = slot /\ form' = form /\ lookups' = lookups /\ calls' = calls /\ label' = label
        /\ astray' = astray
    BY <1>1 DEF Forms!formVars
  <2>2. FormTypeOK' /\ CallsMeet' /\ CallsOfTheForm' /\ AnswersStand' /\ FormWaits'
    BY <2>1 DEF FormInv, FormTypeOK, CallsMeet, CallsOfTheForm, AnswersStand, FormWaits
  <2>3. FormIsOnCourse => FormIsOnCourse'
    BY <2>1 DEF FormIsOnCourse, DraftsFit, ShownFits, SavesFit, SaveFits, StoredIsShown, OnlyLoads,
                LabelFits, CommandsFit, CommandFits, ShowsStored
  <2>. QED  BY <2>1, <2>2, <2>3 DEF FormInv
<1>2. CASE Forms!Perform
  BY <1>2, PerformingKeeps
<1>3. CASE Forms!Enter \/ Forms!Leave
  BY <1>3, EnteringKeeps, LeavingKeeps
<1>4. CASE Forms!Answer
  <2>1. PICK c \in calls :
          \/ Forms!Loaded(c) \/ Forms!Saved(c) \/ Forms!SaveFails(c) \/ Forms!Cleared(c)
          \/ Forms!Deleted(c) \/ Forms!RemovalFails(c)
    BY <1>4 DEF Forms!Answer
  <2>. QED  BY <2>1, LoadedKeeps, SavedKeeps, FailedSaveKeeps, ClearedKeeps, DeletedKeeps,
               FailedRemovalKeeps
<1>5. CASE \/ Forms!ToggleEditor \/ Forms!TypeName \/ Forms!SelectUpstream \/ Forms!SetCustomBaseUrl
           \/ Forms!TypeUrl \/ Forms!SendLookup \/ Forms!LookupEnds
  BY <1>5, TogglingKeeps, TypingNameKeeps, SelectingKeeps, SettingCustomKeeps, TypingUrlKeeps,
     SendingKeeps, AnsweredLookupKeeps
<1>6. CASE Forms!Save \/ Forms!Clear \/ Forms!Delete
  BY <1>6, SavingKeeps, RemovingKeeps
<1>. QED  BY <1>1, <1>2, <1>3, <1>4, <1>5, <1>6 DEF Forms!FormNext

LEMMA FormIsRight == FormInv => Forms!FormTellsTheTruth
<1>. SUFFICES ASSUME FormInv PROVE Forms!FormTellsTheTruth
  OBVIOUS
<1>1. ASSUME calls = {}, ~astray
      PROVE  label = Forms!Label(slot) /\ (form.there => form.shown = slot)
  BY <1>1 DEF FormInv, FormIsOnCourse, StoredIsShown, OnlyLoads, LabelFits
<1>2. ASSUME ~astray, ~Forms!Draft.custom, Forms!Draft.url # Forms!NoUrl
      PROVE  Forms!Draft.url = Forms!Endpoint(form.up, Forms!Draft.name)
  <2>1. form.up \in Upstreams
    BY DEF FormInv, FormTypeOK, Editors
  <2>. QED  BY <1>2, <2>1 DEF FormInv, FormIsOnCourse, DraftsFit, Fitting, Forms!Draft
<1>3. form.resolving => \E l \in lookups : l.current
  BY DEF FormInv, FormWaits
<1>. QED  BY <1>1, <1>2, <1>3 DEF Forms!FormTellsTheTruth

-----------------------------------------------------------------------------
(* All the parts together                                                  *)

PartsInv ==
  /\ part = "claude" => ClaudeInv
  /\ part = "codex" => CodexInv
  /\ part = "grok" => GrokInv
  /\ part = "cursor" => CursorInv
  /\ part = "antigravity" => AntigravityInv
  /\ part = "copilot" => CopilotInv
  /\ part = "sessions" => SessionInv
  /\ part = "form" => FormInv

LEMMA PartsBegin ==
  ASSUME ProvidersInit
  PROVE  PartsInv
<1>1. /\ part = "claude" => Claude!ClaudeInit
      /\ part = "codex" => Codex!CodexInit
      /\ part = "grok" => Grok!GrokInit
  BY DEF ProvidersInit
<1>2. /\ part = "cursor" => Cursor!CursorInit
      /\ part = "antigravity" => Antigravity!AntigravityInit
      /\ part = "sessions" => Sessions!SessionInit
      /\ part = "copilot" => Copilot!CopilotInit
      /\ part = "form" => Forms!FormInit
  BY DEF ProvidersInit
<1>. QED  BY <1>1, <1>2, ClaudeBegins, CodexBegins, GrokBegins, CursorBegins, AntigravityBegins,
             SessionBegins, CopilotBegins, FormBegins DEF PartsInv

LEMMA PartsStepKeeps ==
  ASSUME PartsInv, [ProvidersNext]_providerVars
  PROVE  PartsInv'
BY StepOfPart, ClaudeStepKeeps, CodexStepKeeps, GrokStepKeeps, CursorStepKeeps, AntigravityStepKeeps,
   SessionStepKeeps, CopilotStepKeeps, FormStepKeeps DEF PartsInv

(* Of a stored login that its server no longer renews the user was told,   *)
(* or will be at the end of the refresh, unless it crashed or dropped what *)
(* it had to say in one of the ways the model names, for Claude, Codex and *)
(* Grok; and a Sub2API refresh fails for a session that was refused only   *)
(* when a new login was refused too (claude/mod.rs, codex/mod.rs,          *)
(* grok/mod.rs, sub2api/mod.rs).                                           *)
THEOREM LossesAreExplained == ProvidersSpec => []LossExplained
<1>1. ProvidersInit => PartsInv
  BY PartsBegin
<1>2. PartsInv /\ [ProvidersNext]_providerVars => PartsInv'
  BY PartsStepKeeps
<1>3. PartsInv => LossExplained
  BY ClaudeIsRight, CodexIsRight, GrokIsRight, SessionIsRight DEF PartsInv, LossExplained
<1>. QED  BY <1>1, <1>2, <1>3, PTL DEF ProvidersSpec

(* Usage is shown under the account it is of, a snapshot is of one account *)
(* or one connection, and the form of a connection shows what is stored    *)
(* (claude/mod.rs, codex/mod.rs, cursor/mod.rs, antigravity/mod.rs,        *)
(* copilot/mod.rs, sub2api/mod.rs, Sub2ApiConfigSection.svelte).           *)
THEOREM UsageIsShownAsItsOwn == ProvidersSpec => []ShowsOwn
<1>1. ProvidersInit => PartsInv
  BY PartsBegin
<1>2. PartsInv /\ [ProvidersNext]_providerVars => PartsInv'
  BY PartsStepKeeps
<1>3. PartsInv => ShowsOwn
  <2>. SUFFICES ASSUME PartsInv PROVE ShowsOwn
    OBVIOUS
  <2>2. part = "antigravity" => Antigravity!AntigravityShowsOwn
    BY AntigravityIsRight DEF PartsInv
  <2>. QED  BY <2>2, ClaudeIsRight, CodexIsRight, CursorIsRight, CopilotIsRight, SessionIsRight,
               FormIsRight DEF PartsInv, ShowsOwn
<1>. QED  BY <1>1, <1>2, <1>3, PTL DEF ProvidersSpec

-----------------------------------------------------------------------------
(* The commands and the refreshes of a connection                          *)

USE DEF storedVars, history, NoKey, Unconfigured, NoRow, EmptyView, NoCommand, NoFlight,
        Rows, Views, Commands, Flights, At, Proceed, Unchanged, Current

LEMMA InitEstablishes == Init => ConnectionInv
<1>. SUFFICES ASSUME Init PROVE ConnectionInv
  OBVIOUS
<1>1. TypeOK
  <2>1. view \in Views /\ row \in Rows /\ flight \in Flights /\ command \in Commands
    BY DEF Init
  <2>2. enabled \in BOOLEAN
    BY DEF Init
  <2>. QED  BY <2>1, <2>2 DEF Init, TypeOK
<1>2. ClearedStaysEmpty /\ CommandsProgress /\ CleanSlot /\ DrainingShowsNothing
     /\ WorkerHoldsConnection
  BY DEF Init, ClearedStaysEmpty, CommandsProgress, CleanSlot, DrainingShowsNothing,
         WorkerHoldsConnection
<1>3. AnswersAreAwaited /\ OldDataWhileIdle
  BY DEF Init, AnswersAreAwaited, OldDataWhileIdle
<1>. QED  BY <1>1, <1>2, <1>3 DEF ConnectionInv

-----------------------------------------------------------------------------
LEMMA StartCommandKeeps ==
  ASSUME ConnectionInv, NEW kind \in {"save", "clear", "delete"}, StartCommand(kind)
  PROVE  ConnectionInv'
<1>. USE DEF ConnectionInv, StartCommand
<1>1. TypeOK'
  BY DEF TypeOK
<1>2. ClearedStaysEmpty' /\ CleanSlot'
  BY DEF TypeOK, ClearedStaysEmpty, CleanSlot, CommandsProgress
<1>3. CommandsProgress' /\ WorkerHoldsConnection'
  BY DEF TypeOK, CommandsProgress, WorkerHoldsConnection
<1>4. DrainingShowsNothing'
  BY DEF TypeOK, DrainingShowsNothing
<1>5. AnswersAreAwaited' /\ OldDataWhileIdle'
  BY DEF TypeOK, AnswersAreAwaited, OldDataWhileIdle, CommandsProgress,
         DrainingShowsNothing
<1>. QED  BY <1>1, <1>2, <1>3, <1>4, <1>5

LEMMA ChangeKeychainKeeps ==
  ASSUME ConnectionInv, ChangeKeychain
  PROVE  ConnectionInv'
<1>. USE DEF ConnectionInv, ChangeKeychain
<1>1. TypeOK'
  <2>1. keychain' \in Nat /\ saves' \in Nat /\ command' \in Commands
    BY DEF TypeOK
  <2>2. clean' \in BOOLEAN
    BY DEF TypeOK
  <2>. QED  BY <2>1, <2>2 DEF TypeOK
<1>2. ClearedStaysEmpty' /\ CleanSlot'
  BY DEF TypeOK, ClearedStaysEmpty, CleanSlot, CommandsProgress
<1>3. CommandsProgress' /\ WorkerHoldsConnection'
  BY DEF TypeOK, CommandsProgress, WorkerHoldsConnection
<1>4. DrainingShowsNothing'
  BY DEF TypeOK, DrainingShowsNothing
<1>5. AnswersAreAwaited' /\ OldDataWhileIdle'
  BY DEF TypeOK, AnswersAreAwaited, OldDataWhileIdle, CommandsProgress,
         DrainingShowsNothing
<1>. QED  BY <1>1, <1>2, <1>3, <1>4, <1>5

LEMMA SetConfiguredKeeps ==
  ASSUME ConnectionInv, SetConfigured
  PROVE  ConnectionInv'
<1>. USE DEF ConnectionInv, SetConfigured
<1>1. TypeOK'
  BY DEF TypeOK
<1>2. ClearedStaysEmpty' /\ CleanSlot'
  BY DEF TypeOK, ClearedStaysEmpty, CleanSlot, CommandsProgress
<1>3. CommandsProgress' /\ WorkerHoldsConnection'
  BY DEF TypeOK, CommandsProgress, WorkerHoldsConnection
<1>4. DrainingShowsNothing'
  BY DEF TypeOK, DrainingShowsNothing
<1>5. AnswersAreAwaited' /\ OldDataWhileIdle'
  BY DEF TypeOK, AnswersAreAwaited, OldDataWhileIdle, CommandsProgress,
         DrainingShowsNothing
<1>. QED  BY <1>1, <1>2, <1>3, <1>4, <1>5

LEMMA ReconcileKeeps ==
  ASSUME ConnectionInv, Reconcile
  PROVE  ConnectionInv'
<1>. USE DEF ConnectionInv, Reconcile
<1>1. TypeOK'
  BY DEF TypeOK
<1>2. ClearedStaysEmpty' /\ CleanSlot'
  BY DEF TypeOK, ClearedStaysEmpty, CleanSlot, CommandsProgress
<1>3. CommandsProgress' /\ WorkerHoldsConnection'
  BY DEF TypeOK, CommandsProgress, WorkerHoldsConnection
<1>4. DrainingShowsNothing'
  BY DEF TypeOK, DrainingShowsNothing
<1>5. AnswersAreAwaited' /\ OldDataWhileIdle'
  BY DEF TypeOK, AnswersAreAwaited, OldDataWhileIdle, CommandsProgress,
         DrainingShowsNothing
<1>. QED  BY <1>1, <1>2, <1>3, <1>4, <1>5

LEMMA DeleteSnapshotKeeps ==
  ASSUME ConnectionInv, DeleteSnapshot
  PROVE  ConnectionInv'
<1>. USE DEF ConnectionInv, DeleteSnapshot
<1>1. TypeOK'
  BY DEF TypeOK
<1>2. ClearedStaysEmpty' /\ CleanSlot'
  BY DEF TypeOK, ClearedStaysEmpty, CleanSlot, CommandsProgress
<1>3. CommandsProgress' /\ WorkerHoldsConnection'
  BY DEF TypeOK, CommandsProgress, WorkerHoldsConnection
<1>4. DrainingShowsNothing'
  BY DEF TypeOK, DrainingShowsNothing
<1>5. AnswersAreAwaited' /\ OldDataWhileIdle'
  BY DEF TypeOK, AnswersAreAwaited, OldDataWhileIdle, CommandsProgress,
         DrainingShowsNothing
<1>. QED  BY <1>1, <1>2, <1>3, <1>4, <1>5

LEMMA ResetViewKeeps ==
  ASSUME ConnectionInv, ResetView
  PROVE  ConnectionInv'
<1>. USE DEF ConnectionInv, ResetView
<1>1. TypeOK'
  BY DEF TypeOK
<1>2. ClearedStaysEmpty' /\ CleanSlot'
  BY DEF TypeOK, ClearedStaysEmpty, CleanSlot, CommandsProgress
<1>3. CommandsProgress' /\ WorkerHoldsConnection'
  BY DEF TypeOK, CommandsProgress, WorkerHoldsConnection
<1>4. DrainingShowsNothing'
  BY DEF TypeOK, DrainingShowsNothing
<1>5. AnswersAreAwaited' /\ OldDataWhileIdle'
  BY DEF TypeOK, AnswersAreAwaited, OldDataWhileIdle, CommandsProgress,
         DrainingShowsNothing
<1>. QED  BY <1>1, <1>2, <1>3, <1>4, <1>5

LEMMA CommandFailsKeeps ==
  ASSUME ConnectionInv, CommandFails
  PROVE  ConnectionInv'
<1>. USE DEF ConnectionInv, CommandFails
<1>1. TypeOK'
  BY DEF TypeOK
<1>2. ClearedStaysEmpty' /\ CleanSlot'
  BY DEF TypeOK, ClearedStaysEmpty, CleanSlot, CommandsProgress
<1>3. CommandsProgress' /\ WorkerHoldsConnection'
  BY DEF TypeOK, CommandsProgress, WorkerHoldsConnection
<1>4. DrainingShowsNothing'
  BY DEF TypeOK, DrainingShowsNothing
<1>5. AnswersAreAwaited' /\ OldDataWhileIdle'
  BY DEF TypeOK, AnswersAreAwaited, OldDataWhileIdle, CommandsProgress,
         DrainingShowsNothing
<1>. QED  BY <1>1, <1>2, <1>3, <1>4, <1>5

LEMMA RefreshAfterCommandKeeps ==
  ASSUME ConnectionInv, RefreshAfterCommand
  PROVE  ConnectionInv'
<1>. USE DEF ConnectionInv, RefreshAfterCommand, JoinOrStart, StartAttempt
<1>1. TypeOK'
  <2>1. flight' \in Flights
    <3>1. [flight EXCEPT !.followUp = TRUE] \in Flights
      BY DEF TypeOK
    <3>2. [NoFlight EXCEPT !.at = "load"] \in Flights
      OBVIOUS
    <3>. QED  BY <3>1, <3>2 DEF TypeOK
  <2>2. view' \in Views
    BY DEF TypeOK
  <2>3. refreshes' \in Nat
    BY DEF TypeOK
  <2>. QED  BY <2>1, <2>2, <2>3 DEF TypeOK
<1>2. ClearedStaysEmpty' /\ CleanSlot'
  BY DEF TypeOK, ClearedStaysEmpty, CleanSlot, CommandsProgress
<1>3. CommandsProgress' /\ WorkerHoldsConnection'
  BY DEF TypeOK, CommandsProgress, WorkerHoldsConnection
<1>4. DrainingShowsNothing'
  BY DEF TypeOK, DrainingShowsNothing
<1>5. AnswersAreAwaited' /\ OldDataWhileIdle'
  BY DEF TypeOK, AnswersAreAwaited, OldDataWhileIdle, CommandsProgress,
         DrainingShowsNothing
<1>. QED  BY <1>1, <1>2, <1>3, <1>4, <1>5

LEMMA RefreshKeeps ==
  ASSUME ConnectionInv, NEW forced \in BOOLEAN, Refresh(forced)
  PROVE  ConnectionInv'
<1>. USE DEF ConnectionInv, Refresh, JoinOrStart, StartAttempt
<1>1. TypeOK'
  <2>1. flight' \in Flights
    <3>1. [flight EXCEPT !.followUp = TRUE] \in Flights
      BY DEF TypeOK
    <3>2. [NoFlight EXCEPT !.at = "load"] \in Flights
      OBVIOUS
    <3>. QED  BY <3>1, <3>2 DEF TypeOK
  <2>2. view' \in Views
    BY DEF TypeOK
  <2>3. refreshes' \in Nat
    BY DEF TypeOK
  <2>. QED  BY <2>1, <2>2, <2>3 DEF TypeOK
<1>2. ClearedStaysEmpty' /\ CleanSlot'
  BY DEF TypeOK, ClearedStaysEmpty, CleanSlot, CommandsProgress
<1>3. CommandsProgress' /\ WorkerHoldsConnection'
  BY DEF TypeOK, CommandsProgress, WorkerHoldsConnection
<1>4. DrainingShowsNothing'
  BY DEF TypeOK, DrainingShowsNothing
<1>5. AnswersAreAwaited' /\ OldDataWhileIdle'
  BY DEF TypeOK, AnswersAreAwaited, OldDataWhileIdle, CommandsProgress,
         DrainingShowsNothing
<1>. QED  BY <1>1, <1>2, <1>3, <1>4, <1>5

LEMMA LoadConfigKeeps ==
  ASSUME ConnectionInv, LoadConfig
  PROVE  ConnectionInv'
<1>. USE DEF ConnectionInv, LoadConfig
<1>1. TypeOK'
  <2>1. (keychain = 0) \in BOOLEAN /\ (command # NoCommand /\ broken) \in BOOLEAN
    BY Zenon
  <2>2. flight' \in Flights
    BY <2>1 DEF TypeOK
  <2>3. broken' \in BOOLEAN
    BY <2>1, Zenon
  <2>. QED  BY <2>2, <2>3 DEF TypeOK
<1>2. ClearedStaysEmpty' /\ CleanSlot'
  BY DEF TypeOK, ClearedStaysEmpty, CleanSlot, CommandsProgress
<1>3. CommandsProgress' /\ WorkerHoldsConnection'
  BY DEF TypeOK, CommandsProgress, WorkerHoldsConnection
<1>4. DrainingShowsNothing'
  BY DEF TypeOK, DrainingShowsNothing
<1>5. AnswersAreAwaited' /\ OldDataWhileIdle'
  BY DEF TypeOK, AnswersAreAwaited, OldDataWhileIdle, CommandsProgress,
         DrainingShowsNothing
<1>. QED  BY <1>1, <1>2, <1>3, <1>4, <1>5

LEMMA FetchFailsKeeps ==
  ASSUME ConnectionInv, FetchFails
  PROVE  ConnectionInv'
<1>. USE DEF ConnectionInv, FetchFails
<1>1. TypeOK'
  BY ZenonT(30) DEF TypeOK
<1>2. ClearedStaysEmpty' /\ CleanSlot'
  BY DEF TypeOK, ClearedStaysEmpty, CleanSlot, CommandsProgress
<1>3. CommandsProgress' /\ WorkerHoldsConnection'
  BY DEF TypeOK, CommandsProgress, WorkerHoldsConnection
<1>4. DrainingShowsNothing'
  BY DEF TypeOK, DrainingShowsNothing
<1>5. AnswersAreAwaited' /\ OldDataWhileIdle'
  BY DEF TypeOK, AnswersAreAwaited, OldDataWhileIdle, CommandsProgress,
         DrainingShowsNothing
<1>. QED  BY <1>1, <1>2, <1>3, <1>4, <1>5

LEMMA FetchedKeeps ==
  ASSUME ConnectionInv, Fetched
  PROVE  ConnectionInv'
<1>. USE DEF ConnectionInv, Fetched
<1>1. TypeOK'
  <2>1. (IF configured THEN NoKey ELSE Unconfigured) \in {NoKey, Unconfigured}
    OBVIOUS
  <2>2. flight' \in Flights
    BY <2>1 DEF TypeOK
  <2>. QED  BY <2>2 DEF TypeOK
<1>2. ClearedStaysEmpty' /\ CleanSlot'
  BY DEF TypeOK, ClearedStaysEmpty, CleanSlot, CommandsProgress
<1>3. CommandsProgress' /\ WorkerHoldsConnection'
  BY DEF TypeOK, CommandsProgress, WorkerHoldsConnection
<1>4. DrainingShowsNothing'
  BY DEF TypeOK, DrainingShowsNothing
<1>5. AnswersAreAwaited' /\ OldDataWhileIdle'
  BY DEF TypeOK, AnswersAreAwaited, OldDataWhileIdle, CommandsProgress,
         DrainingShowsNothing
<1>. QED  BY <1>1, <1>2, <1>3, <1>4, <1>5

LEMMA CacheSnapshotKeeps ==
  ASSUME ConnectionInv, CacheSnapshot
  PROVE  ConnectionInv'
<1>. USE DEF ConnectionInv, CacheSnapshot
<1>1. TypeOK'
  <2>1. flight' \in Flights
    <3>1. [flight EXCEPT !.at = "show"] \in Flights
      BY DEF TypeOK
    <3>2. [flight EXCEPT !.at = "show", !.failed = TRUE] \in Flights
      BY DEF TypeOK
    <3>. QED  BY <3>1, <3>2
  <2>2. row' \in Rows
    BY DEF TypeOK
  <2>. QED  BY <2>1, <2>2 DEF TypeOK
<1>2. ClearedStaysEmpty' /\ CleanSlot'
  <2>1. flight'.of = flight.of
    BY DEF TypeOK
  <2>2. ~clean
    BY DEF CleanSlot, WorkerHoldsConnection
  <2>. QED  BY <2>1, <2>2 DEF ClearedStaysEmpty, CleanSlot
<1>3. CommandsProgress' /\ WorkerHoldsConnection'
  BY DEF TypeOK, CommandsProgress, WorkerHoldsConnection
<1>4. DrainingShowsNothing'
  BY DEF TypeOK, DrainingShowsNothing
<1>5. AnswersAreAwaited' /\ OldDataWhileIdle'
  BY DEF TypeOK, AnswersAreAwaited, OldDataWhileIdle, CommandsProgress,
         DrainingShowsNothing
<1>. QED  BY <1>1, <1>2, <1>3, <1>4, <1>5

LEMMA ShowResultKeeps ==
  ASSUME ConnectionInv, ShowResult
  PROVE  ConnectionInv'
<1>. USE DEF ConnectionInv, ShowResult
<1>1. TypeOK'
  <2>. DEFINE shown == IF flight.of = 0 THEN [view EXCEPT !.error = TRUE]
                       ELSE [of |-> flight.of, live |-> TRUE, error |-> flight.failed]
  <2>1. shown \in Views
    BY DEF TypeOK
  <2>2. [shown EXCEPT !.error = FALSE] \in Views
    BY <2>1
  <2>3. view' \in Views
    BY <2>1, <2>2
  <2>4. flight' \in Flights
    <3>1. [NoFlight EXCEPT !.at = "load"] \in Flights /\ NoFlight \in Flights
      OBVIOUS
    <3>. QED  BY <3>1
  <2>. QED  BY <2>3, <2>4 DEF TypeOK
<1>2. ClearedStaysEmpty' /\ CleanSlot'
  BY DEF TypeOK, ClearedStaysEmpty, CleanSlot, CommandsProgress
<1>3. CommandsProgress' /\ WorkerHoldsConnection'
  BY DEF TypeOK, CommandsProgress, WorkerHoldsConnection
<1>4. DrainingShowsNothing'
  BY DEF TypeOK, DrainingShowsNothing
<1>5. AnswersAreAwaited' /\ OldDataWhileIdle'
  BY DEF TypeOK, AnswersAreAwaited, OldDataWhileIdle, CommandsProgress,
         DrainingShowsNothing
<1>. QED  BY <1>1, <1>2, <1>3, <1>4, <1>5

LEMMA TimeOutKeeps ==
  ASSUME ConnectionInv, TimeOut
  PROVE  ConnectionInv'
<1>. USE DEF ConnectionInv, TimeOut
<1>1. TypeOK'
  <2>1. [NoFlight EXCEPT !.at = "draining"] \in Flights
    OBVIOUS
  <2>2. [view EXCEPT !.error = TRUE] \in Views
    BY DEF TypeOK
  <2>. QED  BY <2>1, <2>2 DEF TypeOK
<1>2. ClearedStaysEmpty' /\ CleanSlot'
  BY DEF TypeOK, ClearedStaysEmpty, CleanSlot, CommandsProgress
<1>3. CommandsProgress' /\ WorkerHoldsConnection'
  BY DEF TypeOK, CommandsProgress, WorkerHoldsConnection
<1>4. DrainingShowsNothing'
  BY DEF TypeOK, DrainingShowsNothing
<1>5. AnswersAreAwaited' /\ OldDataWhileIdle'
  BY DEF TypeOK, AnswersAreAwaited, OldDataWhileIdle, CommandsProgress,
         DrainingShowsNothing
<1>. QED  BY <1>1, <1>2, <1>3, <1>4, <1>5

LEMMA DrainedKeeps ==
  ASSUME ConnectionInv, Drained
  PROVE  ConnectionInv'
<1>. USE DEF ConnectionInv, Drained
<1>1. TypeOK'
  BY DEF TypeOK
<1>2. ClearedStaysEmpty' /\ CleanSlot'
  BY DEF TypeOK, ClearedStaysEmpty, CleanSlot, CommandsProgress
<1>3. CommandsProgress' /\ WorkerHoldsConnection'
  BY DEF TypeOK, CommandsProgress, WorkerHoldsConnection
<1>4. DrainingShowsNothing'
  BY DEF TypeOK, DrainingShowsNothing
<1>5. AnswersAreAwaited' /\ OldDataWhileIdle'
  BY DEF TypeOK, AnswersAreAwaited, OldDataWhileIdle, CommandsProgress,
         DrainingShowsNothing
<1>. QED  BY <1>1, <1>2, <1>3, <1>4, <1>5

LEMMA RestartKeeps ==
  ASSUME ConnectionInv, Restart
  PROVE  ConnectionInv'
<1>. USE DEF ConnectionInv, Restart, LoadedAtLaunch
<1>1. TypeOK'
  BY DEF TypeOK
<1>2. ClearedStaysEmpty' /\ CleanSlot'
  BY DEF TypeOK, ClearedStaysEmpty, CleanSlot, CommandsProgress
<1>3. CommandsProgress' /\ WorkerHoldsConnection'
  BY DEF TypeOK, CommandsProgress, WorkerHoldsConnection
<1>4. DrainingShowsNothing'
  BY DEF TypeOK, DrainingShowsNothing
<1>5. AnswersAreAwaited' /\ OldDataWhileIdle'
  BY DEF TypeOK, AnswersAreAwaited, OldDataWhileIdle, CommandsProgress,
         DrainingShowsNothing
<1>. QED  BY <1>1, <1>2, <1>3, <1>4, <1>5

LEMMA StutterKeeps ==
  ASSUME ConnectionInv, UNCHANGED vars
  PROVE  ConnectionInv'
  BY DEF vars, ConnectionInv, TypeOK, ClearedStaysEmpty, CommandsProgress, CleanSlot,
         WorkerHoldsConnection, DrainingShowsNothing, AnswersAreAwaited, OldDataWhileIdle

LEMMA StepKeeps == ConnectionInv /\ [Next]_vars => ConnectionInv'
<1>. SUFFICES ASSUME ConnectionInv, [Next]_vars PROVE ConnectionInv'
  OBVIOUS
<1>1. CASE Command
  BY <1>1, StartCommandKeeps, ChangeKeychainKeeps, SetConfiguredKeeps, ReconcileKeeps,
     DeleteSnapshotKeeps, ResetViewKeeps, CommandFailsKeeps DEF Command
<1>2. CASE Flight
  BY <1>2, RefreshAfterCommandKeeps, RefreshKeeps, LoadConfigKeeps, FetchFailsKeeps,
     FetchedKeeps, CacheSnapshotKeeps, ShowResultKeeps, TimeOutKeeps, DrainedKeeps
     DEF Flight
<1>3. CASE Restart
  BY <1>3, RestartKeeps
<1>4. CASE UNCHANGED vars
  BY <1>4, StutterKeeps
<1>. QED  BY <1>1, <1>2, <1>3, <1>4 DEF Next

-----------------------------------------------------------------------------
(* The inductive invariant of a Sub2API slot (clear_provider_data() beside *)
(* a refresh flight); among its parts, a cleared slot stays empty.         *)
THEOREM ConnectionInvariant == Spec => []ConnectionInv
  BY InitEstablishes, StepKeeps, PTL DEF Spec

(* Live data of another connection is shown under an error only, once the  *)
(* refresh that follows a command is over (refresh() of service.rs).       *)
THEOREM OldDataIsMarked == Spec => []OldDataOnlyUnderError
<1>1. ConnectionInv => OldDataOnlyUnderError
  BY DEF ConnectionInv, OldDataWhileIdle, DrainingShowsNothing, OldDataOnlyUnderError,
         Quiet, TypeOK
<1>. QED  BY <1>1, ConnectionInvariant, PTL

(* What a clear or a deletion emptied stays empty until the next save.     *)
THEOREM ClearedSlotsStayEmpty == Spec => []ClearedStaysEmpty
<1>1. ConnectionInv => ClearedStaysEmpty
  BY DEF ConnectionInv
<1>. QED  BY <1>1, ConnectionInvariant, PTL
=============================================================================
