------------------------- MODULE Background_proofs -------------------------
(***************************************************************************)
(* Proofs about what runs in the background: the thread of the price lists *)
(* (PricingStore), for any sources, versions and launches, the loop of     *)
(* refreshes (RefreshLoop), for any rounds and changes of the frequency,   *)
(* and the claims of resets (ResetClaim), for any credits, expiries and    *)
(* number of requests.                                                     *)
(*                                                                         *)
(* Prices: every etag, in state.json, in memory or with the thread, names  *)
(* a version no newer than the file (EtagsBehind), so an answer "not       *)
(* modified" is about the very file there is (FilesConfirmed); and the     *)
(* snapshot differs from what a load takes of the files that can be read   *)
(* only while the thread owes a rebuild (RebuildOwed).                     *)
(*                                                                         *)
(* Loop: the interval is computed and waited for in separate steps, and a  *)
(* frequency stored at any point in between leaves a permit behind, or a   *)
(* command that will (IntervalIsAsked).                                    *)
(*                                                                         *)
(* Claims: whatever a request that may still be sent has spent is the      *)
(* credit matched to it (SpendsItsMatch), so a repeated request spends the *)
(* same credit again or none; ids are used in the order they are made      *)
(* (FreshIds), each for one expiry (OneExpiryEach); and a request whose    *)
(* outcome said that it spent nothing is never sent again (ToldTheTruth).  *)
(***************************************************************************)
EXTENDS PricingStore, RefreshLoop, ResetClaim, TLAPS

-----------------------------------------------------------------------------
(* The price lists                                                         *)

Versions == [Sources -> Nat]
Etags == [Sources -> Int]

Threads == [at : {"none", "fetch", "rebuild", "persist"}, left : SUBSET Sources,
            etags : Etags, changed : BOOLEAN]

PriceTypeOK ==
  /\ published \in Versions /\ file \in Versions /\ prices \in Versions
  /\ confirmed \in Versions /\ bundled \in Versions
  /\ stateFile \in Etags /\ etags \in Etags /\ thread \in Threads

EtagsBehind ==
  \A s \in Sources :
    stateFile[s] <= file[s] /\ etags[s] <= file[s] /\ thread.etags[s] <= file[s]

FilesConfirmed ==
  \A s \in Sources : confirmed[s] <= file[s] /\ file[s] <= published[s]

PricesLoaded == \A s \in Sources \ unread : prices[s] = Loaded(s, bundled, {})

RebuildOwed == thread.at \in {"none", "persist"} \/ thread.changed = FALSE => PricesLoaded

PriceInv == PriceTypeOK /\ EtagsBehind /\ FilesConfirmed /\ RebuildOwed

USE DEF NoEtag, NoFile, Versions, Etags, Threads

LEMMA NoThreadIsIdle ==
  NoThread \in Threads /\ NoThread.at = "none" /\ \A s \in Sources : NoThread.etags[s] = -1
BY DEF NoThread

-----------------------------------------------------------------------------
LEMMA PricesStayLoaded ==
  ASSUME PricesLoaded, UNCHANGED <<file, bundled, prices, unread>>
  PROVE  PricesLoaded'
BY DEF PricesLoaded, Loaded

(* What a load takes: a version, of every file that could be read its own. *)
LEMMA LoadTakesFiles ==
  ASSUME file \in Versions, NEW release \in Versions, Load(release)
  PROVE  /\ prices' \in Versions
         /\ \A s \in Sources \ unread' : prices'[s] = Loaded(s, release, {})
<1>1. PICK damaged \in SUBSET Sources :
        /\ prices' = [s \in Sources |-> Loaded(s, release, damaged)]
        /\ unread' = damaged
  BY DEF Load
<1>2. \A s \in Sources : Loaded(s, release, damaged) \in Nat
  BY DEF Loaded
<1>3. \A s \in Sources \ damaged : Loaded(s, release, damaged) = Loaded(s, release, {})
  BY DEF Loaded
<1>. QED  BY <1>1, <1>2, <1>3

LEMMA PublishKeeps ==
  ASSUME PriceInv, NEW s \in Sources, Publish(s)
  PROVE  PriceInv'
<1>. USE DEF PriceInv, PriceTypeOK, Publish
<1>1. published' \in Versions /\ \A t \in Sources : published[t] <= published'[t]
  OBVIOUS
<1>2. PriceTypeOK' /\ EtagsBehind' /\ RebuildOwed'
  BY <1>1, PricesStayLoaded DEF EtagsBehind, RebuildOwed
<1>3. FilesConfirmed'
  <2>1. ASSUME NEW t \in Sources
        PROVE  confirmed'[t] <= file'[t] /\ file'[t] <= published'[t]
    BY <1>1 DEF FilesConfirmed
  <2>. QED  BY <2>1 DEF FilesConfirmed
<1>. QED  BY <1>2, <1>3

LEMMA StartFetchingKeeps ==
  ASSUME PriceInv, NEW due \in SUBSET Sources, StartFetching(due)
  PROVE  PriceInv'
<1>. USE DEF PriceInv, PriceTypeOK, StartFetching
<1>1. thread' \in Threads /\ thread'.at = "fetch" /\ thread'.etags = etags /\ thread'.changed = FALSE
  OBVIOUS
<1>2. PricesLoaded'
  BY PricesStayLoaded DEF RebuildOwed
<1>. QED  BY <1>1, <1>2 DEF EtagsBehind, FilesConfirmed, RebuildOwed

(* The server calls the file unmodified, or sends its list.                *)
LEMMA FetchSourceKeeps ==
  ASSUME PriceInv, NEW s \in Sources, FetchSource(s)
  PROVE  PriceInv'
<1>. USE DEF PriceInv, PriceTypeOK
<1>0. /\ thread.at = "fetch"
      /\ UNCHANGED <<published, bundled, stateFile, etags, prices, unread, starts>>
      /\ thread.left \in SUBSET Sources /\ thread.etags \in Etags
      /\ \A t \in Sources : thread.etags[t] <= file[t] /\ file[t] <= published[t]
                              /\ confirmed[t] <= file[t]
  BY DEF FetchSource, EtagsBehind, FilesConfirmed
<1>1. CASE /\ thread.etags[s] = published[s] /\ Done(s)
           /\ confirmed' = [confirmed EXCEPT ![s] = published[s]] /\ file' = file
  <2>1. thread' \in Threads /\ thread'.at = "fetch" /\ thread'.etags = thread.etags
        /\ thread'.changed = thread.changed
    BY <1>0, <1>1 DEF Done
  <2>2. file[s] = published[s]
    BY <1>0, <1>1
  <2>3. confirmed' \in Versions /\ \A t \in Sources : confirmed'[t] <= file[t]
    BY <1>0, <1>1, <2>2
  <2>4. RebuildOwed'
    BY <1>0, <1>1, <2>1, PricesStayLoaded DEF RebuildOwed
  <2>. QED  BY <1>0, <1>1, <2>1, <2>3, <2>4 DEF EtagsBehind, FilesConfirmed
<1>2. ASSUME NEW etag \in {published[s], NoEtag},
             thread' = [thread EXCEPT !.left = @ \ {s}, !.etags[s] = etag, !.changed = TRUE],
             file' = [file EXCEPT ![s] = published[s]],
             confirmed' = [confirmed EXCEPT ![s] = published[s]]
      PROVE  PriceInv'
  <2>1. etag \in Int /\ etag <= published[s]
    BY <1>2
  <2>2. thread' \in Threads /\ thread'.at = "fetch" /\ thread'.changed = TRUE
        /\ thread'.etags = [thread.etags EXCEPT ![s] = etag]
    BY <1>0, <1>2, <2>1
  <2>3. file' \in Versions /\ confirmed' \in Versions
        /\ \A t \in Sources : file[t] <= file'[t] /\ file'[t] <= published[t]
                                /\ confirmed'[t] <= file'[t]
    BY <1>0, <1>2
  <2>4. \A t \in Sources : thread'.etags[t] <= file'[t]
    BY <1>0, <1>2, <2>1, <2>2
  <2>5. EtagsBehind'
    <3>1. ASSUME NEW t \in Sources
          PROVE  stateFile[t] <= file'[t] /\ etags[t] <= file'[t]
      BY <2>3 DEF EtagsBehind
    <3>. QED  BY <1>0, <2>4, <3>1 DEF EtagsBehind
  <2>. QED  BY <1>0, <2>2, <2>3, <2>5 DEF FilesConfirmed, RebuildOwed
<1>3. CASE Done(s) /\ UNCHANGED <<file, confirmed>>
  <2>1. thread' \in Threads /\ thread'.at = "fetch" /\ thread'.etags = thread.etags
        /\ thread'.changed = thread.changed
    BY <1>0, <1>3 DEF Done
  <2>2. RebuildOwed'
    BY <1>0, <1>3, <2>1, PricesStayLoaded DEF RebuildOwed
  <2>. QED  BY <1>0, <1>3, <2>1, <2>2 DEF EtagsBehind, FilesConfirmed
<1>. QED  BY <1>1, <1>2, <1>3 DEF FetchSource

LEMMA ThreadEndsKeep ==
  ASSUME PriceInv, StoreStates \/ Rebuild \/ PersistStates
  PROVE  PriceInv'
<1>. USE DEF PriceInv, PriceTypeOK
<1>1. CASE StoreStates
  <2>1. thread' \in Threads /\ thread'.at = "rebuild" /\ thread'.etags = thread.etags
        /\ thread'.changed = thread.changed
    BY <1>1 DEF StoreStates
  <2>2. RebuildOwed'
    BY <1>1, <2>1, PricesStayLoaded DEF StoreStates, RebuildOwed
  <2>. QED  BY <1>1, <2>1, <2>2 DEF StoreStates, EtagsBehind, FilesConfirmed
<1>2. CASE Rebuild
  <2>1. thread' \in Threads /\ thread'.at = "persist" /\ thread'.etags = thread.etags
    BY <1>2 DEF Rebuild
  <2>2. prices' \in Versions /\ PricesLoaded'
    <3>1. CASE thread.changed /\ Load(bundled)
      <4>1. /\ prices' \in Versions
            /\ \A s \in Sources \ unread' : prices'[s] = Loaded(s, bundled, {})
        BY <3>1, LoadTakesFiles
      <4>. QED  BY <1>2, <4>1 DEF Rebuild, PricesLoaded, Loaded
    <3>2. CASE unread' = Sources /\ UNCHANGED prices
      BY <3>2 DEF PricesLoaded
    <3>3. CASE ~thread.changed /\ UNCHANGED <<prices, unread>>
      BY <1>2, <3>3, PricesStayLoaded DEF Rebuild, RebuildOwed
    <3>. QED  BY <1>2, <3>1, <3>2, <3>3 DEF Rebuild
  <2>. QED  BY <1>2, <2>1, <2>2 DEF Rebuild, EtagsBehind, FilesConfirmed, RebuildOwed
<1>3. CASE PersistStates
  <2>1. thread.etags \in Etags /\ PricesLoaded'
    BY <1>3, PricesStayLoaded DEF PersistStates, RebuildOwed
  <2>2. \A s \in Sources : -1 <= file[s]
    OBVIOUS
  <2>. QED  BY <1>3, <2>1, <2>2, NoThreadIsIdle
            DEF PersistStates, EtagsBehind, FilesConfirmed, RebuildOwed
<1>. QED  BY <1>1, <1>2, <1>3

LEMMA ReopenKeeps ==
  ASSUME PriceInv, Reopen
  PROVE  PriceInv'
<1>. USE DEF PriceInv, PriceTypeOK, Reopen
<1>1. \A s \in Sources : -1 <= file[s]
  OBVIOUS
<1>2. etags' \in Etags /\ \A s \in Sources : etags'[s] <= file[s]
  BY <1>1 DEF EtagsBehind
<1>3. bundled' \in Versions
  BY PricingAssumption
<1>4. /\ prices' \in Versions
      /\ \A s \in Sources \ unread' : prices'[s] = Loaded(s, bundled', {})
  <2>1. \A release \in Versions : Load(release) =>
          /\ prices' \in Versions
          /\ \A s \in Sources \ unread' : prices'[s] = Loaded(s, release, {})
    BY LoadTakesFiles
  <2>. QED  BY <1>3, <2>1
<1>5. PricesLoaded'
  BY <1>4 DEF PricesLoaded, Loaded
<1>. QED  BY <1>1, <1>2, <1>3, <1>4, <1>5, NoThreadIsIdle
          DEF EtagsBehind, FilesConfirmed, RebuildOwed

LEMMA PriceStepKeeps ==
  ASSUME PriceInv, [PriceNext]_priceVars
  PROVE  PriceInv'
<1>1. CASE UNCHANGED priceVars
  BY <1>1, PricesStayLoaded
     DEF priceVars, PriceInv, PriceTypeOK, EtagsBehind, FilesConfirmed, RebuildOwed
<1>. QED  BY <1>1, PublishKeeps, StartFetchingKeeps, FetchSourceKeeps, ThreadEndsKeep, ReopenKeeps
          DEF PriceNext

(* No etag is ahead of its file, and the snapshot is what a load takes of  *)
(* the files, but for those it could not read, unless a rebuild is owed    *)
(* (fetch_source, refresh_due, load_pricing in pricing/store.rs).          *)
THEOREM PriceInvariant == PriceSpec => []PriceInv
<1>1. PriceInit => PriceInv
  <2>. SUFFICES ASSUME PriceInit PROVE PriceInv
    OBVIOUS
  <2>1. PriceTypeOK
    BY NoThreadIsIdle, PricingAssumption DEF PriceInit, PriceTypeOK
  <2>2. EtagsBehind /\ FilesConfirmed /\ RebuildOwed
    BY NoThreadIsIdle
       DEF PriceInit, EtagsBehind, FilesConfirmed, RebuildOwed, PricesLoaded, Loaded
  <2>. QED  BY <2>1, <2>2 DEF PriceInv
<1>. QED  BY <1>1, PriceStepKeeps, PTL DEF PriceSpec

(* When no thread is at work the prices in use of each source are those of *)
(* its file, or those bundled if there is none or theirs are dated later,  *)
(* and at least the version the server last sent or called unmodified, but *)
(* for a file that the last load could not take (pricing/store.rs).        *)
THEOREM PricesStayCurrent == PriceSpec => []PricesAreCurrent
<1>1. PriceInv => PricesAreCurrent
  <2>. SUFFICES ASSUME PriceInv, thread.at = "none", NEW s \in Sources \ unread
                PROVE  prices[s] = Loaded(s, bundled, {}) /\ confirmed[s] <= prices[s]
    BY DEF PricesAreCurrent
  <2>1. prices[s] = Loaded(s, bundled, {})
    BY DEF PriceInv, RebuildOwed, PricesLoaded
  <2>2. file[s] <= Loaded(s, bundled, {})
    BY DEF PriceInv, PriceTypeOK, Loaded
  <2>. QED  BY <2>1, <2>2 DEF PriceInv, PriceTypeOK, FilesConfirmed
<1>. QED  BY <1>1, PriceInvariant, PTL

-----------------------------------------------------------------------------
(* The loop                                                                *)

Stages == {"start", "round", "counted", "set", "finishing", "waiting"}

IntervalIsAsked ==
  /\ at \in [Refreshers -> Stages] /\ idle \in BOOLEAN
  /\ at["loop"] \in {"finishing", "waiting"} /\ ~permit /\ change = "none" /\ ~idle =>
       /\ frequency = "oneMinute" => wait = Fast
       /\ frequency = "fiveMinutes" => wait = Slow

LEMMA MoveKeepsStages ==
  ASSUME NEW r \in Refreshers, NEW to \in Stages, at \in [Refreshers -> Stages], Move(r, to)
  PROVE  /\ at' \in [Refreshers -> Stages] /\ at'[r] = to
         /\ \A q \in Refreshers \ {r} : at'[q] = at[q]
BY DEF Move

LEMMA RoundKeeps ==
  ASSUME IntervalIsAsked, NEW r \in Refreshers, Round(r)
  PROVE  IntervalIsAsked'
<1>. USE DEF IntervalIsAsked, Refreshers, Stages
<1>1. CASE StartRound(r)
  <2>1. Move(r, "round") /\ UNCHANGED <<frequency, permit, change, wait>>
    BY <1>1 DEF StartRound
  <2>2. /\ idle' \in BOOLEAN
        /\ r = "page" => (idle' <=> idle)
    BY <1>1, Zenon DEF StartRound
  <2>. QED  BY <2>1, <2>2, MoveKeepsStages
<1>2. CASE ComputeInterval(r)
  <2>1. Move(r, "counted") /\ UNCHANGED <<frequency, permit, change, wait, idle>>
    BY <1>2 DEF ComputeInterval
  <2>. QED  BY <2>1, MoveKeepsStages
<1>3. CASE SetInterval(r)
  <2>1. Move(r, "set") /\ UNCHANGED <<frequency, permit, change, wait, idle>>
    BY <1>3 DEF SetInterval
  <2>. QED  BY <2>1, MoveKeepsStages
<1>4. CASE EndRound(r)
  <2>1. Move(r, IF r = "loop" THEN "finishing" ELSE "waiting")
    BY <1>4 DEF EndRound
  <2>2. /\ UNCHANGED <<frequency, permit, change, idle>>
        /\ wait' = IF r = "loop" THEN RefreshInterval ELSE wait
    BY <1>4 DEF EndRound
  <2>3. /\ frequency = "oneMinute" => RefreshInterval = Fast
        /\ frequency = "fiveMinutes" => RefreshInterval = Slow
    BY DEF RefreshInterval
  <2>. QED  BY <2>1, <2>2, <2>3, MoveKeepsStages
<1>. QED  BY <1>1, <1>2, <1>3, <1>4 DEF Round

LEMMA WaitKeeps ==
  ASSUME IntervalIsAsked, NothingToRefresh \/ BeginWait \/ TimerFires \/ Woken
  PROVE  IntervalIsAsked'
<1>. USE DEF IntervalIsAsked, Refreshers, Stages
<1>1. CASE NothingToRefresh
  BY <1>1, MoveKeepsStages DEF NothingToRefresh
<1>2. CASE BeginWait
  BY <1>2, MoveKeepsStages DEF BeginWait
<1>3. CASE TimerFires \/ Woken
  BY <1>3, MoveKeepsStages DEF TimerFires, Woken
<1>. QED  BY <1>1, <1>2, <1>3

LEMMA CommandKeeps ==
  ASSUME IntervalIsAsked, StoreFrequency \/ ResetUnchanged \/ NotifyOne
  PROVE  IntervalIsAsked'
BY DEF IntervalIsAsked, StoreFrequency, ResetUnchanged, NotifyOne

(* A loop that waits and has not been woken waits as long as the frequency *)
(* in force says (refresh_loop.rs, service.rs).                            *)
THEOREM LoopWaitsAsAsked == LoopFairSpec => []WaitsAsAsked
<1>1. LoopInit => IntervalIsAsked
  BY DEF LoopInit, IntervalIsAsked, Refreshers, Stages
<1>2. IntervalIsAsked /\ [LoopNext]_loopVars => IntervalIsAsked'
  <2>. SUFFICES ASSUME IntervalIsAsked, [LoopNext]_loopVars
                PROVE  IntervalIsAsked'
    OBVIOUS
  <2>1. CASE UNCHANGED loopVars
    BY <2>1 DEF loopVars, IntervalIsAsked
  <2>. QED  BY <2>1, RoundKeeps, WaitKeeps, CommandKeeps DEF LoopNext
<1>3. IntervalIsAsked => WaitsAsAsked
  BY DEF IntervalIsAsked, WaitsAsAsked
<1>. QED  BY <1>1, <1>2, <1>3, PTL DEF LoopFairSpec

-----------------------------------------------------------------------------
(* The claims of resets                                                    *)

Claims == [at : {"none", "list", "consume"}, expiry : Expiries \union {NoExpiry},
           credit : Credits \union {NoCredit}]
Outcomes == [id : Nat, is : {"none", "success", "failed", "noCredit", "nothingToReset"}]

ClaimTypeOK ==
  /\ spent \in [Credits -> Nat] /\ requestIds \in [Expiries -> Nat]
  /\ made \in 0 .. MaxRequests /\ pending \in 0 .. MaxRequests
  /\ confirming \in Expiries \union {NoExpiry}
  /\ claims \in [Ids -> Claims] /\ matched \in [Ids -> Credits \union {NoCredit}]
  /\ outcome \in Outcomes

(* What a claim that consumes has is what was matched to its request.      *)
ConsumesItsMatch ==
  \A i \in Ids :
    /\ claims[i].at = "list" => matched[i] = NoCredit
    /\ claims[i].at = "consume" => claims[i].credit = matched[i] /\ matched[i] \in Credits
    /\ claims[i].at # "none" => claims[i].expiry \in Expiries

(* The request may still be sent, now or when the user tries again.        *)
Alive(i) == claims[i].at # "none" \/ \E e \in Expiries : requestIds[e] = i

SpendsItsMatch ==
  \A i \in Ids : Alive(i) => \A c \in Credits : spent[c] = i => c = matched[i]

SpentOnce == \A c, d \in Credits : spent[c] # 0 /\ spent[c] = spent[d] => c = d

FreshIds ==
  /\ \A c \in Credits : spent[c] <= made
  /\ \A e \in Expiries : requestIds[e] <= made
  /\ \A i \in Ids : i > made => claims[i].at = "none"

OneExpiryEach ==
  \A e, f \in Expiries : requestIds[e] # 0 /\ requestIds[e] = requestIds[f] => e = f

PendingIsKept ==
  /\ pending # 0 => claims[pending].at # "none" /\ requestIds[claims[pending].expiry] = pending
  /\ pending = 0 /\ confirming # NoExpiry => requestIds[confirming] # 0

ToldTheTruth ==
  outcome.id # 0 =>
    /\ outcome.id \in Ids
    /\ outcome.is = "success" => \E c \in Credits : spent[c] = outcome.id
    /\ outcome.is \in {"noCredit", "nothingToReset"} =>
         /\ \A c \in Credits : spent[c] # outcome.id
         /\ ~Alive(outcome.id)

ClaimInv ==
  /\ ClaimTypeOK /\ ConsumesItsMatch /\ SpendsItsMatch /\ SpentOnce
  /\ FreshIds /\ OneExpiryEach /\ PendingIsKept /\ ToldTheTruth

USE DEF Ids, Claims, Outcomes, NoClaim, NoOutcome

-----------------------------------------------------------------------------
LEMMA BeginClaimKeeps ==
  ASSUME ClaimInv, NEW e \in Expiries, BeginClaim(e)
  PROVE  ClaimInv'
<1>. USE ClaimAssumption DEF ClaimInv, ClaimTypeOK
<1>1. CASE requestIds[e] # 0
  <2>1. UNCHANGED <<expiryOf, spent, requestIds, made, pending, claims, matched>>
        /\ confirming' = e /\ outcome' = NoOutcome
    BY <1>1 DEF BeginClaim
  <2>. QED  BY <1>1, <2>1 DEF ConsumesItsMatch, SpendsItsMatch, Alive, SpentOnce, FreshIds,
                              OneExpiryEach, PendingIsKept, ToldTheTruth
<1>2. CASE requestIds[e] = 0
  <2>1. /\ UNCHANGED <<expiryOf, spent, pending, claims, matched>>
        /\ pending = 0 /\ confirming' = e /\ outcome' = NoOutcome
        /\ made' = made + 1 /\ made' \in Ids
        /\ requestIds' = [requestIds EXCEPT ![e] = made']
    BY <1>2 DEF BeginClaim
  <2>2. requestIds' \in [Expiries -> Nat] /\ requestIds'[e] = made'
        /\ \A f \in Expiries : f # e => requestIds'[f] = requestIds[f]
    BY <2>1
  <2>3. ClaimTypeOK' /\ ConsumesItsMatch' /\ SpentOnce' /\ ToldTheTruth'
    BY <2>1, <2>2 DEF ConsumesItsMatch, SpentOnce, ToldTheTruth
  <2>4. FreshIds' /\ OneExpiryEach' /\ PendingIsKept'
    BY <2>1, <2>2 DEF FreshIds, OneExpiryEach, PendingIsKept
  <2>5. SpendsItsMatch'
    <3>. SUFFICES ASSUME NEW i \in Ids, Alive(i)', NEW c \in Credits, spent[c] = i
                  PROVE  c = matched[i]
      BY <2>1 DEF SpendsItsMatch
    <3>1. i # made'
      BY <2>1 DEF FreshIds
    <3>2. Alive(i)
      BY <2>1, <2>2, <3>1 DEF Alive
    <3>. QED  BY <3>2 DEF SpendsItsMatch
  <2>. QED  BY <2>3, <2>4, <2>5
<1>. QED  BY <1>1, <1>2

LEMMA CancelClaimKeeps ==
  ASSUME ClaimInv, CancelClaim
  PROVE  ClaimInv'
BY DEF CancelClaim, ClaimInv, ClaimTypeOK, ConsumesItsMatch, SpendsItsMatch, Alive, SpentOnce,
       FreshIds, OneExpiryEach, PendingIsKept, ToldTheTruth

LEMMA ConfirmClaimKeeps ==
  ASSUME ClaimInv, ConfirmClaim
  PROVE  ClaimInv'
<1>. USE ClaimAssumption DEF ClaimInv, ClaimTypeOK
<1>. DEFINE id == requestIds[confirming]
            claim == [at |-> IF matched[id] = NoCredit THEN "list" ELSE "consume",
                      expiry |-> confirming, credit |-> matched[id]]
<1>1. confirming \in Expiries /\ id # 0 /\ id \in Ids
  BY DEF ConfirmClaim, PendingIsKept, FreshIds
<1>2. pending' = id /\ claims' = [claims EXCEPT ![id] = claim]
      /\ UNCHANGED <<expiryOf, spent, requestIds, made, confirming, matched, outcome>>
  BY DEF ConfirmClaim
<1>3. claim \in Claims /\ claim.at # "none" /\ claim.expiry = confirming
      /\ claim.credit = matched[id] /\ (claim.at = "list" <=> matched[id] = NoCredit)
      /\ claim.at \in {"list", "consume"}
  BY <1>1
<1>4. requestIds[confirming] = id
  OBVIOUS
<1>. HIDE DEF claim, id
<1>5. claims' \in [Ids -> Claims] /\ claims'[id] = claim
      /\ \A i \in Ids : i # id => claims'[i] = claims[i]
  BY <1>1, <1>2, <1>3
<1>6. \A i \in Ids : Alive(i)' => Alive(i)
  BY <1>1, <1>2, <1>4, <1>5 DEF Alive
<1>7. ClaimTypeOK' /\ ConsumesItsMatch' /\ PendingIsKept' /\ SpentOnce' /\ OneExpiryEach'
  BY <1>1, <1>2, <1>3, <1>4, <1>5 DEF ConsumesItsMatch, PendingIsKept, SpentOnce, OneExpiryEach
<1>8. FreshIds'
  BY <1>1, <1>2, <1>4, <1>5 DEF FreshIds
<1>9. SpendsItsMatch' /\ ToldTheTruth'
  BY <1>2, <1>6 DEF SpendsItsMatch, ToldTheTruth
<1>. QED  BY <1>7, <1>8, <1>9

(* The page forgets its ids, and a launch the claims under way.            *)
LEMMA ForgettingKeeps ==
  ASSUME ClaimInv, CloseDetail \/ Relaunch
  PROVE  ClaimInv'
<1>. USE ClaimAssumption DEF ClaimInv, ClaimTypeOK
<1>1. requestIds' = [e \in Expiries |-> 0] /\ confirming' = NoExpiry /\ pending' = 0
      /\ outcome' = NoOutcome /\ UNCHANGED <<spent, made>>
  BY DEF CloseDetail, Relaunch
<1>2. CASE CloseDetail
  BY <1>1, <1>2 DEF CloseDetail, ConsumesItsMatch, SpendsItsMatch, Alive, SpentOnce, FreshIds,
                    OneExpiryEach, PendingIsKept, ToldTheTruth
<1>3. CASE Relaunch
  BY <1>1, <1>3 DEF Relaunch, ConsumesItsMatch, SpendsItsMatch, Alive, SpentOnce, FreshIds,
                    OneExpiryEach, PendingIsKept, ToldTheTruth
<1>. QED  BY <1>2, <1>3

-----------------------------------------------------------------------------
(* An outcome that is true of the request when it arrives.                 *)
LEMMA AnswerKeeps ==
  ASSUME ClaimInv, NEW id \in Ids, claims[id].at # "none",
         NEW is \in {"success", "failed", "noCredit", "nothingToReset"},
         Answer(id, is), UNCHANGED <<expiryOf, made, matched>>,
         spent' \in [Credits -> Nat],
         \A c \in Credits : spent'[c] = spent[c] \/ (spent[c] = 0 /\ spent'[c] = id),
         \A c \in Credits : spent'[c] = id => c = matched[id],
         is = "success" => \E c \in Credits : spent'[c] = id,
         is \in {"noCredit", "nothingToReset"} => \A c \in Credits : spent'[c] # id
  PROVE  ClaimInv'
<1>. USE ClaimAssumption DEF ClaimInv, ClaimTypeOK
<1>1. claims' = [claims EXCEPT ![id] = NoClaim]
  BY DEF Answer
<1>2. NoClaim \in Claims /\ NoClaim.at = "none"
  OBVIOUS
<1>3. claims' \in [Ids -> Claims] /\ claims'[id].at = "none"
      /\ \A i \in Ids : i # id => claims'[i] = claims[i]
  BY <1>1, <1>2
<1>4. id <= made
  BY DEF FreshIds
<1>5. claims[id].expiry \in Expiries
  BY DEF ConsumesItsMatch
<1>6. requestIds' \in [Expiries -> Nat]
      /\ \A e \in Expiries : requestIds'[e] = requestIds[e] \/ requestIds'[e] = 0
  BY <1>5 DEF Answer
<1>7. \A i \in Ids : Alive(i)' => Alive(i)
  BY <1>3, <1>6 DEF Alive
<1>8. ConsumesItsMatch'
  <2>. SUFFICES ASSUME NEW i \in Ids, claims'[i].at # "none"
                PROVE  /\ claims'[i].at = "list" => matched[i] = NoCredit
                       /\ claims'[i].at = "consume" =>
                            claims'[i].credit = matched[i] /\ matched[i] \in Credits
                       /\ claims'[i].expiry \in Expiries
    BY DEF ConsumesItsMatch
  <2>1. claims'[i] = claims[i]
    BY <1>3
  <2>. QED  BY <2>1 DEF ConsumesItsMatch
<1>9. SpendsItsMatch'
  BY <1>7 DEF SpendsItsMatch
<1>10. SpentOnce'
  <2>. SUFFICES ASSUME NEW c \in Credits, NEW d \in Credits, spent'[c] # 0, spent'[c] = spent'[d]
                PROVE  c = d
    BY DEF SpentOnce
  <2>1. CASE spent'[c] = id
    BY <2>1
  <2>2. CASE spent'[c] # id
    BY <2>2 DEF SpentOnce
  <2>. QED  BY <2>1, <2>2
<1>11. FreshIds'
  <2>1. \A c \in Credits : spent'[c] <= made
    BY <1>4 DEF FreshIds
  <2>2. ASSUME NEW e \in Expiries PROVE requestIds'[e] <= made
    <3>1. requestIds[e] <= made /\ 0 <= made
      BY DEF FreshIds
    <3>2. requestIds'[e] = requestIds[e] \/ requestIds'[e] = 0
      BY <1>6
    <3>. QED  BY <3>1, <3>2
  <2>3. \A i \in Ids : i > made => claims'[i].at = "none"
    BY <1>3 DEF FreshIds
  <2>. QED  BY <2>1, <2>2, <2>3 DEF FreshIds
<1>12. OneExpiryEach'
  BY <1>6 DEF OneExpiryEach
<1>13. CASE pending # id
  <2>1. UNCHANGED <<requestIds, confirming, pending, outcome>>
    BY <1>13 DEF Answer
  <2>2. ClaimTypeOK'
    BY <1>3, <2>1
  <2>3. PendingIsKept'
    BY <1>3, <1>13, <2>1 DEF PendingIsKept
  <2>4. ToldTheTruth'
    <3>1. CASE outcome.id = 0
      BY <2>1, <3>1 DEF ToldTheTruth
    <3>2. CASE outcome.id # 0 /\ outcome.is = "success"
      BY <2>1, <3>2 DEF ToldTheTruth
    <3>3. CASE outcome.id # 0 /\ outcome.is \in {"noCredit", "nothingToReset"}
      <4>1. outcome.id # id
        BY <3>3 DEF ToldTheTruth, Alive
      <4>2. outcome.id \in Ids /\ ~Alive(outcome.id)'
        BY <1>7, <2>1, <3>3 DEF ToldTheTruth
      <4>. QED  BY <2>1, <3>3, <4>1, <4>2 DEF ToldTheTruth
    <3>4. CASE outcome.id # 0 /\ outcome.is \notin {"success", "noCredit", "nothingToReset"}
      BY <2>1, <3>4 DEF ToldTheTruth
    <3>. QED  BY <3>1, <3>2, <3>3, <3>4
  <2>. QED  BY <1>8, <1>9, <1>10, <1>11, <1>12, <2>2, <2>3, <2>4
<1>14. CASE pending = id
  <2>1. outcome' = [id |-> id, is |-> is] /\ pending' = 0 /\ confirming' = NoExpiry
    BY <1>14 DEF Answer
  <2>2. ClaimTypeOK' /\ PendingIsKept'
    BY <1>3, <1>6, <2>1 DEF PendingIsKept
  <2>3. is # "failed" => ~Alive(id)'
    <3>. SUFFICES ASSUME is # "failed" PROVE ~Alive(id)'
      OBVIOUS
    <3>1. requestIds' = [requestIds EXCEPT ![claims[id].expiry] = 0]
      BY <1>14 DEF Answer
    <3>2. requestIds[claims[id].expiry] = id
      BY <1>14 DEF PendingIsKept
    <3>3. \A e \in Expiries : requestIds'[e] # id
      BY <1>5, <3>1, <3>2 DEF OneExpiryEach
    <3>. QED  BY <1>3, <3>3 DEF Alive
  <2>4. ToldTheTruth'
    BY <2>1, <2>3 DEF ToldTheTruth
  <2>. QED  BY <1>8, <1>9, <1>10, <1>11, <1>12, <2>2, <2>4
<1>. QED  BY <1>13, <1>14

LEMMA ListCreditsKeeps ==
  ASSUME ClaimInv, NEW id \in Ids, ListCredits(id)
  PROVE  ClaimInv'
<1>. USE ClaimAssumption DEF ClaimInv, ClaimTypeOK
<1>1. claims[id].at = "list" /\ matched[id] = NoCredit /\ UNCHANGED <<expiryOf, spent, made>>
  BY DEF ListCredits, ConsumesItsMatch
<1>2. \A c \in Credits : spent[c] # id
  BY <1>1 DEF SpendsItsMatch, Alive
<1>3. ASSUME NEW c \in Credits, Matched(id, c), matched' = [matched EXCEPT ![id] = c]
      PROVE  ClaimInv'
  <2>1. claims' = [claims EXCEPT ![id] = [@ EXCEPT !.at = "consume", !.credit = c]]
        /\ UNCHANGED <<requestIds, confirming, pending, outcome>>
    BY <1>3 DEF Matched
  <2>2. /\ claims' \in [Ids -> Claims] /\ claims'[id].at = "consume" /\ claims'[id].credit = c
        /\ claims'[id].expiry = claims[id].expiry
        /\ \A i \in Ids : i # id => claims'[i] = claims[i]
    BY <2>1
  <2>3. matched' \in [Ids -> Credits \union {NoCredit}] /\ matched'[id] = c
        /\ \A i \in Ids : i # id => matched'[i] = matched[i]
    BY <1>3
  <2>4. \A i \in Ids : (claims'[i].at # "none" <=> claims[i].at # "none")
                          /\ (claims'[i].at # "none" => claims'[i].expiry = claims[i].expiry)
    BY <1>1, <2>2
  <2>5. \A i \in Ids : Alive(i)' <=> Alive(i)
    BY <2>1, <2>4 DEF Alive
  <2>6. ClaimTypeOK' /\ ConsumesItsMatch' /\ SpentOnce' /\ OneExpiryEach'
    BY <1>1, <2>1, <2>2, <2>3 DEF ConsumesItsMatch, SpentOnce, OneExpiryEach
  <2>7. SpendsItsMatch'
    BY <1>1, <1>2, <2>3, <2>5 DEF SpendsItsMatch
  <2>8. FreshIds'
    BY <1>1, <2>1, <2>4 DEF FreshIds
  <2>9. PendingIsKept'
    BY <2>1, <2>4 DEF PendingIsKept
  <2>10. ToldTheTruth'
    BY <1>1, <2>1, <2>5 DEF ToldTheTruth
  <2>. QED  BY <2>6, <2>7, <2>8, <2>9, <2>10
<1>4. ASSUME NoneMatches(id), UNCHANGED matched
      PROVE  ClaimInv'
  <2>1. PICK is \in {"noCredit", "failed"} : Answer(id, is)
    BY <1>4 DEF NoneMatches
  <2>. QED  BY <1>1, <1>2, <1>4, <2>1, AnswerKeeps
<1>. QED  BY <1>3, <1>4 DEF ListCredits

LEMMA ConsumeKeeps ==
  ASSUME ClaimInv, NEW id \in Ids, Consume(id)
  PROVE  ClaimInv'
<1>. USE ClaimAssumption DEF ClaimInv, ClaimTypeOK
<1>. DEFINE c == claims[id].credit
<1>1. claims[id].at = "consume" /\ c = matched[id] /\ c \in Credits
      /\ UNCHANGED <<expiryOf, made, matched>>
  BY DEF Consume, ConsumesItsMatch
<1>2. \A d \in Credits : spent[d] = id => d = c
  BY <1>1 DEF SpendsItsMatch, Alive
<1>. HIDE DEF c
<1>3. CASE spent[c] = 0 /\ spent' = [spent EXCEPT ![c] = id]
           /\ \E is \in {"success", "failed"} : Answer(id, is)
  <2>1. PICK is \in {"success", "failed"} : Answer(id, is)
    BY <1>3
  <2>2. spent' \in [Credits -> Nat] /\ spent'[c] = id
        /\ \A d \in Credits : d # c => spent'[d] = spent[d]
    BY <1>1, <1>3
  <2>3. /\ \A d \in Credits : spent'[d] = spent[d] \/ (spent[d] = 0 /\ spent'[d] = id)
        /\ \A d \in Credits : spent'[d] = id => d = matched[id]
        /\ \E d \in Credits : spent'[d] = id
    BY <1>1, <1>2, <1>3, <2>2
  <2>4. claims[id].at # "none" /\ is \notin {"noCredit", "nothingToReset"}
    BY <1>1
  <2>. QED  BY <1>1, <2>1, <2>2, <2>3, <2>4, AnswerKeeps
<1>4. CASE spent[c] = id /\ Answer(id, "success") /\ UNCHANGED spent
  BY <1>1, <1>2, <1>4, AnswerKeeps
<1>5. CASE spent[c] \notin {0, id} /\ Answer(id, "noCredit") /\ UNCHANGED spent
  BY <1>1, <1>2, <1>5, AnswerKeeps
<1>6. CASE spent[c] = 0 /\ Answer(id, "nothingToReset") /\ UNCHANGED spent
  BY <1>1, <1>2, <1>6, AnswerKeeps
<1>7. CASE Answer(id, "failed") /\ UNCHANGED spent
  BY <1>1, <1>2, <1>7, AnswerKeeps
<1>. QED  BY <1>3, <1>4, <1>5, <1>6, <1>7 DEF Consume, c

-----------------------------------------------------------------------------
LEMMA InitEstablishes ==
  ASSUME ClaimInit
  PROVE  ClaimInv
<1>. USE ClaimAssumption DEF ClaimInit
<1>1. ClaimTypeOK /\ ConsumesItsMatch /\ SpentOnce /\ FreshIds /\ OneExpiryEach
  BY DEF ClaimTypeOK, ConsumesItsMatch, SpentOnce, FreshIds, OneExpiryEach
<1>2. SpendsItsMatch /\ PendingIsKept /\ ToldTheTruth
  BY DEF SpendsItsMatch, Alive, PendingIsKept, ToldTheTruth
<1>. QED  BY <1>1, <1>2 DEF ClaimInv

LEMMA StepKeeps ==
  ASSUME ClaimInv, [ClaimNext]_claimVars
  PROVE  ClaimInv'
<1>1. CASE UNCHANGED claimVars
  BY <1>1 DEF claimVars, ClaimInv, ClaimTypeOK, ConsumesItsMatch, SpendsItsMatch, Alive, SpentOnce,
              FreshIds, OneExpiryEach, PendingIsKept, ToldTheTruth
<1>. QED  BY <1>1, BeginClaimKeeps, CancelClaimKeeps, ConfirmClaimKeeps, ForgettingKeeps,
             ListCreditsKeeps, ConsumeKeeps DEF ClaimNext

(* However often a claim is tried it spends one credit at most, and what   *)
(* the page says of a request is true of it (reset_claim.rs,               *)
(* ResetCreditsDetail.svelte).                                             *)
THEOREM ClaimsSpendOnce == ClaimSpec => []OneCreditPerClaim
<1>1. ClaimInit => ClaimInv
  BY InitEstablishes
<1>2. ClaimInv /\ [ClaimNext]_claimVars => ClaimInv'
  BY StepKeeps
<1>3. ClaimInv => OneCreditPerClaim
  BY DEF ClaimInv, SpentOnce, ToldTheTruth, OneCreditPerClaim
<1>. QED  BY <1>1, <1>2, <1>3, PTL DEF ClaimSpec
=============================================================================
