---------------------------- MODULE PricingStore ----------------------------
(***************************************************************************)
(* The price lists (pricing/store.rs): callers get the snapshot at once,   *)
(* and when a source is due one background thread fetches the due sources  *)
(* one after the other, with the etag of the file it has, writes each file *)
(* and, after all of them, the snapshot and state.json.  The program may   *)
(* end between any two steps.                                              *)
(*                                                                         *)
(* A list is the number of its version, in the order of the dates; an etag *)
(* names a version, and the server never goes back to an older one.  A     *)
(* release bundles a list of each source, which may be newer than the      *)
(* server's.  That a source is due (24 h, or 30 min after a failure) is a  *)
(* choice, and so is that a file that was written cannot be read, or is    *)
(* damaged.                                                                *)
(***************************************************************************)
EXTENDS Integers

CONSTANTS Sources,      \* SourceId::ALL
          Dated,        \* of them, those whose lists have a date: the supplement
          Bundles,      \* versions of the lists that releases bundle
          MaxVersions,  \* bound: versions the server publishes
          MaxStarts     \* bound: launches of the program

ASSUME PricingAssumption == Dated \subseteq Sources /\ Bundles \subseteq Nat

NoEtag == -1
NoFile == 0

VARIABLES
  published,  \* the version of each source on the server
  bundled,    \* the version of each source bundled with the release that runs
  file,       \* the version of each cache file
  stateFile,  \* the etags of state.json
  etags,      \* the etags of source_states
  prices,     \* the versions in the snapshot
  thread,     \* the background thread
  unread,     \* sources whose file the last load could not take (history)
  confirmed,  \* the version the server last answered for (history)
  starts

priceVars == <<published, bundled, file, stateFile, etags, prices, unread, thread, confirmed, starts>>

NoThread == [at |-> "none", left |-> {}, etags |-> [s \in Sources |-> NoEtag], changed |-> FALSE]

PriceInit ==
  /\ published = [s \in Sources |-> 1]
  /\ bundled \in [Sources -> Bundles] /\ prices = bundled
  /\ file = [s \in Sources |-> NoFile] /\ unread = {}
  /\ stateFile = [s \in Sources |-> NoEtag] /\ etags = stateFile
  /\ thread = NoThread
  /\ confirmed = [s \in Sources |-> 0] /\ starts = 1

Publish(s) ==
  /\ published[s] < MaxVersions
  /\ published' = [published EXCEPT ![s] = @ + 1]
  /\ UNCHANGED <<bundled, file, stateFile, etags, prices, unread, thread, confirmed, starts>>

(* current(): compare_exchange lets one thread start.                      *)
StartFetching(due) ==
  /\ thread.at = "none" /\ due # {}
  /\ thread' = [at |-> "fetch", left |-> due, etags |-> etags, changed |-> FALSE]
  /\ UNCHANGED <<published, bundled, file, stateFile, etags, prices, unread, confirmed, starts>>

Done(s) == thread' = [thread EXCEPT !.left = @ \ {s}]

(* Variant: the etag is taken over before the file is written.             *)
EtagFirst(s) ==
  /\ thread.at = "fetch" /\ s \in thread.left
  /\ \/ /\ thread.etags[s] = published[s] /\ Done(s)
        /\ confirmed' = [confirmed EXCEPT ![s] = published[s]]
        /\ UNCHANGED file
     \/ /\ thread.etags[s] # published[s]
        /\ \E etag \in {published[s], NoEtag}, written \in BOOLEAN :
             /\ thread' = [thread EXCEPT !.left = @ \ {s}, !.etags[s] = etag,
                                     !.changed = @ \/ written]
             /\ file' = IF written THEN [file EXCEPT ![s] = published[s]] ELSE file
             /\ confirmed' = IF written THEN [confirmed EXCEPT ![s] = published[s]] ELSE confirmed
     \/ Done(s) /\ UNCHANGED <<file, confirmed>>
  /\ UNCHANGED <<published, bundled, stateFile, etags, prices, unread, starts>>

(* fetch_source: not modified; a list, which is written and may come       *)
(* without an etag; or a failure of the request, the body or the write.    *)
FetchSource(s) ==
  /\ thread.at = "fetch" /\ s \in thread.left
  /\ \/ /\ thread.etags[s] = published[s] /\ Done(s)
        /\ confirmed' = [confirmed EXCEPT ![s] = published[s]]
        /\ UNCHANGED file
     \/ /\ thread.etags[s] # published[s]
        /\ \E etag \in {published[s], NoEtag} :
             thread' = [thread EXCEPT !.left = @ \ {s}, !.etags[s] = etag, !.changed = TRUE]
        /\ file' = [file EXCEPT ![s] = published[s]]
        /\ confirmed' = [confirmed EXCEPT ![s] = published[s]]
     \/ Done(s) /\ UNCHANGED <<file, confirmed>>
  /\ UNCHANGED <<published, bundled, stateFile, etags, prices, unread, starts>>

StoreStates ==
  /\ thread.at = "fetch" /\ thread.left = {}
  /\ etags' = thread.etags
  /\ thread' = [thread EXCEPT !.at = "rebuild"]
  /\ UNCHANGED <<published, bundled, file, stateFile, prices, unread, confirmed, starts>>

(* What load_pricing takes of source s: the cache file (the models of a    *)
(* catalog that the file lacks come from the release), but what the        *)
(* release bundles if there is no file, if it cannot be read or decoded,   *)
(* or if the bundled list has the later date.                              *)
Loaded(s, release, damaged) ==
  IF file[s] = NoFile \/ s \in damaged \/ (s \in Dated /\ release[s] > file[s])
  THEN release[s] ELSE file[s]

Load(release) ==
  \E damaged \in SUBSET {s \in Sources : file[s] # NoFile} :
    /\ prices' = [s \in Sources |-> Loaded(s, release, damaged)]
    /\ unread' = damaged

(* load_pricing over all files, when one of them changed.  Should it fail, *)
(* which only bundled lists that cannot be decoded make it do, the         *)
(* snapshot stays.                                                         *)
Rebuild ==
  /\ thread.at = "rebuild"
  /\ \/ thread.changed /\ Load(bundled)
     \/ thread.changed /\ unread' = Sources /\ UNCHANGED prices
     \/ ~thread.changed /\ UNCHANGED <<prices, unread>>
  /\ thread' = [thread EXCEPT !.at = "persist"]
  /\ UNCHANGED <<published, bundled, file, stateFile, etags, confirmed, starts>>

(* state.json, which may fail; then another thread may start.              *)
PersistStates ==
  /\ thread.at = "persist"
  /\ stateFile' \in {thread.etags, stateFile}
  /\ thread' = NoThread
  /\ UNCHANGED <<published, bundled, file, etags, prices, unread, confirmed, starts>>

(* The program ends or crashes, and the same or another release starts     *)
(* from its files; state.json may be unreadable.                           *)
Reopen ==
  /\ starts < MaxStarts /\ starts' = starts + 1
  /\ bundled' \in [Sources -> Bundles]
  /\ etags' \in {stateFile, [s \in Sources |-> NoEtag]}
  /\ Load(bundled')
  /\ thread' = NoThread
  /\ UNCHANGED <<published, file, stateFile, confirmed>>

PriceNext ==
  \/ \E s \in Sources : Publish(s) \/ FetchSource(s)
  \/ \E due \in SUBSET Sources : StartFetching(due)
  \/ StoreStates \/ Rebuild \/ PersistStates \/ Reopen

PriceSpec == PriceInit /\ [][PriceNext]_priceVars

-----------------------------------------------------------------------------
(* When no thread is at work the prices in use of each source are those of *)
(* its file, or those the release bundles if there is no file or theirs    *)
(* have the later date, and never older than the version the server last   *)
(* sent or called unmodified: whichever requests and writes failed, and    *)
(* wherever the program crashed before.  Only a file that could not be     *)
(* read or decoded at the last load is excepted.                           *)
PricesAreCurrent ==
  thread.at = "none" =>
    \A s \in Sources \ unread : prices[s] = Loaded(s, bundled, {}) /\ confirmed[s] <= prices[s]
=============================================================================
