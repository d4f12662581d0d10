------------------------------ MODULE Layouts ------------------------------
(* The cards and their metrics through releases of the program             *)
(* (settings.rs).  Each release knows other providers and metrics; at each *)
(* launch the stored layout is made one of the release, and the providers  *)
(* no launch has seen before are turned on if their credentials are found. *)
(* The metrics are those of one provider that every release has.  Names,   *)
(* proxies, appearance and what is expanded are left out; what happens     *)
(* while credentials are probed is the subject of CredentialDetection.     *)
EXTENDS Integers, SequencesExt, FiniteSetsExt

CONSTANTS Releases,     \* sequence of [providers, fallback, metrics]
          MaxPins,      \* MAX_PINS_PER_PROVIDER
          MaxEdits,     \* bound: edits of the user
          MaxLaunches   \* bound: launches

VARIABLES release,
          known,       \* known_provider_ids
          providers,   \* the layout: providers in their order
          metrics,     \* and the metrics of the one provider
          probe,       \* auto_enable_provider_ids and replace_fallback, or NoProbe
          switched,    \* what the user last chose for each provider (history)
          starred,     \* and for the pin of each metric (history)
          arranged,    \* the pairs he last saw one before the other (history)
          edits, launches

layoutVars == <<release, known, providers, metrics, probe,
                switched, starred, arranged, edits, launches>>

Catalog == Releases[release]
ProviderIds == UNION {ToSet(Releases[i].providers) : i \in DOMAIN Releases}
MetricIds == UNION {{Releases[i].metrics[j].id : j \in DOMAIN Releases[i].metrics} :
                      i \in DOMAIN Releases}

NoProbe == [auto |-> {}, replace |-> FALSE, running |-> FALSE]

Ids(list) == [i \in DOMAIN list |-> list[i].id]
Has(list, id) == \E i \in DOMAIN list : list[i].id = id
Entry(list, id) == CHOOSE entry \in ToSet(list) : entry.id = id
WithEntry(list, entry) ==
  [i \in DOMAIN list |-> IF list[i].id = entry.id THEN entry ELSE list[i]]

(* The entries at some places of a list, in their order (as by SelectSeq,  *)
(* of which the provers know nothing).                                     *)
Place(at, k) == CHOOSE i \in at : Cardinality(at \intersect (1 .. i)) = k
Entries(list, at) == [k \in 1 .. Cardinality(at) |-> list[Place(at, k)]]

(* Each provider with those that come after it.                            *)
Before(list) ==
  {pair \in ProviderIds \X ProviderIds :
     \E i, j \in DOMAIN list : i < j /\ list[i].id = pair[1] /\ list[j].id = pair[2]}

Detected == {entry.id : entry \in {e \in ToSet(providers) : e.detected}}

-----------------------------------------------------------------------------
(* normalize_metrics()                                                     *)

DefaultMetric(definition) ==
  [id |-> definition.id, enabled |-> TRUE, always |-> definition.always,
   pinned |-> definition.pinned]
DefaultMetrics(definitions) ==
  [i \in DOMAIN definitions |-> DefaultMetric(definitions[i])]

Stars(list) == {metric.id : metric \in {m \in ToSet(list) : m.pinned}}
Pins(list) == Cardinality(Stars(list))

(* The first ones keep their stars.                                        *)
CapPins(list, definitions) ==
  LET wanted == {i \in DOMAIN list :
                   list[i].pinned /\ Entry(definitions, list[i].id).pinnable}
  IN [i \in DOMAIN list |->
        [list[i] EXCEPT !.pinned =
           i \in wanted /\ Cardinality(wanted \intersect (1 .. i - 1)) < MaxPins]]

(* A metric stays in sight: the first one that is on if none would.        *)
KeepVisible(list) ==
  LET on == {i \in DOMAIN list : list[i].enabled}
  IN IF on = {} \/ \E i \in on : list[i].always THEN list
     ELSE [list EXCEPT ![CHOOSE i \in on : \A j \in on : i <= j].always = TRUE]

(* The metrics of before in their order, then those that are new.          *)
NewLast(list, definitions) ==
  Entries(list, {i \in DOMAIN list : Has(definitions, list[i].id)})
    \o DefaultMetrics(Entries(definitions,
                              {i \in DOMAIN definitions : ~Has(list, definitions[i].id)}))

NormalizeMetrics(list, definitions) ==
  KeepVisible(CapPins(NewLast(list, definitions), definitions))

-----------------------------------------------------------------------------
(* normalize() and default_settings()                                      *)

(* Variant: what a release does not have is forgotten.                     *)
KnownOfRelease(catalog, list, seen) == ToSet(catalog.providers)

(* Settings of old releases do not say what they knew.                     *)
Known(catalog, list, seen) ==
  (IF seen = {} THEN ToSet(Ids(list)) ELSE seen) \union ToSet(catalog.providers)

NormalizeProviders(catalog, list, seen, found) ==
  LET before == IF seen = {} THEN ToSet(Ids(list)) ELSE seen
      Kept(entry) ==
        [entry EXCEPT !.enabled = IF entry.id \in before THEN @ ELSE entry.id \in found,
                      !.detected = entry.id \in found]
      Added(id) ==
        [id |-> id, enabled |-> id \notin before /\ id \in found, detected |-> id \in found]
      kept == Entries(list, {i \in DOMAIN list : Contains(catalog.providers, list[i].id)})
      added == Entries(catalog.providers,
                       {i \in DOMAIN catalog.providers : ~Has(list, catalog.providers[i])})
  IN [i \in DOMAIN kept |-> Kept(kept[i])] \o [i \in DOMAIN added |-> Added(added[i])]

DefaultProviders(catalog, found) ==
  [i \in DOMAIN catalog.providers |->
     LET id == catalog.providers[i]
     IN [id |-> id, detected |-> id \in found,
         enabled |-> IF found = {} THEN id \in catalog.fallback ELSE id \in found]]

-----------------------------------------------------------------------------
(* Launches: new_deferred(), and the result of the probe.                  *)

Forget(history, ids) == [id \in DOMAIN history |-> IF id \in ids THEN history[id] ELSE "none"]

(* A provider that a release does not have comes back turned off; and a    *)
(* metric as it comes.                                                     *)
Remember(r) ==
  /\ switched' = [id \in ProviderIds |->
       IF switched[id] = "on" /\ ~Contains(Releases[r].providers, id) THEN "none" ELSE switched[id]]
  /\ starred' = Forget(starred, {d.id : d \in {e \in ToSet(Releases[r].metrics) : e.pinnable}})
  /\ arranged' = arranged \intersect (ToSet(Releases[r].providers) \X ToSet(Releases[r].providers))

Launch(r) ==
  LET catalog == Releases[r]
      found == Detected \intersect ToSet(catalog.providers)
  IN /\ launches < MaxLaunches
     /\ release' = r
     /\ known' = Known(catalog, providers, known)
     /\ providers' = NormalizeProviders(catalog, providers, known, found)
     /\ metrics' = NormalizeMetrics(metrics, catalog.metrics)
     /\ probe' = [auto |-> IF known = {} THEN {} ELSE ToSet(catalog.providers) \ known,
                  replace |-> FALSE, running |-> TRUE]
     /\ Remember(r)
     /\ launches' = launches + 1
     /\ UNCHANGED edits

(* Before the user does anything; or never, if the program ends before.    *)
Probed(found) ==
  LET on(entry) ==
        IF probe.replace
        THEN IF found = {} THEN entry.id \in Catalog.fallback ELSE entry.id \in found
        ELSE entry.enabled \/ (entry.id \in probe.auto /\ entry.id \in found)
  IN /\ probe.running
     /\ providers' = [i \in DOMAIN providers |->
          [providers[i] EXCEPT !.detected = providers[i].id \in found,
                               !.enabled = on(providers[i])]]
     /\ probe' = NoProbe
     /\ UNCHANGED <<release, known, metrics, switched, starred, arranged, edits, launches>>

-----------------------------------------------------------------------------
(* The user (CustomizeProviderList.svelte, CustomizeProviderDetail.svelte); *)
(* every edit is saved by update_internal().                               *)

Save(list, metricList) ==
  /\ ~probe.running /\ edits < MaxEdits
  /\ known' = Known(Catalog, list, known)
  /\ providers' = NormalizeProviders(Catalog, list, known, Detected)
  /\ metrics' = NormalizeMetrics(metricList, Catalog.metrics)
  /\ arranged' = Before(providers')
  /\ edits' = edits + 1
  /\ UNCHANGED <<release, launches>>

Switch(entry) ==
  /\ Save(WithEntry(providers, [entry EXCEPT !.enabled = ~@]), metrics)
  /\ switched' = [switched EXCEPT ![entry.id] = IF entry.enabled THEN "off" ELSE "on"]
  /\ UNCHANGED <<probe, starred>>

Moved(list, from, to) == InsertAt(RemoveAt(list, from), to, list[from])

(* Those that are off come last.                                           *)
MoveProvider(from, to) ==
  LET enabled == {i \in DOMAIN providers : providers[i].enabled}
      on == Entries(providers, enabled)
  IN /\ {from, to} \subseteq DOMAIN on /\ from # to
     /\ Save(Moved(on, from, to) \o Entries(providers, DOMAIN providers \ enabled), metrics)
     /\ UNCHANGED <<probe, switched, starred>>

Hide(metric) ==
  /\ Save(providers, WithEntry(metrics, [metric EXCEPT !.enabled = ~@]))
  /\ UNCHANGED <<probe, switched, starred>>

Star(metric) ==
  /\ Entry(Catalog.metrics, metric.id).pinnable
  /\ metric.pinned \/ Pins(metrics) < MaxPins
  /\ Save(providers, WithEntry(metrics, [metric EXCEPT !.pinned = ~@]))
  /\ starred' = [starred EXCEPT ![metric.id] = IF metric.pinned THEN "off" ELSE "on"]
  /\ UNCHANGED <<probe, switched>>

(* Onto the place of another, or into a section.                           *)
MoveMetric(from, to, always) ==
  /\ from # to \/ metrics[from].always # always
  /\ Save(providers, Moved([metrics EXCEPT ![from].always = always], from, to))
  /\ UNCHANGED <<probe, switched, starred>>

(* The cards as at the first launch, with the other settings or without    *)
(* them, and another probe.                                                *)
ResetAll(settings) ==
  LET found == Detected
  IN /\ ~probe.running /\ edits < MaxEdits
     /\ known' = IF settings THEN ToSet(Catalog.providers) ELSE Known(Catalog, providers, known)
     /\ providers' = DefaultProviders(Catalog, found)
     /\ metrics' = NormalizeMetrics(DefaultMetrics(Catalog.metrics), Catalog.metrics)
     /\ probe' = [auto |-> {}, replace |-> TRUE, running |-> TRUE]
     /\ switched' = [id \in ProviderIds |-> "none"]
     /\ starred' = [id \in MetricIds |-> "none"]
     /\ arranged' = {}
     /\ edits' = edits + 1
     /\ UNCHANGED <<release, launches>>

-----------------------------------------------------------------------------
(* A first launch, or one with settings of a program that knew one         *)
(* provider and did not write down what it knew.                           *)
LayoutInit ==
  /\ release = 1 /\ edits = 0 /\ launches = 1
  /\ metrics = NormalizeMetrics(DefaultMetrics(Catalog.metrics), Catalog.metrics)
  /\ switched = [id \in ProviderIds |-> "none"]
  /\ starred = [id \in MetricIds |-> "none"]
  /\ arranged = {}
  /\ \/ /\ providers = DefaultProviders(Catalog, {})
        /\ known = ToSet(Catalog.providers)
        /\ probe = [auto |-> {}, replace |-> TRUE, running |-> TRUE]
     \/ LET old == <<[id |-> Catalog.providers[1], enabled |-> TRUE, detected |-> FALSE]>>
        IN /\ providers = NormalizeProviders(Catalog, old, {}, {})
           /\ known = Known(Catalog, old, {})
           /\ probe = [auto |-> {}, replace |-> FALSE, running |-> TRUE]

LayoutNext ==
  \/ \E r \in DOMAIN Releases : Launch(r)
  \/ \E found \in SUBSET ToSet(Catalog.providers) : Probed(found)
  \/ \E entry \in ToSet(providers) : Switch(entry)
  \/ \E from, to \in DOMAIN providers : MoveProvider(from, to)
  \/ \E metric \in ToSet(metrics) : Hide(metric) \/ Star(metric)
  \/ \E from, to \in DOMAIN metrics, always \in BOOLEAN : MoveMetric(from, to, always)
  \/ \E settings \in BOOLEAN : ResetAll(settings)

LayoutSpec == LayoutInit /\ [][LayoutNext]_layoutVars

-----------------------------------------------------------------------------
(* Every provider and metric of the release is there once.                 *)
NothingMissing ==
  /\ IsInjective(Ids(providers)) /\ ToSet(Ids(providers)) = ToSet(Catalog.providers)
  /\ IsInjective(Ids(metrics)) /\ ToSet(Ids(metrics)) = ToSet(Ids(Catalog.metrics))

WithinLimits ==
  /\ Pins(metrics) <= MaxPins
  /\ \A metric \in ToSet(metrics) : metric.pinned => Entry(Catalog.metrics, metric.id).pinnable
  /\ (\E metric \in ToSet(metrics) : metric.enabled)
       => \E metric \in ToSet(metrics) : metric.enabled /\ metric.always

Kept(choice, on) == (choice = "on" => on) /\ (choice = "off" => ~on)

(* What the user turned off stays off through all releases, whichever of   *)
(* them know the provider; what he turned on, starred or arranged stays so *)
(* as long as every release launched since knows it.  And whatever he does, *)
(* the layout is one the release can show: nothing is missing, no more      *)
(* stars than the menu bar has room for, and a card is not left empty.      *)
ChoicesOutliveReleases ==
  /\ \A entry \in ToSet(providers) : Kept(switched[entry.id], entry.enabled)
  /\ \A metric \in ToSet(metrics) : Kept(starred[metric.id], metric.pinned)
  /\ arranged \subseteq Before(providers)
  /\ NothingMissing /\ WithinLimits
=============================================================================
