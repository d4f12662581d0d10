---------------------------- MODULE ProxyRouting ----------------------------
(* The way a request takes (http_client.rs; the resolvers are those of     *)
(* macOS).  Each provider has a client that is built again when the proxy  *)
(* chosen for it is another one (settings.rs).  Without a choice the proxy *)
(* of the machine is asked for: the clients of one kind share a resolver,  *)
(* those of the other have one of their own.  A resolver looks at the      *)
(* configuration at most once a second, and a script is evaluated in a     *)
(* parser the process has once.                                            *)
(* At launch the shared resolver may be warmed up on the main thread: its  *)
(* configuration is read, whenever it was read before, and a first         *)
(* decision is made.                                                       *)
(* The rules for hosts, the credentials and the variables of the           *)
(* environment are left out; a script stands for the proxy it names.       *)
EXTENDS Integers

CONSTANTS Requests,
          SharedProviders,  \* providers that use PROXY_RESOLVER
          OwnProviders,     \* Codex and Claude: resolvers of their own
          Overrides,        \* proxies the user may choose
          OwnResolvers,     \* bound: such resolvers in use at a time
          Configurations,   \* the machine's: a script or none, a fallback or none
          MaxAsked,         \* bound: requests
          MaxSaves,         \* bound: choices saved
          MaxChanges,       \* bound: changes of the machine's configuration
          MaxSeconds        \* bound: seconds that pass

VARIABLES proxies,   \* PROVIDER_PROXIES: the choice for each provider
          client,    \* of each provider: the cached client
          cache,     \* of each resolver: its SystemProxyCache
          engine,    \* PAC_ENGINE: who has it, and the script in it
          machine,   \* the configuration of the machine
          request,
          asked, saved, changed, passed,  \* counted for the bounds
          recent,    \* configurations since the last second began (history)
          denied     \* resolvers whose script did not load since then (history)

routeVars == <<proxies, client, cache, engine, machine, request,
               asked, saved, changed, passed, recent, denied>>
counters == <<asked, saved, changed, passed>>

RoutedProviders == SharedProviders \union OwnProviders
Choices == {"system"} \union Overrides

NoScript == "no script"
NoRequest == "no request"
NoResolver == "no resolver"
Resolvers == {"shared"} \union OwnResolvers

(* Neither a script nor a fallback is no configuration; nor is one that    *)
(* cannot be read.                                                         *)
NoConfiguration == [pac |-> NoScript, fallback |-> FALSE]

NoCache == [due |-> TRUE, configuration |-> NoConfiguration, resolver |-> FALSE,
            pac |-> NoScript, failed |-> FALSE, decided |-> FALSE]
FreeEngine == [by |-> NoRequest, script |-> NoScript]
NotSent == [at |-> "idle", provider |-> "none", proxy |-> "none",
            resolver |-> NoResolver, route |-> "none",
            choices |-> {}, configurations |-> {}, excused |-> FALSE]

(* warm_system_proxy_credentials(), which takes no client.                 *)
WarmUp == [NotSent EXCEPT !.at = "ready", !.provider = "warm-up", !.proxy = "system",
                          !.resolver = "shared", !.choices = {"system"}]
Warms(r) == request[r].provider = "warm-up"

Advance(r, at) == [request EXCEPT ![r].at = at]
Routed(r, route) == [request EXCEPT ![r].at = "sent", ![r].route = route]

-----------------------------------------------------------------------------
(* The user, the machine and time                                          *)

(* update_internal() and remove_dynamic_provider() store the settings, and *)
(* then set the map while they hold the settings; a refused save is none.  *)
SetProviderProxies(p, choice) ==
  /\ saved < MaxSaves /\ choice # proxies[p]
  /\ proxies' = [proxies EXCEPT ![p] = choice]
  /\ request' = [r \in Requests |->
       IF request[r].at = "asked" /\ request[r].provider = p
       THEN [request[r] EXCEPT !.choices = @ \union {choice}] ELSE request[r]]
  /\ saved' = saved + 1
  /\ UNCHANGED <<client, cache, engine, machine, asked, changed, passed, recent, denied>>

Reconfigure(configuration) ==
  /\ changed < MaxChanges /\ configuration # machine
  /\ machine' = configuration
  /\ recent' = recent \union {configuration}
  /\ changed' = changed + 1
  /\ UNCHANGED <<proxies, client, cache, engine, request, asked, saved, passed, denied>>

SecondPasses ==
  /\ passed < MaxSeconds
  /\ cache' = [x \in Resolvers |-> [cache[x] EXCEPT !.due = TRUE]]
  /\ recent' = {machine} /\ denied' = {}
  /\ passed' = passed + 1
  /\ UNCHANGED <<proxies, client, engine, machine, request, asked, saved, changed>>

-----------------------------------------------------------------------------
(* A request takes its client: ProviderClient::current().                  *)

Ask(r, p) ==
  /\ request[r].at \in {"idle", "sent"} /\ asked < MaxAsked
  /\ asked' = asked + 1
  /\ request' = [request EXCEPT ![r] =
       [NotSent EXCEPT !.at = "asked", !.provider = p, !.choices = {proxies[p]}]]
  /\ UNCHANGED <<proxies, client, cache, engine, machine, saved, changed, passed, recent, denied>>

ReadProxies(r) ==
  /\ request[r].at = "asked"
  /\ request' = [Advance(r, "chosen") EXCEPT ![r].proxy = proxies[request[r].provider]]
  /\ UNCHANGED <<proxies, client, cache, engine, machine, counters, recent, denied>>

(* Variant: a client for any other proxy will do.                          *)
UseCachedOfKind(r) ==
  LET built == client[request[r].provider]
  IN /\ request[r].at = "chosen"
     /\ (built.proxy = "system") = (request[r].proxy = "system")
     /\ request' = [Advance(r, "ready") EXCEPT ![r].resolver = built.resolver,
                                               ![r].proxy = built.proxy]
     /\ UNCHANGED <<proxies, client, cache, engine, machine, counters, recent, denied>>

UseCached(r) ==
  /\ request[r].at = "chosen"
  /\ client[request[r].provider].proxy = request[r].proxy
  /\ request' = [Advance(r, "ready") EXCEPT
                   ![r].resolver = client[request[r].provider].resolver]
  /\ UNCHANGED <<proxies, client, cache, engine, machine, counters, recent, denied>>

(* A resolver of its own that neither a client nor a request holds.        *)
Unused(x) ==
  /\ \A p \in RoutedProviders : client[p].resolver # x
  /\ \A r \in Requests : request[r].resolver # x
NewResolver == CHOOSE x \in OwnResolvers : Unused(x)

Needs(p, proxy) ==
  IF proxy # "system" THEN NoResolver
  ELSE IF p \in OwnProviders THEN NewResolver ELSE "shared"

BuildClient(r) ==
  LET p == request[r].provider
      x == Needs(p, request[r].proxy)
  IN /\ request[r].at = "chosen"
     /\ client[p].proxy # request[r].proxy
     /\ request[r].proxy = "system" /\ p \in OwnProviders => \E y \in OwnResolvers : Unused(y)
     /\ client' = [client EXCEPT ![p] = [proxy |-> request[r].proxy, resolver |-> x]]
     /\ cache' = IF x \in {"shared", NoResolver} THEN cache ELSE [cache EXCEPT ![x] = NoCache]
     /\ denied' = denied \ ({x} \ {"shared"})
     /\ request' = [Advance(r, "ready") EXCEPT ![r].resolver = x]
     /\ UNCHANGED <<proxies, engine, machine, counters, recent>>

(* The client cannot be built: the request fails, the cached client stays. *)
BuildFails(r) ==
  /\ request[r].at = "chosen"
  /\ client[request[r].provider].proxy # request[r].proxy
  /\ request' = [request EXCEPT ![r] = NotSent]
  /\ UNCHANGED <<proxies, client, cache, engine, machine, counters, recent, denied>>

SendOverridden(r) ==
  /\ request[r].at = "ready" /\ request[r].resolver = NoResolver
  /\ request' = Routed(r, request[r].proxy)
  /\ UNCHANGED <<proxies, client, cache, engine, machine, counters, recent, denied>>

-----------------------------------------------------------------------------
(* DynamicSystemProxyResolver::proxy_for_url(), under the mutex of the     *)
(* cache from Look() or LookAgain() until the route is known.              *)

Locked(x) ==
  \E r \in Requests : request[r].resolver = x
                        /\ request[r].at \in {"loading", "deciding", "evaluating"}

Free(r) ==
  /\ request[r].at = "ready" /\ request[r].resolver # NoResolver
  /\ ~Locked(request[r].resolver)

Noted(r, at) ==
  [Advance(r, at) EXCEPT ![r].configurations = recent,
                         ![r].excused = request[r].resolver \in denied]

Look(r) ==
  /\ Free(r) /\ ~cache[request[r].resolver].due /\ ~Warms(r)
  /\ request' = Noted(r, "deciding")
  /\ UNCHANGED <<proxies, client, cache, engine, machine, counters, recent, denied>>

(* Variant: a script that did not load is not tried again.                 *)
Unchanged(c, configuration) == c.configuration = configuration

(* SystemProxyCache::update().                                             *)
UpToDate(c, configuration) == c.configuration = configuration /\ ~c.failed

(* The warm-up looks without noting when it looked.                        *)
LookAgain(r) ==
  LET x == request[r].resolver
      due == Warms(r) /\ cache[x].due
      same == UpToDate(cache[x], machine)
      loads == ~same /\ machine.pac # NoScript
  IN /\ Free(r) /\ (cache[x].due \/ Warms(r))
     /\ cache' = [cache EXCEPT ![x] =
          IF same THEN [@ EXCEPT !.due = due]
          ELSE [NoCache EXCEPT !.due = due, !.configuration = machine,
                               !.resolver = ~loads /\ machine.fallback]]
     /\ request' = Noted(r, IF loads THEN "loading" ELSE "deciding")
     /\ UNCHANGED <<proxies, client, engine, machine, counters, recent, denied>>

(* The script is loaded and tried in the parser.                           *)
LoadScript(r) ==
  LET x == request[r].resolver
  IN /\ request[r].at = "loading" /\ engine.by = NoRequest
     /\ cache' = [cache EXCEPT ![x].resolver = TRUE, ![x].pac = cache[x].configuration.pac]
     /\ request' = Advance(r, "deciding")
     /\ UNCHANGED <<proxies, client, engine, machine, counters, recent, denied>>

LoadFails(r) ==
  LET x == request[r].resolver
  IN /\ request[r].at = "loading"
     /\ cache' = [cache EXCEPT ![x].resolver = cache[x].configuration.fallback,
                               ![x].failed = TRUE]
     /\ denied' = denied \union {x}
     /\ request' = [Advance(r, "deciding") EXCEPT ![r].excused = TRUE]
     /\ UNCHANGED <<proxies, client, engine, machine, counters, recent>>

Fallback(x) == IF cache[x].configuration.fallback THEN "fallback" ELSE "direct"

(* No resolver, no script, or a decision of this script that is known.     *)
DecideAtOnce(r) ==
  LET x == request[r].resolver
  IN /\ request[r].at = "deciding"
     /\ cache[x].pac = NoScript \/ cache[x].decided
     /\ request' = Routed(r, IF cache[x].pac # NoScript THEN cache[x].pac
                             ELSE IF cache[x].resolver THEN Fallback(x) ELSE "direct")
     /\ UNCHANGED <<proxies, client, cache, engine, machine, counters, recent, denied>>

(* Variant: the parser is not waited for.                                  *)
EnterEngineAnyway(r) ==
  LET x == request[r].resolver
  IN /\ request[r].at = "deciding"
     /\ cache[x].pac # NoScript /\ ~cache[x].decided
     /\ engine' = [by |-> r, script |-> cache[x].pac]
     /\ request' = Advance(r, "evaluating")
     /\ UNCHANGED <<proxies, client, cache, machine, counters, recent, denied>>

(* PacParserSession::new(): each evaluation parses the script anew.        *)
EnterEngine(r) ==
  LET x == request[r].resolver
  IN /\ request[r].at = "deciding" /\ engine.by = NoRequest
     /\ cache[x].pac # NoScript /\ ~cache[x].decided
     /\ engine' = [by |-> r, script |-> cache[x].pac]
     /\ request' = Advance(r, "evaluating")
     /\ UNCHANGED <<proxies, client, cache, machine, counters, recent, denied>>

Evaluate(r) ==
  LET x == request[r].resolver
  IN /\ request[r].at = "evaluating"
     /\ cache' = [cache EXCEPT ![x].decided = TRUE]
     /\ request' = Routed(r, engine.script)
     /\ engine' = FreeEngine
     /\ UNCHANGED <<proxies, client, machine, counters, recent, denied>>

(* The script names no proxy that can be used: this is not remembered.     *)
EvaluationFails(r) ==
  LET x == request[r].resolver
  IN /\ request[r].at = "evaluating"
     /\ request' = [Routed(r, Fallback(x)) EXCEPT ![r].excused = TRUE]
     /\ engine' = FreeEngine
     /\ UNCHANGED <<proxies, client, cache, machine, counters, recent, denied>>

-----------------------------------------------------------------------------
(* The providers build their clients before the settings are loaded: as if *)
(* nothing was chosen.                                                     *)
FirstResolvers ==
  CHOOSE own \in [OwnProviders -> OwnResolvers] :
    \A p, q \in OwnProviders : own[p] = own[q] => p = q

RouteInit ==
  /\ proxies \in [RoutedProviders -> Choices]
  /\ client = [p \in RoutedProviders |->
       [proxy |-> "system", resolver |-> IF p \in OwnProviders THEN FirstResolvers[p] ELSE "shared"]]
  /\ cache = [x \in Resolvers |-> NoCache]
  /\ engine = FreeEngine
  /\ machine \in Configurations
  /\ \E warming \in SUBSET Requests :
       /\ \A q, r \in warming : q = r
       /\ request = [r \in Requests |-> IF r \in warming THEN WarmUp ELSE NotSent]
  /\ asked = 0 /\ saved = 0 /\ changed = 0 /\ passed = 0
  /\ recent = {machine} /\ denied = {}

RouteNext ==
  \/ \E p \in RoutedProviders, choice \in Choices : SetProviderProxies(p, choice)
  \/ \E configuration \in Configurations : Reconfigure(configuration)
  \/ SecondPasses
  \/ \E r \in Requests :
       \/ \E p \in RoutedProviders : Ask(r, p)
       \/ ReadProxies(r) \/ UseCached(r) \/ BuildClient(r) \/ BuildFails(r)
       \/ SendOverridden(r)
       \/ Look(r) \/ LookAgain(r)
       \/ LoadScript(r) \/ LoadFails(r)
       \/ DecideAtOnce(r) \/ EnterEngine(r) \/ Evaluate(r) \/ EvaluationFails(r)

RouteSpec == RouteInit /\ [][RouteNext]_routeVars

-----------------------------------------------------------------------------
(* The way of a configuration, or past its script.                         *)
Prescribes(configuration, route, excused) ==
  \/ configuration.pac # NoScript /\ route = configuration.pac
  \/ /\ configuration.pac = NoScript \/ excused
     /\ route = IF configuration.fallback THEN "fallback" ELSE "direct"

(* A request goes the way that was chosen for its provider while it took   *)
(* its client; without a choice, the way of a configuration the machine    *)
(* had within the second before, by that script and no other, and past a   *)
(* script only if it was tried and failed within that second.              *)
RoutesAsChosen ==
  \A r \in Requests : request[r].at = "sent" =>
    /\ request[r].proxy \in request[r].choices
    /\ IF request[r].proxy # "system" THEN request[r].route = request[r].proxy
       ELSE \E configuration \in request[r].configurations :
              Prescribes(configuration, request[r].route, request[r].excused)
=============================================================================
