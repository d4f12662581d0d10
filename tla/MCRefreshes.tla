---------------------------- MODULE MCRefreshes ----------------------------
(* A refresh: the flight its callers share, and the way its requests take. *)
(* The two share no state here, so each is explored on its own: part says  *)
(* which one, and it stays the same.                                       *)
EXTENDS RefreshFlight, TLC

CONSTANTS Requests, SharedProviders, OwnProviders, Overrides, OwnResolvers,
          MaxAsked, MaxSaves, MaxChanges, MaxSeconds

(* A script with a fallback, another without, and no proxy.                *)
Configurations ==
  {[pac |-> "pac1", fallback |-> TRUE], [pac |-> "pac2", fallback |-> FALSE],
   [pac |-> "no script", fallback |-> FALSE]}

VARIABLES
  part,
  proxies, client, cache, engine, machine, request,
  asked, saved, changed, passed, recent, denied

Routing == INSTANCE ProxyRouting

(* There are names for the resolvers the clients have to begin with.       *)
ASSUME RoutingAssumption ==
  /\ "system" \notin Overrides
  /\ Routing!NoRequest \notin Requests
  /\ {"shared", Routing!NoResolver} \intersect OwnResolvers = {}
  /\ \E own \in [OwnProviders -> OwnResolvers] :
       \A p, q \in OwnProviders : own[p] = own[q] => p = q

routeVars == <<proxies, client, cache, engine, machine, request,
               asked, saved, changed, passed, recent, denied>>

refreshVars == <<part, vars, routeVars>>

Symmetry ==
  Permutations(Callers) \union Permutations(Runners) \union Permutations(Requests)
    \union Permutations(Overrides)

(* The variables of a part that does not move.                             *)
Unused == "unused"
NoRoutes ==
  /\ proxies = Unused /\ client = Unused /\ cache = Unused /\ engine = Unused
  /\ machine = Unused /\ request = Unused /\ asked = Unused /\ saved = Unused
  /\ changed = Unused /\ passed = Unused /\ recent = Unused /\ denied = Unused

RefreshInit ==
  /\ part \in {"flight", "routing"}
  /\ Init
  /\ IF part = "routing"
       THEN /\ Routing!RouteInit
            /\ \A p \in SharedProviders : proxies[p] = "system"
            /\ (\E r \in Requests : Routing!Warms(r)) =>
                 \A p \in OwnProviders : proxies[p] = "system"
       ELSE NoRoutes
  /\ part # "flight" => ~fresh

FlightPart ==
  part = "flight" /\ Next /\ UNCHANGED <<part, routeVars>>

RoutingPart ==
  part = "routing" /\ Routing!RouteNext /\ UNCHANGED <<part, vars>>

RefreshNext == FlightPart \/ RoutingPart

RefreshSpec == RefreshInit /\ [][RefreshNext]_refreshVars

-----------------------------------------------------------------------------
(* A request goes the way chosen for its provider, or the one the machine  *)
(* had within the last second (http_client.rs).                            *)
RoutesAsChosen == part = "routing" => Routing!RoutesAsChosen
=============================================================================
