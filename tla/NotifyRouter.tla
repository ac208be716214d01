----------------------------- MODULE NotifyRouter -----------------------------
(* The event bus of events/bus.py and NotificationRouter of notify/router.py, *)
(* as operators on their state.  The bus is the list of its subscriptions,    *)
(* records [handler, types, min]; its bounded history of the latest events is *)
(* only read by dashboards and is left out.  An event type is a pair such as  *)
(* <<"task", "failed">>; a filter is a type, a prefix <<"task", "*">> or the   *)
(* class Event itself.  The router is a                                       *)
(* record of the routes in the order they were added (a sequence of route     *)
(* records), the origin of each, the dedup memory `seen' (key |-> when it     *)
(* expires, in the order the keys were added) and the times of the admitted   *)
(* sends of each route and sink.                                              *)
EXTENDS Integers, Sequences, SequencesExt, FiniteSets

CONSTANTS
    PruneInterval,  \* _PRUNE_INTERVAL
    MaxDedupKeys,   \* _MAX_DEDUP_KEYS
    FloodShare      \* _FLOOD_SHARE

-----------------------------------------------------------------------------
(* The bus *)

AnyEvent == <<"*", "*">>

\* Severity, in rising order
Info == 0
Warning == 1
Error == 2
Critical == 3

\* Severity.at_least
AtLeast(severity, other) == severity >= other

MatchesOne(event, wanted) ==
    wanted \in {event.type, <<event.type[1], "*">>, AnyEvent}

\* Subscription.matches
Matches(subscription, event) ==
    /\ AtLeast(event.severity, subscription.min)
    /\ subscription.types = {} \/ \E wanted \in subscription.types : MatchesOne(event, wanted)

\* subscribe
Subscribe(subs, handler) == Append(subs, [handler |-> handler, types |-> {}, min |-> Info])

\* unsubscribe: list.remove drops the first subscription that is EQUAL.
Unsubscribe(subs, handler) ==
    LET at == SelectInSeq(subs, LAMBDA s : s.handler = handler)
    IN  IF at = 0 THEN subs ELSE RemoveAt(subs, at)

\* publish, under the lock: who gets the event, in subscription order
Targets(subs, event) ==
    LET matching == SelectSeq(subs, LAMBDA s : Matches(s, event))
    IN  [i \in DOMAIN matching |-> matching[i].handler]

-----------------------------------------------------------------------------
(* The router *)

EmptyRouter == [routes |-> <<>>, origin |-> <<>>, active |-> FALSE, seen |-> <<>>,
                sent |-> <<>>, nextPrune |-> 0]

RouteNames(router) == {router.routes[i].name : i \in DOMAIN router.routes}

\* The route a router keeps under a name
RouteOf(router, name) ==
    router.routes[CHOOSE i \in DOMAIN router.routes : router.routes[i].name = name]

\* Route.__post_init__ and its helpers, up to the types of the options
ValidRoute(route) ==
    /\ route.name # ""
    /\ "" \notin route.sinks \union route.sources
    /\ route.min \in Info .. Critical
    /\ route.dedup >= 0 /\ route.limit >= 0 /\ route.period > 0

\* Route.matches
RouteMatches(route, event) ==
    /\ route.sources = {} \/ event.source \in route.sources
    /\ Matches([types |-> route.types, min |-> route.min], event)

\* _matching: a snapshot of the matching routes
Matching(router, event) == SelectSeq(router.routes, LAMBDA r : RouteMatches(r, event))

\* _is_delivery_failure
IsDeliveryFailure(event) == event.source = "notify" /\ event.type = <<"system", "error">>

\* _forget
Forget(router, name) ==
    [router EXCEPT !.seen = SelectSeq(@, LAMBDA m : m.key[1] # name),
                   !.sent = SelectSeq(@, LAMBDA m : m.key[1] # name)]

\* _put: a dict keeps the place of a key it already has.
Put(router, route, origin) ==
    LET known == route.name \in RouteNames(router)
        r == IF known /\ RouteOf(router, route.name) = route THEN router ELSE Forget(router, route.name)
    IN  IF known
        THEN [r EXCEPT !.routes = [i \in DOMAIN @ |-> IF @[i].name = route.name THEN route ELSE @[i]],
                       !.origin = [i \in DOMAIN @ |-> IF @[i][1] = route.name THEN <<route.name, origin>> ELSE @[i]]]
        ELSE [r EXCEPT !.routes = Append(@, route), !.origin = Append(@, <<route.name, origin>>)]

\* _drop
Drop(router, name) ==
    LET r == Forget(router, name)
    IN  [r EXCEPT !.routes = SelectSeq(@, LAMBDA o : o.name # name),
                  !.origin = SelectSeq(@, LAMBDA o : o[1] # name)]

\* sync_routes: `wanted' becomes the complete set of routes that came from `origin'.
Sync(router, wanted, origin) ==
    LET stale == {o[1] : o \in {p \in Range(router.origin) : p[2] = origin}}
                   \ {wanted[i].name : i \in DOMAIN wanted}
        kept == FoldSeq(LAMBDA name, r : Drop(r, name), router, SetToSeq(stale))
    IN  FoldLeft(LAMBDA r, route : Put(r, route, origin), kept, wanted)

\* _prune
Prune(router, now) ==
    LET flood == IF Len(router.seen) > MaxDedupKeys
                 THEN SubSeq(router.seen, (MaxDedupKeys \div FloodShare) + 1, Len(router.seen))
                 ELSE router.seen
    IN  IF now < router.nextPrune THEN [router EXCEPT !.seen = flood]
        ELSE [router EXCEPT
                !.nextPrune = now + PruneInterval,
                !.seen = SelectSeq(flood, LAMBDA m : m.until > now),
                !.sent = SelectSeq(@, LAMBDA m : m.times # <<>> /\ m.key[1] \in RouteNames(router))]

DedupKey(route, sink, event) == <<route.name, sink, event.type, event.source, event.subject>>

\* dict get with a default, and dict assignment (a known key keeps its place)
Lookup(entries, key, default) ==
    LET at == SelectInSeq(entries, LAMBDA m : m.key = key)
    IN  IF at = 0 THEN default ELSE entries[at]

Assign(entries, entry) ==
    LET at == SelectInSeq(entries, LAMBDA m : m.key = entry.key)
    IN  IF at = 0 THEN Append(entries, entry) ELSE [entries EXCEPT ![at] = entry]

\* popleft while the first time is old: one behind a later time stays.
Recent(times, since) ==
    LET at == SelectInSeq(times, LAMBDA t : t > since)
    IN  IF at = 0 THEN <<>> ELSE SubSeq(times, at, Len(times))

\* _admit: the verdict, and the router that remembers it.  Admitting counts as
\* sending: a send that fails later has used up its place.
Admit(router, route, sink, event, now) ==
    LET r == Prune(router, now)
        key == DedupKey(route, sink, event)
        rate == <<route.name, sink>>
        times == Recent(Lookup(r.sent, rate, [times |-> <<>>]).times, now - route.period)
        counted == [r EXCEPT !.sent = Assign(@, [key |-> rate, times |-> times])]
    IN  CASE route.dedup > 0 /\ Lookup(r.seen, key, [until |-> -1]).until > now ->
               [verdict |-> "dedup", router |-> r]
          [] route.limit > 0 /\ Len(times) >= route.limit ->
               [verdict |-> "rate_limited", router |-> counted]
          [] OTHER ->
               [verdict |-> "admitted",
                router |->
                  [(IF route.limit = 0 THEN r
                    ELSE [r EXCEPT !.sent = Assign(@, [key |-> rate, times |-> Append(times, now)])])
                   EXCEPT !.seen = IF route.dedup = 0 THEN @
                                   ELSE Assign(@, [key |-> key, until |-> now + route.dedup])]]
=============================================================================
