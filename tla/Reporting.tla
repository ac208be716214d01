------------------------------ MODULE Reporting -------------------------------
(* How what happens is told: the event bus, the notification router with its  *)
(* sinks, the audit trail and the storage observers, composed.                *)
(*                                                                            *)
(* publish delivers in the thread of the publisher, so each thread has a      *)
(* stack of calls: the publication of an event (or the report of a storage    *)
(* operation), the handler it is in, and below it the publications that       *)
(* handler made itself.  Administrators change routes, sinks and stores       *)
(* meanwhile.                                                                 *)
EXTENDS NotifyRouter

CONSTANTS
    Threads,      \* threads that publish
    Admins,       \* threads that configure
    Happenings,   \* what a thread may report: records [kind, ...]
    Routes,       \* the routes an administrator may add
    Synced,       \* the lists of routes a reload of the configuration may bring
    Sinks,        \* names of sinks
    Stores,       \* audit stores
    Owned,        \* the stores configure_audit opens from a path
    Queries,      \* filters of a search
    OldLog,       \* the records of a version 1 audit log
    ManagerDedup, \* dedup_seconds of the NotificationManager
    Setups,       \* how the process may be configured when it starts, and what may happen then
    MaxTime       \* a bound

VARIABLES
    subs,           \* the bus's subscriptions
    router,         \* NotificationRouter
    sinks, told,    \* NotificationManager: the sinks, and _recent as a sequence
    observers,      \* the storage listeners
    trail,          \* AuditTrail: its store, whether it owns it, is active, is inside its lock
    stores,         \* each store, as a memory store and as a SQLite store
    stack,          \* stack[t]: the calls thread t is in, the innermost last
    admin,          \* admin[a]: what administrator a does next
    clock, ids,
    budget,         \* bounds: how many reports and changes of each kind are left
    admitted, spoken, heard, missing  \* history: see the properties

notifyVars == <<router, sinks, told>>

auditVars == <<observers, trail, stores>>

adminVars == <<admin, budget, clock>>

history == <<admitted, spoken, heard, missing>>

vars == <<subs, notifyVars, auditVars, adminVars, stack, ids, history>>

None == "none"

-----------------------------------------------------------------------------
(* Audit records and the two audit stores (audit/record.py, store.py and      *)
(* sqlite_store.py): a memory store keeps the list of its records, a SQLite   *)
(* store keeps rows numbered by an AUTOINCREMENT column.  Texts are model      *)
(* values; a text filter is abstracted to an exact one.                       *)

\* record_from_event: the event's own id and time, and a status by its severity
RecordFromEvent(event) ==
    [id |-> event.id, at |-> event.at, action |-> event.type, origin |-> event.origin,
     status |-> CASE event.severity = 0 -> "ok" [] event.severity = 1 -> "warning" [] OTHER -> "error"]

\* record_from_operation: a new id, the time of the record and the status of the operation
RecordFromOperation(id, operation, now) ==
    [id |-> id, at |-> now, action |-> operation.name, origin |-> operation.origin,
     status |-> operation.status]

\* AuditQuery.matches: since is included, until is not
QueryMatches(query, record) ==
    /\ query.since <= record.at
    /\ record.at < query.until
    /\ query.status \in {"any", record.status}

\* A page of a list: offset and limit
Page(found, query) ==
    SubSeq(found, query.offset + 1,
           IF query.offset + query.limit < Len(found) THEN query.offset + query.limit ELSE Len(found))

\* MemoryAuditStore.append: a closed store and a known id raise.
CanAppend(records, closed, record) ==
    /\ ~closed
    /\ \A i \in DOMAIN records : records[i].id # record.id

\* Of two records of one time the one that was added later comes first.
Newer(records, i, j) == records[i].at = records[j].at /\ i > j

\* MemoryAuditStore.search and _matching: newest first
MemorySearch(records, query) ==
    LET matched == {i \in DOMAIN records : QueryMatches(query, records[i])}
        order == SetToSortSeq(matched, LAMBDA i, j : records[i].at > records[j].at \/ Newer(records, i, j))
    IN  Page([k \in DOMAIN order |-> records[order[k]]], query)

\* MemoryAuditStore.purge
MemoryPurge(records, cutoff) == SelectSeq(records, LAMBDA r : r.at >= cutoff)

\* SQLiteAuditStore.append: a row with the next number; UNIQUE (id) refuses a known id.
RowInsert(table, record) ==
    IF \E row \in table.rows : row.record.id = record.id THEN table
    ELSE [rows |-> table.rows \union {[seq |-> table.next, record |-> record]},
          next |-> table.next + 1]

\* import_v1: INSERT OR IGNORE of every row of the old log, in one transaction
ImportV1(table, old) == FoldLeft(RowInsert, table, old)

\* SQLiteAuditStore.search, with _where: ORDER BY ts_us DESC, seq DESC LIMIT OFFSET
SelectRows(table, query) ==
    IF query.limit = 0 THEN <<>>
    ELSE LET where == {row \in table.rows :
                         /\ query.since <= row.record.at
                         /\ row.record.at < query.until
                         /\ query.status = "any" \/ row.record.status = query.status}
             sorted == SetToSortSeq(where, LAMBDA a, b : \/ a.record.at > b.record.at
                                                         \/ a.record.at = b.record.at /\ a.seq > b.seq)
         IN  Page([k \in DOMAIN sorted |-> sorted[k].record], query)

\* SQLiteAuditStore.purge
RowPurge(table, cutoff) == [table EXCEPT !.rows = {row \in @ : ~(row.record.at < cutoff)}]

-----------------------------------------------------------------------------

NoStore == [records |-> <<>>, table |-> [rows |-> {}, next |-> 1], closed |-> FALSE]

\* A process that is configured by its start: routes from the configuration
\* make the router active, a store makes the trail active.
Init ==
    \E setup \in Setups :
        /\ router = [Sync(EmptyRouter, setup.routes, "config") EXCEPT !.active = setup.routes # <<>>]
        /\ trail = [store |-> setup.store, owned |-> setup.store \in Owned,
                    active |-> setup.store # None, locked |-> FALSE]
        /\ subs = (IF router.active THEN Subscribe(<<>>, "router") ELSE <<>>)
                    \o (IF trail.active THEN Subscribe(<<>>, "audit") ELSE <<>>)
        /\ observers = IF trail.active THEN <<"bridge", "audit">> ELSE <<"bridge">>
        /\ sinks = setup.sinks
        /\ budget = setup.budget
        /\ told = <<>>
        /\ stores = [s \in Stores |-> NoStore]
        /\ stack = [t \in Threads |-> <<>>]
        /\ admin = [a \in Admins |-> [does |-> "idle"]]
        /\ clock = 0 /\ ids = 1
        /\ admitted = <<>> /\ spoken = <<>> /\ heard = {} /\ missing = {}

-----------------------------------------------------------------------------
(* Calls *)

Idle == [does |-> "next"]

Top(t) == stack[t][Len(stack[t])]

\* The stack of t with its innermost call changed
WithTop(t, call) == [stack EXCEPT ![t][Len(stack[t])] = call]

\* The innermost handler of t has returned or raised: publish and notify go on.
HandlerDone(t) == WithTop(t, [Top(t) EXCEPT !.todo = Tail(@), !.in = Idle])

NewEvent(h) ==
    [id |-> ids, at |-> clock, type |-> h.type, source |-> h.source, subject |-> h.subject,
     severity |-> h.severity, origin |-> IF h.origin = 0 THEN ids ELSE h.origin]

PublishCall(event) == [what |-> event, todo |-> Targets(subs, event), in |-> Idle, legacy |-> FALSE]

\* EventBus.publish, up to the first handler, on top of the calls in `under'
PublishOn(t, under, h, legacy) ==
    LET event == NewEvent(h) IN
    /\ stack' = [stack EXCEPT ![t] = Append(under, [PublishCall(event) EXCEPT !.legacy = legacy])]
    /\ ids' = ids + 1
    /\ heard' = IF "audit" \in Range(Targets(subs, event)) /\ h.origin = 0
                THEN heard \union {event.origin} ELSE heard

Reports(t, kind) ==
    stack[t] = <<>> /\ budget[kind] > 0 /\ budget' = [budget EXCEPT ![kind] = @ - 1]

\* A component publishes an event; notify_on_failure also looks at the sinks afterwards.
Publish(t) ==
    /\ Reports(t, "event")
    /\ \E h \in Happenings :
         /\ h.kind \in {"event", "failure"}
         /\ PublishOn(t, <<>>, h, h.kind = "failure")
    /\ UNCHANGED <<notifyVars, auditVars, admin, clock, subs, admitted, spoken, missing>>

\* observe.notify: a storage operation is over and its listeners are told, in order.
Operation(t) ==
    /\ Reports(t, "operation")
    /\ \E h \in Happenings :
         /\ h.kind = "operation" /\ observers # <<>>
         /\ stack' = [stack EXCEPT ![t] =
              <<[what |-> [h EXCEPT !.origin = ids], todo |-> observers, in |-> Idle, legacy |-> FALSE]>>]
         /\ heard' = IF "audit" \in Range(observers) THEN heard \union {ids} ELSE heard
    /\ ids' = ids + 1
    /\ UNCHANGED <<subs, notifyVars, auditVars, admin, clock, admitted, spoken, missing>>

IsOperation(what) == "name" \in DOMAIN what

\* The next handler of the innermost call
Calls(t, handler) ==
    /\ stack[t] # <<>> /\ Top(t).in = Idle
    /\ Top(t).todo # <<>> /\ Head(Top(t).todo) = handler

\* StorageErrorBridge.__call__: a failure of the storage itself is an event.
Bridge(t) ==
    /\ Calls(t, "bridge")
    /\ LET op == Top(t).what
           under == HandlerDone(t)[t]
       IN  IF op.status = "error" /\ ~op.callerError
           THEN PublishOn(t, under,
                  [type |-> <<"storage", "error">>, source |-> "storage", subject |-> op.name,
                   severity |-> Error, origin |-> op.origin], FALSE)
           ELSE /\ stack' = [stack EXCEPT ![t] = under]
                /\ UNCHANGED <<ids, heard>>
    /\ UNCHANGED <<notifyVars, auditVars, adminVars, subs, admitted, spoken, missing>>

-----------------------------------------------------------------------------
(* The audit trail *)

\* _is_reported_operation: the bridge's event for an operation
IsReportedOperation(what) ==
    ~IsOperation(what) /\ what.type = <<"storage", "error">> /\ what.source = "storage"

\* _on_event, _on_operation, _capture, and _append up to the read of the store
Audit(t) ==
    /\ Calls(t, "audit")
    /\ LET what == Top(t).what
           entry == IF IsOperation(what) THEN RecordFromOperation(ids, what, clock)
                    ELSE RecordFromEvent(what)
       IN  IF IsReportedOperation(what)
           THEN stack' = HandlerDone(t) /\ UNCHANGED <<ids, missing>>
           ELSE /\ ids' = IF IsOperation(what) THEN ids + 1 ELSE ids
                /\ IF trail.store = None
                   THEN stack' = HandlerDone(t) /\ missing' = missing \union {what.origin}
                   ELSE /\ stack' = WithTop(t, [Top(t) EXCEPT !.in =
                             [does |-> "append", store |-> trail.store, entry |-> entry]])
                        /\ UNCHANGED missing
    /\ UNCHANGED <<subs, notifyVars, auditVars, adminVars, admitted, spoken, heard>>

\* _append: the store that was read may be closed by now, or fail.
AppendRecord(t) ==
    /\ stack[t] # <<>> /\ Top(t).in.does = "append"
    /\ LET s == Top(t).in.store
           entry == Top(t).in.entry
       IN  \/ /\ CanAppend(stores[s].records, stores[s].closed, entry)
              /\ stores' = [stores EXCEPT ![s].records = Append(@, entry),
                                          ![s].table = RowInsert(@, entry)]
              /\ UNCHANGED missing
           \/ /\ ~CanAppend(stores[s].records, stores[s].closed, entry)
              /\ missing' = missing \union {entry.origin}
              /\ UNCHANGED stores
    /\ stack' = HandlerDone(t)
    /\ UNCHANGED <<subs, notifyVars, adminVars, observers, trail, ids, admitted, spoken, heard>>

-----------------------------------------------------------------------------
(* The router *)

Ignored(event) == IsDeliveryFailure(event)

\* handle, up to the snapshot of the matching routes
Route(t) ==
    /\ Calls(t, "router")
    /\ stack' = IF Ignored(Top(t).what) THEN HandlerDone(t)
                ELSE WithTop(t, [Top(t) EXCEPT !.in =
                       [does |-> "route", routes |-> Matching(router, Top(t).what), left |-> <<>>,
                        tried |-> {}]])
    /\ UNCHANGED <<subs, notifyVars, auditVars, adminVars, history, ids>>

Routing(t) == stack[t] # <<>> /\ Top(t).in.does = "route"

\* The sinks of the next matching route, or every sink
NextRoute(t) ==
    /\ Routing(t) /\ Top(t).in.left = <<>>
    /\ LET in == Top(t).in IN
       stack' = IF in.routes = <<>> THEN HandlerDone(t)
                ELSE LET route == Head(in.routes)
                         to == IF route.sinks # {} THEN SetToSeq(route.sinks) ELSE sinks
                     IN  WithTop(t, [Top(t) EXCEPT !.in =
                           [in EXCEPT !.routes = IF to = <<>> THEN Tail(@) ELSE @, !.left = to]])
    /\ UNCHANGED <<subs, notifyVars, auditVars, adminVars, history, ids>>

\* The router's loop over the sinks moves on from its current one.
SinkDone(in) ==
    LET rest == Tail(in.left)
    IN  [in EXCEPT !.left = rest, !.routes = IF rest = <<>> THEN Tail(@) ELSE @]

\* An earlier route has already tried this sink, or _admit reads its clock.
NextSink(t) ==
    /\ Routing(t) /\ Top(t).in.left # <<>>
    /\ LET in == Top(t).in IN
       stack' = WithTop(t, [Top(t) EXCEPT !.in =
                  IF Head(in.left) \in in.tried THEN SinkDone(in)
                  ELSE [does |-> "admit", now |-> clock, route |-> in]])
    /\ UNCHANGED <<subs, notifyVars, auditVars, adminVars, history, ids>>

\* Bug: the send is not remembered.
RememberAdmitNot(verdict) == router

\* What _admit leaves behind
RememberAdmit(verdict) == verdict.router

\* What a flood of keys makes the router forget
Flooded ==
    IF Len(router.seen) > MaxDedupKeys
    THEN {router.seen[i].key : i \in 1 .. (MaxDedupKeys \div FloodShare)} ELSE {}

\* _admit, under the lock, with a clock that was read before it
AdmitSink(t) ==
    /\ stack[t] # <<>> /\ Top(t).in.does = "admit"
    /\ LET in == Top(t).in.route
           route == Head(in.routes)
           sink == Head(in.left)
           verdict == Admit(router, route, sink, Top(t).what, Top(t).in.now)
       IN  /\ router' = RememberAdmit(verdict)
           /\ IF verdict.verdict = "admitted"
              THEN /\ stack' = WithTop(t, [Top(t) EXCEPT !.in = [does |-> "send", route |-> in]])
                   /\ admitted' = Append(SelectSeq(admitted, LAMBDA m : m.key \notin Flooded),
                        [key |-> DedupKey(route, sink, Top(t).what), route |-> route,
                         current |-> route \in Range(router.routes),
                         now |-> Top(t).in.now, at |-> clock])
              ELSE /\ stack' = WithTop(t, [Top(t) EXCEPT !.in = SinkDone(in)])
                   /\ UNCHANGED admitted
    /\ UNCHANGED <<subs, auditVars, adminVars, sinks, told, ids, spoken, heard, missing>>

\* EmailSink.send: the SMTP session fails or delivers.
MailSend == {"sent", "error"}

\* TelegramSink.send and the other sinks that post JSON: the request raises, the
\* answer is 400 or above, or it is delivered; the levels of events are valid.
PostSend == {"sent", "error"}

\* NotificationManager.send_to and _attempt: what a sink raises is an error, and
\* so is a sink that is not registered.
SinkOutcomes(sink) ==
    IF sink \notin Range(sinks) THEN {"error"} ELSE IF sink = "mail" THEN MailSend ELSE PostSend

\* _send, and _report_failure when it fails
Send(t) ==
    /\ stack[t] # <<>> /\ Top(t).in.does = "send"
    /\ LET in == Top(t).in.route
           sink == Head(in.left)
           goes == WithTop(t, [Top(t) EXCEPT !.in = [SinkDone(in) EXCEPT !.tried = @ \union {sink}]])
       IN  \E outcome \in SinkOutcomes(sink) :
             IF outcome = "sent"
             THEN stack' = goes /\ UNCHANGED <<ids, heard>>
             ELSE PublishOn(t, goes[t],
                    [type |-> <<"system", "error">>, source |-> "notify", subject |-> sink,
                     severity |-> Critical, origin |-> 0], FALSE)
    /\ UNCHANGED <<notifyVars, auditVars, adminVars, subs, admitted, spoken, missing>>

-----------------------------------------------------------------------------
(* The end of a call *)

\* publish returns; notify_on_failure goes on to the sinks when no router is active.
Return(t) ==
    /\ stack[t] # <<>> /\ Top(t).in = Idle /\ Top(t).todo = <<>>
    /\ stack' = [stack EXCEPT ![t] =
         IF Top(t).legacy /\ ~router.active /\ sinks # <<>>
         THEN <<[Top(t) EXCEPT !.in = [does |-> "notify"], !.legacy = FALSE]>> ELSE Front(@)]
    /\ UNCHANGED <<subs, notifyVars, auditVars, adminVars, history, ids>>

\* NotificationManager._prune
TellPrune == SelectSeq(told, LAMBDA m : m.at >= clock - ManagerDedup)

\* NotificationManager.notify: deduplicate under the lock, then fan out; what
\* each sink does with it budget nothing here.
Notify(t) ==
    /\ stack[t] # <<>> /\ Top(t).in.does = "notify"
    /\ LET message == Top(t).what.subject
           duplicate == \E i \in DOMAIN TellPrune : TellPrune[i].key = message
       IN  IF duplicate
           THEN told' = TellPrune /\ UNCHANGED spoken
           ELSE /\ told' = Append(TellPrune, [key |-> message, at |-> clock])
                /\ spoken' = Append(spoken, [key |-> message, at |-> clock])
    /\ stack' = WithTop(t, [Top(t) EXCEPT !.in = Idle])
    /\ UNCHANGED <<subs, auditVars, adminVars, router, sinks, ids, admitted, heard, missing>>
-----------------------------------------------------------------------------
(* Administration *)

\* An administrator that has nothing half done begins a change.
Begins(a, kind) ==
    admin[a].does = "idle" /\ budget[kind] > 0 /\ budget' = [budget EXCEPT ![kind] = @ - 1]

Then(a, step) == admin' = [admin EXCEPT ![a] = step]

Done(a) == Then(a, [does |-> "idle"])

\* History: the deliveries of a route the router forgets
ForgetLog(names) == SelectSeq(admitted, LAMBDA m : m.route.name \notin names)

Changed(route) == route \notin Range(router.routes)

\* notify_route_add: add_route, then start
RouteAdd(a) ==
    /\ Begins(a, "routing")
    /\ \E route \in Routes :
         /\ ValidRoute(route)
         /\ router' = Put(router, route, "action")
         /\ admitted' = IF Changed(route) THEN ForgetLog({route.name}) ELSE admitted
    /\ Then(a, [does |-> "start"])
    /\ UNCHANGED <<subs, sinks, told, auditVars, stack, clock, ids, spoken, heard, missing>>

Starts == ~router.active

\* start
RouterStart(a) ==
    /\ admin[a].does = "start"
    /\ IF Starts
       THEN router' = [router EXCEPT !.active = TRUE] /\ subs' = Subscribe(subs, "router")
       ELSE UNCHANGED <<router, subs>>
    /\ Done(a)
    /\ UNCHANGED <<sinks, told, auditVars, stack, clock, budget, ids, history>>

\* notify_route_remove: remove_route, and a look at what is left ...
RouteRemove(a) ==
    /\ Begins(a, "routing")
    /\ \E name \in RouteNames(router) :
         /\ router' = Drop(router, name)
         /\ admitted' = ForgetLog({name})
    /\ Then(a, [does |-> "check"])
    /\ UNCHANGED <<subs, sinks, told, auditVars, stack, clock, ids, spoken, heard, missing>>

CheckRoutes(a) ==
    /\ admin[a].does = "check"
    /\ Then(a, [does |-> IF router.routes = <<>> THEN "stop" ELSE "idle"])
    /\ UNCHANGED <<subs, notifyVars, auditVars, stack, clock, budget, ids, history>>

\* ... and stop: the subscription is forgotten under the lock and given back after it.
RouterStop(a) ==
    /\ admin[a].does = "stop"
    /\ router' = [router EXCEPT !.active = FALSE]
    /\ Then(a, [does |-> IF router.active THEN "unsubscribe" ELSE "idle"])
    /\ UNCHANGED <<subs, sinks, told, auditVars, stack, clock, budget, ids, history>>

RouterUnsubscribe(a) ==
    /\ admin[a].does = "unsubscribe"
    /\ subs' = Unsubscribe(subs, "router")
    /\ Done(a)
    /\ UNCHANGED <<notifyVars, auditVars, stack, clock, budget, ids, history>>

\* sync_routes, when the configuration is loaded again
SyncRoutes(a) ==
    /\ Begins(a, "routing")
    /\ \E wanted \in Synced :
         LET r == Sync(router, wanted, "config") IN
         /\ r # router
         /\ router' = r
         /\ admitted' = ForgetLog({name \in RouteNames(router) \union RouteNames(r) :
                \/ name \notin RouteNames(r) \/ name \notin RouteNames(router)
                \/ RouteOf(r, name) # RouteOf(router, name)})
    /\ UNCHANGED <<subs, sinks, told, auditVars, admin, stack, clock, ids, spoken, heard, missing>>

\* register and unregister, of a sink
ChangeSinks(a) ==
    /\ Begins(a, "routing")
    /\ \/ \E s \in Sinks \ Range(sinks) : sinks' = Append(sinks, s)
       \/ \E s \in Range(sinks) : sinks' = SelectSeq(sinks, LAMBDA o : o # s)
    /\ UNCHANGED <<subs, router, told, auditVars, admin, stack, clock, ids, history>>

\* unregister_all
UnregisterAll(a) ==
    /\ Begins(a, "routing") /\ sinks # <<>>
    /\ sinks' = <<>> /\ told' = <<>> /\ spoken' = <<>>
    /\ UNCHANGED <<subs, router, auditVars, admin, stack, clock, ids, admitted, heard, missing>>

\* configure_audit: attach, close what the trail owned before, start
Attach(a) ==
    /\ Begins(a, "auditing") /\ ~trail.locked
    /\ \E s \in Stores :
         /\ ~stores[s].closed
         /\ trail' = [trail EXCEPT !.store = s, !.owned = s \in Owned]
         /\ Then(a, [does |-> "close", store |-> IF trail.owned /\ trail.store # s
                                                 THEN trail.store ELSE None, next |-> "listen"])
    /\ UNCHANGED <<subs, notifyVars, observers, stores, stack, clock, ids, history>>

CloseStore(a) ==
    /\ admin[a].does = "close"
    /\ stores' = IF admin[a].store = None THEN stores
                 ELSE [stores EXCEPT ![admin[a].store].closed = TRUE]
    /\ Then(a, [does |-> admin[a].next])
    /\ UNCHANGED <<subs, notifyVars, observers, trail, stack, clock, budget, ids, history>>

\* AuditTrail.start, under its lock: the bus first, the observers second.  The
\* trail that another administrator closed meanwhile has no store: it raises.
TrailStart(a) ==
    /\ admin[a].does = "listen" /\ ~trail.locked
    /\ IF trail.active \/ trail.store = None
       THEN Done(a) /\ UNCHANGED <<subs, trail>>
       ELSE /\ trail' = [trail EXCEPT !.active = TRUE, !.locked = TRUE]
            /\ subs' = Subscribe(subs, "audit")
            /\ Then(a, [does |-> "observe"])
    /\ UNCHANGED <<notifyVars, observers, stores, stack, clock, budget, ids, history>>

TrailObserve(a) ==
    /\ admin[a].does = "observe"
    /\ observers' = IF "audit" \in Range(observers) THEN observers ELSE Append(observers, "audit")
    /\ trail' = [trail EXCEPT !.locked = FALSE]
    /\ Done(a)
    /\ UNCHANGED <<subs, notifyVars, stores, stack, clock, budget, ids, history>>

\* close: stop, under the lock ...
TrailStop(a) ==
    /\ Begins(a, "auditing") /\ ~trail.locked /\ trail.active
    /\ trail' = [trail EXCEPT !.active = FALSE, !.locked = TRUE]
    /\ subs' = Unsubscribe(subs, "audit")
    /\ Then(a, [does |-> "unobserve"])
    /\ UNCHANGED <<notifyVars, observers, stores, stack, clock, ids, history>>

TrailUnobserve(a) ==
    /\ admin[a].does = "unobserve"
    /\ observers' = SelectSeq(observers, LAMBDA o : o # "audit")
    /\ trail' = [trail EXCEPT !.locked = FALSE]
    /\ Then(a, [does |-> "release"])
    /\ UNCHANGED <<subs, notifyVars, stores, stack, clock, budget, ids, history>>

\* ... and let go of the store
TrailRelease(a) ==
    /\ admin[a].does = "release" /\ ~trail.locked
    /\ trail' = [trail EXCEPT !.store = None, !.owned = FALSE]
    /\ Then(a, [does |-> "close", store |-> IF trail.owned THEN trail.store ELSE None, next |-> "idle"])
    /\ UNCHANGED <<subs, notifyVars, observers, stores, stack, clock, budget, ids, history>>

\* audit_purge: both kinds of store delete what is older than the cutoff.
Purge(a) ==
    /\ Begins(a, "auditing") /\ trail.store # None
    /\ ~stores[trail.store].closed
    /\ LET s == trail.store
           kept == MemoryPurge(stores[s].records, clock)
       IN  /\ stores' = [stores EXCEPT ![s].records = kept, ![s].table = RowPurge(@, clock)]
           /\ missing' = missing \union {r.origin : r \in Range(stores[s].records) \ Range(kept)}
    /\ UNCHANGED <<subs, notifyVars, observers, trail, admin, stack, clock, ids, admitted, spoken, heard>>

\* import_v1 into a SQLite store; the memory store is given the same new records.
Import(a) ==
    /\ Begins(a, "auditing")
    /\ \E s \in Owned :
         /\ ~stores[s].closed
         /\ LET old == SelectSeq(OldLog, LAMBDA r : CanAppend(stores[s].records, FALSE, r))
            IN  stores' = [stores EXCEPT ![s].records = @ \o old, ![s].table = ImportV1(@, OldLog)]
    /\ UNCHANGED <<subs, notifyVars, observers, trail, admin, stack, clock, ids, history>>

Tick ==
    /\ clock < MaxTime /\ clock' = clock + 1
    /\ UNCHANGED <<subs, notifyVars, auditVars, admin, budget, stack, ids, history>>

\* Any step of a thread that is inside a call
Goes(t) ==
    \/ Bridge(t) \/ Audit(t) \/ AppendRecord(t) \/ Route(t) \/ NextRoute(t) \/ NextSink(t)
    \/ AdmitSink(t) \/ Send(t) \/ Return(t) \/ Notify(t)

\* Any step of an administrator that is inside a change
Continues(a) ==
    \/ RouterStart(a) \/ CheckRoutes(a) \/ RouterStop(a) \/ RouterUnsubscribe(a) \/ CloseStore(a)
    \/ TrailStart(a) \/ TrailObserve(a) \/ TrailUnobserve(a) \/ TrailRelease(a)

Next ==
    \/ \E t \in Threads : Publish(t) \/ Operation(t) \/ Goes(t)
    \/ \E a \in Admins : \/ RouteAdd(a) \/ RouteRemove(a) \/ SyncRoutes(a) \/ ChangeSinks(a)
                         \/ UnregisterAll(a) \/ Attach(a) \/ TrailStop(a) \/ Purge(a) \/ Import(a)
                         \/ Continues(a)
    \/ Tick

Spec == Init /\ [][Next]_vars

-----------------------------------------------------------------------------
(* Properties *)

\* Between budget the subscriptions are exactly what the parts believe: the
\* bus calls the router once when it is active and never when it is not, and
\* the trail hears the bus and the observers both or neither -- although a
\* router that stops gives its subscription back after its lock, when another
\* thread may have started it again, and an equal subscription is removed.
SubscriptionExact ==
    (\A a \in Admins : admin[a].does \notin {"unsubscribe", "observe", "unobserve"}) =>
        /\ Cardinality({i \in DOMAIN subs : subs[i].handler = "router"}) = (IF router.active THEN 1 ELSE 0)
        /\ Cardinality({i \in DOMAIN subs : subs[i].handler = "audit"}) = (IF trail.active THEN 1 ELSE 0)
        /\ "audit" \in Range(observers) <=> trail.active

\* A route that is still in force sends one thing once per dedup_seconds to a
\* sink and at most rate_limit things per rate_period, however many threads
\* publish at once and although _admit reads its clock before its lock; the
\* manager's own window holds for direct messages too.  What a changed route
\* or a flood of keys made the router forget does not count.
ThrottleHolds ==
    /\ \A j \in DOMAIN admitted : admitted[j].current =>
         LET e == admitted[j]
             before == {i \in 1 .. j - 1 : admitted[i].key[1] = e.key[1] /\ admitted[i].key[2] = e.key[2]}
         IN  /\ e.route.dedup > 0 => \A i \in before :
                  admitted[i].key = e.key => admitted[i].now + admitted[i].route.dedup <= e.at
             /\ e.route.limit > 0 => e.route.limit >
                  Cardinality({i \in before : admitted[i].now > e.at - e.route.period})
    /\ \A i, j \in DOMAIN spoken : i < j /\ spoken[i].key = spoken[j].key =>
         spoken[j].at - spoken[i].at > ManagerDedup

OnStack(o) == \E t \in Threads : \E i \in DOMAIN stack[t] : stack[t][i].what.origin = o

\* The trail records what it heard of exactly once, in one store: a failed
\* storage operation is not recorded again for the event it caused, and a
\* record is only missing because its store was closed or purged, or the
\* trail had none.
AuditedOnce ==
    \A o \in 1 .. ids :
        LET kept == {<<s, i>> \in UNION {{s} \X DOMAIN stores[s].records : s \in Stores} :
                       stores[s].records[i].origin = o}
        IN  /\ Cardinality(kept) <= 1
            /\ o \notin heard => kept = {}
            /\ o \in heard \ missing /\ ~OnStack(o) => kept # {}

\* A SQLite store and a memory store that were given the same records answer
\* every search alike, whatever was purged and imported and in whatever order
\* the records of concurrent threads arrived.
SearchAgrees ==
    \A s \in Stores, q \in Queries :
        SelectRows(stores[s].table, q) = MemorySearch(stores[s].records, q)

\* A report is at most three calls deep -- an operation, the event about it and
\* the report that a sink failed: a sink that fails again and again is never
\* notified about its own failures, which would call itself without end.
NoEcho == \A t \in Threads : Len(stack[t]) <= 3
=============================================================================
