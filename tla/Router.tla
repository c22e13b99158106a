------------------------------- MODULE Router -------------------------------
(***************************************************************************)
(* The router of a server: the routes, proxies, metrics and pprof pages    *)
(* registered on it (server.go), and Engine.Startup, which merges those of *)
(* the same method, group and path and installs them (ltick.go).           *)
(*                                                                         *)
(* Installed routes are looked up by tick-routing, which knows them by     *)
(* method and whole path, and keeps the first one of those that are equal. *)
(***************************************************************************)
EXTENDS Wildcard, FiniteSets

CONSTANTS
    Methods,          \* request methods
    HostLists,        \* host patterns of a route
    RequestHosts,     \* hosts of requests
    Places,           \* <<group, path>> of routes and proxies
    ConfiguredRoutes, \* routes that come from a configuration file
    NilRoute,
    OptionSets,       \* the options a router may be made with
    Callbacks,        \* RouterCallbacks of the options, in order
    Middlewares,      \* of WithMiddlewares, in order
    MaxRegistrations, \* bound: registrations on the server
    MaxStartups       \* bound: calls of Startup

VARIABLES
    options,   \* ServerRouterOptions: the names of those that are set
    routes,    \* ServerRouter.Routes
    proxys,    \* ServerRouter.Proxys
    pages,     \* ServerRouter.Metrics and Pprof that are set
    startupHandlers, anteriorHandlers, \* of the routing.Router
    installed, \* what the routing.Router was given: method, group, path, list
    state,     \* "initiate", "startup" or "panic"
    startups   \* calls of Startup

routerVars == <<options, routes, proxys, pages, startupHandlers, anteriorHandlers,
                installed, state, startups>>

NewServerRouter ==
    /\ options \in OptionSets
    /\ routes = << >>
    /\ proxys = << >>
    /\ pages = {}
    /\ startupHandlers = << >>
    /\ anteriorHandlers = << >>
    /\ installed = << >>
    /\ state = "initiate"
    /\ startups = 0

Registrations == Len(routes) + Len(proxys) + Cardinality(pages)

\* Before the first Startup.
MayRegister == startups = 0 /\ Registrations < MaxRegistrations

-----------------------------------------------------------------------------
\* Get, Post, Put, Patch, Delete, Connect, Options and Trace: one handler is
\* given, and is called by the place of the route among the routes.
AddServerRoute(method, host, place) ==
    /\ MayRegister
    /\ routes' = Append(routes, [methods |-> <<method>>, host |-> host,
                                 group |-> place[1], path |-> place[2],
                                 handlers |-> <<"handler">>])
    /\ UNCHANGED <<options, proxys, pages, startupHandlers, anteriorHandlers,
                   installed, state, startups>>

\* ConfigureServerFromFile gives routes with several methods, or null.
ConfigureRoute(route) ==
    /\ MayRegister
    /\ routes' = Append(routes, route)
    /\ UNCHANGED <<options, proxys, pages, startupHandlers, anteriorHandlers,
                   installed, state, startups>>

Proxy(host, place) ==
    /\ MayRegister
    /\ proxys' = Append(proxys, [host |-> host, group |-> place[1], path |-> place[2]])
    /\ UNCHANGED <<options, routes, pages, startupHandlers, anteriorHandlers,
                   installed, state, startups>>

\* Metrics and Pprof; a second call replaces the first.
SetPage(page) ==
    /\ MayRegister
    /\ pages' = {p \in pages : p.kind # page.kind} \cup {page}
    /\ UNCHANGED <<options, routes, proxys, startupHandlers, anteriorHandlers,
                   installed, state, startups>>

\* SetReuqestSlashRemover and SetServerReuqestCors append to the handlers at
\* once, before those of Resolve.  It does not matter when, among the registrations.
SetStartupHandler(kind) ==
    /\ startups = 0
    /\ Registrations = 0
    /\ kind \notin ToSet(startupHandlers)
    /\ startupHandlers' = Append(startupHandlers, kind)
    /\ UNCHANGED <<options, routes, proxys, pages, anteriorHandlers,
                   installed, state, startups>>

-----------------------------------------------------------------------------
\* A wrong ResolveOrder for AccessIsLogged: redirects come first.
ResolveOrderSlashFirst ==
    <<"slash", "access", "error", "panic", "recovery", "type", "language", "cors", "timeout">>

\* The handlers that ServerRouter.Resolve appends, in its order.
ResolveOrder ==
    <<"access", "error", "panic", "recovery", "type", "slash", "language", "cors", "timeout">>

\* Which of them, by the options.
IsResolved(kind) ==
    CASE kind \in {"access", "panic", "type"} -> TRUE
      [] kind = "error" -> {"errorLog", "errorHandler"} \cap options # {}
      [] kind = "recovery" -> {"recoveryLog", "recoveryHandler"} \cap options # {}
      [] OTHER -> kind \in options

\* ServerRouter.Resolve appends, also when it is called again.
Resolve ==
    /\ startupHandlers' =
           startupHandlers \o SelectSeq(ResolveOrder, IsResolved) \o Callbacks
    /\ anteriorHandlers' = anteriorHandlers \o Middlewares

\* A wrong AddMesh for RoutedAsRegistered: the list of a key is replaced.
AddMeshReplacing(mesh, e) ==
    IF \E i \in DOMAIN mesh : mesh[i].key = e.key
    THEN [i \in DOMAIN mesh |->
             IF mesh[i].key = e.key THEN [mesh[i] EXCEPT !.list = <<e.handler>>] ELSE mesh[i]]
    ELSE Append(mesh, [key |-> e.key, list |-> <<e.handler>>])

\* addMesh: the handler goes to the end of the list of its key; the keys are
\* kept in the order they are first met.
AddMesh(mesh, e) ==
    IF \E i \in DOMAIN mesh : mesh[i].key = e.key
    THEN [i \in DOMAIN mesh |->
             IF mesh[i].key = e.key THEN [mesh[i] EXCEPT !.list = Append(@, e.handler)]
             ELSE mesh[i]]
    ELSE Append(mesh, [key |-> e.key, list |-> <<e.handler>>])

Entry(method, group, path, host, handler) ==
    [key |-> <<method, group, path>>, handler |-> [host |-> host, handler |-> handler]]

PprofGroup == <<"debug", "pprof">>
PprofPaths == <<"*", "cmdline", "profile", "symbol", "trace">>

\* The pages: metrics is GET without a path, pprof has five pages for any method.
PageEntries ==
    LET metrics == SetToSeq({p \in pages : p.kind = "metrics"})
        profile == SetToSeq({p \in pages : p.kind = "pprof"})
    IN  [i \in DOMAIN metrics |->
            Entry("GET", metrics[i].group, << >>, metrics[i].host, "metrics")]
        \o FlattenSeq([i \in DOMAIN profile |->
            [j \in DOMAIN PprofPaths |->
                Entry("ANY", PprofGroup, <<PprofPaths[j]>>, profile[i].host, "pprof")]])

ProxyEntry(method, i) ==
    Entry(method, proxys[i].group, proxys[i].path, proxys[i].host, <<"proxy", i>>)

\* The proxies of the group and the path of a route.
ProxiesAt(route, method) ==
    LET same == SelectSeq([i \in DOMAIN proxys |-> i],
                          LAMBDA i : proxys[i].group = route.group /\ proxys[i].path = route.path)
    IN  [k \in DOMAIN same |-> ProxyEntry(method, same[k])]

\* Every method of a route has its own handler, or nil; the proxies come before it.
RouteEntries(i) ==
    LET methods == SelectSeq([k \in DOMAIN routes[i].methods |-> k],
                             LAMBDA k : routes[i].handlers[k] # "nil")
        entry(method) == Entry(method, routes[i].group, routes[i].path, routes[i].host,
                               <<"route", i>>)
    IN  FlattenSeq([k \in DOMAIN methods |->
            LET method == routes[i].methods[methods[k]]
            IN  Append(ProxiesAt(routes[i], method), entry(method))])

Entries ==
    PageEntries \o FlattenSeq([i \in DOMAIN routes |-> RouteEntries(i)])
                \o [i \in DOMAIN proxys |-> ProxyEntry("ANY", i)]

\* route.Handlers[index] is read for every method: the loop over the routes ends
\* at the first that is null or has too few handlers.
IsBad(i) == routes[i] = NilRoute \/ Len(routes[i].handlers) < Len(routes[i].methods)
IsAnyBad == SelectSeq([i \in DOMAIN routes |-> i], IsBad)

\* Startup for the server.  Nothing is installed without a route.  What comes
\* after the servers may fail, and Startup is called again.
Startup ==
    /\ state = "initiate"
    /\ startups < MaxStartups
    /\ startups' = startups + 1
    /\ Resolve
    /\ \/ /\ IsAnyBad # << >>
          /\ state' = IF routes[IsAnyBad[1]] = NilRoute THEN "initiate" ELSE "panic"
          /\ UNCHANGED installed
       \/ /\ IsAnyBad = << >>
          /\ installed' = IF routes = << >> THEN installed
                          ELSE installed \o FoldLeft(AddMesh, << >>, Entries)
          /\ state' \in {"initiate", "startup"}
    /\ UNCHANGED <<options, routes, proxys, pages>>

RouterNext ==
    \/ \E m \in Methods, h \in HostLists, p \in Places : AddServerRoute(m, h, p)
    \/ \E r \in ConfiguredRoutes : ConfigureRoute(r)
    \/ \E h \in HostLists, p \in Places : Proxy(h, p)
    \/ \E h \in HostLists, p \in Places :
           SetPage([kind |-> "metrics", host |-> h, group |-> p[1]])
    \/ \E h \in HostLists : SetPage([kind |-> "pprof", host |-> h])
    \/ \E kind \in {"slash", "cors"} : SetStartupHandler(kind)
    \/ Startup

-----------------------------------------------------------------------------
\* tick-routing: of the installed routes with the method and the whole path of a
\* request, the first.
Routed(method, url) ==
    SelectSeq(installed, LAMBDA e : e.key[1] \in {method, "ANY"} /\ e.key[2] \o e.key[3] = url)

\* genHandlerFunc: the first handler in the list with a host that matches.
Serving(method, url, host) ==
    LET routed == Routed(method, url)
        match(h) == \E i \in DOMAIN h.host : WildcardMatch(h.host[i], host)
        matching == SelectSeq(routed[1].list, match)
    IN  CASE routed = << >> -> "none"
          [] matching = << >> -> "NotFound"
          [] OTHER -> matching[1].handler
=============================================================================
