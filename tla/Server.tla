------------------------------- MODULE Server -------------------------------
(***************************************************************************)
(* A request in a server that has been started: the handlers of the router *)
(* around the handler of the route (server.go, customlogger.go, ipfilter), *)
(* the delegators of the metrics around the router (metrics, ListenAndServe*)
(* of ltick.go), and the context of the request.                           *)
(*                                                                         *)
(* tick-routing calls the handlers in order; one that calls Next runs the  *)
(* rest and goes on after it; Abort drops the rest; an error ends the rest *)
(* and is the result of Next.                                              *)
(***************************************************************************)
EXTENDS Router, MergedContext

CONSTANTS
    LabelFuncs, \* number of MetricsHttpServerRequestLabelFuncs
    Statuses,   \* the codes a handler answers with
    MaxWrites,  \* bound: calls of WriteHeader and Write by the handler
    Followed    \* bound: the routes of the servers whose requests are followed

VARIABLES
    request,  \* the handlers a request is in
    response, \* what the client gets: the first status, the size of the body
    layers,   \* the delegators of the metrics, the innermost first
    observed  \* the observations: instrument, status, size

vars == <<routerVars, mergedVars, request, response, layers, observed>>

Error == 500

NoRequest ==
    [found |-> FALSE, frames |-> << >>, next |-> 0, err |-> "nil", events |-> << >>,
     stopped |-> 0, writes |-> 0, phase |-> "none",
     failed |-> FALSE, panicked |-> FALSE, swallowed |-> FALSE] \* for the properties

Init ==
    /\ NewServerRouter
    /\ MergedInit
    /\ request = NoRequest
    /\ response = [status |-> 0, size |-> 0, headers |-> 0]
    /\ layers = << >>
    /\ observed = << >>

-----------------------------------------------------------------------------
\* ServerListenAndServe: an instrument for every label function, or one.
Wrappers(kind) ==
    [i \in 1..(IF LabelFuncs > 0 THEN LabelFuncs ELSE 1) |->
        [kind |-> kind, status |-> 0, written |-> 0, wroteHeader |-> FALSE, trace |-> << >>]]

Instrumented ==
    Wrappers("requests") \o Wrappers("responseSize") \o Wrappers("requestSize")

Traced(d, events) == IF d.kind = "requests" THEN d.trace \o events ELSE d.trace

\* A wrong DelegateHeader for ReportedAsSent: the status is only kept when the
\* body is written.
DelegateHeaderLate(d, code) ==
    [d EXCEPT !.wroteHeader = TRUE, !.trace = Traced(d, <<"wrote_header">>)]

\* responseWriterDelegator.WriteHeader.
DelegateHeader(d, code) ==
    [d EXCEPT !.status = code, !.wroteHeader = TRUE, !.trace = Traced(d, <<"wrote_header">>)]

\* responseWriterDelegator.Write.  All delegators see the same calls.
DelegateWrite(d) ==
    LET first == [d EXCEPT !.trace = Traced(d, <<"sent_first_response_byte">>)]
        begun == IF d.wroteHeader THEN first ELSE DelegateHeader(first, 200)
    IN  [begun EXCEPT !.written = @ + 1, !.trace = Traced(begun, <<"wrote_request">>)]

\* net/http: the first status is sent.
WriteHeader(code) ==
    /\ layers' = [i \in DOMAIN layers |-> DelegateHeader(layers[i], code)]
    /\ response' = [response EXCEPT !.status = IF @ = 0 THEN code ELSE @,
                                    !.headers = @ + 1]

Write ==
    /\ layers' = [i \in DOMAIN layers |-> DelegateWrite(layers[i])]
    /\ response' = [response EXCEPT !.status = IF @ = 0 THEN 200 ELSE @,
                                    !.size = @ + 1,
                                    !.headers = IF @ = 0 THEN 1 ELSE @]

Silent == UNCHANGED <<layers, response>>

\* sanitizeStatus: no status is 200.
sanitizeStatus(s) == IF s = 0 THEN 200 ELSE s

-----------------------------------------------------------------------------
Chain == startupHandlers \o anteriorHandlers \o <<"handler">>
End == Len(Chain) + 1

\* A request arrives for an installed route.
Accept ==
    /\ state = "startup"
    /\ request.phase = "none"
    /\ routes \in Followed
    /\ Registrations = Len(routes)
    /\ \E m \in Methods, p \in Places, h \in RequestHosts :
           /\ Serving(m, p[1] \o p[2], h) # "none"
           /\ request' = [NoRequest EXCEPT
                              !.found = Serving(m, p[1] \o p[2], h) # "NotFound",
                              !.next = 1, !.phase = "chain"]
    /\ layers' = Instrumented
    /\ UNCHANGED <<routerVars, mergedVars, response, observed>>

Calls(kind) ==
    /\ request.phase = "chain"
    /\ request.err = "nil"
    /\ request.next < End
    /\ Chain[request.next] = kind

Event(what) == Append(request.events, <<what, request.next>>)
Framed(kind) == Append(request.frames, [at |-> request.next, kind |-> kind])

\* The handlers that only look at the request.
PassThrough ==
    /\ \E kind \in {"type", "language", "timeout", "slash", "cors"} : Calls(kind)
    /\ request' = [request EXCEPT !.next = @ + 1]
    /\ Silent

\* The slash remover redirects, the CORS handler answers a preflight request.
Redirect ==
    /\ \E kind \in {"slash", "cors"} : Calls(kind)
    /\ request' = [request EXCEPT !.next = End, !.stopped = request.next]
    /\ WriteHeader(301)

\* CustomLogger, PanicHandler, ErrorHandler, Recovery: what they do comes after Next.
EnterHandler ==
    \E kind \in {"access", "error", "panic", "recovery"} :
        /\ Calls(kind)
        /\ request' = [request EXCEPT !.frames = Framed(kind), !.next = @ + 1]
        /\ Silent

\* AddCallback: the error of OnRequestStartup is ignored.
EnterCallback ==
    /\ \E i \in DOMAIN Callbacks : Calls(Callbacks[i])
    /\ request' = [request EXCEPT !.frames = Framed("callback"), !.next = @ + 1,
                                  !.events = Event("OnRequestStartup")]
    /\ Silent

Kind(middleware) == IF middleware = "IPFilter" THEN "filter" ELSE "middleware"

\* AddMiddlewares: an error of OnRequestStartup aborts the rest.
Refuse(middleware) ==
    request' = [request EXCEPT !.frames = Framed("middleware"), !.next = End,
                               !.err = "error", !.stopped = request.next,
                               !.failed = TRUE, !.events = Event("OnRequestStartup")]

\* IPFilter.OnRequestStartup calls Next itself for an address of the whitelist.
EnterMiddleware ==
    /\ \E i \in DOMAIN Middlewares :
           /\ Calls(Middlewares[i])
           /\ \/ Refuse(Middlewares[i])
              \/ request' = [request EXCEPT !.frames = Framed(Kind(Middlewares[i])),
                                            !.next = @ + 1,
                                            !.events = Event("OnRequestStartup")]
    /\ Silent

\* genHandlerFunc without a host that matches: routing.NotFoundHandler is an error.
NotFound ==
    /\ Calls("handler")
    /\ ~request.found
    /\ request' = [request EXCEPT !.next = End, !.err = "error", !.failed = TRUE]
    /\ Silent
    /\ UNCHANGED <<mainCtx, ctx, merged>>

Dispatch ==
    /\ Calls("handler")
    /\ request.found
    /\ request' = [request EXCEPT !.phase = "handler", !.events = Event("Serve")]
    /\ MergeContext
    /\ Silent
    /\ UNCHANGED <<mainCtx, ctx>>

\* The handler of the route.
HandlerWrites ==
    /\ request.phase = "handler"
    /\ request.writes < MaxWrites
    /\ request' = [request EXCEPT !.writes = @ + 1]
    /\ Write \/ \E code \in Statuses : WriteHeader(code)

HandlerReturns(err) ==
    /\ request.phase = "handler"
    /\ request' = [request EXCEPT !.phase = "chain", !.next = End, !.err = err,
                                  !.failed = err # "nil", !.panicked = err = "panic"]
    /\ Silent

-----------------------------------------------------------------------------
\* The rest of the handlers is done, or has failed: Next returns to the frame.
Top == request.frames[Len(request.frames)]

Returns(kind) ==
    /\ request.phase = "chain"
    /\ request.err # "nil" \/ request.next = End
    /\ request.frames # << >>
    /\ Top.kind = kind

Popped == SubSeq(request.frames, 1, Len(request.frames) - 1)
After(what) == IF request.err = "panic" THEN request.events
               ELSE Append(request.events, <<what, Top.at>>)

\* CustomLogger logs the request.
LeaveAccess ==
    /\ Returns("access")
    /\ request' = [request EXCEPT !.frames = Popped, !.events = After("access")]
    /\ Silent

\* A wrong LeavePanic for ErrorIsAnswered: the panic is logged and forgotten.
LeavePanicQuietly ==
    /\ Returns("panic")
    /\ request' = [request EXCEPT !.frames = Popped,
                                  !.err = IF @ = "panic" THEN "nil" ELSE @]
    /\ Silent

\* fault.PanicHandler makes an error of a panic.
LeavePanic ==
    /\ Returns("panic")
    /\ request' = [request EXCEPT !.frames = Popped,
                                  !.err = IF @ = "panic" THEN "error" ELSE @]
    /\ Silent

\* fault.ErrorHandler answers errors, fault.Recovery also panics.
LeaveError ==
    \E kind \in {"error", "recovery"} :
        /\ Returns(kind)
        /\ LET answers == request.err \in IF kind = "error" THEN {"error"} ELSE {"error", "panic"}
           IN  /\ request' = [request EXCEPT !.frames = Popped,
                                             !.err = IF answers THEN "nil" ELSE @]
               /\ IF answers THEN WriteHeader(Error) ELSE Silent

\* A wrong LeaveWrapper for ShutdownsNest: OnRequestShutdown is not called for a
\* request that failed.
LeaveWrapperOnError ==
    \E kind \in {"callback", "middleware", "filter"} :
        /\ Returns(kind)
        /\ request' = [request EXCEPT
                           !.frames = Popped,
                           !.events = IF request.err = "nil" THEN After("OnRequestShutdown") ELSE @,
                           !.err = IF kind = "filter" /\ @ = "error" THEN "nil" ELSE @]
        /\ Silent

\* AddCallback and AddMiddlewares call OnRequestShutdown after Next.  IPFilter has
\* ignored the error of its own Next; that of AddMiddlewares finds nothing to do.
LeaveWrapper ==
    \E kind \in {"callback", "middleware", "filter"} :
        /\ Returns(kind)
        /\ request' = [request EXCEPT
                           !.frames = Popped,
                           !.events = After("OnRequestShutdown"),
                           !.swallowed = @ \/ (kind = "filter" /\ request.err = "error"),
                           !.err = IF kind = "filter" /\ @ = "error" THEN "nil" ELSE @]
        /\ Silent

\* The router is left: it answers an error that is left, and every instrument
\* observes the request.
Finish ==
    /\ request.phase = "chain"
    /\ request.err # "nil" \/ request.next = End
    /\ request.frames = << >>
    /\ IF request.err = "error" THEN WriteHeader(Error) ELSE Silent
    /\ request' = [request EXCEPT !.phase = "observe"]

\* InstrumentHttpServerRequests, ...ResponseSize and ...RequestSize after the
\* handler; then net/http ends the context of the request.
Observe ==
    /\ request.phase = "observe"
    /\ request' = [request EXCEPT !.phase = "over"]
    /\ observed' = [i \in DOMAIN layers |->
                       [kind |-> layers[i].kind, status |-> sanitizeStatus(layers[i].status),
                        size |-> layers[i].written]]
    /\ mainCtx' = "done"
    /\ UNCHANGED <<routerVars, ctx, merged, response, layers>>

RequestStep ==
    \/ PassThrough \/ Redirect \/ EnterHandler \/ EnterCallback \/ EnterMiddleware
    \/ HandlerWrites \/ (\E err \in {"nil", "error", "panic"} : HandlerReturns(err))
    \/ LeaveAccess \/ LeavePanic \/ LeaveError \/ LeaveWrapper \/ Finish

ContextStep ==
    /\ request.phase # "none"
    /\ CancelMain \/ (CancelCtx /\ "timeout" \in options) \/ Run

Next ==
    \/ RouterNext /\ UNCHANGED <<mergedVars, request, response, layers, observed>>
    \/ Accept
    \/ RequestStep /\ UNCHANGED <<routerVars, mergedVars, observed>>
    \/ (NotFound \/ Dispatch) /\ UNCHANGED <<routerVars, observed>>
    \/ Observe
    \/ ContextStep /\ UNCHANGED <<routerVars, request, response, layers, observed>>

-----------------------------------------------------------------------------
\* The positions of the events of a kind.
At(what) ==
    LET events == SelectSeq(request.events, LAMBDA e : e[1] = what)
    IN  [i \in DOMAIN events |-> events[i][2]]

\* AddCallback and AddMiddlewares: OnRequestShutdown is called for every callback
\* and middleware whose OnRequestStartup was, in the opposite order, whether the
\* request was served, refused by one of them, or failed.  A panic of the handler
\* passes them by, and is the exception.
ShutdownsNest ==
    request.phase = "observe" /\ ~request.panicked =>
        At("OnRequestShutdown") = Reverse(At("OnRequestStartup"))

\* Resolve puts CustomLogger first: every request is logged, also one that
\* panics, and only once if Startup was called once.  Only a slash remover or CORS
\* handler that was set before Startup comes earlier.
AccessIsLogged ==
    LET early == Len(startupHandlers)
                     - startups * (Len(SelectSeq(ResolveOrder, IsResolved)) + Len(Callbacks))
    IN  request.phase = "observe" =>
            Len(At("access")) \in IF request.stopped \in 1..early THEN {0} ELSE 1..startups

\* A request that was not served well has a status that says so, whichever of the
\* options for errors are set, if the handler has not begun to answer.  IPFilter
\* is the exception: the error of what comes after it is lost, and the client gets
\* 200 also when no route matches.
ErrorIsAnswered ==
    request.phase = "observe" /\ request.failed /\ request.writes = 0 =>
        \/ response.status = Error
        \/ request.swallowed /\ response.status = 0

\* The metrics report what the client got: the size of the body, the status if it was
\* written once, and one observation of every request for every label function in
\* each of the three metrics, also if the handler panicked ("If the wrapped Handler
\* panics, no values are reported": the panic does not get out of the router).
ReportedAsSent ==
    request.phase = "over" =>
        /\ \A i \in DOMAIN observed :
               /\ observed[i].size = response.size
               /\ response.headers <= 1 => observed[i].status = sanitizeStatus(response.status)
        /\ \A kind \in {"requests", "responseSize", "requestSize"} :
               Cardinality({i \in DOMAIN observed : observed[i].kind = kind}) =
                   (IF LabelFuncs > 0 THEN LabelFuncs ELSE 1)

-----------------------------------------------------------------------------
HostMatches(hosts, host) == \E i \in DOMAIN hosts : WildcardMatch(hosts[i], host)

Indices(s) == [i \in DOMAIN s |-> i]

MetricsPages == {p \in pages : p.kind = "metrics"}

\* No two ways to write the same path, no route for any method, and no proxy where
\* the metrics are: tick-routing would keep only one of them.
Unambiguous ==
    LET placed == {<<r.group, r.path>> : r \in ToSet(routes) \cup ToSet(proxys)}
                  \cup {<<p.group, << >> >> : p \in MetricsPages}
    IN  /\ \A p, q \in placed : p[1] \o p[2] = q[1] \o q[2] => p = q
        /\ \A i \in DOMAIN routes : "ANY" \notin ToSet(routes[i].methods)
        /\ \A p \in MetricsPages, i \in DOMAIN proxys :
               proxys[i].group \o proxys[i].path # p.group

\* What was registered decides who serves a request: the metrics, or the first
\* proxy, or the first route with its method, path and host.
Registered(method, url, host) ==
    LET metrics == {p \in MetricsPages : p.group = url /\ HostMatches(p.host, host)}
        at(r) == r.group \o r.path = url /\ HostMatches(r.host, host)
        proxies == SelectSeq(Indices(proxys), LAMBDA i : at(proxys[i]))
        served(r) == \E k \in DOMAIN r.methods : r.methods[k] = method /\ r.handlers[k] # "nil"
        routed == SelectSeq(Indices(routes), LAMBDA i : at(routes[i]) /\ served(routes[i]))
    IN  CASE method = "GET" /\ metrics # {} -> "metrics"
          [] proxies # << >> -> <<"proxy", proxies[1]>>
          [] routed # << >> -> <<"route", routed[1]>>
          [] OTHER -> "NotFound"

\* Merging the routes loses none ("when method and path are the same, routing only
\* adds the first"), and keeps their order.  Holds for a server with a route and
\* without ambiguous paths: without a route nothing is installed.
RoutedAsRegistered ==
    state = "startup" /\ startups = 1 /\ routes # << >> /\ Unambiguous =>
        \A m \in Methods, p \in Places, h \in RequestHosts :
            LET url == p[1] \o p[2]
                serving == Serving(m, url, h)
            IN  (IF serving = "none" THEN "NotFound" ELSE serving) = Registered(m, url, h)
=============================================================================
