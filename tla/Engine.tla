------------------------------- MODULE Engine -------------------------------
(***************************************************************************)
(* The life cycle of an engine and its components (ltick.go): New prepares *)
(* and initiates the components of the registry, Startup starts them and   *)
(* Shutdown shuts them down, each in the order of registration; Startup    *)
(* and Shutdown may be called again after an error.                        *)
(*                                                                         *)
(* One step is one iteration of a loop over the components, with the call  *)
(* of the component's method in it, which may fail.  The caller registers  *)
(* components between the calls.                                           *)
(***************************************************************************)
EXTENDS Registry

CONSTANTS
    Config,          \* the Config component that New registers
    MaxRegistrations \* bound: what the caller changes

VARIABLES
    componentStates, \* Registry.ComponentStates, by the name looked up
    engine,          \* Engine.state, "none" before New, "exited" after os.Exit or a panic
    call,            \* the loop a call of New, Startup or Shutdown is in
    history,         \* the calls of component methods: method, component, success
    registrations,
    late,            \* has the registry been changed after New?
    setup            \* is there a callback, and what routes do the servers have?

callerVars == <<registrations, late, setup>>
vars == <<registryVars, componentStates, engine, call, history, callerVars>>

Idle == [phase |-> "idle", todo |-> << >>]

Enter(phase, todo) == call' = [phase |-> phase, todo |-> todo]
Return == call' = Idle

Init ==
    /\ RegistryInit
    /\ componentStates = [r \in RawNames |-> "init"]
    /\ engine = "none"
    /\ call = Idle
    /\ history = << >>
    /\ registrations = 0
    /\ late = FALSE
    /\ setup = [callback |-> FALSE, routes |-> "good"]

-----------------------------------------------------------------------------
\* The caller changes the registry; UseComponent registers with ignoreIfExists.
Register ==
    /\ call = Idle
    /\ engine # "exited"
    /\ registrations < MaxRegistrations
    /\ registrations' = registrations + 1
    /\ late' = (late \/ engine # "none")
    /\ \/ \E c \in Comps \ {Config}, b \in BOOLEAN : RegisterComponent(c, b)
       \/ \E n \in Names : UnregisterComponent(n)
       \/ \E m \in Middlewares, b \in BOOLEAN : RegisterMiddleware(m, b)
       \/ \E n \in Names : UnregisterMiddleware(n)
    /\ UNCHANGED <<componentStates, engine, call, history, setup>>

\* The caller sets a callback (WithCallback), or adds a route to a server that Startup
\* cannot take: one that is nil, or one with fewer handlers than methods.  Nothing
\* takes them back.
Configure ==
    /\ call = Idle
    /\ engine # "exited"
    /\ registrations < MaxRegistrations
    /\ registrations' = registrations + 1
    /\ \/ ~ setup.callback /\ setup' = [setup EXCEPT !.callback = TRUE]
       \/ /\ setup.routes = "good"
          /\ \E r \in {"nil", "short"} : setup' = [setup EXCEPT !.routes = r]
    /\ UNCHANGED <<registryVars, componentStates, engine, call, history, late>>

\* os.Exit, or a panic.
Exit ==
    /\ engine' = "exited"
    /\ Return

Called(method, c, ok) ==
    history' = Append(history, [method |-> method, comp |-> c, ok |-> ok])

\* A wrong Visit for RetryGetsUp: the state is only set when the method succeeds.
VisitSettingAfter(method, key, from, to, Failed) ==
    /\ call.todo # << >>
    /\ LET c == Head(call.todo)
           skipped == componentStates[key] # from
       IN
       \/ /\ skipped
          /\ call' = [call EXCEPT !.todo = Tail(@)]
          /\ UNCHANGED <<componentStates, engine, history>>
       \/ /\ ~skipped
          /\ componentStates' = [componentStates EXCEPT ![key] = to]
          /\ Called(method, c, TRUE)
          /\ call' = [call EXCEPT !.todo = Tail(@)]
          /\ UNCHANGED engine
       \/ /\ ~skipped
          /\ c # Config
          /\ UNCHANGED <<componentStates, history>>
          /\ Failed

\* One iteration of a loop: a component that is in the state "from" is set to
\* the state "to" first, and then its method is called.  Those of Config do not
\* fail.
Visit(method, key, from, to, Failed) ==
    /\ call.todo # << >>
    /\ LET c == Head(call.todo)
           skipped == componentStates[key] # from
       IN
       \/ /\ skipped
          /\ call' = [call EXCEPT !.todo = Tail(@)]
          /\ UNCHANGED <<componentStates, engine, history>>
       \/ /\ ~skipped
          /\ componentStates' = [componentStates EXCEPT ![key] = to]
          /\ \/ /\ Called(method, c, TRUE)
                /\ call' = [call EXCEPT !.todo = Tail(@)]
                /\ UNCHANGED engine
             \/ /\ c # Config
                /\ Called(method, c, FALSE)
                /\ Failed

\* Startup and Shutdown return the error.
ReturnError ==
    /\ Return
    /\ UNCHANGED engine

-----------------------------------------------------------------------------
\* New registers Config, prepares and initiates it, and injects the components
\* into the middlewares and the components.
New ==
    /\ call = Idle
    /\ engine = "none"
    /\ components' = WithRegistered(components, Config, TRUE)
    /\ componentStates' = [componentStates EXCEPT ![Raw[Config]] = "initiated"]
    /\ history' = history \o <<[method |-> "Prepare", comp |-> Config, ok |-> TRUE],
                               [method |-> "Initiate", comp |-> Config, ok |-> TRUE]>>
    /\ Enter("inject", << >>)
    /\ UNCHANGED <<middlewares, field, engine, callerVars>>

\* New prepares the other components, found by the order of their names: the
\* state is looked up under the canonical name.
NewInject ==
    /\ call.phase = "inject"
    /\ InjectComponentTo(InjectTargets)
    /\ IF ~InjectPanics /\ AllSatisfied(InjectTargets)
       THEN /\ Enter("prepare", [i \in 1..Len(components.order) |->
                                    components.map[components.order[i]]])
            /\ UNCHANGED engine
       ELSE Exit
    /\ UNCHANGED <<components, middlewares, componentStates, history, callerVars>>

NewPrepare ==
    /\ call.phase = "prepare"
    /\ Visit("Prepare", [canonical |-> canonicalName(Head(call.todo)), capital |-> TRUE],
             "init", "prepared", Exit)
    /\ UNCHANGED <<registryVars, callerVars>>

\* The components are prepared: New initiates them.
NewPrepared ==
    /\ call.phase = "prepare"
    /\ call.todo = << >>
    /\ Enter("newInitiate", Sorted(components))
    /\ UNCHANGED <<registryVars, componentStates, engine, history, callerVars>>

NewInitiate ==
    /\ call.phase = "newInitiate"
    /\ Visit("Initiate", Raw[Head(call.todo)], "prepared", "initiated", Exit)
    /\ UNCHANGED <<registryVars, callerVars>>

NewReturns ==
    /\ call.phase = "newInitiate"
    /\ call.todo = << >>
    /\ engine' = "initiate"
    /\ Return
    /\ UNCHANGED <<registryVars, componentStates, history, callerVars>>

-----------------------------------------------------------------------------
\* Startup initiates the middlewares, in any order; an error ends the process.
Startup ==
    /\ call = Idle
    /\ engine = "initiate"
    /\ \/ /\ Enter(IF setup.callback THEN "callback" ELSE "routes", << >>)
          /\ UNCHANGED engine
       \/ /\ Registered(middlewares) # {}
          /\ Exit
    /\ UNCHANGED <<registryVars, componentStates, history, callerVars>>

\* The callback gets its components and is called, before the components are
\* started.
CallbackOnStartup ==
    /\ call.phase = "callback"
    /\ InjectComponentTo(<<Callback>>)
    /\ \/ /\ Satisfied(Callback)
          /\ Enter("routes", << >>)
          /\ UNCHANGED engine
       \/ Exit
    /\ UNCHANGED <<components, middlewares, componentStates, history, callerVars>>

\* The routes of the servers are handed to their routers: one that is nil is an error
\* that Startup returns, a handler that is missing is a panic.
StartupRoutes ==
    /\ call.phase = "routes"
    /\ CASE setup.routes = "nil" -> ReturnError
         [] setup.routes = "short" -> Exit
         [] setup.routes = "good" -> Enter("wire", << >>) /\ UNCHANGED engine
    /\ UNCHANGED <<registryVars, componentStates, history, callerVars>>

\* A wrong StartupInject for Wired: what New injected is not injected again.
StartupInjectNothing ==
    /\ call.phase = "wire"
    /\ \/ /\ InjectPanics
          /\ Exit
       \/ /\ ~InjectPanics
          /\ UNCHANGED engine
          /\ IF AllSatisfied(InjectTargets) THEN Enter("initiate", Sorted(components))
             ELSE Return
    /\ UNCHANGED <<registryVars, componentStates, history, callerVars>>

StartupInject ==
    /\ call.phase = "wire"
    /\ InjectComponentTo(InjectTargets)
    /\ \/ /\ InjectPanics
          /\ Exit
       \/ /\ ~InjectPanics
          /\ UNCHANGED engine
          /\ IF AllSatisfied(InjectTargets) THEN Enter("initiate", Sorted(components))
             ELSE Return
    /\ UNCHANGED <<components, middlewares, componentStates, history, callerVars>>

StartupInitiate ==
    /\ call.phase = "initiate"
    /\ Visit("Initiate", Raw[Head(call.todo)], "prepared", "initiated", ReturnError)
    /\ UNCHANGED <<registryVars, callerVars>>

StartupInitiated ==
    /\ call.phase = "initiate"
    /\ call.todo = << >>
    /\ Enter("startup", Sorted(components))
    /\ UNCHANGED <<registryVars, componentStates, engine, history, callerVars>>

\* A wrong StartupComponent for LifecycleOrder: a component that Startup could
\* start before is started again.
StartupComponentAgain ==
    /\ call.phase = "startup"
    /\ Visit("OnStartup", Raw[Head(call.todo)],
             componentStates[Raw[Head(call.todo)]], "startup", ReturnError)
    /\ UNCHANGED <<registryVars, callerVars>>

StartupComponent ==
    /\ call.phase = "startup"
    /\ Visit("OnStartup", Raw[Head(call.todo)], "initiated", "startup", ReturnError)
    /\ UNCHANGED <<registryVars, callerVars>>

\* A wrong StartupReturns for StateTellsCalls: Startup ends at the first
\* component that is already started.
StartupReturnsEarly ==
    /\ call.phase = "startup"
    /\ \/ call.todo = << >>
       \/ call.todo # << >> /\ componentStates[Raw[Head(call.todo)]] = "startup"
    /\ engine' = "startup"
    /\ Return
    /\ UNCHANGED <<registryVars, componentStates, history, callerVars>>

StartupReturns ==
    /\ call.phase = "startup"
    /\ call.todo = << >>
    /\ engine' = "startup"
    /\ Return
    /\ UNCHANGED <<registryVars, componentStates, history, callerVars>>

-----------------------------------------------------------------------------
Shutdown ==
    /\ call = Idle
    /\ engine = "startup"
    /\ IF HasNil(components) THEN Exit
       ELSE Enter("shutdown", Sorted(components)) /\ UNCHANGED engine
    /\ UNCHANGED <<registryVars, componentStates, history, callerVars>>

ShutdownComponent ==
    /\ call.phase = "shutdown"
    /\ Visit("OnShutdown", Raw[Head(call.todo)], "startup", "shutdown", ReturnError)
    /\ UNCHANGED <<registryVars, callerVars>>

\* The callback, if there is one, is called last; if it fails Shutdown returns its
\* error and the engine is still started.
CallbackOnShutdown ==
    /\ call.phase = "shutdown"
    /\ call.todo = << >>
    /\ engine' \in {"shutdown"} \cup (IF setup.callback THEN {"startup"} ELSE {})
    /\ Return
    /\ UNCHANGED <<registryVars, componentStates, history, callerVars>>

Step ==
    \/ NewInject
    \/ NewPrepare
    \/ NewPrepared
    \/ NewInitiate
    \/ NewReturns
    \/ CallbackOnStartup
    \/ StartupRoutes
    \/ StartupInject
    \/ StartupInitiate
    \/ StartupInitiated
    \/ StartupComponent
    \/ StartupReturns
    \/ ShutdownComponent
    \/ CallbackOnShutdown

Next ==
    \/ Register
    \/ Configure
    \/ New
    \/ Startup
    \/ Shutdown
    \/ Step

Spec == Init /\ [][Next]_vars

\* A call goes on until it returns, and the caller calls Startup again when it
\* returned an error.
FairSpec == Spec /\ WF_vars(Step) /\ WF_vars(Startup)

-----------------------------------------------------------------------------
Current == {components.map[n] : n \in Registered(components)}

\* The registered components whose name starts with a capital letter, as the
\* names under which New sets their state to prepared do.
Capital == {c \in Current : Raw[c].capital}

\* The component's method was called, among the first i calls.
CalledBy(i, method, c) ==
    \E j \in 1..i : history[j].method = method /\ history[j].comp = c

Succeeded(i, method, c) ==
    \E j \in 1..i : history[j].method = method /\ history[j].comp = c /\ history[j].ok

\* Whatever fails and is tried again, no method of a component is called twice;
\* Initiate only follows a successful Prepare, OnShutdown follows OnStartup, and
\* the first OnStartup waits until every component is initiated: the states New,
\* Startup and Shutdown set keep this order as long as the registry stays as New
\* found it.
LifecycleOrder ==
    ~late => \A i \in 1..Len(history) :
        LET c == history[i].comp IN
        /\ ~CalledBy(i - 1, history[i].method, c)
        /\ history[i].method = "Initiate" => Succeeded(i - 1, "Prepare", c)
        /\ history[i].method = "OnStartup" =>
               \A d \in {c} \cup Capital : Succeeded(i - 1, "Initiate", d)
        /\ history[i].method = "OnShutdown" => CalledBy(i - 1, "OnStartup", c)

\* What the state of the engine says has been done, after however many attempts of
\* Startup and Shutdown: a started engine has started every component (but those
\* whose name starts with a small letter), and one that is shut down has shut down
\* every component it started.
StateTellsCalls ==
    LET called(method, c) == CalledBy(Len(history), method, c)
    IN  ~late =>
            /\ engine = "startup" => \A c \in Capital : called("OnStartup", c)
            /\ engine = "shutdown" =>
                   \A c \in Comps : called("OnStartup", c) => called("OnShutdown", c)

\* When Startup calls the components, the inject fields of all components, of
\* the middlewares and of the callback have what is registered at that time,
\* even if it has been replaced since New injected it.
Wired ==
    call.phase \in {"initiate", "startup"} =>
        \A t \in Current \cup ToSet(Sorted(middlewares)) \cup (IF setup.callback THEN {Callback} ELSE {}) :
            \A n \in Needs[t] : field[t][n] = components.map[n]

\* ltick.go says of the callback's OnStartup: "Execute On After All Engine
\* Component OnStartup".
CallbackAfterComponents ==
    [][CallbackOnStartup /\ engine' # "exited" =>
           \A c \in Current : CalledBy(Len(history), "OnStartup", c)]_vars

\* A caller that tries Startup again after an error gets the engine started (or the
\* process ended), even if a component always fails: it is not started again.  What
\* keeps every Startup from it is a nil route of a server, and after New taking away
\* what another component needs.
RetryGetsUp ==
    [](~late /\ setup.routes # "nil") => (engine = "initiate" ~> engine \in {"startup", "exited"})
=============================================================================
