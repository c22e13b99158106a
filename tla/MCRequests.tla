----------------------------- MODULE MCRequests -----------------------------
(***************************************************************************)
(* Requests: the router and the handlers they pass, the sessions they use, *)
(* and the binding of their parameters, which share no state.  A behaviour *)
(* is one of one part, the others stay as they begin.                      *)
(*                                                                         *)
(* Small servers: two methods, a path that can be written in two ways, two *)
(* hosts, and routes as a configuration file may give them.                *)
(***************************************************************************)
EXTENDS Server, Session, Binding, TLC

VARIABLE part

allVars == <<part, vars, sessionVars, bindingVars>>

MCHostLists == {<< <<"a">> >>, << <<"b">>, <<"*">> >>}
MCRequestHosts == {<<"a">>, <<"a", "b">>}
MCPlaces == {<< <<"x">>, << >> >>, << << >>, <<"x">> >>}

TwoMethods(handlers) ==
    [methods |-> <<"GET", "POST">>, host |-> << <<"*">> >>, group |-> <<"x">>,
     path |-> << >>, handlers |-> handlers]

MCConfiguredRoutes ==
    {NilRoute, TwoMethods(<<"nil", "handler">>), TwoMethods(<<"handler">>)}

MCOptionSets ==
    {{}, {"errorHandler", "slash", "timeout"}, {"errorLog", "recoveryLog", "cors", "language"}}

\* A server with one route; whether it is found depends on the host.
MCFollowed ==
    {<<[methods |-> <<"GET">>, host |-> << <<"a">> >>, group |-> <<"x">>, path |-> << >>,
        handlers |-> <<"handler">>]>>}

MCCallbacks == <<"callback">>
MCMiddlewares == <<"IPFilter", "auth">>

MCStructs == {
    <<Field("query", "scalar", << >>, FALSE, FALSE, TRUE),
      Field("header", "numbers", << >>, FALSE, TRUE, FALSE)>>,
    <<Field("path", "scalar", << >>, FALSE, FALSE, FALSE),
      Field("query", "numbers", <<1>>, FALSE, FALSE, TRUE)>>,
    <<Field("formData", "file", << >>, FALSE, FALSE, FALSE),
      Field("formData", "strings", << >>, TRUE, FALSE, FALSE)>>,
    <<Field("formData", "files", << >>, TRUE, FALSE, FALSE),
      Field("cookie", "scalar", <<2>>, FALSE, FALSE, FALSE)>>,
    <<Field("formData", "numbers", << >>, FALSE, FALSE, FALSE),
      Field("body", "scalar", << >>, FALSE, FALSE, FALSE)>>,
    <<Field("body", "scalar", <<1>>, FALSE, FALSE, FALSE)>>,
    <<Field("body", "scalar", << >>, TRUE, FALSE, FALSE)>>}

\* The carriers of the session id that are enabled, alone or with the cookie.
MCCarriers == {{"cookie"}, {"header"}, {"cookie", "query"}, {"cookie", "query", "header"}}

MCValues == {<< >>, <<1>>, <<2, 3>>, <<3>>, <<1, 9>>}

RequestsInit ==
    /\ part \in {"server", "session", "binding"}
    /\ Init /\ (part # "server" => options = {})
    /\ SessionInit /\ (part # "session" => sessionProvider = "redis" /\ enabled = {"cookie"})
    /\ BindingInit /\ (part # "binding" => api = << >> /\ ~ defaultValues /\ bodydecoder = "default")

RequestsNext ==
    \/ part = "server" /\ UNCHANGED <<part, sessionVars, bindingVars>> /\ Next
    \/ part = "session" /\ UNCHANGED <<part, vars, bindingVars>> /\ SessionNext
    \/ part = "binding" /\ UNCHANGED <<part, vars, sessionVars>> /\ BindingNext

Spec == RequestsInit /\ [][RequestsNext]_allVars

\* WildcardMatch accepts the hosts a pattern denotes: all short ones, checked once.
WildcardIsCorrect ==
    part = "server" /\ state = "initiate" /\ startups = 0 /\ Registrations = 0 =>
        WildcardIsCorrectUpTo({"a", "b"}, 3)

\* Clients, and requests, are alike.
Alike == Permutations(Clients) \cup Permutations(Requests) \cup Permutations(Handlings)
=============================================================================
