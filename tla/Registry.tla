------------------------------ MODULE Registry ------------------------------
(***************************************************************************)
(* The registry of component.go and middleware.go: the list, the map and   *)
(* the order in which it keeps the components (and, in a table of its own, *)
(* the middlewares), and the injection of registered components into the   *)
(* tagged fields of others.                                                *)
(*                                                                         *)
(* A component is registered under the name it has and found under its     *)
(* canonical name, which starts with a capital.                            *)
(***************************************************************************)
EXTENDS Naturals, Sequences, FiniteSets, SequencesExt

CONSTANTS
    Names,       \* canonical names
    Comps,       \* component objects
    Middlewares, \* middleware objects
    Callback,    \* the callback of the engine
    NoComp,
    Raw,         \* the name of each object: [canonical, capital]
    Needs        \* the inject fields of each object, by the name they need

Objects == Comps \cup Middlewares
Targets == Objects \cup {Callback}
RawNames == [canonical : Names, capital : BOOLEAN]

ASSUME RawAssumption == Raw \in [Objects -> RawNames]
ASSUME NeedsAssumption == Needs \in [Targets -> SUBSET Names]

VARIABLES
    components,  \* Components, ComponentMap and SortedComponentName
    middlewares, \* Middlewares, MiddlewareMap and SortedMiddlewareName
    field        \* what is in the inject fields of each object

registryVars == <<components, middlewares, field>>

canonicalName(c) == Raw[c].canonical

NewTable == [list |-> << >>, map |-> [n \in Names |-> NoComp], order |-> << >>]

Registered(table) == {n \in Names : table.map[n] # NoComp}

RegistryInit ==
    /\ components = NewTable
    /\ middlewares = NewTable
    /\ field = [t \in Targets |-> [n \in Names |-> NoComp]]

\* A wrong Unregistered for OneEntryPerName: the order keeps the name.
UnregisteredInMap(table, n) ==
    [list  |-> SelectSeq(table.list, LAMBDA c : Raw[c] # [canonical |-> n, capital |-> TRUE]),
     map   |-> [table.map EXCEPT ![n] = NoComp],
     order |-> table.order]

\* The list is searched for an object that has the canonical name itself.
Unregistered(table, n) ==
    [list  |-> SelectSeq(table.list, LAMBDA c : Raw[c] # [canonical |-> n, capital |-> TRUE]),
     map   |-> [table.map EXCEPT ![n] = NoComp],
     order |-> SelectSeq(table.order, LAMBDA m : m # n)]

Appended(table, c) ==
    [list  |-> Append(table.list, c),
     map   |-> [table.map EXCEPT ![canonicalName(c)] = c],
     order |-> Append(table.order, canonicalName(c))]

\* RegisterComponent and RegisterMiddleware: an error leaves the table as it is.
WithRegistered(table, c, ignoreIfExists) ==
    IF table.map[canonicalName(c)] = NoComp THEN Appended(table, c)
    ELSE IF ignoreIfExists THEN Appended(Unregistered(table, canonicalName(c)), c)
    ELSE table

\* GetSortedComponents and GetSortedMiddlewares: as long as the list, filled up
\* with nil.
Sorted(table) ==
    LET found == SelectSeq(table.order, LAMBDA n : table.map[n] # NoComp)
    IN  [i \in 1..Len(table.list) |->
            IF i <= Len(found) THEN table.map[found[i]] ELSE NoComp]

-----------------------------------------------------------------------------
RegisterComponent(c, ignoreIfExists) ==
    /\ components' = WithRegistered(components, c, ignoreIfExists)
    /\ UNCHANGED <<middlewares, field>>

\* No error if there is none.
UnregisterComponent(n) ==
    /\ components' = Unregistered(components, n)
    /\ UNCHANGED <<middlewares, field>>

RegisterMiddleware(m, ignoreIfExists) ==
    /\ middlewares' = WithRegistered(middlewares, m, ignoreIfExists)
    /\ UNCHANGED <<components, field>>

\* An error, and no change, if there is none.
UnregisterMiddleware(n) ==
    /\ middlewares.map[n] # NoComp
    /\ middlewares' = Unregistered(middlewares, n)
    /\ UNCHANGED <<components, field>>

-----------------------------------------------------------------------------
\* Can every inject field of t be given a component?
Satisfied(t) == Needs[t] \subseteq Registered(components)

\* InjectComponentTo: the fields of all targets, in order, up to the first
\* field whose component is not registered.  A target that fails keeps the
\* fields S it was already given.
Injected(targets, S) ==
    LET bad == {i \in 1..Len(targets) : ~Satisfied(targets[i])}
        complete == {targets[i] : i \in {j \in 1..Len(targets) : \A b \in bad : j < b}}
        partial == {targets[i] : i \in {b \in bad : \A j \in bad : b <= j}}
    IN  [t \in Targets |-> [n \in Names |->
            IF n \in Needs[t] /\ (t \in complete \/ (t \in partial /\ n \in S))
            THEN components.map[n] ELSE field[t][n]]]

InjectComponentTo(targets) ==
    \E S \in SUBSET Registered(components) : field' = Injected(targets, S)

AllSatisfied(targets) == \A i \in 1..Len(targets) : Satisfied(targets[i])

\* InjectMiddleware, then InjectComponent: each collects its targets first, and
\* dereferences nil if there is one among them.
HasNil(table) == NoComp \in ToSet(Sorted(table))

InjectTargets ==
    CASE HasNil(middlewares) -> << >>
      [] ~HasNil(middlewares) /\ HasNil(components) -> Sorted(middlewares)
      [] OTHER -> Sorted(middlewares) \o Sorted(components)

InjectPanics ==
    HasNil(middlewares) \/ (HasNil(components) /\ AllSatisfied(Sorted(middlewares)))

-----------------------------------------------------------------------------
\* Whatever is registered, replaced and unregistered: the order lists every
\* registered name once, and the list has the objects the map has, if they all
\* have the name under which UnregisterComponent looks for them.  Otherwise
\* GetSortedComponents would skip a component, return one twice, or return nil
\* entries that InjectComponent dereferences.
OneEntryPerName ==
    \A table \in {components, middlewares} :
        /\ IsInjective(table.order)
        /\ ToSet(table.order) = Registered(table)
        /\ (\A c \in ToSet(table.list) : Raw[c].capital) =>
               /\ IsInjective(table.list)
               /\ ToSet(table.list) = {table.map[n] : n \in Registered(table)}
=============================================================================
