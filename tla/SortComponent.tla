---------------------------- MODULE SortComponent ----------------------------
(***************************************************************************)
(* SortComponent of component.go, which UseComponent calls on the optional *)
(* components it registers: it adds the inject fields of the components to *)
(* their Dependencies, and sorts by walking from the components without    *)
(* dependencies to their dependents.                                       *)
(***************************************************************************)
EXTENDS Naturals, Sequences, FiniteSets, SequencesExt

CONSTANTS
    list,     \* the components in the order they are given, by name
    Outside,  \* names of components that are not given
    MaxCalls  \* bound: calls with the same components

\* The names of the components differ in more than case, which the walk does not see.
\* Without a component its search for roots does not end.
ASSUME SortAssumption == list # << >>

Given == ToSet(list)

VARIABLES
    fields,   \* the inject fields of each component
    sortings, \* how often they are in its Dependencies
    sorted    \* the result of the last call

sortVars == <<fields, sortings, sorted>>

\* No component depends on itself, directly or through others: the walk would
\* not end.
Acyclic(f) ==
    \A S \in (SUBSET Given) \ {{}} : \E c \in S : f[c] \cap S = {}

SortInit ==
    /\ fields \in {f \in [Given -> SUBSET (Given \cup Outside)] : Acyclic(f)}
    /\ sortings = 0
    /\ sorted = << >>

\* The components that depend on c, once for every time it is a dependency.
Dependents(c, times) ==
    LET on == SelectSeq(list, LAMBDA d : c \in fields[d])
    IN  [i \in 1..(Len(on) * times) |-> on[((i - 1) \div times) + 1]]

\* A wrong Moved for SortsByDependency: a component that was met before stays
\* where it is.
MovedOnce(c, result) == IF c \in ToSet(result) THEN result ELSE Append(result, c)

\* The component goes to the end, also if it was met before.
Moved(c, result) == Append(Remove(result, c), c)

\* The components with the fewest dependencies.
Roots ==
    SelectSeq(list, LAMBDA c : \A d \in Given : Cardinality(fields[c]) <= Cardinality(fields[d]))

\* The walk from the roots: each of current is moved, then its dependents, then the
\* next of current.
sortComponent(times) ==
    LET walk[current \in Seq(Given), result \in Seq(Given)] ==
            IF current = << >> THEN result
            ELSE LET c == Head(current)
                     met == walk[Dependents(c, times), Moved(c, result)]
                 IN  walk[Tail(current), met]
    IN  walk[Roots, << >>]

Sort ==
    /\ sortings < MaxCalls
    /\ sortings' = sortings + 1
    /\ sorted' = sortComponent(sortings + 1)
    /\ UNCHANGED fields

-----------------------------------------------------------------------------
\* "SortComponent - Sort user components": every component comes after all those
\* that are injected into it, also when the walk meets it on several ways and when an
\* earlier call has already filled in its Dependencies; and the result has all of
\* them, once, if they depend on each other only.  Some of those that depend on a
\* component that is not given are dropped when others have fewer dependencies.
SortsByDependency ==
    /\ \A i, j \in 1..Len(sorted) : sorted[i] \in fields[sorted[j]] => i < j
    /\ sortings > 0 /\ (\A c \in Given : fields[c] \subseteq Given) =>
           Len(sorted) = Len(list) /\ ToSet(sorted) = Given
=============================================================================
