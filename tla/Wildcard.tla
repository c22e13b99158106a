------------------------------ MODULE Wildcard ------------------------------
(***************************************************************************)
(* WildcardMatch of utility/string.go, which finds the route of a request  *)
(* by its host.  A string is a sequence of characters.                     *)
(***************************************************************************)
EXTENDS Naturals, Sequences, SequencesExt

\* A wrong deepMatchRune for WildcardIsCorrect: '*' takes one character at least.
RECURSIVE deepMatchRuneStarTakesOne(_, _)
deepMatchRuneStarTakesOne(str, pattern) ==
    IF pattern = << >> THEN str = << >>
    ELSE CASE Head(pattern) = "*" ->
                  /\ str # << >>
                  /\ \/ deepMatchRuneStarTakesOne(Tail(str), Tail(pattern))
                     \/ deepMatchRuneStarTakesOne(Tail(str), pattern)
           [] OTHER ->
                  /\ str # << >>
                  /\ Head(pattern) \in {"?", Head(str)}
                  /\ deepMatchRuneStarTakesOne(Tail(str), Tail(pattern))

RECURSIVE deepMatchRune(_, _)
deepMatchRune(str, pattern) ==
    IF pattern = << >> THEN str = << >>
    ELSE CASE Head(pattern) = "*" ->
                  \/ deepMatchRune(str, Tail(pattern))
                  \/ str # << >> /\ deepMatchRune(Tail(str), pattern)
           [] OTHER ->
                  /\ str # << >>
                  /\ Head(pattern) \in {"?", Head(str)}
                  /\ deepMatchRune(Tail(str), Tail(pattern))

WildcardMatch(pattern, name) ==
    CASE pattern = << >> -> name = pattern
      [] pattern = <<"*">> -> TRUE
      [] OTHER -> deepMatchRune(name, pattern)

-----------------------------------------------------------------------------
\* What a pattern means: name can be cut into one piece for every character of
\* the pattern, the piece of '*' being any string, that of '?' any character.
\* cut[i] is where the piece of the i-th character ends.
Denotes(pattern, name) ==
    \E cut \in [0..Len(pattern) -> 0..Len(name)] :
        /\ cut[0] = 0
        /\ cut[Len(pattern)] = Len(name)
        /\ \A i \in 1..Len(pattern) :
               \/ pattern[i] = "*" /\ cut[i] >= cut[i-1]
               \/ /\ pattern[i] # "*"
                  /\ cut[i] = cut[i-1] + 1
                  /\ pattern[i] \in {"?", name[cut[i]]}

\* WildcardMatch accepts the names a pattern denotes, for the patterns and names
\* up to a length.
WildcardIsCorrectUpTo(chars, length) ==
    \A pattern \in SeqOf(chars \cup {"*", "?"}, length), name \in SeqOf(chars, length) :
        WildcardMatch(pattern, name) = Denotes(pattern, name)
=============================================================================
