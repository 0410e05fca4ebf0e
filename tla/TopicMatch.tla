------------------------------ MODULE TopicMatch ------------------------------
(***************************************************************************)
(* Matching a routing key against a binding key (vcs/workers/bus.py,       *)
(* topic_matches): "*" stands for one word, "#" for any number of them.    *)
(* A key is its sequence of words.                                         *)
(***************************************************************************)
EXTENDS Naturals, Sequences

CONSTANTS
    Word,      \* words of a topic
    Star,      \* "*"
    Hash,      \* "#"
    MaxWords   \* bound: words of the keys that AgreesWithDefinition compares

ASSUME TopicMatchAssumption ==
    /\ Star \notin Word
    /\ Hash \notin Word
    /\ Star # Hash
    /\ MaxWords \in Nat

Keys(W) == UNION {[1..n -> W] : n \in 0..MaxWords}

\* Mutant: "#" takes a word at least.
CellSome(p, t, match, i, j) ==
    IF i = 0 THEN j = 0
    ELSE IF p[i] = Hash THEN j > 0 /\ (match[<<i - 1, j - 1>>] \/ match[<<i, j - 1>>])
    ELSE j > 0 /\ p[i] \in {Star, t[j]} /\ match[<<i - 1, j - 1>>]

\* Does p[:i] match t[:j], given the cells before?
Cell(p, t, match, i, j) ==
    IF i = 0 THEN j = 0
    ELSE IF p[i] = Hash THEN match[<<i - 1, j>>] \/ (j > 0 /\ match[<<i, j - 1>>])
    ELSE j > 0 /\ p[i] \in {Star, t[j]} /\ match[<<i - 1, j - 1>>]

Cells(p, t) == (0..Len(p)) \X (0..Len(t))

\* The table the code fills.
Table(p, t) ==
    LET match[c \in Cells(p, t)] == Cell(p, t, match, c[1], c[2])
    IN  match

topic_matches(p, t) == Table(p, t)[<<Len(p), Len(t)>>]

-----------------------------------------------------------------------------
\* What it should say: the topic can be cut into one piece for each word of the
\* pattern; cut[i] words belong to the first i pieces.
CanBeCut(p, t) ==
    \E cut \in [0..Len(p) -> 0..Len(t)] :
        /\ cut[0] = 0
        /\ cut[Len(p)] = Len(t)
        /\ \A i \in 1..Len(p) :
              /\ cut[i - 1] <= cut[i]
              /\ p[i] # Hash =>
                    /\ cut[i] = cut[i - 1] + 1
                    /\ p[i] \in {Star, t[cut[i]]}

\* The table agrees with AMQP's definition, also where "#" takes no word, as
\* "source.#" has to accept the bare key "source" that is published today.
AgreesWithDefinition ==
    \A p \in Keys(Word \union {Star, Hash}), t \in Keys(Word) :
        topic_matches(p, t) = CanBeCut(p, t)

=============================================================================
