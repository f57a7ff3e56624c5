---------------------------- MODULE MemorySections ----------------------------
(***************************************************************************)
(* Which sections of memory.md go into a prompt                            *)
(* (internal/memory/sections.go).  A section has tags; of the prompt only  *)
(* matters which tags occur in it.  A selection is a sequence of places in *)
(* the list of sections, in the order in which they are injected.          *)
(***************************************************************************)
EXTENDS Naturals, Sequences, FiniteSets, SequencesExt

MaxExtraSections == 3

Always(section) == "always" \in Range(section.tags)

\* One point for each tag that occurs in the prompt, written twice two.
Score(section, prompt) == Cardinality({i \in DOMAIN section.tags : section.tags[i] \in prompt})

IsCandidate(section, prompt) == ~Always(section) /\ Score(section, prompt) > 0

\* One round of the insertion sort: the n-th section moves forward until one
\* stands before it that scores as much or more.
Insert(sections, prompt, sorted, n) ==
    LET ahead == {p \in DOMAIN sorted :
                     Score(sections[sorted[p]], prompt) >= Score(sections[n], prompt)}
    IN  InsertAt(sorted, Cardinality(ahead) + 1, n)

\* The candidates among the first n sections, sorted, for each n.
Sorting(sections, prompt) ==
    LET sorted[n \in 0 .. Len(sections)] ==
            IF n = 0 THEN <<>>
            ELSE IF IsCandidate(sections[n], prompt)
                 THEN Insert(sections, prompt, sorted[n - 1], n)
                 ELSE sorted[n - 1]
    IN  sorted

\* The first three of all candidates.
Extras(sections, prompt) ==
    LET sorted == Sorting(sections, prompt)[Len(sections)]
    IN  SubSeq(sorted, 1, IF Len(sorted) < MaxExtraSections THEN Len(sorted)
                          ELSE MaxExtraSections)

\* Those with the tag "always" among the first n sections, for each n.
Fixed(sections) ==
    LET always[n \in 0 .. Len(sections)] ==
            IF n = 0 THEN <<>>
            ELSE IF Always(sections[n]) THEN Append(always[n - 1], n) ELSE always[n - 1]
    IN  always

SelectRelevant(sections, prompt) ==
    Fixed(sections)[Len(sections)] \o Extras(sections, prompt)

-----------------------------------------------------------------------------
(* The reference: a section with a hit is in when fewer than three others  *)
(* have more hits, or as many and stand before it.                         *)

Beats(sections, prompt, j, i) ==
    /\ ~Always(sections[j])
    /\ \/ Score(sections[j], prompt) > Score(sections[i], prompt)
       \/ Score(sections[j], prompt) = Score(sections[i], prompt) /\ j < i

Relevant(sections, prompt, i) ==
    \/ Always(sections[i])
    \/ /\ Score(sections[i], prompt) > 0
       /\ Cardinality({j \in DOMAIN sections : Beats(sections, prompt, j, i)}) < MaxExtraSections

\* Section i is injected before section j, if both are.
Precedes(sections, prompt, i, j) ==
    \/ Always(sections[i]) /\ (Always(sections[j]) => i < j)
    \/ ~Always(sections[j]) /\ Beats(sections, prompt, i, j)

=============================================================================
