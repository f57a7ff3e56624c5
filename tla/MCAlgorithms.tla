---------------------------- MODULE MCAlgorithms ----------------------------
(* The pure functions against their references, over bounded inputs: TLC   *)
(* evaluates these assumptions at the start of every run that extends this *)
(* module.                                                                 *)
EXTENDS Heartbeat, MemorySections

\* inWindow with its two cases is the arc on the circle of the day, at the
\* boundaries that its comparisons tell apart.
Edges == {0, 1, 2, 719, 720, 721, Day - 2, Day - 1}
ASSUME WindowIsArc ==
    \A current, start, end \in Edges : InWindow(current, start, end) <=> OnArc(current, start, end)

\* SelectRelevant takes what the reference takes, each section once and in its
\* order, however five sections and their tags are laid out.
TagLists == {<<>>, <<"always">>, <<"a">>, <<"a", "b">>, <<"b", "always">>}
Prompts  == {{}, {"a"}, {"b"}, {"a", "b"}}
ASSUME SelectionIsRelevance ==
    \A tags \in [1 .. 5 -> TagLists], prompt \in Prompts :
        LET sections == [i \in 1 .. 5 |-> [tags |-> tags[i]]]
            selected == SelectRelevant(sections, prompt)
        IN  /\ Range(selected) = {i \in 1 .. 5 : Relevant(sections, prompt, i)}
            /\ IsInjective(selected)
            /\ \A p, q \in DOMAIN selected :
                   p < q => Precedes(sections, prompt, selected[p], selected[q])
=============================================================================
