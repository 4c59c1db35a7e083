---------------------------- MODULE Collections ----------------------------
(* A list comprehension with a filter, and a sum, over first-order values. *)
EXTENDS Naturals, Sequences, FiniteSetsExt, SequencesExt

\* [x for x in s if x in C]
Where(s, C) ==
    LET kept[i \in 0 .. Len(s)] ==
            IF i = 0 THEN << >>
            ELSE IF s[i] \in C THEN Append(kept[i - 1], s[i]) ELSE kept[i - 1]
    IN  kept[Len(s)]

\* sum(weight[x] for x in S)
Total(weight, S) == MapThenSumSet(LAMBDA x : weight[x], S)
=============================================================================
