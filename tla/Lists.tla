-------------------------------- MODULE Lists --------------------------------
(***************************************************************************)
(* filter and sort, as the browser uses them on its lists.  They are       *)
(* written as a fold and as a choice, and not with SelectSeq and SortSeq,  *)
(* so that proofs can expand them.                                         *)
(***************************************************************************)
EXTENDS Naturals, FiniteSets, SequencesExt

\* filter: the elements of s that are in S, in their order.
Only(s, S) == FoldLeft(LAMBDA acc, x : IF x \in S THEN Append(acc, x) ELSE acc, <<>>, s)

\* filter with what has been seen: of the elements with the same key, the first.
Firsts(s, key) ==
    FoldLeft(LAMBDA kept, x : IF \E y \in ToSet(kept) : key[y] = key[x]
                              THEN kept ELSE Append(kept, x), <<>>, s)

\* sort, of a set: a list of its elements, none of them after one that it
\* belongs before.
Sorted(S, before(_, _)) ==
    CHOOSE s \in [1 .. Cardinality(S) -> S] :
        /\ IsInjective(s)
        /\ \A i, j \in DOMAIN s : i < j => ~before(s[j], s[i])
=============================================================================
