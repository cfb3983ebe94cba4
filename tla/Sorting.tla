------------------------------- MODULE Sorting -------------------------------
(***************************************************************************)
(* The order the research code puts rows in: sorted() of event rows, a     *)
(* date range of an archive, sort_values of a table.  The keys differ from *)
(* element to element.                                                     *)
(***************************************************************************)
EXTENDS Integers, FiniteSets

\* How many elements of S come before x?
Rank(S, key, x) == Cardinality({y \in S : key[y] < key[x]})

\* The elements of S, that of the smallest key first.
SortedBy(S, key) == [k \in 1..Cardinality(S) |-> CHOOSE x \in S : Rank(S, key, x) = k - 1]

Ascending(S) == SortedBy(S, [x \in S |-> x])
=============================================================================
