------------------------------- MODULE Rankings -------------------------------
(***************************************************************************)
(* The lists of operator_api are sorted by a number, highest first, ties   *)
(* by case_id, and cut at a limit: sort(key=(-rank, case_id))[:limit].     *)
(* Latencies are sorted the other way round, and summed.                   *)
(***************************************************************************)
EXTENDS Integers, FiniteSets

Ahead(rank, c, d) == rank[c] > rank[d] \/ (rank[c] = rank[d] /\ c < d)

\* Where a case stands: 1 for the first.
Place(rank, c) == Cardinality({d \in DOMAIN rank : d = c \/ Ahead(rank, d, c)})

Top(rank, limit) ==
    LET n == IF limit < Cardinality(DOMAIN rank) THEN limit ELSE Cardinality(DOMAIN rank)
    IN [i \in 1..n |-> CHOOSE c \in DOMAIN rank : Place(rank, c) = i]

\* The sum over each set of indices, and over all.
Sums(f) ==
    LET sum[S \in SUBSET DOMAIN f] ==
          IF S = {} THEN 0
          ELSE LET x == CHOOSE x \in S : TRUE IN f[x] + sum[S \ {x}]
    IN sum

SumOf(f) == Sums(f)[DOMAIN f]
=============================================================================
