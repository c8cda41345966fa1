------------------------------ MODULE MCSession ------------------------------
EXTENDS Promises, TLC

ConnSymmetry == Permutations(Conns)

\* Connections are used once and differ in name only, so nothing is lost when
\* they open in a fixed order: symmetry by hand, which liveness allows.
Rank == CHOOSE r \in [Conns -> 1..Cardinality(Conns)] :
            \A c, d \in Conns : r[c] = r[d] => c = d

InOrder ==
    \A c, d \in Conns :
        Rank[d] < Rank[c] /\ hs[c] = "new" /\ hs'[c] # "new" => hs[d] # "new"

\* Two connections for the two players, any other comes with a session.
OnlyReturns ==
    \A c \in Conns : Rank[c] > 2 /\ hs[c] = "new" /\ hs'[c] = "asked" =>
        session'[c] # NoConn

ReturnSpec == Init /\ [][Next /\ InOrder /\ OnlyReturns]_vars /\ TaskFairness

=============================================================================
