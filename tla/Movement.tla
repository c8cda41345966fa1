------------------------------ MODULE Movement ------------------------------
(***************************************************************************)
(* How pieces move (sternhalma/board/movement.rs): the generator of the    *)
(* movements of a player.                                                  *)
(***************************************************************************)
EXTENDS Grid, Validation, SequencesExt

\* The cell beside x in direction d holds a piece and the next is empty.
CanHop(b, x, d) ==
    Occupied(b, Beside(x, d)) /\ Empty(b, Beside(Beside(x, d), d))

AvailableHopsFrom(b, x) ==
    {Beside(Beside(x, d), d) : d \in {e \in Directions : CanHop(b, x, e)}}

\* The path goes on by one hop, to a cell not yet on it.  The piece itself
\* stays where it was on the board meanwhile.
Longer(b, path) ==
    {Append(path, y) : y \in AvailableHopsFrom(b, Last(path)) \ ToSet(path)}

\* Mutant of CollectHopPathsFrom: a single hop.
OneHopFrom(b, path) ==
    {Append(path, y) : y \in AvailableHopsFrom(b, Last(path))}

\* Every extension of the path by hops.
CollectHopPathsFrom(b, path) ==
    LET collect[q \in Seq(Cells)] ==
            Longer(b, q) \cup UNION {collect[r] : r \in Longer(b, q)}
    IN collect[path]

\* Mutant of AvailableMovementsFrom: a path lists the piece hopped over.
OverThePieceFrom(b, x) ==
    {[type |-> "Move", path |-> <<x, Beside(x, d)>>] :
        d \in {e \in Directions : Empty(b, Beside(x, e))}}
    \cup {[type |-> "Hops", path |-> <<x, Beside(x, d), Beside(Beside(x, d), d)>>] :
            d \in {e \in Directions : CanHop(b, x, e)}}

AvailableMovementsFrom(b, x) ==
    {[type |-> "Move", path |-> <<x, Beside(x, d)>>] :
        d \in {e \in Directions : Empty(b, Beside(x, e))}}
    \cup {[type |-> "Hops", path |-> q] : q \in CollectHopPathsFrom(b, <<x>>)}

IterPlayerMovements(b, p) ==
    UNION {AvailableMovementsFrom(b, x) : x \in Pieces(b, p)}

\* The list of a Turn: iter_available_moves, as indices, without repeats
Movements(b, p) == {Indices(m) : m \in IterPlayerMovements(b, p)}

\* Mutant of Rotate: the indices are passed on.
Unrotated(length, x) == x

\* Client::relative_idx for Player2, on a board of the given length
Rotate(length, x) == <<length - 1 - x[1], length - 1 - x[2]>>

=============================================================================
