---------------------------- MODULE TableProofs ----------------------------
(***************************************************************************)
(* Proofs about Table: whatever number of turns a match may take, its log  *)
(* tells it.                                                               *)
(***************************************************************************)
EXTENDS Table, SequenceTheorems, TLAPS

\* The players alternate; who has won has made the last move; a result is
\* announced of a match that is over.
TableInv ==
    /\ MaxTurns \in Nat
    /\ phase \in {"gathering", "playing", "concluded", "abandoned", "closed"}
    /\ status \in Statuses
    /\ Playing => status.player = Mover(status.turns)
    /\ ~Playing => status.turns > 0 /\ WinnerMovedLast
    /\ phase = "concluded" => Over
    /\ Transcript

Entries == [type : {"Movement", "GameFinished", "Disconnect"},
            player : Players \cup {NoPlayer}, turn : Nat]

LEMMA AppendToOne ==
    ASSUME NEW S, NEW x \in S, NEW y \in S
    PROVE  Append(<<x>>, y) = <<x, y>>
<1>1. /\ Append(<<x>>, y) \in Seq(S) /\ Len(Append(<<x>>, y)) = 2
      /\ Append(<<x>>, y)[1] = x /\ Append(<<x>>, y)[2] = y
    <2>1. <<x>> \in Seq(S) /\ Len(<<x>>) = 1
        OBVIOUS
    <2>2. QED
        BY <2>1
<1>2. /\ <<x, y>> \in Seq(S) /\ Len(<<x, y>>) = 2
      /\ <<x, y>>[1] = x /\ <<x, y>>[2] = y
    OBVIOUS
<1>3. /\ Append(<<x>>, y) = [i \in 1..2 |-> Append(<<x>>, y)[i]]
      /\ <<x, y>> = [i \in 1..2 |-> <<x, y>>[i]]
    BY <1>1, <1>2
<1>4. \A i \in 1..2 : <<x, y>>[i] = Append(<<x>>, y)[i]
    BY <1>1, <1>2
<1>5. QED
    BY <1>3, <1>4

LEMMA MoverAlternates ==
    ASSUME NEW n \in Nat
    PROVE  Mover(n) \in Players /\ Mover(n + 1) = Opponent(Mover(n))
BY PlayersAssumption DEF Mover, Opponent, Players

LEMMA EndingsTyped ==
    ASSUME TableInv, NEW end \in Endings
    PROVE  end \in Seq(Entries)
<1>1. Result \in Entries /\ Goodbye \in Entries
    BY DEF TableInv, Statuses, Result, Goodbye, Entry, Entries
<1>2. /\ <<>> \in Seq(Entries) /\ <<Result>> \in Seq(Entries)
      /\ <<Goodbye>> \in Seq(Entries)
      /\ <<Result, Goodbye>> \in Seq(Entries)
    BY <1>1
<1>3. end \in {<<>>, <<Result>>, <<Goodbye>>, <<Result, Goodbye>>}
    BY DEF Endings
<1>4. QED
    BY <1>2, <1>3

LEMMA MovesTyped ==
    ASSUME status.turns \in Nat
    PROVE  Moves \in Seq(Entries) /\ Len(Moves) = status.turns
<1>1. ASSUME NEW i \in 1..status.turns
      PROVE  Entry("Movement", Mover(i - 1), i - 1) \in Entries
    BY <1>1, MoverAlternates DEF Entry, Entries
<1>2. Moves \in [1..status.turns -> Entries]
    BY <1>1 DEF Moves
<1>3. QED
    BY <1>2

\* A further move is one more entry.
LEMMA MovesGrow ==
    ASSUME status.turns \in Nat, status'.turns = status.turns + 1
    PROVE  Moves' = Append(Moves, Entry("Movement", Mover(status.turns),
                                        status.turns))
<1> DEFINE e == Entry("Movement", Mover(status.turns), status.turns)
<1>1. /\ Moves \in Seq(Entries) /\ Len(Moves) = status.turns
      /\ e \in Entries
    BY MovesTyped, MoverAlternates DEF Entry, Entries
<1>2. /\ Append(Moves, e) \in Seq(Entries)
      /\ Len(Append(Moves, e)) = status.turns + 1
      /\ \A i \in 1..status.turns : Append(Moves, e)[i] = Moves[i]
      /\ Append(Moves, e)[status.turns + 1] = e
    BY <1>1, AppendProperties
<1>3. Moves' = [i \in 1..(status.turns + 1) |->
                    Entry("Movement", Mover(i - 1), i - 1)]
    BY DEF Moves, Entry, Mover
<1>4. Append(Moves, e) = [i \in 1..(status.turns + 1) |->
                              Append(Moves, e)[i]]
    BY <1>2
<1>5. \A i \in 1..(status.turns + 1) :
        Append(Moves, e)[i] = Entry("Movement", Mover(i - 1), i - 1)
    BY <1>2 DEF Moves
<1>6. QED
    BY <1>3, <1>4, <1>5

LEMMA TableStart ==
    ASSUME MaxTurns \in Nat, TableInit
    PROVE  TableInv
<1>1. /\ status.turns = 0 /\ Playing /\ status.player = Player1
      /\ status \in Statuses
    BY DEF TableInit, GameInit, Playing, Statuses, Players
<1>2. Moves = <<>>
    BY <1>1 DEF Moves
<1>3. Transcript
    BY <1>1, <1>2 DEF TableInit, Transcript, Endings
<1>4. QED
    BY <1>1, <1>3 DEF TableInit, TableInv, Mover

LEMMA TableStep ==
    ASSUME TableInv, [TableNext]_tableVars
    PROVE  TableInv'
<1>1. status.turns \in Nat /\ status.player \in Players
    BY DEF TableInv, Statuses
<1>2. Moves \in Seq(Entries)
    BY <1>1, MovesTyped
<1>3. PICK end \in Endings : log = Moves \o end
    BY DEF TableInv, Transcript
<1>4. ASSUME UNCHANGED <<status, log>>, Endings \subseteq Endings'
      PROVE  Transcript'
    <2>1. Moves' = Moves
        BY <1>4 DEF Moves, Entry, Mover
    <2>2. QED
        BY <1>3, <1>4, <2>1 DEF TableInv, Transcript
<1>5. CASE Register
    <2>1. Transcript'
        BY <1>4, <1>5 DEF Register, Endings
    <2>2. QED
        BY <1>5, <2>1 DEF Register, TableInv, Playing, Over, WinnerMovedLast,
            Mover
<1>6. CASE Play
    <2>1. /\ status' \in Statuses
          /\ status'.turns = status.turns + 1
          /\ status.player = Mover(status.turns)
          /\ Playing' => status'.player = Opponent(status.player)
          /\ ~Playing' => status'.player = status.player
        BY <1>1, <1>6 DEF Play, Move, TableInv, Statuses, Playing, Opponent,
            Players
    <2>2. /\ Playing' => status'.player = Mover(status'.turns)
          /\ ~Playing' => status'.turns > 0
                          /\ status'.player = Mover(status'.turns - 1)
        BY <1>1, <2>1, MoverAlternates
    <2>3. status'.turns <= MaxTurns
        BY <1>1, <1>6, <2>1 DEF Play, Over, TableInv
    <2>4. log = Moves
        BY <1>2, <1>3, <1>6, ConcatEmptySeq DEF Play, Endings
    <2>5. log' = Moves'
        BY <1>1, <1>6, <2>1, <2>4, MovesGrow DEF Play
    <2>6. log' = Moves' \o <<>>
        BY <2>1, <2>5, MovesTyped, ConcatEmptySeq DEF Statuses
    <2>7. Transcript'
        BY <1>6, <2>3, <2>6 DEF Play, Transcript, Endings
    <2>8. QED
        BY <1>6, <2>1, <2>2, <2>7 DEF Play, TableInv, WinnerMovedLast
<1>7. CASE Abandon
    <2>1. Transcript'
        BY <1>4, <1>7 DEF Abandon, Endings
    <2>2. QED
        BY <1>7, <2>1 DEF Abandon, TableInv, Playing, Over, WinnerMovedLast,
            Mover
<1>8. CASE Conclude
    <2>1. log' = Moves \o <<Result>>
        BY <1>2, <1>3, <1>8, ConcatEmptySeq, AppendIsConcat
        DEF Conclude, Endings, TableInv
    <2>2. Transcript'
        BY <1>8, <2>1 DEF Conclude, TableInv, Transcript, Endings, Moves,
            Result, Entry, Mover, Playing
    <2>3. QED
        BY <1>8, <2>2 DEF Conclude, TableInv, Playing, Over, WinnerMovedLast,
            Mover
<1>9. CASE Close
    <2>1. Goodbye \in Entries /\ Result \in Entries
        BY <1>1 DEF Goodbye, Result, Entry, Entries, TableInv, Statuses
    <2>2. log' = Moves \o Append(end, Goodbye)
        BY <1>2, <1>3, <1>9, <2>1, EndingsTyped DEF Close
    <2>3. /\ end = <<>> \/ (Over /\ end = <<Result>>)
          /\ Over' = Over /\ Result' = Result /\ Goodbye' = Goodbye
          /\ phase' = "closed"
        BY <1>9, <1>3 DEF Close, Endings, TableInv, Result, Goodbye, Entry,
            Over, Playing
    <2>4. /\ Append(<<>>, Goodbye) = <<Goodbye>>
          /\ Append(<<Result>>, Goodbye) = <<Result, Goodbye>>
        BY <2>1, AppendToOne
    <2>5. Append(end, Goodbye) \in Endings'
        BY <2>3, <2>4 DEF Endings
    <2>6. Transcript'
        BY <1>9, <2>2, <2>5 DEF Close, TableInv, Transcript, Moves, Entry,
            Mover
    <2>7. QED
        BY <1>9, <2>6 DEF Close, TableInv, Playing, Over, WinnerMovedLast,
            Mover
<1>10. CASE UNCHANGED tableVars
    <2>1. Transcript'
        BY <1>4, <1>10 DEF tableVars, Endings, Over, Playing, Result, Entry,
            Goodbye
    <2>2. QED
        BY <1>10, <2>1 DEF tableVars, TableInv, Playing, Over,
            WinnerMovedLast, Mover
<1>11. QED
    BY <1>5, <1>6, <1>7, <1>8, <1>9, <1>10 DEF TableNext

\* At any table, the log is the match, told once and in order.
THEOREM TableTells ==
    MaxTurns \in Nat /\ TableSpec => [](Transcript /\ WinnerMovedLast)
<1>1. MaxTurns \in Nat /\ TableInit => TableInv
    BY TableStart
<1>2. TableInv /\ [TableNext]_tableVars => TableInv'
    BY TableStep
<1>3. TableInv => Transcript /\ WinnerMovedLast
    BY DEF TableInv, WinnerMovedLast
<1>4. QED
    BY <1>1, <1>2, <1>3, PTL DEF TableSpec

=============================================================================
