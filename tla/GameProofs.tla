----------------------------- MODULE GameProofs -----------------------------
(***************************************************************************)
(* Proofs about the match of Game.tla and the rules of Rules.tla, for any  *)
(* board, any starting cells and any list of movements that take a piece   *)
(* of the mover to an empty cell (LegalMoves, which GeneratorLegal shows   *)
(* of the list the program makes), whatever movements apply_movement is    *)
(* given.  Of those it accepts, the ones without a hop put a piece back    *)
(* where it was.                                                           *)
(***************************************************************************)
EXTENDS Rules, MovementProofs

\* What a turn does to the pieces: those of the mover change by one cell,
\* those of the opponent stay.
LEMMA PiecesMoved ==
    ASSUME NEW b \in Boards, NEW p \in Players,
           NEW from \in Pieces(b, p), NEW to \in Pieces(b, NoPlayer) \cup {from}
    PROVE  LET c == MovePiece(b, from, to) IN
           /\ c \in Boards
           /\ Pieces(c, p) = (Pieces(b, p) \ {from}) \cup {to}
           /\ Pieces(c, Opponent(p)) = Pieces(b, Opponent(p))
           /\ from = to => c = b
           /\ from # to => to \notin Pieces(b, p)
<1> DEFINE c == MovePiece(b, from, to)
<1> USE PlayersAssumption DEF Pieces, Players
<1>1. /\ from \in Cells /\ to \in Cells /\ b[from] = p /\ p # NoPlayer
      /\ from # to => b[to] = NoPlayer
    OBVIOUS
<1>2. c = [b EXCEPT ![from] = NoPlayer, ![to] = p]
    BY <1>1 DEF MovePiece
<1>3. \A x \in Cells : c[x] = IF x = to THEN p
                              ELSE IF x = from THEN NoPlayer ELSE b[x]
    BY <1>1, <1>2 DEF Boards
<1>4. c \in Boards
    BY <1>1, <1>2 DEF Boards
<1>5. Opponent(p) \in Players /\ Opponent(p) # p /\ Opponent(p) # NoPlayer
    BY DEF Opponent
<1>6. from = to => c = b
    BY <1>1, <1>2 DEF Boards
<1>7. QED
    BY <1>1, <1>3, <1>4, <1>5, <1>6

LEMMA OpponentOf ==
    ASSUME NEW p \in Players
    PROVE  /\ Opponent(p) \in Players /\ Opponent(p) # p
           /\ \A q \in Players : q = p \/ q = Opponent(p)
BY PlayersAssumption DEF Players, Opponent

LEMMA FinitePieces ==
    ASSUME NEW b, NEW p
    PROVE  IsFiniteSet(Pieces(b, p)) /\ IsFiniteSet(Goal(p) \cap Pieces(b, p))
BY FS_Subset, BoardAssumption DEF Pieces

LEMMA StartBoard ==
    /\ NewBoard \in Boards
    /\ \A p \in Players : Pieces(NewBoard, p) = Start(p)
BY PlayersAssumption, BoardAssumption DEF NewBoard, Boards, Pieces, Players

\* The scores and the number of pieces against the board, scores being at
\* first any integers.
Count ==
    /\ board \in Boards
    /\ status \in [phase : {"Playing", "Finished"}, player : Players,
                   turns : Nat, scores : [Players -> Int]]
    /\ history \in Seq(Cells \X Cells)
    /\ ScoresMatch
    /\ PiecesConserved

LEMMA CountTypeOK == Count => TypeOK
<1> SUFFICES ASSUME Count PROVE TypeOK
    OBVIOUS
<1>1. \A p \in Players : Score(board, p) \in Nat
    BY FinitePieces, FS_CardinalityType DEF Score
<1>2. status.scores \in [Players -> Nat]
    BY <1>1 DEF Count, ScoresMatch
<1>3. QED
    BY <1>2 DEF Count, TypeOK

LEMMA InitCount == GameInit => Count
<1> SUFFICES ASSUME GameInit PROVE Count
    OBVIOUS
<1>1. \A p \in Players : Score(NewBoard, p) = 0
    BY StartBoard, BoardAssumption, FS_EmptySet
    DEF Score, Goal, Opponent, Players
<1>2. QED
    BY <1>1, StartBoard DEF GameInit, Count, ScoresMatch, PiecesConserved,
        Players

\* What the turn of player p gives its successor state.
TurnOf(p, from, to) ==
    /\ Playing /\ p = status.player
    /\ from \in Pieces(board, p) /\ to \in Pieces(board, NoPlayer) \cup {from}
    /\ ApplyMovement(from, to)

\* A movement that validate_movement accepts takes a piece to an empty cell,
\* or back to where it was.
LEMMA Validated ==
    ASSUME NEW b \in Boards, NEW m \in Asked, NEW p \in Players,
           ValidateMovement(b, m) = p
    PROVE  /\ Indices(m)[1] \in Pieces(b, p)
           /\ Indices(m)[2] \in Pieces(b, NoPlayer) \cup {Indices(m)[1]}
<1>1. m.path \in Seq(Nat \X Nat)
    BY GameAssumption
<1>2. /\ m.path # <<>> /\ m.path[1] \in Cells /\ b[m.path[1]] = p
      /\ \A i \in 2..Len(m.path) : Empty(b, m.path[i])
    BY PlayersAssumption DEF ValidateMovement, Players
<1>3. Len(m.path) \in Nat \ {0}
    BY <1>1, <1>2
<1>4. CASE Len(m.path) = 1
    BY <1>2, <1>4 DEF Indices, Pieces
<1>5. CASE Len(m.path) # 1
    <2> DEFINE n == Len(m.path)
    <2>1. n \in 2..n
        <3>1. n \in Nat /\ n # 0 /\ n # 1
            BY <1>3, <1>5
        <3> HIDE DEF n
        <3>2. QED
            BY <3>1
    <2>2. Empty(b, m.path[Len(m.path)])
        BY <1>2, <2>1
    <2>3. QED
        BY <1>2, <2>2 DEF Indices, Pieces, Empty
<1>6. QED
    BY <1>4, <1>5

LEMMA TurnMoves ==
    ASSUME LegalMoves(Boards), board \in Boards, status.player \in Players,
           GameNext
    PROVE  \E from, to : TurnOf(status.player, from, to)
<1>1. CASE Turn
    <2>1. PICK m \in AvailableMoves(board, status.player) :
            Playing /\ ApplyMovement(m[1], m[2])
        BY <1>1 DEF Turn
    <2>2. QED
        BY <2>1 DEF LegalMoves, TurnOf
<1>2. CASE \E m \in Asked : Apply(m)
    <2>1. PICK m \in Asked : Apply(m)
        BY <1>2
    <2>2. Playing /\ ValidateMovement(board, m) = status.player
        BY <2>1 DEF Apply, Outcome
    <2>3. QED
        BY <2>1, <2>2, Validated DEF Apply, TurnOf
<1>3. QED
    BY <1>1, <1>2 DEF GameNext

LEMMA TurnCount ==
    ASSUME Count, NEW p, NEW from, NEW to, TurnOf(p, from, to)
    PROVE  Count'
<1> DEFINE q == Opponent(p)
<1>1. p \in Players /\ q \in Players /\ q # p
      /\ \A r \in Players : r = p \/ r = q
    BY OpponentOf DEF Count, TurnOf
<1>2. /\ board' \in Boards
      /\ Pieces(board', p) = (Pieces(board, p) \ {from}) \cup {to}
      /\ Pieces(board', q) = Pieces(board, q)
      /\ from \in Pieces(board, p)
      /\ from = to => board' = board
      /\ from # to => to \notin Pieces(board, p)
    BY <1>1, PiecesMoved DEF Count, TurnOf, ApplyMovement
<1>3. /\ status'.phase \in {"Playing", "Finished"}
      /\ status'.player \in Players
      /\ status'.turns \in Nat
      /\ status'.scores = [status.scores EXCEPT
            ![p] = @ - (IF from \in Goal(p) THEN 1 ELSE 0)
                     + (IF to \in Goal(p) THEN 1 ELSE 0)]
      /\ status' = [phase |-> status'.phase, player |-> status'.player,
                    turns |-> status'.turns, scores |-> status'.scores]
    BY <1>1, PlayersAssumption
    DEF Count, TurnOf, ApplyMovement, NextStatus, NextScores, Winner, Players
<1>4. status'.scores \in [Players -> Int]
    BY <1>1, <1>3 DEF Count
<1>5. history' \in Seq(Cells \X Cells)
    BY DEF Count, TurnOf, ApplyMovement, Pieces
<1>6. ASSUME NEW S, IsFiniteSet(S), from # to
      PROVE  Cardinality((S \ {from}) \cup {to})
                = Cardinality(S) - (IF from \in S THEN 1 ELSE 0)
                    + (IF to \in S THEN 0 ELSE 1)
    <2>1. /\ IsFiniteSet(S \ {from})
          /\ Cardinality(S \ {from}) = IF from \in S THEN Cardinality(S) - 1
                                       ELSE Cardinality(S)
        BY <1>6, FS_RemoveElement
    <2>2. Cardinality((S \ {from}) \cup {to})
            = IF to \in S \ {from} THEN Cardinality(S \ {from})
              ELSE Cardinality(S \ {from}) + 1
        BY <2>1, FS_AddElement
    <2>3. Cardinality(S) \in Nat
        BY <1>6, FS_CardinalityType
    <2>4. QED
        BY <1>6, <1>2, <2>1, <2>2, <2>3
<1>7. CASE from = to
    <2>1. board' = board /\ status'.scores = status.scores
        <3>1. status.scores[p] \in Int
            BY <1>1 DEF Count
        <3>2. status'.scores = [status.scores EXCEPT ![p] = status.scores[p]]
            BY <1>3, <1>7, <3>1
        <3>3. QED
            BY <1>1, <1>2, <1>7, <3>2 DEF Count
    <2>2. ScoresMatch' /\ PiecesConserved'
        BY <2>1 DEF Count, ScoresMatch, PiecesConserved, Pieces, Score
    <2>3. QED
        BY <1>2, <1>3, <1>4, <1>5, <2>2 DEF Count
<1>8. CASE from # to
    <2>1. PiecesConserved'
        <3>1. Cardinality(Pieces(board, p)) \in Nat
            BY FinitePieces, FS_CardinalityType
        <3>2. Cardinality(Pieces(board', p)) = Cardinality(Pieces(board, p))
            <4> DEFINE S == Pieces(board, p)
            <4>1. Cardinality((S \ {from}) \cup {to}) = Cardinality(S) - 1 + 1
                BY <1>8, <1>2, <1>6, FinitePieces
            <4>2. QED
                BY <1>8, <1>2, <3>1, <4>1
        <3>3. QED
            BY <1>1, <1>2, <3>2 DEF Count, PiecesConserved
    <2>2. ScoresMatch'
        <3>1. status'.scores[q] = Score(board', q)
            BY <1>1, <1>2, <1>3 DEF Count, ScoresMatch, Score
        <3>2. status'.scores[p] = Score(board', p)
            <4> DEFINE S == Goal(p) \cap Pieces(board, p)
            <4>1. IsFiniteSet(S) /\ Cardinality(S) \in Nat
                BY FinitePieces, FS_CardinalityType
            <4>2. status'.scores[p] = Cardinality(S)
                    - (IF from \in Goal(p) THEN 1 ELSE 0)
                    + (IF to \in Goal(p) THEN 1 ELSE 0)
                BY <1>1, <1>3 DEF Count, ScoresMatch, Score
            <4>3. (from \in S <=> from \in Goal(p)) /\ to \notin S
                BY <1>8, <1>2
            <4>4. CASE to \in Goal(p)
                <5>1. Goal(p) \cap Pieces(board', p) = (S \ {from}) \cup {to}
                    BY <1>8, <1>2, <4>4
                <5>2. Cardinality((S \ {from}) \cup {to})
                        = Cardinality(S) - (IF from \in S THEN 1 ELSE 0) + 1
                    BY <1>8, <1>6, <4>1, <4>3
                <5>3. Score(board', p) = Cardinality((S \ {from}) \cup {to})
                    BY <5>1 DEF Score
                <5>4. QED
                    BY <4>1, <4>2, <4>3, <4>4, <5>2, <5>3
            <4>5. CASE to \notin Goal(p)
                <5>1. Goal(p) \cap Pieces(board', p) = S \ {from}
                    BY <1>8, <1>2, <4>5
                <5>2. Cardinality(S \ {from})
                        = Cardinality(S) - (IF from \in S THEN 1 ELSE 0)
                    <6>1. Cardinality(S \ {from}) = IF from \in S
                            THEN Cardinality(S) - 1 ELSE Cardinality(S)
                        BY <4>1, FS_RemoveElement
                    <6>2. QED
                        BY <4>1, <6>1
                <5>3. Score(board', p) = Cardinality(S \ {from})
                    BY <5>1 DEF Score
                <5>4. QED
                    BY <4>1, <4>2, <4>3, <4>5, <5>2, <5>3
            <4>6. QED
                BY <4>4, <4>5
        <3>3. QED
            BY <1>1, <3>1, <3>2 DEF ScoresMatch
    <2>3. QED
        BY <1>2, <1>3, <1>4, <1>5, <2>1, <2>2 DEF Count
<1>9. QED
    BY <1>7, <1>8

LEMMA StepCount ==
    ASSUME LegalMoves(Boards), Count, [GameNext]_gameVars
    PROVE  Count'
<1>1. CASE GameNext
    BY <1>1, TurnMoves, TurnCount DEF Count
<1>2. CASE UNCHANGED gameVars
    BY <1>2 DEF gameVars, Count, ScoresMatch, PiecesConserved
<1>3. QED
    BY <1>1, <1>2

LEMMA Counted ==
    ASSUME LegalMoves(Boards)
    PROVE  GameSpec => []Count
<1>1. Count /\ [GameNext]_gameVars => Count'
    BY StepCount
<1>2. QED
    BY <1>1, InitCount, PTL DEF GameSpec

\* On any board, with any movements that take a piece of the mover to an
\* empty cell: board, status and history keep their types, so no score goes
\* below zero, where usize would underflow.
THEOREM GameTyped ==
    ASSUME LegalMoves(Boards)
    PROVE  GameSpec => []TypeOK
<1>1. Count => TypeOK
    BY CountTypeOK
<1>2. QED
    BY <1>1, Counted, PTL

\* The scores next_status keeps by increments are the number of goal cells
\* occupied.
THEOREM GameCounts ==
    ASSUME LegalMoves(Boards)
    PROVE  GameSpec => []ScoresMatch
<1>1. Count => ScoresMatch
    BY DEF Count
<1>2. QED
    BY <1>1, Counted, PTL

\* apply_movement_unchecked makes and loses no piece.
THEOREM PiecesKept ==
    ASSUME LegalMoves(Boards)
    PROVE  GameSpec => []PiecesConserved
<1>1. Count => PiecesConserved
    BY DEF Count
<1>2. QED
    BY <1>1, Counted, PTL

----------------------------------------------------------------------------
\* The end of the match

LEMMA InitFinished == GameInit => FinishedWhenWon
<1>1. ASSUME NEW p \in Players PROVE ~Won(NewBoard, p)
    <2>1. PICK x : x \in Start(Opponent(p))
        BY OpponentOf, BoardAssumption
    <2>2. x \notin Start(p)
        BY <2>1, BoardAssumption DEF Opponent, Players
    <2>3. QED
        BY <2>1, <2>2, StartBoard DEF Won, Goal
<1>2. QED
    BY <1>1 DEF GameInit, FinishedWhenWon, Playing

\* Only the mover's pieces move, so only the mover can win.
LEMMA TurnFinished ==
    ASSUME Count, FinishedWhenWon, NEW p, NEW from, NEW to,
           TurnOf(p, from, to)
    PROVE  /\ FinishedWhenWon'
           /\ status'.turns = status.turns + 1
           /\ \/ status'.phase = "Playing" /\ status'.player = Opponent(p)
              \/ status'.phase = "Finished" /\ status'.player = p
<1> DEFINE q == Opponent(p)
<1>1. p \in Players /\ q \in Players /\ q # p
      /\ \A r \in Players : r = p \/ r = q
    BY OpponentOf DEF Count, TurnOf
<1>2. Pieces(board', q) = Pieces(board, q)
    BY <1>1, PiecesMoved DEF Count, TurnOf, ApplyMovement
<1>3. ~Won(board, q)
    BY <1>1 DEF FinishedWhenWon, TurnOf
<1>4. ~Won(board', q)
    BY <1>2, <1>3 DEF Won
<1>5. Winner(board') = IF Won(board', p) THEN p ELSE NoPlayer
    BY <1>1, <1>4 DEF Winner, Players
<1>6. /\ status'.phase = IF Won(board', p) THEN "Finished" ELSE "Playing"
      /\ status'.player = IF Won(board', p) THEN p ELSE q
      /\ status'.turns = status.turns + 1
    BY <1>1, <1>5, PlayersAssumption
    DEF TurnOf, ApplyMovement, NextStatus, Players
<1>7. FinishedWhenWon'
    BY <1>1, <1>4, <1>6 DEF FinishedWhenWon, Playing
<1>8. QED
    BY <1>6, <1>7

LEMMA StepFinished ==
    ASSUME LegalMoves(Boards), Count, FinishedWhenWon, [GameNext]_gameVars
    PROVE  FinishedWhenWon'
<1>1. CASE GameNext
    BY <1>1, TurnMoves, TurnFinished DEF Count
<1>2. CASE UNCHANGED gameVars
    BY <1>2 DEF gameVars, FinishedWhenWon, Playing
<1>3. QED
    BY <1>1, <1>2

\* The match is finished exactly when a player has filled its goal, it is
\* finished in the name of that player, and the other has not filled its own.
THEOREM GameEnds ==
    ASSUME LegalMoves(Boards)
    PROVE  GameSpec => []FinishedWhenWon
<1>1. Count /\ FinishedWhenWon /\ [GameNext]_gameVars
        => Count' /\ FinishedWhenWon'
    BY StepCount, StepFinished
<1>2. QED
    BY <1>1, InitCount, InitFinished, PTL DEF GameSpec

\* The game on the board implements the match the Server drives: the players
\* alternate, and a match is won only by the player who has just moved.
THEOREM GameRefines ==
    ASSUME LegalMoves(Boards)
    PROVE  GameSpec => MatchSpec
<1> DEFINE mapped == [phase |-> status.phase, player |-> status.player,
                      turns |-> status.turns]
<1>1. GameInit => Match!GameInit
    BY DEF GameInit, Match!GameInit
<1>2. Count /\ FinishedWhenWon /\ [GameNext]_gameVars => [Match!Move]_mapped
    <2> SUFFICES ASSUME Count, FinishedWhenWon, [GameNext]_gameVars
                 PROVE  [Match!Move]_mapped
        OBVIOUS
    <2>1. CASE GameNext
        <3>1. PICK from, to : TurnOf(status.player, from, to)
            BY <2>1, TurnMoves DEF Count
        <3>2. QED
            BY <3>1, TurnFinished DEF TurnOf, Playing, Match!Move,
                Match!Playing, Match!Opponent, Opponent
    <2>2. CASE UNCHANGED gameVars
        BY <2>2 DEF gameVars
    <2>3. QED
        BY <2>1, <2>2
<1>3. Count /\ FinishedWhenWon /\ [GameNext]_gameVars
        => Count' /\ FinishedWhenWon'
    BY StepCount, StepFinished
<1>4. QED
    BY <1>1, <1>2, <1>3, InitCount, InitFinished, PTL
    DEF GameSpec, MatchSpec, Match!GameSpec

----------------------------------------------------------------------------
\* The generator against the rules

\* The cells of the closure of x are the least set that holds it and is closed
\* under hops.
Reached(b, S) == S \cup UNION {Hops(b, y) : y \in S}

Absent(S) == Cardinality(Cells \ S)

LEMMA HopsOnBoard ==
    ASSUME NEW b, NEW S \in SUBSET Cells
    PROVE  S \subseteq Reached(b, S) /\ Reached(b, S) \in SUBSET Cells
BY DEF Reached, Hops, Empty

LEMMA AbsentType ==
    ASSUME NEW S
    PROVE  /\ IsFiniteSet(Cells \ S) /\ Cardinality(Cells) \in Nat
           /\ Absent(S) \in Nat /\ Absent(S) <= Cardinality(Cells)
<1>1. Cells \ S \subseteq Cells
    OBVIOUS
<1>2. /\ IsFiniteSet(Cells \ S)
      /\ Cardinality(Cells \ S) <= Cardinality(Cells)
    BY <1>1, BoardAssumption, FS_Subset
<1>3. Cardinality(Cells \ S) \in Nat /\ Cardinality(Cells) \in Nat
    BY <1>2, BoardAssumption, FS_CardinalityType
<1>4. QED
    BY <1>2, <1>3 DEF Absent

LEMMA ReachedMore ==
    ASSUME NEW b, NEW S \in SUBSET Cells, Reached(b, S) # S
    PROVE  Absent(Reached(b, S)) < Absent(S)
<1> DEFINE R == Reached(b, S)
<1>1. S \subseteq R /\ R \subseteq Cells
    BY HopsOnBoard
<1>2. /\ Cells \ R \subseteq Cells \ S /\ Cells \ R # Cells \ S
    BY <1>1
<1>3. /\ Cardinality(Cells \ R) <= Cardinality(Cells \ S)
      /\ Cardinality(Cells \ R) # Cardinality(Cells \ S)
    BY <1>2, AbsentType, FS_Subset
<1>4. Absent(R) \in Nat /\ Absent(S) \in Nat
    BY AbsentType
<1>5. QED
    BY <1>3, <1>4 DEF Absent

\* Induction along the growth of a set of cells.
LEMMA AbsentInduction ==
    ASSUME NEW P,
           \A S \in SUBSET Cells :
                (\A R \in SUBSET Cells : Absent(R) < Absent(S) => R \in P) => S \in P
    PROVE  SUBSET Cells \subseteq P
<1> DEFINE T == {n \in Nat : \E S \in SUBSET Cells : S \notin P /\ Absent(S) = n}
<1>1. SUFFICES ASSUME T # {} PROVE FALSE
    BY AbsentType
<1>2. PICK n \in T : \A k \in T : n <= k
    BY <1>1, LeastNatural
<1>3. PICK S \in SUBSET Cells : S \notin P /\ Absent(S) = n
    BY <1>2
<1>4. ASSUME NEW R \in SUBSET Cells, Absent(R) < Absent(S)
      PROVE  R \in P
    <2>1. Absent(R) \in Nat /\ n \in Nat
        BY <1>2, AbsentType
    <2>2. Absent(R) \notin T
        BY <1>2, <1>3, <1>4, <2>1
    <2>3. QED
        BY <2>1, <2>2
<1>5. QED
    BY <1>3, <1>4

Closes(f, b, D) ==
    \A S \in D : f[S] = IF Reached(b, S) = S THEN S ELSE f[Reached(b, S)]

Fuller(n) == {S \in SUBSET Cells : Absent(S) < n}

LEMMA ClosedBelow ==
    ASSUME NEW b, NEW n \in Nat
    PROVE  \E f : Closes(f, b, Fuller(n))
<1> DEFINE T == {m \in Nat : ~ \E f : Closes(f, b, Fuller(m))}
<1>1. SUFFICES ASSUME T # {} PROVE FALSE
    OBVIOUS
<1>2. PICK m \in T : \A k \in T : m <= k
    BY <1>1, LeastNatural
<1>3. m # 0
    <2>1. Fuller(0) = {}
        <3>1. \A S : Absent(S) \in Nat
            BY AbsentType
        <3>2. QED
            BY <3>1 DEF Fuller
    <2>2. QED
        BY <1>2, <2>1 DEF Closes
<1>4. m - 1 \in Nat /\ m - 1 \notin T
    BY <1>2, <1>3
<1>5. PICK f : Closes(f, b, Fuller(m - 1))
    BY <1>4
<1> DEFINE g == [S \in Fuller(m) |->
                    IF Reached(b, S) = S THEN S ELSE f[Reached(b, S)]]
<1>6. ASSUME NEW S \in Fuller(m), Reached(b, S) # S
      PROVE  Reached(b, S) \in Fuller(m - 1) /\ Reached(b, S) \in Fuller(m)
    <2>1. /\ Reached(b, S) \in SUBSET Cells
          /\ Absent(Reached(b, S)) < Absent(S) /\ Absent(S) < m
        BY <1>6, HopsOnBoard, ReachedMore DEF Fuller
    <2>2. Absent(Reached(b, S)) \in Nat /\ Absent(S) \in Nat /\ m \in Nat
        BY <1>2, AbsentType
    <2>3. Absent(Reached(b, S)) < m - 1 /\ Absent(Reached(b, S)) < m
        BY <2>1, <2>2
    <2>4. QED
        BY <2>1, <2>3 DEF Fuller
<1>7. ASSUME NEW S \in Fuller(m)
      PROVE  g[S] = IF Reached(b, S) = S THEN S ELSE g[Reached(b, S)]
    <2>1. CASE Reached(b, S) = S
        BY <2>1
    <2>2. CASE Reached(b, S) # S
        <3>1. g[Reached(b, S)] = f[Reached(b, S)]
            BY <1>5, <1>6, <2>2 DEF Closes
        <3>2. QED
            BY <2>2, <3>1
    <2>3. QED
        BY <2>1, <2>2
<1>8. Closes(g, b, Fuller(m))
    BY <1>7 DEF Closes
<1>9. QED
    BY <1>2, <1>8

LEMMA ClosureOf ==
    ASSUME NEW b, NEW x \in Cells
    PROVE  \E f : Closes(f, b, SUBSET Cells) /\ HopClosure(b, x) = f[{x}]
<1> DEFINE N == Cardinality(Cells) + 1
           c == CHOOSE c : c = [S \in SUBSET Cells |->
                    IF S \cup UNION {Hops(b, y) : y \in S} = S THEN S
                    ELSE c[S \cup UNION {Hops(b, y) : y \in S}]]
<1>1. N \in Nat /\ Fuller(N) = SUBSET Cells
    <2>1. Cardinality(Cells) \in Nat
        BY AbsentType
    <2>2. \A S : Absent(S) \in Nat /\ Absent(S) <= Cardinality(Cells)
        BY AbsentType
    <2>3. \A S : Absent(S) < N
        BY <2>1, <2>2
    <2>4. QED
        BY <2>1, <2>3 DEF Fuller
<1>2. PICK f : Closes(f, b, SUBSET Cells)
    <2>1. \E f : Closes(f, b, Fuller(N))
        BY <1>1, ClosedBelow
    <2>2. QED
        BY <1>1, <2>1
<1> DEFINE g == [S \in SUBSET Cells |-> f[S]]
<1>3. g = [S \in SUBSET Cells |->
                    IF S \cup UNION {Hops(b, y) : y \in S} = S THEN S
                    ELSE g[S \cup UNION {Hops(b, y) : y \in S}]]
    <2>1. \A S \in SUBSET Cells :
            f[S] = IF Reached(b, S) = S THEN S ELSE g[Reached(b, S)]
        BY <1>2, HopsOnBoard DEF Closes
    <2>2. g = [S \in SUBSET Cells |->
                IF Reached(b, S) = S THEN S ELSE g[Reached(b, S)]]
        BY <2>1
    <2>3. QED
        BY <2>2 DEF Reached
<1> HIDE DEF g
<1>4. c = [S \in SUBSET Cells |->
                    IF S \cup UNION {Hops(b, y) : y \in S} = S THEN S
                    ELSE c[S \cup UNION {Hops(b, y) : y \in S}]]
    BY <1>3
<1>5. HopClosure(b, x) = c[{x}]
    BY DEF HopClosure
<1> HIDE DEF c
<1>6. Closes(c, b, SUBSET Cells)
    BY <1>4 DEF Closes, Reached
<1>7. QED
    BY <1>5, <1>6

LEMMA ClosureLeast ==
    ASSUME NEW b, NEW x \in Cells
    PROVE  /\ x \in HopClosure(b, x)
           /\ \A y \in HopClosure(b, x) : Hops(b, y) \subseteq HopClosure(b, x)
           /\ \A R : x \in R /\ (\A y \in R : Hops(b, y) \subseteq R) =>
                HopClosure(b, x) \subseteq R
<1>1. PICK f : Closes(f, b, SUBSET Cells) /\ HopClosure(b, x) = f[{x}]
    BY ClosureOf
<1> DEFINE P == {S \in SUBSET Cells :
                    /\ S \subseteq f[S]
                    /\ \A y \in f[S] : Hops(b, y) \subseteq f[S]
                    /\ \A R : S \subseteq R /\ (\A y \in R : Hops(b, y) \subseteq R) =>
                        f[S] \subseteq R}
<1>2. ASSUME NEW S \in SUBSET Cells,
             \A R \in SUBSET Cells : Absent(R) < Absent(S) => R \in P
      PROVE  S \in P
    <2>1. CASE Reached(b, S) = S
        <3>1. f[S] = S
            BY <1>1, <2>1 DEF Closes
        <3>2. \A y \in S : Hops(b, y) \subseteq S
            BY <2>1 DEF Reached
        <3>3. QED
            BY <3>1, <3>2
    <2>2. CASE Reached(b, S) # S
        <3>1. f[S] = f[Reached(b, S)]
            BY <1>1, <2>2 DEF Closes
        <3>2. Reached(b, S) \in P
            BY <1>2, <2>2, HopsOnBoard, ReachedMore
        <3>3. S \subseteq Reached(b, S)
            BY HopsOnBoard
        <3>4. \A R : S \subseteq R /\ (\A y \in R : Hops(b, y) \subseteq R) =>
                Reached(b, S) \subseteq R
            BY DEF Reached
        <3>5. QED
            BY <3>1, <3>2, <3>3, <3>4
    <2>3. QED
        BY <2>1, <2>2
<1> HIDE DEF P
<1>3. SUBSET Cells \subseteq P
    BY <1>2, AbsentInduction
<1>4. {x} \in P
    BY <1>3
<1>5. QED
    BY <1>1, <1>4 DEF P

\* y lies an even number of cells from x in both coordinates.
Even(x, y) == \E k, l \in Int : y = <<x[1] + 2 * k, x[2] + 2 * l>>

LEMMA CellInts ==
    ASSUME NEW x \in Cells
    PROVE  x = <<x[1], x[2]>> /\ x[1] \in Int /\ x[2] \in Int
BY GridAssumption

LEMMA DirectionInts ==
    ASSUME NEW d \in Directions
    PROVE  /\ d[1] \in Int /\ d[2] \in Int
           /\ \A k, l \in Int : ~(d[1] + 2 * k = 0 /\ d[2] + 2 * l = 0)
<1>1. d[1] \in -1..1 /\ d[2] \in -1..1 /\ (d[1] # 0 \/ d[2] # 0)
    BY DEF Directions
<1>2. \A e \in {-1, 1} : \A k \in Int : e + 2 * k # 0
    OBVIOUS
<1>3. d[1] \in {-1, 1} \/ d[2] \in {-1, 1}
    BY <1>1
<1>4. d[1] \in {-1, 1} => \A k \in Int : d[1] + 2 * k # 0
    BY <1>2
<1>5. d[2] \in {-1, 1} => \A l \in Int : d[2] + 2 * l # 0
    BY <1>2
<1>6. QED
    BY <1>1, <1>3, <1>4, <1>5

LEMMA TwoSteps ==
    ASSUME NEW y \in Cells, NEW d \in Directions
    PROVE  LET z == Beside(Beside(y, d), d) IN
           /\ z = Beside(y, <<2 * d[1], 2 * d[2]>>)
           /\ <<(y[1] + z[1]) \div 2, (y[2] + z[2]) \div 2>> = Beside(y, d)
<1>1. /\ y[1] \in Int /\ y[2] \in Int /\ d[1] \in Int /\ d[2] \in Int
    BY CellInts, DirectionInts
<1>2. /\ Beside(Beside(y, d), d) = <<y[1] + d[1] + d[1], y[2] + d[2] + d[2]>>
      /\ Beside(y, <<2 * d[1], 2 * d[2]>>) = <<y[1] + 2 * d[1], y[2] + 2 * d[2]>>
      /\ Beside(y, d) = <<y[1] + d[1], y[2] + d[2]>>
    BY DEF Beside
<1>3. /\ y[1] + d[1] + d[1] = y[1] + 2 * d[1]
      /\ y[2] + d[2] + d[2] = y[2] + 2 * d[2]
      /\ (y[1] + (y[1] + d[1] + d[1])) \div 2 = y[1] + d[1]
      /\ (y[2] + (y[2] + d[2] + d[2])) \div 2 = y[2] + d[2]
    BY <1>1
<1>4. QED
    BY <1>2, <1>3

\* A hop never passes over the cell it all began at.
LEMMA OddStep ==
    ASSUME NEW x \in Cells, NEW y \in Cells, Even(x, y), NEW d \in Directions
    PROVE  Beside(y, d) # x /\ Even(x, Beside(Beside(y, d), d))
<1>1. PICK k \in Int, l \in Int : y = <<x[1] + 2 * k, x[2] + 2 * l>>
    BY DEF Even
<1>2. /\ x[1] \in Int /\ x[2] \in Int /\ d[1] \in Int /\ d[2] \in Int
    BY CellInts, DirectionInts
<1>3. /\ Beside(y, d) = <<x[1] + 2 * k + d[1], x[2] + 2 * l + d[2]>>
      /\ Beside(Beside(y, d), d)
            = <<x[1] + 2 * k + d[1] + d[1], x[2] + 2 * l + d[2] + d[2]>>
    BY <1>1 DEF Beside
<1>4. Beside(y, d) # x
    <2> SUFFICES ASSUME Beside(y, d) = x PROVE FALSE
        OBVIOUS
    <2>1. x[1] = x[1] + 2 * k + d[1] /\ x[2] = x[2] + 2 * l + d[2]
        BY <1>3
    <2>2. d[1] + 2 * k = 0 /\ d[2] + 2 * l = 0
        BY <1>2, <2>1
    <2>3. QED
        BY <2>2, DirectionInts
<1>5. Even(x, Beside(Beside(y, d), d))
    <2>1. /\ x[1] + 2 * k + d[1] + d[1] = x[1] + 2 * (k + d[1])
          /\ x[2] + 2 * l + d[2] + d[2] = x[2] + 2 * (l + d[2])
          /\ k + d[1] \in Int /\ l + d[2] \in Int
        BY <1>2
    <2>2. QED
        BY <1>3, <2>1 DEF Even
<1>6. QED
    BY <1>4, <1>5

LEMMA Lifted ==
    ASSUME board \in Boards, NEW x \in Cells, NEW z
    PROVE  /\ Empty(Lift(x), z) <=> z = x \/ Empty(board, z)
           /\ Occupied(Lift(x), z) <=> z # x /\ Occupied(board, z)
BY DEF Lift, Empty, Occupied, Boards

\* What a hop is on the board and with the piece in hand.
LEMMA LiftedHop ==
    ASSUME board \in Boards, NEW x \in Cells, NEW y \in Cells, NEW z
    PROVE  z \in Hops(Lift(x), y) <=>
             \E d \in Directions :
                /\ z = Beside(Beside(y, d), d) /\ (z = x \/ Empty(board, z))
                /\ Beside(y, d) # x /\ Occupied(board, Beside(y, d))
<1> DEFINE over(d) == <<2 * d[1], 2 * d[2]>>
           mid == <<(y[1] + z[1]) \div 2, (y[2] + z[2]) \div 2>>
<1>1. z \in Hops(Lift(x), y) <=>
        /\ \E d \in Directions : z = Beside(y, over(d))
        /\ Empty(Lift(x), z) /\ Occupied(Lift(x), mid)
    BY DEF Hops
<1>2. ASSUME NEW d \in Directions
      PROVE  Beside(y, over(d)) = Beside(Beside(y, d), d)
    BY TwoSteps
<1>3. ASSUME NEW d \in Directions, z = Beside(Beside(y, d), d)
      PROVE  mid = Beside(y, d)
    BY <1>3, TwoSteps
<1>4. /\ Empty(Lift(x), z) <=> z = x \/ Empty(board, z)
      /\ Occupied(Lift(x), mid) <=> mid # x /\ Occupied(board, mid)
    BY Lifted
<1> HIDE DEF over, mid
<1>5. QED
    BY <1>1, <1>2, <1>3, <1>4

\* A path of the generator is one of hops with the piece in hand.
LEMMA PathReached ==
    ASSUME board \in Boards, NEW x \in Cells,
           NEW q \in CollectHopPathsFrom(board, <<x>>)
    PROVE  /\ q \in Seq(Cells) /\ q # <<>> /\ q[1] = x
           /\ Last(q) \in HopClosure(Lift(x), x)
           /\ Empty(board, Last(q))
<1> DEFINE C == HopClosure(Lift(x), x)
           R == {r \in Seq(Cells) :
                    /\ r # <<>> /\ r[1] = x /\ Last(r) \in C
                    /\ Last(r) \in Cells /\ Even(x, Last(r))}
           Q == {r \in R : Empty(board, Last(r))}
<1>1. ASSUME NEW r \in R, NEW l \in Longer(board, r)
      PROVE  l \in Q
    <2>1. PICK d \in Directions :
             LET y == Beside(Beside(Last(r), d), d) IN
             /\ CanHop(board, Last(r), d) /\ Empty(board, y) /\ y \in Cells
             /\ l = Append(r, y)
        BY LongerBy
    <2> DEFINE y == Beside(Beside(Last(r), d), d)
    <2>2. /\ l \in Seq(Cells) /\ l # <<>> /\ l[1] = x /\ Last(l) = y
        BY <2>1, OneHopOn
    <2>3. Beside(Last(r), d) # x /\ Even(x, y)
        BY OddStep
    <2>4. Occupied(board, Beside(Last(r), d))
        BY <2>1 DEF CanHop
    <2>5. y \in Hops(Lift(x), Last(r))
        BY <2>1, <2>3, <2>4, LiftedHop
    <2>6. y \in C
        BY <2>5, ClosureLeast
    <2>7. QED
        BY <2>1, <2>2, <2>3, <2>6
<1>2. <<x>> \in R
    <2>1. /\ <<x>> \in Seq(Cells) /\ <<x>> # <<>> /\ <<x>>[1] = x
        OBVIOUS
    <2>2. Last(<<x>>) = x
        BY DEF Last
    <2>3. Even(x, x)
        <3>1. x = <<x[1] + 2 * 0, x[2] + 2 * 0>>
            BY CellInts
        <3>2. QED
            BY <3>1 DEF Even
    <2>4. x \in C
        BY ClosureLeast
    <2>5. QED
        BY <2>1, <2>2, <2>3, <2>4
<1>3. <<x>> \in Seq(Cells)
    OBVIOUS
<1> HIDE DEF R
<1>4. /\ Longer(board, <<x>>) \subseteq Q
      /\ \A r \in Q \cap Seq(Cells) : Longer(board, r) \subseteq Q
    BY <1>1, <1>2
<1> HIDE DEF Q
<1>5. q \in Q
    BY <1>3, <1>4, CollectedIn
<1>6. QED
    BY <1>5 DEF Q, R

\* And every cell that hops reach with the piece in hand ends a path: one that
\* comes back to a cell can be cut short.
LEMMA ReachedByPath ==
    ASSUME board \in Boards, NEW x \in Cells, ~Empty(board, x),
           NEW y \in HopClosure(Lift(x), x), Empty(board, y)
    PROVE  \E q \in CollectHopPathsFrom(board, <<x>>) : y = Last(q)
<1> DEFINE P == Paths(board, <<x>>)
           R == {Last(q) : q \in P}
           Q == {q \in P : /\ q # <<>> /\ ToSet(q) \subseteq R
                           /\ Last(q) \in Cells}
<1>1. <<x>> \in Seq(Cells) /\ <<x>> # <<>> /\ Last(<<x>>) = x
      /\ ToSet(<<x>>) = {x}
    BY DEF Last, ToSet
<1>2. P \subseteq Seq(Cells) /\ \A q \in P : Longer(board, q) \subseteq P
    BY <1>1, PathsClosed
<1>3. <<x>> \in P
    BY DEF Paths
<1> HIDE DEF P
<1>4. x \in R
    BY <1>1, <1>3
<1>5. ASSUME NEW q \in Q, NEW l \in Longer(board, q)
      PROVE  l \in Q
    <2>1. PICK z \in Cells : l = Append(q, z)
        BY <1>2, LongerBy
    <2>2. l \in P
        BY <1>2
    <2>3. l # <<>> /\ Last(l) = z /\ ToSet(l) = ToSet(q) \cup {z}
        BY <1>2, <2>1, OneHopOn
    <2>4. z \in R
        BY <2>2, <2>3
    <2>5. QED
        BY <2>2, <2>3, <2>4
<1>6. P \subseteq Q
    <2>1. <<x>> \in Q
        BY <1>1, <1>3, <1>4
    <2> HIDE DEF Q
    <2>2. Paths(board, <<x>>) \subseteq Q
        BY <1>1, <1>5, <2>1, PathsLeast
    <2>3. QED
        BY <2>2 DEF P
<1>7. ASSUME NEW z \in R, NEW w \in Hops(Lift(x), z)
      PROVE  w \in R
    <2>1. PICK q \in P : z = Last(q)
        OBVIOUS
    <2>2. q # <<>> /\ ToSet(q) \subseteq R /\ z \in Cells /\ q \in Seq(Cells)
        BY <1>2, <1>6, <2>1
    <2>3. PICK d \in Directions :
            /\ w = Beside(Beside(z, d), d) /\ (w = x \/ Empty(board, w))
            /\ Occupied(board, Beside(z, d))
        BY <2>2, LiftedHop
    <2>4. CASE w = x
        BY <1>4, <2>4
    <2>5. CASE w \in ToSet(q)
        BY <2>2, <2>5
    <2>6. CASE Empty(board, w) /\ w \notin ToSet(q)
        <3>1. Append(q, w) \in Longer(board, q)
            BY <2>1, <2>3, <2>6 DEF Longer, AvailableHopsFrom, CanHop
        <3>2. Append(q, w) \in P
            BY <1>2, <3>1
        <3>3. Last(Append(q, w)) = w
            BY <2>2, <2>6, OneHopOn DEF Empty
        <3>4. QED
            BY <3>2, <3>3
    <2>7. QED
        BY <2>3, <2>4, <2>5, <2>6
<1> HIDE DEF R
<1>8. y \in R
    BY <1>4, <1>7, ClosureLeast
<1>9. PICK q \in P : y = Last(q)
    BY <1>8 DEF R
<1>10. q # <<x>>
    BY <1>1, <1>9
<1>11. QED
    BY <1>9, <1>10 DEF P, Paths

\* The search of the generator finds the pairs of cells of the rules.
LEMMA RulesFollowed ==
    ASSUME board \in Boards, NEW p \in Players
    PROVE  Movements(board, p) = RuleMoves(p)
<1>1. ASSUME NEW x \in Pieces(board, p), NEW m \in AvailableMovementsFrom(board, x)
      PROVE  Indices(m) \in RuleMoves(p)
    <2>1. x \in Cells
        BY DEF Pieces
    <2>2. CASE \E d \in Directions : /\ Empty(board, Beside(x, d))
                                     /\ m.path = <<x, Beside(x, d)>>
        <3>1. PICK d \in Directions : /\ Empty(board, Beside(x, d))
                                      /\ m.path = <<x, Beside(x, d)>>
            BY <2>2
        <3>2. Indices(m) = <<x, Beside(x, d)>>
            BY <3>1 DEF Indices
        <3>3. QED
            BY <3>1, <3>2 DEF RuleMoves, Empty, Pieces
    <2>3. CASE m.path \in CollectHopPathsFrom(board, <<x>>)
        <3>1. /\ m.path \in Seq(Cells) /\ m.path # <<>> /\ m.path[1] = x
              /\ Last(m.path) \in HopClosure(Lift(x), x)
              /\ Empty(board, Last(m.path))
            BY <2>1, <2>3, PathReached
        <3>2. Indices(m) = <<x, Last(m.path)>>
            BY <3>1 DEF Indices, Last
        <3>3. QED
            BY <3>1, <3>2 DEF RuleMoves, Empty, Pieces
    <2>4. QED
        BY <2>2, <2>3 DEF AvailableMovementsFrom
<1>2. ASSUME NEW x \in Pieces(board, p), NEW y \in Pieces(board, NoPlayer),
             \/ \E d \in Directions : y = Beside(x, d)
             \/ y \in HopClosure(Lift(x), x)
      PROVE  \E m \in AvailableMovementsFrom(board, x) : Indices(m) = <<x, y>>
    <2>1. x \in Cells /\ ~Empty(board, x) /\ Empty(board, y)
        BY PlayersAssumption DEF Pieces, Empty, Players
    <2>2. ASSUME NEW d \in Directions, y = Beside(x, d)
          PROVE  \E m \in AvailableMovementsFrom(board, x) : Indices(m) = <<x, y>>
        <3>1. PICK m : m = [type |-> "Move", path |-> <<x, Beside(x, d)>>]
            OBVIOUS
        <3>2. m \in AvailableMovementsFrom(board, x)
            BY <2>1, <2>2, <3>1 DEF AvailableMovementsFrom
        <3>3. Indices(m) = <<x, y>>
            BY <2>2, <3>1 DEF Indices
        <3>4. QED
            BY <3>2, <3>3
    <2>3. ASSUME y \in HopClosure(Lift(x), x)
          PROVE  \E m \in AvailableMovementsFrom(board, x) : Indices(m) = <<x, y>>
        <3>1. PICK q \in CollectHopPathsFrom(board, <<x>>) : y = Last(q)
            BY <2>1, <2>3, ReachedByPath
        <3>2. PICK m : m = [type |-> "Hops", path |-> q]
            OBVIOUS
        <3>3. m \in AvailableMovementsFrom(board, x)
            BY <3>2 DEF AvailableMovementsFrom
        <3>4. Indices(m) = <<x, y>>
            BY <2>1, <3>1, <3>2, PathReached DEF Indices, Last
        <3>5. QED
            BY <3>3, <3>4
    <2>4. QED
        BY <1>2, <2>2, <2>3
<1>3. Movements(board, p) \subseteq RuleMoves(p)
    BY <1>1 DEF Movements, IterPlayerMovements
<1>4. RuleMoves(p) \subseteq Movements(board, p)
    BY <1>2 DEF Movements, IterPlayerMovements, RuleMoves
<1>5. QED
    BY <1>3, <1>4

\* All that the theorems ask of the list of movements holds of the list that
\* iter_available_moves makes, on any board.
THEOREM GeneratorLegal ==
    ASSUME \A b \in Boards : \A p \in Players :
                AvailableMoves(b, p) = Movements(b, p)
    PROVE  LegalMoves(Boards)
<1>1. ASSUME NEW b \in Boards, NEW p \in Players, NEW m \in Movements(b, p)
      PROVE  m[1] \in Pieces(b, p) /\ m[2] \in Pieces(b, NoPlayer)
    <2>1. PICK l \in IterPlayerMovements(b, p) : m = Indices(l)
        BY DEF Movements
    <2>2. QED
        BY <2>1, GeneratedMovements
<1>2. QED
    BY <1>1 DEF LegalMoves

\* In every position of a match, the generator finds just the movements of
\* the rules.
THEOREM GeneratorRight ==
    ASSUME LegalMoves(Boards)
    PROVE  GameSpec => []GeneratorFollowsRules
<1>1. Count => GeneratorFollowsRules
    BY RulesFollowed DEF Count, GeneratorFollowsRules
<1>2. QED
    BY <1>1, Counted, PTL

\* In every position of a match, apply_movement accepts every movement of
\* the generator for the player to move, and tells the others why not.
THEOREM CheckedPathAccepts ==
    ASSUME LegalMoves(Boards)
    PROVE  GameSpec => []CheckedPathAgrees
<1>1. Count => CheckedPathAgrees
    <2> SUFFICES ASSUME Count, NEW p \in Players,
                        NEW m \in IterPlayerMovements(board, p)
                 PROVE  Outcome(m) = IF ~Playing THEN "GameFinished"
                                     ELSE IF p = status.player THEN "Ok"
                                     ELSE "OutOfTurn"
        BY DEF CheckedPathAgrees
    <2>1. ValidateMovement(board, m) = p
        BY GeneratedMovements DEF Count
    <2>2. p # NoPlayer
        BY PlayersAssumption DEF Players
    <2>3. QED
        BY <2>1, <2>2 DEF Outcome
<1>2. QED
    BY <1>1, Counted, PTL

\* In every position of a match the array stands for the board.
THEOREM ArrayIsTheBoard ==
    ASSUME LegalMoves(Boards)
    PROVE  GameSpec => []GridIsTheBoard
<1>1. Count => GridIsTheBoard
    BY ArrayIsBoard DEF Count, GridIsTheBoard
<1>2. QED
    BY <1>1, Counted, PTL

----------------------------------------------------------------------------
\* The history

\* What it is for f to be the function that FoldLeft is defined by, for the
\* movements of h, on the sets of the first n positions.
Replays(f, h, n) ==
    \A S \in SUBSET (1..n) :
        f[S] = IF S = {} THEN NewGrid
               ELSE GridMove(f[S \ {Max(S)}], h[Max(S)])

LEMMA LargestIs ==
    ASSUME NEW n \in Nat, NEW S \in SUBSET (1..n), n \in S
    PROVE  Max(S) = n
<1>1. \A y \in S : y \in Nat /\ n >= y
    OBVIOUS
<1>2. \A x \in S : (\A y \in S : x >= y) => x = n
    BY <1>1
<1>3. QED
    BY <1>1, <1>2 DEF Max

LEMMA ReplayExists ==
    ASSUME NEW h, NEW n \in Nat
    PROVE  \E f : Replays(f, h, n)
<1> DEFINE T == {m \in Nat : ~ \E f : Replays(f, h, m)}
<1>1. SUFFICES ASSUME T # {} PROVE FALSE
    OBVIOUS
<1>2. PICK m \in T : \A k \in T : m <= k
    BY <1>1, LeastNatural
<1>3. m # 0
    <2> DEFINE f == [S \in SUBSET (1..0) |-> NewGrid]
    <2>1. \A S \in SUBSET (1..0) : S = {} /\ f[S] = NewGrid
        OBVIOUS
    <2>2. Replays(f, h, 0)
        BY <2>1 DEF Replays
    <2>3. QED
        BY <1>2, <2>2
<1>4. m - 1 \in Nat /\ m - 1 \notin T
    BY <1>2, <1>3
<1>5. PICK f : Replays(f, h, m - 1)
    BY <1>4
<1> DEFINE g == [S \in SUBSET (1..m) |->
                    IF m \in S THEN GridMove(f[S \ {m}], h[m]) ELSE f[S]]
<1>6. ASSUME NEW S \in SUBSET (1..m), m \notin S
      PROVE  S \in SUBSET (1..(m - 1))
    BY <1>2, <1>6
<1>7. ASSUME NEW S \in SUBSET (1..m)
      PROVE  g[S] = IF S = {} THEN NewGrid
                    ELSE GridMove(g[S \ {Max(S)}], h[Max(S)])
    <2>1. CASE m \in S
        <3>1. Max(S) = m
            BY <1>2, <2>1, LargestIs
        <3>2. g[S \ {m}] = f[S \ {m}]
            OBVIOUS
        <3>3. QED
            BY <2>1, <3>1, <3>2
    <2>2. CASE m \notin S
        <3>1. g[S] = f[S] /\ g[S \ {Max(S)}] = f[S \ {Max(S)}]
            BY <2>2
        <3>2. S \in SUBSET (1..(m - 1))
            BY <1>6, <2>2
        <3> HIDE DEF g
        <3>3. QED
            BY <1>5, <3>1, <3>2 DEF Replays
    <2>3. QED
        BY <2>1, <2>2
<1>8. Replays(g, h, m)
    BY <1>7 DEF Replays
<1>9. QED
    BY <1>2, <1>8

LEMMA Replayed ==
    ASSUME NEW M, NEW h \in Seq(M)
    PROVE  \E f : /\ Replays(f, h, Len(h))
                  /\ FoldLeft(GridMove, NewGrid, h) = f[1..Len(h)]
<1> DEFINE c == CHOOSE c : c = [S \in SUBSET (DOMAIN h) |->
                    IF S = {} THEN NewGrid
                    ELSE GridMove(c[S \ {Max(S)}], h[Max(S)])]
<1>1. DOMAIN h = 1..Len(h) /\ Len(h) \in Nat
    OBVIOUS
<1>2. PICK f : Replays(f, h, Len(h))
    BY <1>1, ReplayExists
<1> DEFINE g == [S \in SUBSET (DOMAIN h) |-> f[S]]
<1>3. g = [S \in SUBSET (DOMAIN h) |->
                    IF S = {} THEN NewGrid
                    ELSE GridMove(g[S \ {Max(S)}], h[Max(S)])]
    <2>1. \A S \in SUBSET (DOMAIN h) : g[S \ {Max(S)}] = f[S \ {Max(S)}]
        OBVIOUS
    <2>2. \A S \in SUBSET (DOMAIN h) :
            f[S] = IF S = {} THEN NewGrid
                   ELSE GridMove(g[S \ {Max(S)}], h[Max(S)])
        BY <1>1, <1>2, <2>1 DEF Replays
    <2>3. QED
        BY <2>2
<1> HIDE DEF g
<1>4. c = [S \in SUBSET (DOMAIN h) |->
                    IF S = {} THEN NewGrid
                    ELSE GridMove(c[S \ {Max(S)}], h[Max(S)])]
    BY <1>3
<1>5. FoldLeft(GridMove, NewGrid, h) = c[DOMAIN h]
    BY DEF FoldLeft, MapThenFoldSet
<1> HIDE DEF c
<1>6. Replays(c, h, Len(h))
    BY <1>1, <1>4 DEF Replays
<1>7. QED
    BY <1>1, <1>5, <1>6

\* Only the movements of the positions in question count.
LEMMA ReplaysAgree ==
    ASSUME NEW e, NEW f, NEW h, NEW l, NEW n \in Nat, NEW k \in 0..n,
           Replays(e, h, n), Replays(f, l, n), \A i \in 1..n : h[i] = l[i]
    PROVE  e[1..k] = f[1..k]
<1> DEFINE T == {m \in Nat : m <= n /\ e[1..m] # f[1..m]}
<1>1. SUFFICES ASSUME T # {} PROVE FALSE
    OBVIOUS
<1>2. PICK m \in T : \A j \in T : m <= j
    BY <1>1, LeastNatural
<1>3. m \in 0..n /\ (1..m) \in SUBSET (1..n)
    OBVIOUS
<1>4. m # 0
    <2>1. 1..0 = {}
        OBVIOUS
    <2>2. {} \in SUBSET (1..n)
        OBVIOUS
    <2>3. e[{}] = NewGrid /\ f[{}] = NewGrid
        BY <2>2 DEF Replays
    <2>4. QED
        BY <1>2, <2>1, <2>3
<1>5. /\ m - 1 \in Nat /\ m - 1 <= n /\ m - 1 \notin T
      /\ m \in 1..m /\ (1..m) \ {m} = 1..(m - 1) /\ m \in 1..n
    BY <1>2, <1>3, <1>4
<1>6. e[1..(m - 1)] = f[1..(m - 1)]
    BY <1>5
<1>7. Max(1..m) = m /\ 1..m # {}
    BY <1>5, LargestIs
<1>8. e[1..m] = GridMove(e[1..(m - 1)], h[m])
    BY <1>3, <1>5, <1>7 DEF Replays
<1>9. f[1..m] = GridMove(f[1..(m - 1)], l[m])
    BY <1>3, <1>5, <1>7 DEF Replays
<1>10. QED
    BY <1>2, <1>5, <1>6, <1>8, <1>9

LEMMA ReplayMore ==
    ASSUME NEW M, NEW h \in Seq(M), NEW m \in M
    PROVE  FoldLeft(GridMove, NewGrid, Append(h, m))
            = GridMove(FoldLeft(GridMove, NewGrid, h), m)
<1> DEFINE l == Append(h, m)
           n == Len(h)
<1>1. /\ l \in Seq(M) /\ n \in Nat /\ Len(l) = n + 1 /\ l[n + 1] = m
      /\ \A i \in 1..n : h[i] = l[i]
    OBVIOUS
<1>2. PICK e : Replays(e, h, n) /\ FoldLeft(GridMove, NewGrid, h) = e[1..n]
    BY Replayed
<1>3. PICK f : /\ Replays(f, l, n + 1)
               /\ FoldLeft(GridMove, NewGrid, l) = f[1..(n + 1)]
    BY <1>1, Replayed
<1> HIDE DEF l, n
<1>4. /\ n + 1 \in Nat /\ n + 1 \in 1..(n + 1) /\ n \in 0..n
      /\ (1..(n + 1)) \ {n + 1} = 1..n /\ 1..(n + 1) # {}
      /\ \A S \in SUBSET (1..n) : S \in SUBSET (1..(n + 1))
    <2>1. n \in Nat
        BY <1>1
    <2>2. 1..(n + 1) = (1..n) \cup {n + 1} /\ n + 1 \notin 1..n
        BY <2>1
    <2>3. n + 1 \in Nat /\ n \in 0..n
        BY <2>1
    <2>4. QED
        BY <2>2, <2>3
<1>5. Max(1..(n + 1)) = n + 1
    <2> DEFINE k == n + 1
    <2>1. k \in Nat /\ k \in 1..k
        BY <1>4
    <2> HIDE DEF k
    <2>2. Max(1..k) = k
        BY <2>1, LargestIs
    <2>3. QED
        BY <2>2 DEF k
<1>6. f[1..(n + 1)] = GridMove(f[1..n], m)
    BY <1>1, <1>3, <1>4, <1>5 DEF Replays
<1>7. Replays(f, l, n)
    BY <1>3, <1>4 DEF Replays
<1>8. f[1..n] = e[1..n]
    BY <1>1, <1>2, <1>4, <1>7, ReplaysAgree
<1>9. QED
    BY <1>2, <1>3, <1>6, <1>8 DEF l

LEMMA ReplayNone == FoldLeft(GridMove, NewGrid, <<>>) = NewGrid
<1>1. <<>> \in Seq({}) /\ Len(<<>>) = 0 /\ 1..0 = {}
    OBVIOUS
<1>2. PICK f : /\ Replays(f, <<>>, Len(<<>>))
               /\ FoldLeft(GridMove, NewGrid, <<>>) = f[1..Len(<<>>)]
    BY <1>1, Replayed
<1>3. QED
    BY <1>1, <1>2 DEF Replays

LEMMA InitReplays == GameInit => HistoryReplays
<1>1. Len(<<>>) = 0
    OBVIOUS
<1>2. QED
    BY <1>1, ReplayNone, ArrayOfNew DEF GameInit, HistoryReplays

LEMMA StepReplays ==
    ASSUME LegalMoves(Boards), Count, HistoryReplays, [GameNext]_gameVars
    PROVE  HistoryReplays'
<1>1. CASE GameNext
    <2>1. PICK from, to : TurnOf(status.player, from, to)
        BY <1>1, TurnMoves DEF Count
    <2>2. /\ from \in Cells /\ to \in Cells
          /\ board \in Boards /\ history \in Seq(Cells \X Cells)
          /\ <<from, to>> \in Cells \X Cells /\ status.turns \in Nat
        BY <2>1 DEF Count, TurnOf, Pieces
    <2>3. /\ board' = MovePiece(board, from, to)
          /\ history' = Append(history, <<from, to>>)
          /\ status'.turns = status.turns + 1
        BY <2>1 DEF TurnOf, ApplyMovement, NextStatus
    <2>4. Len(history') = status'.turns
        BY <2>2, <2>3 DEF HistoryReplays
    <2>5. PICK h \in Seq(Cells \X Cells), b \in Boards : h = history /\ b = board
        BY <2>2
    <2>6. FoldLeft(GridMove, NewGrid, Append(h, <<from, to>>))
            = GridMove(FoldLeft(GridMove, NewGrid, h), <<from, to>>)
        BY <2>2, ReplayMore
    <2>7. FoldLeft(GridMove, NewGrid, h) = ToGrid(b)
        BY <2>5 DEF HistoryReplays
    <2>8. GridMove(ToGrid(b), <<from, to>>) = ToGrid(MovePiece(b, from, to))
        BY <2>2, ArrayMoves
    <2>9. PICK l, c : l = history' /\ c = board'
        OBVIOUS
    <2>10. FoldLeft(GridMove, NewGrid, l) = ToGrid(c)
        BY <2>3, <2>5, <2>6, <2>7, <2>8, <2>9
    <2>11. QED
        BY <2>4, <2>9, <2>10 DEF HistoryReplays
<1>2. CASE UNCHANGED gameVars
    BY <1>2 DEF gameVars, HistoryReplays
<1>3. QED
    BY <1>1, <1>2

\* The history has one entry for each turn, and carried out on the array of a
\* new board it leads to the array of the board.
THEOREM HistoryTells ==
    ASSUME LegalMoves(Boards)
    PROVE  GameSpec => []HistoryReplays
<1>1. Count /\ HistoryReplays /\ [GameNext]_gameVars => Count' /\ HistoryReplays'
    BY StepCount, StepReplays
<1>2. QED
    BY <1>1, InitCount, InitReplays, PTL DEF GameSpec

----------------------------------------------------------------------------
\* The board from the other side

\* The cell as the player on the other side names it.
Across(x) == Rotate(BoardLength, x)

\* c has empty cells where b seen from the other side has.
Mirrors(c, b) == \A x \in Cells : c[Across(x)] = NoPlayer <=> b[x] = NoPlayer

Back(d) == <<-d[1], -d[2]>>

\* What Symmetric says of the rotation.
LEMMA CellsAcross ==
    ASSUME Symmetric, NEW x \in Cells
    PROVE  Across(x) \in Cells /\ (x \in Start(Player1) <=> Across(x) \in Start(Player2))
BY DEF Symmetric, Across, Rotate

LEMMA AcrossAndBack ==
    ASSUME NEW x \in Int \X Int
    PROVE  /\ Across(x) \in Int \X Int /\ Across(Across(x)) = x
           /\ Symmetric => (Across(x) \in Cells <=> x \in Cells)
<1>1. PICK i \in Int, j \in Int : x = <<i, j>>
    OBVIOUS
<1>2. BoardLength \in Int
    BY GridAssumption
<1>3. Across(x) = <<BoardLength - 1 - i, BoardLength - 1 - j>>
    BY <1>1 DEF Across, Rotate
<1>4. /\ BoardLength - 1 - i \in Int /\ BoardLength - 1 - j \in Int
      /\ BoardLength - 1 - (BoardLength - 1 - i) = i
      /\ BoardLength - 1 - (BoardLength - 1 - j) = j
    BY <1>2
<1>5. Across(x) \in Int \X Int
    BY <1>3, <1>4
<1>6. Across(Across(x)) = x
    BY <1>1, <1>3, <1>4 DEF Across, Rotate
<1>7. QED
    BY <1>5, <1>6, CellsAcross

LEMMA CellPair ==
    ASSUME NEW x \in Cells PROVE x \in Int \X Int
BY GridAssumption

LEMMA BesideAcross ==
    ASSUME NEW x \in Int \X Int, NEW d \in Directions
    PROVE  /\ Beside(x, d) \in Int \X Int
           /\ Back(d) \in Directions
           /\ Across(Beside(x, d)) = Beside(Across(x), Back(d))
<1>1. PICK i \in Int, j \in Int : x = <<i, j>>
    OBVIOUS
<1>2. /\ d[1] \in Int /\ d[2] \in Int /\ BoardLength \in Int
      /\ -d[1] \in Int /\ -d[2] \in Int
    BY DirectionInts, GridAssumption
<1>3. Beside(x, d) = <<i + d[1], j + d[2]>>
    BY <1>1 DEF Beside
<1>4. Across(x) = <<BoardLength - 1 - i, BoardLength - 1 - j>>
    BY <1>1 DEF Across, Rotate
<1>5. Beside(Across(x), Back(d))
        = <<BoardLength - 1 - i + (-d[1]), BoardLength - 1 - j + (-d[2])>>
    BY <1>4 DEF Beside, Back
<1>6. Across(Beside(x, d))
        = <<BoardLength - 1 - (i + d[1]), BoardLength - 1 - (j + d[2])>>
    BY <1>3 DEF Across, Rotate
<1>7. /\ BoardLength - 1 - i + (-d[1]) = BoardLength - 1 - (i + d[1])
      /\ BoardLength - 1 - j + (-d[2]) = BoardLength - 1 - (j + d[2])
    BY <1>2
<1>8. Back(d) \in Directions
    BY DEF Back, Directions
<1>9. Beside(x, d) \in Int \X Int
    BY <1>2, <1>3
<1>10. QED
    BY <1>5, <1>6, <1>7, <1>8, <1>9

LEMMA EmptyAcross ==
    ASSUME Symmetric, NEW b \in Boards, NEW c \in Boards, Mirrors(c, b),
           NEW x \in Int \X Int
    PROVE  /\ Empty(c, Across(x)) <=> Empty(b, x)
           /\ Occupied(c, Across(x)) <=> Occupied(b, x)
BY AcrossAndBack DEF Empty, Occupied, Mirrors

\* What mirrors a board is mirrored by it.
LEMMA MirrorBack ==
    ASSUME Symmetric, NEW b, NEW c, Mirrors(c, b)
    PROVE  Mirrors(b, c)
<1>1. ASSUME NEW x \in Cells
      PROVE  Across(x) \in Cells /\ Across(Across(x)) = x
    BY CellPair, AcrossAndBack
<1>2. QED
    BY <1>1 DEF Mirrors

LEMMA HopAcross ==
    ASSUME Symmetric, NEW b \in Boards, NEW c \in Boards, Mirrors(c, b),
           NEW x \in Int \X Int, NEW y \in AvailableHopsFrom(b, x)
    PROVE  /\ y \in Cells /\ Across(y) \in Cells
           /\ Across(y) \in AvailableHopsFrom(c, Across(x))
<1>1. PICK d \in Directions : CanHop(b, x, d) /\ y = Beside(Beside(x, d), d)
    BY DEF AvailableHopsFrom
<1>2. /\ Beside(x, d) \in Int \X Int /\ y \in Int \X Int
      /\ Back(d) \in Directions
      /\ Across(Beside(x, d)) = Beside(Across(x), Back(d))
      /\ Across(y) = Beside(Beside(Across(x), Back(d)), Back(d))
    BY <1>1, BesideAcross
<1>3. CanHop(c, Across(x), Back(d))
    BY <1>1, <1>2, EmptyAcross DEF CanHop
<1>4. y \in Cells /\ Across(y) \in Cells
    BY <1>1, CellsAcross DEF CanHop, Empty
<1>5. QED
    BY <1>2, <1>3, <1>4 DEF AvailableHopsFrom

\* A path of hops, seen from the other side, is one there.
LEMMA PathAcross ==
    ASSUME Symmetric, NEW b \in Boards, NEW c \in Boards, Mirrors(c, b),
           NEW x \in Cells, NEW q \in CollectHopPathsFrom(b, <<x>>)
    PROVE  \E r \in CollectHopPathsFrom(c, <<Across(x)>>) :
                /\ Last(r) = Across(Last(q))
                /\ r \in Seq(Cells) /\ r # <<>> /\ r[1] = Across(x)
                /\ q \in Seq(Cells) /\ q # <<>> /\ q[1] = x
                /\ Last(q) \in Cells
<1> DEFINE P == Paths(c, <<Across(x)>>)
           Seen(q0, r) == /\ Last(r) = Across(Last(q0))
                          /\ r \in Seq(Cells) /\ r # <<>> /\ r[1] = Across(x)
                          /\ q0 # <<>> /\ q0[1] = x
                          /\ Last(q0) \in Cells
                          /\ \A y \in Cells : Across(y) \in ToSet(r)
                                                => y \in ToSet(q0)
           R == {q0 \in Seq(Cells) : \E r \in P : Seen(q0, r)}
           Q == {q0 \in Seq(Cells) : \E r \in P \ {<<Across(x)>>} : Seen(q0, r)}
<1>1. Across(x) \in Cells /\ <<x>> \in Seq(Cells) /\ <<Across(x)>> \in Seq(Cells)
    BY CellsAcross
<1>2. P \subseteq Seq(Cells) /\ \A r \in P : Longer(c, r) \subseteq P
    BY <1>1, PathsClosed
<1>3. <<x>> \in R
    <2>1. <<Across(x)>> \in P
        BY DEF Paths
    <2>2. Last(<<x>>) = x /\ Last(<<Across(x)>>) = Across(x)
        BY DEF Last
    <2>3. ToSet(<<x>>) = {x} /\ ToSet(<<Across(x)>>) = {Across(x)}
        BY DEF ToSet
    <2>4. \A y \in Cells : Across(y) = Across(x) => y = x
        BY CellPair, AcrossAndBack
    <2>5. <<x>> # <<>> /\ <<x>>[1] = x
          /\ <<Across(x)>> # <<>> /\ <<Across(x)>>[1] = Across(x)
        OBVIOUS
    <2>6. Seen(<<x>>, <<Across(x)>>)
        BY <1>1, <2>2, <2>3, <2>4, <2>5
    <2> HIDE DEF P, Seen
    <2>7. QED
        BY <1>1, <2>1, <2>6
<1> HIDE DEF P
<1>4. ASSUME NEW q0 \in R, NEW l \in Longer(b, q0)
      PROVE  l \in Q
    <2>1. PICK r \in P : Seen(q0, r)
        OBVIOUS
    <2>2. PICK y \in AvailableHopsFrom(b, Last(q0)) \ ToSet(q0) :
                l = Append(q0, y)
        BY DEF Longer
    <2>3. Last(q0) \in Int \X Int
        BY <2>1, CellPair
    <2>4. /\ y \in Cells /\ Across(y) \in Cells
          /\ Across(y) \in AvailableHopsFrom(c, Last(r))
        BY <2>1, <2>2, <2>3, HopAcross
    <2>5. Across(y) \notin ToSet(r)
        BY <2>1, <2>2, <2>4
    <2> DEFINE s == Append(r, Across(y))
    <2>6. s \in P
        BY <1>2, <2>1, <2>4, <2>5 DEF Longer
    <2>7. /\ s \in Seq(Cells) /\ s # <<>> /\ Last(s) = Across(y)
          /\ ToSet(s) = ToSet(r) \cup {Across(y)}
          /\ s[1] = Across(x) /\ Len(s) > 1
        <3>1. Len(r) \in Nat /\ 1 \in 1..Len(r)
            BY <2>1
        <3>2. QED
            BY <2>1, <2>4, <3>1, OneHopOn
    <2>8. /\ l \in Seq(Cells) /\ l # <<>> /\ Last(l) = y
          /\ ToSet(l) = ToSet(q0) \cup {y}
          /\ l[1] = x
        <3>1. q0 \in Seq(Cells) /\ Len(q0) \in Nat /\ 1 \in 1..Len(q0)
            BY <2>1
        <3>2. QED
            BY <2>1, <2>2, <2>4, <3>1, OneHopOn
    <2>9. \A z \in Cells : Across(z) \in ToSet(s) => z \in ToSet(l)
        BY <2>1, <2>4, <2>7, <2>8, CellPair, AcrossAndBack
    <2>10. Seen(l, s)
        BY <2>4, <2>7, <2>8, <2>9
    <2>11. s # <<Across(x)>>
        BY <2>7
    <2> HIDE DEF s, Seen
    <2>12. QED
        BY <2>6, <2>8, <2>10, <2>11
<1>5. Longer(b, <<x>>) \subseteq Q
      /\ \A q0 \in Q \cap Seq(Cells) : Longer(b, q0) \subseteq Q
    <2>1. Q \subseteq R
        OBVIOUS
    <2> HIDE DEF Q, R
    <2>2. QED
        BY <1>3, <1>4, <2>1
<1> HIDE DEF Q
<1>6. q \in Q
    BY <1>1, <1>5, CollectedIn
<1>7. QED
    BY <1>6 DEF Q, P, Paths

Turned(m) == <<Across(m[1]), Across(m[2])>>

LEMMA MovesAcross ==
    ASSUME Symmetric, NEW b \in Boards, NEW c \in Boards, Mirrors(c, b),
           NEW p, NEW q, \A x \in Cells : b[x] = p <=> c[Across(x)] = q,
           NEW m \in Movements(b, p)
    PROVE  Turned(m) \in Movements(c, q) /\ Turned(Turned(m)) = m
<1>1. PICK x \in Pieces(b, p) :
            \E mv \in AvailableMovementsFrom(b, x) : m = Indices(mv)
    BY DEF Movements, IterPlayerMovements
<1>2. PICK mv \in AvailableMovementsFrom(b, x) : m = Indices(mv)
    BY <1>1
<1>3. x \in Cells /\ Across(x) \in Pieces(c, q)
    BY CellsAcross DEF Pieces
<1>4. ASSUME NEW d \in Directions, Empty(b, Beside(x, d)),
             mv.path = <<x, Beside(x, d)>>
      PROVE  /\ m = <<x, Beside(x, d)>> /\ Beside(x, d) \in Int \X Int
             /\ \E mw \in AvailableMovementsFrom(c, Across(x)) :
                    Indices(mw) = <<Across(x), Across(Beside(x, d))>>
    <2>1. /\ Beside(x, d) \in Int \X Int /\ Back(d) \in Directions
          /\ Across(Beside(x, d)) = Beside(Across(x), Back(d))
        BY <1>3, CellPair, BesideAcross
    <2>2. Empty(c, Beside(Across(x), Back(d)))
        BY <1>4, <2>1, EmptyAcross
    <2>3. PICK mw : mw = [type |-> "Move",
                          path |-> <<Across(x), Beside(Across(x), Back(d))>>]
        OBVIOUS
    <2>4. mw \in AvailableMovementsFrom(c, Across(x))
        BY <2>1, <2>2, <2>3 DEF AvailableMovementsFrom
    <2>5. Indices(mw) = <<Across(x), Across(Beside(x, d))>>
        BY <2>1, <2>3 DEF Indices
    <2>6. m = <<x, Beside(x, d)>>
        BY <1>2, <1>4 DEF Indices
    <2>7. QED
        BY <2>1, <2>4, <2>5, <2>6
<1>5. ASSUME mv.path \in CollectHopPathsFrom(b, <<x>>)
      PROVE  /\ m = <<x, Last(mv.path)>> /\ Last(mv.path) \in Cells
             /\ \E mw \in AvailableMovementsFrom(c, Across(x)) :
                    Indices(mw) = <<Across(x), Across(Last(mv.path))>>
    <2>1. PICK r \in CollectHopPathsFrom(c, <<Across(x)>>) :
                /\ Last(r) = Across(Last(mv.path))
                /\ r \in Seq(Cells) /\ r # <<>> /\ r[1] = Across(x)
                /\ mv.path \in Seq(Cells) /\ mv.path # <<>> /\ mv.path[1] = x
                /\ Last(mv.path) \in Cells
        BY <1>3, <1>5, PathAcross
    <2>2. PICK mw : mw = [type |-> "Hops", path |-> r]
        OBVIOUS
    <2>3. mw \in AvailableMovementsFrom(c, Across(x))
        BY <2>2 DEF AvailableMovementsFrom
    <2>4. Indices(mw) = <<Across(x), Across(Last(mv.path))>>
        BY <2>1, <2>2 DEF Indices, Last
    <2>5. m = <<x, Last(mv.path)>>
        BY <1>2, <2>1 DEF Indices, Last
    <2>6. QED
        BY <2>1, <2>3, <2>4, <2>5
<1>6. \/ \E d \in Directions : /\ Empty(b, Beside(x, d))
                               /\ mv.path = <<x, Beside(x, d)>>
      \/ mv.path \in CollectHopPathsFrom(b, <<x>>)
    BY DEF AvailableMovementsFrom
<1>7. PICK y : /\ m = <<x, y>> /\ y \in Int \X Int
               /\ \E mw \in AvailableMovementsFrom(c, Across(x)) :
                    Indices(mw) = <<Across(x), Across(y)>>
    BY <1>4, <1>5, <1>6, CellPair
<1>8. Turned(m) = <<Across(x), Across(y)>>
    BY <1>7 DEF Turned
<1>9. Turned(m) \in Movements(c, q)
    BY <1>3, <1>7, <1>8 DEF Movements, IterPlayerMovements
<1>10. Turned(Turned(m)) = m
    BY <1>3, <1>7, <1>8, CellPair, AcrossAndBack DEF Turned
<1>11. QED
    BY <1>9, <1>10

LEMMA ShownMirrors ==
    ASSUME Symmetric, board \in Boards
    PROVE  /\ Shown \in Boards
           /\ Mirrors(Shown, board)
           /\ \A x \in Cells : board[x] = Player2 <=> Shown[Across(x)] = Player1
           /\ \A x \in Cells : Shown[x] = Player1 <=> board[Across(x)] = Player2
<1>1. ASSUME NEW x \in Cells
      PROVE  /\ Across(x) \in Cells /\ Across(Across(x)) = x
             /\ board[Across(x)] \in {Player1, Player2, NoPlayer}
             /\ Shown[x] = IF board[Across(x)] = NoPlayer THEN NoPlayer
                           ELSE Opponent(board[Across(x)])
    <2>1. Across(x) \in Cells /\ Across(Across(x)) = x
        BY CellPair, AcrossAndBack
    <2>2. QED
        BY <2>1 DEF Boards, Shown, Players, Across
<1>2. ASSUME NEW x \in Cells
      PROVE  /\ Shown[x] \in Players \cup {NoPlayer}
             /\ Shown[x] = NoPlayer <=> board[Across(x)] = NoPlayer
             /\ Shown[x] = Player1 <=> board[Across(x)] = Player2
    BY <1>1, PlayersAssumption DEF Opponent, Players
<1>3. Shown \in Boards
    BY <1>2 DEF Boards, Shown
<1>4. QED
    BY <1>1, <1>2, <1>3 DEF Mirrors

LEMMA ShownMakesSense ==
    ASSUME Symmetric, board \in Boards
    PROVE  RotatedTurnMakesSense
<1>1. PICK b \in Boards, c \in Boards :
            /\ b = board /\ c = Shown
            /\ Mirrors(c, b)
            /\ \A x \in Cells : b[x] = Player2 <=> c[Across(x)] = Player1
            /\ \A x \in Cells : c[x] = Player1 <=> b[Across(x)] = Player2
    BY ShownMirrors
<1>2. Mirrors(b, c)
    BY <1>1, MirrorBack
<1>3. ASSUME NEW m \in Movements(b, Player2)
      PROVE  Turned(m) \in Movements(c, Player1)
    BY <1>1, MovesAcross
<1>4. ASSUME NEW m \in Movements(c, Player1)
      PROVE  Turned(m) \in Movements(b, Player2) /\ Turned(Turned(m)) = m
    BY <1>1, <1>2, MovesAcross
<1>5. {Turned(m) : m \in Movements(b, Player2)} = Movements(c, Player1)
    BY <1>3, <1>4
<1>6. {Across(x) : x \in Goal(Player2) \cap Pieces(b, Player2)}
        = Goal(Player1) \cap Pieces(c, Player1)
    <2>1. ASSUME NEW x \in Goal(Player2) \cap Pieces(b, Player2)
          PROVE  Across(x) \in Goal(Player1) \cap Pieces(c, Player1)
        <3>1. x \in Cells /\ x \in Start(Player1) /\ b[x] = Player2
            BY <2>1, PlayersAssumption DEF Goal, Opponent, Pieces
        <3>2. QED
            BY <1>1, <3>1, CellsAcross, PlayersAssumption DEF Goal, Opponent, Pieces
    <2>2. ASSUME NEW x \in Goal(Player1) \cap Pieces(c, Player1)
          PROVE  \E y \in Goal(Player2) \cap Pieces(b, Player2) : Across(y) = x
        <3>1. x \in Cells /\ x \in Start(Player2) /\ c[x] = Player1
            BY <2>2, PlayersAssumption DEF Goal, Opponent, Pieces
        <3>2. Across(x) \in Cells /\ Across(Across(x)) = x
            BY <3>1, CellPair, AcrossAndBack, CellsAcross
        <3>3. Across(x) \in Start(Player1)
            BY <3>1, <3>2, CellsAcross
        <3>4. Across(x) \in Goal(Player2) \cap Pieces(b, Player2)
            BY <1>1, <3>1, <3>2, <3>3, PlayersAssumption DEF Goal, Opponent, Pieces
        <3>5. QED
            BY <3>2, <3>4
    <2>3. QED
        BY <2>1, <2>2
<1>7. QED
    BY <1>1, <1>5, <1>6 DEF RotatedTurnMakesSense, Turned, Across

\* The Turn that Player2 is sent lists the movements of a Player1 on the board
\* it is shown, whose pieces in the goal are those of Player2 in its own, as
\* long as half a turn maps the board to itself and one start to the other.
THEOREM TurnSeenAcross ==
    ASSUME LegalMoves(Boards), Symmetric
    PROVE  GameSpec => []RotatedTurnMakesSense
<1>1. Count => RotatedTurnMakesSense
    BY ShownMakesSense DEF Count
<1>2. QED
    BY <1>1, Counted, PTL

----------------------------------------------------------------------------
\* Distances

\* The array without pieces has its cells where any other has them.
LEMMA NeighborsAre ==
    ASSUME NEW x \in Cells
    PROVE  Neighbors(EmptyGrid, x) = {Beside(x, d) : d \in Directions} \cap Cells
<1> DEFINE b == [y \in Cells |-> NoPlayer]
<1>1. b \in Boards
    BY DEF Boards
<1>2. \A k \in Slots : EmptyGrid[k] = ToGrid(b)[k]
    BY DEF EmptyGrid, ToGrid
<1>3. EmptyGrid = ToGrid(b)
    BY <1>2 DEF EmptyGrid, ToGrid
<1>4. QED
    BY <1>1, <1>3, ArrayIsBoard DEF Represents

\* On the star there is a cell one step nearer to any other: within a triangle
\* one may go straight on, and between the tips of the two through the middle.
LEMMA StarSteps ==
    ASSUME NEW k \in Nat, NEW i \in Int, NEW j \in Int, NEW u \in Int,
           NEW v \in Int, InStar(k, i, j), InStar(k, u, v),
           NEW n \in Int, n # 0, Norm(i - u, j - v, n)
    PROVE  \E e \in Int, f \in Int :
                /\ <<e, f>> \in Directions
                /\ InStar(k, i + e, j + f) /\ Norm(i + e - u, j + f - v, n - 1)
<1> DEFINE Nearer(e, f) ==
            InStar(k, i + e, j + f) /\ Norm(i + e - u, j + f - v, n - 1)
<1>1. \/ Nearer(-1, 0) \/ Nearer(-1, 1) \/ Nearer(0, 1)
      \/ Nearer(1, 0) \/ Nearer(1, -1) \/ Nearer(0, -1)
    BY SMTT(30) DEF InStar, Norm
<1>2. /\ <<-1, 0>> \in Directions /\ <<-1, 1>> \in Directions
      /\ <<0, 1>> \in Directions /\ <<1, 0>> \in Directions
      /\ <<1, -1>> \in Directions /\ <<0, -1>> \in Directions
    BY DEF Directions
<1> HIDE DEF Nearer
<1>3. ASSUME NEW e \in Int, NEW f \in Int, <<e, f>> \in Directions, Nearer(e, f)
      PROVE  \E g \in Int, h \in Int : <<g, h>> \in Directions /\ Nearer(g, h)
    BY <1>3
<1>4. -1 \in Int /\ 0 \in Int /\ 1 \in Int
    OBVIOUS
<1>5. \E e \in Int, f \in Int : <<e, f>> \in Directions /\ Nearer(e, f)
    BY <1>1, <1>2, <1>3, <1>4, Zenon
<1>6. QED
    BY <1>5 DEF Nearer

LEMMA NormUnique ==
    ASSUME NEW q \in Int, NEW r \in Int, NEW m \in Int, NEW n \in Int,
           Norm(q, r, m), Norm(q, r, n)
    PROVE  m = n
BY DEF Norm

\* A point of the star is within the rows and columns.
LEMMA StarWithin ==
    ASSUME NEW k \in Nat, NEW i \in Int, NEW j \in Int, InStar(k, i, j)
    PROVE  i \in 0..(4 * k) /\ j \in 0..(4 * k)
BY DEF InStar

\* On the star of any size hex_distance is how many steps it takes.
LEMMA StarDistances ==
    ASSUME NEW k \in Nat, StarShaped(k)
    PROVE  DistanceIsSteps
<1> SUFFICES ASSUME NEW x \in Cells, NEW y \in Cells
             PROVE  LET beside == {HexDistance(z, y) :
                                        z \in Neighbors(EmptyGrid, x)}
                        n      == HexDistance(x, y)
                    IN /\ n = 0 <=> x = y
                       /\ beside \subseteq (n - 1)..(n + 1)
                       /\ x # y => n - 1 \in beside
    BY DEF DistanceIsSteps
<1> DEFINE n == HexDistance(x, y)
           Nearer(z) == z \in Cells /\ HexDistance(z, y) = n - 1
<1>1. /\ x = <<x[1], x[2]>> /\ x[1] \in Int /\ x[2] \in Int
      /\ y = <<y[1], y[2]>> /\ y[1] \in Int /\ y[2] \in Int
      /\ x \in Int \X Int /\ y \in Int \X Int
      /\ InStar(k, x[1], x[2]) /\ InStar(k, y[1], y[2])
    BY DEF StarShaped
<1>2. /\ n = 0 <=> x = y
      /\ \A d \in Directions : HexDistance(Beside(x, d), y) \in (n - 1)..(n + 1)
    BY <1>1, DistanceSteps
<1>3. n \in Int /\ Norm(x[1] - y[1], x[2] - y[2], n)
    BY <1>1, DistanceIsNorm
<1>4. ASSUME NEW e \in Int, NEW f \in Int, InStar(k, x[1] + e, x[2] + f),
             Norm(x[1] + e - y[1], x[2] + f - y[2], n - 1)
      PROVE  Nearer(Beside(x, <<e, f>>))
    <2>1. PICK i \in Int, j \in Int : i = x[1] + e /\ j = x[2] + f
        BY <1>1
    <2>2. Beside(x, <<e, f>>) = <<i, j>>
        BY <2>1 DEF Beside
    <2>3. <<i, j>> \in Cells /\ <<i, j>> \in Int \X Int
        BY <1>4, <2>1, StarWithin DEF StarShaped
    <2>4. PICK m \in Int : m = HexDistance(<<i, j>>, y) /\ Norm(i - y[1], j - y[2], m)
        BY <1>1, <2>3, DistanceIsNorm
    <2>5. PICK q \in Int, r \in Int : q = i - y[1] /\ r = j - y[2]
        BY <1>1
    <2>6. x[1] + e - y[1] = q /\ x[2] + f - y[2] = r
        BY <1>1, <2>1, <2>5
    <2> HIDE DEF n
    <2>7. Norm(q, r, n - 1)
        BY <1>4, <2>6, Zenon
    <2>8. Norm(q, r, m)
        BY <2>4, <2>5, Zenon
    <2>9. n - 1 \in Int
        BY <1>3
    <2>10. m = n - 1
        BY <2>7, <2>8, <2>9, NormUnique
    <2>11. QED
        BY <2>2, <2>3, <2>4, <2>10 DEF n
<1>5. ASSUME x # y
      PROVE  \E d \in Directions : Nearer(Beside(x, d))
    <2>1. n # 0
        BY <1>2, <1>5
    <2> HIDE DEF n
    <2>2. PICK e \in Int, f \in Int :
            /\ <<e, f>> \in Directions
            /\ InStar(k, x[1] + e, x[2] + f)
            /\ Norm(x[1] + e - y[1], x[2] + f - y[2], n - 1)
        BY <1>1, <1>3, <2>1, StarSteps
    <2>3. Nearer(Beside(x, <<e, f>>))
        BY <1>4, <2>2
    <2> HIDE DEF Nearer
    <2>4. QED
        BY <2>2, <2>3
<1>6. QED
    BY <1>2, <1>5, NeighborsAre

\* Two cells of the star, whatever its size, are as many steps apart as
\* hex_distance says.
THEOREM DistancesOnStar ==
    ASSUME NEW k \in Nat, StarShaped(k)
    PROVE  GameSpec => []DistanceIsSteps
<1>1. DistanceIsSteps
    BY StarDistances
<1>2. QED
    BY <1>1, PTL

=============================================================================
