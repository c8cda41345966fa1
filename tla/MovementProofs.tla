--------------------------- MODULE MovementProofs ---------------------------
(***************************************************************************)
(* Proofs about the representation of the board (Grid.tla) and about the   *)
(* generator of the movements (Movement.tla), for any length of the rows,  *)
(* any set of cells that fits and any starting cells: the array and the    *)
(* arithmetic of its indices stand for the board, and the generator lists  *)
(* nothing that validate_movement would refuse.                            *)
(***************************************************************************)
EXTENDS Movement, FiniteSetTheorems, TLAPS

Coordinates == 0..(BoardLength - 1)

\* A product with a larger factor is larger by the other factor at least.
LEMMA Products ==
    ASSUME NEW L \in Nat, NEW a \in Nat, NEW b \in Nat, a < b
    PROVE  a * L + L <= b * L
<1>1. PICK c \in Nat : b = a + 1 + c
    <2>1. b - a - 1 \in Nat /\ b = a + 1 + (b - a - 1)
        OBVIOUS
    <2>2. QED
        BY <2>1
<1>2. b * L = a * L + L + c * L
    BY <1>1
<1>3. c * L \in Nat /\ a * L \in Nat
    OBVIOUS
<1>4. QED
    BY <1>2, <1>3

\* Two indices within the range have different slots, all of the array.
LEMMA Slotted ==
    ASSUME NEW i \in Coordinates, NEW j \in Coordinates
    PROVE  /\ Index(<<i, j>>) \in Slots
           /\ Index(<<i, j>>) \div BoardLength = i
           /\ Index(<<i, j>>) % BoardLength = j
<1> DEFINE L == BoardLength
<1>1. L \in Nat /\ L # 0 /\ i \in Nat /\ j \in Nat /\ i < L /\ j < L
    BY GridAssumption DEF Coordinates
<1>2. i * L \in Nat /\ i * L + L <= L * L /\ L * L \in Nat
    BY <1>1, Products
<1>3. Index(<<i, j>>) = i * L + j
    BY DEF Index
<1>4. (i * L + j) \div L = i /\ (i * L + j) % L = j
    BY <1>1
<1>5. i * L + j \in 0..(L * L - 1)
    BY <1>1, <1>2
<1>6. QED
    BY <1>3, <1>4, <1>5 DEF Slots

\* A cell is its two coordinates, and the only cell of its slot.
LEMMA CellSlot ==
    ASSUME NEW x \in Cells
    PROVE  /\ x = <<x[1], x[2]>> /\ x[1] \in Coordinates /\ x[2] \in Coordinates
           /\ Index(x) \in Slots
           /\ <<Index(x) \div BoardLength, Index(x) % BoardLength>> = x
<1>1. x = <<x[1], x[2]>> /\ x[1] \in Coordinates /\ x[2] \in Coordinates
    BY GridAssumption DEF Coordinates
<1>2. QED
    BY <1>1, Slotted

\* An index within the range whose slot is that of a cell is the cell.
LEMMA SameSlot ==
    ASSUME NEW i \in Coordinates, NEW j \in Coordinates, NEW x \in Cells,
           Index(x) = Index(<<i, j>>)
    PROVE  x = <<i, j>>
BY CellSlot, Slotted

\* What the array of a board holds: the board at the slot of a cell, Outside
\* elsewhere.
LEMMA Held ==
    ASSUME NEW b \in Boards
    PROVE  /\ \A x \in Cells : ToGrid(b)[Index(x)] = b[x]
           /\ \A k \in Slots : (\A x \in Cells : Index(x) # k)
                                => ToGrid(b)[k] = Outside
           /\ \A x \in Cells : b[x] # Outside
<1>1. ASSUME NEW x \in Cells PROVE ToGrid(b)[Index(x)] = b[x]
    <2> DEFINE y == CHOOSE z \in Cells : Index(z) = Index(x)
    <2>1. y \in Cells /\ Index(y) = Index(x)
        OBVIOUS
    <2>2. y = x
        BY <2>1, CellSlot
    <2>3. QED
        BY <2>2, CellSlot DEF ToGrid
<1>2. ASSUME NEW k \in Slots, \A x \in Cells : Index(x) # k
      PROVE  ToGrid(b)[k] = Outside
    BY <1>2 DEF ToGrid
<1>3. ASSUME NEW x \in Cells PROVE b[x] # Outside
    BY GridAssumption DEF Boards
<1>4. QED
    BY <1>1, <1>2, <1>3

\* On every board: from the array, next_nw to next_w find the cells beside a
\* cell, never one across the end of a row, and iter_player_indices finds the
\* cells of the pieces.
THEOREM ArrayIsBoard ==
    ASSUME NEW b \in Boards
    PROVE  Represents(ToGrid(b), b)
<1> DEFINE g == ToGrid(b)
<1>1. ASSUME NEW x \in Cells, NEW d \in Directions
      PROVE  InRange(Beside(x, d)) /\ g[Index(Beside(x, d))] # Outside
                <=> Beside(x, d) \in Cells
    <2> DEFINE i == x[1] + d[1]
               j == x[2] + d[2]
    <2>1. Beside(x, d) = <<i, j>>
        BY DEF Beside
    <2>2. InRange(<<i, j>>) <=> i \in Coordinates /\ j \in Coordinates
        BY DEF InRange, Coordinates
    <2>3. ASSUME <<i, j>> \in Cells
          PROVE  InRange(<<i, j>>) /\ g[Index(<<i, j>>)] # Outside
        <3>1. i \in Coordinates /\ j \in Coordinates
            BY <2>3, GridAssumption DEF Coordinates
        <3>2. QED
            BY <2>2, <2>3, <3>1, Held
    <2>4. ASSUME InRange(<<i, j>>), g[Index(<<i, j>>)] # Outside
          PROVE  <<i, j>> \in Cells
        <3>1. i \in Coordinates /\ j \in Coordinates
            BY <2>2, <2>4
        <3>2. PICK y \in Cells : Index(y) = Index(<<i, j>>)
            BY <2>4, <3>1, Slotted, Held
        <3>3. QED
            BY <3>1, <3>2, SameSlot
    <2>5. QED
        BY <2>1, <2>3, <2>4
<1>2. ASSUME NEW x \in Cells
      PROVE  Neighbors(g, x) = {Beside(x, d) : d \in Directions} \cap Cells
    BY <1>1 DEF Neighbors
<1>3. ASSUME NEW p \in Players
      PROVE  IterPlayerIndices(g, p) = Pieces(b, p)
    <2>1. ASSUME NEW x \in Pieces(b, p) PROVE x \in IterPlayerIndices(g, p)
        <3>1. x \in Cells /\ g[Index(x)] = p /\ Index(x) \in Slots
            BY Held, CellSlot DEF Pieces
        <3>2. x = <<Index(x) \div BoardLength, Index(x) % BoardLength>>
            BY <3>1, CellSlot
        <3>3. QED
            BY <3>1, <3>2 DEF IterPlayerIndices
    <2>2. ASSUME NEW k \in Slots, g[k] = p
          PROVE  <<k \div BoardLength, k % BoardLength>> \in Pieces(b, p)
        <3>1. p # Outside
            BY GridAssumption
        <3>2. PICK x \in Cells : Index(x) = k
            BY <2>2, <3>1, Held
        <3>3. x = <<k \div BoardLength, k % BoardLength>> /\ b[x] = p
            BY <2>2, <3>2, Held, CellSlot
        <3>4. QED
            BY <3>3 DEF Pieces
    <2>3. QED
        BY <2>1, <2>2 DEF IterPlayerIndices
<1>4. QED
    BY <1>2, <1>3 DEF Represents

\* Board::new fills the array with the board of the first turn.
THEOREM ArrayOfNew == NewGrid = ToGrid(NewBoard)
<1>1. NewBoard \in Boards
    BY DEF NewBoard, Boards, Players
<1>2. ASSUME NEW k \in Slots PROVE NewGrid[k] = ToGrid(NewBoard)[k]
    <2>1. CASE \E x \in Cells : Index(x) = k
        <3>1. PICK x \in Cells : Index(x) = k
            BY <2>1
        <3>2. \A y \in Cells : Index(y) = k => y = x
            BY <3>1, CellSlot
        <3>3. \A p \in Players :
                (\E y \in Start(p) : Index(y) = k) <=> x \in Start(p)
            BY <3>1, <3>2, BoardAssumption
        <3>4. NewGrid[k] = IF x \in Start(Player2) THEN Player2
                           ELSE IF x \in Start(Player1) THEN Player1
                           ELSE NoPlayer
            BY <3>1, <3>3 DEF NewGrid, PlacePieces, EmptyGrid, Players
        <3>5. NewGrid[k] = NewBoard[x]
            BY <3>4, BoardAssumption DEF NewBoard
        <3>6. QED
            BY <1>1, <3>1, <3>5, Held
    <2>2. CASE ~ \E x \in Cells : Index(x) = k
        <3>1. \A p \in Players : ~ \E y \in Start(p) : Index(y) = k
            BY <2>2, BoardAssumption
        <3>2. NewGrid[k] = Outside
            BY <2>2, <3>1 DEF NewGrid, PlacePieces, EmptyGrid, Players
        <3>3. QED
            BY <1>1, <2>2, <3>2, Held
    <2>3. QED
        BY <2>1, <2>2
<1>3. QED
    BY <1>2 DEF NewGrid, PlacePieces, ToGrid

\* A movement carried out on the array is the movement on the board: with
\* ArrayOfNew, the reason why the history replays.
THEOREM ArrayMoves ==
    ASSUME NEW b \in Boards, NEW from \in Cells, NEW to \in Cells
    PROVE  GridMove(ToGrid(b), <<from, to>>) = ToGrid(MovePiece(b, from, to))
<1> DEFINE c == MovePiece(b, from, to)
           g == ToGrid(b)
<1>1. c \in Boards
    BY DEF Boards, MovePiece
<1>2. g \in [Slots -> {g[k] : k \in Slots}]
    BY DEF ToGrid
<1>3. Index(from) \in Slots /\ Index(to) \in Slots /\ g[Index(from)] = b[from]
    BY CellSlot, Held
<1>4. ASSUME NEW k \in Slots
      PROVE  GridMove(g, <<from, to>>)[k]
                = IF k = Index(to) THEN b[from]
                  ELSE IF k = Index(from) THEN NoPlayer ELSE g[k]
    BY <1>2, <1>3 DEF GridMove, ToGrid
<1>5. ASSUME NEW x \in Cells
      PROVE  c[x] = IF x = to THEN b[from]
                    ELSE IF x = from THEN NoPlayer ELSE b[x]
    BY DEF Boards, MovePiece
<1>6. ASSUME NEW k \in Slots
      PROVE  GridMove(g, <<from, to>>)[k] = ToGrid(c)[k]
    <2>1. CASE \E x \in Cells : Index(x) = k
        <3>1. PICK x \in Cells : Index(x) = k
            BY <2>1
        <3>2. \A y \in Cells : Index(y) = k => y = x
            BY <3>1, CellSlot
        <3>3. GridMove(g, <<from, to>>)[k] = c[x]
            BY <1>4, <1>5, <3>1, <3>2, Held
        <3>4. QED
            BY <1>1, <3>1, <3>3, Held
    <2>2. CASE ~ \E x \in Cells : Index(x) = k
        BY <1>1, <1>4, <2>2, Held
    <2>3. QED
        BY <2>1, <2>2
<1>7. QED
    BY <1>6 DEF GridMove, ToGrid

----------------------------------------------------------------------------
\* Distances

LEMMA LargestOfThree ==
    ASSUME NEW x \in Int \X Int, NEW y \in Int \X Int
    PROVE  LET a == AbsDiff(x[1], y[1])
               b == AbsDiff(x[2], y[2])
               c == AbsDiff(x[1] + x[2], y[1] + y[2])
               n == HexDistance(x, y)
           IN /\ n \in {a, b, c} /\ a <= n /\ b <= n /\ c <= n
              /\ n \in Nat
<1> DEFINE a == AbsDiff(x[1], y[1])
           b == AbsDiff(x[2], y[2])
           c == AbsDiff(x[1] + x[2], y[1] + y[2])
           Largest(n) == a <= n /\ b <= n /\ c <= n
<1>1. a \in Nat /\ b \in Nat /\ c \in Nat
    BY DEF AbsDiff
<1>2. \E n \in {a, b, c} : Largest(n)
    <2> HIDE DEF a, b, c
    <2>1. QED
        BY <1>1
<1>3. HexDistance(x, y) = CHOOSE n \in {a, b, c} : Largest(n)
    BY DEF HexDistance
<1>4. HexDistance(x, y) \in {a, b, c} /\ Largest(HexDistance(x, y))
    <2> HIDE DEF a, b, c, Largest
    <2>1. QED
        BY <1>2, <1>3
<1>5. QED
    BY <1>1, <1>4

\* n is the largest of the absolute values of q, r and q + r.
Norm(q, r, n) ==
    /\ q <= n /\ -q <= n /\ r <= n /\ -r <= n
    /\ q + r <= n /\ -(q + r) <= n
    /\ n = q \/ n = -q \/ n = r \/ n = -r \/ n = q + r \/ n = -(q + r)

LEMMA DistanceIsNorm ==
    ASSUME NEW x \in Int \X Int, NEW y \in Int \X Int
    PROVE  /\ HexDistance(x, y) \in Int
           /\ Norm(x[1] - y[1], x[2] - y[2], HexDistance(x, y))
<1>1. /\ x[1] \in Int /\ x[2] \in Int /\ y[1] \in Int /\ y[2] \in Int
    OBVIOUS
<1>2. QED
    BY <1>1, LargestOfThree DEF AbsDiff, Norm

LEMMA NormSteps ==
    ASSUME NEW q \in Int, NEW r \in Int, NEW n \in Int, Norm(q, r, n)
    PROVE  /\ n = 0 <=> q = 0 /\ r = 0
           /\ \A d \in Directions : \A m \in Int :
                Norm(q + d[1], r + d[2], m) => m >= n - 1 /\ m <= n + 1
           /\ n # 0 => \E d \in Directions : \A m \in Int :
                Norm(q + d[1], r + d[2], m) => m = n - 1
<1>1. n = 0 <=> q = 0 /\ r = 0
    BY DEF Norm
<1>2. ASSUME NEW d \in Directions, NEW m \in Int, Norm(q + d[1], r + d[2], m)
      PROVE  m >= n - 1 /\ m <= n + 1
    <2>1. d[1] \in -1..1 /\ d[2] \in -1..1 /\ d[1] + d[2] \in -1..1
        BY DEF Directions
    <2>2. QED
        BY <1>2, <2>1 DEF Norm
<1>3. ASSUME n # 0
      PROVE  \E d \in Directions : \A m \in Int :
                Norm(q + d[1], r + d[2], m) => m = n - 1
    <2> DEFINE Shortens(e, f) ==
            \A m \in Int : Norm(q + e, r + f, m) => m = n - 1
    <2>1. \/ Shortens(-1, 0) \/ Shortens(-1, 1) \/ Shortens(0, 1)
          \/ Shortens(1, 0) \/ Shortens(1, -1) \/ Shortens(0, -1)
        <3>1. CASE q > 0 /\ r >= 0
            BY <3>1 DEF Norm
        <3>2. CASE q >= 0 /\ r < 0
            BY <3>2 DEF Norm
        <3>3. CASE q < 0 /\ r <= 0
            BY <3>3 DEF Norm
        <3>4. CASE q <= 0 /\ r > 0
            BY <3>4 DEF Norm
        <3>5. QED
            BY <1>1, <1>3, <3>1, <3>2, <3>3, <3>4
    <2>2. ASSUME NEW e, NEW f, <<e, f>> \in Directions, Shortens(e, f)
          PROVE  \E d \in Directions : \A m \in Int :
                    Norm(q + d[1], r + d[2], m) => m = n - 1
        <3>1. <<e, f>>[1] = e /\ <<e, f>>[2] = f
            OBVIOUS
        <3>2. QED
            BY <2>2, <3>1
    <2>3. /\ <<-1, 0>> \in Directions /\ <<-1, 1>> \in Directions
          /\ <<0, 1>> \in Directions /\ <<1, 0>> \in Directions
          /\ <<1, -1>> \in Directions /\ <<0, -1>> \in Directions
        BY DEF Directions
    <2> HIDE DEF Shortens
    <2>4. QED
        BY <2>1, <2>2, <2>3
<1>4. QED
    BY <1>1, <1>2, <1>3

\* hex_distance counts steps, whatever the cells: it is zero for the cell itself
\* only, a step changes it by one at most, and from any other cell one of the
\* six directions shortens it.  (That the cell in that direction is on the
\* board depends on the shape of the star: DistanceIsSteps.)
THEOREM DistanceSteps ==
    ASSUME NEW x \in Int \X Int, NEW y \in Int \X Int
    PROVE  /\ HexDistance(x, y) = 0 <=> x = y
           /\ \A d \in Directions :
                HexDistance(Beside(x, d), y)
                    \in (HexDistance(x, y) - 1)..(HexDistance(x, y) + 1)
           /\ x # y => \E d \in Directions :
                HexDistance(Beside(x, d), y) = HexDistance(x, y) - 1
<1> DEFINE q == x[1] - y[1]
           r == x[2] - y[2]
           n == HexDistance(x, y)
<1>1. x = <<x[1], x[2]>> /\ y = <<y[1], y[2]>>
      /\ x[1] \in Int /\ x[2] \in Int /\ y[1] \in Int /\ y[2] \in Int
    OBVIOUS
<1>2. q \in Int /\ r \in Int /\ (x = y <=> q = 0 /\ r = 0)
    <2>1. q \in Int /\ r \in Int
        BY <1>1
    <2>2. q = 0 /\ r = 0 => x[1] = y[1] /\ x[2] = y[2]
        BY <1>1
    <2>3. x = y => q = 0 /\ r = 0
        BY <1>1
    <2>4. x[1] = y[1] /\ x[2] = y[2] => x = y
        BY <1>1
    <2> HIDE DEF q, r
    <2>5. QED
        BY <2>1, <2>2, <2>3, <2>4
<1>3. n \in Int /\ Norm(q, r, n)
    BY DistanceIsNorm
<1>4. ASSUME NEW d \in Directions
      PROVE  LET m == HexDistance(Beside(x, d), y)
             IN m \in Int /\ Norm(q + d[1], r + d[2], m)
    <2>1. d[1] \in Int /\ d[2] \in Int
        BY DEF Directions
    <2>2. Beside(x, d) \in Int \X Int
          /\ Beside(x, d)[1] - y[1] = q + d[1]
          /\ Beside(x, d)[2] - y[2] = r + d[2]
        BY <1>1, <2>1 DEF Beside
    <2>3. QED
        BY <2>2, DistanceIsNorm
<1> HIDE DEF q, r, n
<1>5. n = 0 <=> x = y
    BY <1>2, <1>3, NormSteps
<1>6. \A d \in Directions : HexDistance(Beside(x, d), y) \in (n - 1)..(n + 1)
    BY <1>2, <1>3, <1>4, NormSteps
<1>7. x # y => \E d \in Directions : HexDistance(Beside(x, d), y) = n - 1
    BY <1>2, <1>3, <1>4, <1>5, NormSteps
<1>8. QED
    BY <1>5, <1>6, <1>7 DEF n

----------------------------------------------------------------------------
\* Hop paths

\* The naturals are well founded: what induction over data comes from here.
LEMMA LeastNatural ==
    ASSUME NEW T \in SUBSET Nat, T # {}
    PROVE  \E n \in T : \A k \in T : n <= k
<1>1. PICK R : R = OpToRel(<, Nat)
    OBVIOUS
<1>2. R = {ss \in Nat \X Nat : ss[1] < ss[2]}
    BY <1>1 DEF OpToRel
<1>3. IsWellFoundedOn(R, Nat)
    BY <1>1, NatLessThanWellFounded
<1>4. PICK n \in T : \A k \in T : <<k, n>> \notin R
    BY <1>3, WFMin
<1>5. \A k \in T : ~(k < n)
    BY <1>2, <1>4
<1>6. QED
    BY <1>5

\* How many cells are not on the path: it shrinks with every hop.
Rank(q) == Cardinality(Cells \ ToSet(q))

LEMMA Ranked ==
    ASSUME NEW q
    PROVE  /\ IsFiniteSet(Cells \ ToSet(q)) /\ Cardinality(Cells) \in Nat
           /\ Rank(q) \in Nat /\ Rank(q) <= Cardinality(Cells)
<1>1. Cells \ ToSet(q) \subseteq Cells
    OBVIOUS
<1>2. /\ IsFiniteSet(Cells \ ToSet(q))
      /\ Cardinality(Cells \ ToSet(q)) <= Cardinality(Cells)
    BY <1>1, BoardAssumption, FS_Subset
<1>3. Cardinality(Cells \ ToSet(q)) \in Nat /\ Cardinality(Cells) \in Nat
    BY <1>2, BoardAssumption, FS_CardinalityType
<1>4. QED
    BY <1>2, <1>3 DEF Rank

\* What a path is after one more hop.
LEMMA OneHopOn ==
    ASSUME NEW q \in Seq(Cells), NEW y \in Cells
    PROVE  /\ Append(q, y) \in Seq(Cells)
           /\ Append(q, y) # <<>>
           /\ Len(q) \in Nat /\ Len(Append(q, y)) = Len(q) + 1
           /\ \A i \in 1..Len(q) : Append(q, y)[i] = q[i]
           /\ Append(q, y)[Len(q) + 1] = y
           /\ Last(Append(q, y)) = y
           /\ ToSet(Append(q, y)) = ToSet(q) \cup {y}
<1>1. /\ Append(q, y) \in Seq(Cells) /\ Append(q, y) # <<>>
      /\ Len(q) \in Nat /\ Len(Append(q, y)) = Len(q) + 1
      /\ \A i \in 1..Len(q) : Append(q, y)[i] = q[i]
      /\ Append(q, y)[Len(q) + 1] = y
    OBVIOUS
<1>2. Last(Append(q, y)) = y
    BY <1>1 DEF Last
<1>3. /\ ToSet(Append(q, y)) = {Append(q, y)[i] : i \in 1..(Len(q) + 1)}
      /\ ToSet(q) = {q[i] : i \in 1..Len(q)}
    BY <1>1 DEF ToSet
<1>4. ToSet(Append(q, y)) = ToSet(q) \cup {y}
    BY <1>1, <1>3
<1>5. QED
    BY <1>1, <1>2, <1>4

LEMMA LongerRank ==
    ASSUME NEW b, NEW q \in Seq(Cells), NEW r \in Longer(b, q)
    PROVE  r \in Seq(Cells) /\ Rank(r) < Rank(q)
<1>1. PICK y \in AvailableHopsFrom(b, Last(q)) \ ToSet(q) : r = Append(q, y)
    BY DEF Longer
<1>2. y \in Cells
    BY DEF AvailableHopsFrom, CanHop, Empty
<1>3. r \in Seq(Cells) /\ ToSet(r) = ToSet(q) \cup {y}
    BY <1>1, <1>2, OneHopOn
<1>4. Cells \ ToSet(r) = (Cells \ ToSet(q)) \ {y} /\ y \in Cells \ ToSet(q)
    BY <1>1, <1>2, <1>3
<1>5. Rank(r) = Rank(q) - 1
    BY <1>4, Ranked, FS_RemoveElement DEF Rank
<1>6. Rank(q) \in Nat
    BY Ranked
<1>7. QED
    BY <1>3, <1>5, <1>6

\* The paths with fewer cells left than n, and what it is for f to be the
\* function the generator is defined by, on the paths of D.
Below(n) == {q \in Seq(Cells) : Rank(q) < n}

Solves(f, b, D) ==
    \A q \in D : f[q] = Longer(b, q) \cup UNION {f[r] : r \in Longer(b, q)}

\* There is such a function, as the search gets shorter with every hop.
LEMMA SolvedBelow ==
    ASSUME NEW b, NEW n \in Nat
    PROVE  \E f : Solves(f, b, Below(n))
<1> DEFINE T == {m \in Nat : ~ \E f : Solves(f, b, Below(m))}
<1>1. SUFFICES T = {}
    OBVIOUS
<1>2. SUFFICES ASSUME T # {} PROVE FALSE
    OBVIOUS
<1>3. PICK m \in T : \A k \in T : m <= k
    BY <1>2, LeastNatural
<1>4. m # 0
    <2>1. Below(0) = {}
        <3>1. \A q : Rank(q) \in Nat
            BY Ranked
        <3>2. QED
            BY <3>1 DEF Below
    <2>2. QED
        BY <1>3, <2>1 DEF Solves
<1>5. m - 1 \in Nat /\ m - 1 \notin T
    BY <1>3, <1>4
<1>6. PICK f : Solves(f, b, Below(m - 1))
    BY <1>5
<1> DEFINE g == [q \in Below(m) |->
                    IF q \in Below(m - 1) THEN f[q]
                    ELSE Longer(b, q) \cup UNION {f[r] : r \in Longer(b, q)}]
<1>7. ASSUME NEW q \in Below(m)
      PROVE  g[q] = Longer(b, q) \cup UNION {g[r] : r \in Longer(b, q)}
    <2>1. \A r \in Longer(b, q) : r \in Below(m - 1) /\ r \in Below(m)
        <3>1. ASSUME NEW r \in Longer(b, q)
              PROVE  r \in Below(m - 1) /\ r \in Below(m)
            <4>1. r \in Seq(Cells) /\ Rank(r) < Rank(q) /\ Rank(q) < m
                BY LongerRank DEF Below
            <4>2. Rank(r) \in Nat /\ Rank(q) \in Nat /\ m \in Nat
                BY <1>3, Ranked
            <4>3. Rank(r) < m - 1 /\ Rank(r) < m
                BY <4>1, <4>2
            <4>4. QED
                BY <4>1, <4>3 DEF Below
        <3>2. QED
            BY <3>1
    <2>2. \A r \in Longer(b, q) : g[r] = f[r]
        BY <2>1
    <2>3. g[q] = Longer(b, q) \cup UNION {f[r] : r \in Longer(b, q)}
        BY <1>6 DEF Solves
    <2> HIDE DEF g
    <2>4. {g[r] : r \in Longer(b, q)} = {f[r] : r \in Longer(b, q)}
        BY <2>2
    <2>5. QED
        BY <2>3, <2>4
<1>8. Solves(g, b, Below(m))
    BY <1>7 DEF Solves
<1>9. QED
    BY <1>3, <1>8

\* So the generator is what its recursive definition says.
LEMMA Collected ==
    ASSUME NEW b, NEW path \in Seq(Cells)
    PROVE  CollectHopPathsFrom(b, path) = Longer(b, path)
            \cup UNION {CollectHopPathsFrom(b, r) : r \in Longer(b, path)}
<1> DEFINE N == Cardinality(Cells) + 1
           body(f, q) == Longer(b, q) \cup UNION {f[r] : r \in Longer(b, q)}
           c == CHOOSE c : c = [q \in Seq(Cells) |-> Longer(b, q)
                                    \cup UNION {c[r] : r \in Longer(b, q)}]
<1>1. N \in Nat /\ Below(N) = Seq(Cells)
    <2>1. Cardinality(Cells) \in Nat
        BY Ranked
    <2>2. \A q : Rank(q) \in Nat /\ Rank(q) <= Cardinality(Cells)
        BY Ranked
    <2>3. \A q : Rank(q) < N
        BY <2>1, <2>2
    <2>4. QED
        BY <2>1, <2>3 DEF Below
<1>2. PICK f : Solves(f, b, Seq(Cells))
    BY <1>1, SolvedBelow
<1> DEFINE g == [q \in Seq(Cells) |-> f[q]]
<1>3. g = [q \in Seq(Cells) |-> Longer(b, q)
                                    \cup UNION {g[r] : r \in Longer(b, q)}]
    <2>1. ASSUME NEW q \in Seq(Cells)
          PROVE  f[q] = Longer(b, q) \cup UNION {g[r] : r \in Longer(b, q)}
        <3>1. \A r \in Longer(b, q) : g[r] = f[r]
            BY LongerRank
        <3>2. {g[r] : r \in Longer(b, q)} = {f[r] : r \in Longer(b, q)}
            BY <3>1
        <3>3. QED
            BY <1>2, <3>2 DEF Solves
    <2>2. QED
        BY <2>1
<1> HIDE DEF g
<1>4. c = [q \in Seq(Cells) |-> Longer(b, q)
                                    \cup UNION {c[r] : r \in Longer(b, q)}]
    BY <1>3
<1>5. \A q : CollectHopPathsFrom(b, q) = c[q]
    BY DEF CollectHopPathsFrom
<1> HIDE DEF c
<1>6. {CollectHopPathsFrom(b, r) : r \in Longer(b, path)}
        = {c[r] : r \in Longer(b, path)}
    BY <1>5
<1>7. c[path] = Longer(b, path) \cup UNION {c[r] : r \in Longer(b, path)}
    BY <1>4
<1>8. QED
    BY <1>5, <1>6, <1>7

\* Induction along the extension of paths.
LEMMA RankInduction ==
    ASSUME NEW S,
           \A q \in Seq(Cells) :
                (\A r \in Seq(Cells) : Rank(r) < Rank(q) => r \in S) => q \in S
    PROVE  Seq(Cells) \subseteq S
<1> DEFINE T == {n \in Nat : \E q \in Seq(Cells) : q \notin S /\ Rank(q) = n}
<1>1. SUFFICES ASSUME T # {} PROVE FALSE
    BY Ranked
<1>2. PICK n \in T : \A k \in T : n <= k
    BY <1>1, LeastNatural
<1>3. PICK q \in Seq(Cells) : q \notin S /\ Rank(q) = n
    BY <1>2
<1>4. ASSUME NEW r \in Seq(Cells), Rank(r) < Rank(q)
      PROVE  r \in S
    <2>1. Rank(r) \in Nat /\ n \in Nat
        BY <1>2, Ranked
    <2>2. Rank(r) \notin T
        BY <1>2, <1>3, <1>4, <2>1
    <2>3. QED
        BY <2>1, <2>2
<1>5. QED
    BY <1>3, <1>4

\* The paths from a given one on are the least set that holds it and, with a
\* path, every longer one.
Paths(b, q) == {q} \cup CollectHopPathsFrom(b, q)

LEMMA PathsOf ==
    ASSUME NEW b, NEW q \in Seq(Cells)
    PROVE  Paths(b, q) = {q} \cup UNION {Paths(b, r) : r \in Longer(b, q)}
<1>1. CollectHopPathsFrom(b, q) = Longer(b, q)
        \cup UNION {CollectHopPathsFrom(b, r) : r \in Longer(b, q)}
    BY Collected
<1>2. ASSUME NEW x
      PROVE  x \in Paths(b, q) <=>
                x = q \/ \E r \in Longer(b, q) : x \in Paths(b, r)
    BY <1>1 DEF Paths
<1>3. QED
    BY <1>2

LEMMA PathsClosed ==
    ASSUME NEW b, NEW p \in Seq(Cells)
    PROVE  /\ Paths(b, p) \subseteq Seq(Cells)
           /\ \A q \in Paths(b, p) : Longer(b, q) \subseteq Paths(b, p)
<1> DEFINE S == {q \in Seq(Cells) :
                    /\ Paths(b, q) \subseteq Seq(Cells)
                    /\ \A x \in Paths(b, q) : Longer(b, x) \subseteq Paths(b, q)}
<1>1. ASSUME NEW q \in Seq(Cells),
             \A r \in Seq(Cells) : Rank(r) < Rank(q) => r \in S
      PROVE  q \in S
    <2>1. \A r \in Longer(b, q) : r \in S
        BY <1>1, LongerRank
    <2>2. \A x : x \in Paths(b, q) <=>
            x = q \/ \E r \in Longer(b, q) : x \in Paths(b, r)
        BY PathsOf
    <2>3. \A r \in Longer(b, q) : r \in Paths(b, q)
        BY <2>2 DEF Paths
    <2>4. QED
        BY <2>1, <2>2, <2>3
<1> HIDE DEF S
<1>2. Seq(Cells) \subseteq S
    BY <1>1, RankInduction
<1>3. p \in S
    BY <1>2
<1>4. QED
    BY <1>3 DEF S

LEMMA PathsLeast ==
    ASSUME NEW b, NEW p \in Seq(Cells), NEW Q, p \in Q,
           \A q \in Q \cap Seq(Cells) : Longer(b, q) \subseteq Q
    PROVE  Paths(b, p) \subseteq Q
<1> DEFINE S == {q \in Seq(Cells) : q \in Q => Paths(b, q) \subseteq Q}
<1>1. ASSUME NEW q \in Seq(Cells),
             \A r \in Seq(Cells) : Rank(r) < Rank(q) => r \in S
      PROVE  q \in S
    <2>1. \A r \in Longer(b, q) : r \in S
        BY <1>1, LongerRank
    <2>2. \A x : x \in Paths(b, q) <=>
            x = q \/ \E r \in Longer(b, q) : x \in Paths(b, r)
        BY PathsOf
    <2>3. QED
        BY <2>1, <2>2
<1> HIDE DEF S
<1>2. Seq(Cells) \subseteq S
    BY <1>1, RankInduction
<1>3. p \in S
    BY <1>2
<1>4. QED
    BY <1>3 DEF S

\* Any set closed under hops has what the generator collects.
LEMMA CollectedIn ==
    ASSUME NEW b, NEW p \in Seq(Cells), NEW Q, Longer(b, p) \subseteq Q,
           \A q \in Q \cap Seq(Cells) : Longer(b, q) \subseteq Q
    PROVE  CollectHopPathsFrom(b, p) \subseteq Q
<1>1. ASSUME NEW q \in Longer(b, p)
      PROVE  q \in Q /\ CollectHopPathsFrom(b, q) \subseteq Q
    <2>1. q \in Q /\ q \in Seq(Cells)
        BY LongerRank
    <2>2. Paths(b, q) \subseteq Q
        BY <2>1, PathsLeast
    <2>3. QED
        BY <2>1, <2>2 DEF Paths
<1>2. QED
    BY <1>1, Collected

----------------------------------------------------------------------------
\* What the generator lists

LEMMA LongerBy ==
    ASSUME NEW b, NEW q \in Seq(Cells), NEW r \in Longer(b, q)
    PROVE  \E d \in Directions :
             LET y == Beside(Beside(Last(q), d), d) IN
             /\ CanHop(b, Last(q), d) /\ Empty(b, y) /\ y \in Cells
             /\ y \notin ToSet(q) /\ r = Append(q, y)
BY DEF Longer, AvailableHopsFrom, CanHop, Empty

\* Every path of a movement begins at the piece, and all that follows is
\* empty: it is a movement that validate_movement lets pass.
LEMMA MovementFrom ==
    ASSUME NEW b \in Boards, NEW x \in Cells,
           NEW m \in AvailableMovementsFrom(b, x)
    PROVE  /\ m.path \in Seq(Cells) /\ m.path # <<>> /\ Len(m.path) \in Nat
           /\ m.path[1] = x /\ 2 <= Len(m.path)
           /\ \A i \in 2..Len(m.path) : Empty(b, m.path[i])
<1> DEFINE Q == {q \in Seq(Cells) :
                    /\ q # <<>> /\ q[1] = x
                    /\ \A i \in 2..Len(q) : Empty(b, q[i])}
<1>1. ASSUME NEW d \in Directions, Empty(b, Beside(x, d)),
             m.path = <<x, Beside(x, d)>>
      PROVE  m.path \in Q /\ Len(m.path) = 2
    BY <1>1 DEF Empty
<1>2. ASSUME NEW q \in CollectHopPathsFrom(b, <<x>>)
      PROVE  q \in Q /\ 2 <= Len(q)
    <2>1. <<x>> \in Q
        OBVIOUS
    <2>2. ASSUME NEW r \in Q, NEW l \in Longer(b, r)
          PROVE  l \in Q /\ 2 <= Len(l)
        <3>1. PICK y \in Cells : l = Append(r, y) /\ Empty(b, y)
            BY LongerBy
        <3>2. /\ r \in Seq(Cells) /\ r # <<>> /\ Len(r) \in Nat \ {0}
              /\ r[1] = x
            OBVIOUS
        <3>3. /\ l \in Seq(Cells) /\ l # <<>> /\ Len(l) = Len(r) + 1
              /\ \A i \in 1..Len(r) : l[i] = r[i]
              /\ l[Len(r) + 1] = y
            BY <3>1, <3>2, OneHopOn
        <3>4. \A i \in 2..(Len(r) + 1) : i \in 2..Len(r) \/ i = Len(r) + 1
            BY <3>2
        <3>5. \A i \in 2..Len(r) : i \in 1..Len(r) /\ Empty(b, r[i])
            BY <3>2
        <3>6. \A i \in 2..Len(l) : Empty(b, l[i])
            BY <3>1, <3>3, <3>4, <3>5
        <3>7. l[1] = x /\ 2 <= Len(l)
            BY <3>2, <3>3
        <3>8. QED
            BY <3>3, <3>6, <3>7
    <2> HIDE DEF Q
    <2>3. \A l \in Longer(b, <<x>>) : l \in Q /\ 2 <= Len(l)
        BY <2>1, <2>2
    <2> DEFINE R == {r \in Q : 2 <= Len(r)}
    <2>4. /\ Longer(b, <<x>>) \subseteq R
          /\ \A r \in R \cap Seq(Cells) : Longer(b, r) \subseteq R
        BY <2>2, <2>3
    <2> HIDE DEF R
    <2>5. CollectHopPathsFrom(b, <<x>>) \subseteq R
        <3>1. <<x>> \in Seq(Cells)
            OBVIOUS
        <3>2. QED
            BY <2>4, <3>1, CollectedIn
    <2>6. QED
        BY <2>5 DEF R, Q
<1>3. \/ \E d \in Directions : /\ Empty(b, Beside(x, d))
                              /\ m.path = <<x, Beside(x, d)>>
      \/ m.path \in CollectHopPathsFrom(b, <<x>>)
    BY DEF AvailableMovementsFrom
<1> HIDE DEF Q
<1>4. m.path \in Q /\ 2 <= Len(m.path)
    BY <1>1, <1>2, <1>3
<1>5. QED
    BY <1>4 DEF Q

\* Whatever the board, a movement from the generator is one of the player's
\* own pieces to an empty cell, and validate_movement names that player: what
\* apply_movement_unchecked takes for granted of the list.
THEOREM GeneratedMovements ==
    ASSUME NEW b \in Boards, NEW p \in Players, NEW m \in IterPlayerMovements(b, p)
    PROVE  /\ ValidateMovement(b, m) = p
           /\ Indices(m)[1] \in Pieces(b, p)
           /\ Indices(m)[2] \in Pieces(b, NoPlayer)
<1>1. PICK x \in Pieces(b, p) : m \in AvailableMovementsFrom(b, x)
    BY DEF IterPlayerMovements
<1>2. x \in Cells /\ b[x] = p
    BY DEF Pieces
<1>3. /\ m.path \in Seq(Cells) /\ m.path # <<>> /\ Len(m.path) \in Nat
      /\ m.path[1] = x /\ 2 <= Len(m.path)
      /\ \A i \in 2..Len(m.path) : Empty(b, m.path[i])
    BY <1>1, <1>2, MovementFrom
<1>4. ValidateMovement(b, m) = p
    BY <1>2, <1>3 DEF ValidateMovement
<1>5. Len(m.path) \in 2..Len(m.path)
    BY <1>3
<1>6. Empty(b, m.path[Len(m.path)])
    BY <1>3, <1>5
<1>7. QED
    BY <1>1, <1>3, <1>4, <1>6 DEF Indices, Empty, Pieces

=============================================================================
