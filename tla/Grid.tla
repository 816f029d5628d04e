-------------------------------- MODULE Grid --------------------------------
(***************************************************************************)
(* Grids stored in one flat slice, their neighbours and distances, and the *)
(* occupancy map (pkg/components/grid/grid.go), used by one goroutine.     *)
(* The two Euclidean distances are floating point and left out.            *)
(***************************************************************************)
EXTENDS Integers, SequencesExt

CONSTANTS
  MaxWidth, MaxHeight, MaxDepth, \* bounds on the grids that are looked at
  Entities,                      \* non-empty entity IDs
  Free                           \* the empty string

ASSUME GridAssumption ==
  /\ MaxWidth \in Nat /\ MaxHeight \in Nat /\ MaxDepth \in Nat
  /\ Free \notin Entities

VARIABLES
  width, height, depth,
  cells,    \* the slice, from index 0
  placed    \* history: placed[pos]: who should be at pos

gridVars == <<width, height, depth, cells, placed>>

Vec2 == (0..width - 1) \X (0..height - 1)
Vec3 == (0..width - 1) \X (0..height - 1) \X (0..depth - 1)

(* Positions a caller may ask for, those just outside included. *)
Asked == (-1..width) \X (-1..height)

InBounds(pos) == pos[1] >= 0 /\ pos[1] < width /\ pos[2] >= 0 /\ pos[2] < height

Index(pos) == pos[2] * width + pos[1]

Index3(pos) == pos[3] * width * height + pos[2] * width + pos[1]

GridTypeOK ==
  /\ width \in 0..MaxWidth /\ height \in 0..MaxHeight /\ depth \in 0..MaxDepth
  /\ cells \in [0..(width * height) - 1 -> Entities \cup {Free}]
  /\ placed \in [Vec2 -> Entities \cup {Free}]

(* NewOccupancyMap, NewGrid2D, NewGrid3D *)
GridInit ==
  /\ width \in 0..MaxWidth /\ height \in 0..MaxHeight /\ depth \in 0..MaxDepth
  /\ cells = [i \in 0..(width * height) - 1 |-> Free]
  /\ placed = [pos \in Vec2 |-> Free]

Set(pos, val) == cells' = [cells EXCEPT ![Index(pos)] = val]

OccupiedBy(pos) == IF InBounds(pos) THEN cells[Index(pos)] ELSE Free

IsOccupied(pos) == OccupiedBy(pos) # Free

(* Faulty: who is there already is not looked at. *)
OccupyAnyway(pos, e) ==
  /\ IF InBounds(pos) THEN Set(pos, e) ELSE UNCHANGED cells
  /\ placed' = IF InBounds(pos) /\ placed[pos] = Free THEN [placed EXCEPT ![pos] = e] ELSE placed
  /\ UNCHANGED <<width, height, depth>>

(* Out of bounds, or taken: an error. *)
Occupy(pos, e) ==
  /\ IF InBounds(pos) /\ ~IsOccupied(pos) THEN Set(pos, e) ELSE UNCHANGED cells
  /\ placed' = IF InBounds(pos) /\ placed[pos] = Free THEN [placed EXCEPT ![pos] = e] ELSE placed
  /\ UNCHANGED <<width, height, depth>>

(* Out of bounds, or free: an error. *)
Vacate(pos) ==
  /\ IF InBounds(pos) /\ IsOccupied(pos) THEN Set(pos, Free) ELSE UNCHANGED cells
  /\ placed' = IF InBounds(pos) THEN [placed EXCEPT ![pos] = Free] ELSE placed
  /\ UNCHANGED <<width, height, depth>>

GridNext ==
  \/ \E pos \in Asked, e \in Entities : Occupy(pos, e)
  \/ \E pos \in Asked : Vacate(pos)

GridSpec == GridInit /\ [][GridNext]_gridVars

-----------------------------------------------------------------------------
(* A loop over s that appends to its result what is in S. *)
Kept(s, S) ==
  LET kept[n \in 0..Len(s)] ==
        IF n = 0 THEN <<>>
        ELSE IF s[n] \in S THEN Append(kept[n - 1], s[n]) ELSE kept[n - 1]
  IN kept[Len(s)]

(* The two loops, y outside and x inside. *)
AllOccupied ==
  Kept([k \in 1..(width * height) |-> <<(k - 1) % width, (k - 1) \div width>>],
       {pos \in Vec2 : IsOccupied(pos)})

Moved(pos, d) == <<pos[1] + d[1], pos[2] + d[2]>>

Neighbors4(pos) ==
  Kept([k \in 1..4 |-> Moved(pos, << <<0, -1>>, <<0, 1>>, <<-1, 0>>, <<1, 0>> >>[k])], Vec2)

(* Faulty: the centre is a neighbour too. *)
DirectionsWithCentre == [k \in 1..9 |-> <<((k - 1) % 3) - 1, ((k - 1) \div 3) - 1>>]

(* dy outside, dx inside, without the centre *)
Directions8 ==
  Kept([k \in 1..9 |-> <<((k - 1) % 3) - 1, ((k - 1) \div 3) - 1>>],
       ((-1..1) \X (-1..1)) \ {<<0, 0>>})

Neighbors8(pos) == Kept([k \in DOMAIN Directions8 |-> Moved(pos, Directions8[k])], Vec2)

Abs(n) == IF n < 0 THEN -n ELSE n

ManhattanDistance2D(a, b) == Abs(a[1] - b[1]) + Abs(a[2] - b[2])

ManhattanDistance3D(a, b) == ManhattanDistance2D(a, b) + Abs(a[3] - b[3])

ChebyshevDistance2D(a, b) ==
  LET dx == Abs(a[1] - b[1])
      dy == Abs(a[2] - b[2])
  IN IF dx > dy THEN dx ELSE dy

-----------------------------------------------------------------------------
(* The cells that n moves along a neighbour relation reach from pos. *)
Reach(pos, Around(_)) ==
  LET ball[n \in Nat] ==
        IF n = 0 THEN {pos}
        ELSE ball[n - 1] \cup UNION {ToSet(Around(q)) : q \in ball[n - 1]}
  IN [n \in 0..(width + height) |-> ball[n]]

(* The occupancy map is the map from positions to entities that its calls
   describe: an entity stays where it is until it is vacated, and no call touches
   another position.  AllOccupied lists each occupied position once, in row-major
   order. *)
MapIsFaithful ==
  /\ GridTypeOK
  /\ \A pos \in Vec2 : OccupiedBy(pos) = placed[pos]
  /\ ToSet(AllOccupied) = {pos \in Vec2 : placed[pos] # Free}
  /\ \A i, j \in DOMAIN AllOccupied : i < j =>
       \/ AllOccupied[i][2] < AllOccupied[j][2]
       \/ AllOccupied[i][2] = AllOccupied[j][2] /\ AllOccupied[i][1] < AllOccupied[j][1]

(* The distances count moves: Manhattan those to the four neighbours, Chebyshev
   those of a king, to the eight; and no neighbour is listed twice.  In three
   dimensions the Manhattan distance is that of a shortest path too: some cell one
   step away is closer by one. *)
DistancesCountMoves ==
  /\ \A pos \in Vec2 :
       LET rook == Reach(pos, Neighbors4)
           king == Reach(pos, Neighbors8)
       IN /\ Len(Neighbors4(pos)) = Cardinality({q \in Vec2 : ManhattanDistance2D(pos, q) = 1})
          /\ Len(Neighbors8(pos)) = Cardinality({q \in Vec2 : ChebyshevDistance2D(pos, q) = 1})
          /\ \A n \in DOMAIN rook :
               /\ rook[n] = {q \in Vec2 : ManhattanDistance2D(pos, q) <= n}
               /\ king[n] = {q \in Vec2 : ChebyshevDistance2D(pos, q) <= n}
  /\ \A p, q \in Vec3 :
       p # q => \E r \in Vec3 :
         /\ ManhattanDistance3D(p, r) = 1
         /\ ManhattanDistance3D(r, q) = ManhattanDistance3D(p, q) - 1
=============================================================================
