----------------------------- MODULE SeatLayout -----------------------------
(***************************************************************************)
(* What becomes of the provider's seat data: the static layout of the      *)
(* auditorium, and the seats of it that can be booked.  The parsers return *)
(* at the first thing they do not understand, so a body is either refused  *)
(* or used as a whole.                                                     *)
(*                                                                         *)
(* A text that has to be a number is <<n>>, or <<>> when it cannot be      *)
(* parsed.  A row is the sequence of its characters, and a name of which   *)
(* only some words matter is the set of those words.                       *)
(***************************************************************************)
EXTENDS Integers, Sequences, FiniteSets, SequencesExt

IsList(s) == s \in Seq({s[i] : i \in DOMAIN s})

(***************************************************************************)
(* The shape of a decoded body.  The texts zones and blocks are sorted by  *)
(* are represented by integers in the order of the texts.                  *)
(***************************************************************************)
IsAreaList(areas) ==
  IsList(areas) /\ \A j \in DOMAIN areas : areas[j].code \in Int /\ areas[j].name \in Int

IsBody(body) ==
  /\ IsList(body.items)
  /\ \A i \in DOMAIN body.items :
       /\ IsList(body.items[i].seats)
       /\ IsAreaList(body.items[i].zones) /\ IsAreaList(body.items[i].blocks)

Digit == [n \in 0..9 |-> <<"0", "1", "2", "3", "4", "5", "6", "7", "8", "9">>[n + 1]]

Decimal[n \in Nat] == IF n < 10 THEN <<Digit[n]>> ELSE Decimal[n \div 10] \o <<Digit[n % 10]>>

\* strings.ToUpper, on the letters of the instances.
Upper(character) == IF character = "a" THEN "A" ELSE character

-----------------------------------------------------------------------------
(***************************************************************************)
(* Coordinates, normalised to the board.  A normalised value is a fraction *)
(* <<numerator, denominator>>; twice is the coordinate, doubled so that    *)
(* the middle of two is a whole number.                                    *)
(***************************************************************************)
ValidBoard(board) ==
  /\ \A v \in {board.x0, board.x1, board.y0, board.y1} : v # <<>>
  /\ board.x0[1] < board.x1[1] /\ board.y0[1] < board.y1[1]

OnBoard(twice, low, high) == 2 * low <= twice /\ twice <= 2 * high

normalizeSeatAxis(twice, low, high) == <<twice - 2 * low, 2 * (high - low)>>

\* center: the two ends need not be on the board, their middle does.
ValidCenter(start, end, low, high) ==
  /\ start # <<>> /\ end # <<>>
  /\ start[1] <= end[1]
  /\ OnBoard(start[1] + end[1], low[1], high[1])

Center(start, end, low, high) == normalizeSeatAxis(start[1] + end[1], low[1], high[1])

\* bounds, of a zone or a block: here both ends have to be on the board.
ValidBounds(area, board) ==
  /\ \A v \in {area.x0, area.x1, area.y0, area.y1} : v # <<>>
  /\ \A v \in {area.x0, area.x1} : OnBoard(2 * v[1], board.x0[1], board.x1[1])
  /\ \A v \in {area.y0, area.y1} : OnBoard(2 * v[1], board.y0[1], board.y1[1])
  /\ area.x0[1] <= area.x1[1] /\ area.y0[1] <= area.y1[1]

Bounds(area, board) ==
  <<normalizeSeatAxis(2 * area.x0[1], board.x0[1], board.x1[1]),
    normalizeSeatAxis(2 * area.x1[1], board.x0[1], board.x1[1]),
    normalizeSeatAxis(2 * area.y0[1], board.y0[1], board.y1[1]),
    normalizeSeatAxis(2 * area.y1[1], board.y0[1], board.y1[1])>>

-----------------------------------------------------------------------------
(***************************************************************************)
(* Seats.                                                                  *)
(***************************************************************************)
ValidLabel(seat) == seat.number # <<>> /\ seat.number[1] >= 1 /\ seat.row # <<>>

\* The row and the number are put side by side: A1 and 2 make what A and 12 do.
normalizedSeatLabel(seat) ==
  [i \in DOMAIN seat.row |-> Upper(seat.row[i])] \o Decimal[seat.number[1]]

SeatID(auditorium, label) == <<auditorium, label>>

\* The words are looked for in this order, in both names together.
SeatTypes ==
  <<"wheelchair", "companion", "couple", "bed", "recliner", "premium", "prime", "motion">>

seatMapSeatType(kindName, saleFormName) ==
  LET hits == {i \in DOMAIN SeatTypes : SeatTypes[i] \in kindName \cup saleFormName}
  IN  IF hits = {} THEN "standard" ELSE SeatTypes[Min(hits)]

SaleFormName(item, code) == IF code \in DOMAIN item.forms THEN item.forms[code] ELSE {}

seatMapFeatures(seat, saleFormName) ==
  UNION {IF seat.zone = "" THEN {} ELSE {<<"zone", seat.zone>>},
         IF saleFormName = {} THEN {} ELSE {<<"sale-form", saleFormName>>},
         IF seat.left THEN {<<"left-aisle">>} ELSE {},
         IF seat.right THEN {<<"right-aisle">>} ELSE {},
         IF "removable" \in saleFormName THEN {<<"wheelchair-area">>, <<"removable">>} ELSE {}}

Seat(item, seat, auditorium) ==
  LET label == normalizedSeatLabel(seat)
      form == SaleFormName(item, seat.form)
  IN  [id |-> SeatID(auditorium, label), label |-> label,
       x |-> Center(seat.x0, seat.x1, item.board.x0, item.board.x1),
       y |-> Center(seat.y0, seat.y1, item.board.y0, item.board.y1),
       type |-> seatMapSeatType(seat.kind, form), form |-> seat.form,
       features |-> seatMapFeatures(seat, form)]

-----------------------------------------------------------------------------
(***************************************************************************)
(* The layout.                                                             *)
(***************************************************************************)

\* Where the seats of a body stand: <<item, place in its list>>.
Places(body) ==
  UNION {{<<i, j>> : j \in DOMAIN body.items[i].seats} : i \in DOMAIN body.items}

SeatAt(body, p) == body.items[p[1]].seats[p[2]]

LabelsClashByField(body) ==
  \E p, q \in Places(body) :
    /\ p # q
    /\ SeatAt(body, p).row = SeatAt(body, q).row
    /\ SeatAt(body, p).number = SeatAt(body, q).number

LabelsClash(body) ==
  \E p, q \in Places(body) :
    p # q /\ normalizedSeatLabel(SeatAt(body, p)) = normalizedSeatLabel(SeatAt(body, q))

ValidItem(item) ==
  /\ ValidBoard(item.board)
  /\ \A j \in DOMAIN item.seats :
       LET seat == item.seats[j] IN
         /\ ValidLabel(seat)
         /\ ValidCenter(seat.x0, seat.x1, item.board.x0, item.board.x1)
         /\ ValidCenter(seat.y0, seat.y1, item.board.y0, item.board.y1)
  /\ \A j \in DOMAIN item.zones :
       /\ item.zones[j].capacity # <<>> => item.zones[j].capacity[1] >= 0
       /\ ValidBounds(item.zones[j], item.board)
  /\ \A j \in DOMAIN item.blocks : ValidBounds(item.blocks[j], item.board)

LayoutAccepted(body) ==
  /\ body.status = 0
  /\ \A i \in DOMAIN body.items : ValidItem(body.items[i])
  /\ Places(body) # {}
  /\ ~LabelsClash(body)

InOrderOfCode(left, right) == left.code < right.code

\* Zones and blocks are sorted by code and name.
InOrder(left, right) ==
  left.code < right.code \/ (left.code = right.code /\ left.name < right.name)

\* Which of two places was appended to the layout first.
Earlier(p, q) == p[1] < q[1] \/ (p[1] = q[1] /\ p[2] < q[2])

(***************************************************************************)
(* sort.Slice: the k-th is the one that k - 1 others come before.  Equals  *)
(* stay in the order they were appended in, as they do in lists as short   *)
(* as these.                                                               *)
(***************************************************************************)
ComesBefore(f, p, q) == InOrder(f[p], f[q]) \/ (~InOrder(f[q], f[p]) /\ Earlier(p, q))

Sorted(f) ==
  [k \in 1..Cardinality(DOMAIN f) |->
     f[CHOOSE p \in DOMAIN f : Cardinality({q \in DOMAIN f : ComesBefore(f, q, p)}) = k - 1]]

\* The zones or the blocks of a body, by the places they stand at.  Their kinds
\* and capacities go with them and are left out.
AreasAt(items, lists) ==
  [p \in UNION {{<<i, j>> : j \in DOMAIN lists[i]} : i \in DOMAIN lists} |->
     LET area == lists[p[1]][p[2]]
     IN  [code |-> area.code, name |-> area.name, bounds |-> Bounds(area, items[p[1]].board)]]

Zones(body) == AreasAt(body.items, [i \in DOMAIN body.items |-> body.items[i].zones])
Blocks(body) == AreasAt(body.items, [i \in DOMAIN body.items |-> body.items[i].blocks])

\* The seats are sorted by their labels, which are distinct: a set says as much.
parseSeatMapLayout(body, auditorium) ==
  [seats |-> {Seat(body.items[p[1]], SeatAt(body, p), auditorium) : p \in Places(body)},
   zones |-> Sorted(Zones(body)), blocks |-> Sorted(Blocks(body))]

-----------------------------------------------------------------------------
(***************************************************************************)
(* To compare layouts: a body with all its lists the other way round, and  *)
(* lists in which equal codes and names mean the same zone or block.       *)
(***************************************************************************)
Backwards(body) ==
  LET items == Reverse(body.items)
  IN  [status |-> body.status,
       items |-> [i \in DOMAIN items |->
                    [board |-> items[i].board, forms |-> items[i].forms,
                     seats |-> Reverse(items[i].seats), zones |-> Reverse(items[i].zones),
                     blocks |-> Reverse(items[i].blocks)]]]

ToldApart(f) ==
  \A p, q \in DOMAIN f : f[p].code = f[q].code /\ f[p].name = f[q].name => f[p] = f[q]

-----------------------------------------------------------------------------
(***************************************************************************)
(* Availability, from the body the layout was made of.                     *)
(***************************************************************************)
validSeatStatusCode(code) == code \in {"00", "01", "03", "04"}

AvailabilityAccepted(body, auditorium, layout) ==
  LET ids == {SeatID(auditorium, normalizedSeatLabel(SeatAt(body, p))) : p \in Places(body)}
  IN  /\ body.status = 0 /\ body.items # <<>>
      /\ ~LabelsClash(body)
      /\ ids = {seat.id : seat \in layout.seats}
      /\ \A p \in Places(body) :
           /\ SeatAt(body, p).sale \in {"Y", "N"}
           /\ validSeatStatusCode(SeatAt(body, p).code)

parseSeatAvailability(body, auditorium) ==
  {SeatID(auditorium, normalizedSeatLabel(SeatAt(body, p))) :
     p \in {q \in Places(body) : SeatAt(body, q).sale = "Y" /\ SeatAt(body, q).code = "00"}}
=============================================================================
