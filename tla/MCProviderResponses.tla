------------------------ MODULE MCProviderResponses ------------------------
(***************************************************************************)
(* Two theaters, one of them with a linked venue and two auditoriums whose *)
(* names are alike; a theater without showtimes on the first date; and     *)
(* seat data that is whole, incomplete or misleading.                      *)
(***************************************************************************)
EXTENDS ProviderResponses

Row(site, date, auditorium, bookable, named) ==
  [site |-> site, date |-> date, auditorium |-> auditorium, start |-> 10,
   bookable |-> bookable, named |-> named]

MCRows == {Row("s1", "d2", "1", TRUE, FALSE),
           Row("s2", "d1", "1", FALSE, TRUE), Row("s2", "d1", "11", TRUE, TRUE),
           Row("p2", "d1", "1", TRUE, TRUE), Row("s2", "d2", "1", TRUE, TRUE)}

MCLinked == [s \in Theaters |-> IF s = "s2" THEN {"p2"} ELSE {}]
MCWithin == [a \in {"1", "11"} |-> IF a = "1" THEN {"1", "11"} ELSE {"11"}]
MCDateList == [s \in Theaters |-> IF s = "s2" THEN <<"d1", "d2">> ELSE <<"d2">>]

MCBoard == [x0 |-> <<0>>, x1 |-> <<10>>, y0 |-> <<0>>, y1 |-> <<10>>]

SourceSeat(row, number, sale, code) ==
  [row |-> row, number |-> number, kind |-> {"prime"}, zone |-> "", form |-> 1,
   sale |-> sale, code |-> code, x0 |-> <<1>>, x1 |-> <<2>>, y0 |-> <<1>>, y1 |-> <<2>>,
   left |-> TRUE, right |-> FALSE]

Area(code, name, capacity) ==
  [code |-> code, name |-> name, capacity |-> capacity,
   x0 |-> <<0>>, x1 |-> <<5>>, y0 |-> <<0>>, y1 |-> <<5>>]

Item(seatList, zoneList) ==
  [board |-> MCBoard, forms |-> <<{"removable", "wheelchair"}>>, zones |-> zoneList,
   blocks |-> <<Area(1, 1, <<>>)>>, seats |-> seatList]

Body(items) == [status |-> 0, items |-> items]

A1 == SourceSeat(<<"A">>, <<1>>, "Y", "00")
B2 == SourceSeat(<<"B">>, <<2>>, "N", "01")

MCSeatBodies ==
  <<Body(<<Item(<<A1>>, <<Area(2, 1, <<>>), Area(1, 2, <<3>>)>>), Item(<<B2>>, <<Area(1, 1, <<>>)>>)>>),
    Body(<<Item(<<SourceSeat(<<"A", "1">>, <<2>>, "Y", "00"),
                  SourceSeat(<<"a">>, <<12>>, "N", "01")>>, <<>>)>>),
    Body(<<Item(<<A1, SourceSeat(<<"B">>, <<2>>, "N", "")>>, <<>>)>>),
    Body(<<Item(<<SourceSeat(<<"A">>, <<0>>, "Y", "00")>>, <<>>)>>),
    Body(<<Item(<<[A1 EXCEPT !.x0 = <<8>>, !.x1 = <<20>>]>>, <<>>)>>),
    Body(<<>>)>>
=============================================================================
