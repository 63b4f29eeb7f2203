----------------------------- MODULE MCGoEngine -----------------------------
(***************************************************************************)
(* Positions on a 3 x 3 board, the smallest with a corner, an edge and a   *)
(* centre: the code's 9, 13 and 19 differ from it only in the number of    *)
(* points.  A picture lists the rows from the top.                         *)
(***************************************************************************)
EXTENDS GoEngine

MCStone == [b |-> "black", w |-> "white"]
Picture(rows) ==
    [p \in (0 .. 2) \X (0 .. 2) |->
       LET at == rows[p[2] + 1][p[1] + 1]
       IN  IF at = "-" THEN Empty ELSE MCStone[at]]

\* A ko, a group that surrounds a point of its own, a corner group that one
\* move touches twice, and a position drawn with a stone that has no liberty.
MCInitial == {
    Picture(<< <<"-", "b", "w">>, <<"b", "w", "-">>, <<"-", "b", "w">> >>),
    Picture(<< <<"w", "w", "w">>, <<"w", "-", "w">>, <<"b", "w", "b">> >>),
    Picture(<< <<"w", "w", "b">>, <<"w", "-", "-">>, <<"b", "-", "-">> >>),
    Picture(<< <<"w", "b", "-">>, <<"b", "-", "-">>, <<"w", "w", "-">> >>)}
=============================================================================
