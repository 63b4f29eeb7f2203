------------------------------ MODULE GoEngine ------------------------------
(***************************************************************************)
(* playMove of server/src/mission/go-engine.ts: the flood fill that finds  *)
(* a group, captures made one neighbour at a time, the suicide test and    *)
(* the ko test.  The board map of the code is a function from points, the  *)
(* hash of a position is the position.                                     *)
(***************************************************************************)
EXTENDS GoRules, Sequences, FiniteSets

CONSTANT MaxCaptures  \* bound: no move is made once so many stones are captured

VARIABLE captures  \* prisoners of each colour

vars == <<board, previous, captures>>

InBounds(p) == p[1] >= 0 /\ p[1] < Size /\ p[2] >= 0 /\ p[2] < Size

\* In the order the code visits them: left, right, up, down; a loop over them
\* skips those off the board.
Neighbors(p) == << <<p[1] - 1, p[2]>>, <<p[1] + 1, p[2]>>,
                   <<p[1], p[2] - 1>>, <<p[1], p[2] + 1>> >>
Beside(p) == {Neighbors(p)[i] : i \in {i \in 1 .. 4 : InBounds(Neighbors(p)[i])}}

\* The stack of the flood fill is queue, taken from its end.
Start(p) == [queue |-> <<p>>, seen |-> {}]

\* A turn of its loop, on a stack that is not empty.
Turn(b, color, state) ==
    LET queue == state.queue
        point == queue[Len(queue)]
        rest == SubSeq(queue, 1, Len(queue) - 1)
        seen == state.seen \cup {point}
        Push(stack, n) ==
            IF InBounds(n) /\ b[n] = color /\ n \notin seen THEN Append(stack, n) ELSE stack
        around == Neighbors(point)
    IN  IF point \in state.seen THEN [queue |-> rest, seen |-> state.seen]
        ELSE [queue |-> Push(Push(Push(Push(rest, around[1]), around[2]), around[3]), around[4]),
              seen |-> seen]

Loop(b, color, state) == IF state.queue = <<>> THEN state ELSE Turn(b, color, state)

\* The loop after n turns, if it makes so many: every point is seen once and
\* pushes at most four others.
Enough == 5 * Cardinality(Points) + 1
Flood(b, color, start) ==
    LET fill[n \in Nat] ==
            IF n = 0 THEN Start(start) ELSE Loop(b, color, fill[n - 1])
    IN  fill[Enough].seen

Liberties(b, stones) == {n \in DOMAIN b : b[n] = Empty /\ \E s \in stones : n \in Beside(s)}

\* Variant: only the stones next to the start are visited.
CollectShallow(b, start) ==
    LET stones == {start} \cup {n \in Beside(start) : b[n] = b[start]}
    IN  [stones |-> stones, liberties |-> Liberties(b, stones)]

CollectGroup(b, start) ==
    LET stones == Flood(b, b[start], start)
    IN  [stones |-> stones, liberties |-> Liberties(b, stones)]

Lift(b, stones) == [q \in DOMAIN b |-> IF q \in stones THEN Empty ELSE b[q]]

\* Variant: the stones are taken off after every neighbour was counted.
CaptureAfterwards(b, p) ==
    LET Hit(n) == InBounds(n) /\ b[n] = Opposite(b[p]) /\ CollectGroup(b, n).liberties = {}
        Stones(n) == IF Hit(n) THEN CollectGroup(b, n).stones ELSE {}
        taken == [i \in 1 .. 4 |-> Stones(Neighbors(p)[i])]
    IN  [board |-> Lift(b, UNION {taken[i] : i \in 1 .. 4}),
         count |-> Cardinality(taken[1]) + Cardinality(taken[2]) + Cardinality(taken[3])
                     + Cardinality(taken[4])]

\* A turn of the loop over the neighbours; count is capturedStones.length.
Take(taken, color, n) ==
    LET group == CollectGroup(taken.board, n)
    IN  IF InBounds(n) /\ taken.board[n] = color /\ group.liberties = {}
        THEN [board |-> Lift(taken.board, group.stones),
              count |-> taken.count + Cardinality(group.stones)]
        ELSE taken

Capture(b, p) ==
    LET Visit(taken, i) == Take(taken, Opposite(b[p]), Neighbors(p)[i])
    IN  Visit(Visit(Visit(Visit([board |-> b, count |-> 0], 1), 2), 3), 4)

Refused(reason) == [ok |-> FALSE, reason |-> reason]
Accepted(captured) ==
    [ok |-> TRUE, reason |-> "none", board |-> captured.board, count |-> captured.count]

\* Variant: the stone's own group is not examined.
PlayMoveSuicidal(b, prev, c, p) ==
    IF ~InBounds(p) THEN Refused("out_of_bounds")
    ELSE IF b[p] # Empty THEN Refused("occupied")
    ELSE LET captured == Capture([b EXCEPT ![p] = c], p)
         IN  IF captured.board = prev THEN Refused("ko") ELSE Accepted(captured)

\* Variant: the position is compared with the current one, not the previous.
PlayMoveNoKo(b, prev, c, p) ==
    IF ~InBounds(p) THEN Refused("out_of_bounds")
    ELSE IF b[p] # Empty THEN Refused("occupied")
    ELSE LET captured == Capture([b EXCEPT ![p] = c], p)
         IN  IF CollectGroup(captured.board, p).liberties = {} THEN Refused("suicide")
             ELSE IF captured.board = b THEN Refused("ko") ELSE Accepted(captured)

PlayMove(b, prev, c, p) ==
    IF ~InBounds(p) THEN Refused("out_of_bounds")
    ELSE IF b[p] # Empty THEN Refused("occupied")
    ELSE LET captured == Capture([b EXCEPT ![p] = c], p)
         IN  IF CollectGroup(captured.board, p).liberties = {} THEN Refused("suicide")
             ELSE IF captured.board = prev THEN Refused("ko") ELSE Accepted(captured)

Init ==
    /\ board \in Initial
    /\ previous = None
    /\ captures = [c \in Colors |-> 0]

Play(c, p) ==
    LET move == PlayMove(board, previous, c, p)
    IN  /\ move.ok
        /\ captures["black"] + captures["white"] < MaxCaptures
        /\ board' = move.board
        /\ previous' = board
        /\ captures' = [captures EXCEPT ![c] = @ + move.count]

Next == \E c \in Colors, p \in Points : Play(c, p)
Spec == Init /\ [][Next]_vars

-----------------------------------------------------------------------------

\* Every accepted move of the engine is a move of the rules: what it takes
\* off, what it leaves and what it refuses to repeat.
RulesFollowed == RulesSpec

\* What the rules say of a move, in the order the code gives its reasons.
Verdict(c, p) ==
    IF p \notin Points THEN "out_of_bounds"
    ELSE IF board[p] # Empty THEN "occupied"
    ELSE LET after == After(c, p)
         IN  IF ~Breathes(after, p) THEN "suicide"
             ELSE IF after = previous THEN "ko" ELSE "none"

\* At every position the engine refuses exactly the moves the rules refuse,
\* for the reason they do, the points next to the board included.
ReasonsAgree ==
    \A c \in Colors, p \in (-1 .. Size) \X (-1 .. Size) :
        PlayMove(board, previous, c, p).reason = Verdict(c, p)

StonesOf(b, c) == Cardinality({p \in DOMAIN b : b[p] = c})

\* A move adds one stone of its colour, and the prisoners counted for that
\* colour are exactly the opposing stones that left the board, a group that
\* touches the move at several points counted once.
PrisonersBalance ==
    [][\E c \in Colors :
         /\ StonesOf(board', c) = StonesOf(board, c) + 1
         /\ StonesOf(board', Opposite(c)) + captures'[c]
              = StonesOf(board, Opposite(c)) + captures[c]
         /\ captures'[Opposite(c)] = captures[Opposite(c)]]_vars
=============================================================================
