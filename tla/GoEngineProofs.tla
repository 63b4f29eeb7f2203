--------------------------- MODULE GoEngineProofs ---------------------------
(***************************************************************************)
(* For a board of every size and every starting position: a move of the    *)
(* rules leaves no stone without a liberty that was not so before, and the *)
(* engine plays by the rules, its flood fill finding exactly the groups.   *)
(***************************************************************************)
EXTENDS GoEngine, FiniteSetTheorems, TLAPS

-----------------------------------------------------------------------------
(* Groups. *)

\* Stones lying on the board's points touch both ways.
LEMMA AroundSymmetric ==
    ASSUME NEW p \in Points, NEW q \in Around[p]
    PROVE  q \in Points /\ p \in Around[q]
BY GoAssumption DEF Around, Touches, Points

\* A stone belongs to its group, which is of one colour and closed.
LEMMA GroupIsGroup ==
    ASSUME NEW b \in Boards, NEW p \in Points
    PROVE  /\ p \in Group(b, p)
           /\ Group(b, p) \subseteq Points
           /\ \A q \in Group(b, p) : b[q] = b[p]
           /\ Closed(b, Group(b, p))
<1> DEFINE like == {q \in Points : b[q] = b[p]}
<1>1. like \in ClosedAt(b, p)
  BY AroundSymmetric DEF ClosedAt, Closed, Around
<1>2. p \in Group(b, p) /\ Group(b, p) \subseteq Points
  BY DEF Group, ClosedAt
<1>3. \A q \in Group(b, p) : b[q] = b[p]
  BY <1>1 DEF Group
<1>4. ASSUME NEW s \in Group(b, p), NEW q \in Around[s], b[q] = b[s]
      PROVE  q \in Group(b, p)
  <2>1. q \in Points
    BY <1>2, AroundSymmetric
  <2>2. ASSUME NEW S \in ClosedAt(b, p)
        PROVE  q \in S
    <3>1. s \in S /\ Closed(b, S)
      BY DEF Group, ClosedAt
    <3> QED
      BY <3>1, <1>4 DEF Closed
  <2> QED
    BY <2>1, <2>2 DEF Group
<1>5. Closed(b, Group(b, p))
  BY <1>4 DEF Closed
<1> QED
  BY <1>2, <1>3, <1>5

\* It is the least closed set of stones of its colour that holds the stone.
LEMMA GroupIsLeast ==
    ASSUME NEW b \in Boards, NEW p \in Points, NEW S \in SUBSET Points,
           p \in S, Closed(b, S), \A q \in S : b[q] = b[p]
    PROVE  Group(b, p) \subseteq S
<1>1. S \in ClosedAt(b, p)
  BY DEF ClosedAt
<1> QED
  BY <1>1 DEF Group

\* A stone is dead as soon as some closed set of its colour around it is.
LEMMA DeadInside ==
    ASSUME NEW b \in Boards, NEW p \in Points, NEW S \in SUBSET Points,
           p \in S, Closed(b, S), \A q \in S : b[q] = b[p],
           ~HasLiberty(b, S)
    PROVE  ~Breathes(b, p)
<1>1. Group(b, p) \subseteq S
  BY GroupIsLeast
<1> QED
  BY <1>1 DEF Breathes, HasLiberty

-----------------------------------------------------------------------------
(* One move. *)

\* The position a move leads to: the stone stands, only opposing stones are
\* gone, and nothing else changed.
LEMMA AfterMove ==
    ASSUME board \in Boards, NEW c \in Colors, NEW p \in Points, board[p] = Empty
    PROVE  /\ After(c, p) \in Boards
           /\ Placed(c, p) \in Boards
           /\ After(c, p)[p] = c
           /\ \A q \in Points \ {p} :
                \/ After(c, p)[q] = board[q]
                \/ After(c, p)[q] = Empty /\ board[q] = Opposite(c)
           /\ \A q \in Captured(Placed(c, p), p) : After(c, p)[q] = Empty
           /\ \A q \in Points : Placed(c, p)[q] = IF q = p THEN c ELSE board[q]
<1> DEFINE placed == Placed(c, p)
           taken == Captured(placed, p)
<1>1. placed \in Boards /\ \A q \in Points : placed[q] = IF q = p THEN c ELSE board[q]
  BY DEF Placed, Boards
<1>2. Opposite(c) # c /\ Opposite(c) \in Colors /\ c # Empty
  BY GoAssumption DEF Opposite, Colors
<1>3. ASSUME NEW q \in taken
      PROVE  q \in Points /\ placed[q] = Opposite(c)
  <2>1. PICK n \in Around[p] : placed[n] = Opposite(placed[p]) /\ q \in Group(placed, n)
    BY DEF Captured
  <2>2. n \in Points
    BY AroundSymmetric
  <2> QED
    BY <1>1, <2>1, <2>2, GroupIsGroup
<1>4. \A q \in Points : After(c, p)[q] = IF q \in taken THEN Empty ELSE placed[q]
  BY DEF After, Without
<1>5. After(c, p) \in Boards
  <2>1. \A q \in Points : (IF q \in taken THEN Empty ELSE placed[q]) \in Colors \cup {Empty}
    BY <1>1 DEF Boards
  <2> QED
    BY <2>1 DEF After, Without, Boards
<1> QED
  BY <1>1, <1>2, <1>3, <1>4, <1>5

\* The opponent's stones that stay have a liberty, if they had one before.
LEMMA OpponentBreathes ==
    ASSUME board \in Boards, NEW c \in Colors, NEW p \in Points, board[p] = Empty,
           NEW q \in Points, After(c, p)[q] = Opposite(c), ~Breathes(After(c, p), q)
    PROVE  ~Breathes(board, q)
<1> DEFINE after == After(c, p)
           placed == Placed(c, p)
           S == Group(after, q)
<1>1. /\ after \in Boards /\ placed \in Boards
      /\ after[p] = c
      /\ \A r \in Points \ {p} :
           \/ after[r] = board[r]
           \/ after[r] = Empty /\ board[r] = Opposite(c)
      /\ \A r \in Captured(placed, p) : after[r] = Empty
      /\ \A r \in Points : placed[r] = IF r = p THEN c ELSE board[r]
  BY AfterMove
<1>2. Opposite(c) # c /\ Opposite(c) # Empty /\ c # Empty /\ Opposite(c) \in Colors
  BY GoAssumption DEF Opposite, Colors
<1>3. /\ q \in S /\ S \subseteq Points /\ Closed(after, S)
      /\ \A r \in S : after[r] = Opposite(c)
  BY <1>1, GroupIsGroup
<1>4. \A s \in S : \A r \in Around[s] : r \in Points /\ after[r] # Empty
  BY <1>3, AroundSymmetric DEF Breathes, HasLiberty
<1>5. \A r \in S : r # p /\ board[r] = Opposite(c) /\ placed[r] = Opposite(c)
  BY <1>1, <1>2, <1>3
<1>6. Closed(board, S) /\ Closed(placed, S)
  <2>1. ASSUME NEW s \in S, NEW r \in Around[s],
               board[r] = Opposite(c) \/ placed[r] = Opposite(c)
        PROVE  r \in S
    <3>1. after[r] = Opposite(c)
      BY <1>1, <1>2, <1>4, <2>1
    <3> QED
      BY <1>3, <3>1 DEF Closed
  <2> QED
    BY <1>5, <2>1 DEF Closed
<1>7. ~HasLiberty(placed, S)
  BY <1>1, <1>2, <1>4 DEF HasLiberty
<1>8. p \notin UNION {Around[s] : s \in S}
  <2>1. SUFFICES ASSUME NEW s \in S, p \in Around[s]
                 PROVE  FALSE
    OBVIOUS
  <2>2. s \in Around[p] /\ s \in Points
    BY <2>1, <1>3, AroundSymmetric
  <2>3. ~Breathes(placed, s)
    BY <1>1, <1>3, <1>5, <1>6, <1>7, <2>2, DeadInside
  <2>4. s \in Group(placed, s)
    BY <1>1, <2>2, GroupIsGroup
  <2>5. s \in Captured(placed, p)
    BY <1>1, <1>5, <2>2, <2>3, <2>4 DEF Captured
  <2> QED
    BY <1>1, <1>2, <1>3, <2>5
<1>9. ~HasLiberty(board, S)
  BY <1>1, <1>4, <1>8 DEF HasLiberty
<1> QED
  BY <1>3, <1>5, <1>6, <1>9, DeadInside

\* The mover's stones have a liberty after the move, if they had one before.
LEMMA MoverBreathes ==
    ASSUME board \in Boards, NEW c \in Colors, NEW p \in Points, board[p] = Empty,
           Breathes(After(c, p), p),
           NEW q \in Points, After(c, p)[q] = c, ~Breathes(After(c, p), q)
    PROVE  board[q] = c /\ ~Breathes(board, q)
<1> DEFINE after == After(c, p)
           S == Group(after, q)
<1>1. /\ after \in Boards
      /\ after[p] = c
      /\ \A r \in Points \ {p} :
           \/ after[r] = board[r]
           \/ after[r] = Empty /\ board[r] = Opposite(c)
  BY AfterMove
<1>2. Opposite(c) # c /\ c # Empty
  BY GoAssumption DEF Opposite, Colors
<1>3. /\ q \in S /\ S \subseteq Points /\ Closed(after, S)
      /\ \A r \in S : after[r] = c
  BY <1>1, GroupIsGroup
<1>4. \A s \in S : \A r \in Around[s] : r \in Points /\ after[r] # Empty
  BY <1>3, AroundSymmetric DEF Breathes, HasLiberty
<1>5. ~HasLiberty(after, S)
  BY DEF Breathes
<1>6. p \notin S
  BY <1>1, <1>3, <1>5, DeadInside
<1>7. \A r \in S : board[r] = c
  BY <1>1, <1>2, <1>3, <1>6
<1>8. \A s \in S : p \notin Around[s]
  BY <1>1, <1>3, <1>6 DEF Closed
<1>9. \A s \in S : \A r \in Around[s] : after[r] = board[r] \/ board[r] = Opposite(c)
  BY <1>1, <1>4, <1>8
<1>10. Closed(board, S)
  BY <1>2, <1>3, <1>7, <1>9 DEF Closed
<1>11. ~HasLiberty(board, S)
  <2>1. Opposite(c) # Empty
    BY GoAssumption DEF Opposite, Colors
  <2> QED
    BY <1>4, <1>9, <2>1 DEF HasLiberty
<1> QED
  BY <1>3, <1>7, <1>10, <1>11, DeadInside

-----------------------------------------------------------------------------

\* Captures and suicide: a stone that is dead after a move was dead before.
LEMMA MoveKillsNothingNew ==
    ASSUME board \in Boards, NEW c \in Colors, NEW p \in Points, LegalMove(c, p)
    PROVE  Dead(board') \subseteq Dead(board)
<1>1. /\ board[p] = Empty /\ Breathes(After(c, p), p) /\ board' = After(c, p)
  BY DEF LegalMove
<1>2. SUFFICES ASSUME NEW q \in Points, After(c, p)[q] \in Colors,
                      ~Breathes(After(c, p), q)
               PROVE  board[q] \in Colors /\ ~Breathes(board, q)
  BY <1>1 DEF Dead
<1>3. CASE After(c, p)[q] = c
  BY <1>1, <1>2, <1>3, MoverBreathes
<1>4. CASE After(c, p)[q] = Opposite(c)
  <2>1. Opposite(c) # c /\ Opposite(c) # Empty /\ Opposite(c) \in Colors
    BY GoAssumption DEF Opposite, Colors
  <2>2. board[q] = Opposite(c)
    BY <1>1, <1>4, <2>1, AfterMove
  <2> QED
    BY <1>1, <1>2, <1>4, <2>1, <2>2, OpponentBreathes
<1> QED
  BY <1>2, <1>3, <1>4 DEF Opposite, Colors

\* A move leaves a board.
LEMMA RulesStepTyped ==
    ASSUME RulesTypeOK, [RulesNext]_ruleVars
    PROVE  RulesTypeOK'
<1>1. CASE UNCHANGED ruleVars
  BY <1>1 DEF RulesTypeOK, ruleVars
<1>2. ASSUME NEW c \in Colors, NEW p \in Points, LegalMove(c, p)
      PROVE  RulesTypeOK'
  BY <1>2, AfterMove DEF LegalMove, RulesTypeOK
<1> QED
  BY <1>1, <1>2 DEF RulesNext

\* A board stays a board, and so does the position kept for the ko test.
THEOREM RulesTypeCorrect == RulesSpec => []RulesTypeOK
<1>1. RulesInit => RulesTypeOK
  BY GoAssumption DEF RulesInit, RulesTypeOK
<1>2. RulesTypeOK /\ [RulesNext]_ruleVars => RulesTypeOK'
  BY RulesStepTyped
<1> QED
  BY <1>1, <1>2, PTL DEF RulesSpec

\* On a board of every size and from every starting position, no move leaves
\* a stone without a liberty that was not so before.
THEOREM NothingDies == RulesSpec => NothingNewDies
<1>1. RulesTypeOK /\ [RulesNext]_ruleVars => [Dead(board') \subseteq Dead(board)]_ruleVars
  BY MoveKillsNothingNew DEF RulesNext, RulesTypeOK
<1> QED
  BY <1>1, RulesTypeCorrect, PTL DEF RulesSpec, NothingNewDies

-----------------------------------------------------------------------------
(* Induction over the turns of a loop, with sets for the properties.         *)

\* Every set of natural numbers has a least element.
LEMMA LeastNumber ==
    ASSUME NEW T \in SUBSET Nat, T # {}
    PROVE  \E m \in T : \A k \in T : m <= k
<1> DEFINE Below == {0 .. (n - 1) : n \in T}
<1>1. IsWellFoundedOn(StrictSubsetOrdering(Nat), FiniteSubsetsOf(Nat))
  BY FS_StrictSubsetOrderingWellFounded
<1>2. Below \subseteq FiniteSubsetsOf(Nat) /\ Below # {}
  <2>1. \A n \in Nat : IsFiniteSet(0 .. (n - 1))
    BY FS_Interval
  <2>2. \A n \in Nat : 0 .. (n - 1) \in SUBSET Nat
    OBVIOUS
  <2> QED
    BY <2>1, <2>2 DEF FiniteSubsetsOf
<1> HIDE DEF Below
<1>3. PICK x \in Below : \A y \in Below : ~(<<y, x>> \in StrictSubsetOrdering(Nat))
  BY <1>1, <1>2, WFMin
<1> USE DEF Below
<1>4. PICK m \in T : x = 0 .. (m - 1)
  OBVIOUS
<1>5. ASSUME NEW k \in T, k < m PROVE FALSE
  <2>1. 0 .. (k - 1) \subseteq 0 .. (m - 1) /\ 0 .. (k - 1) # 0 .. (m - 1)
    <3>1. k \in 0 .. (m - 1) /\ k \notin 0 .. (k - 1)
      BY <1>5
    <3> QED
      BY <1>5, <3>1
  <2>2. 0 .. (k - 1) \in SUBSET Nat /\ 0 .. (m - 1) \in SUBSET Nat
    OBVIOUS
  <2>3. <<0 .. (k - 1), 0 .. (m - 1)>> \in StrictSubsetOrdering(Nat)
    BY <2>1, <2>2 DEF StrictSubsetOrdering
  <2> QED
    BY <1>3, <1>4, <2>3
<1> QED
  BY <1>5

\* Induction, for a set of numbers.
LEMMA Induction ==
    ASSUME NEW T \in SUBSET Nat, 0 \in T, \A n \in T : n + 1 \in T
    PROVE  T = Nat
<1>1. CASE Nat \ T # {}
  <2>1. PICK m \in Nat \ T : \A k \in Nat \ T : m <= k
    BY <1>1, LeastNumber
  <2>2. m # 0 /\ m - 1 \in Nat
    BY <2>1
  <2>3. m - 1 \in T
    BY <2>1, <2>2
  <2>4. (m - 1) + 1 = m
    OBVIOUS
  <2> QED
    BY <2>1, <2>3, <2>4
<1> QED
  BY <1>1

\* A function applied over and over: the n-th result is a function of n.
LEMMA Iterates ==
    ASSUME NEW S, NEW s0 \in S, NEW g \in [S -> S]
    PROVE  \E f \in [Nat -> S] : f[0] = s0 /\ \A n \in Nat : f[n + 1] = g[f[n]]
<1> DEFINE Runs(n) == {f \in [0 .. n -> S] :
                         f[0] = s0 /\ \A i \in 0 .. (n - 1) : f[i + 1] = g[f[i]]}
           Long == {n \in Nat : Runs(n) # {}}
<1>1. Long = Nat
  <2>1. 0 \in Long
    <3>1. [i \in 0 .. 0 |-> s0] \in Runs(0)
      OBVIOUS
    <3> QED
      BY <3>1
  <2>2. ASSUME NEW n \in Long PROVE n + 1 \in Long
    <3>1. PICK f \in [0 .. n -> S] :
            f[0] = s0 /\ \A i \in 0 .. (n - 1) : f[i + 1] = g[f[i]]
      OBVIOUS
    <3> DEFINE h == [i \in 0 .. (n + 1) |-> IF i = n + 1 THEN g[f[n]] ELSE f[i]]
    <3>2. h \in [0 .. (n + 1) -> S]
      BY <3>1
    <3>3. h[0] = s0
      BY <3>1
    <3>4. ASSUME NEW i \in 0 .. ((n + 1) - 1) PROVE h[i + 1] = g[h[i]]
      BY <3>1
    <3>5. h \in Runs(n + 1)
      BY <3>2, <3>3, <3>4
    <3> QED
      BY SMTT(60), <3>5
  <2> HIDE DEF Long
  <2>3. Long \subseteq Nat
    BY DEF Long
  <2> QED
    BY <2>1, <2>2, <2>3, Induction
<1>2. ASSUME NEW n \in Nat, NEW f \in Runs(n), NEW h \in Runs(n + 1)
      PROVE  f[n] = h[n]
  <2> DEFINE Same == {i \in Nat : i <= n => f[i] = h[i]}
  <2>1. 0 \in Same
    OBVIOUS
  <2>2. ASSUME NEW i \in Same PROVE i + 1 \in Same
    <3>1. CASE i + 1 <= n
      <4>1. i \in 0 .. (n - 1) /\ i \in 0 .. ((n + 1) - 1) /\ f[i] = h[i]
        BY <3>1
      <4>2. f[i + 1] = g[f[i]] /\ h[i + 1] = g[h[i]]
        BY <4>1
      <4> QED
        BY <4>1, <4>2
    <3> QED
      BY <3>1
  <2> HIDE DEF Same
  <2>3. Same = Nat
    <3>1. Same \subseteq Nat
      BY DEF Same
    <3> QED
      BY <2>1, <2>2, <3>1, Induction
  <2> QED
    BY <2>3 DEF Same
<1> DEFINE run == [n \in Nat |-> CHOOSE f \in Runs(n) : TRUE]
           last == [n \in Nat |-> run[n][n]]
<1>3. \A n \in Nat : run[n] \in Runs(n)
  BY <1>1
<1> HIDE DEF run
<1>4. last \in [Nat -> S]
  BY <1>3
<1>5. last[0] = s0
  BY <1>3
<1>6. ASSUME NEW n \in Nat PROVE last[n + 1] = g[last[n]]
  <2>1. run[n + 1][n + 1] = g[run[n + 1][n]]
    <3>1. run[n + 1] \in Runs(n + 1) /\ n \in 0 .. ((n + 1) - 1)
      BY <1>3
    <3> QED
      BY <3>1
  <2>2. run[n][n] = run[n + 1][n]
    <3>1. run[n] \in Runs(n) /\ run[n + 1] \in Runs(n + 1)
      BY <1>3
    <3> HIDE DEF Runs
    <3> QED
      BY <1>2, <3>1
  <2> QED
    BY <2>1, <2>2
<1> QED
  BY <1>4, <1>5, <1>6

-----------------------------------------------------------------------------
(* The flood fill. *)

\* The loop's states: a stack of points and the points seen.
FloodStates == [queue : Seq(Points), seen : SUBSET Points]

\* The points on the stack.
Pending(queue) == {queue[i] : i \in 1 .. Len(queue)}


\* A board has finitely many points.
LEMMA BoardFacts == IsFiniteSet(Points) /\ Cardinality(Points) \in Nat /\ Enough \in Nat
<1>1. IsFiniteSet(0 .. (Size - 1))
  BY GoAssumption, FS_Interval
<1>2. IsFiniteSet(Points)
  BY <1>1, FS_Product DEF Points
<1>3. Cardinality(Points) \in Nat
  BY <1>2, FS_CardinalityType
<1> QED
  BY <1>2, <1>3 DEF Enough

\* Points beside a point are those the rules call around it.
LEMMA BesideIsAround ==
    ASSUME NEW p \in Points
    PROVE  /\ Beside(p) = Around[p]
           /\ \A n \in Around[p] : \E i \in 1 .. 4 : n = Neighbors(p)[i] /\ InBounds(n)
           /\ \A i \in 1 .. 4 : /\ InBounds(Neighbors(p)[i]) <=> Neighbors(p)[i] \in Points
                                /\ InBounds(Neighbors(p)[i]) => Neighbors(p)[i] \in Around[p]
<1>1. PICK x \in 0 .. (Size - 1), y \in 0 .. (Size - 1) : p = <<x, y>>
  BY DEF Points
<1>2. Neighbors(p) = << <<x - 1, y>>, <<x + 1, y>>, <<x, y - 1>>, <<x, y + 1>> >>
  BY <1>1 DEF Neighbors
<1>3. \A i \in 1 .. 4 : /\ InBounds(Neighbors(p)[i]) <=> Neighbors(p)[i] \in Points
                        /\ InBounds(Neighbors(p)[i]) => Neighbors(p)[i] \in Around[p]
  <2>1. ASSUME NEW n, n \in { <<x - 1, y>>, <<x + 1, y>>, <<x, y - 1>>, <<x, y + 1>> }
        PROVE  /\ InBounds(n) <=> n \in Points
               /\ InBounds(n) => n \in Around[p]
    BY <1>1, <2>1, GoAssumption DEF InBounds, Points, Around, Touches
  <2>2. \A i \in 1 .. 4 : Neighbors(p)[i]
                             \in { <<x - 1, y>>, <<x + 1, y>>, <<x, y - 1>>, <<x, y + 1>> }
    BY <1>2
  <2> QED
    BY <2>1, <2>2
<1>4. ASSUME NEW n \in Around[p]
      PROVE  \E i \in 1 .. 4 : n = Neighbors(p)[i] /\ InBounds(n)
  <2>1. PICK u \in 0 .. (Size - 1), v \in 0 .. (Size - 1) : n = <<u, v>> /\ Touches(p, n)
    BY DEF Around, Points
  <2>2. n \in { <<x - 1, y>>, <<x + 1, y>>, <<x, y - 1>>, <<x, y + 1>> }
    BY <1>1, <2>1, GoAssumption DEF Touches
  <2>3. InBounds(n)
    BY <2>1, GoAssumption DEF InBounds
  <2> QED
    BY <1>2, <2>2, <2>3
<1>5. Beside(p) = Around[p]
  BY <1>3, <1>4 DEF Beside
<1> QED
  BY <1>3, <1>4, <1>5

\* The recursive function of the model is the loop, turn after turn.
LEMMA FloodRuns ==
    ASSUME NEW b, NEW color, NEW start \in Points,
           \A s \in FloodStates : Loop(b, color, s) \in FloodStates
    PROVE  \E f \in [Nat -> FloodStates] :
             /\ f[0] = Start(start)
             /\ \A n \in Nat : f[n + 1] = Loop(b, color, f[n])
             /\ Flood(b, color, start) = f[Enough].seen
<1> DEFINE fill[n \in Nat] ==
             IF n = 0 THEN Start(start) ELSE Loop(b, color, fill[n - 1])
           g == [s \in FloodStates |-> Loop(b, color, s)]
<1>1. Start(start) \in FloodStates /\ g \in [FloodStates -> FloodStates]
  BY DEF Start, FloodStates
<1> HIDE DEF g, fill
<1>2. PICK f \in [Nat -> FloodStates] :
        f[0] = Start(start) /\ \A n \in Nat : f[n + 1] = g[f[n]]
  BY SMTT(60), <1>1, Iterates
<1> USE DEF g, fill
<1>3. f = [n \in Nat |-> IF n = 0 THEN Start(start) ELSE Loop(b, color, f[n - 1])]
  <2>1. ASSUME NEW n \in Nat, n # 0 PROVE f[n] = Loop(b, color, f[n - 1])
    <3>1. n - 1 \in Nat /\ (n - 1) + 1 = n
      BY <2>1
    <3> QED
      BY <1>2, <3>1
  <2> QED
    BY <1>2, <2>1
<1>4. fill = [n \in Nat |-> IF n = 0 THEN Start(start) ELSE Loop(b, color, fill[n - 1])]
  <2>1. \E h : h = [n \in Nat |-> IF n = 0 THEN Start(start) ELSE Loop(b, color, h[n - 1])]
    BY <1>3
  <2> QED
    BY <2>1, Zenon
<1>5. Flood(b, color, start) = fill[Enough].seen
  BY DEF Flood
<1> HIDE DEF fill
<1>6. \A n \in Nat : fill[n] = f[n]
  <2> DEFINE Same == {n \in Nat : fill[n] = f[n]}
  <2>1. 0 \in Same
    BY <1>3, <1>4
  <2>2. ASSUME NEW n \in Same PROVE n + 1 \in Same
    <3>1. n \in Nat /\ n + 1 \in Nat /\ n + 1 # 0 /\ (n + 1) - 1 = n /\ fill[n] = f[n]
      OBVIOUS
    <3> QED
      BY <1>3, <1>4, <3>1
  <2> HIDE DEF Same
  <2>3. Same = Nat
    <3>1. Same \subseteq Nat
      BY DEF Same
    <3> QED
      BY <2>1, <2>2, <3>1, Induction
  <2> QED
    BY <2>3 DEF Same
<1>7. Enough \in Nat
  BY BoardFacts DEF Enough
<1>8. \A n \in Nat : f[n + 1] = Loop(b, color, f[n])
  BY <1>2
<1> QED
  BY <1>2, <1>5, <1>6, <1>7, <1>8

\* What is on the stack after a push.
LEMMA PushFacts ==
    ASSUME NEW q \in Seq(Points), NEW n \in Points
    PROVE  /\ Append(q, n) \in Seq(Points) /\ Len(Append(q, n)) = Len(q) + 1
           /\ Pending(Append(q, n)) = Pending(q) \cup {n}
<1> DEFINE r == Append(q, n)
<1>1. /\ r \in Seq(Points) /\ Len(r) = Len(q) + 1 /\ r[Len(q) + 1] = n
      /\ Len(q) \in Nat /\ \A i \in 1 .. Len(q) : r[i] = q[i]
  OBVIOUS
<1>2. Pending(r) = Pending(q) \cup {n}
  <2> HIDE DEF r
  <2> QED
    BY <1>1 DEF Pending
<1> QED
  BY <1>1, <1>2

\* What is left on it after a pop, and the point popped.
LEMMA PopFacts ==
    ASSUME NEW q \in Seq(Points), q # <<>>,
           NEW r, r = SubSeq(q, 1, Len(q) - 1)
    PROVE  /\ r \in Seq(Points) /\ Len(r) = Len(q) - 1 /\ q[Len(q)] \in Points
           /\ Pending(r) \cup {q[Len(q)]} = Pending(q)
           /\ Len(q) \in Nat \ {0}
<1>1. Len(q) \in Nat \ {0} /\ q[Len(q)] \in Points
  OBVIOUS
<1>2. r = [i \in 1 .. (Len(q) - 1) |-> q[i]]
  BY <1>1 DEF SubSeq
<1>3. r \in Seq(Points) /\ Len(r) = Len(q) - 1 /\ \A i \in 1 .. (Len(q) - 1) : r[i] = q[i]
  <2>1. PICK k \in Nat : k = Len(q) - 1
    BY <1>1
  <2>2. \A i \in 1 .. k : q[i] \in Points
    BY <1>1, <2>1
  <2>3. r \in [1 .. k -> Points]
    BY <1>2, <2>1, <2>2
  <2>4. r \in Seq(Points) /\ Len(r) = k
    BY <2>3
  <2> QED
    BY <1>2, <2>1, <2>4
<1>4. Pending(r) \cup {q[Len(q)]} = Pending(q)
  BY <1>1, <1>3 DEF Pending
<1> QED
  BY <1>1, <1>3, <1>4

\* t is s with point taken off the stack, and, the first time the point is
\* seen, with the stones of the colour around it pushed that are not yet.
Turned(b, color, s, t, point, rest) ==
    /\ rest \cup {point} = Pending(s.queue)
    /\ t \in FloodStates
    /\ point \in s.seen =>
         /\ t.seen = s.seen
         /\ Pending(t.queue) = rest
         /\ Len(t.queue) = Len(s.queue) - 1
    /\ point \notin s.seen =>
         /\ t.seen = s.seen \cup {point}
         /\ Pending(t.queue)
              = rest \cup {n \in Around[point] : b[n] = color /\ n \notin s.seen \cup {point}}
         /\ Len(t.queue) <= Len(s.queue) + 3

\* That is what a turn does.
LEMMA TurnFacts ==
    ASSUME NEW b \in Boards, NEW color, NEW s \in FloodStates, s.queue # <<>>
    PROVE  \E point \in Points, rest \in SUBSET Points :
             Turned(b, color, s, Turn(b, color, s), point, rest)
<1>1. PICK q \in Seq(Points), old \in SUBSET Points : q = s.queue /\ old = s.seen
  BY DEF FloodStates
<1>2. PICK rest : rest = SubSeq(q, 1, Len(q) - 1)
  OBVIOUS
<1>3. PICK point : point = q[Len(q)]
  OBVIOUS
<1>4. /\ rest \in Seq(Points) /\ Len(rest) = Len(q) - 1 /\ point \in Points
      /\ Pending(rest) \cup {point} = Pending(q) /\ Len(q) \in Nat \ {0}
  BY <1>1, <1>2, <1>3, PopFacts
<1>5. PICK left \in SUBSET Points : left = Pending(rest)
  <2>1. \A i \in 1 .. Len(rest) : rest[i] \in Points
    BY <1>4
  <2>2. Pending(rest) \subseteq Points
    BY <2>1 DEF Pending
  <2> QED
    BY <2>2
<1>6. PICK t : t = Turn(b, color, s)
  OBVIOUS
<1> DEFINE seen == old \cup {point}
           Wanted(n) == InBounds(n) /\ b[n] = color /\ n \notin seen
           Push(stack, n) == IF Wanted(n) THEN Append(stack, n) ELSE stack
           around == Neighbors(point)
           stack1 == Push(rest, around[1])
           stack2 == Push(stack1, around[2])
           stack3 == Push(stack2, around[3])
           stack4 == Push(stack3, around[4])
<1>7. CASE point \in old
  <2>1. t = [queue |-> rest, seen |-> old]
    BY <1>1, <1>2, <1>3, <1>6, <1>7 DEF Turn
  <2>2. t \in FloodStates /\ t.seen = old /\ t.queue = rest
    BY <1>4, <2>1 DEF FloodStates
  <2> QED
    BY ZenonT(60), <1>1, <1>3, <1>4, <1>5, <1>6, <1>7, <2>2 DEF Turned
<1>8. CASE point \notin old
  <2>1. t = [queue |-> stack4, seen |-> seen]
    BY ZenonT(60), <1>1, <1>2, <1>3, <1>6, <1>8 DEF Turn
  <2>2. \A i \in 1 .. 4 : Wanted(around[i]) => around[i] \in Points
    BY <1>4, BesideIsAround
  <2> HIDE DEF Wanted, around
  <2>3. ASSUME NEW stack \in Seq(Points), NEW i \in 1 .. 4
        PROVE  /\ Push(stack, around[i]) \in Seq(Points)
               /\ Len(Push(stack, around[i])) <= Len(stack) + 1
               /\ Pending(Push(stack, around[i]))
                    = Pending(stack) \cup {x \in {around[i]} : Wanted(x)}
    <3>1. Len(stack) \in Nat
      OBVIOUS
    <3>2. CASE Wanted(around[i])
      <4>1. around[i] \in Points /\ Push(stack, around[i]) = Append(stack, around[i])
        BY <2>2, <3>2
      <4> QED
        BY <3>1, <3>2, <4>1, PushFacts
    <3>3. CASE ~Wanted(around[i])
      <4>1. Push(stack, around[i]) = stack
        BY <3>3
      <4> QED
        BY <3>1, <3>3, <4>1
    <3> QED
      BY <3>2, <3>3
  <2> HIDE DEF Push
  <2>4. /\ stack1 \in Seq(Points) /\ Len(stack1) <= Len(rest) + 1
        /\ Pending(stack1) = Pending(rest) \cup {x \in {around[1]} : Wanted(x)}
    BY <1>4, <2>3
  <2>5. /\ stack2 \in Seq(Points) /\ Len(stack2) <= Len(stack1) + 1
        /\ Pending(stack2) = Pending(stack1) \cup {x \in {around[2]} : Wanted(x)}
    <3> HIDE DEF stack1
    <3> QED
      BY <2>3, <2>4
  <2>6. /\ stack3 \in Seq(Points) /\ Len(stack3) <= Len(stack2) + 1
        /\ Pending(stack3) = Pending(stack2) \cup {x \in {around[3]} : Wanted(x)}
    <3> HIDE DEF stack2
    <3> QED
      BY <2>3, <2>5
  <2>7. /\ stack4 \in Seq(Points) /\ Len(stack4) <= Len(stack3) + 1
        /\ Pending(stack4) = Pending(stack3) \cup {x \in {around[4]} : Wanted(x)}
    <3> HIDE DEF stack3
    <3> QED
      BY <2>3, <2>6
  <2> HIDE DEF stack1, stack2, stack3, stack4
  <2>8. Len(stack4) <= Len(rest) + 4
    <3>1. /\ Len(stack1) \in Nat /\ Len(stack2) \in Nat /\ Len(stack3) \in Nat
          /\ Len(stack4) \in Nat /\ Len(rest) \in Nat
      BY <1>4, <2>4, <2>5, <2>6, <2>7
    <3> QED
      BY <2>4, <2>5, <2>6, <2>7, <3>1
  <2>9. Pending(stack4) = left
          \cup {n \in {around[1], around[2], around[3], around[4]} : Wanted(n)}
    BY <1>5, <2>4, <2>5, <2>6, <2>7
  <2>10. {n \in {around[1], around[2], around[3], around[4]} : Wanted(n)}
          = {n \in Around[point] : b[n] = color /\ n \notin seen}
    <3>1. ASSUME NEW n \in {around[1], around[2], around[3], around[4]}, Wanted(n)
          PROVE  n \in Around[point] /\ b[n] = color /\ n \notin seen
      <4>1. PICK i \in 1 .. 4 : n = around[i]
        BY <3>1
      <4> QED
        BY <1>4, <3>1, <4>1, BesideIsAround DEF Wanted, around
    <3>2. ASSUME NEW n \in Around[point], b[n] = color, n \notin seen
          PROVE  n \in {around[1], around[2], around[3], around[4]} /\ Wanted(n)
      <4>1. PICK i \in 1 .. 4 : n = around[i] /\ InBounds(n)
        BY <1>4, BesideIsAround DEF around
      <4>2. i = 1 \/ i = 2 \/ i = 3 \/ i = 4
        OBVIOUS
      <4> QED
        BY <3>2, <4>1, <4>2 DEF Wanted
    <3> QED
      BY <3>1, <3>2
  <2>11. t.queue = stack4 /\ t.seen = seen /\ t \in FloodStates
    BY <1>1, <1>4, <2>1, <2>7 DEF FloodStates
  <2>12. Pending(t.queue) = left \cup {n \in Around[point] : b[n] = color /\ n \notin seen}
    BY <2>9, <2>10, <2>11
  <2>13. Len(t.queue) <= Len(s.queue) + 3
    BY <1>1, <1>4, <2>8, <2>11
  <2> HIDE DEF stack4, seen
  <2>14. Turned(b, color, s, t, point, left)
    BY <1>1, <1>3, <1>4, <1>5, <1>8, <2>11, <2>12, <2>13 DEF seen, Turned
  <2> QED
    BY <1>4, <1>6, <2>14
<1> QED
  BY <1>1, <1>7, <1>8

\* The loop stays among its states.
LEMMA LoopFacts ==
    ASSUME NEW b \in Boards, NEW color, NEW s \in FloodStates
    PROVE  Loop(b, color, s) \in FloodStates
BY TurnFacts DEF Loop, Turned

\* The points seen or on the stack.
Reached(s) == s.seen \cup Pending(s.queue)

\* What holds of the loop's state after n turns, for the stone at p: it holds
\* points of the group only, what is beside a seen stone is seen or will be,
\* and the turns left are enough for what is on the stack and not seen.
Filling(b, p, n, s) ==
    /\ Reached(s) \subseteq Group(b, p)
    /\ p \in Reached(s)
    /\ \A q \in s.seen : \A r \in Around[q] : b[r] = b[p] => r \in Reached(s)
    /\ \/ s.queue = <<>>
       \/ Len(s.queue) + 5 * (Cardinality(Points) - Cardinality(s.seen)) + n <= Enough

\* Its first state.
LEMMA FillingStart ==
    ASSUME NEW b \in Boards, NEW p \in Points
    PROVE  Filling(b, p, 0, Start(p))
<1>1. PICK s : s = Start(p)
  OBVIOUS
<1>2. s.seen = {} /\ s.queue = <<p>> /\ Len(s.queue) = 1 /\ Pending(s.queue) = {p}
  BY <1>1 DEF Start, Pending
<1>3. Reached(s) = {p}
  BY <1>2 DEF Reached
<1>4. PICK N \in Nat : N = Cardinality(Points)
  BY BoardFacts
<1>5. Cardinality(s.seen) = 0
  BY <1>2, FS_EmptySet
<1>6. Len(s.queue) + 5 * (Cardinality(Points) - Cardinality(s.seen)) + 0 <= Enough
  BY <1>2, <1>4, <1>5 DEF Enough
<1>7. p \in Group(b, p)
  BY GroupIsGroup
<1> QED
  BY <1>1, <1>2, <1>3, <1>6, <1>7 DEF Filling

\* Every turn keeps it.
LEMMA FillingStep ==
    ASSUME NEW b \in Boards, NEW p \in Points, NEW turn \in Nat, NEW s \in FloodStates,
           Filling(b, p, turn, s)
    PROVE  Filling(b, p, turn + 1, Loop(b, b[p], s))
<1>1. CASE s.queue = <<>>
  BY <1>1 DEF Loop, Filling
<1>2. CASE s.queue # <<>>
  <2>1. PICK t, color : t = Turn(b, color, s) /\ color = b[p]
    OBVIOUS
  <2>2. PICK point \in Points, rest \in SUBSET Points : Turned(b, color, s, t, point, rest)
    BY <1>2, <2>1, TurnFacts
  <2>3. PICK N \in Nat, k \in Nat, l \in Nat, m \in Nat :
          N = Cardinality(Points) /\ k = Cardinality(s.seen)
          /\ l = Len(s.queue) /\ m = Len(t.queue)
    <3>1. s.seen \in SUBSET Points /\ s.queue \in Seq(Points) /\ t.queue \in Seq(Points)
      BY <2>2 DEF FloodStates, Turned
    <3>2. Cardinality(s.seen) \in Nat
      BY <3>1, BoardFacts, FS_Subset, FS_CardinalityType
    <3> QED
      BY <3>1, <3>2, BoardFacts
  <2>4. l + 5 * (N - k) + turn <= 5 * N + 1
    BY <1>2, <2>3 DEF Filling, Enough
  <2>5. point \in Group(b, p)
    BY <2>2 DEF Filling, Reached, Turned
  <2>6. CASE point \in s.seen
    <3>1. t.seen = s.seen /\ Pending(t.queue) = rest /\ m = l - 1
      BY <2>2, <2>3, <2>6 DEF Turned
    <3>2. Reached(t) = Reached(s)
      BY <2>2, <2>6, <3>1 DEF Reached, Turned
    <3>3. m + 5 * (N - k) + (turn + 1) <= 5 * N + 1
      BY <2>4, <3>1
    <3>4. Len(t.queue) + 5 * (Cardinality(Points) - Cardinality(t.seen)) + (turn + 1) <= Enough
      BY <2>3, <3>1, <3>3 DEF Enough
    <3>5. Filling(b, p, turn + 1, t)
      BY <3>1, <3>2, <3>4 DEF Filling
    <3> QED
      BY <1>2, <2>1, <3>5 DEF Loop
  <2>7. CASE point \notin s.seen
    <3> DEFINE new == {n \in Around[point] : b[n] = color /\ n \notin s.seen \cup {point}}
    <3>1. t.seen = s.seen \cup {point} /\ Pending(t.queue) = rest \cup new /\ m <= l + 3
      BY <2>2, <2>3, <2>7 DEF Turned
    <3>2. Reached(t) = Reached(s) \cup new
      BY <2>2, <3>1 DEF Reached, Turned
    <3>3. new \subseteq Group(b, p)
      <4>1. b[point] = b[p] /\ Closed(b, Group(b, p))
        BY <2>5, GroupIsGroup
      <4> QED
        BY <2>1, <2>5, <4>1 DEF Closed
    <3>4. \A r \in Around[point] : b[r] = b[p] => r \in Reached(t)
      BY <2>1, <3>1 DEF Reached
    <3>5. Cardinality(t.seen) = k + 1
      <4>1. IsFiniteSet(s.seen)
        <5>1. s.seen \in SUBSET Points
          BY DEF FloodStates
        <5> QED
          BY <5>1, BoardFacts, FS_Subset
      <4> QED
        BY <2>3, <2>7, <3>1, <4>1, FS_AddElement
    <3>6. m + 5 * (N - (k + 1)) + (turn + 1) <= 5 * N + 1
      BY <2>4, <3>1
    <3>7. Len(t.queue) + 5 * (Cardinality(Points) - Cardinality(t.seen)) + (turn + 1) <= Enough
      BY <2>3, <3>5, <3>6 DEF Enough
    <3> HIDE DEF new
    <3>8. Filling(b, p, turn + 1, t)
      BY <3>1, <3>2, <3>3, <3>4, <3>7 DEF Filling
    <3> QED
      BY <1>2, <2>1, <3>8 DEF Loop
  <2> QED
    BY <2>6, <2>7
<1> QED
  BY <1>1, <1>2

\* The flood fill finds the group of the stone it starts from.
LEMMA FloodIsGroup ==
    ASSUME NEW b \in Boards, NEW p \in Points
    PROVE  Flood(b, b[p], p) = Group(b, p)
<1>1. PICK f \in [Nat -> FloodStates] :
        /\ f[0] = Start(p)
        /\ \A n \in Nat : f[n + 1] = Loop(b, b[p], f[n])
        /\ Flood(b, b[p], p) = f[Enough].seen
  BY ZenonT(60), LoopFacts, FloodRuns
<1> DEFINE Holds == {n \in Nat : Filling(b, p, n, f[n])}
<1>2. Holds = Nat
  <2>1. 0 \in Holds
    BY <1>1, FillingStart
  <2>2. ASSUME NEW n \in Holds PROVE n + 1 \in Holds
    <3>1. n \in Nat /\ f[n] \in FloodStates /\ Filling(b, p, n, f[n])
      BY <1>1
    <3>2. Filling(b, p, n + 1, Loop(b, b[p], f[n]))
      BY <3>1, FillingStep
    <3> QED
      BY <1>1, <3>1, <3>2
  <2>3. Holds \subseteq Nat
    OBVIOUS
  <2> HIDE DEF Holds
  <2> QED
    BY <2>1, <2>2, <2>3, Induction
<1>3. PICK s \in FloodStates : s = f[Enough]
  BY <1>1, BoardFacts
<1>4. Filling(b, p, Enough, s)
  BY <1>2, <1>3, BoardFacts
<1>5. s.queue = <<>>
  <2>1. s.seen \in SUBSET Points /\ s.queue \in Seq(Points)
    BY DEF FloodStates
  <2>2. Cardinality(s.seen) \in Nat /\ Cardinality(s.seen) <= Cardinality(Points)
    BY <2>1, BoardFacts, FS_Subset, FS_CardinalityType
  <2>3. PICK N \in Nat, k \in Nat, l \in Nat :
          N = Cardinality(Points) /\ k = Cardinality(s.seen) /\ l = Len(s.queue)
    BY <2>1, <2>2, BoardFacts
  <2>4. ASSUME s.queue # <<>> PROVE FALSE
    <3>1. l # 0
      BY <2>1, <2>3, <2>4
    <3>2. l + 5 * (N - k) + (5 * N + 1) <= 5 * N + 1
      BY <1>4, <2>3, <2>4 DEF Filling, Enough
    <3>3. k <= N
      BY <2>2, <2>3
    <3> QED
      BY <3>1, <3>2, <3>3
  <2> QED
    BY <2>4
<1>6. Reached(s) = s.seen
  BY <1>5 DEF Reached, Pending
<1>7. s.seen \subseteq Group(b, p)
  BY <1>4, <1>6 DEF Filling
<1>8. Group(b, p) \subseteq s.seen
  <2>1. \A q \in s.seen : b[q] = b[p]
    BY <1>7, GroupIsGroup
  <2>2. p \in s.seen /\ \A q \in s.seen : \A r \in Around[q] : b[r] = b[p] => r \in s.seen
    BY <1>4, <1>6 DEF Filling
  <2>3. Closed(b, s.seen)
    BY <2>1, <2>2 DEF Closed
  <2>4. s.seen \in SUBSET Points
    BY DEF FloodStates
  <2> QED
    BY <2>1, <2>2, <2>3, <2>4, GroupIsLeast
<1> QED
  BY <1>1, <1>3, <1>7, <1>8

-----------------------------------------------------------------------------
(* Captures. *)

\* What the engine collects is the group, and it looks for liberties where
\* the rules do.
LEMMA CollectIsGroup ==
    ASSUME NEW b \in Boards, NEW p \in Points
    PROVE  /\ CollectGroup(b, p).stones = Group(b, p)
           /\ CollectGroup(b, p).liberties = {} <=> ~Breathes(b, p)
<1>1. PICK G \in SUBSET Points : G = Group(b, p)
  BY GroupIsGroup
<1>2. CollectGroup(b, p) = [stones |-> G, liberties |-> Liberties(b, G)]
  BY <1>1, FloodIsGroup DEF CollectGroup
<1>3. Liberties(b, G) = {} <=> ~HasLiberty(b, G)
  <2>1. DOMAIN b = Points
    BY DEF Boards
  <2>2. \A s \in G : Beside(s) = Around[s] /\ Around[s] \subseteq Points
    BY BesideIsAround, AroundSymmetric
  <2> QED
    BY <2>1, <2>2 DEF Liberties, HasLiberty
<1> QED
  BY <1>1, <1>2, <1>3 DEF Breathes

\* Taking points off a board one set after the other.
LEMMA LiftFacts ==
    ASSUME NEW b \in Boards, NEW U \in SUBSET Points
    PROVE  /\ Without(b, U) \in Boards
           /\ \A q \in Points : Without(b, U)[q] = IF q \in U THEN Empty ELSE b[q]
           /\ \A G \in SUBSET Points : Lift(Without(b, U), G) = Without(b, U \cup G)
<1>1. \A q \in Points : (IF q \in U THEN Empty ELSE b[q]) \in Colors \cup {Empty}
  BY DEF Boards
<1>2. Without(b, U) \in Boards
  BY <1>1 DEF Without, Boards
<1>3. \A q \in Points : Without(b, U)[q] = IF q \in U THEN Empty ELSE b[q]
  BY DEF Without
<1>4. ASSUME NEW G \in SUBSET Points
      PROVE  Lift(Without(b, U), G) = Without(b, U \cup G)
  <2>1. DOMAIN Without(b, U) = Points
    BY DEF Without
  <2>2. \A q \in Points : (IF q \in G THEN Empty ELSE Without(b, U)[q])
                             = IF q \in U \cup G THEN Empty ELSE b[q]
    BY <1>3
  <2>3. Lift(Without(b, U), G) = [q \in Points |-> IF q \in G THEN Empty ELSE Without(b, U)[q]]
    BY <2>1 DEF Lift
  <2>4. [q \in Points |-> IF q \in G THEN Empty ELSE Without(b, U)[q]]
          = [q \in Points |-> IF q \in U \cup G THEN Empty ELSE b[q]]
    BY <2>2
  <2> QED
    BY <2>3, <2>4 DEF Without
<1> QED
  BY <1>2, <1>3, <1>4

\* Stones of a colour that are closed, so that none of the others of that
\* colour touches them, can be taken off without any change to the groups of
\* these others or to their liberties: the order of captures is of no matter.
LEMMA Removal ==
    ASSUME NEW b \in Boards, NEW o \in Colors, NEW U \in SUBSET Points,
           \A u \in U : b[u] = o, Closed(b, U),
           NEW n \in Points \ U, b[n] = o
    PROVE  /\ Group(Without(b, U), n) = Group(b, n)
           /\ Group(b, n) \cap U = {}
           /\ Breathes(Without(b, U), n) <=> Breathes(b, n)
<1>1. PICK w \in Boards : /\ w = Without(b, U)
                          /\ \A q \in Points : w[q] = IF q \in U THEN Empty ELSE b[q]
  BY LiftFacts
<1>2. PICK G \in SUBSET Points : G = Group(b, n)
  BY GroupIsGroup
<1>3. PICK H \in SUBSET Points : H = Group(w, n)
  BY GroupIsGroup
<1>4. n \in G /\ (\A s \in G : b[s] = o) /\ Closed(b, G)
  BY <1>2, GroupIsGroup
<1>5. o # Empty
  BY GoAssumption
<1>6. \A s \in Points \ U : \A q \in Around[s] : b[s] = o => q \in Points \ U
  BY AroundSymmetric DEF Closed
<1>7. G \subseteq G \ U
  <2>1. Closed(b, G \ U)
    BY <1>4, <1>6 DEF Closed
  <2> QED
    BY <1>2, <1>4, <2>1, GroupIsLeast
<1>8. H \subseteq G
  <2>1. \A s \in G : w[s] = o
    BY <1>1, <1>4, <1>7
  <2>2. Closed(w, G)
    BY <1>1, <1>4, <1>5, <2>1, AroundSymmetric DEF Closed
  <2> QED
    BY <1>1, <1>3, <1>4, <2>1, <2>2, GroupIsLeast
<1>9. G \subseteq H
  <2>1. n \in H /\ (\A s \in H : w[s] = w[n]) /\ Closed(w, H)
    BY <1>1, <1>3, GroupIsGroup
  <2>2. w[n] = o
    BY <1>1
  <2>3. \A s \in H : s \notin U /\ b[s] = o
    BY <1>1, <1>5, <2>1, <2>2
  <2>4. Closed(b, H)
    BY <1>1, <1>6, <2>1, <2>2, <2>3 DEF Closed
  <2> QED
    BY <1>2, <2>1, <2>3, <2>4, GroupIsLeast
<1>10. HasLiberty(w, G) <=> HasLiberty(b, G)
  BY <1>1, <1>4, <1>6, <1>7 DEF HasLiberty
<1> QED
  BY <1>1, <1>2, <1>3, <1>7, <1>8, <1>9, <1>10 DEF Breathes

\* The stones one neighbour costs the opponent, by the rules.
Cost(b, o, n) == {q \in Points : /\ n \in Points /\ b[n] = o /\ ~Breathes(b, n)
                                 /\ q \in Group(b, n)}

\* What the loop over the neighbours has taken when U are the stones gone.
Taken(b, U) == [board |-> Without(b, U), count |-> Cardinality(U)]

\* A turn of that loop takes what the rules say the neighbour costs.
LEMMA TakeStep ==
    ASSUME NEW b \in Boards, NEW o \in Colors, NEW U \in SUBSET Points,
           \A u \in U : b[u] = o, Closed(b, U),
           NEW n, InBounds(n) <=> n \in Points,
           NEW V, V = U \cup Cost(b, o, n)
    PROVE  /\ Take(Taken(b, U), o, n) = Taken(b, V)
           /\ Closed(b, V)
           /\ \A u \in V : b[u] = o
<1>1. PICK w \in Boards : /\ w = Without(b, U)
                          /\ \A q \in Points : w[q] = IF q \in U THEN Empty ELSE b[q]
                          /\ \A G \in SUBSET Points : Lift(w, G) = Without(b, U \cup G)
  BY LiftFacts
<1>2. PICK t : t = Taken(b, U)
  OBVIOUS
<1>3. t.board = w /\ t.count = Cardinality(U)
  BY <1>1, <1>2 DEF Taken
<1>4. o # Empty
  BY GoAssumption
<1>5. CASE n \in Points /\ w[n] = o
  <2>1. n \in Points \ U /\ b[n] = o
    BY <1>1, <1>4, <1>5
  <2>2. PICK G \in SUBSET Points : G = Group(b, n)
    BY <2>1, GroupIsGroup
  <2>3. /\ Group(w, n) = G /\ G \cap U = {}
        /\ Breathes(w, n) <=> Breathes(b, n)
    BY <1>1, <2>1, <2>2, Removal
  <2>4. (\A q \in G : b[q] = o) /\ Closed(b, G)
    BY <2>1, <2>2, GroupIsGroup
  <2>5. /\ CollectGroup(w, n).stones = G
        /\ CollectGroup(w, n).liberties = {} <=> ~Breathes(b, n)
    BY <2>1, <2>3, CollectIsGroup
  <2>6. CASE Breathes(b, n)
    <3>1. Take(t, o, n) = t
      BY <1>3, <2>5, <2>6 DEF Take
    <3>2. Cost(b, o, n) = {}
      BY <2>6 DEF Cost
    <3>3. U \cup Cost(b, o, n) = U
      BY <3>2
    <3> QED
      BY <1>2, <3>1, <3>3
  <2>7. CASE ~Breathes(b, n)
    <3>1. Cost(b, o, n) = G
      BY <2>1, <2>2, <2>7 DEF Cost
    <3>2. Take(t, o, n) = [board |-> Lift(w, G), count |-> Cardinality(U) + Cardinality(G)]
      BY <1>3, <1>5, <2>5, <2>7 DEF Take
    <3>3. Cardinality(U \cup G) = Cardinality(U) + Cardinality(G)
      <4>1. IsFiniteSet(U) /\ IsFiniteSet(G) /\ U \cap G = {}
        BY <2>3, BoardFacts, FS_Subset
      <4>2. Cardinality(U \cap G) = 0
        BY <4>1, FS_EmptySet
      <4>3. Cardinality(U) \in Nat /\ Cardinality(G) \in Nat
        BY <4>1, FS_CardinalityType
      <4>4. Cardinality(U \cup G) = Cardinality(U) + Cardinality(G) - Cardinality(U \cap G)
        BY <4>1, FS_Union
      <4> QED
        BY <4>2, <4>3, <4>4
    <3>4. Take(t, o, n) = Taken(b, U \cup G)
      BY <1>1, <3>2, <3>3 DEF Taken
    <3>5. Closed(b, U \cup G)
      BY <2>4 DEF Closed
    <3> QED
      BY <1>2, <2>4, <3>1, <3>4, <3>5
  <2> QED
    BY <2>6, <2>7
<1>6. CASE ~(n \in Points /\ w[n] = o)
  <2>1. Take(t, o, n) = t
    BY <1>3, <1>6 DEF Take
  <2>2. ASSUME NEW q \in Cost(b, o, n)
        PROVE  q \in U
    <3>1. n \in Points /\ b[n] = o /\ q \in Group(b, n)
      BY DEF Cost
    <3>2. n \in U
      BY <1>1, <1>6, <3>1
    <3>3. Group(b, n) \subseteq U
      BY <3>1, <3>2, GroupIsLeast
    <3> QED
      BY <3>1, <3>3
  <2>3. U \cup Cost(b, o, n) = U
    BY <2>2
  <2> QED
    BY <1>2, <2>1, <2>3
<1> QED
  BY <1>5, <1>6

\* Capture, one neighbour after the other, takes off what the rules say all
\* at once, and counts every stone once.
LEMMA CaptureIsRules ==
    ASSUME NEW b \in Boards, NEW p \in Points, b[p] \in Colors
    PROVE  /\ Capture(b, p) = Taken(b, Captured(b, p))
           /\ Captured(b, p) \in SUBSET Points
           /\ \A q \in Captured(b, p) : b[q] = Opposite(b[p])
<1>1. PICK o \in Colors : o = Opposite(b[p])
  BY DEF Opposite, Colors
<1>2. PICK n1, n2, n3, n4 : /\ n1 = Neighbors(p)[1] /\ n2 = Neighbors(p)[2]
                            /\ n3 = Neighbors(p)[3] /\ n4 = Neighbors(p)[4]
  OBVIOUS
<1>3. /\ InBounds(n1) <=> n1 \in Points
      /\ InBounds(n2) <=> n2 \in Points
      /\ InBounds(n3) <=> n3 \in Points
      /\ InBounds(n4) <=> n4 \in Points
  BY <1>2, BesideIsAround
<1>4. Around[p] = {n \in {n1, n2, n3, n4} : n \in Points}
  <2>1. \A n \in Around[p] : n \in {n1, n2, n3, n4} /\ n \in Points
    <3>1. ASSUME NEW n \in Around[p]
          PROVE  n \in {n1, n2, n3, n4}
      <4>1. PICK i \in 1 .. 4 : n = Neighbors(p)[i]
        BY BesideIsAround
      <4>2. i = 1 \/ i = 2 \/ i = 3 \/ i = 4
        OBVIOUS
      <4> QED
        BY <1>2, <4>1, <4>2
    <3> QED
      BY <3>1, AroundSymmetric
  <2>2. \A n \in {n1, n2, n3, n4} : n \in Points => n \in Around[p]
    BY <1>2, BesideIsAround
  <2> QED
    BY <2>1, <2>2
<1>5. \A n : Cost(b, o, n) \in SUBSET Points
  BY DEF Cost
<1>6. PICK U1, U2, U3, U4 : /\ U1 = {} \cup Cost(b, o, n1)
                            /\ U2 = U1 \cup Cost(b, o, n2)
                            /\ U3 = U2 \cup Cost(b, o, n3)
                            /\ U4 = U3 \cup Cost(b, o, n4)
  OBVIOUS
<1>7. U1 \in SUBSET Points /\ U2 \in SUBSET Points /\ U3 \in SUBSET Points
  BY <1>5, <1>6
<1>8. /\ Take(Taken(b, {}), o, n1) = Taken(b, U1)
      /\ Closed(b, U1) /\ \A u \in U1 : b[u] = o
  <2>1. Closed(b, {})
    BY DEF Closed
  <2> QED
    BY <1>3, <1>6, <2>1, TakeStep
<1>9. /\ Take(Taken(b, U1), o, n2) = Taken(b, U2)
      /\ Closed(b, U2) /\ \A u \in U2 : b[u] = o
  BY <1>3, <1>6, <1>7, <1>8, TakeStep
<1>10. /\ Take(Taken(b, U2), o, n3) = Taken(b, U3)
       /\ Closed(b, U3) /\ \A u \in U3 : b[u] = o
  BY SMTT(60), <1>3, <1>6, <1>7, <1>9, TakeStep
<1>11. /\ Take(Taken(b, U3), o, n4) = Taken(b, U4)
       /\ \A u \in U4 : b[u] = o
  BY <1>3, <1>6, <1>7, <1>10, TakeStep
<1>12. Taken(b, {}) = [board |-> b, count |-> 0]
  <2>1. Without(b, {}) = b
    BY DEF Without, Boards
  <2>2. Cardinality({}) = 0
    BY FS_EmptySet
  <2> QED
    BY <2>1, <2>2 DEF Taken
<1>13. Capture(b, p)
         = Take(Take(Take(Take([board |-> b, count |-> 0], o, n1), o, n2), o, n3), o, n4)
  BY <1>1, <1>2, Zenon DEF Capture
<1>14. Capture(b, p) = Taken(b, U4)
  BY <1>8, <1>9, <1>10, <1>11, <1>12, <1>13
<1>15. Captured(b, p) = U4
  <2>1. \A q : q \in U4 <=> \E n \in {n1, n2, n3, n4} : q \in Cost(b, o, n)
    BY <1>6
  <2>2. \A q : q \in Captured(b, p) <=> \E n \in Around[p] : /\ b[n] = o /\ ~Breathes(b, n)
                                                             /\ q \in Group(b, n)
    BY <1>1 DEF Captured
  <2>3. \A n \in Points : Group(b, n) \subseteq Points
    BY GroupIsGroup
  <2>4. \A n : \A q : q \in Cost(b, o, n) <=> /\ n \in Points /\ b[n] = o /\ ~Breathes(b, n)
                                              /\ q \in Group(b, n)
    BY <2>3 DEF Cost
  <2> QED
    BY <1>4, <2>1, <2>2, <2>4
<1>16. U4 \in SUBSET Points
  BY <1>5, <1>6, <1>7
<1> QED
  BY <1>1, <1>11, <1>14, <1>15, <1>16

-----------------------------------------------------------------------------
(* A move of the engine is a move of the rules. *)

\* The coordinates that are in bounds are the points, next to the board too.
LEMMA BoundsArePoints ==
    ASSUME NEW p \in (-1 .. Size) \X (-1 .. Size)
    PROVE  InBounds(p) <=> p \in Points
BY GoAssumption DEF InBounds, Points

\* playMove answers what the rules answer, in the order of its tests.
LEMMA PlayMoveIsRules ==
    ASSUME board \in Boards, NEW c \in Colors, NEW p \in (-1 .. Size) \X (-1 .. Size)
    PROVE  /\ p \notin Points => PlayMove(board, previous, c, p) = Refused("out_of_bounds")
           /\ p \in Points /\ board[p] # Empty =>
                PlayMove(board, previous, c, p) = Refused("occupied")
           /\ p \in Points /\ board[p] = Empty =>
                PlayMove(board, previous, c, p) =
                  IF ~Breathes(After(c, p), p) THEN Refused("suicide")
                  ELSE IF After(c, p) = previous THEN Refused("ko")
                  ELSE Accepted(Taken(Placed(c, p), Captured(Placed(c, p), p)))
<1>1. InBounds(p) <=> p \in Points
  BY BoundsArePoints
<1>2. CASE p \notin Points \/ board[p] # Empty
  BY <1>1, <1>2 DEF PlayMove
<1>3. CASE p \in Points /\ board[p] = Empty
  <2>1. PICK b \in Boards : b = Placed(c, p) /\ b[p] = c
    BY <1>3, AfterMove
  <2>2. PICK captured : captured = Capture(b, p)
    OBVIOUS
  <2>3. captured = Taken(b, Captured(b, p))
    BY <1>3, <2>1, <2>2, CaptureIsRules
  <2>4. captured.board = After(c, p)
    BY <2>1, <2>3 DEF Taken, After
  <2>5. CollectGroup(captured.board, p).liberties = {} <=> ~Breathes(After(c, p), p)
    <3>1. After(c, p) \in Boards
      BY <1>3, AfterMove
    <3> QED
      BY <1>3, <2>4, <3>1, CollectIsGroup
  <2>6. PlayMove(board, previous, c, p) =
          IF CollectGroup(captured.board, p).liberties = {} THEN Refused("suicide")
          ELSE IF captured.board = previous THEN Refused("ko") ELSE Accepted(captured)
    BY <1>1, <1>3, <2>1, <2>2 DEF PlayMove, Placed
  <2> QED
    BY <1>3, <2>1, <2>3, <2>4, <2>5, <2>6
<1> QED
  BY <1>2, <1>3

\* A move of the engine: what it does to the board and to the prisoners.
LEMMA PlayIsLegal ==
    ASSUME board \in Boards, NEW c \in Colors, NEW p \in Points, Play(c, p)
    PROVE  /\ LegalMove(c, p)
           /\ captures' = [captures EXCEPT ![c] = @ + Cardinality(Captured(Placed(c, p), p))]
<1>1. p \in (-1 .. Size) \X (-1 .. Size)
  BY GoAssumption DEF Points
<1>2. PICK move : move = PlayMove(board, previous, c, p)
  OBVIOUS
<1>3. /\ move.ok /\ board' = move.board /\ previous' = board
      /\ captures' = [captures EXCEPT ![c] = @ + move.count]
  BY <1>2 DEF Play
<1>4. board[p] = Empty
  BY <1>1, <1>2, <1>3, PlayMoveIsRules DEF Refused
<1>5. Breathes(After(c, p), p) /\ After(c, p) # previous
  BY <1>1, <1>2, <1>3, <1>4, PlayMoveIsRules DEF Refused
<1>6. move = Accepted(Taken(Placed(c, p), Captured(Placed(c, p), p)))
  BY <1>1, <1>2, <1>4, <1>5, PlayMoveIsRules
<1>7. move.board = After(c, p) /\ move.count = Cardinality(Captured(Placed(c, p), p))
  BY <1>6 DEF Accepted, Taken, After
<1> QED
  BY <1>3, <1>4, <1>5, <1>7 DEF LegalMove

\* The engine implements the rules: every move it accepts is one the rules
\* allow, and what it takes off and leaves is what they say, on a board of
\* every size.
THEOREM EnginePlaysByTheRules == Spec => RulesFollowed
<1>1. Init => RulesInit
  BY DEF Init, RulesInit
<1>2. RulesTypeOK /\ [Next]_vars => [RulesNext]_ruleVars
  <2> SUFFICES ASSUME RulesTypeOK, [Next]_vars
               PROVE  [RulesNext]_ruleVars
    OBVIOUS
  <2>1. CASE UNCHANGED vars
    BY <2>1 DEF vars, ruleVars
  <2>2. ASSUME NEW c \in Colors, NEW p \in Points, Play(c, p)
        PROVE  LegalMove(c, p)
    BY <2>2, PlayIsLegal DEF RulesTypeOK
  <2> QED
    BY <2>1, <2>2 DEF Next, RulesNext
<1>3. RulesInit => RulesTypeOK
  BY GoAssumption DEF RulesInit, RulesTypeOK
<1>4. RulesTypeOK /\ [RulesNext]_ruleVars => RulesTypeOK'
  BY RulesStepTyped
<1> QED
  BY <1>1, <1>2, <1>3, <1>4, PTL DEF Spec, RulesFollowed, RulesSpec

\* At every position reached, the engine's answer to every move, the points
\* next to the board included, is the one the rules give.
THEOREM EngineReasons == Spec => []ReasonsAgree
<1>1. RulesTypeOK => ReasonsAgree
  <2> SUFFICES ASSUME RulesTypeOK, NEW c \in Colors, NEW p \in (-1 .. Size) \X (-1 .. Size)
               PROVE  PlayMove(board, previous, c, p).reason = Verdict(c, p)
    BY DEF ReasonsAgree
  <2>1. board \in Boards
    BY DEF RulesTypeOK
  <2>2. CASE p \notin Points
    BY <2>1, <2>2, PlayMoveIsRules DEF Refused, Verdict
  <2>3. CASE p \in Points /\ board[p] # Empty
    BY <2>1, <2>3, PlayMoveIsRules DEF Refused, Verdict
  <2>4. CASE p \in Points /\ board[p] = Empty
    <3>1. PlayMove(board, previous, c, p) =
            IF ~Breathes(After(c, p), p) THEN Refused("suicide")
            ELSE IF After(c, p) = previous THEN Refused("ko")
            ELSE Accepted(Taken(Placed(c, p), Captured(Placed(c, p), p)))
      BY <2>1, <2>4, PlayMoveIsRules
    <3> QED
      BY <2>4, <3>1 DEF Refused, Accepted, Verdict
  <2> QED
    BY <2>2, <2>3, <2>4
<1>2. RulesSpec => []RulesTypeOK
  BY RulesTypeCorrect
<1>3. Spec => RulesSpec
  BY EnginePlaysByTheRules DEF RulesFollowed
<1> QED
  BY <1>1, <1>2, <1>3, PTL

\* The engine's moves too leave no stone without a liberty that was not so
\* before.
THEOREM EngineKillsNothing == Spec => NothingNewDies
BY EnginePlaysByTheRules, NothingDies DEF RulesFollowed

-----------------------------------------------------------------------------
(* Prisoners. *)

\* The prisoners of each colour are counted.
PrisonersTyped == captures \in [Colors -> Nat]
\* The type invariant of the engine.
EngineInv == RulesTypeOK /\ PrisonersTyped

\* What two sets of points count together.
LEMMA CountingPoints ==
    ASSUME NEW S \in SUBSET Points, NEW T \in SUBSET Points, S \cap T = {}
    PROVE  /\ Cardinality(S \cup T) = Cardinality(S) + Cardinality(T)
           /\ Cardinality(S) \in Nat /\ Cardinality(T) \in Nat
<1>1. IsFiniteSet(S) /\ IsFiniteSet(T)
  BY BoardFacts, FS_Subset
<1>2. Cardinality(S \cap T) = 0
  BY FS_EmptySet
<1>3. Cardinality(S) \in Nat /\ Cardinality(T) \in Nat
  BY <1>1, FS_CardinalityType
<1>4. Cardinality(S \cup T) = Cardinality(S) + Cardinality(T) - Cardinality(S \cap T)
  BY <1>1, FS_Union
<1> QED
  BY <1>2, <1>3, <1>4

\* The opposing stones that leave the board are the prisoners added.
LEMMA MoveBalances ==
    ASSUME EngineInv, NEW c \in Colors, NEW p \in Points, Play(c, p)
    PROVE  /\ StonesOf(board', c) = StonesOf(board, c) + 1
           /\ StonesOf(board', Opposite(c)) + captures'[c]
                = StonesOf(board, Opposite(c)) + captures[c]
           /\ captures'[Opposite(c)] = captures[Opposite(c)]
           /\ PrisonersTyped'
<1> DEFINE placed == Placed(c, p)
<1>1. board \in Boards /\ captures \in [Colors -> Nat]
  BY DEF EngineInv, RulesTypeOK, PrisonersTyped
<1>2. /\ LegalMove(c, p)
      /\ captures' = [captures EXCEPT ![c] = @ + Cardinality(Captured(placed, p))]
  BY <1>1, PlayIsLegal
<1>3. board[p] = Empty /\ board' = After(c, p)
  BY <1>2 DEF LegalMove
<1>4. PICK o \in Colors : o = Opposite(c) /\ o # c
  BY DEF Opposite, Colors
<1>5. Empty # c /\ Empty # o
  BY GoAssumption
<1>6. /\ placed \in Boards /\ board' \in Boards
      /\ \A q \in Points : placed[q] = IF q = p THEN c ELSE board[q]
  BY <1>1, <1>3, AfterMove
<1>7. PICK K \in SUBSET Points : K = Captured(placed, p) /\ \A q \in K : placed[q] = o
  BY <1>4, <1>6, CaptureIsRules
<1>8. \A q \in Points : board'[q] = IF q \in K THEN Empty ELSE placed[q]
  BY <1>3, <1>7 DEF After, Without
<1>9. PICK mine \in SUBSET Points, theirs \in SUBSET Points :
        mine = {q \in Points : board[q] = c} /\ theirs = {q \in Points : board'[q] = o}
  OBVIOUS
<1>10. /\ {q \in Points : board'[q] = c} = mine \cup {p} /\ mine \cap {p} = {}
       /\ {q \in Points : board[q] = o} = theirs \cup K /\ theirs \cap K = {}
  <2>1. \A q \in Points : board'[q] = c <=> q \in mine \/ q = p
    BY <1>4, <1>5, <1>6, <1>7, <1>8, <1>9
  <2>2. \A q \in Points : board[q] = o <=> q \in theirs \/ q \in K
    BY <1>3, <1>4, <1>5, <1>6, <1>7, <1>8, <1>9
  <2>3. p \notin mine
    BY <1>3, <1>5, <1>9
  <2>4. \A q \in K : q \notin theirs
    BY <1>5, <1>8, <1>9
  <2> QED
    BY <2>1, <2>2, <2>3, <2>4
<1>11. DOMAIN board = Points /\ DOMAIN board' = Points
  BY <1>1, <1>6 DEF Boards
<1>12. /\ StonesOf(board, c) = Cardinality(mine)
       /\ StonesOf(board', c) = Cardinality(mine \cup {p})
       /\ StonesOf(board', o) = Cardinality(theirs)
       /\ StonesOf(board, o) = Cardinality(theirs \cup K)
  BY <1>9, <1>10, <1>11 DEF StonesOf
<1>13. /\ Cardinality(mine \cup {p}) = Cardinality(mine) + 1
       /\ Cardinality(theirs \cup K) = Cardinality(theirs) + Cardinality(K)
       /\ Cardinality(theirs) \in Nat /\ Cardinality(K) \in Nat
  <2>1. PICK one \in SUBSET Points : one = {p}
    OBVIOUS
  <2>2. Cardinality(one) = 1
    BY <2>1, FS_Singleton
  <2>3. Cardinality(mine \cup one) = Cardinality(mine) + Cardinality(one)
    BY <1>10, <2>1, CountingPoints
  <2>4. /\ Cardinality(theirs \cup K) = Cardinality(theirs) + Cardinality(K)
        /\ Cardinality(theirs) \in Nat /\ Cardinality(K) \in Nat
    BY <1>10, CountingPoints
  <2> QED
    BY <2>1, <2>2, <2>3, <2>4
<1>14. /\ captures'[c] = captures[c] + Cardinality(K) /\ captures[c] \in Nat
       /\ captures'[o] = captures[o]
       /\ captures' \in [Colors -> Nat]
  BY <1>1, <1>2, <1>4, <1>7, <1>13
<1> QED
  BY <1>4, <1>12, <1>13, <1>14 DEF PrisonersTyped

\* The board, the position before and the prisoners stay what they are.
THEOREM EngineTypes == Spec => []EngineInv
<1>1. Init => EngineInv
  BY GoAssumption DEF Init, EngineInv, RulesTypeOK, PrisonersTyped
<1>2. EngineInv /\ [Next]_vars => EngineInv'
  <2> SUFFICES ASSUME EngineInv, [Next]_vars
               PROVE  EngineInv'
    OBVIOUS
  <2>1. CASE UNCHANGED vars
    BY <2>1 DEF vars, EngineInv, RulesTypeOK, PrisonersTyped
  <2>2. ASSUME NEW c \in Colors, NEW p \in Points, Play(c, p)
        PROVE  EngineInv'
    <3>1. RulesTypeOK /\ board \in Boards
      BY DEF EngineInv, RulesTypeOK
    <3>2. RulesNext
      BY <2>2, <3>1, PlayIsLegal DEF RulesNext
    <3>3. RulesTypeOK'
      BY <3>1, <3>2, RulesStepTyped
    <3> QED
      BY <2>2, <3>3, MoveBalances DEF EngineInv
  <2> QED
    BY <2>1, <2>2 DEF Next
<1> QED
  BY <1>1, <1>2, PTL DEF Spec

\* A move adds one stone of its colour, and the prisoners counted for it are
\* exactly the opposing stones that left the board.
THEOREM EngineCounts == Spec => PrisonersBalance
<1>1. EngineInv /\ [Next]_vars =>
        [\E c \in Colors :
           /\ StonesOf(board', c) = StonesOf(board, c) + 1
           /\ StonesOf(board', Opposite(c)) + captures'[c]
                = StonesOf(board, Opposite(c)) + captures[c]
           /\ captures'[Opposite(c)] = captures[Opposite(c)]]_vars
  BY MoveBalances DEF Next
<1> QED
  BY <1>1, EngineTypes, PTL DEF Spec, PrisonersBalance

=============================================================================
