------------------------------ MODULE GoRules ------------------------------
(***************************************************************************)
(* The rules of Go a mission's board must follow, stated with no algorithm *)
(* in them: a group is the least set of stones that is closed under        *)
(* touching stones of its colour, a move removes the opposing groups it    *)
(* leaves without a liberty, and a move is refused if the stone played     *)
(* would have none or if the position before the last move would return.   *)
(* GoEngine, the translation of server/src/mission/go-engine.ts, is shown  *)
(* to implement this module.                                               *)
(***************************************************************************)
EXTENDS Integers

CONSTANTS
    Size,     \* lines of the board in each direction
    Initial,  \* positions a mission may start from
    Empty,    \* content of a point with no stone
    None      \* previous position before the first move

Points == (0 .. Size - 1) \X (0 .. Size - 1)
Colors == {"black", "white"}
Boards == [Points -> Colors \cup {Empty}]

ASSUME GoAssumption ==
    /\ Size \in Nat
    /\ Initial \subseteq Boards
    /\ Empty \notin Colors
    /\ None \notin Boards

VARIABLES board, previous

ruleVars == <<board, previous>>

Opposite(c) == IF c = "black" THEN "white" ELSE "black"
Touches(p, q) == \/ p[1] = q[1] /\ (p[2] = q[2] + 1 \/ q[2] = p[2] + 1)
                 \/ p[2] = q[2] /\ (p[1] = q[1] + 1 \/ q[1] = p[1] + 1)
Around == [p \in Points |-> {q \in Points : Touches(p, q)}]

Closed(b, S) == \A s \in S : \A q \in Around[s] : b[q] = b[s] => q \in S
ClosedAt(b, p) == {S \in SUBSET {q \in Points : b[q] = b[p]} : p \in S /\ Closed(b, S)}
\* The group of the stone at p.
Group(b, p) == LET closed == ClosedAt(b, p)
               IN  {q \in Points : \A S \in closed : q \in S}
HasLiberty(b, S) == \E s \in S : \E q \in Around[s] : b[q] = Empty
Breathes(b, p) == HasLiberty(b, Group(b, p))

Placed(c, p) == [board EXCEPT ![p] = c]
\* The stones that the stone just placed on p leaves without a liberty.
Captured(b, p) ==
    UNION {Group(b, n) : n \in {n \in Around[p] : /\ b[n] = Opposite(b[p])
                                                  /\ ~Breathes(b, n)}}
Without(b, S) == [q \in Points |-> IF q \in S THEN Empty ELSE b[q]]
After(c, p) == Without(Placed(c, p), Captured(Placed(c, p), p))

LegalMove(c, p) ==
    /\ board[p] = Empty
    /\ Breathes(After(c, p), p)
    /\ After(c, p) # previous
    /\ board' = After(c, p)
    /\ previous' = board

RulesInit == board \in Initial /\ previous = None
RulesNext == \E c \in Colors, p \in Points : LegalMove(c, p)
RulesSpec == RulesInit /\ [][RulesNext]_ruleVars

-----------------------------------------------------------------------------

\* A position has content for every point, the one before it too.
RulesTypeOK == board \in Boards /\ previous \in Boards \cup {None}

Dead(b) == {q \in Points : b[q] \in Colors /\ ~Breathes(b, q)}

\* Whatever position a mission starts from, even one drawn with stones that
\* have no liberty, no move leaves a stone without a liberty that was not so
\* before: captures are complete and suicide is refused.
NothingNewDies == [][Dead(board') \subseteq Dead(board)]_ruleVars
=============================================================================
