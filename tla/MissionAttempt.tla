--------------------------- MODULE MissionAttempt ---------------------------
(***************************************************************************)
(* Attempts at a Go problem                                                *)
(* (server/src/mission/mission.service.ts): moves, hints, the time limit,  *)
(* retries and the reward, for the attempts of one learner at one mission. *)
(*                                                                         *)
(* The attempt row is read, judged outside any lock and written back under *)
(* a condition (moves) or without one (hints, retries).  The solution tree *)
(* is a constant: an accepted move leads to a child node, the opponent's   *)
(* scripted replies included, and a node stands for its position, the one  *)
(* its path of moves reaches (GoEngine has the rules of the board).        *)
(***************************************************************************)
EXTENDS Integers, FiniteSets

CONSTANTS
    Attempts,    \* attempt rows, each with its clientAttemptId
    Requests,    \* HTTP requests that may be in flight together
    ClientIds,   \* clientMoveIds the browsers draw
    Nodes,       \* nodes of the solution tree
    Root,        \* its root
    Kind,        \* whose turn, or how the problem ended, at each node
    Children,    \* where the accepted moves of a node lead
    Replies,     \* opponent moves played on the way into a node
    BaseScore,   \* baseScore
    RetryLimit,  \* retryLimit, or NoLimit
    HintCount,   \* number of hints of the mission
    MaxRetries,  \* bound on the number of retries of an attempt
    None, NoLimit

Wrong == "wrong"      \* a legal move the tree does not accept, or a forbidden one
Illegal == "illegal"  \* a move the rules do not allow
Late == "timeout"     \* any move after the time limit

ASSUME MissionAssumption ==
    /\ Root \in Nodes
    /\ Kind \in [Nodes -> {"player", "success", "failure"}]
    /\ Children \in [Nodes -> SUBSET Nodes]
    /\ Replies \in [Nodes -> Nat]
    /\ Nodes \cap {Wrong, Illegal, Late} = {}
    /\ BaseScore \in Nat /\ HintCount \in Nat /\ MaxRetries \in Nat
    /\ RetryLimit \in Nat \ {0} \/ RetryLimit = NoLimit
    /\ NoLimit \notin Nat
    /\ None \notin Attempts

VARIABLES
    attempt,  \* MissionAttempt rows
    moves,    \* MissionMove rows of the player
    overdue,  \* latest start of each attempt whose time limit has passed
    reward,   \* the attempt that earned the RewardGrant of the mission
    req       \* what each request in flight remembers

vars == <<attempt, moves, overdue, reward, req>>

Status == {"NONE", "IN_PROGRESS", "COMPLETED", "FAILED"}

\* Variant: the score is not kept above zero.
ScoreUnclamped(wrong, hint) == BaseScore - wrong * 10 - hint * 10

\* calculateScore
Score(wrong, hint) ==
    LET score == BaseScore - wrong * 10 - hint * 10
    IN  IF score > 0 THEN score ELSE 0

\* start counts the retries: startedAt is set again by each.
Fresh(start) == [status |-> "IN_PROGRESS", node |-> Root, moveCount |-> 0,
                 wrong |-> 0, tries |-> 0, hint |-> 0, hintUses |-> 0,
                 score |-> 0, start |-> start]
Absent == [Fresh(0) EXCEPT !.status = "NONE"]
Idle == [pc |-> "idle", attempt |-> None, id |-> None, move |-> Illegal,
         row |-> Absent]

Init ==
    /\ attempt = [a \in Attempts |-> Absent]
    /\ moves = {}
    /\ overdue = [a \in Attempts |-> -1]
    /\ reward = None
    /\ req = [r \in Requests |-> Idle]

Done(r) == req' = [req EXCEPT ![r] = Idle]
Logged(a, id) == \E m \in moves : m.attempt = a /\ m.id = id

-----------------------------------------------------------------------------
(* startAttempt, retry *)

\* The row is created; a second request with its clientAttemptId finds it (or
\* fails on the unique index).
StartAttempt(a) ==
    /\ attempt[a].status = "NONE"
    /\ attempt' = [attempt EXCEPT ![a] = Fresh(0)]
    /\ UNCHANGED <<moves, overdue, reward, req>>

\* The row is reset whatever its status; the moves stay.
RetryAttempt(a) ==
    /\ attempt[a].status # "NONE"
    /\ attempt[a].start < MaxRetries
    /\ attempt' = [attempt EXCEPT ![a] = Fresh(attempt[a].start + 1)]
    /\ UNCHANGED <<moves, overdue, reward, req>>

-----------------------------------------------------------------------------
(* submitMove, failTimedOutAttempt *)

\* The row is read first.  What the coordinates are worth (a child of the
\* node, a mistake, no move at all) is judged against this row ...
MoveRead(r, a, id, move) ==
    /\ req[r].pc = "idle"
    /\ attempt[a].status # "NONE"
    /\ req' = [req EXCEPT ![r] = [pc |-> "check", attempt |-> a, id |-> id,
                                  move |-> move, row |-> attempt[a]]]
    /\ UNCHANGED <<attempt, moves, overdue, reward>>

\* ... then the move log: a move that was answered gets its answer again, and
\* one for a finished attempt or another position is refused.
MoveGoesOn(r) ==
    /\ ~Logged(req[r].attempt, req[r].id)
    /\ req[r].row.status = "IN_PROGRESS"

\* The time limit runs from the startedAt that was read.
MoveCheck(r) ==
    /\ req[r].pc = "check"
    /\ IF MoveGoesOn(r)
         THEN req' = [req EXCEPT
                ![r].pc = "apply",
                ![r].move = IF @ # Late /\ req[r].row.start
                                             <= overdue[req[r].attempt]
                              THEN Late ELSE @]
         ELSE Done(r)
    /\ UNCHANGED <<attempt, moves, overdue, reward>>

\* evaluateMove: the node after the move.
NodeAfter(row, move) ==
    IF Kind[row.node] = "player" /\ move \in Children[row.node]
      THEN move ELSE row.node

Accepted(row, move) == Kind[row.node] = "player" /\ move \in Children[row.node]
Mistaken(row, move) == Kind[row.node] = "player" /\ move = Wrong
Completes(row, move) == Accepted(row, move) /\ Kind[move] = "success"
Confirmed(row, move) == IF Accepted(row, move) THEN 1 + Replies[move] ELSE 0
WrongAfter(row, move) == row.wrong + (IF Mistaken(row, move) THEN 1 ELSE 0)

\* Variant: the move that reaches the limit does not count.
ReachesLimitLate(row, move) ==
    RetryLimit # NoLimit /\ WrongAfter(row, move) > RetryLimit

ReachesLimit(row, move) ==
    RetryLimit # NoLimit /\ WrongAfter(row, move) >= RetryLimit

StatusAfter(row, move) ==
    CASE Completes(row, move) -> "COMPLETED"
      [] move = Late -> "FAILED"
      [] ~Completes(row, move) /\ move # Late /\ ReachesLimit(row, move)
           -> "FAILED"
      [] OTHER -> "IN_PROGRESS"

\* The row after the move, from the row as it was read: hints excepted, and the
\* mistakes when the time is up, which are not written then.
RowAfter(row, move, now) ==
    [status |-> StatusAfter(row, move),
     node |-> NodeAfter(row, move),
     moveCount |-> row.moveCount + Confirmed(row, move),
     wrong |-> IF move = Late THEN now.wrong ELSE WrongAfter(row, move),
     tries |-> row.tries + 1,
     score |-> Score(WrongAfter(row, move), row.hint),
     hint |-> now.hint, hintUses |-> now.hintUses, start |-> now.start]

\* Variant: the position is not compared.
ClaimedAnyPosition(r) == attempt[req[r].attempt].status = "IN_PROGRESS"

\* Variant: the status is not compared.
ClaimedAnyStatus(r) ==
    LET now == attempt[req[r].attempt]
    IN  /\ now.node = req[r].row.node
        /\ now.moveCount = req[r].row.moveCount

\* The condition of the update: status, position and move count.
Claimed(r) ==
    LET now == attempt[req[r].attempt]
    IN  /\ now.status = "IN_PROGRESS"
        /\ now.node = req[r].row.node
        /\ now.moveCount = req[r].row.moveCount

\* createMany with skipDuplicates: one grant per learner and mission.
Grant(a, completes) == IF completes /\ reward = None THEN a ELSE reward

\* The transaction: the row, the reward and the log, or (lost claim, or the
\* clientMoveId logged meanwhile) nothing.
MoveApply(r) ==
    LET a == req[r].attempt
        row == req[r].row
        move == req[r].move
        entry == [attempt |-> a, id |-> req[r].id,
                  start |-> attempt[a].start,
                  wrong |-> Mistaken(row, move),
                  completes |-> Completes(row, move),
                  confirmed |-> Confirmed(row, move)]
    IN  /\ req[r].pc = "apply"
        /\ IF Claimed(r) /\ ~Logged(a, req[r].id)
             THEN /\ attempt' = [attempt EXCEPT
                                   ![a] = RowAfter(row, move, @)]
                  /\ moves' = moves \cup {entry}
                  /\ reward' = Grant(a, Completes(row, move))
             ELSE UNCHANGED <<attempt, moves, reward>>
        /\ Done(r)
        /\ UNCHANGED overdue

-----------------------------------------------------------------------------
(* useHint *)

HintRead(r, a) ==
    /\ req[r].pc = "idle"
    /\ attempt[a].status = "IN_PROGRESS"
    /\ attempt[a].hint < HintCount
    /\ req' = [req EXCEPT ![r] = [pc |-> "hint", attempt |-> a, id |-> None,
                                  move |-> Illegal, row |-> attempt[a]]]
    /\ UNCHANGED <<attempt, moves, overdue, reward>>

\* The unconditional update with the level and the score computed before.
HintWrite(r) ==
    LET a == req[r].attempt
        row == req[r].row
    IN  /\ req[r].pc = "hint"
        /\ attempt' = [attempt EXCEPT ![a].hint = row.hint + 1,
                                      ![a].hintUses = @ + 1,
                                      ![a].score = Score(row.wrong, row.hint + 1)]
        /\ Done(r)
        /\ UNCHANGED <<moves, overdue, reward>>

-----------------------------------------------------------------------------
\* timeLimitSeconds after startedAt.
TimeLimitPasses(a) ==
    /\ attempt[a].status # "NONE"
    /\ overdue[a] < attempt[a].start
    /\ overdue' = [overdue EXCEPT ![a] = attempt[a].start]
    /\ UNCHANGED <<attempt, moves, reward, req>>

\* A request dies between two awaits: what it has not written is not written.
RequestDies(r) ==
    /\ req[r].pc # "idle"
    /\ Done(r)
    /\ UNCHANGED <<attempt, moves, overdue, reward>>

Next ==
    \/ \E a \in Attempts : \/ StartAttempt(a)
                           \/ RetryAttempt(a)
                           \/ TimeLimitPasses(a)
    \/ \E r \in Requests :
          \/ \E a \in Attempts, id \in ClientIds :
                \E m \in Children[attempt[a].node] \cup {Wrong, Illegal} :
                    MoveRead(r, a, id, m)
          \/ MoveCheck(r)
          \/ MoveApply(r)
          \/ \E a \in Attempts : HintRead(r, a)
          \/ HintWrite(r)
          \/ RequestDies(r)

Spec == Init /\ [][Next]_vars

-----------------------------------------------------------------------------
(* Properties *)

Row == [status : Status, node : Nodes, moveCount : Nat, wrong : Nat,
        tries : Nat, hint : Nat, hintUses : Nat, score : Nat, start : Nat]
Entry == [attempt : Attempts, id : ClientIds, start : Nat, wrong : BOOLEAN,
          completes : BOOLEAN, confirmed : Nat]
Request == [pc : {"idle", "check", "apply", "hint"},
            attempt : Attempts \cup {None}, id : ClientIds \cup {None},
            move : Nodes \cup {Wrong, Illegal, Late}, row : Row]

\* Every row and every request in flight has its type; no hint beyond the
\* last one and no score beyond the base score is ever stored.
TypeOK ==
    /\ attempt \in [Attempts -> Row]
    /\ \A a \in Attempts : /\ attempt[a].hint <= HintCount
                           /\ attempt[a].score <= BaseScore
    /\ moves \subseteq Entry
    /\ overdue \in [Attempts -> Nat \cup {-1}]
    /\ reward \in Attempts \cup {None}
    /\ req \in [Requests -> Request]

\* Entries of the log since the attempt was last started.
Current(a) == {m \in moves : m.attempt = a /\ m.start = attempt[a].start}

\* The moves they confirmed, scripted replies included.
ConfirmedMoves(a) == UNION {{m} \X (1 .. m.confirmed) : m \in Current(a)}

\* The position on the row is the one the logged moves lead to: no accepted
\* move is lost or applied twice, whatever is submitted again, from two
\* devices, or across a retry.
PositionMatchesLog ==
    \A a \in Attempts :
        attempt[a].moveCount = Cardinality(ConfirmedMoves(a))

\* An attempt is COMPLETED exactly when moves have brought it to a success
\* node, the last of them logged as completing it, is never still open once
\* its mistakes have reached the limit, and the reward was earned by a move of
\* the attempt it is booked on and never lost.
OutcomeIsEarned ==
    /\ \A a \in Attempts :
         /\ attempt[a].status = "COMPLETED"
              <=> attempt[a].moveCount > 0 /\ Kind[attempt[a].node] = "success"
         /\ attempt[a].status = "COMPLETED"
              <=> \E m \in Current(a) : m.completes
         /\ attempt[a].status = "IN_PROGRESS" /\ RetryLimit # NoLimit
              => attempt[a].wrong < RetryLimit
    /\ reward = None => \A m \in moves : ~m.completes
    /\ reward # None => \E m \in moves : m.completes /\ m.attempt = reward

\* Only a retry changes the status, the position or the mistakes of a finished
\* attempt: no late move, timeout or duplicate moves it on, and the grant stays
\* with the attempt that earned it.  A late hint still changes its hints and score.
FinishedStaysFinished ==
    [][/\ \A a \in Attempts :
            /\ attempt[a].status \in {"COMPLETED", "FAILED"}
            /\ attempt'[a].start = attempt[a].start
            => /\ attempt'[a].status = attempt[a].status
               /\ attempt'[a].node = attempt[a].node
               /\ attempt'[a].wrong = attempt[a].wrong
       /\ reward # None => reward' = reward]_vars
=============================================================================
