------------------------ MODULE MissionAttemptProofs ------------------------
(***************************************************************************)
(* Attempts at a Go problem, for any solution tree and any number of        *)
(* attempts, requests and retries: what the run checks on one instance.     *)
(*                                                                         *)
(* IInv adds to the checked invariants what a request in flight may rely   *)
(* on (ReqInv), that the log is never ahead of the row (LogInv), and that   *)
(* the moves of one start are finitely many (PositionInv).                  *)
(***************************************************************************)
EXTENDS MissionAttempt, FiniteSetTheorems, TLAPS

\* What a request remembers: a move goes on only from an open row, a hint only
\* below the last one, and an open row is short of the limit of mistakes.
Remembers(q) ==
    /\ q.pc # "idle" => q.attempt \in Attempts
    /\ q.pc \in {"check", "apply"} => q.id \in ClientIds
    /\ q.pc = "apply" => q.row.status = "IN_PROGRESS"
    /\ q.pc = "hint" => q.row.hint < HintCount
    /\ q.row.status = "IN_PROGRESS" /\ RetryLimit # NoLimit
         => q.row.wrong < RetryLimit

\* Every request in flight remembers what it read.
ReqInv == \A r \in Requests : Remembers(req[r])

\* A logged move belongs to an attempt that was started, and to no later start.
LogInv == \A m \in moves : /\ attempt[m.attempt].status # "NONE"
                           /\ m.start <= attempt[m.attempt].start

\* The position of an attempt counts its log.
PositionInv == \A a \in Attempts :
    /\ IsFiniteSet(ConfirmedMoves(a))
    /\ attempt[a].moveCount = Cardinality(ConfirmedMoves(a))

\* The inductive invariant.
IInv == TypeOK /\ ReqInv /\ LogInv /\ PositionInv /\ OutcomeIsEarned

-----------------------------------------------------------------------------
(* The operators *)

\* A score is never below zero nor above the base score.
LEMMA ScoreBounds ==
    ASSUME NEW wrong \in Nat, NEW hint \in Nat
    PROVE  Score(wrong, hint) \in Nat /\ Score(wrong, hint) <= BaseScore
BY MissionAssumption DEF Score

\* A fresh row is a row, whatever start it counts.
LEMMA FreshRow ==
    ASSUME NEW start \in Nat
    PROVE  Fresh(start) \in Row /\ Absent \in Row
BY MissionAssumption DEF Fresh, Absent, Row, Status

\* What a move makes of the row that was read.
LEMMA MoveEffects ==
    ASSUME NEW row \in Row, NEW move \in Nodes \cup {Wrong, Illegal, Late}
    PROVE  /\ StatusAfter(row, move) \in {"IN_PROGRESS", "COMPLETED", "FAILED"}
           /\ NodeAfter(row, move) \in Nodes
           /\ Confirmed(row, move) \in Nat
           /\ WrongAfter(row, move) \in Nat
           /\ Mistaken(row, move) \in BOOLEAN
           /\ Completes(row, move) \in BOOLEAN
           /\ StatusAfter(row, move) = "COMPLETED" <=> Completes(row, move)
           /\ Completes(row, move) => /\ Kind[NodeAfter(row, move)] = "success"
                                      /\ Confirmed(row, move) > 0
           /\ ~Completes(row, move) => \/ NodeAfter(row, move) = row.node
                                          /\ Confirmed(row, move) = 0
                                       \/ Kind[NodeAfter(row, move)] # "success"
           /\ StatusAfter(row, move) = "IN_PROGRESS" /\ RetryLimit # NoLimit
                => move # Late /\ WrongAfter(row, move) < RetryLimit
<1>1. /\ Children[row.node] \subseteq Nodes /\ row.node \in Nodes
      /\ Late \notin Nodes
      /\ \A n \in Nodes : Replies[n] \in Nat
      /\ RetryLimit # NoLimit => RetryLimit \in Nat
  BY MissionAssumption DEF Row
<1>2. Mistaken(row, move) \in BOOLEAN /\ Completes(row, move) \in BOOLEAN
  BY DEF Mistaken, Completes, Accepted
<1>3. NodeAfter(row, move) \in Nodes /\ Confirmed(row, move) \in Nat
      /\ WrongAfter(row, move) \in Nat
  BY <1>1 DEF NodeAfter, Confirmed, Accepted, WrongAfter, Row
<1>4. Completes(row, move) => /\ Kind[NodeAfter(row, move)] = "success"
                              /\ Confirmed(row, move) > 0
  BY <1>1 DEF Completes, Accepted, NodeAfter, Confirmed
<1>5. ~Completes(row, move) => \/ NodeAfter(row, move) = row.node
                                  /\ Confirmed(row, move) = 0
                               \/ Kind[NodeAfter(row, move)] # "success"
  BY DEF Completes, Accepted, NodeAfter, Confirmed
<1>6. /\ StatusAfter(row, move) \in {"IN_PROGRESS", "COMPLETED", "FAILED"}
      /\ StatusAfter(row, move) = "COMPLETED" <=> Completes(row, move)
  BY <1>1 DEF StatusAfter, Completes, Accepted
<1>7. StatusAfter(row, move) = "IN_PROGRESS" /\ RetryLimit # NoLimit
        => move # Late /\ WrongAfter(row, move) < RetryLimit
  BY <1>1, <1>3 DEF StatusAfter, ReachesLimit
<1> QED BY <1>2, <1>3, <1>4, <1>5, <1>6, <1>7

\* The moves of an attempt after one more entry of its log.
LEMMA OneMoreEntry ==
    ASSUME NEW S, IsFiniteSet(S), NEW e, NEW n \in Nat, S \cap ({e} \X (1 .. n)) = {}
    PROVE  /\ IsFiniteSet(S \cup ({e} \X (1 .. n)))
           /\ Cardinality(S \cup ({e} \X (1 .. n))) = Cardinality(S) + n
<1>1. IsFiniteSet({e}) /\ Cardinality({e}) = 1
  BY FS_Singleton
<1>2. IsFiniteSet(1 .. n) /\ Cardinality(1 .. n) = n
  BY FS_Interval
<1> DEFINE A == {e}
           B == 1 .. n
           C == A \X B
<1>3. IsFiniteSet(C) /\ Cardinality(C) = n
  <2> HIDE DEF A, B
  <2>1. IsFiniteSet(A \X B) /\ Cardinality(A \X B) = Cardinality(A) * Cardinality(B)
    BY <1>1, <1>2, FS_Product DEF A, B
  <2> QED BY <2>1, <1>1, <1>2 DEF A, B
<1>4. Cardinality(S) \in Nat /\ Cardinality({}) = 0
  BY FS_CardinalityType, FS_EmptySet
<1>5. S \cap C = {}
  OBVIOUS
<1>6. IsFiniteSet(S \cup C) /\ Cardinality(S \cup C) = Cardinality(S) + n
  <2> HIDE DEF C
  <2>1. IsFiniteSet(S \cup C)
        /\ Cardinality(S \cup C) = Cardinality(S) + Cardinality(C) - Cardinality(S \cap C)
    BY <1>3, FS_Union
  <2>2. Cardinality(S \cap C) = 0
    BY <1>4, <1>5
  <2> QED BY <2>1, <2>2, <1>3, <1>4
<1> QED BY <1>6

-----------------------------------------------------------------------------
(* Init and the steps that leave the log alone *)

\* Nothing is started, nothing is logged.
LEMMA InitInv == Init => IInv
<1> SUFFICES ASSUME Init PROVE IInv
  OBVIOUS
<1>1. Absent \in Row /\ Absent.hint = 0 /\ Absent.score = 0 /\ Absent.moveCount = 0
      /\ Absent.status = "NONE" /\ Absent.start = 0
  BY FreshRow DEF Fresh, Absent
<1>2. TypeOK
  BY <1>1, MissionAssumption DEF Init, TypeOK, Idle, Request
<1>3. ReqInv /\ LogInv
  BY <1>1 DEF Init, ReqInv, Remembers, LogInv, Idle
<1>4. PositionInv
  <2>1. \A a \in Attempts : ConfirmedMoves(a) = {}
    BY DEF Init, ConfirmedMoves, Current
  <2> QED BY <1>1, <2>1, FS_EmptySet DEF Init, PositionInv
<1>5. OutcomeIsEarned
  BY <1>1 DEF Init, OutcomeIsEarned, Current
<1> QED BY <1>2, <1>3, <1>4, <1>5 DEF IInv

\* Rows that keep status, position, mistakes and start, and an unchanged log,
\* keep what is said about the log.
LEMMA SameOutcome ==
    ASSUME IInv, UNCHANGED <<moves, reward>>,
           \A a \in Attempts :
              /\ attempt'[a].status = attempt[a].status
              /\ attempt'[a].node = attempt[a].node
              /\ attempt'[a].moveCount = attempt[a].moveCount
              /\ attempt'[a].wrong = attempt[a].wrong
              /\ attempt'[a].start = attempt[a].start
    PROVE  LogInv' /\ PositionInv' /\ OutcomeIsEarned'
<1>1. \A m \in moves : m.attempt \in Attempts
  BY DEF IInv, TypeOK, Entry
<1>2. \A a \in Attempts : Current(a)' = Current(a)
  BY DEF Current
<1>3. \A a \in Attempts : ConfirmedMoves(a)' = ConfirmedMoves(a)
  BY <1>2 DEF ConfirmedMoves
<1>4. LogInv'
  BY <1>1 DEF IInv, LogInv
<1>5. PositionInv'
  BY <1>3 DEF IInv, PositionInv
<1>6. OutcomeIsEarned'
  BY <1>2 DEF IInv, OutcomeIsEarned
<1> QED BY <1>4, <1>5, <1>6

\* A request that ends remembers nothing.
LEMMA DoneInv ==
    ASSUME IInv, NEW r \in Requests, Done(r)
    PROVE  req' \in [Requests -> Request] /\ ReqInv'
<1>1. Idle \in Request /\ Remembers(Idle)
  BY FreshRow, MissionAssumption DEF Idle, Request, Remembers, Absent, Fresh
<1> QED BY <1>1 DEF IInv, TypeOK, ReqInv, Remembers, Done

\* Reading and checking a move, or reading for a hint: the rows do not change.
LEMMA ReadInv ==
    ASSUME IInv, UNCHANGED <<attempt, moves, reward>>,
           overdue' \in [Attempts -> Nat \cup {-1}],
           req' \in [Requests -> Request], ReqInv'
    PROVE  IInv'
<1>1. LogInv' /\ PositionInv' /\ OutcomeIsEarned'
  BY SameOutcome
<1>2. TypeOK'
  BY DEF IInv, TypeOK
<1> QED BY <1>1, <1>2 DEF IInv

\* MoveRead remembers the row as it is.
LEMMA MoveReadInv ==
    ASSUME IInv, NEW r \in Requests, NEW a \in Attempts, NEW id \in ClientIds,
           NEW move \in Children[attempt[a].node] \cup {Wrong, Illegal},
           MoveRead(r, a, id, move)
    PROVE  IInv'
<1> DEFINE q == [pc |-> "check", attempt |-> a, id |-> id, move |-> move,
                 row |-> attempt[a]]
<1>1. attempt[a] \in Row /\ attempt[a].node \in Nodes
  BY DEF IInv, TypeOK, Row
<1>2. move \in Nodes \cup {Wrong, Illegal, Late}
  BY <1>1, MissionAssumption
<1>3. q \in Request /\ Remembers(q)
  BY <1>1, <1>2 DEF Request, Remembers, IInv, OutcomeIsEarned
<1>4. req' = [req EXCEPT ![r] = q] /\ UNCHANGED <<attempt, moves, overdue, reward>>
  BY DEF MoveRead
<1> HIDE DEF q
<1>5. req' \in [Requests -> Request] /\ ReqInv'
  BY <1>3, <1>4 DEF IInv, TypeOK, ReqInv, Remembers
<1> QED BY <1>4, <1>5, ReadInv DEF IInv, TypeOK

\* MoveCheck lets a move on only from an open row.
LEMMA MoveCheckInv ==
    ASSUME IInv, NEW r \in Requests, MoveCheck(r)
    PROVE  IInv'
<1>0. UNCHANGED <<attempt, moves, overdue, reward>>
  BY DEF MoveCheck
<1>1. CASE Done(r)
  BY <1>0, <1>1, DoneInv, ReadInv DEF IInv, TypeOK
<1>2. CASE ~Done(r)
  <2>1. MoveGoesOn(r)
        /\ req' = [req EXCEPT ![r].pc = "apply",
                              ![r].move = IF @ # Late /\ req[r].row.start
                                                <= overdue[req[r].attempt]
                                            THEN Late ELSE @]
    BY <1>2 DEF MoveCheck
  <2>2. req[r] \in Request /\ Remembers(req[r]) /\ req[r].pc = "check"
    BY DEF IInv, TypeOK, ReqInv, MoveCheck
  <2>3. req'[r].pc = "apply" /\ req'[r].attempt = req[r].attempt
        /\ req'[r].id = req[r].id /\ req'[r].row = req[r].row
        /\ req'[r] \in Request
    BY <2>1, <2>2 DEF Request, IInv, TypeOK
  <2>4. Remembers(req'[r])
    BY <2>1, <2>2, <2>3 DEF Remembers, MoveGoesOn
  <2>5. \A x \in Requests : x # r => req'[x] = req[x]
    BY <2>1 DEF IInv, TypeOK
  <2>6. req' \in [Requests -> Request]
    BY <2>1, <2>3, <2>5 DEF IInv, TypeOK
  <2>7. ReqInv'
    BY <2>4, <2>5 DEF IInv, ReqInv, Remembers
  <2> QED BY <1>0, <2>6, <2>7, ReadInv DEF IInv, TypeOK
<1> QED BY <1>1, <1>2

\* HintRead remembers an open row with a hint left.
LEMMA HintReadInv ==
    ASSUME IInv, NEW r \in Requests, NEW a \in Attempts, HintRead(r, a)
    PROVE  IInv'
<1> DEFINE q == [pc |-> "hint", attempt |-> a, id |-> None, move |-> Illegal,
                 row |-> attempt[a]]
<1>2. q \in Request /\ Remembers(q)
  BY DEF HintRead, Request, Remembers, IInv, TypeOK, OutcomeIsEarned
<1>3. req' = [req EXCEPT ![r] = q] /\ UNCHANGED <<attempt, moves, overdue, reward>>
  BY DEF HintRead
<1> HIDE DEF q
<1>4. req' \in [Requests -> Request] /\ ReqInv'
  BY <1>2, <1>3 DEF IInv, TypeOK, ReqInv, Remembers
<1> QED BY <1>3, <1>4, ReadInv DEF IInv, TypeOK

\* HintWrite stores the next level and its score, and nothing else.
LEMMA HintWriteInv ==
    ASSUME IInv, NEW r \in Requests, HintWrite(r)
    PROVE  IInv'
<1> DEFINE b == req[r].attempt
           row == req[r].row
<1>1. req[r] \in Request /\ Remembers(req[r]) /\ req[r].pc = "hint"
  BY DEF IInv, TypeOK, ReqInv, HintWrite
<1>2. b \in Attempts /\ row \in Row /\ row.hint < HintCount
      /\ row.wrong \in Nat /\ row.hint + 1 \in Nat
  BY <1>1 DEF Remembers, Request, Row
<1>3. Score(row.wrong, row.hint + 1) \in Nat
      /\ Score(row.wrong, row.hint + 1) <= BaseScore
  BY <1>2, ScoreBounds
<1>4. /\ attempt' = [attempt EXCEPT ![b].hint = row.hint + 1,
                                    ![b].hintUses = @ + 1,
                                    ![b].score = Score(row.wrong, row.hint + 1)]
      /\ Done(r) /\ UNCHANGED <<moves, overdue, reward>>
  BY DEF HintWrite
<1> HIDE DEF b, row
<1>5. attempt \in [Attempts -> Row]
  BY DEF IInv, TypeOK
<1>6. attempt' \in [Attempts -> Row]
  BY <1>2, <1>3, <1>4, <1>5 DEF Row
<1>7. \A a \in Attempts :
         /\ attempt'[a].status = attempt[a].status
         /\ attempt'[a].node = attempt[a].node
         /\ attempt'[a].moveCount = attempt[a].moveCount
         /\ attempt'[a].wrong = attempt[a].wrong
         /\ attempt'[a].start = attempt[a].start
         /\ attempt'[a].hint <= HintCount
         /\ attempt'[a].score <= BaseScore
  BY <1>2, <1>3, <1>4, <1>5, MissionAssumption DEF Row, IInv, TypeOK
<1>8. LogInv' /\ PositionInv' /\ OutcomeIsEarned'
  BY <1>4, <1>7, SameOutcome
<1>9. req' \in [Requests -> Request] /\ ReqInv'
  BY <1>4, DoneInv
<1> QED BY <1>4, <1>6, <1>7, <1>8, <1>9 DEF IInv, TypeOK

-----------------------------------------------------------------------------
(* Starts, retries, the clock *)

\* A row reset to a start the log has not reached has confirmed nothing.
LEMMA FreshInv ==
    ASSUME IInv, NEW a \in Attempts, NEW n \in Nat,
           attempt' = [attempt EXCEPT ![a] = Fresh(n)],
           UNCHANGED <<moves, overdue, reward, req>>,
           \A m \in moves : m.attempt = a => m.start < n
    PROVE  IInv'
<1>1. Fresh(n) \in Row /\ Fresh(n).hint = 0 /\ Fresh(n).score = 0
      /\ Fresh(n).moveCount = 0 /\ Fresh(n).status = "IN_PROGRESS"
      /\ Fresh(n).start = n /\ Fresh(n).wrong = 0
  BY FreshRow DEF Fresh
<1>2. attempt' \in [Attempts -> Row] /\ attempt'[a] = Fresh(n)
      /\ \A b \in Attempts : b # a => attempt'[b] = attempt[b]
  BY <1>1 DEF IInv, TypeOK
<1> HIDE DEF Fresh
<1>3. TypeOK'
  BY <1>1, <1>2, MissionAssumption DEF IInv, TypeOK
<1>4. ReqInv'
  BY DEF IInv, ReqInv, Remembers
<1>5. moves \subseteq Entry
  BY DEF IInv, TypeOK
<1>6. LogInv'
  BY <1>1, <1>2, <1>5 DEF IInv, LogInv, Entry
<1>7. Current(a)' = {} /\ \A b \in Attempts : b # a => Current(b)' = Current(b)
  BY <1>1, <1>2, <1>5 DEF Current, Entry
<1>8. ConfirmedMoves(a)' = {}
      /\ \A b \in Attempts : b # a => ConfirmedMoves(b)' = ConfirmedMoves(b)
  BY <1>7 DEF ConfirmedMoves
<1>9. PositionInv'
  BY ZenonT(60), <1>1, <1>2, <1>8, FS_EmptySet DEF IInv, PositionInv
<1>10. OutcomeIsEarned'
  BY <1>1, <1>2, <1>7, MissionAssumption DEF IInv, OutcomeIsEarned
<1> QED BY <1>3, <1>4, <1>6, <1>9, <1>10 DEF IInv

\* StartAttempt: no move was logged for an attempt that did not exist.
LEMMA StartInv ==
    ASSUME IInv, NEW a \in Attempts, StartAttempt(a)
    PROVE  IInv'
BY FreshInv DEF StartAttempt, IInv, LogInv

\* RetryAttempt: the log stays behind the new start.
LEMMA RetryInv ==
    ASSUME IInv, NEW a \in Attempts, RetryAttempt(a)
    PROVE  IInv'
<1>1. attempt[a].start \in Nat /\ attempt[a].start + 1 \in Nat
  BY DEF IInv, TypeOK, Row
<1>2. \A m \in moves : m.attempt = a => m.start < attempt[a].start + 1
  BY <1>1 DEF IInv, TypeOK, Entry, LogInv
<1> QED BY <1>1, <1>2, FreshInv DEF RetryAttempt

\* The clock and the death of a request leave every row alone.
LEMMA QuietInv ==
    ASSUME IInv,
           \/ \E a \in Attempts : TimeLimitPasses(a)
           \/ \E r \in Requests : RequestDies(r)
           \/ UNCHANGED vars
    PROVE  IInv'
<1>1. ASSUME NEW a \in Attempts, TimeLimitPasses(a) PROVE IInv'
  <2>1. attempt[a].start \in Nat
    BY DEF IInv, TypeOK, Row
  <2>2. overdue' \in [Attempts -> Nat \cup {-1}]
    BY <1>1, <2>1 DEF TimeLimitPasses, IInv, TypeOK
  <2> QED BY <1>1, <2>2, ReadInv DEF TimeLimitPasses, IInv, TypeOK, ReqInv, Remembers
<1>2. ASSUME NEW r \in Requests, RequestDies(r) PROVE IInv'
  BY <1>2, DoneInv, ReadInv DEF RequestDies, IInv, TypeOK
<1>3. ASSUME UNCHANGED vars PROVE IInv'
  BY <1>3, ReadInv DEF vars, IInv, TypeOK, ReqInv, Remembers
<1> QED BY <1>1, <1>2, <1>3

-----------------------------------------------------------------------------
(* The transaction of a move *)

\* A claimed move continues the row that was judged: its position, its count
\* and its mistakes are the basis of the new ones, and its entry is new.
LEMMA ClaimInv ==
    ASSUME IInv, NEW a \in Attempts, NEW row \in Row, NEW entry \in Entry,
           NEW move \in Nodes \cup {Wrong, Illegal, Late},
           attempt[a].status = "IN_PROGRESS",
           attempt[a].node = row.node, attempt[a].moveCount = row.moveCount,
           entry.attempt = a, entry.start = attempt[a].start,
           entry.completes = Completes(row, move),
           entry.confirmed = Confirmed(row, move), entry \notin moves,
           attempt' = [attempt EXCEPT ![a] = RowAfter(row, move, @)],
           moves' = moves \cup {entry},
           reward' = Grant(a, Completes(row, move)), UNCHANGED overdue,
           req' \in [Requests -> Request], ReqInv'
    PROVE  IInv'
<1>1. attempt \in [Attempts -> Row] /\ attempt[a] \in Row
  BY DEF IInv, TypeOK
<1> DEFINE new == attempt'[a]
<1>2. /\ new = RowAfter(row, move, attempt[a])
      /\ \A b \in Attempts : b # a => attempt'[b] = attempt[b]
  BY <1>1
<1>3. /\ new.status = StatusAfter(row, move)
      /\ new.node = NodeAfter(row, move)
      /\ new.moveCount = row.moveCount + Confirmed(row, move)
      /\ new.wrong = IF move = Late THEN attempt[a].wrong ELSE WrongAfter(row, move)
      /\ new.hint = attempt[a].hint
      /\ new.score = Score(WrongAfter(row, move), row.hint)
      /\ new.start = attempt[a].start
  BY <1>2 DEF RowAfter
<1>4. new \in Row /\ new.score <= BaseScore
  <2>1. Score(WrongAfter(row, move), row.hint) \in Nat
        /\ Score(WrongAfter(row, move), row.hint) <= BaseScore
    BY MoveEffects, ScoreBounds DEF Row
  <2> QED BY <1>1, <1>2, <1>3, <2>1, MoveEffects DEF RowAfter, Row, Status
<1>5. attempt' \in [Attempts -> Row]
  BY <1>1, <1>4
<1> HIDE DEF new
<1>6. TypeOK'
  BY <1>2, <1>3, <1>4, <1>5 DEF IInv, TypeOK, Grant, new
<1>7. LogInv'
  <2>1. new.status # "NONE"
    BY <1>3, MoveEffects
  <2> QED BY <1>1, <1>2, <1>3, <2>1 DEF IInv, TypeOK, LogInv, Row, Entry, new
<1>8. /\ Current(a)' = Current(a) \cup {entry}
      /\ \A b \in Attempts : b # a => Current(b)' = Current(b)
  BY <1>2, <1>3 DEF Current, new
<1>9. PositionInv'
  <2>1. \A b \in Attempts : b # a => ConfirmedMoves(b)' = ConfirmedMoves(b)
    BY <1>8 DEF ConfirmedMoves
  <2>2. ConfirmedMoves(a)'
          = ConfirmedMoves(a) \cup ({entry} \X (1 .. Confirmed(row, move)))
    BY <1>8 DEF ConfirmedMoves
  <2>3. ConfirmedMoves(a) \cap ({entry} \X (1 .. Confirmed(row, move))) = {}
    BY DEF ConfirmedMoves, Current
  <2>4. Confirmed(row, move) \in Nat
    BY MoveEffects
  <2>5. IsFiniteSet(ConfirmedMoves(a))
        /\ attempt[a].moveCount = Cardinality(ConfirmedMoves(a))
    BY DEF IInv, PositionInv
  <2>6. IsFiniteSet(ConfirmedMoves(a)')
        /\ Cardinality(ConfirmedMoves(a)') = attempt[a].moveCount + Confirmed(row, move)
    <3>1. PICK S : S = ConfirmedMoves(a)
      OBVIOUS
    <3>2. PICK n \in Nat : n = Confirmed(row, move)
      BY <2>4
    <3>3. IsFiniteSet(S) /\ S \cap ({entry} \X (1 .. n)) = {}
      BY <3>1, <3>2, <2>3, <2>5
    <3>4. IsFiniteSet(S \cup ({entry} \X (1 .. n)))
          /\ Cardinality(S \cup ({entry} \X (1 .. n))) = Cardinality(S) + n
      BY <3>3, OneMoreEntry
    <3> QED BY <3>1, <3>2, <3>4, <2>2, <2>5
  <2> QED BY <1>2, <1>3, <2>1, <2>6 DEF IInv, PositionInv, new
<1>10. OutcomeIsEarned'
  <2>1. row.moveCount \in Nat /\ Confirmed(row, move) \in Nat
    BY MoveEffects DEF Row
  <2>2. new.status = "COMPLETED" <=> new.moveCount > 0 /\ Kind[new.node] = "success"
    BY <1>3, <2>1, MoveEffects DEF IInv, OutcomeIsEarned
  <2>3. new.status = "COMPLETED" <=> \E m \in Current(a)' : m.completes
    BY <1>3, <1>8, MoveEffects DEF IInv, OutcomeIsEarned
  <2>4. new.status = "IN_PROGRESS" /\ RetryLimit # NoLimit => new.wrong < RetryLimit
    BY <1>3, MoveEffects
  <2>5. \A b \in Attempts : b # a =>
          /\ attempt'[b].status = "COMPLETED"
               <=> attempt'[b].moveCount > 0 /\ Kind[attempt'[b].node] = "success"
          /\ attempt'[b].status = "COMPLETED" <=> \E m \in Current(b)' : m.completes
          /\ attempt'[b].status = "IN_PROGRESS" /\ RetryLimit # NoLimit
               => attempt'[b].wrong < RetryLimit
    BY <1>2, <1>8 DEF IInv, OutcomeIsEarned
  <2>6. /\ reward' = None => \A m \in moves' : ~m.completes
        /\ reward' # None => \E m \in moves' : m.completes /\ m.attempt = reward'
    BY MissionAssumption DEF IInv, OutcomeIsEarned, Grant
  <2> QED BY <2>2, <2>3, <2>4, <2>5, <2>6 DEF OutcomeIsEarned, new
<1> QED BY <1>6, <1>7, <1>9, <1>10 DEF IInv

\* MoveApply writes a claimed move whose clientMoveId is not in the log yet,
\* or nothing.
LEMMA MoveApplyInv ==
    ASSUME IInv, NEW r \in Requests, MoveApply(r)
    PROVE  IInv'
<1>1. req[r] \in Request /\ Remembers(req[r]) /\ req[r].pc = "apply"
  BY DEF IInv, TypeOK, ReqInv, MoveApply
<1>2. PICK a \in Attempts, row \in Row, move \in Nodes \cup {Wrong, Illegal, Late},
           id \in ClientIds :
        /\ a = req[r].attempt /\ row = req[r].row /\ move = req[r].move
        /\ id = req[r].id
  BY <1>1 DEF Remembers, Request
<1>3. req' \in [Requests -> Request] /\ ReqInv' /\ UNCHANGED overdue
  BY DoneInv DEF MoveApply
<1>4. CASE ~(Claimed(r) /\ ~Logged(a, id))
  BY <1>2, <1>3, <1>4, ReadInv DEF MoveApply, IInv, TypeOK
<1>5. CASE Claimed(r) /\ ~Logged(a, id)
  <2> DEFINE entry == [attempt |-> a, id |-> id, start |-> attempt[a].start,
                       wrong |-> Mistaken(row, move),
                       completes |-> Completes(row, move),
                       confirmed |-> Confirmed(row, move)]
  <2>1. /\ attempt' = [attempt EXCEPT ![a] = RowAfter(row, move, @)]
        /\ moves' = moves \cup {entry}
        /\ reward' = Grant(a, Completes(row, move))
    BY <1>2, <1>5 DEF MoveApply
  <2>2. /\ attempt[a].status = "IN_PROGRESS"
        /\ attempt[a].node = row.node
        /\ attempt[a].moveCount = row.moveCount
    BY <1>2, <1>5 DEF Claimed
  <2>3. attempt[a].start \in Nat
    BY DEF IInv, TypeOK, Row
  <2>4. PICK e \in Entry : e = entry
    BY <2>3, MoveEffects DEF Entry
  <2>5. e \notin moves
    BY <1>5, <2>4 DEF Logged
  <2>6. /\ e.attempt = a /\ e.start = attempt[a].start
        /\ e.completes = Completes(row, move)
        /\ e.confirmed = Confirmed(row, move)
    BY <2>4
  <2>7. moves' = moves \cup {e}
    BY <2>1, <2>4
  <2> HIDE DEF entry
  <2> QED BY <1>3, <2>1, <2>2, <2>5, <2>6, <2>7, ClaimInv
<1> QED BY <1>4, <1>5

-----------------------------------------------------------------------------
(* What holds always *)

\* What no step does to a finished attempt or a grant.
Kept ==
    /\ \A a \in Attempts :
         /\ attempt[a].status \in {"COMPLETED", "FAILED"}
         /\ attempt'[a].start = attempt[a].start
         => /\ attempt'[a].status = attempt[a].status
            /\ attempt'[a].node = attempt[a].node
            /\ attempt'[a].wrong = attempt[a].wrong
    /\ reward # None => reward' = reward

\* Every step keeps the inductive invariant.
LEMMA NextInv == IInv /\ [Next]_vars => IInv'
<1> SUFFICES ASSUME IInv, [Next]_vars PROVE IInv'
  OBVIOUS
<1> QED BY StartInv, RetryInv, QuietInv, MoveReadInv, MoveCheckInv, MoveApplyInv,
           HintReadInv, HintWriteInv DEF Next

\* No step moves a finished attempt on but a retry, and no step moves a grant.
LEMMA NextKept == IInv /\ Next => Kept
<1> SUFFICES ASSUME IInv, Next PROVE Kept
  OBVIOUS
<1>0. attempt \in [Attempts -> Row]
  BY DEF IInv, TypeOK
<1>1. ASSUME UNCHANGED <<attempt, reward>> PROVE Kept
  BY <1>1 DEF Kept
<1>2. ASSUME NEW a \in Attempts, StartAttempt(a) \/ RetryAttempt(a) PROVE Kept
  <2>1. PICK n \in Nat : /\ attempt' = [attempt EXCEPT ![a] = Fresh(n)]
                         /\ attempt[a].status = "NONE" \/ n = attempt[a].start + 1
    BY <1>0, <1>2 DEF StartAttempt, RetryAttempt, Row
  <2>2. reward' = reward
    BY <1>2 DEF StartAttempt, RetryAttempt
  <2>3. Fresh(n).start = n /\ attempt[a].start \in Nat
    BY <1>0 DEF Fresh, Row
  <2> QED BY <1>0, <2>1, <2>2, <2>3 DEF Kept
<1>3. ASSUME NEW r \in Requests, MoveApply(r) PROVE Kept
  BY SMTT(60), <1>0, <1>3 DEF MoveApply, Claimed, Grant, Kept
<1>4. ASSUME NEW r \in Requests, HintWrite(r) PROVE Kept
  <2> DEFINE b == req[r].attempt
  <2>1. b \in Attempts
    BY <1>4 DEF IInv, ReqInv, Remembers, HintWrite
  <2>2. attempt'[b].status = attempt[b].status /\ attempt'[b].node = attempt[b].node
        /\ attempt'[b].wrong = attempt[b].wrong
        /\ \A a \in Attempts : a # b => attempt'[a] = attempt[a]
    BY <1>0, <1>4, <2>1 DEF HintWrite, Row
  <2> QED BY ZenonT(60), <1>4, <2>2 DEF HintWrite, Kept
<1> QED BY <1>1, <1>2, <1>3, <1>4
        DEF Next, TimeLimitPasses, MoveRead, MoveCheck, HintRead, RequestDies

\* The inductive invariant holds always, and no step breaks Kept.
LEMMA Invariant == Spec => []IInv /\ [][Kept]_vars
<1>1. Init => IInv
  BY InitInv
<1>2. IInv /\ [Next]_vars => IInv'
  BY NextInv
<1>3. IInv /\ [Next]_vars => [Kept]_vars
  BY NextKept
<1> QED BY <1>1, <1>2, <1>3, PTL DEF Spec

\* Rows, log, grant and requests keep their types; no hint beyond the last one
\* and no score beyond the base score is stored.
THEOREM MissionTypes == Spec => []TypeOK
<1>1. IInv => TypeOK
  BY DEF IInv
<1> QED BY <1>1, Invariant, PTL

\* submitMove, retry: the position is the one the logged moves lead to.
THEOREM MissionPosition == Spec => []PositionMatchesLog
<1>1. IInv => PositionMatchesLog
  BY DEF IInv, PositionInv, PositionMatchesLog
<1> QED BY <1>1, Invariant, PTL

\* submitMove: an attempt is completed, failed and rewarded by its own moves.
THEOREM MissionOutcome == Spec => []OutcomeIsEarned
<1>1. IInv => OutcomeIsEarned
  BY DEF IInv
<1> QED BY <1>1, Invariant, PTL

\* submitMove, failTimedOutAttempt, useHint: only a retry changes the outcome
\* of a finished attempt, and the grant never moves.
THEOREM MissionFinished == Spec => FinishedStaysFinished
<1>1. [Kept]_vars => [Kept]_vars
  OBVIOUS
<1> QED BY <1>1, Invariant, PTL DEF FinishedStaysFinished, Kept

=============================================================================
