-------------------------- MODULE MCMissionAttempt --------------------------
(* Small instances of MissionAttempt for TLC. *)
EXTENDS MissionAttempt, TLC

CONSTANTS start, middle, solved, lost

\* start -> middle -> solved, with a scripted reply on the way to middle, and
\* a branch of start that ends in failure.
MCNodes == {start, middle, solved, lost}
MCKind == start :> "player" @@ middle :> "player" @@ solved :> "success"
            @@ lost :> "failure"
MCChildren == start :> {middle, lost} @@ middle :> {solved}
                @@ solved :> {} @@ lost :> {}
MCReplies == start :> 0 @@ middle :> 1 @@ solved :> 0 @@ lost :> 0

Symmetry == Permutations(Requests) \cup Permutations(ClientIds)
              \cup Permutations(Attempts)
=============================================================================
