---------------------------- MODULE MCLessonVideo ----------------------------
(* Small instances of LessonVideo for TLC; the configurations give the      *)
(* constants, and p1 and r1 are model values.                               *)
EXTENDS LessonVideo
=============================================================================
