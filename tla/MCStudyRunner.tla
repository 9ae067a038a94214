--------------------------- MODULE MCStudyRunner ---------------------------
(* Two blocks of two profiles; the numbers of attempts are bounded by the     *)
(* times a process can die or a slot can fail.                                *)
EXTENDS StudyRunner
CONSTANTS p1, p2
MCProfiles == {p1, p2}
=============================================================================
