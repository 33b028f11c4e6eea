--------------------------- MODULE MCLocalScanner ---------------------------
(***************************************************************************)
(* Two goroutines capture the schedules of two theaters, two others open   *)
(* browsers for themselves: with two slots they can keep a round waiting.  *)
(* Three names are enough, since the session, or the Close that took it,   *)
(* and the two captures own at most three browsers.                        *)
(***************************************************************************)
EXTENDS LocalScanner, TLC

CONSTANTS r1, r2, o1, o2, ta, tb, b1, b2, b3

MCRounds == {r1, r2}
MCOneShots == {o1, o2}
MCTheaters == {ta, tb}
MCTheaterOf == [c \in MCRounds |-> IF c = r1 THEN ta ELSE tb]
MCBrowsers == {b1, b2, b3}
MCSymmetry == Permutations(MCOneShots) \cup Permutations(MCBrowsers)

MCOneRound == {r1}
MCOneTheater == {ta}
MCTheaterOfOne == [c \in MCOneRound |-> ta]

=============================================================================
