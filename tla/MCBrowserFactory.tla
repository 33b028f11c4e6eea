-------------------------- MODULE MCBrowserFactory --------------------------
(***************************************************************************)
(* Two session tasks and one scan compete for two slots: the sessions also *)
(* compete for the account profile and share a lease, and after a          *)
(* reconfiguration or a loss the second session has to replace the lease   *)
(* of the first one.  The sessions are interchangeable, and so are the     *)
(* slots: no property of the safety run names one.                         *)
(***************************************************************************)
EXTENDS BrowserFactory, TLC

CONSTANTS a, b, c, s1, s2

MCTasks == {a, b, c}
MCPurpose == [t \in MCTasks |-> IF t = c THEN "scan" ELSE "session"]
MCSessions == {a, b}
MCSessionPurpose == [t \in MCSessions |-> "session"]
MCSlots == {s1, s2}
MCSymmetry == Permutations(MCSessions) \cup Permutations(MCSlots)

=============================================================================
