--------------------------- MODULE BrowserService ---------------------------
(***************************************************************************)
(* What the browser factory promises to those who open browsers with it:   *)
(* at most Capacity Chromes run at a time, one of them on the account      *)
(* profile; a browser may stop for reasons of its own; and once the        *)
(* factory is closing none is started, while those that run go down before *)
(* it is down.                                                             *)
(***************************************************************************)
EXTENDS Naturals, FiniteSets

CONSTANTS
  Browsers,
  Account,   \* the browsers on the account profile
  Capacity

VARIABLES
  running,   \* the browsers with a Chrome
  phase      \* "open", "shut" (none is started any more) or "down"

vars == <<running, phase>>

Init == running = {} /\ phase = "open"

Start(b) ==
  /\ phase = "open"
  /\ b \notin running /\ Cardinality(running) < Capacity
  /\ b \in Account => running \cap Account = {}
  /\ running' = running \cup {b}
  /\ UNCHANGED phase

Stop == running' \in SUBSET running /\ UNCHANGED phase

Close ==
  /\ phase # "down"
  /\ running' \in SUBSET running
  /\ \/ phase' = "shut"
     \/ phase' = "down" /\ running' = {}

Next == (\E b \in Browsers : Start(b)) \/ Stop \/ Close

Spec == Init /\ [][Next]_vars
=============================================================================
