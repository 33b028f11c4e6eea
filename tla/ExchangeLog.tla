---------------------------- MODULE ExchangeLog ----------------------------
(***************************************************************************)
(* What the network capture store promises to the App that reads its       *)
(* index: a log to which a finished exchange is added at one instant and   *)
(* at most once, and from which nothing disappears but by a Clear, which   *)
(* takes all of it.  An exchange may also end without an entry: filtered,  *)
(* refused, failed, or lost in a crash.                                    *)
(***************************************************************************)
EXTENDS Naturals

CONSTANT Captures

VARIABLES
  entries,  \* how many entries of the log each capture has
  settled   \* the captures that have ended, with or without an entry

vars == <<entries, settled>>

Init == entries = [c \in Captures |-> 0] /\ settled = {}

Publish(c) ==
  /\ c \notin settled
  /\ settled' = settled \cup {c}
  /\ entries' = [entries EXCEPT ![c] = 1]

Discard(S) ==
  /\ settled \cap S = {}
  /\ settled' = settled \cup S
  /\ UNCHANGED entries

ClearAll == entries' = [c \in Captures |-> 0] /\ UNCHANGED settled

Next ==
  \/ \E c \in Captures : Publish(c)
  \/ \E S \in SUBSET Captures : Discard(S)
  \/ ClearAll

Spec == Init /\ [][Next]_vars
=============================================================================
