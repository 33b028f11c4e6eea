--------------------------- MODULE MCCaptureStore ---------------------------
(***************************************************************************)
(* Two exchanges, each of the HTTP transport, of the browser or of another *)
(* caller, that send the same body and receive the same body.              *)
(***************************************************************************)
EXTENDS CaptureStore, TLC

CONSTANTS x, y

MCSent == [c \in Captures |-> x]
MCReceived == [c \in Captures |-> y]

Exchanges == Permutations(Captures)
=============================================================================
