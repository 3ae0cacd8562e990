------------------------------- MODULE Clock -------------------------------
(***************************************************************************)
(* The steady clock that the de-duplication and the rate limits read.      *)
(***************************************************************************)
EXTENDS Naturals

CONSTANT MaxTime    \* bound: the last tick of a behaviour

VARIABLE now        \* steady_clock::now(), in ticks since the start

PassTime == now < MaxTime /\ now' = now + 1
=============================================================================
