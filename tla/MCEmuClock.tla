----------------------------- MODULE MCEmuClock -----------------------------
(***************************************************************************)
(* A small instance of EmuClock: three nodes (the two that are linked and  *)
(* the one malloc returns), two bytes of sprite RAM, and two pages of      *)
(* which the last is I/O and wraps to page 0.                              *)
(***************************************************************************)
EXTENDS EmuClockPace
=============================================================================
