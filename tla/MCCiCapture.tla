----------------------------- MODULE MCCiCapture ----------------------------
(***************************************************************************)
(* Times around the edges validate_arguments checks (negative, zero,     *)
(* equal, one apart) and past the two limits, scaled so that the INTEGER *)
(* column limit lies below the datetime limit, as 2^31 - 1 lies below   *)
(* the year-9999 timestamp.                                               *)
(***************************************************************************)
EXTENDS CiCapture

MCTimestamps == -1..4
=============================================================================
