------------------------------- MODULE MCOtp -------------------------------
(***************************************************************************)
(* One user: the keys of the store and the rows of the table are per user,  *)
(* so requests of different users do not meet.  A unit of time is the life  *)
(* of a code (300 s); the window (900 s) is three of them.                  *)
(***************************************************************************)
EXTENDS Otp, TLC

Symetrie == Permutations(Requetes)
=============================================================================
