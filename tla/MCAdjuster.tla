----------------------------- MODULE MCAdjuster -----------------------------
(* A small instance of the adaptive loop. *)
EXTENDS Adjuster

(* Measured for as long as it works, for less and for more. *)
MCWindows == {<<1, 1>>, <<3, 1>>, <<1, 2>>}
=============================================================================
