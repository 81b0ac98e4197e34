--------------------------- MODULE MCSessionStore ---------------------------
(* Instances of SessionStore for TLC. *)
EXTENDS SessionStore, TLC

CONSTANTS m1, m2, k1, k2

(* Two messages, and two compactions that each keep one of them and what   *)
(* follows it.                                                             *)
Compactions == m1 :> NoEntry @@ m2 :> NoEntry @@ k1 :> m1 @@ k2 :> m2
=============================================================================
