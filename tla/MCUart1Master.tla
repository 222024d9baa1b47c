--------------------------- MODULE MCUart1Master ----------------------------
(* Instances of Uart1Master for TLC. *)
EXTENDS Uart1Master

CONSTANTS ep2000, tracer

(***************************************************************************)
(* The bounds on the states: early timeouts and a slave beside the master  *)
(* only while one driver sends, and one of the two at a time.              *)
(***************************************************************************)
EarlyAlone == /\ early \/ slave => users \subseteq {ep2000}
              /\ ~ (early /\ slave)
=============================================================================
