-------------------------- MODULE MCEpeverDrivers ---------------------------
(* Instances of EpeverDrivers for TLC. *)
EXTENDS EpeverDrivers

CONSTANTS console, led

(***************************************************************************)
(* The bound on the states: the tracer has one caller, whose calls return  *)
(* before their replies; ip2000 has two such callers, or one whose calls   *)
(* return at any time.                                                     *)
(***************************************************************************)
Explored == \/ users = {console} /\ (prompt \/ ~ Tracer)
            \/ users = {console, led} /\ prompt /\ ~ Tracer
=============================================================================
