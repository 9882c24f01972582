------------------------- MODULE MCTransportOwnership -------------------------
(***************************************************************************)
(* Model values for TransportOwnership.                                    *)
(***************************************************************************)
EXTENDS TransportOwnership

CONSTANTS o1, o2, h1, h2, t1, t2
===============================================================================
