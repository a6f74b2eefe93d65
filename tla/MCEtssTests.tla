------------------------------ MODULE MCEtssTests ------------------------------
(* Instances of EtssTests for TLC. *)
EXTENDS EtssTests

CONSTANTS c1, c2, c3, c4

MCClient == {c1, c2, c3, c4}
MCCtx == {c1, c2, c3}

(* Only the suites call. *)
MCRequest == {}
MCCalls == [c \in MCClient |-> {}]
===============================================================================
