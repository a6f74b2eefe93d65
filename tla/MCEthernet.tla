------------------------------ MODULE MCEthernet ------------------------------
(* Frames and packets with and without bytes that do not fill a word. *)
EXTENDS Ethernet

MCRxSizes == <<5, 4>>
MCTxSizes == <<5, 4>>
===============================================================================
