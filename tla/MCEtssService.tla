--------------------------- MODULE MCEtssService ---------------------------
(* Instances of EtssService for TLC. *)
EXTENDS EtssService

CONSTANTS c1, c2, c3

MCClient == {c1, c2, c3}
MCAppInfo == {c1, c2}

Set(u, d, o) ==
    [op |-> "set", uid |-> u, data |-> d, once |-> o, sizes_ok |-> TRUE, flags_ok |-> TRUE]
GetPart(u, off, n) ==
    [op |-> "get", uid |-> u, offset |-> off, size |-> n, sizes_ok |-> TRUE]
Plain(o, u) == [op |-> o, uid |-> u, sizes_ok |-> TRUE]
Simple(o) == [op |-> o]

(* Two clients that store and read under the same uid, one of them in two  *)
(* chunks, and one without access rights that tries to, also with a uid    *)
(* that is not valid.                                                      *)
MCCalls ==
    [c \in MCClient |->
       CASE c = c1 -> {Set(1, <<2, 3>>, FALSE), GetPart(1, 0, 3), Plain("remove", 1)}
         [] c = c2 -> {Set(1, <<4>>, FALSE), GetPart(1, 0, 1), Set(1, <<5, 5, 5>>, FALSE),
                       Simple("provisioning")}
         [] c = c3 -> {Set(1, <<6>>, FALSE), Plain("get_info", 1), Plain("remove", 0),
                       Simple("mc_inc")}]
MCRequest == UNION {MCCalls[c] : c \in MCClient}
=============================================================================
