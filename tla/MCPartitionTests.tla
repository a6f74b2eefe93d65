--------------------------- MODULE MCPartitionTests ---------------------------
(* Instances of PartitionTests for TLC: the two partitions, their clients  *)
(* and their tests.                                                        *)
EXTENDS PartitionTests

CONSTANTS c1, v1, v2

MCClient == {c1, Attest}
MCValue == {v1, v2}

(* Ids of one length. *)
Id1 == <<1, 1>>
Id2 == <<1, 2>>
MCSigner == {Id1, Id2}

(* Extends of slot 1 by each signer, a locking one with another value and  *)
(* other lengths; a read; a message of an unknown type.                    *)
ExtendOf(i, id, ver, sw, lk) ==
    [type |-> "extend", checked |-> "ok", index |-> i, signer_id |-> id,
     value |-> IF lk THEN v2 ELSE v1, version_size |-> ver, sw_type_size |-> sw,
     lock |-> lk]
ReadFrom(i) ==
    [type |-> "read", checked |-> "ok", index |-> i, signer_id_size |-> SignerMax,
     version_size |-> VersionMax, sw_type_size |-> SwTypeMax, value_size |-> 1]
MCCall ==
    {ExtendOf(1, Id1, 2, 1, FALSE), ExtendOf(1, Id2, 1, 0, TRUE),
     ReadFrom(1)}
    \cup OtherCall

(* Keys with two hash algorithms; tokens for the hash of the key handed    *)
(* out, of the current key and of none, of either length; and a message of *)
(* an unknown type.                                                        *)
MCRequest ==
    {KeyCall("secp_r1", 384, "sha_512", Bytes(384), TRUE),
     KeyCall("secp_r1", 384, "sha_256", Bytes(384), TRUE),
     Token("given", 64, TokenSize, "ok").req,
     Token("current", 64, TokenSize, "ok").req,
     Token("other", 64, TokenSize, "ok").req,
     Token("current", 32, TokenSize, "ok").req}
    \cup OtherCall

BootEntry(i, id, ver, lk) ==
    [kind |-> "measurement", index |-> i, signer_id |-> id, value |-> v1,
     version_size |-> ver, sw_type_size |-> 1, lock |-> lk]
Malformed == [kind |-> "malformed"]

(* One locked boot measurement; two for one slot and one for the next; a   *)
(* second entry for a locked slot or by another signer; nothing; malformed *)
(* data.                                                                   *)
MCBootImages ==
    {<<BootEntry(0, Id1, 1, TRUE)>>,
     <<BootEntry(0, Id1, 1, FALSE), BootEntry(0, Id1, 1, TRUE),
       BootEntry(1, Id2, 2, FALSE)>>,
     <<BootEntry(0, Id1, 1, TRUE), BootEntry(0, Id1, 1, FALSE)>>,
     <<BootEntry(1, Id1, 1, FALSE), BootEntry(1, Id2, 1, TRUE)>>,
     << >>,
     <<BootEntry(1, Id2, 1, FALSE), Malformed>>}
===============================================================================
