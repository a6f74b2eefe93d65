---------------------------- MODULE DelegatedAttest ----------------------------
(***************************************************************************)
(* The delegated attestation partition (delegated_attest.c,                *)
(* delegated_attest_req_mngr.c and the client interface) beside the        *)
(* measured boot partition, of which it is one client: to derive a key it  *)
(* reads the slots one after the other, while others extend them.          *)
(*                                                                         *)
(* The encoded boot state is the sequence of the measurements that were    *)
(* read, and a key stands for its size and the boot state it was derived   *)
(* from.  The crypto and initial attestation services are external.        *)
(***************************************************************************)
EXTENDS MeasuredBoot

CONSTANTS
    Attest,         \* this partition, as a client of measured boot
    Request,        \* the calls of its own clients
    CryptoMayFail,  \* key derivation can return an error
    None

ASSUME AttestAssumption == Attest \in Client /\ CryptoMayFail \in BOOLEAN

Algo == {"sha_256", "sha_384", "sha_512"}
HashLength == [a \in Algo |-> CASE a = "sha_256" -> 32 [] a = "sha_384" -> 48
                                [] a = "sha_512" -> 64]

(* room and size_out are the client's buffer and its pointer for the size. *)
KeyRequest ==
    [type : {"key"}, curve : {"secp_r1", "secp_k1"}, bits : Nat,
     algo : Algo \cup {"unsupported"}, room : Nat, size_out : BOOLEAN]
(* The hash is that of the key handed out last, that of the key which      *)
(* dak_key_id names now, or no key's.  One that is longer than the buffer  *)
(* of 64 bytes is outside the model: get_platform_attestation_token reads  *)
(* it in before it looks at the length, and what that does is undefined.   *)
TokenRequest ==
    [type : {"token"}, hash_of : {"given", "current", "other"}, len : 0 .. 64,
     room : Nat, size_out : BOOLEAN]

ASSUME RequestAssumption ==
    Request \subseteq KeyRequest \cup TokenRequest \cup OtherCall

VARIABLES
    dak,                \* dak_key_id: the key that it names, None without one
    dak_requested,
    dak_pub_hash_algo,
    att,                \* the call being served, and how far it is
    given,              \* history: the key handed out last, and any made since
    outcome             \* the reply to the last call

attestVars == <<dak, dak_requested, dak_pub_hash_algo, att, given, outcome>>
allVars == <<vars, attestVars>>

Idle == [at |-> "idle"]
NoKey == [key |-> None, algo |-> None, missed |-> << >>, unreported |-> None]

AttestInit ==
    /\ dak = None /\ dak_requested = FALSE /\ dak_pub_hash_algo = None
    /\ att = Idle
    /\ given = NoKey
    /\ outcome = [status |-> "none"]

Finish(o) == att' = Idle /\ outcome' = o

-------------------------------------------------------------------------------
(* get_delegated_attestation_key *)

Bytes(bits) == (bits + 7) \div 8

(* The checks of the interface, of the request manager, and psa_hash_setup. *)
KeyChecks(r) ==
    IF ~r.size_out \/ r.curve # "secp_r1" \/ r.bits \notin {256, 384, 521}
      THEN "invalid_argument"
    ELSE IF r.room < Bytes(r.bits) THEN "buffer_too_small"
    ELSE IF r.algo \notin Algo THEN "not_supported"
    ELSE "ok"

(* Q_USEFUL_BUF_MAKE_STACK_UB: the buffers at their full size. *)
FullRoom == [signer_id |-> SignerMax, version |-> VersionMax, sw_type |-> SwTypeMax,
             value |-> 1]

(* History: the slots that hold a measurement, and the lengths they show. *)
Existing == [s \in {i \in Slot : slot[i].is_populated} |->
               [version_size |-> slot[s].version_size,
                sw_type_size |-> slot[s].sw_type_size]]

GetKey(r) ==
    /\ att = Idle /\ r.type = "key"
    /\ IF KeyChecks(r) # "ok"
         THEN Finish([status |-> KeyChecks(r)])
         ELSE /\ att' = [at |-> "ask", req |-> r, index |-> 0, room |-> FullRoom,
                         state |-> << >>, existed |-> Existing]
              /\ outcome' = [status |-> "none"]
    /\ UNCHANGED <<vars, dak, dak_requested, dak_pub_hash_algo, given>>

(* tfm_measured_boot_read_measurement of the next slot. *)
ReadSlot ==
    /\ att.at = "ask"
    /\ Send(Attest, [type |-> "read", checked |-> "ok", index |-> att.index,
                     signer_id_size |-> att.room.signer_id,
                     version_size |-> att.room.version,
                     sw_type_size |-> att.room.sw_type,
                     value_size |-> att.room.value])
    /\ att' = [att EXCEPT !.at = "wait"]
    /\ UNCHANGED <<dak, dak_requested, dak_pub_hash_algo, given, outcome>>

Record(a) == [index |-> a.index, signer_id |-> a.signer_id,
              version_size |-> a.version_size, sw_type_size |-> a.sw_type_size,
              value |-> a.value]

(* The lengths of what was read replace those of the buffers, and are the  *)
(* sizes that the next read is given.                                      *)
RoomAfter(a) == [signer_id |-> Len(a.signer_id), version |-> a.version_size,
                 sw_type |-> a.sw_type_size, value |-> HashSize(a.value)]

AdvanceToLast == [at |-> IF att.index = NumSlots - 2 THEN "derive" ELSE "ask",
                  index |-> att.index + 1]
Advance == [at |-> IF att.index = NumSlots - 1 THEN "derive" ELSE "ask",
            index |-> att.index + 1]

(* The body of the loop: a slot that cannot be read is passed over. *)
TakeAnswer(a) ==
    /\ att' = IF a.status # "ok"
                THEN [att EXCEPT !.at = Advance.at, !.index = Advance.index]
                ELSE [att EXCEPT !.state = Append(@, Record(a)), !.room = RoomAfter(a),
                                 !.at = Advance.at, !.index = Advance.index]
    /\ UNCHANGED outcome

(* get_platform_boot_state.  A measurement with an algorithm that has no   *)
(* name ends the call, and so does an encoding that is too long.           *)
CollectState ==
    /\ att.at = "wait" /\ msg[Attest] = NoMsg
    /\ \/ TakeAnswer(answer[Attest])
       \/ /\ CryptoMayFail /\ answer[Attest].status = "ok"
          /\ \E e \in {"generic_error", "buffer_too_small"} : Finish([status |-> e])
    /\ UNCHANGED <<vars, dak, dak_requested, dak_pub_hash_algo, given>>

KeyOf(a) == [bits |-> a.req.bits, state |-> a.state]

Indices(state) == {state[j].index : j \in 1 .. Len(state)}

(* History: the measurements that the boot state lacks. *)
Missed == [s \in DOMAIN att.existed \ Indices(att.state) |-> att.existed[s]]

KeyHandedOut ==
    /\ dak' = KeyOf(att)
    /\ dak_requested' = TRUE
    /\ dak_pub_hash_algo' = att.req.algo
    /\ given' = [key |-> KeyOf(att), algo |-> att.req.algo, missed |-> Missed,
                 unreported |-> None]
    /\ Finish([status |-> "ok", key_size |-> Bytes(att.req.bits)])

(* The old key is gone, whatever the derivation or the export returned;    *)
(* the two variables that describe it are not.                             *)
KeyLost ==
    /\ CryptoMayFail
    /\ dak' = None
    /\ given' = [given EXCEPT !.unreported = None]
    /\ Finish([status |-> "generic_error"])
    /\ UNCHANGED <<dak_requested, dak_pub_hash_algo>>

(* psa_destroy_key fails, and the old key stays. *)
KeyKept ==
    /\ CryptoMayFail
    /\ Finish([status |-> "generic_error"])
    /\ UNCHANGED <<dak, dak_requested, dak_pub_hash_algo, given>>

AlgorithmStoredEarly ==
    /\ CryptoMayFail
    /\ dak' = KeyOf(att)
    /\ given' = [given EXCEPT !.unreported = KeyOf(att)]
    /\ dak_pub_hash_algo' = att.req.algo
    /\ Finish([status |-> "generic_error"])
    /\ UNCHANGED dak_requested

(* The final abort fails, or the destruction of a key that could not be    *)
(* exported: the new key is there, but nobody is told.                     *)
KeyUnreported ==
    /\ CryptoMayFail
    /\ dak' = KeyOf(att)
    /\ given' = [given EXCEPT !.unreported = KeyOf(att)]
    /\ Finish([status |-> "generic_error"])
    /\ UNCHANGED <<dak_requested, dak_pub_hash_algo>>

(* derive_delegated_attestation_key: no boot state, no salt. *)
Derive ==
    /\ att.at = "derive"
    /\ IF att.state = << >>
         THEN /\ Finish([status |-> "invalid_argument"])
              /\ UNCHANGED <<dak, dak_requested, dak_pub_hash_algo, given>>
         ELSE KeyHandedOut \/ KeyLost \/ KeyKept \/ KeyUnreported
    /\ UNCHANGED vars

-------------------------------------------------------------------------------
(* get_platform_attestation_token *)

(* psa_initial_attest_get_token needs this much room for a token. *)
TokenSize == 2

(* The key that the client's hash belongs to. *)
Hashed(r) == CASE r.hash_of = "given" -> given.key
               [] r.hash_of = "current" -> dak
               [] r.hash_of = "other" -> None

(* verify_dak_pub_hash: the hash is compared with that of the current key. *)
VerifyHash(r) ==
    IF r.len # HashLength[dak_pub_hash_algo] THEN "invalid_argument"
    ELSE IF dak = None THEN "generic_error"
    ELSE IF Hashed(r) # dak THEN "invalid_argument"
    ELSE "ok"

TokenChecks(r) ==
    IF ~r.size_out \/ r.len \notin {32, 48, 64} \/ ~dak_requested
      THEN "invalid_argument"
    ELSE IF VerifyHash(r) # "ok" THEN VerifyHash(r)
    ELSE IF r.room < TokenSize THEN "buffer_too_small"
    ELSE "ok"

GetToken(r) ==
    /\ att = Idle /\ r.type = "token"
    /\ \/ Finish(IF TokenChecks(r) # "ok" THEN [status |-> TokenChecks(r)]
                 ELSE [status |-> "ok", token_for |-> Hashed(r), len |-> r.len])
       \/ /\ CryptoMayFail /\ TokenChecks(r) = "ok"
          /\ Finish([status |-> "generic_error"])
    /\ UNCHANGED <<vars, dak, dak_requested, dak_pub_hash_algo, given>>

(* delegated_attestation_signal_handle: psa_panic on another type. *)
Unknown(r) ==
    /\ att = Idle /\ r.type = "other"
    /\ att' = [at |-> "panic"]
    /\ outcome' = [status |-> "none"]
    /\ UNCHANGED <<vars, dak, dak_requested, dak_pub_hash_algo, given>>

Serve(r) == GetKey(r) \/ GetToken(r) \/ Unknown(r)

AttestStep == ReadSlot \/ CollectState \/ Derive

(* The steps of measured boot, and the calls of its other clients. *)
MeasuredBootStep == Collect \/ CollectNothing \/ \E c \in Client : Handle(c)
OtherClients == \E c \in Client \ {Attest}, m \in Call : Send(c, m)

AttestNext ==
    \/ AttestStep
    \/ \E r \in Request : Serve(r)
    \/ (MeasuredBootStep \/ OtherClients) /\ UNCHANGED attestVars

(* The partition runs when it can, as measured boot does. *)
AttestSpec ==
    Init /\ AttestInit /\ [][AttestNext]_allVars /\ Fairness /\ WF_allVars(AttestStep)

-------------------------------------------------------------------------------
(* Properties *)

IsKey(k) == k.bits \in {256, 384, 521} /\ k.state # << >>

(* A token is only made for a hash of the current key, by the algorithm    *)
(* agreed on in the last successful call for a key; and that key is the    *)
(* one then handed out, unless a later call has made another and failed    *)
(* after that (in its final psa_key_derivation_abort).  There is never a   *)
(* token once a call has destroyed the old key without making a new one.   *)
TokenBoundToKey ==
    "token_for" \in DOMAIN outcome =>
      /\ outcome.token_for = dak /\ dak # None
      /\ dak \in {given.key, given.unreported}
      /\ given.algo \in Algo /\ outcome.len = HashLength[given.algo]

(* The key that is handed out has a legal size and was derived from the    *)
(* measurements in order of their slots, each one as the slot held it when *)
(* it was read: what the slot holds now continues it, under the same      *)
(* signer.                                                                 *)
KeyFromMeasurements ==
    given.key # None =>
      LET st == given.key.state
      IN  /\ IsKey(given.key)
          /\ \A j \in 1 .. Len(st) :
               /\ IsPrefix(st[j].value, slot[st[j].index].value)
               /\ st[j].signer_id = slot[st[j].index].signer_id
          /\ \A j, k \in 1 .. Len(st) : j < k => st[j].index < st[k].index

(* Record j is the last one that was read before slot s. *)
LastBefore(st, j, s) ==
    st[j].index < s /\ \A k \in 1 .. Len(st) : st[k].index < s => k <= j

(* Buffers of these sizes are too small for a slot, of the lengths it had. *)
TooSmall(room, sl, had) ==
    \/ room.signer_id < Len(sl.signer_id)
    \/ room.version < had.version_size
    \/ room.sw_type < had.sw_type_size
    \/ room.value < HashSize(sl.value)

(* A measurement that existed when the call began is missing from the boot *)
(* state only if the last one that was read before it is shorter than it   *)
(* in the signer id, the version, the software type or the value.          *)
MissedOnlyAfterShorter ==
    given.key # None =>
      LET st == given.key.state
      IN  \A s \in DOMAIN given.missed :
            \E j \in 1 .. Len(st) :
              /\ LastBefore(st, j, s)
              /\ TooSmall(RoomAfter(st[j]), slot[s], given.missed[s])

(* Every call for a key comes to an end, whatever the others ask of        *)
(* measured boot in the meantime, unless that partition has panicked.      *)
KeyCallEnds == (att.at = "ask") ~> (att = Idle \/ pc = "panic")
===============================================================================
