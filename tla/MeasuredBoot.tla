----------------------------- MODULE MeasuredBoot -----------------------------
(***************************************************************************)
(* The measured boot partition (measured_boot.c, measured_boot_req_mngr.c  *)
(* and its client interface).  At start it takes the measurements that the *)
(* boot stages left in the shared data area, then it serves read and       *)
(* extend calls, one at a time, for clients that each wait for the reply.  *)
(*                                                                         *)
(* A measurement is the hash of the previous one and the new value, so it  *)
(* stands for the sequence of values extended so far: that sequence is     *)
(* what a slot holds here.  Signer ids are sequences of bytes; of a        *)
(* version and a software type only the lengths matter.                    *)
(***************************************************************************)
EXTENDS Integers, FiniteSets, Sequences, SequencesExt

CONSTANTS
    Client,         \* callers of the service
    NumSlots,       \* NUM_OF_MEASUREMENT_SLOTS
    Signer,         \* signer ids: sequences of byte values
    SignerMax,      \* SIGNER_ID_MAX_SIZE
    VersionMax,     \* VERSION_MAX_SIZE
    SwTypeMax,      \* SW_TYPE_MAX_SIZE
    Value,          \* measured values
    BootImages,     \* what the boot stages may have left: sequences of entries
    Call,           \* the messages that clients send
    HashMayFail,    \* psa_hash_compute can return an error
    MaxExtends      \* bound: extensions of a slot, so that TLC terminates

Slot == 0 .. NumSlots - 1

VARIABLES
    slot,       \* measurement_slot[]
    shared,     \* boot_measurements: the entries of the shared data area
    tlv_curr,   \* the next entry to collect
    pc,         \* "collect", "serve" or "panic"
    msg,        \* per client: its call, while it waits
    answer      \* per client: the reply to its last call

vars == <<slot, shared, tlv_curr, pc, msg, answer>>

NoMsg == [type |-> "none"]
Taken == [type |-> "taken"]

(* initialise_all_measurements *)
EmptySlot == [is_locked |-> FALSE, is_populated |-> FALSE, signer_id |-> << >>,
              version_size |-> 0, sw_type_size |-> 0, value |-> << >>]

(* "checked" is the status that the checks of the iovecs' sizes give. *)
ExtendCall ==
    [type : {"extend"}, checked : {"ok", "programmer_error", "invalid_argument"},
     index : 0 .. 255, signer_id : Signer, value : Value,
     version_size : 0 .. VersionMax, sw_type_size : 0 .. SwTypeMax, lock : BOOLEAN]
ReadCall ==
    [type : {"read"}, checked : {"ok", "programmer_error"}, index : 0 .. 255,
     signer_id_size : 0 .. SignerMax, version_size : 0 .. VersionMax,
     sw_type_size : 0 .. SwTypeMax, value_size : {0, 1}]
OtherCall == [type : {"other"}]
Message == ExtendCall \cup ReadCall \cup OtherCall

(* An entry of the shared data: metadata and value, or something else.     *)
(* The code takes the slot from the entry's minor type without a check:    *)
(* that it is one is assumed of the boot stages.                           *)
Entry ==
    [kind : {"measurement"}, index : Slot, signer_id : Signer, value : Value,
     version_size : 0 .. VersionMax, sw_type_size : 0 .. SwTypeMax, lock : BOOLEAN]
    \cup [kind : {"malformed"}]

ASSUME SlotAssumption == NumSlots \in 1 .. 255
ASSUME SignerAssumption ==
    /\ SignerMax \in Nat /\ VersionMax \in Nat /\ SwTypeMax \in Nat
    /\ \A id \in Signer : id \in Seq(Nat) /\ Len(id) \in 1 .. SignerMax
ASSUME CallAssumption == Call \subseteq Message
ASSUME BootAssumption == \A image \in BootImages : image \in Seq(Entry)
ASSUME BoundAssumption == HashMayFail \in BOOLEAN /\ MaxExtends \in Nat

Init ==
    /\ slot = [s \in Slot |-> EmptySlot]
    /\ shared \in BootImages
    /\ tlv_curr = 1
    /\ pc = "collect"
    /\ msg = [c \in Client |-> NoMsg]
    /\ answer = [c \in Client |-> [status |-> "none"]]

-------------------------------------------------------------------------------
(* measured_boot_extend_measurement *)

(* The client's id sits in a buffer of the maximum size, filled with zeros. *)
Padded(id) == [j \in 1 .. SignerMax |-> IF j <= Len(id) THEN id[j] ELSE 0]

(* is_signer_id_different: as many bytes as the stored id has. *)
SignerDiffers(stored, id) == \E j \in 1 .. Len(stored) : stored[j] # Padded(id)[j]

(* is_slot_access_prohibited; no slot is ever marked common. *)
AnyoneMayExtend(sl, id) == FALSE
AccessProhibited(sl, id) == SignerDiffers(sl.signer_id, id)

(* update_metadata or extend_metadata, and mark_slot_as_occupied. *)
WithMetadata(sl, e) ==
    IF sl.is_populated THEN [sl EXCEPT !.version_size = 0, !.sw_type_size = 0]
    ELSE [sl EXCEPT !.signer_id = e.signer_id, !.version_size = e.version_size,
                    !.sw_type_size = e.sw_type_size, !.is_populated = TRUE]

ReplacedValue(sl, e) ==
    [WithMetadata(sl, e) EXCEPT
       !.value = <<[val |-> e.value, by |-> e.signer_id]>>, !.is_locked = @ \/ e.lock]

(* extend_measurement_value, store_measurement_value, lock_measurement_slot. *)
WithMeasurement(sl, e) ==
    [WithMetadata(sl, e) EXCEPT
       !.value = Append(@, [val |-> e.value, by |-> e.signer_id]),
       !.is_locked = @ \/ e.lock]

LockIgnored(sl, e) == [st |-> "ok", sl |-> WithMeasurement(sl, e)]

(* The outcome when the hash is computed. *)
Extended(sl, e) ==
    IF AccessProhibited(sl, e.signer_id) THEN [st |-> "not_permitted", sl |-> sl]
    ELSE IF sl.is_locked THEN [st |-> "bad_state", sl |-> sl]
    ELSE [st |-> "ok", sl |-> WithMeasurement(sl, e)]

(* The outcome when it fails: the metadata has been changed already. *)
HashFailed(sl, e) == [st |-> "hash_error", sl |-> WithMetadata(sl, e)]

Outcomes(sl, e) ==
    {Extended(sl, e)} \cup
      (IF HashMayFail /\ Extended(sl, e).st = "ok" THEN {HashFailed(sl, e)} ELSE {})

-------------------------------------------------------------------------------
(* collect_shared_measurements *)

WellFormed(e) == e.kind = "measurement"

CollectFirst ==
    /\ pc = "collect"
    /\ tlv_curr <= Len(shared)
    /\ LET e == shared[tlv_curr]
       IN  /\ slot' = [slot EXCEPT ![e.index] = Extended(slot[e.index], e).sl]
           /\ pc' = "serve"
    /\ UNCHANGED <<shared, tlv_curr, msg, answer>>

(* One measurement of the shared data; the first error ends in psa_panic. *)
Collect ==
    /\ pc = "collect"
    /\ tlv_curr <= Len(shared)
    /\ LET e == shared[tlv_curr]
       IN  IF ~WellFormed(e) THEN pc' = "panic" /\ UNCHANGED <<slot, tlv_curr>>
           ELSE \E o \in Outcomes(slot[e.index], e) :
                  /\ slot' = [slot EXCEPT ![e.index] = o.sl]
                  /\ tlv_curr' = tlv_curr + 1
                  /\ pc' = IF o.st # "ok" THEN "panic"
                           ELSE IF tlv_curr = Len(shared) THEN "serve" ELSE "collect"
    /\ UNCHANGED <<shared, msg, answer>>

(* Without any entry the status keeps its initial value, an error. *)
CollectNothing ==
    /\ pc = "collect" /\ shared = << >>
    /\ pc' = "panic"
    /\ UNCHANGED <<slot, shared, tlv_curr, msg, answer>>

-------------------------------------------------------------------------------
(* Calls *)

(* MaxExtends counts the values in the slot and those on their way. *)
Bounded(m) ==
    m.type = "extend" /\ m.index < NumSlots =>
      Len(slot[m.index].value)
        + Cardinality({c \in Client : msg[c].type = "extend"}) < MaxExtends

(* psa_call by a client, which blocks until psa_reply. *)
Send(c, m) ==
    /\ pc # "panic"
    /\ msg[c] = NoMsg
    /\ Bounded(m)
    /\ msg' = [msg EXCEPT ![c] = m]
    /\ UNCHANGED <<slot, shared, tlv_curr, pc, answer>>

Reply(c, a) ==
    /\ msg' = [msg EXCEPT ![c] = NoMsg]
    /\ answer' = [answer EXCEPT ![c] = a]

(* extend_measurement *)
HandleExtend(c) ==
    LET m == msg[c]
    IN  /\ pc = "serve"
        /\ m.type = "extend"
        /\ IF m.checked # "ok"
             THEN Reply(c, [status |-> m.checked]) /\ UNCHANGED slot
           ELSE IF m.index >= NumSlots
             THEN Reply(c, [status |-> "invalid_argument"]) /\ UNCHANGED slot
           ELSE \E o \in Outcomes(slot[m.index], m) :
                  /\ slot' = [slot EXCEPT ![m.index] = o.sl]
                  /\ Reply(c, [status |-> o.st])
        /\ UNCHANGED <<shared, tlv_curr, pc>>

(* hash_buf_size, in hashes. *)
HashSize(value) == IF value = << >> THEN 0 ELSE 1

(* read_measurements, measured_boot_read_measurement *)
ReadOf(m) ==
    IF m.checked # "ok" THEN [status |-> m.checked]
    ELSE IF m.index >= NumSlots THEN [status |-> "invalid_argument"]
    ELSE LET sl == slot[m.index]
         IN  IF ~sl.is_populated THEN [status |-> "does_not_exist"]
             ELSE IF \/ m.version_size < sl.version_size
                     \/ m.sw_type_size < sl.sw_type_size
                     \/ m.signer_id_size < Len(sl.signer_id)
                     \/ m.value_size < HashSize(sl.value)
               THEN [status |-> "invalid_argument"]
             ELSE [status |-> "ok", index |-> m.index, value |-> sl.value,
                   signer_id |-> sl.signer_id, version_size |-> sl.version_size,
                   sw_type_size |-> sl.sw_type_size, is_locked |-> sl.is_locked]

ReadUnanswered(c) ==
    /\ pc = "serve"
    /\ msg[c].type = "read"
    /\ ReadOf(msg[c]).status = "ok"
    /\ Reply(c, ReadOf(msg[c]))
    /\ UNCHANGED <<slot, shared, tlv_curr, pc>>
HandleRead(c) ==
    /\ pc = "serve"
    /\ msg[c].type = "read"
    /\ Reply(c, ReadOf(msg[c]))
    /\ UNCHANGED <<slot, shared, tlv_curr, pc>>

(* A message of another type is taken, and not replied to. *)
HandleOther(c) ==
    /\ pc = "serve"
    /\ msg[c].type = "other"
    /\ msg' = [msg EXCEPT ![c] = Taken]
    /\ UNCHANGED <<slot, shared, tlv_curr, pc, answer>>

Handle(c) == HandleExtend(c) \/ HandleRead(c) \/ HandleOther(c)

Next ==
    \/ Collect \/ CollectNothing
    \/ \E c \in Client : Handle(c)
    \/ \E c \in Client, m \in Call : Send(c, m)

(* The partition runs, and the SPM hands it the waiting messages in turn. *)
Fairness ==
    /\ WF_vars(Collect \/ CollectNothing)
    /\ \A c \in Client : WF_vars(Handle(c))

Spec == Init /\ [][Next]_vars /\ Fairness

-------------------------------------------------------------------------------
(* Properties *)

Measured == [val : Value, by : Signer]
SlotType ==
    [is_locked : BOOLEAN, is_populated : BOOLEAN, signer_id : Signer \cup {<< >>},
     version_size : 0 .. VersionMax, sw_type_size : 0 .. SwTypeMax,
     value : Seq(Measured)]
Status == {"none", "ok", "programmer_error", "invalid_argument", "does_not_exist",
           "not_permitted", "bad_state", "hash_error"}
Answer ==
    [status : Status]
    \cup [status : {"ok"}, index : Slot, value : Seq(Measured),
          signer_id : Signer \cup {<< >>}, version_size : 0 .. VersionMax,
          sw_type_size : 0 .. SwTypeMax, is_locked : BOOLEAN]

(* Every variable has its type. *)
TypeOK ==
    /\ slot \in [Slot -> SlotType]
    /\ shared \in Seq(Entry)
    /\ tlv_curr \in 1 .. Len(shared) + 1
    /\ pc \in {"collect", "serve", "panic"}
    /\ msg \in [Client -> Message \cup {NoMsg, Taken}]
    /\ answer \in [Client -> Answer]

(* A locked measurement is final: no call, failed or not, changes anything *)
(* of its slot, and no measurement is ever shortened or rewritten.         *)
LockedIsFinal ==
    [][\A s \in Slot :
         /\ slot[s].is_locked => slot'[s] = slot[s]
         /\ IsPrefix(slot[s].value, slot'[s].value)]_vars

(* All the values in a measurement come from the signer that the slot      *)
(* names as its owner.                                                     *)
OwnerOnly ==
    \A s \in Slot : \A j \in 1 .. Len(slot[s].value) :
      slot[s].value[j].by = slot[s].signer_id

(* What a client was told of a slot stays true: the measurement it read    *)
(* only grows, and if it was locked it still is, with the same value.      *)
ReadsStayTrue ==
    \A c \in Client :
      "value" \in DOMAIN answer[c] =>
        LET now == slot[answer[c].index]
        IN  /\ IsPrefix(answer[c].value, now.value)
            /\ answer[c].is_locked => now.is_locked /\ answer[c].value = now.value

(* A read that succeeds returns a measurement. *)
ReadsAreMeasurements ==
    \A c \in Client : "value" \in DOMAIN answer[c] => answer[c].value # << >>

(* How many of the first n entries of the shared data are for a slot. *)
BootCount(s, n) ==
    Cardinality({j \in 1 .. n : WellFormed(shared[j]) /\ shared[j].index = s})

(* The service only runs once every boot measurement is in its slot, in    *)
(* its place among those for that slot; no later call gets in front of     *)
(* one, whoever it comes from.                                             *)
BootMeasurementsFirst ==
    pc = "serve" =>
      /\ shared # << >>
      /\ \A k \in 1 .. Len(shared) :
           LET e == shared[k]
               place == BootCount(e.index, k)
           IN  /\ WellFormed(e) /\ place <= Len(slot[e.index].value)
               /\ slot[e.index].value[place] = [val |-> e.value, by |-> e.signer_id]
===============================================================================
