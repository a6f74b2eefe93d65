------------------------------ MODULE EtssService ------------------------------
(***************************************************************************)
(* The ETSS partition above its file system: the client interface          *)
(* (etss_ipc_api.c), the request manager with its signals                  *)
(* (etss_req_mngr.c), the storage service                                  *)
(* (external_trusted_secure_storage.c) and the access check of the secure  *)
(* flash by application id (etss_secureflash.c, secureflash.c).            *)
(*                                                                         *)
(* A call of the file system is one step here, as in EtssStore, which      *)
(* EtssFlashFs implements.  A set is one such call for each buffer's worth *)
(* of data, and power may fail between them.                               *)
(***************************************************************************)
EXTENDS Integers, Sequences, FiniteSets

CONSTANTS
    Client,         \* client ids
    Uid,            \* asset ids; 0 is ETSS_INVALID_UID
    Request,        \* the requests that clients make
    Calls,          \* per client: those that it makes
    BufSize,        \* sizeof(asset_data)
    MaxFile,        \* ETSS_MAX_ASSET_SIZE
    Isolated,       \* MULTI_CLIENT_ISOLATION
    CtxClient,      \* the clients in etss_fs_ctx_tbl
    AppInfo,        \* the clients provisioned with access to their zone
    Feature,        \* the security features of the flash
    Provisioned,    \* whether the device has been provisioned at first: a set
    ReadMayFail,    \* a read of the flash, or the start of its session, can fail
    PowerMayFail,   \* power can fail
    None            \* no asset, no job, no file system context

VARIABLES
    provisioned,    \* the flash holds provisioning data
    store,          \* per context: the files, as a function of client and uid
    pc,             \* "init", "serve", "provision" or "panic"
    app_id,         \* secureflash_app_id
    fs_ctx,         \* fs_ctx_etss_ptr: the client of the context, or "shared"
    job,            \* the call being handled: its client and the offset reached
    cl,             \* per client: what it is doing
    may             \* history: what each client's assets may be

vars == <<provisioned, store, pc, app_id, fs_ctx, job, cl, may>>
volatile == <<pc, app_id, fs_ctx, job, cl>>

ASSUME BufAssumption == {BufSize, MaxFile} \subseteq Nat \ {0}

ASSUME ClientAssumption == "SP_ETSS" \notin Client /\ Provisioned \subseteq BOOLEAN

ASSUME CallsAssumption == \A c \in Client : Calls[c] \subseteq Request

(* The arguments that a request carries, by its operation. *)
ASSUME RequestAssumption ==
    \A r \in Request :
      /\ r.op = "set" =>
           r \in [op : {"set"}, uid : Uid, data : Seq(0 .. 255), once : BOOLEAN,
                 sizes_ok : BOOLEAN, flags_ok : BOOLEAN]
      /\ r.op = "get" =>
           r \in [op : {"get"}, uid : Uid, offset : Nat, size : Nat, sizes_ok : BOOLEAN]
      /\ r.op \in {"get_info", "remove"} => r \in [op : {r.op}, uid : Uid, sizes_ok : BOOLEAN]

(* The order in which etss_req_mngr_init looks at the signals. *)
SignalOrder == <<"set", "get", "get_info", "remove", "get_puf", "rng", "mc_inc",
                 "mc_get", "provisioning">>
Rank(op) == CHOOSE n \in 1 .. Len(SignalOrder) : SignalOrder[n] = op

Ctx == IF Isolated THEN CtxClient ELSE {"shared"}
CtxOf(c) == IF Isolated THEN c ELSE "shared"

Idle == [at |-> "idle", status |-> "none"]
Init ==
    /\ provisioned \in Provisioned
    /\ store = [x \in Ctx |-> [f \in Client \X Uid |-> None]]
    /\ pc = "init"
    /\ app_id = "none"
    /\ fs_ctx = IF Isolated THEN None ELSE "shared"
    /\ job = None
    /\ cl = [c \in Client |-> Idle]
    /\ may = [c \in Client |-> [u \in Uid |-> {None}]]

-------------------------------------------------------------------------------
(* The client interface: connect, call, close; the client blocks in each. *)

Waiting(c) == cl[c].at \in {"connecting", "calling", "closing"}

Start(c, r) ==
    /\ cl[c].at = "idle"
    /\ pc # "panic"
    /\ cl' = [cl EXCEPT ![c] = [at |-> "connecting", req |-> r, status |-> "none"]]
    /\ UNCHANGED <<provisioned, store, pc, app_id, fs_ctx, job, may>>

NeverCloses(c) ==
    /\ cl[c].at = "connected"
    /\ pc # "panic"
    /\ cl' = [cl EXCEPT ![c].at = "calling"]
    /\ UNCHANGED <<provisioned, store, pc, app_id, fs_ctx, job, may>>
ClientStep(c) ==
    /\ cl[c].at \in {"connected", "called"}
    /\ pc # "panic"
    /\ cl' = [cl EXCEPT ![c].at = IF @ = "connected" THEN "calling" ELSE "closing"]
    /\ UNCHANGED <<provisioned, store, pc, app_id, fs_ctx, job, may>>

-------------------------------------------------------------------------------
(* The file system and the flash *)

(* query_app_info: the partition itself may access every zone. *)
FlashOk == app_id' \in AppInfo \cup {"SP_ETSS"}

(* etss_get_fid *)
UidOnly(c, u) == <<CHOOSE d \in Client : TRUE, u>>
Fid(c, u) == <<c, u>>
File(c, u) == store[CtxOf(c)][Fid(c, u)]

(* etss_flash_fs_file_get_info: an error of the scan is "does not exist". *)
InfoOutcomes(c, u) ==
    (IF FlashOk THEN {File(c, u)} ELSE {None}) \cup (IF ReadMayFail THEN {None} ELSE {})

(* The first write of a set: create, or truncate and replace. *)
Created(chunk, once) == [data |-> chunk, once |-> once]

(* ETSS_UTILS_MIN *)
Least(a, b) == IF a < b THEN a ELSE b

(* n items of a sequence from an offset on, as far as it goes. *)
Part(s, off, n) == SubSeq(s, off + 1, Least(off + n, Len(s)))

(* A later one, into the existing file. *)
Restarted(file, off, chunk) == [file EXCEPT !.data = chunk]
Continued(file, off, chunk) == [file EXCEPT !.data = SubSeq(@, 1, off) \o chunk]

-------------------------------------------------------------------------------
(* The service *)

Answered(c, st) == [cl EXCEPT ![c].at = "called", ![c].status = st]

(* What the checks before the file system is asked make of a request. *)
Checked(c, r) ==
    IF ~r.sizes_ok THEN "programmer_error"
    ELSE IF "security_storage" \notin Feature THEN "not_supported"
    ELSE IF r.uid = 0 THEN "invalid_argument"
    ELSE IF r.op = "set" /\ ~r.flags_ok THEN "not_supported"
    ELSE "ok"

(* etss_client_id_pass_on, etss_get_fs_ctx.  The id is passed on also when *)
(* there is no context.                                                    *)
NotPassedOn(c) == fs_ctx' = CtxOf(c) /\ UNCHANGED app_id
PassOn(c) ==
    /\ app_id' = c
    /\ fs_ctx' = IF CtxOf(c) \in Ctx THEN CtxOf(c) ELSE fs_ctx

NoCtx(c) == CtxOf(c) \notin Ctx

(* A request that is answered before the file system is asked. *)
Refuse ==
    /\ job # None /\ job.off = 0
    /\ LET c == job.c
           r == cl[c].req
       IN  /\ r.op \in {"set", "get", "get_info", "remove"}
           /\ \/ /\ Checked(c, r) # "ok"
                 /\ cl' = Answered(c, Checked(c, r))
                 /\ UNCHANGED <<app_id, fs_ctx>>
              \/ /\ Checked(c, r) = "ok" /\ NoCtx(c)
                 /\ PassOn(c)
                 /\ cl' = Answered(c, "not_permitted")
    /\ job' = None
    /\ UNCHANGED <<provisioned, store, pc, may>>

(* etss_set: one chunk of the loop, the first with all that precedes it. *)
Chunk(r, off) == Part(r.data, off, BufSize)
IsLast(r, off) == off + BufSize >= Len(r.data)

Fail(c, st) ==
    /\ cl' = Answered(c, st) /\ job' = None
    /\ UNCHANGED <<store, may>>

WriteChunk(c, r, file) ==
    /\ store' = [store EXCEPT ![fs_ctx'][Fid(c, r.uid)] = file]
    /\ IF IsLast(r, job.off)
         THEN /\ cl' = Answered(c, "ok") /\ job' = None
              /\ may' = [may EXCEPT ![c][r.uid] = {Created(r.data, r.once)}]
         ELSE /\ job' = [job EXCEPT !.off = @ + BufSize]
              /\ may' = [may EXCEPT ![c][r.uid] = @ \cup
                           {Created(Part(r.data, 0, job.off + BufSize), r.once)}]
              /\ UNCHANGED cl

(* The check of the size in etss_flash_fs_file_write. *)
Fits(r) == Len(r.data) <= MaxFile

OnceUnchecked(info) == FALSE
WriteOnce(info) == info # None /\ info.once

SetFirst ==
    /\ job # None /\ job.off = 0
    /\ LET c == job.c
           r == cl[c].req
       IN  /\ r.op = "set" /\ Checked(c, r) = "ok" /\ ~NoCtx(c)
           /\ PassOn(c)
           /\ \E info \in InfoOutcomes(c, r.uid) :
                IF WriteOnce(info) THEN Fail(c, "not_permitted")
                ELSE \/ ~FlashOk /\ Fail(c, "generic_error")
                     \/ FlashOk /\ ReadMayFail /\ Fail(c, "generic_error")
                     \/ FlashOk /\ ~Fits(r) /\ Fail(c, "invalid_argument")
                     \/ FlashOk /\ Fits(r) /\ WriteChunk(c, r, Created(Chunk(r, 0), r.once))
    /\ UNCHANGED <<provisioned, pc>>

SetNext ==
    /\ job # None /\ job.off > 0
    /\ LET c == job.c
           r == cl[c].req
       IN  /\ r.op = "set"
           /\ UNCHANGED <<provisioned, pc, app_id, fs_ctx>>
           /\ \/ ReadMayFail /\ Fail(c, "generic_error")
              \/ WriteChunk(c, r, Continued(File(c, r.uid), job.off, Chunk(r, job.off)))

SliceLate(r, file) ==
    [status |-> "ok", data |-> Part(file.data, r.offset + 1, r.size)]

(* etss_get: the part of the asset within the request's bounds. *)
Slice(r, file) ==
    IF r.offset > Len(file.data) THEN [status |-> "invalid_argument", data |-> << >>]
    ELSE [status |-> "ok", data |-> Part(file.data, r.offset, r.size)]

(* The read of a chunk fails after n bytes in whole chunks.  They are with *)
(* the caller by then: the length that etss_get resets is its own, and the *)
(* caller's is what etss_req_mngr_write passed on.                         *)
CutShort(r, file, st) ==
    LET whole == Least(r.size, Len(file.data) - r.offset)
    IN  {[status |-> st, data |-> Part(file.data, r.offset, n)] :
           n \in {m \in 0 .. r.size : m % BufSize = 0 /\ (m = 0 \/ m < whole)}}

GetOutcomes(r, info) ==
    IF info = None THEN {[status |-> "does_not_exist", data |-> << >>]}
    ELSE {Slice(r, info)} \cup
         (IF ReadMayFail /\ r.offset <= Len(info.data)
            THEN CutShort(r, info, "does_not_exist") \cup CutShort(r, info, "generic_error")
            ELSE {})

Get ==
    /\ job # None
    /\ LET c == job.c
           r == cl[c].req
       IN  /\ r.op = "get" /\ Checked(c, r) = "ok" /\ ~NoCtx(c)
           /\ PassOn(c)
           /\ \E info \in InfoOutcomes(c, r.uid) : \E a \in GetOutcomes(r, info) :
                cl' = [cl EXCEPT ![c] = [at |-> "called", req |-> r,
                                         status |-> a.status, data |-> a.data]]
    /\ job' = None
    /\ UNCHANGED <<provisioned, store, pc, may>>

(* psa_storage_info_t *)
InfoOf(file) == [size |-> Len(file.data), once |-> file.once]

GetInfo ==
    /\ job # None
    /\ LET c == job.c
           r == cl[c].req
       IN  /\ r.op = "get_info" /\ Checked(c, r) = "ok" /\ ~NoCtx(c)
           /\ PassOn(c)
           /\ \E info \in InfoOutcomes(c, r.uid) :
                cl' = IF info = None THEN Answered(c, "does_not_exist")
                      ELSE [cl EXCEPT ![c] = [at |-> "called", req |-> r, status |-> "ok",
                                              info |-> InfoOf(info)]]
    /\ job' = None
    /\ UNCHANGED <<provisioned, store, pc, may>>

Remove ==
    /\ job # None
    /\ LET c == job.c
           r == cl[c].req
       IN  /\ r.op = "remove" /\ Checked(c, r) = "ok" /\ ~NoCtx(c)
           /\ PassOn(c)
           /\ \E info \in InfoOutcomes(c, r.uid) :
                IF info = None THEN Fail(c, "does_not_exist")
                ELSE IF WriteOnce(info) THEN Fail(c, "not_permitted")
                ELSE \/ ReadMayFail /\ Fail(c, "does_not_exist")
                     \/ /\ store' = [store EXCEPT ![fs_ctx'][Fid(c, r.uid)] = None]
                        /\ may' = [may EXCEPT ![c][r.uid] = {None}]
                        /\ cl' = Answered(c, "ok") /\ job' = None
    /\ UNCHANGED <<provisioned, pc>>

(* PUF and counters: their flash operations are empty.  So is the one for  *)
(* random numbers, whose caller loops on a size that is never set: what it *)
(* does on a flash with that feature is undefined, and no step here.       *)
FeatureOf(op) ==
    CASE op = "get_puf" -> "puf" [] op = "rng" -> "rng" [] OTHER -> "rpmc"

FeatureCall ==
    /\ job # None
    /\ LET c == job.c
           r == cl[c].req
       IN  /\ r.op \in {"get_puf", "rng", "mc_inc", "mc_get"}
           /\ r.op = "rng" => "rng" \notin Feature
           /\ cl' = Answered(c, IF FeatureOf(r.op) \in Feature THEN "ok"
                                ELSE "not_supported")
    /\ job' = None
    /\ UNCHANGED <<provisioned, store, pc, app_id, fs_ctx, may>>

-------------------------------------------------------------------------------
(* The request manager *)

(* etss_init.  A failed start of the secure session counts as "not        *)
(* provisioned", whatever the flash holds; any other error of the device   *)
(* is a reset, as in PowerFail.                                            *)
Boot ==
    /\ pc = "init"
    /\ \/ provisioned /\ pc' = "serve" /\ app_id' = "SP_ETSS"
       \/ (~provisioned \/ ReadMayFail) /\ pc' = "provision" /\ UNCHANGED app_id
    /\ UNCHANGED <<provisioned, store, fs_ctx, job, cl, may>>

(* etss_signal_handle: psa_get, and the reply or the start of a call. *)
Accept(c) ==
    /\ cl' = CASE cl[c].at = "connecting" -> [cl EXCEPT ![c].at = "connected"]
               [] cl[c].at = "closing" -> [cl EXCEPT ![c] = Idle]
               [] OTHER -> cl
    /\ job' = IF cl[c].at = "calling" THEN [c |-> c, off |-> 0] ELSE None

TakeLast(c) ==
    /\ pc = "serve" /\ job = None
    /\ Waiting(c)
    /\ \A d \in Client : Waiting(d) => Rank(cl[c].req.op) >= Rank(cl[d].req.op)
    /\ cl[c].req.op # "provisioning"
    /\ Accept(c)
    /\ UNCHANGED <<provisioned, store, pc, app_id, fs_ctx, may>>
Take(c) ==
    /\ pc = "serve" /\ job = None
    /\ Waiting(c)
    /\ \A d \in Client : Waiting(d) => Rank(cl[c].req.op) <= Rank(cl[d].req.op)
    /\ cl[c].req.op # "provisioning"
    /\ Accept(c)
    /\ UNCHANGED <<provisioned, store, pc, app_id, fs_ctx, may>>

(* A signal that the loop does not know: the provisioning signal. *)
UnknownSignal ==
    /\ pc = "serve" /\ job = None
    /\ \E c \in Client : Waiting(c)
    /\ \A c \in Client : Waiting(c) => cl[c].req.op = "provisioning"
    /\ pc' = "panic"
    /\ UNCHANGED <<provisioned, store, app_id, fs_ctx, job, cl, may>>

(* The loop of a device taken for an unprovisioned one: it ends with a     *)
(* reset only.                                                             *)
TakeProvisioning(c) ==
    /\ pc = "provision"
    /\ Waiting(c) /\ cl[c].req.op = "provisioning"
    /\ \/ /\ cl[c].at # "calling"
          /\ Accept(c)
          /\ UNCHANGED provisioned
       \/ /\ cl[c].at = "calling"
          /\ \E ok \in BOOLEAN :
               /\ provisioned' = (provisioned \/ ok)
               /\ cl' = Answered(c, IF ok THEN "ok" ELSE "sf_provision")
          /\ UNCHANGED job
    /\ UNCHANGED <<store, pc, app_id, fs_ctx, may>>

(* The device, its clients too, starts again; the flash stays. *)
PowerFail ==
    /\ PowerMayFail
    /\ pc' = "init" /\ app_id' = "none" /\ job' = None
    /\ fs_ctx' = IF Isolated THEN None ELSE "shared"
    /\ cl' = [c \in Client |-> Idle]
    /\ UNCHANGED <<provisioned, store, may>>

Handle == Refuse \/ SetFirst \/ SetNext \/ Get \/ GetInfo \/ Remove \/ FeatureCall

Partition ==
    \/ Boot \/ UnknownSignal \/ Handle
    \/ \E c \in Client : Take(c) \/ TakeProvisioning(c)

Next ==
    \/ Partition
    \/ \E c \in Client : ClientStep(c)
    \/ \E c \in Client : \E r \in Calls[c] : Start(c, r)
    \/ PowerFail

(* The partition is scheduled, a client that was answered goes on, and     *)
(* psa_get does not overlook one message of a signal for ever.             *)
Fairness ==
    /\ WF_vars(Partition)
    /\ \A c \in Client :
         WF_vars(ClientStep(c)) /\ SF_vars(Take(c) \/ TakeProvisioning(c))

Spec == Init /\ [][Next]_vars /\ Fairness

-------------------------------------------------------------------------------
(* Properties *)

Asset ==
    {None} \cup {Created(Part(r.data, 0, n), r.once) :
                   r \in {q \in Request : q.op = "set"}, n \in 1 .. MaxFile}

(* Every variable has its type. *)
TypeOK ==
    /\ provisioned \in BOOLEAN
    /\ \A x \in Ctx, f \in Client \X Uid :
         store[x][f] # None => Len(store[x][f].data) <= MaxFile
    /\ pc \in {"init", "serve", "provision", "panic"}
    /\ app_id \in Client \cup {"none", "SP_ETSS"}
    /\ fs_ctx \in Ctx \cup {None}
    /\ job # None => job.c \in Client /\ job.off \in 0 .. MaxFile
    /\ \A c \in Client : cl[c].at \in {"idle", "connecting", "connected", "calling",
                                       "called", "closing"}
    /\ \A c \in Client, u \in Uid : may[c][u] \subseteq Asset

Setting(c, u) == job # None /\ job.c = c /\ job.off > 0 /\ cl[c].req.uid = u

(* A client's asset is what that client last stored, whatever the others   *)
(* call in between, whatever reads fail and wherever power fails; a set    *)
(* that was cut off leaves the old asset or the first chunks of the new.   *)
AssetIsCallers ==
    \A c \in Client, u \in Uid :
      CtxOf(c) \in Ctx => File(c, u) \in may[c][u]

(* The answer k to a get: the requested part of an asset that the client  *)
(* may have, or an error with no more than a beginning of that part.       *)
OwnPart(c, k) ==
    \/ k.status # "ok" /\ ("data" \in DOMAIN k => k.data = << >>)
    \/ \E a \in may[c][k.req.uid] \ {None}, n \in 0 .. k.req.size :
         /\ k.data = Part(a.data, k.req.offset, n)
         /\ k.status = "ok" => n = k.req.size

(* A get returns the requested part of the caller's own asset, and one     *)
(* that fails half way no more than a beginning of that part.              *)
GetReturnsOwn ==
    \A c \in Client :
      cl[c].at = "called" /\ cl[c].req.op = "get" => OwnPart(c, cl[c])

(* What is stored for a client and what it is given are its own assets,   *)
(* in a state of the right type.                                           *)
OwnAssetsOnly == TypeOK /\ AssetIsCallers /\ GetReturnsOwn

(* A client without access rights, or without a file system context, never *)
(* gets anything into the flash or out of it.                              *)
NoAccessUnprovisioned ==
    \A c \in Client \ AppInfo :
      /\ \A x \in Ctx, u \in Uid : store[x][<<c, u>>] = None
      /\ cl[c].at = "called" =>
           cl[c].status # "ok" \/ cl[c].req.op \notin {"set", "get", "get_info", "remove"}

(* An asset created with WRITE_ONCE stays as it is, once its set is done. *)
WriteOnceKept ==
    [][\A c \in Client, u \in Uid :
         CtxOf(c) \in Ctx /\ File(c, u) # None /\ ~Setting(c, u) =>
           (File(c, u).once => File(c, u)' = File(c, u))]_vars

Outranked(c) ==
    /\ pc = "serve" /\ Waiting(c)
    /\ \E d \in Client : Waiting(d) /\ Rank(cl[d].req.op) < Rank(cl[c].req.op)

(* The running loop knows the signal that the client waits on. *)
Served(c) ==
    Waiting(c) /\ pc = (IF cl[c].req.op = "provisioning" THEN "provision" ELSE "serve")

(* A client whose signal the running loop knows waits for ever only while  *)
(* clients with signals that the loop looks at first never leave it a      *)
(* turn; a request for provisioning is never held up by the calls that     *)
(* pile up unserved meanwhile.                                             *)
WaitsOnlyOutranked ==
    \A c \in Client : <>[]Served(c) => <>[](Outranked(c) \/ job # None)
===============================================================================
