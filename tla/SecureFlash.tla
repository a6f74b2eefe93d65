------------------------------ MODULE SecureFlash ------------------------------
(***************************************************************************)
(* The secure flash library (secureflash.c) under the adapter of the ETSS  *)
(* file systems (etss_secureflash.c), and the SPI NOR driver below it      *)
(* (spi_nor.c, spi_nor_hc.c, low_level_spi.c).  The partition is a single  *)
(* thread: one request runs at a time.  The JEDEC layer between the two,   *)
(* the HAL and the flash itself are external; each of their calls may      *)
(* fail.                                                                   *)
(***************************************************************************)
EXTENDS Integers, Sequences, FiniteSets

CONSTANTS
    AppData,        \* provisioned: set of [app_id, zone_id]
    SpEtss,         \* SP_ETSS
    Apps,           \* the ids that requests carry
    ZoneSize, TotalSize, ReadLen, ProgramLen, EraseSize,    \* flash_profile
    FlashAreaAddr, BlockSize, SectorSize, NumBlocks,        \* the ETSS layout
    MaxSize,        \* the largest request
    MaxPolls,       \* MAX_POLLING_TIMES
    MaxSessions,    \* sessions the flash can hold
    Width,          \* bits of _init_ref_count
    AddrWidth,      \* bits of size_t
    MaxFaults       \* bound: failing external calls

ASSUME FlashAssumption ==
    /\ {ZoneSize, TotalSize, ReadLen, ProgramLen, EraseSize, BlockSize, SectorSize}
         \subseteq Nat \ {0}
    /\ {FlashAreaAddr, NumBlocks, MaxSize, MaxSessions} \subseteq Nat
    /\ SectorSize % EraseSize = 0 /\ BlockSize % SectorSize = 0
    /\ FlashAreaAddr % EraseSize = 0
    /\ FlashAreaAddr + NumBlocks * BlockSize <= TotalSize
    /\ SpEtss \in Apps

CountSpace == 2^Width
AddrSpace == 2^AddrWidth

(* The zones that were provisioned are zones of the flash, and no request  *)
(* of the program is so long that it could reach around the address space. *)
ASSUME WidthAssumption ==
    /\ CountSpace \in Nat /\ CountSpace > 1 /\ AddrSpace \in Nat
    /\ TotalSize + MaxSize < AddrSpace /\ SectorSize <= MaxSize
    /\ \A d \in AppData :
         d.zone_id \in Nat /\ ZoneSize * d.zone_id + ZoneSize <= TotalSize

VARIABLES
    sf,         \* secureflash_t: initialised, reference count, app info; result
    req,        \* the request: what, range, application, where it is, its result
    dev,        \* the flash: busy, output ready, open sessions
    poll,       \* the polling loop: turns made, what the registers showed
    erasing,    \* etss_secureflash_erase: the block and the offset, or none
    secureflash_app_id,
    faults      \* external calls that have failed

vars == <<sf, req, dev, poll, erasing, secureflash_app_id, faults>>

Kinds == {"read", "program", "erase"}
Idle == [kind |-> "none", addr |-> 0, size |-> 0, left |-> 0, app |-> SpEtss,
         phase |-> "idle", touched |-> {}, again |-> FALSE, crossed |-> FALSE,
         result |-> "none", before |-> 0]
NoBlock == [block |-> -1, offset |-> 0]

Init ==
    /\ sf = [init |-> FALSE, refs |-> 0, app_info |-> {}, result |-> "none"]
    /\ req = Idle
    /\ dev = [busy |-> FALSE, ordy |-> FALSE, sessions |-> 0]
    /\ poll = [cnt |-> 0, seen |-> "none"]
    /\ erasing = NoBlock /\ secureflash_app_id = 0 /\ faults = 0

Fault == faults < MaxFaults /\ faults' = faults + 1
NoFault == UNCHANGED faults

-------------------------------------------------------------------------------
(* secureflash_init and secureflash_uninit *)

(* A count left by a failed initialisation is forgotten. *)
CountKept(s) == [s EXCEPT !.refs = (@ + 1) % CountSpace]
CountRef(s) == [s EXCEPT !.refs = ((IF s.init THEN @ ELSE 0) + 1) % CountSpace]

(* spi_nor_init and secureflash_probe come before the app info is cleared, *)
(* jedec_secure_init after it has been read.                               *)
InitOutcomes(s) ==
    {[s EXCEPT !.init = TRUE, !.app_info = AppData, !.result = "success"]}
InitFailures(s) ==
    {[s EXCEPT !.result = "initial"], [s EXCEPT !.result = "unsupported_device"],
     [s EXCEPT !.app_info = {}, !.result = "get_provision_info"],
     [s EXCEPT !.app_info = AppData, !.result = "secure_init"]}

secureflash_init ==
    /\ req.phase = "idle"
    /\ LET s == CountRef(sf) IN
         IF s.refs # 1 THEN sf' = [s EXCEPT !.result = "success"] /\ NoFault
         ELSE \/ sf' \in InitOutcomes(s) /\ NoFault
              \/ sf' \in InitFailures(s) /\ Fault
    /\ secureflash_app_id' = SpEtss
    /\ UNCHANGED <<req, dev, poll, erasing>>

secureflash_uninit ==
    /\ req.phase = "idle"
    /\ \/ LET left == (sf.refs - 1) % CountSpace IN
          /\ sf' = [init |-> sf.init /\ left # 0, app_info |-> {}, refs |-> left,
                    result |-> "none"]
          /\ NoFault
       \/ sf' = [sf EXCEPT !.result = "none"] /\ Fault
    /\ UNCHANGED <<req, dev, poll, erasing, secureflash_app_id>>

-------------------------------------------------------------------------------
(* The requests *)

(* query_app_info: the zone of the first byte. *)
query_app_info(addr, app) ==
    {d \in sf.app_info : d.zone_id = addr \div ZoneSize /\ (app = SpEtss \/ d.app_id = app)}

(* The end of a range, as size_t computes it: it may wrap. *)
End(addr, size) == (addr + size) % AddrSpace

(* The checks before a session is created. *)
Refusal(kind, addr, size, app) ==
    CASE ~sf.init -> "device"
      [] End(addr, size) > TotalSize -> "invalid_argument"
      [] kind = "erase" /\ (addr % EraseSize # 0 \/ End(addr, size) % EraseSize # 0) ->
           "invalid_argument"
      [] query_app_info(addr, app) = {} -> "illegal_access"
      [] OTHER -> "none"

Requested(kind, addr, size, app) ==
    LET r == Refusal(kind, addr, size, app) IN
    [Idle EXCEPT !.kind = kind, !.addr = addr, !.size = size, !.left = size, !.app = app,
                 !.before = dev.sessions,
                 !.phase = IF r = "none" THEN "session" ELSE "done", !.result = r]

(* secureflash_secure_read, _program, _erase called directly. *)
Request ==
    /\ req.phase = "idle" /\ erasing = NoBlock
    /\ \E kind \in Kinds, addr \in 0 .. AddrSpace - 1, size \in 0 .. MaxSize, app \in Apps :
         req' = Requested(kind, addr, size, app)
    /\ UNCHANGED <<sf, dev, poll, erasing, secureflash_app_id, faults>>

(* get_phys_address *)
get_phys_address(block, offset) == FlashAreaAddr + block * BlockSize + offset

(* etss_secureflash_read and _write of a part of a block. *)
AdapterAccess ==
    /\ req.phase = "idle" /\ erasing = NoBlock
    /\ \E kind \in {"read", "program"}, b \in 0 .. NumBlocks - 1,
          o \in 0 .. BlockSize - 1, size \in 0 .. MaxSize :
         /\ o + size <= BlockSize
         /\ req' = Requested(kind, get_phys_address(b, o), size, secureflash_app_id)
    /\ UNCHANGED <<sf, dev, poll, erasing, secureflash_app_id, faults>>

(* etss_secureflash_erase: sector by sector, until one fails. *)
AdapterErase ==
    /\ req.phase = "idle" /\ erasing = NoBlock
    /\ \E b \in 0 .. NumBlocks - 1 :
         /\ erasing' = [block |-> b, offset |-> 0]
         /\ req' = Requested("erase", get_phys_address(b, 0), SectorSize,
                             secureflash_app_id)
    /\ UNCHANGED <<sf, dev, poll, secureflash_app_id, faults>>

(* etss_client_id_pass_on *)
PassOn ==
    /\ req.phase = "idle" /\ erasing = NoBlock
    /\ \E app \in Apps : secureflash_app_id' = app
    /\ UNCHANGED <<sf, req, dev, poll, erasing, faults>>

Fails(result) == req' = [req EXCEPT !.phase = "done", !.result = result]

(* jedec_create_session *)
CreateSession ==
    /\ req.phase = "session"
    /\ \/ /\ dev.sessions < MaxSessions
          /\ dev' = [dev EXCEPT !.sessions = @ + 1]
          /\ req' = [req EXCEPT !.phase = "chunk"] /\ NoFault
       \/ dev.sessions = MaxSessions /\ Fails("create_session") /\ UNCHANGED dev /\ NoFault
       \/ Fails("create_session") /\ UNCHANGED dev /\ Fault
    /\ UNCHANGED <<sf, poll, erasing, secureflash_app_id>>

(* The next part of the range, up to the end of a read or program unit. *)
UnitOf(kind) == IF kind = "read" THEN ReadLen ELSE ProgramLen
At(r) == r.addr + (r.size - r.left)
WholeUnit(r) ==
    IF r.kind = "erase" THEN EraseSize
    ELSE IF UnitOf(r.kind) < r.left THEN UnitOf(r.kind) ELSE r.left
Chunk(r) ==
    IF r.kind = "erase" THEN EraseSize
    ELSE LET offset == At(r) % UnitOf(r.kind) IN
         IF offset + r.left < UnitOf(r.kind) THEN r.left ELSE UnitOf(r.kind) - offset

(* The bytes of a chunk are accessed. *)
Accessed(r) ==
    LET bytes == At(r) .. At(r) + Chunk(r) - 1
        unit(b) == b \div (IF r.kind = "erase" THEN EraseSize ELSE UnitOf(r.kind))
    IN  [r EXCEPT !.touched = @ \cup bytes, !.again = @ \/ bytes \cap r.touched # {},
                  !.crossed = @ \/ \E a, b \in bytes : unit(a) # unit(b),
                  !.phase = "poll"]

(* jedec_secure_read, _program, _erase start; the flash is busy. *)
StartChunk ==
    /\ req.phase = "chunk" /\ req.left > 0
    /\ req' = Accessed(req)
    /\ dev' = [dev EXCEPT !.busy = TRUE, !.ordy = FALSE]
    /\ poll' = [cnt |-> 0, seen |-> "none"]
    /\ UNCHANGED <<sf, erasing, secureflash_app_id, faults>>

DeviceReady ==
    /\ dev.busy
    /\ dev' = [dev EXCEPT !.busy = FALSE, !.ordy = TRUE]
    /\ UNCHANGED <<sf, req, poll, erasing, secureflash_app_id, faults>>

-------------------------------------------------------------------------------
(* spi_nor_polling_for_wr_ready, _for_out_ready *)

(* The registers say ready: busy is gone and, for a read, output is ready. *)
Ready == ~dev.busy /\ (req.kind = "read" => dev.ordy)

(* SPI3_Send and SPI3_Receive do not look at the result of the HAL: the    *)
(* bytes are those of the flash, or whatever was in the buffer.            *)
Received(truth, value) ==
    \/ value = truth /\ NoFault
    \/ value # truth /\ Fault

(* spi_read: the chip is selected, the command sent, the answer received   *)
(* and the chip released; never an error.                                  *)
spi_read(value) == Received(IF Ready THEN "ready" ELSE "busy", value)

(* One turn: spi_nor_read_scur and spi_nor_read_sr. *)
PollTurn ==
    /\ req.phase = "poll" /\ poll.cnt < MaxPolls /\ poll.seen # "ready"
    /\ \E s \in {"ready", "busy"} :
         spi_read(s) /\ poll' = [cnt |-> poll.cnt + 1, seen |-> s]
    /\ UNCHANGED <<sf, req, dev, erasing, secureflash_app_id>>

LastTurnUnchecked == poll.seen = "ready" \/ poll.cnt = MaxPolls
(* In the last turn even a ready flash is a failure. *)
PollSucceeds == poll.seen = "ready" /\ poll.cnt < MaxPolls
PollOver == poll.seen = "ready" \/ poll.cnt = MaxPolls

(* What the request reports when the access to a chunk fails. *)
AccessError ==
    [read |-> "secure_read", program |-> "secure_program", erase |-> "secure_erase"]

(* The chunk is done: the next one, or the session is closed. *)
EndChunk ==
    /\ req.phase = "poll" /\ PollOver
    /\ \/ /\ PollSucceeds
          /\ req' = [req EXCEPT !.left = @ - Chunk(req), !.phase = "chunk"] /\ NoFault
       \/ ~PollSucceeds /\ Fails(AccessError[req.kind]) /\ NoFault
       \/ Fails(AccessError[req.kind]) /\ Fault
    /\ UNCHANGED <<sf, dev, poll, erasing, secureflash_app_id>>

(* jedec_terminate_session *)
NotTerminated ==
    /\ req.phase = "chunk" /\ req.left = 0
    /\ req' = [req EXCEPT !.phase = "done", !.result = "success"]
    /\ UNCHANGED <<sf, dev, poll, erasing, secureflash_app_id, faults>>
TerminateSession ==
    /\ req.phase = "chunk" /\ req.left = 0
    /\ \/ /\ dev' = [dev EXCEPT !.sessions = @ - 1]
          /\ req' = [req EXCEPT !.phase = "done", !.result = "success"] /\ NoFault
       \/ Fails("close_session") /\ UNCHANGED dev /\ Fault
    /\ UNCHANGED <<sf, poll, erasing, secureflash_app_id>>

(* The caller has the result; the adapter goes on with the next sector. *)
Returned ==
    /\ req.phase = "done"
    /\ LET next == erasing.offset + SectorSize
           more == erasing # NoBlock /\ req.result = "success" /\ next < BlockSize
       IN  /\ erasing' = IF more THEN [erasing EXCEPT !.offset = next] ELSE NoBlock
           /\ req' = IF more THEN Requested("erase", get_phys_address(erasing.block, next),
                                            SectorSize, secureflash_app_id)
                     ELSE Idle
    /\ UNCHANGED <<sf, dev, poll, secureflash_app_id, faults>>

-------------------------------------------------------------------------------
Next ==
    \/ secureflash_init \/ secureflash_uninit
    \/ Request \/ AdapterAccess \/ AdapterErase \/ PassOn
    \/ CreateSession \/ StartChunk \/ DeviceReady \/ PollTurn \/ EndChunk
    \/ TerminateSession \/ Returned

Spec == Init /\ [][Next]_vars

(* A request that reports success has accessed every byte of its range,    *)
(* no other byte and none twice, no access crossed the unit that the flash *)
(* reads, programs or erases at once, and the range lies within the flash: *)
(* one whose end wraps past the check of the size fails that of the zone.  *)
RangeDone ==
    req.result = "success" =>
      /\ req.addr + req.size <= TotalSize
      /\ req.touched = req.addr .. req.addr + req.size - 1
      /\ ~req.again /\ ~req.crossed

(* A request that ends well has closed the session it opened, and one that *)
(* was refused has opened none: only failures use up the sessions of the   *)
(* flash.                                                                  *)
SessionClosed ==
    req.result \in {"success", "device", "invalid_argument", "illegal_access"} =>
      dev.sessions = req.before

(* As long as no external call fails, the next chunk is not started and    *)
(* success is not reported while the flash is still busy with the last     *)
(* one: a poll that ran out of turns is never taken for a ready flash.     *)
ChunkFinished ==
    /\ faults = 0 /\ req.touched # {}
    /\ req.phase = "chunk" \/ req.result = "success"
    => ~dev.busy

(* An initialisation that reports success has left the library             *)
(* initialised, also after failed initialisations and after too many       *)
(* uninitialisations.                                                      *)
InitTruthful == sf.result = "success" => sf.init
===============================================================================
