-------------------------- MODULE SecureFlashProofs --------------------------
(***************************************************************************)
(* Proofs about the secure flash library, for any geometry of the flash,   *)
(* any layout of the ETSS area and any number of faults, polls, sessions   *)
(* and initialisations.                                                    *)
(***************************************************************************)
EXTENDS SecureFlash, TLAPS

-------------------------------------------------------------------------------
(* Division by a unit of the flash *)

LEMMA DivMod ==
    ASSUME NEW n \in Nat \ {0}, NEW x \in Nat
    PROVE  /\ x \div n \in Nat /\ x % n \in 0 .. n - 1
           /\ x = n * (x \div n) + (x % n)
BY SMT

LEMMA MultLess ==
    ASSUME NEW n \in Nat, NEW p \in Int, NEW q \in Int, p < q
    PROVE  n * p + n <= n * q
BY SMT

LEMMA DivUnique ==
    ASSUME NEW n \in Nat \ {0}, NEW p \in Int, NEW q \in Int,
           NEW r \in 0 .. n - 1, NEW s \in 0 .. n - 1, n * p + r = n * q + s
    PROVE  p = q /\ r = s
<1>1. n * p \in Int /\ n * q \in Int
  BY SMT
<1>2. ~(p < q) /\ ~(q < p)
  BY <1>1, MultLess, SMT
<1>3. p = q
  BY <1>2, SMT
<1> QED
  BY <1>1, <1>3, SMT

(* The bytes up to the end of a unit are all of that unit. *)
LEMMA SameUnit ==
    ASSUME NEW n \in Nat \ {0}, NEW x \in Nat, NEW c \in Nat, (x % n) + c <= n,
           NEW a \in x .. x + c - 1
    PROVE  a \div n = x \div n
<1> DEFINE q == x \div n
           p == a \div n
           s == (x % n) + (a - x)
<1>1. x = n * q + (x % n) /\ q \in Nat /\ x % n \in 0 .. n - 1
  BY DivMod
<1>2. a \in Nat
  OBVIOUS
<1>3. a = n * p + (a % n) /\ p \in Nat /\ a % n \in 0 .. n - 1
  BY <1>2, DivMod
<1>4. n * q \in Int /\ n * p \in Int
  BY <1>1, <1>3, SMT
<1>5. s \in 0 .. n - 1
  BY <1>1, SMT
<1>6. n * p + (a % n) = n * q + s
  BY <1>1, <1>3, <1>4
<1> HIDE DEF q, p, s
<1>7. p = q
  BY <1>1, <1>3, <1>5, <1>6, DivUnique
<1> QED
  BY <1>7 DEF p, q

(* Between two multiples of n there is room for n, and adding n to a       *)
(* multiple gives one.                                                     *)
LEMMA NextMultiple ==
    ASSUME NEW n \in Nat \ {0}, NEW x \in Nat, NEW y \in Nat,
           x % n = 0, y % n = 0, x < y
    PROVE  x + n <= y /\ (x + n) % n = 0
<1> DEFINE p == x \div n
           q == y \div n
           z == (x + n) \div n
           r == (x + n) % n
           e == p + 1
           s == 0
<1>1. x = n * p /\ p \in Nat
  BY DivMod, SMT
<1>2. y = n * q /\ q \in Nat
  BY DivMod, SMT
<1>3. x + n = n * z + r /\ z \in Nat /\ r \in 0 .. n - 1
  <2>1. x + n \in Nat
    OBVIOUS
  <2> QED
    BY <2>1, DivMod
<1>4. p < q
  <2>1. CASE q < p
    <3>1. n * q + n <= n * p
      BY <1>1, <1>2, <2>1, MultLess
    <3> QED
      BY <1>1, <1>2, <3>1, SMT
  <2>2. CASE p = q
    BY <1>1, <1>2, <2>2
  <2> QED
    BY <1>1, <1>2, <2>1, <2>2, SMT
<1>5. n * p + n <= n * q
  BY <1>1, <1>2, <1>4, MultLess
<1>6. e \in Nat
  BY <1>1, SMT
<1>7. n * z + r = n * e + s
  <2>1. n * e = n * p + n
    BY <1>1, SMT
  <2> QED
    BY <1>1, <1>3, <2>1
<1>8. s \in 0 .. n - 1
  OBVIOUS
<1> HIDE DEF p, q, z, r, e, s
<1>9. r = s
  <2>1. z \in Nat /\ r \in 0 .. n - 1
    BY <1>3
  <2> QED
    BY <1>6, <1>7, <1>8, <2>1, DivUnique
<1> QED
  BY <1>1, <1>2, <1>5, <1>9 DEF r, s

-------------------------------------------------------------------------------
(* The inductive invariant *)

Phase == {"idle", "session", "chunk", "poll", "done"}
Refused == {"device", "invalid_argument", "illegal_access"}
Failed == {"create_session", "secure_read", "secure_program", "secure_erase",
           "close_session"}

ReqType ==
    [kind : Kinds \cup {"none"}, addr : Nat, size : Nat, left : Nat, app : Apps \cup {0},
     phase : Phase, touched : SUBSET Nat, again : BOOLEAN, crossed : BOOLEAN,
     result : {"none", "success"} \cup Refused \cup Failed, before : Nat]

TypeOK ==
    /\ req \in ReqType
    /\ dev \in [busy : BOOLEAN, ordy : BOOLEAN, sessions : Nat]
    /\ poll \in [cnt : Nat, seen : {"none", "ready", "busy"}]
    /\ erasing \in [block : 0 .. NumBlocks - 1, offset : Nat] \cup {NoBlock}
    /\ secureflash_app_id \in Apps \cup {0}
    /\ faults \in Nat

(* A request that runs has no result yet, it lies within the flash, and an *)
(* erase is of whole units.                                                *)
Running(r) ==
    /\ r.kind \in Kinds /\ r.result = "none" /\ r.left <= r.size
    /\ r.addr + r.size <= TotalSize
    /\ r.kind = "erase" =>
         At(r) % EraseSize = 0 /\ (r.addr + r.size) % EraseSize = 0
    /\ ~r.again /\ ~r.crossed

(* The bytes accessed so far are those before the next chunk; while the    *)
(* flash is polled, the chunk is one of them.                              *)
Covered(r) ==
    /\ r.phase = "session" => r.touched = {} /\ r.left = r.size
    /\ r.phase = "chunk" => r.touched = r.addr .. At(r) - 1
    /\ r.phase = "poll" => /\ Chunk(r) \in 1 .. r.left
                           /\ r.touched = r.addr .. At(r) + Chunk(r) - 1

RangeInv ==
    /\ req.phase \in {"session", "chunk", "poll"} => Running(req) /\ Covered(req)
    /\ req.phase = "idle" => req.result = "none"
    /\ RangeDone

(* The session of a running request is open. *)
SessionInv ==
    /\ req.phase \in {"chunk", "poll"} => dev.sessions = req.before + 1
    /\ req.phase = "session" => dev.sessions = req.before
    /\ SessionClosed

(* As long as no call has failed, a poll that saw ready tells the truth. *)
FinishedInv ==
    /\ faults = 0 /\ req.phase = "poll" /\ poll.seen = "ready" => ~dev.busy
    /\ ChunkFinished

Inv == TypeOK /\ RangeInv /\ SessionInv /\ FinishedInv

-------------------------------------------------------------------------------
(* The initialisation *)

(* secureflash_t is always the record that Init makes of it, and its app   *)
(* info is empty or what was provisioned.                                  *)
SfType ==
    /\ sf = [init |-> sf.init, refs |-> sf.refs, app_info |-> sf.app_info,
             result |-> sf.result]
    /\ sf.init \in BOOLEAN /\ sf.app_info \subseteq AppData

LEMMA InitTruthfulStep ==
    SfType /\ InitTruthful /\ [Next]_vars => SfType' /\ InitTruthful'
<1> SUFFICES ASSUME SfType, InitTruthful, [Next]_vars PROVE SfType' /\ InitTruthful'
  OBVIOUS
<1>1. CASE secureflash_init
  <2> DEFINE s == CountRef(sf)
  <2>1. /\ s = [init |-> s.init, refs |-> s.refs, app_info |-> s.app_info,
                result |-> s.result]
        /\ s.init = sf.init /\ s.app_info = sf.app_info
        /\ s.refs = ((IF sf.init THEN sf.refs ELSE 0) + 1) % CountSpace
    BY DEF CountRef, SfType
  <2>2. s.refs # 1 => s.init
    <3>1. (0 + 1) % CountSpace = 1
      BY WidthAssumption
    <3> QED
      BY <2>1, <3>1 DEF SfType
  <2>3. s.init \in BOOLEAN /\ s.app_info \subseteq AppData
    BY <2>1 DEF SfType
  <2> HIDE DEF s
  <2>4. \/ s.refs # 1 /\ sf' = [s EXCEPT !.result = "success"]
        \/ sf' \in InitOutcomes(s)
        \/ sf' \in InitFailures(s)
    BY <1>1 DEF secureflash_init, s
  <2>5. CASE s.refs # 1 /\ sf' = [s EXCEPT !.result = "success"]
    BY <2>1, <2>2, <2>3, <2>5 DEF SfType, InitTruthful
  <2>6. CASE sf' \in InitOutcomes(s)
    BY <2>1, <2>3, <2>6 DEF InitOutcomes, SfType, InitTruthful
  <2>7. CASE sf' \in InitFailures(s)
    BY <2>1, <2>3, <2>7 DEF InitFailures, SfType, InitTruthful
  <2> QED
    BY <2>4, <2>5, <2>6, <2>7
<1>2. CASE secureflash_uninit
  <2>1. CASE sf' = [sf EXCEPT !.result = "none"]
    BY <2>1 DEF SfType, InitTruthful
  <2>2. ASSUME NEW left, sf' = [init |-> sf.init /\ left # 0, app_info |-> {},
                                refs |-> left, result |-> "none"]
        PROVE  SfType' /\ InitTruthful'
    BY <2>2 DEF SfType, InitTruthful
  <2> QED
    BY <1>2, <2>1, <2>2 DEF secureflash_uninit
<1>3. CASE UNCHANGED sf
  BY <1>3 DEF SfType, InitTruthful
<1> QED
  BY <1>1, <1>2, <1>3
  DEF Next, vars, Request, AdapterAccess, AdapterErase, PassOn, CreateSession, StartChunk,
      DeviceReady, PollTurn, EndChunk, TerminateSession, Returned

LEMMA SfCorrect == Spec => [](SfType /\ InitTruthful)
<1>1. Init => SfType /\ InitTruthful
  BY DEF Init, SfType, InitTruthful
<1> QED
  BY <1>1, InitTruthfulStep, PTL DEF Spec

-------------------------------------------------------------------------------
(* What the operators of the model compute *)

(* A range that passes the checks lies within the flash, although its end  *)
(* is computed modulo the size of the address space: a first byte in a     *)
(* provisioned zone is so far from the end of the address space that the   *)
(* sum cannot have wrapped.                                                *)
LEMMA WithinFlash ==
    ASSUME SfType, NEW kind, NEW addr \in Nat, NEW size \in 0 .. MaxSize, NEW app,
           Refusal(kind, addr, size, app) = "none"
    PROVE  addr + size <= TotalSize /\ End(addr, size) = addr + size
<1>1. ~(End(addr, size) > TotalSize) /\ query_app_info(addr, app) # {}
  BY DEF Refusal
<1>2. PICK d \in AppData : d.zone_id = addr \div ZoneSize
  BY <1>1 DEF query_app_info, SfType
<1> DEFINE q == addr \div ZoneSize
           m == addr % ZoneSize
<1>3. ZoneSize \in Nat \ {0} /\ TotalSize \in Nat /\ MaxSize \in Nat
  BY FlashAssumption
<1>4. addr = ZoneSize * q + m /\ m \in 0 .. ZoneSize - 1 /\ q \in Nat
  BY <1>3, DivMod
<1>5. ZoneSize * q + ZoneSize <= TotalSize
  BY <1>2, WidthAssumption
<1>6. ZoneSize * q \in Int
  BY <1>3, <1>4, SMT
<1> HIDE DEF q, m
<1>7. addr < TotalSize
  BY <1>3, <1>4, <1>5, <1>6
<1>8. addr + size \in 0 .. AddrSpace - 1 /\ AddrSpace \in Nat \ {0}
  BY <1>3, <1>7, WidthAssumption
<1>9. End(addr, size) = addr + size
  <2> DEFINE z == addr + size
  <2>1. z \in 0 .. AddrSpace - 1
    BY <1>8
  <2> HIDE DEF z
  <2>2. z % AddrSpace = z
    BY <1>8, <2>1
  <2> QED
    BY <2>2 DEF End, z
<1> QED
  BY <1>1, <1>3, <1>8, <1>9

(* A new request runs from its first byte, or is refused. *)
LEMMA RequestedFields ==
    ASSUME TypeOK, SfType, NEW kind \in Kinds, NEW addr \in Nat, NEW size \in 0 .. MaxSize,
           NEW app \in Apps \cup {0}
    PROVE  LET r == Requested(kind, addr, size, app) IN
           /\ r \in ReqType
           /\ \/ r.phase = "session" /\ Running(r) /\ Covered(r)
              \/ r.phase = "done" /\ r.result \in Refused
           /\ r.before = dev.sessions /\ r.touched = {}
<1> DEFINE ref == Refusal(kind, addr, size, app)
           r == Requested(kind, addr, size, app)
<1>1. ref \in Refused \cup {"none"}
  BY DEF Refusal, Refused
<1>2. ref = "none" =>
        /\ addr + size <= TotalSize
        /\ kind = "erase" => addr % EraseSize = 0 /\ (addr + size) % EraseSize = 0
  <2> SUFFICES ASSUME ref = "none"
               PROVE  /\ addr + size <= TotalSize
                      /\ kind = "erase" =>
                           addr % EraseSize = 0 /\ (addr + size) % EraseSize = 0
    OBVIOUS
  <2>1. addr + size <= TotalSize /\ End(addr, size) = addr + size
    BY WithinFlash
  <2>2. kind = "erase" => addr % EraseSize = 0 /\ End(addr, size) % EraseSize = 0
    BY DEF Refusal
  <2> QED
    BY <2>1, <2>2
<1> HIDE DEF ref
<1>3. r = [Idle EXCEPT !.kind = kind, !.addr = addr, !.size = size, !.left = size,
                       !.app = app, !.before = dev.sessions,
                       !.phase = IF ref = "none" THEN "session" ELSE "done",
                       !.result = ref]
  BY DEF Requested, ref
<1>4. r = [kind |-> kind, addr |-> addr, size |-> size, left |-> size, app |-> app,
           phase |-> IF ref = "none" THEN "session" ELSE "done", touched |-> {},
           again |-> FALSE, crossed |-> FALSE, result |-> ref, before |-> dev.sessions]
  BY <1>3 DEF Idle
<1>5. r \in ReqType
  BY <1>1, <1>4, FlashAssumption DEF ReqType, Phase, TypeOK, Refused
<1> HIDE DEF r
<1>6. CASE ref = "none"
  <2>1. At(r) = addr
    BY <1>4 DEF At
  <2>2. Running(r) /\ Covered(r)
    BY <1>2, <1>4, <1>6, <2>1 DEF Running, Covered
  <2> QED
    BY <1>4, <1>5, <1>6, <2>2 DEF r
<1>7. CASE ref # "none"
  BY <1>1, <1>4, <1>5, <1>7 DEF r
<1> QED
  BY <1>6, <1>7

(* The unit that one access may not cross. *)
Unit(r) == IF r.kind = "erase" THEN EraseSize ELSE UnitOf(r.kind)

(* A chunk is not empty, not longer than what is left, and ends with its   *)
(* unit at the latest; the chunks of an erase are whole units.             *)
LEMMA ChunkBounds ==
    ASSUME NEW r \in ReqType, Running(r), r.left > 0
    PROVE  /\ At(r) \in Nat /\ Unit(r) \in Nat \ {0}
           /\ Chunk(r) \in 1 .. r.left
           /\ (At(r) % Unit(r)) + Chunk(r) <= Unit(r)
           /\ r.kind = "erase" => (At(r) + Chunk(r)) % EraseSize = 0
<1>1. At(r) \in Nat /\ At(r) + r.left = r.addr + r.size
  BY DEF At, Running, ReqType
<1>2. Unit(r) \in Nat \ {0}
  BY FlashAssumption DEF Unit, UnitOf
<1>3. CASE r.kind = "erase"
  <2> DEFINE x == At(r)
             y == r.addr + r.size
  <2>1. Chunk(r) = EraseSize /\ Unit(r) = EraseSize
    BY <1>3 DEF Chunk, Unit
  <2>2. x % EraseSize = 0 /\ y % EraseSize = 0 /\ x \in Nat /\ y \in Nat /\ x < y
    BY <1>1, <1>3 DEF Running, ReqType
  <2> HIDE DEF x, y
  <2>3. EraseSize \in Nat \ {0}
    BY FlashAssumption
  <2>4. x + EraseSize <= y /\ (x + EraseSize) % EraseSize = 0
    BY <2>2, <2>3, NextMultiple
  <2>5. EraseSize \in 1 .. r.left
    BY <1>1, <2>2, <2>3, <2>4 DEF x, y, ReqType
  <2>6. (x % EraseSize) + EraseSize <= EraseSize
    BY <2>2, <2>3
  <2> QED
    BY <1>1, <1>2, <2>1, <2>4, <2>5, <2>6 DEF x
<1>4. CASE r.kind # "erase"
  <2> DEFINE x == At(r)
             u == UnitOf(r.kind)
             o == x % u
  <2>1. u \in Nat \ {0} /\ Unit(r) = u
    BY <1>2, <1>4 DEF Unit
  <2>2. Chunk(r) = IF o + r.left < u THEN r.left ELSE u - o
    BY <1>4 DEF Chunk
  <2> HIDE DEF x, u
  <2>3. o \in 0 .. u - 1
    BY <1>1, <2>1, DivMod DEF x
  <2>4. Chunk(r) \in 1 .. r.left /\ o + Chunk(r) <= u
    BY <2>1, <2>2, <2>3 DEF ReqType
  <2> QED
    BY <1>1, <1>2, <1>4, <2>1, <2>4 DEF x
<1> QED
  BY <1>3, <1>4

(* Accessing the next chunk touches new bytes only, all of one unit. *)
LEMMA AccessedFields ==
    ASSUME NEW r \in ReqType, Running(r), Covered(r), r.phase = "chunk", r.left > 0
    PROVE  /\ Accessed(r) \in ReqType
           /\ Running(Accessed(r)) /\ Covered(Accessed(r))
           /\ Accessed(r).phase = "poll" /\ Accessed(r).before = r.before
<1> DEFINE a == Accessed(r)
           x == At(r)
           c == Chunk(r)
           u == Unit(r)
           bytes == x .. x + c - 1
<1>1. /\ x \in Nat /\ u \in Nat \ {0} /\ c \in 1 .. r.left /\ (x % u) + c <= u
      /\ x = r.addr + (r.size - r.left) /\ r.addr \in Nat /\ r.addr <= x
      /\ r.left \in Nat
  BY ChunkBounds DEF At, ReqType, Running
<1>2. /\ a = [r EXCEPT !.touched = @ \cup bytes, !.again = @ \/ bytes \cap r.touched # {},
                       !.crossed = @ \/ \E i, j \in bytes : i \div u # j \div u,
                       !.phase = "poll"]
  BY DEF Accessed, Unit
<1>3. r.touched = r.addr .. x - 1
  BY DEF Covered
<1>4. \A i, j \in bytes : i \div u = j \div u
  <2> HIDE DEF x, c, u
  <2>1. c \in Nat
    BY <1>1
  <2>2. \A i \in bytes : i \div u = x \div u
    BY <1>1, <2>1, SameUnit
  <2> QED
    BY <2>2
<1> HIDE DEF a, x, c, u
<1>5. x \in Nat /\ r.addr \in Nat /\ r.addr <= x /\ c \in Nat
  BY <1>1
<1>6. bytes \cap r.touched = {} /\ r.touched \cup bytes = r.addr .. x + c - 1
  BY <1>3, <1>5
<1>7. r.again = FALSE /\ r.crossed = FALSE
  BY DEF Running, ReqType
<1> HIDE DEF bytes
<1>8. a = [r EXCEPT !.touched = r.addr .. x + c - 1, !.again = FALSE, !.crossed = FALSE,
                    !.phase = "poll"]
  BY <1>2, <1>4, <1>6, <1>7
<1>9. a \in ReqType
  <2>1. r.addr .. x + c - 1 \in SUBSET Nat
    BY <1>5
  <2> QED
    BY <1>8, <2>1 DEF ReqType, Phase
<1>10. /\ a.kind = r.kind /\ a.addr = r.addr /\ a.size = r.size /\ a.left = r.left
       /\ a.result = r.result /\ ~a.again /\ ~a.crossed /\ a.phase = "poll"
       /\ a.touched = r.addr .. x + c - 1 /\ a.before = r.before
  BY <1>8 DEF ReqType
<1>11. At(a) = x /\ Chunk(a) = c
  BY <1>10 DEF At, Chunk, x, c
<1>12. Running(a)
  BY <1>10, <1>11 DEF Running, x
<1>13. Covered(a)
  BY <1>1, <1>10, <1>11 DEF Covered
<1> QED
  BY <1>9, <1>10, <1>12, <1>13 DEF a

-------------------------------------------------------------------------------
(* The steps *)

LEMMA InvInit == Init => Inv
<1> SUFFICES ASSUME Init PROVE Inv
  OBVIOUS
<1>1. Idle \in ReqType
  BY FlashAssumption DEF Idle, ReqType, Phase
<1>2. TypeOK
  BY <1>1 DEF Init, TypeOK
<1>3. RangeInv
  BY DEF Init, Idle, RangeInv, RangeDone
<1>4. SessionInv
  BY DEF Init, Idle, SessionInv, SessionClosed
<1>5. FinishedInv
  BY DEF Init, Idle, FinishedInv, ChunkFinished
<1> QED
  BY <1>2, <1>3, <1>4, <1>5 DEF Inv

(* A request is made, by a caller or by the adapter for the next sector. *)
LEMMA RequestStep ==
    ASSUME Inv, SfType,
           NEW kind \in Kinds, NEW addr \in Nat, NEW size \in 0 .. MaxSize,
           NEW app \in Apps \cup {0}, req' = Requested(kind, addr, size, app),
           UNCHANGED <<sf, dev, poll, secureflash_app_id, faults>>,
           erasing' \in [block : 0 .. NumBlocks - 1, offset : Nat] \cup {NoBlock}
    PROVE  Inv'
<1>1. /\ req' \in ReqType
      /\ \/ req'.phase = "session" /\ Running(req') /\ Covered(req')
         \/ req'.phase = "done" /\ req'.result \in Refused
      /\ req'.before = dev.sessions /\ req'.touched = {}
  BY RequestedFields DEF Inv
<1>2. TypeOK'
  BY <1>1 DEF Inv, TypeOK
<1>3. req'.phase = "session" => req'.result = "none"
  BY <1>1 DEF Running
<1>4. req'.result # "success"
  BY <1>1 DEF Refused, Running
<1>5. RangeInv'
  BY <1>1, <1>3, <1>4 DEF RangeInv, RangeDone
<1>6. SessionInv'
  BY <1>1, <1>3 DEF SessionInv, SessionClosed
<1>7. FinishedInv'
  BY <1>1, <1>4 DEF FinishedInv, ChunkFinished
<1> QED
  BY <1>2, <1>5, <1>6, <1>7 DEF Inv

(* A request fails after its session was asked for. *)
LEMMA FailStep ==
    ASSUME Inv, NEW result \in Failed, Fails(result), req.phase # "idle",
           UNCHANGED <<sf, dev, poll, erasing, secureflash_app_id>>, NoFault \/ Fault
    PROVE  Inv'
<1>1. req' = [req EXCEPT !.phase = "done", !.result = result] /\ req \in ReqType
  BY DEF Fails, Inv, TypeOK
<1>2. /\ req' \in ReqType /\ req'.phase = "done" /\ req'.result = result
  BY <1>1 DEF ReqType, Phase
<1>3. result \notin {"none", "success"} \cup Refused
  BY DEF Failed, Refused
<1>4. faults' \in Nat
  BY DEF NoFault, Fault, Inv, TypeOK
<1>5. TypeOK'
  BY <1>2, <1>4 DEF Inv, TypeOK
<1>6. RangeInv'
  BY <1>2, <1>3 DEF RangeInv, RangeDone
<1>7. SessionInv'
  BY <1>2, <1>3 DEF SessionInv, SessionClosed, Refused
<1>8. FinishedInv'
  BY <1>2, <1>3 DEF FinishedInv, ChunkFinished
<1> QED
  BY <1>5, <1>6, <1>7, <1>8 DEF Inv

(* A step that leaves the request, its sessions and the poll alone. *)
LEMMA ElsewhereStep ==
    ASSUME Inv, UNCHANGED <<req, dev, poll, erasing>>,
           secureflash_app_id' \in Apps \cup {0}, NoFault \/ Fault
    PROVE  Inv'
<1>1. faults' \in Nat /\ (faults' = 0 => faults = 0)
  BY DEF NoFault, Fault, Inv, TypeOK
<1>2. TypeOK'
  BY <1>1 DEF Inv, TypeOK
<1>3. RangeInv'
  BY DEF Inv, RangeInv, RangeDone, Running, Covered, At, Chunk
<1>4. SessionInv'
  BY DEF Inv, SessionInv, SessionClosed
<1>5. FinishedInv'
  BY <1>1 DEF Inv, FinishedInv, ChunkFinished
<1> QED
  BY <1>2, <1>3, <1>4, <1>5 DEF Inv

LEMMA CreateSessionStep == Inv /\ CreateSession => Inv'
<1> SUFFICES ASSUME Inv, CreateSession PROVE Inv'
  OBVIOUS
<1>1. req.phase = "session" /\ UNCHANGED <<sf, poll, erasing, secureflash_app_id>>
  BY DEF CreateSession
<1>2. CASE dev' = [dev EXCEPT !.sessions = @ + 1]
             /\ req' = [req EXCEPT !.phase = "chunk"] /\ NoFault
  <2>1. /\ dev \in [busy : BOOLEAN, ordy : BOOLEAN, sessions : Nat] /\ req \in ReqType
        /\ Running(req) /\ Covered(req) /\ dev.sessions = req.before
    BY <1>1 DEF Inv, TypeOK, RangeInv, SessionInv
  <2>2. /\ req' \in ReqType /\ req'.phase = "chunk"
        /\ \A f \in {"kind", "addr", "size", "left", "touched", "again", "crossed",
                     "result", "before"} : req'[f] = req[f]
    BY <1>2, <2>1 DEF ReqType, Phase
  <2>3. /\ req'.kind = req.kind /\ req'.addr = req.addr /\ req'.size = req.size
        /\ req'.left = req.left /\ req'.touched = {} /\ req'.result = "none"
        /\ req'.again = req.again /\ req'.crossed = req.crossed
        /\ req'.before = req.before /\ req.left = req.size
    BY <1>1, <2>1, <2>2 DEF Running, Covered
  <2>4. At(req') = At(req) /\ At(req) = req.addr
    BY <2>1, <2>3 DEF At, ReqType
  <2>5. Running(req')
    BY <2>1, <2>3, <2>4 DEF Running
  <2>6. req.addr .. req.addr - 1 = {}
    BY <2>1 DEF ReqType
  <2>7. Covered(req')
    BY <2>2, <2>3, <2>4, <2>6 DEF Covered
  <2>8. /\ dev' \in [busy : BOOLEAN, ordy : BOOLEAN, sessions : Nat]
        /\ dev'.sessions = req'.before + 1
    BY <1>2, <2>1, <2>3
  <2>9. TypeOK'
    BY <1>1, <1>2, <2>2, <2>8 DEF Inv, TypeOK, NoFault
  <2>10. RangeInv'
    BY <2>2, <2>3, <2>5, <2>7 DEF RangeInv, RangeDone
  <2>11. SessionInv'
    BY <2>2, <2>3, <2>8 DEF SessionInv, SessionClosed
  <2>12. FinishedInv'
    BY <2>2, <2>3 DEF FinishedInv, ChunkFinished
  <2> QED
    BY <2>9, <2>10, <2>11, <2>12 DEF Inv
<1>3. CASE Fails("create_session") /\ UNCHANGED dev /\ (NoFault \/ Fault)
  BY <1>1, <1>3, FailStep DEF Failed
<1> QED
  BY <1>2, <1>3 DEF CreateSession

LEMMA StartChunkStep == Inv /\ StartChunk => Inv'
<1> SUFFICES ASSUME Inv, StartChunk PROVE Inv'
  OBVIOUS
<1>1. /\ req.phase = "chunk" /\ req.left > 0 /\ req' = Accessed(req)
      /\ dev' = [dev EXCEPT !.busy = TRUE, !.ordy = FALSE]
      /\ poll' = [cnt |-> 0, seen |-> "none"]
      /\ UNCHANGED <<sf, erasing, secureflash_app_id, faults>>
  BY DEF StartChunk
<1>2. /\ req \in ReqType /\ Running(req) /\ Covered(req) /\ dev.sessions = req.before + 1
  BY <1>1 DEF Inv, TypeOK, RangeInv, SessionInv
<1>3. /\ req' \in ReqType /\ Running(req') /\ Covered(req')
      /\ req'.phase = "poll" /\ req'.before = req.before
  BY <1>1, <1>2, AccessedFields
<1>4. /\ dev' \in [busy : BOOLEAN, ordy : BOOLEAN, sessions : Nat]
      /\ dev'.sessions = dev.sessions
  BY <1>1 DEF Inv, TypeOK
<1>5. req'.result = "none"
  BY <1>3 DEF Running
<1>6. TypeOK'
  BY <1>1, <1>3, <1>4 DEF Inv, TypeOK
<1>7. RangeInv'
  BY <1>3, <1>5 DEF RangeInv, RangeDone
<1>8. SessionInv'
  BY <1>2, <1>3, <1>4, <1>5 DEF SessionInv, SessionClosed
<1>9. FinishedInv'
  BY <1>1, <1>3, <1>5 DEF FinishedInv, ChunkFinished
<1> QED
  BY <1>6, <1>7, <1>8, <1>9 DEF Inv

LEMMA PollTurnStep == Inv /\ PollTurn => Inv'
<1> SUFFICES ASSUME Inv, PollTurn PROVE Inv'
  OBVIOUS
<1>1. PICK s \in {"ready", "busy"} :
        spi_read(s) /\ poll' = [cnt |-> poll.cnt + 1, seen |-> s]
  BY DEF PollTurn
<1>2. req.phase = "poll" /\ UNCHANGED <<sf, req, dev, erasing, secureflash_app_id>>
  BY DEF PollTurn
<1>3. faults' \in Nat /\ (faults' = 0 => faults = 0)
  BY <1>1 DEF spi_read, Received, NoFault, Fault, Inv, TypeOK
<1>4. faults' = 0 /\ s = "ready" => ~dev.busy
  BY <1>1 DEF spi_read, Received, NoFault, Fault, Inv, TypeOK, Ready
<1>5. TypeOK'
  BY <1>1, <1>2, <1>3 DEF Inv, TypeOK
<1>6. RangeInv'
  BY <1>2 DEF Inv, RangeInv, RangeDone, Running, Covered, At, Chunk
<1>7. SessionInv'
  BY <1>2 DEF Inv, SessionInv, SessionClosed
<1>8. FinishedInv'
  BY <1>1, <1>2, <1>3, <1>4 DEF Inv, FinishedInv, ChunkFinished
<1> QED
  BY <1>5, <1>6, <1>7, <1>8 DEF Inv

LEMMA EndChunkStep == Inv /\ EndChunk => Inv'
<1> SUFFICES ASSUME Inv, EndChunk PROVE Inv'
  OBVIOUS
<1>1. req.phase = "poll" /\ UNCHANGED <<sf, dev, poll, erasing, secureflash_app_id>>
  BY DEF EndChunk
<1>2. req \in ReqType /\ Running(req) /\ Covered(req) /\ dev.sessions = req.before + 1
  BY <1>1 DEF Inv, TypeOK, RangeInv, SessionInv
<1>3. CASE PollSucceeds /\ NoFault
             /\ req' = [req EXCEPT !.left = @ - Chunk(req), !.phase = "chunk"]
  <2> DEFINE c == Chunk(req)
  <2>1. c \in 1 .. req.left /\ req.touched = req.addr .. At(req) + c - 1
    BY <1>1, <1>2 DEF Covered
  <2>2. req.left > 0
    BY <1>2, <2>1 DEF ReqType
  <2>3. /\ At(req) \in Nat
        /\ req.kind = "erase" => (At(req) + c) % EraseSize = 0
    BY <1>2, <2>2, ChunkBounds
  <2> HIDE DEF c
  <2>4. req' = [req EXCEPT !.left = req.left - c, !.phase = "chunk"]
    BY <1>3 DEF c
  <2>5. req.left - c \in Nat /\ req.left - c <= req.size
    BY <1>2, <2>1 DEF Running, ReqType
  <2>6. /\ req' \in ReqType /\ req'.phase = "chunk" /\ req'.left = req.left - c
        /\ req'.kind = req.kind /\ req'.addr = req.addr /\ req'.size = req.size
        /\ req'.touched = req.touched /\ req'.result = req.result
        /\ req'.again = req.again /\ req'.crossed = req.crossed
        /\ req'.before = req.before
    BY <1>2, <2>4, <2>5 DEF ReqType, Phase
  <2>7. At(req') = At(req) + c
    BY <1>2, <2>1, <2>6 DEF At, ReqType
  <2>8. Running(req')
    BY <1>2, <2>3, <2>5, <2>6, <2>7 DEF Running
  <2>9. Covered(req')
    <3>1. At(req) + c - 1 = At(req') - 1
      BY <2>1, <2>3, <2>7
    <3>2. req'.touched = req'.addr .. At(req') - 1
      BY <2>1, <2>6, <3>1, Zenon
    <3> QED
      BY <2>6, <3>2 DEF Covered
  <2>10. req'.result = "none"
    BY <2>8 DEF Running
  <2>11. TypeOK'
    BY <1>1, <1>3, <2>6 DEF Inv, TypeOK, NoFault
  <2>12. RangeInv'
    BY <2>6, <2>8, <2>9, <2>10 DEF RangeInv, RangeDone
  <2>13. SessionInv'
    BY <1>1, <1>2, <2>6, <2>10 DEF SessionInv, SessionClosed
  <2>14. FinishedInv'
    BY <1>1, <1>3, <2>6, <2>10
    DEF Inv, FinishedInv, ChunkFinished, PollSucceeds, NoFault
  <2> QED
    BY <2>11, <2>12, <2>13, <2>14 DEF Inv
<1>4. CASE Fails(AccessError[req.kind]) /\ (NoFault \/ Fault)
  <2>1. AccessError[req.kind] \in Failed
    BY <1>2 DEF AccessError, Failed, Running, Kinds
  <2> QED
    BY <1>1, <1>4, <2>1, FailStep
<1> QED
  BY <1>3, <1>4 DEF EndChunk

LEMMA TerminateStep == Inv /\ TerminateSession => Inv'
<1> SUFFICES ASSUME Inv, TerminateSession PROVE Inv'
  OBVIOUS
<1>1. /\ req.phase = "chunk" /\ req.left = 0
      /\ UNCHANGED <<sf, poll, erasing, secureflash_app_id>>
  BY DEF TerminateSession
<1>2. /\ req \in ReqType /\ Running(req) /\ Covered(req) /\ dev.sessions = req.before + 1
      /\ dev \in [busy : BOOLEAN, ordy : BOOLEAN, sessions : Nat]
  BY <1>1 DEF Inv, TypeOK, RangeInv, SessionInv
<1>3. CASE dev' = [dev EXCEPT !.sessions = @ - 1] /\ NoFault
             /\ req' = [req EXCEPT !.phase = "done", !.result = "success"]
  <2>1. At(req) = req.addr + req.size
    BY <1>1, <1>2 DEF At, ReqType
  <2>2. req.touched = req.addr .. req.addr + req.size - 1
    <3>1. req.touched = req.addr .. At(req) - 1
      BY <1>1, <1>2 DEF Covered
    <3>2. At(req) - 1 = req.addr + req.size - 1
      BY <1>2, <2>1 DEF ReqType
    <3> QED
      BY <3>1, <3>2, Zenon
  <2>3. /\ req' \in ReqType /\ req'.phase = "done" /\ req'.result = "success"
        /\ req'.addr = req.addr /\ req'.size = req.size
        /\ req'.touched = req.touched /\ req'.before = req.before
        /\ req'.again = req.again /\ req'.crossed = req.crossed
    BY <1>2, <1>3 DEF ReqType, Phase
  <2>4. /\ dev' \in [busy : BOOLEAN, ordy : BOOLEAN, sessions : Nat]
        /\ dev'.sessions = req.before /\ dev'.busy = dev.busy
    BY <1>2, <1>3 DEF ReqType
  <2>5. TypeOK'
    BY <1>1, <1>3, <2>3, <2>4 DEF Inv, TypeOK, NoFault
  <2>6. RangeInv'
    BY <1>2, <2>2, <2>3 DEF RangeInv, RangeDone, Running
  <2>7. SessionInv'
    BY <2>3, <2>4 DEF SessionInv, SessionClosed
  <2>8. FinishedInv'
    BY <1>1, <1>3, <2>3, <2>4 DEF Inv, FinishedInv, ChunkFinished, NoFault
  <2> QED
    BY <2>5, <2>6, <2>7, <2>8 DEF Inv
<1>4. CASE Fails("close_session") /\ UNCHANGED dev /\ Fault
  BY <1>1, <1>4, FailStep DEF Failed
<1> QED
  BY <1>3, <1>4 DEF TerminateSession

(* The physical address of a byte of a block. *)
LEMMA AddressType ==
    ASSUME NEW b \in 0 .. NumBlocks - 1, NEW o \in Nat
    PROVE  get_phys_address(b, o) \in Nat
<1>1. b \in Nat /\ FlashAreaAddr \in Nat /\ BlockSize \in Nat
  BY FlashAssumption
<1>2. b * BlockSize \in Nat
  BY <1>1, SMT
<1> QED
  BY <1>1, <1>2 DEF get_phys_address

LEMMA ReturnedStep == Inv /\ SfType /\ Returned => Inv'
<1> SUFFICES ASSUME Inv, SfType, Returned PROVE Inv'
  OBVIOUS
<1> DEFINE next == erasing.offset + SectorSize
           more == erasing # NoBlock /\ req.result = "success" /\ next < BlockSize
<1>1. /\ req.phase = "done"
      /\ erasing' = IF more THEN [erasing EXCEPT !.offset = next] ELSE NoBlock
      /\ req' = IF more THEN Requested("erase", get_phys_address(erasing.block, next),
                                       SectorSize, secureflash_app_id)
                ELSE Idle
      /\ UNCHANGED <<sf, dev, poll, secureflash_app_id, faults>>
  BY DEF Returned
<1>2. CASE more
  <2>1. erasing \in [block : 0 .. NumBlocks - 1, offset : Nat]
    BY <1>2 DEF Inv, TypeOK
  <2>2. next \in Nat /\ SectorSize \in 0 .. MaxSize
    BY <2>1, FlashAssumption, WidthAssumption
  <2>3. get_phys_address(erasing.block, next) \in Nat
    <3>1. erasing.block \in 0 .. NumBlocks - 1
      BY <2>1
    <3> HIDE DEF next
    <3> QED
      BY <2>2, <3>1, AddressType
  <2>4. erasing' \in [block : 0 .. NumBlocks - 1, offset : Nat]
    BY <1>1, <1>2, <2>1, <2>2
  <2>5. /\ "erase" \in Kinds /\ secureflash_app_id \in Apps \cup {0}
        /\ req' = Requested("erase", get_phys_address(erasing.block, next),
                            SectorSize, secureflash_app_id)
    BY <1>1, <1>2 DEF Kinds, Inv, TypeOK
  <2> QED
    BY <1>1, <2>2, <2>3, <2>4, <2>5, RequestStep
<1>3. CASE ~more
  <2>1. req' = Idle /\ erasing' = NoBlock
    BY <1>1, <1>3
  <2>2. Idle \in ReqType
    BY FlashAssumption DEF Idle, ReqType, Phase
  <2>3. TypeOK'
    BY <1>1, <2>1, <2>2 DEF Inv, TypeOK
  <2>4. RangeInv'
    BY <2>1 DEF Idle, RangeInv, RangeDone
  <2>5. SessionInv'
    BY <2>1 DEF Idle, SessionInv, SessionClosed
  <2>6. FinishedInv'
    BY <2>1 DEF Idle, FinishedInv, ChunkFinished
  <2> QED
    BY <2>3, <2>4, <2>5, <2>6 DEF Inv
<1> QED
  BY <1>2, <1>3

LEMMA InvStep == Inv /\ SfType /\ [Next]_vars => Inv'
<1> SUFFICES ASSUME Inv, SfType, [Next]_vars PROVE Inv'
  OBVIOUS
<1>1. CASE secureflash_init
  BY <1>1, FlashAssumption, ElsewhereStep DEF secureflash_init
<1>2. CASE secureflash_uninit
  <2>1. secureflash_app_id' \in Apps \cup {0}
    BY <1>2 DEF secureflash_uninit, Inv, TypeOK
  <2> QED
    BY <1>2, <2>1, ElsewhereStep DEF secureflash_uninit
<1>3. CASE Request
  <2>1. PICK kind \in Kinds, addr \in 0 .. AddrSpace - 1, size \in 0 .. MaxSize, app \in Apps :
          req' = Requested(kind, addr, size, app)
    BY <1>3 DEF Request
  <2>2. addr \in Nat /\ app \in Apps \cup {0}
    BY <2>1, WidthAssumption
  <2>3. /\ UNCHANGED <<sf, dev, poll, secureflash_app_id, faults>>
        /\ erasing' \in [block : 0 .. NumBlocks - 1, offset : Nat] \cup {NoBlock}
    BY <1>3 DEF Request, Inv, TypeOK
  <2> QED
    BY <2>1, <2>2, <2>3, RequestStep
<1>4. CASE AdapterAccess
  <2>1. PICK kind \in {"read", "program"}, b \in 0 .. NumBlocks - 1,
             o \in 0 .. BlockSize - 1, size \in 0 .. MaxSize :
          req' = Requested(kind, get_phys_address(b, o), size, secureflash_app_id)
    BY <1>4 DEF AdapterAccess
  <2>2. o \in Nat /\ size \in Nat /\ kind \in Kinds
    BY <2>1, FlashAssumption DEF Kinds
  <2>3. get_phys_address(b, o) \in Nat
    BY <2>1, <2>2, AddressType
  <2>4. /\ UNCHANGED <<sf, dev, poll, secureflash_app_id, faults>>
        /\ erasing' \in [block : 0 .. NumBlocks - 1, offset : Nat] \cup {NoBlock}
        /\ secureflash_app_id \in Apps \cup {0}
    BY <1>4 DEF AdapterAccess, Inv, TypeOK
  <2> QED
    BY <2>1, <2>2, <2>3, <2>4, RequestStep
<1>5. CASE AdapterErase
  <2>1. PICK b \in 0 .. NumBlocks - 1 :
          /\ erasing' = [block |-> b, offset |-> 0]
          /\ req' = Requested("erase", get_phys_address(b, 0), SectorSize,
                              secureflash_app_id)
    BY <1>5 DEF AdapterErase
  <2>2. SectorSize \in 0 .. MaxSize /\ "erase" \in Kinds /\ get_phys_address(b, 0) \in Nat
    BY <2>1, FlashAssumption, WidthAssumption, AddressType DEF Kinds
  <2>3. /\ UNCHANGED <<sf, dev, poll, secureflash_app_id, faults>>
        /\ erasing' \in [block : 0 .. NumBlocks - 1, offset : Nat] \cup {NoBlock}
        /\ secureflash_app_id \in Apps \cup {0}
    BY <1>5, <2>1 DEF AdapterErase, Inv, TypeOK
  <2> QED
    BY <2>1, <2>2, <2>3, RequestStep
<1>6. CASE PassOn
  BY <1>6, ElsewhereStep DEF PassOn, NoFault
<1>7. CASE DeviceReady
  <2>1. /\ dev' = [dev EXCEPT !.busy = FALSE, !.ordy = TRUE]
        /\ UNCHANGED <<sf, req, poll, erasing, secureflash_app_id, faults>>
    BY <1>7 DEF DeviceReady
  <2>2. /\ dev' \in [busy : BOOLEAN, ordy : BOOLEAN, sessions : Nat]
        /\ dev'.sessions = dev.sessions /\ ~dev'.busy
    BY <2>1 DEF Inv, TypeOK
  <2>3. TypeOK'
    BY <2>1, <2>2 DEF Inv, TypeOK
  <2>4. RangeInv'
    BY <2>1 DEF Inv, RangeInv, RangeDone, Running, Covered, At, Chunk
  <2>5. SessionInv'
    BY <2>1, <2>2 DEF Inv, SessionInv, SessionClosed
  <2>6. FinishedInv'
    BY <2>2 DEF FinishedInv, ChunkFinished
  <2> QED
    BY <2>3, <2>4, <2>5, <2>6 DEF Inv
<1>8. CASE UNCHANGED vars
  BY <1>8, ElsewhereStep DEF vars, NoFault, Inv, TypeOK
<1> QED
  BY <1>1, <1>2, <1>3, <1>4, <1>5, <1>6, <1>7, <1>8, CreateSessionStep, StartChunkStep,
     PollTurnStep, EndChunkStep, TerminateStep, ReturnedStep
  DEF Next

-------------------------------------------------------------------------------
(* Results *)

(* Every reachable state satisfies the inductive invariant: the variables  *)
(* have their types, the bytes accessed are those before the next chunk,   *)
(* the session of a running request is open, and a poll that saw ready     *)
(* tells the truth as long as no external call fails.                      *)
THEOREM InvCorrect == Spec => []Inv
<1> QED
  BY InvInit, InvStep, SfCorrect, PTL DEF Spec

(* secureflash_secure_read, _program and _erase that report success have   *)
(* accessed each byte of the range exactly once and no other byte, and     *)
(* never across a unit of the flash, for every geometry and every range.   *)
THEOREM RangeDoneCorrect == Spec => []RangeDone
<1>1. Inv => RangeDone
  BY DEF Inv, RangeInv
<1> QED
  BY <1>1, InvCorrect, PTL

(* A request that succeeds or is refused leaves no session behind, however *)
(* many requests before it have failed and left theirs.                    *)
THEOREM SessionClosedCorrect == Spec => []SessionClosed
<1>1. Inv => SessionClosed
  BY DEF Inv, SessionInv
<1> QED
  BY <1>1, InvCorrect, PTL

(* The polling loop never takes a flash that is busy for one that is       *)
(* ready, whatever the number of turns, unless an external call fails.     *)
THEOREM ChunkFinishedCorrect == Spec => []ChunkFinished
<1>1. Inv => ChunkFinished
  BY DEF Inv, FinishedInv
<1> QED
  BY <1>1, InvCorrect, PTL

(* An initialisation that reports success has left the library             *)
(* initialised, for every width of the reference count, every wrap of it   *)
(* and every failed initialisation before.                                 *)
THEOREM InitTruthfulCorrect == Spec => []InitTruthful
<1> QED
  BY SfCorrect, PTL
===============================================================================
