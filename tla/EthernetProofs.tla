--------------------------- MODULE EthernetProofs ---------------------------
(***************************************************************************)
(* Proofs about the Ethernet driver and the network interface, for frames  *)
(* and packets of any number and length, any senders, FIFOs of any size    *)
(* and accesses of any duration.                                           *)
(***************************************************************************)
EXTENDS Ethernet, SequenceTheorems, FiniteSetTheorems, TLAPS

-----------------------------------------------------------------------------
(* Types *)

RxWord == [0 .. 3 -> Nat]
TxWord == RxWord \cup [offset : Nat, len : Nat] \cup [len : Nat]
Bits == {"id", "reset", "auto_neg", "all", "txen", "rxen", "on", "txfifo", "one", "irq_en"}
RegNames == {"id1", "id2", "bctrl", "aneg_adv", "cr", "tx_cfg", "hw_cfg", "irq_cfg"}
NumSteps == 25

RxType == [status : Seq(Nat), data : Seq(RxWord), irq_enable : BOOLEAN, notified : Nat,
           arrived : 0 .. Len(RxSizes), read : Nat]
TaskType == [at : {"new", "enable", "wait", "alloc", "read", "consider"}, length : Nat,
             frame : Seq(Nat)]
IpType == [queue : Seq(Seq(Nat)), free : Nat]
TxType == [fifo : Seq(TxWord), mutex : BOOLEAN, accepted : Seq(Seq(Nat)),
           wire : Seq(Seq(Nat)), tight : BOOLEAN, overrun : BOOLEAN]
SndType == [at : {"idle", "take", "write", "give"}, words : Seq(TxWord),
            sent : 0 .. Len(TxSizes)]
DrvType == [at : 1 .. NumSteps, val : SUBSET Bits, ignored : BOOLEAN, address : BOOLEAN,
            result : {"running", "failed", "none"}]
ChipType == [mac : Nat, mii : Nat, regs : [RegNames -> SUBSET Bits]]
OpType == [phase : {"none", "load", "start", "poll", "fetch"}, turns : Nat]

TrafficType ==
    /\ rx \in RxType /\ task \in TaskType /\ ip \in IpType
    /\ tx \in TxType /\ snd \in [Sender -> SndType]
LinkType == drv \in DrvType /\ op \in OpType /\ chip \in ChipType

-----------------------------------------------------------------------------
(* The invariant *)

(* The sequence s is made of f[a + 1], ..., f[b], one after the other. *)
Packed(s, f, a, b) ==
    \E p \in [a + 1 .. b + 1 -> 0 .. Len(s)] :
      /\ p[a + 1] = 0 /\ p[b + 1] = Len(s)
      /\ \A j, k \in a + 1 .. b + 1 : j <= k => p[j] <= p[k]
      /\ \A k \in a + 1 .. b :
           /\ p[k + 1] = p[k] + Len(f[k])
           /\ \A w \in 1 .. Len(f[k]) : s[p[k] + w] = f[k][w]

Received(k) == Frame(k, RxSizes[k])
FrameWords == [k \in 1 .. Len(RxSizes) |-> Words(Received(k))]

(* The receive FIFO holds the frames that have arrived and are not read,   *)
(* and the frame that the task has peeked at stays the first one.          *)
RxInv(r, t) ==
    /\ r.read <= r.arrived /\ Len(r.status) = r.arrived - r.read
    /\ \A j \in 1 .. Len(r.status) : r.status[j] = RxSizes[r.read + j]
    /\ Packed(r.data, FrameWords, r.read, r.arrived)
    /\ t.at \in {"alloc", "read"} => r.status # << >> /\ t.length = Head(r.status)
    /\ t.at = "consider" => r.read # 0 /\ t.frame = Received(r.read)

PacketWords(x) == [k \in 1 .. Len(x.accepted) |-> ToWrite(x.accepted[k])]

(* Who has the mutex writes; nobody else has anything left to write. *)
MutexInv(x, d) ==
    /\ \A s \in Sender : d[s].at \in {"write", "give"} => x.mutex
    /\ \A s, t \in Sender :
         d[s].at \in {"write", "give"} /\ d[t].at \in {"write", "give"} => s = t
    /\ \A s \in Sender : d[s].at = "write" => d[s].words # << >>
    /\ \A s \in Sender : d[s].at # "idle" => d[s].sent # 0

(* The transmit FIFO and what the sender still has to write are together   *)
(* the packets that are accepted and not sent.                             *)
TxInv(x, d) ==
    /\ Len(x.wire) <= Len(x.accepted)
    /\ \A k \in 1 .. Len(x.wire) : x.wire[k] = x.accepted[k]
    /\ ~x.overrun =>
         /\ \A s \in Sender : d[s].at = "write" =>
              Packed(x.fifo \o d[s].words, PacketWords(x), Len(x.wire), Len(x.accepted))
         /\ (\A s \in Sender : d[s].at # "write") =>
              Packed(x.fifo, PacketWords(x), Len(x.wire), Len(x.accepted))
    /\ ~x.tight =>
         /\ ~x.overrun
         /\ \A s \in Sender :
              d[s].at = "write" => 4 * Len(x.fifo) + 4 * Len(d[s].words) <= TxSpace

Busy(d) == {s \in Sender : d[s].at # "idle"}
Held(t) == IF t.at \in {"read", "consider"} THEN 1 ELSE 0

(* Every network buffer is somewhere. *)
BufferInv(i, d, t) == i.free + Len(i.queue) + Cardinality(Busy(d)) + Held(t) = Buffers

(* The receive task is created at the end of the initialisation. *)
TaskInv == drv.result = "running" => task.at = "new"

TrafficInv ==
    /\ TrafficType /\ TaskInv
    /\ RxInv(rx, task) /\ MutexInv(tx, snd) /\ TxInv(tx, snd) /\ BufferInv(ip, snd, task)

(* Where the initialisation is, and whether nothing has failed in it. *)
Position(d) == IF d.result = "none" THEN NumSteps + 1 ELSE d.at
Clean(d) == d.result # "failed" /\ ~d.ignored

(* What has been done before step n, and in the middle of an access to the *)
(* PHY that is started in it.                                              *)
LinkAt(n, started, regs, val, address) ==
    /\ regs.hw_cfg = (IF n > 3 THEN {"txfifo"} ELSE {}) \cup (IF n > 18 THEN {"one"} ELSE {})
    /\ regs.irq_cfg = IF n > 5 THEN {"irq_en"} ELSE {}
    /\ regs.tx_cfg = IF n > 21 THEN {"on"} ELSE {}
    /\ regs.cr = (IF n > 20 THEN {"txen"} ELSE {}) \cup (IF n > 23 THEN {"rxen"} ELSE {})
    /\ regs.aneg_adv = IF n > 15 \/ (n = 15 /\ started) THEN {"all"} ELSE {}
    /\ n < 10 \/ (n = 10 /\ ~started) \/ n \in 14 .. 16 \/ (n = 17 /\ ~started) =>
         regs.bctrl = {}
    /\ n \in 10 .. 13 => regs.bctrl \subseteq {"reset"}
    /\ n > 17 \/ (n = 17 /\ started) => regs.bctrl = {"auto_neg"}
    /\ n \in {10, 15, 17, 20} => val = {}
    /\ n = 13 => val = regs.bctrl
    /\ n = 23 => val = {"txen"}
    /\ n > NumSteps => address

LinkInv ==
    Clean(drv) => LinkAt(Position(drv), op.phase = "poll", chip.regs, drv.val, drv.address)

(* An access to the PHY is under way in steps that make one, data is       *)
(* loaded to be written, and fetched after a read.                         *)
OpInv ==
    /\ drv.result # "running" => op.phase = "none"
    /\ op.phase # "none" => Step.do \in {"phy_read", "phy_write"}
    /\ op.phase = "fetch" => Step.do = "phy_read"

LinkAll == LinkType /\ OpInv /\ LinkInv

-----------------------------------------------------------------------------
(* Packed sequences *)

LEMMA PackedNone == ASSUME NEW f, NEW a \in Nat PROVE Packed(<< >>, f, a, a)
<1> DEFINE p == [k \in a + 1 .. a + 1 |-> 0]
<1>1. /\ p \in [a + 1 .. a + 1 -> 0 .. Len(<< >>)]
      /\ p[a + 1] = 0 /\ p[a + 1] = Len(<< >>)
      /\ \A j, k \in a + 1 .. a + 1 : j <= k => p[j] <= p[k]
  OBVIOUS
<1> HIDE DEF p
<1>2. a + 1 .. a = {}
  OBVIOUS
<1> QED
  BY <1>1, <1>2 DEF Packed

(* One more is put at the end. *)
LEMMA PackedMore ==
    ASSUME NEW S, NEW s \in Seq(S), NEW x \in Seq(S), NEW a \in Nat, NEW b \in Nat, a <= b,
           NEW f, NEW g, Packed(s, f, a, b), g[b + 1] = x,
           \A k \in a + 1 .. b : g[k] = f[k] /\ f[k] \in Seq(S)
    PROVE  Packed(s \o x, g, a, b + 1)
<1> DEFINE n == Len(s)
           m == Len(x)
           y == s \o x
<1>1. /\ n \in Nat /\ m \in Nat /\ Len(y) = n + m
      /\ \A i \in 1 .. n + m : y[i] = IF i <= n THEN s[i] ELSE x[i - n]
  BY ConcatProperties
<1>2. PICK p \in [a + 1 .. b + 1 -> 0 .. n] :
        /\ p[a + 1] = 0 /\ p[b + 1] = n
        /\ \A j, k \in a + 1 .. b + 1 : j <= k => p[j] <= p[k]
        /\ \A k \in a + 1 .. b :
             /\ p[k + 1] = p[k] + Len(f[k])
             /\ \A w \in 1 .. Len(f[k]) : s[p[k] + w] = f[k][w]
  BY DEF Packed
<1> HIDE DEF n, m, y
<1> DEFINE c == b + 1
           q == [k \in a + 1 .. c + 1 |-> IF k = c + 1 THEN n + m ELSE p[k]]
<1>3. \A k \in a + 1 .. b + 1 : p[k] \in Nat /\ p[k] <= n
  BY <1>1, <1>2
<1>4. q \in [a + 1 .. c + 1 -> 0 .. Len(y)] /\ q[a + 1] = 0 /\ q[c + 1] = Len(y)
  BY <1>1, <1>2, <1>3
<1>5. \A j, k \in a + 1 .. c + 1 : j <= k => q[j] <= q[k]
  BY <1>1, <1>2, <1>3
<1>6. ASSUME NEW k \in a + 1 .. c
      PROVE  /\ q[k + 1] = q[k] + Len(g[k])
             /\ \A w \in 1 .. Len(g[k]) : y[q[k] + w] = g[k][w]
  <2>1. CASE k = c
    <3>1. q[k] = n /\ q[k + 1] = n + m /\ g[k] = x
      BY <1>1, <1>2, <2>1
    <3>2. ASSUME NEW w \in 1 .. m PROVE y[n + w] = x[w]
      <4>1. n + w \in 1 .. n + m /\ ~(n + w <= n) /\ (n + w) - n = w
        BY <1>1
      <4> QED
        BY <1>1, <4>1
    <3> QED
      BY <3>1, <3>2 DEF m
  <2>2. CASE k \in a + 1 .. b
    <3>1. q[k] = p[k] /\ q[k + 1] = p[k + 1] /\ g[k] = f[k]
      BY <2>2
    <3>2. p[k + 1] = p[k] + Len(f[k]) /\ p[k + 1] <= n /\ p[k] \in Nat
      BY <1>2, <1>3, <2>2
    <3>3. ASSUME NEW w \in 1 .. Len(f[k]) PROVE y[p[k] + w] = f[k][w]
      <4>1. p[k + 1] \in Nat
        BY <1>3, <2>2
      <4>2. PICK l \in Nat, i \in Nat : l = Len(f[k]) /\ i = p[k]
        BY <2>2, <3>2
      <4>3. i + w \in 1 .. n
        <5>1. i + l <= n /\ w \in 1 .. l
          BY <3>2, <4>2
        <5> QED
          BY <1>1, <5>1
      <4>4. y[p[k] + w] = s[p[k] + w]
        BY <1>1, <4>2, <4>3
      <4> QED
        BY <1>2, <2>2, <4>4
    <3> HIDE DEF c, q
    <3>4. q[k + 1] = q[k] + Len(g[k])
      BY <3>1, <3>2
    <3>5. ASSUME NEW w \in 1 .. Len(g[k]) PROVE y[q[k] + w] = g[k][w]
      BY <3>1, <3>3
    <3> QED
      BY <3>4, <3>5
  <2>3. k = c \/ k \in a + 1 .. b
    OBVIOUS
  <2> HIDE DEF c, q
  <2> QED
    BY <2>1, <2>2, <2>3
<1> HIDE DEF q
<1> QED
  BY <1>4, <1>5, <1>6 DEF Packed, c, y

LEMMA FromProperties ==
    ASSUME NEW S, NEW s \in Seq(S), NEW n \in Nat, n <= Len(s)
    PROVE  /\ SubSeq(s, n + 1, Len(s)) \in Seq(S)
           /\ Len(SubSeq(s, n + 1, Len(s))) = Len(s) - n
           /\ \A i \in 1 .. Len(s) - n : SubSeq(s, n + 1, Len(s))[i] = s[n + i]
<1> DEFINE m == Len(s)
           a == n + 1
<1>1. m \in Nat /\ a \in Int /\ m \in Int /\ a = n + 1
  OBVIOUS
<1>2. \A i \in 1 .. m : s[i] \in S
  OBVIOUS
<1> HIDE DEF m, a
<1>3. \A i \in a .. m : s[i] \in S
  BY <1>1, <1>2
<1>4. /\ SubSeq(s, a, m) \in Seq(S)
      /\ Len(SubSeq(s, a, m)) = (IF a <= m THEN m - a + 1 ELSE 0)
      /\ \A i \in 1 .. m - a + 1 : SubSeq(s, a, m)[i] = s[a + i - 1]
  BY <1>1, <1>3, SubSeqProperties
<1>5. n <= m /\ m - a + 1 = m - n
  BY <1>1 DEF m
<1>6. Len(SubSeq(s, a, m)) = m - n
  BY <1>1, <1>4, <1>5
<1>7. ASSUME NEW i \in 1 .. m - n PROVE SubSeq(s, a, m)[i] = s[n + i]
  <2>1. a + i - 1 = n + i
    BY <1>1
  <2> QED
    BY <1>4, <1>5, <2>1
<1> QED
  BY <1>4, <1>6, <1>7 DEF a, m

LEMMA ShiftedBack ==
    ASSUME NEW n \in Nat, NEW i \in Nat, NEW l \in Nat, NEW m \in Nat, NEW w \in 1 .. l,
           n <= i, i + l <= m
    PROVE  (i - n) + w \in 1 .. m - n /\ n + ((i - n) + w) = i + w
OBVIOUS

(* The first one is taken away. *)
LEMMA PackedFirst ==
    ASSUME NEW S, NEW s \in Seq(S), NEW a \in Nat, NEW b \in Nat, a < b,
           NEW f, Packed(s, f, a, b), \A k \in a + 1 .. b : f[k] \in Seq(S),
           NEW n \in Nat, Len(f[a + 1]) = n
    PROVE  /\ n <= Len(s) /\ \A w \in 1 .. n : s[w] = f[a + 1][w]
           /\ Packed(SubSeq(s, n + 1, Len(s)), f, a + 1, b)
<1> DEFINE m == Len(s)
           r == SubSeq(s, n + 1, m)
           c == a + 1
<1>0. m \in Nat
  OBVIOUS
<1>1. PICK p \in [c .. b + 1 -> 0 .. m] :
        /\ p[c] = 0 /\ p[b + 1] = m
        /\ \A j, k \in c .. b + 1 : j <= k => p[j] <= p[k]
        /\ \A k \in c .. b :
             /\ p[k + 1] = p[k] + Len(f[k])
             /\ \A w \in 1 .. Len(f[k]) : s[p[k] + w] = f[k][w]
  BY DEF Packed
<1>2. c \in c .. b /\ c + 1 \in c .. b + 1 /\ c \in Nat /\ c <= b
  OBVIOUS
<1>3. \A i \in 1 .. m : s[i] \in S
  OBVIOUS
<1> HIDE DEF m
<1>4. p[c + 1] = n /\ n <= m
  BY <1>0, <1>1, <1>2
<1>5. \A w \in 1 .. n : s[w] = f[c][w]
  <2> SUFFICES ASSUME NEW w \in 1 .. n PROVE s[w] = f[c][w]
    OBVIOUS
  <2>1. s[p[c] + w] = f[c][w] /\ p[c] + w = w
    BY <1>1, <1>2
  <2> QED
    BY <2>1
<1>6. /\ r \in Seq(S) /\ Len(r) = m - n
      /\ \A i \in 1 .. m - n : r[i] = s[n + i]
  BY <1>4, FromProperties DEF m
<1> HIDE DEF r, c
<1> DEFINE q == [k \in c + 1 .. b + 1 |-> p[k] - n]
<1>7. \A k \in c + 1 .. b + 1 : p[k] \in Nat /\ n <= p[k] /\ p[k] <= m
  <2> SUFFICES ASSUME NEW k \in c + 1 .. b + 1 PROVE p[k] \in Nat /\ n <= p[k] /\ p[k] <= m
    OBVIOUS
  <2>1. k \in c .. b + 1 /\ c + 1 <= k
    BY <1>2
  <2> QED
    BY <1>0, <1>1, <1>2, <1>4, <2>1
<1>8. q \in [c + 1 .. b + 1 -> 0 .. Len(r)] /\ q[c + 1] = 0 /\ q[b + 1] = Len(r)
  <2>1. \A k \in c + 1 .. b + 1 : p[k] - n \in 0 .. m - n
    BY <1>0, <1>7
  <2>2. c + 1 \in c + 1 .. b + 1 /\ b + 1 \in c + 1 .. b + 1
    BY <1>2
  <2>3. q[c + 1] = 0 /\ q[b + 1] = m - n
    BY <1>0, <1>1, <1>4, <2>2
  <2> QED
    BY <1>6, <2>1, <2>3
<1>9. \A j, k \in c + 1 .. b + 1 : j <= k => q[j] <= q[k]
  <2> SUFFICES ASSUME NEW j \in c + 1 .. b + 1, NEW k \in c + 1 .. b + 1, j <= k
               PROVE  q[j] <= q[k]
    OBVIOUS
  <2>1. j \in c .. b + 1 /\ k \in c .. b + 1
    BY <1>2
  <2>2. p[j] <= p[k]
    BY <1>1, <2>1
  <2> QED
    BY <1>7, <2>2
<1>10. ASSUME NEW k \in c + 1 .. b
       PROVE  /\ q[k + 1] = q[k] + Len(f[k])
              /\ \A w \in 1 .. Len(f[k]) : r[q[k] + w] = f[k][w]
  <2>1. k \in c .. b /\ k \in c + 1 .. b + 1 /\ k + 1 \in c + 1 .. b + 1
    BY <1>2
  <2>2. PICK l \in Nat : l = Len(f[k])
    BY <2>1 DEF c
  <2>3. p[k + 1] = p[k] + l /\ q[k + 1] = p[k + 1] - n /\ q[k] = p[k] - n
    BY <1>1, <2>1, <2>2
  <2>4. ASSUME NEW w \in 1 .. l PROVE r[q[k] + w] = f[k][w]
    <3>1. q[k] + w \in 1 .. m - n /\ n + (q[k] + w) = p[k] + w
      <4>1. PICK i \in Nat : i = p[k] /\ n <= i /\ i + l <= m
        BY <1>7, <2>1, <2>3
      <4>2. (i - n) + w \in 1 .. m - n /\ n + ((i - n) + w) = i + w
        <5>1. n <= i /\ i + l <= m
          BY <4>1
        <5> QED
          BY ONLY m \in Nat, n \in Nat, i \in Nat, l \in Nat, w \in 1 .. l, <5>1, ShiftedBack
      <4> QED
        BY <2>3, <4>1, <4>2
    <3>2. s[p[k] + w] = f[k][w]
      BY <1>1, <2>1, <2>2
    <3> QED
      BY <1>6, <3>1, <3>2
  <2> QED
    BY <1>7, <2>1, <2>2, <2>3, <2>4
<1> HIDE DEF q
<1>11. Packed(r, f, c, b)
  BY <1>8, <1>9, <1>10 DEF Packed
<1> QED
  BY <1>4, <1>5, <1>11 DEF c, r, m

-----------------------------------------------------------------------------
(* Words and bytes *)

LEMMA Quotient ==
    ASSUME NEW n \in Nat
    PROVE  n \div 4 \in Nat /\ n % 4 \in 0 .. 3 /\ n = 4 * (n \div 4) + (n % 4)
OBVIOUS

(* A length rounded up to words is the number of words that are read. *)
LEMMA RoundedUp == ASSUME NEW n \in Nat PROVE (n + 3) \div 4 = NumRead(n)
<1>1. n \div 4 \in Nat /\ n % 4 \in 0 .. 3 /\ n = 4 * (n \div 4) + (n % 4)
  BY Quotient
<1>2. CASE n % 4 = 0
  BY <1>1, <1>2 DEF NumRead
<1>3. CASE n % 4 > 0
  BY <1>1, <1>3 DEF NumRead
<1> QED
  BY <1>1, <1>2, <1>3

LEMMA FrameType ==
    ASSUME NEW k \in Nat, NEW n \in Nat
    PROVE  Frame(k, n) \in Seq(Nat) /\ Len(Frame(k, n)) = n
<1>1. \A j \in 1 .. n : 10 * k + j \in Nat
  OBVIOUS
<1>2. Frame(k, n) \in [1 .. n -> Nat]
  BY <1>1 DEF Frame
<1>3. Frame(k, n) \in Seq(Nat)
  BY <1>2
<1>4. DOMAIN Frame(k, n) = 1 .. n
  BY DEF Frame
<1> QED
  BY <1>3, <1>4, LenProperties

LEMMA WordsType ==
    ASSUME NEW bytes \in Seq(Nat)
    PROVE  /\ Words(bytes) \in Seq(RxWord) /\ Len(Words(bytes)) = NumRead(Len(bytes))
           /\ \A w \in 1 .. NumRead(Len(bytes)) : Words(bytes)[w] = Word(bytes, w - 1)
<1> DEFINE n == Len(bytes)
           m == NumRead(n)
<1>0. n \in Nat /\ \A j \in 1 .. n : bytes[j] \in Nat
  OBVIOUS
<1> HIDE DEF n
<1>1. (n + 3) \div 4 = m
  BY <1>0, RoundedUp
<1> HIDE DEF m
<1>2. m \in Nat
  BY <1>0, <1>1
<1>3. ASSUME NEW w \in 1 .. m PROVE Word(bytes, w - 1) \in RxWord
  <2>1. ASSUME NEW j \in 0 .. 3
        PROVE  (IF 4 * (w - 1) + j < n THEN bytes[4 * (w - 1) + j + 1] ELSE 0) \in Nat
    <3>1. CASE 4 * (w - 1) + j < n
      <4>1. 4 * (w - 1) + j + 1 \in 1 .. n
        BY <1>0, <1>2, <3>1
      <4> QED
        BY <1>0, <3>1, <4>1
    <3> QED
      BY <3>1
  <2> QED
    BY <2>1 DEF Word, RxWord, n
<1>4. Words(bytes) = [w \in 1 .. m |-> Word(bytes, w - 1)]
  BY <1>1 DEF Words, n
<1>5. Words(bytes) \in [1 .. m -> RxWord] /\ DOMAIN Words(bytes) = 1 .. m
  BY <1>3, <1>4
<1>6. Words(bytes) \in Seq(RxWord)
  BY <1>2, <1>5
<1>7. Len(Words(bytes)) = m
  BY <1>2, <1>5, <1>6, LenProperties
<1> QED
  BY <1>4, <1>6, <1>7 DEF m, n

LEMMA WordInside ==
    ASSUME NEW n \in Nat, NEW q \in Nat, NEW r \in 0 .. 3, 4 * q + r < n
    PROVE  q + 1 \in 1 .. (n + 3) \div 4
OBVIOUS

(* The bytes that are taken out of the words of a frame are the frame's. *)
LEMMA BytesOfWords ==
    ASSUME NEW bytes \in Seq(Nat), NEW data,
           \A w \in 1 .. NumRead(Len(bytes)) : data[w] = Words(bytes)[w]
    PROVE  Bytes(data, Len(bytes)) = bytes
<1> DEFINE n == Len(bytes)
           m == NumRead(n)
<1>1. n \in Nat /\ (n + 3) \div 4 = m /\ bytes = [j \in 1 .. n |-> bytes[j]]
  BY RoundedUp
<1>2. \A w \in 1 .. m : data[w] = Word(bytes, w - 1)
  BY WordsType
<1>3. ASSUME NEW j \in 1 .. n PROVE data[(j - 1) \div 4 + 1][(j - 1) % 4] = bytes[j]
  <2> HIDE DEF n, m
  <2>1. PICK i \in Nat : i = j - 1
    BY <1>1
  <2>2. PICK q \in Nat, r \in 0 .. 3 : q = i \div 4 /\ r = i % 4 /\ i = 4 * q + r
    BY Quotient
  <2>3. i < n /\ i + 1 = j
    BY <1>1, <2>1
  <2>4. 4 * q + r < n /\ 4 * q + r + 1 = j
    BY <2>2, <2>3
  <2>7. q + 1 \in 1 .. m /\ (q + 1) - 1 = q
    <3>1. n \in Nat /\ (n + 3) \div 4 = m
      BY <1>1
    <3>2. q + 1 \in 1 .. (n + 3) \div 4
      BY ONLY <3>1, <2>4, q \in Nat, r \in 0 .. 3, WordInside
    <3>3. (q + 1) - 1 = q
      OBVIOUS
    <3> QED
      BY <3>1, <3>2, <3>3
  <2>5. Word(bytes, q)[r] = bytes[j]
    BY <2>4 DEF Word, n
  <2>6. data[q + 1] = Word(bytes, q)
    BY <1>2, <2>7
  <2> QED
    BY <2>1, <2>2, <2>5, <2>6
<1> QED
  BY <1>1, <1>3 DEF Bytes

LEMMA FilledType ==
    ASSUME NEW bytes \in Seq(Nat)
    PROVE  /\ Filled(bytes) \in Seq(RxWord) /\ Len(Filled(bytes)) = 1 + Len(bytes) \div 4
           /\ \A j \in 0 .. 3 :
                Filled(bytes)[1][j] =
                  IF j < 4 - (Len(bytes) % 4) THEN 0 ELSE bytes[j - (4 - (Len(bytes) % 4)) + 1]
           /\ \A w \in 2 .. 1 + Len(bytes) \div 4 : \A j \in 0 .. 3 :
                Filled(bytes)[w][j] = bytes[(Len(bytes) % 4) + 4 * (w - 2) + j + 1]
<1> DEFINE n == Len(bytes)
           q == n \div 4
           r == n % 4
           first == [j \in 0 .. 3 |-> IF j < 4 - r THEN 0 ELSE bytes[j - (4 - r) + 1]]
           more(w) == [j \in 0 .. 3 |-> bytes[r + 4 * (w - 2) + j + 1]]
           word(w) == IF w = 1 THEN first ELSE more(w)
<1>0. n \in Nat /\ \A j \in 1 .. n : bytes[j] \in Nat
  OBVIOUS
<1>1. Filled(bytes) = [w \in 1 .. 1 + q |-> word(w)]
  BY DEF Filled
<1> HIDE DEF n
<1>2. q \in Nat /\ r \in 0 .. 3 /\ n = 4 * q + r
  BY <1>0, Quotient
<1> HIDE DEF q, r
<1>3. first \in RxWord
  <2>1. ASSUME NEW j \in 0 .. 3, ~(j < 4 - r) PROVE j - (4 - r) + 1 \in 1 .. n
    BY <1>0, <1>2, <2>1
  <2> QED
    BY <1>0, <2>1 DEF RxWord
<1>4. ASSUME NEW w \in 2 .. 1 + q PROVE more(w) \in RxWord
  <2>1. ASSUME NEW j \in 0 .. 3 PROVE r + 4 * (w - 2) + j + 1 \in 1 .. n
    BY <1>0, <1>2
  <2> QED
    BY <1>0, <2>1 DEF RxWord
<1>5. ASSUME NEW w \in 1 .. 1 + q PROVE word(w) \in RxWord
  <2>1. w = 1 \/ w \in 2 .. 1 + q
    BY <1>2
  <2> QED
    BY <1>3, <1>4, <2>1
<1>6. 1 + q \in Nat /\ 1 \in 1 .. 1 + q /\ \A w \in 2 .. 1 + q : w \in 1 .. 1 + q /\ w # 1
  BY <1>2
<1>7. \A j \in 0 .. 3 : Filled(bytes)[1][j] = IF j < 4 - r THEN 0 ELSE bytes[j - (4 - r) + 1]
  BY <1>1, <1>6
<1>8. \A w \in 2 .. 1 + q : \A j \in 0 .. 3 : Filled(bytes)[w][j] = bytes[r + 4 * (w - 2) + j + 1]
  BY <1>1, <1>6
<1> HIDE DEF word
<1>9. Filled(bytes) \in [1 .. 1 + q -> RxWord] /\ DOMAIN Filled(bytes) = 1 .. 1 + q
  BY <1>1, <1>5
<1>10. Filled(bytes) \in Seq(RxWord)
  BY <1>6, <1>9
<1>11. Len(Filled(bytes)) = 1 + q
  BY <1>6, <1>9, <1>10, LenProperties
<1> QED
  BY <1>7, <1>8, <1>10, <1>11 DEF q, r, n

LEMMA ToWriteType ==
    ASSUME NEW bytes \in Seq(Nat)
    PROVE  /\ ToWrite(bytes) \in Seq(TxWord) /\ Len(ToWrite(bytes)) = 3 + Len(bytes) \div 4
           /\ ToWrite(bytes)[1] = [offset |-> Offset(Len(bytes)), len |-> Len(bytes)]
           /\ \A w \in 1 .. 1 + Len(bytes) \div 4 : ToWrite(bytes)[2 + w] = Filled(bytes)[w]
<1> DEFINE a == [offset |-> Offset(Len(bytes)), len |-> Len(bytes)]
           b == [len |-> Len(bytes)]
           h == <<a, b>>
           q == Len(bytes) \div 4
<1>1. Len(bytes) \in Nat
  OBVIOUS
<1>2. q \in Nat /\ Offset(Len(bytes)) \in Nat
  BY <1>1, Quotient DEF Offset
<1>3. a \in TxWord /\ b \in TxWord
  BY <1>1, <1>2 DEF TxWord
<1> HIDE DEF a, b, q
<1>4. h \in Seq(TxWord) /\ Len(h) = 2 /\ h[1] = a
  BY <1>3
<1>5. /\ Filled(bytes) \in Seq(TxWord) /\ Len(Filled(bytes)) = 1 + q
  <2>1. Filled(bytes) \in Seq(RxWord) /\ RxWord \subseteq TxWord
    BY FilledType DEF TxWord
  <2> QED
    BY <2>1, FilledType DEF q
<1>6. ToWrite(bytes) = h \o Filled(bytes)
  BY DEF ToWrite, a, b
<1> HIDE DEF h
<1>7. /\ h \o Filled(bytes) \in Seq(TxWord) /\ Len(h \o Filled(bytes)) = Len(h) + Len(Filled(bytes))
      /\ \A i \in 1 .. Len(h) + Len(Filled(bytes)) :
           (h \o Filled(bytes))[i] = IF i <= Len(h) THEN h[i] ELSE Filled(bytes)[i - Len(h)]
  BY <1>4, <1>5, ConcatProperties
<1>8. /\ Len(ToWrite(bytes)) = 3 + q
      /\ \A i \in 1 .. 3 + q : ToWrite(bytes)[i] = IF i <= 2 THEN h[i] ELSE Filled(bytes)[i - 2]
  BY <1>2, <1>4, <1>5, <1>6, <1>7
<1>9. ToWrite(bytes)[1] = a
  BY <1>2, <1>4, <1>8
<1>10. ASSUME NEW w \in 1 .. 1 + q PROVE ToWrite(bytes)[2 + w] = Filled(bytes)[w]
  <2>1. 2 + w \in 1 .. 3 + q /\ ~(2 + w <= 2) /\ (2 + w) - 2 = w
    BY <1>2
  <2> QED
    BY <1>8, <2>1
<1> QED
  BY <1>6, <1>7, <1>8, <1>9, <1>10 DEF q, a

(* A packet that is padded at the front: where its byte j is. *)
LEMMA PaddedPlace ==
    ASSUME NEW n \in Nat, NEW q \in Nat, NEW r \in 0 .. 3, n = 4 * q + r, NEW j \in 1 .. n,
           NEW w \in Nat, NEW i \in 0 .. 3, (4 - r) + j - 1 = 4 * w + i
    PROVE  /\ w = 0 => ~(i < 4 - r) /\ i - (4 - r) + 1 = j
           /\ w # 0 => w + 1 \in 2 .. 1 + q /\ r + 4 * ((w + 1) - 2) + i + 1 = j
           /\ w + 1 \in 1 .. 1 + q
OBVIOUS

(* The controller takes as many words out of its FIFO as the driver has    *)
(* put in.                                                                 *)
LEMMA HeadSize ==
    ASSUME NEW bytes \in Seq(Nat), tx.fifo[1] = ToWrite(bytes)[1]
    PROVE  HeadWords = Len(ToWrite(bytes))
<1> DEFINE n == Len(bytes)
           q == n \div 4
           r == n % 4
<1>1. /\ Len(ToWrite(bytes)) = 3 + q
      /\ ToWrite(bytes)[1] = [offset |-> 4 - r, len |-> n]
  BY ToWriteType DEF Offset
<1>2. n \in Nat
  OBVIOUS
<1> HIDE DEF n
<1>3. q \in Nat /\ r \in 0 .. 3 /\ n = 4 * q + r
  BY <1>2, Quotient
<1> HIDE DEF q, r
<1>4. tx.fifo[1].offset = 4 - r /\ tx.fifo[1].len = n
  BY <1>1
<1>5. HeadWords = 2 + ((4 - r) + n + 3) \div 4
  BY <1>4 DEF HeadWords
<1>6. (4 - r) + n + 3 = 4 * (q + 1) + 3
  BY <1>3
<1>7. (4 * (q + 1) + 3) \div 4 = q + 1
  BY <1>3
<1>8. HeadWords = 3 + q
  BY <1>3, <1>5, <1>6, <1>7
<1> QED
  BY <1>1, <1>8

(* The controller sends the bytes of the packet that was written. *)
LEMMA SentAsWritten ==
    ASSUME NEW bytes \in Seq(Nat),
           \A w \in 1 .. Len(ToWrite(bytes)) : tx.fifo[w] = ToWrite(bytes)[w]
    PROVE  Transmitted = bytes
<1> DEFINE n == Len(bytes)
           q == n \div 4
           r == n % 4
<1>0. n \in Nat /\ bytes = [j \in 1 .. n |-> bytes[j]]
  OBVIOUS
<1>1. /\ Len(ToWrite(bytes)) = 3 + q
      /\ ToWrite(bytes)[1] = [offset |-> 4 - r, len |-> n]
      /\ \A w \in 1 .. 1 + q : ToWrite(bytes)[2 + w] = Filled(bytes)[w]
  BY ToWriteType DEF Offset
<1>2. /\ \A j \in 0 .. 3 :
           Filled(bytes)[1][j] = IF j < 4 - r THEN 0 ELSE bytes[j - (4 - r) + 1]
      /\ \A w \in 2 .. 1 + q : \A j \in 0 .. 3 :
           Filled(bytes)[w][j] = bytes[r + 4 * (w - 2) + j + 1]
  BY FilledType
<1> HIDE DEF n
<1>3. q \in Nat /\ r \in 0 .. 3 /\ n = 4 * q + r
  BY <1>0, Quotient
<1> HIDE DEF q, r
<1>4. 1 \in 1 .. 3 + q /\ \A w \in 1 .. 1 + q : 2 + w \in 1 .. 3 + q
  BY <1>3
<1>5. tx.fifo[1].offset = 4 - r /\ tx.fifo[1].len = n
  BY <1>1, <1>4
<1>6. \A w \in 1 .. 1 + q : tx.fifo[2 + w] = Filled(bytes)[w]
  BY <1>1, <1>4
<1>8. ASSUME NEW j \in 1 .. n
      PROVE  tx.fifo[3 + (((4 - r) + j - 1) \div 4)][((4 - r) + j - 1) % 4] = bytes[j]
  <2>1. PICK e \in Nat : e = (4 - r) + j - 1
    BY <1>0, <1>3
  <2>2. PICK w \in Nat, i \in 0 .. 3 : w = e \div 4 /\ i = e % 4 /\ e = 4 * w + i
    BY Quotient
  <2>3. /\ w = 0 => ~(i < 4 - r) /\ i - (4 - r) + 1 = j
        /\ w # 0 => w + 1 \in 2 .. 1 + q /\ r + 4 * ((w + 1) - 2) + i + 1 = j
        /\ w + 1 \in 1 .. 1 + q
    <3>1. (4 - r) + j - 1 = 4 * w + i
      BY <2>1, <2>2
    <3>2. n \in Nat /\ q \in Nat /\ r \in 0 .. 3 /\ n = 4 * q + r
      BY <1>0, <1>3
    <3> QED
      BY ONLY <3>1, <3>2, j \in 1 .. n, w \in Nat, i \in 0 .. 3, PaddedPlace
  <2>4. tx.fifo[2 + (w + 1)] = Filled(bytes)[w + 1] /\ 2 + (w + 1) = 3 + w
    BY <1>6, <2>3
  <2>5. Filled(bytes)[w + 1][i] = bytes[j]
    <3>1. CASE w = 0
      <4>1. w + 1 = 1
        BY <3>1
      <4> QED
        BY <1>2, <2>3, <3>1, <4>1
    <3>2. CASE w # 0
      BY <1>2, <2>3, <3>2
    <3> QED
      BY <3>1, <3>2
  <2> QED
    BY <2>1, <2>2, <2>4, <2>5
<1>9. Transmitted =
        [j \in 1 .. n |-> tx.fifo[3 + (((4 - r) + j - 1) \div 4)][((4 - r) + j - 1) % 4]]
  BY <1>5 DEF Transmitted
<1> QED
  BY <1>0, <1>8, <1>9

-----------------------------------------------------------------------------
(* The steps of the initialisation *)

LEMMA StepList ==
    /\ Len(xNetworkInterfaceInitialise) = NumSteps
    /\ xNetworkInterfaceInitialise[1] = Plain("check_id")
    /\ xNetworkInterfaceInitialise[2] = Plain("soft_reset")
    /\ xNetworkInterfaceInitialise[3] = Plain("set_txfifo")
    /\ xNetworkInterfaceInitialise[4] = Plain("wait_eeprom")
    /\ xNetworkInterfaceInitialise[5] = Plain("init_irqs")
    /\ xNetworkInterfaceInitialise[6] = PhyRead("id1", TRUE)
    /\ xNetworkInterfaceInitialise[7] = PhyRead("id2", TRUE)
    /\ xNetworkInterfaceInitialise[8] = Plain("check_ids")
    /\ xNetworkInterfaceInitialise[9] = PhyRead("bctrl", TRUE)
    /\ xNetworkInterfaceInitialise[10] = PhyWrite("bctrl", "reset", TRUE)
    /\ xNetworkInterfaceInitialise[11] = Plain("phy_resets")
    /\ xNetworkInterfaceInitialise[12] = PhyRead("bctrl", TRUE)
    /\ xNetworkInterfaceInitialise[13] = Plain("check_reset")
    /\ xNetworkInterfaceInitialise[14] = PhyRead("aneg_adv", FALSE)
    /\ xNetworkInterfaceInitialise[15] = PhyWrite("aneg_adv", "all", FALSE)
    /\ xNetworkInterfaceInitialise[16] = PhyRead("bctrl", FALSE)
    /\ xNetworkInterfaceInitialise[17] = PhyWrite("bctrl", "auto_neg", FALSE)
    /\ xNetworkInterfaceInitialise[18] = Plain("must_be_one")
    /\ xNetworkInterfaceInitialise[19] = MacReadCr
    /\ xNetworkInterfaceInitialise[20] = MacWriteCr("txen")
    /\ xNetworkInterfaceInitialise[21] = Plain("tx_on")
    /\ xNetworkInterfaceInitialise[22] = MacReadCr
    /\ xNetworkInterfaceInitialise[23] = MacWriteCr("rxen")
    /\ xNetworkInterfaceInitialise[24] = Plain("finish")
    /\ xNetworkInterfaceInitialise[25] = [Plain("read_address") EXCEPT !.checked = FALSE]
<1> DEFINE a1 == Plain("check_id")
           a2 == Plain("soft_reset")
           a3 == Plain("set_txfifo")
           a4 == Plain("wait_eeprom")
           a5 == Plain("init_irqs")
           a6 == PhyRead("id1", TRUE)
           a7 == PhyRead("id2", TRUE)
           a8 == Plain("check_ids")
           a9 == PhyRead("bctrl", TRUE)
           a10 == PhyWrite("bctrl", "reset", TRUE)
           a11 == Plain("phy_resets")
           a12 == PhyRead("bctrl", TRUE)
           a13 == Plain("check_reset")
           a14 == PhyRead("aneg_adv", FALSE)
           a15 == PhyWrite("aneg_adv", "all", FALSE)
           a16 == PhyRead("bctrl", FALSE)
           a17 == PhyWrite("bctrl", "auto_neg", FALSE)
           a18 == Plain("must_be_one")
           a19 == MacReadCr
           a20 == MacWriteCr("txen")
           a21 == Plain("tx_on")
           a22 == MacReadCr
           a23 == MacWriteCr("rxen")
           a24 == Plain("finish")
           a25 == [Plain("read_address") EXCEPT !.checked = FALSE]
           S == {a1, a2, a3, a4, a5, a6, a7, a8, a9, a10, a11, a12, a13,
                  a14, a15, a16, a17, a18, a19, a20, a21, a22, a23, a24, a25}
           P1 == <<a1, a2, a3, a4, a5>>
           P2 == <<a6, a7, a8>>
           P3 == <<a9, a10, a11, a12, a13>>
           P4 == <<a14, a15>>
           P5 == <<a16, a17, a18>>
           P6 == <<a19, a20, a21, a22, a23>>
           P7 == <<a24, a25>>
           L2 == P1 \o P2
           L3 == L2 \o P3
           L4 == L3 \o P4
           L5 == L4 \o P5
           L6 == L5 \o P6
           L7 == L6 \o P7
<1>20. xNetworkInterfaceInitialise = L7
  BY DEF xNetworkInterfaceInitialise, CheckPhy, ResetPhy, AdvertiseCap, EstablishLink, EnableMac
<1> HIDE DEF a1, a2, a3, a4, a5, a6, a7, a8, a9, a10, a11, a12, a13,
              a14, a15, a16, a17, a18, a19, a20, a21, a22, a23, a24, a25
<1>1. P1 \in Seq(S) /\ Len(P1) = 5
  OBVIOUS
<1>2. P2 \in Seq(S) /\ Len(P2) = 3
  OBVIOUS
<1>3. P3 \in Seq(S) /\ Len(P3) = 5
  OBVIOUS
<1>4. P4 \in Seq(S) /\ Len(P4) = 2
  OBVIOUS
<1>5. P5 \in Seq(S) /\ Len(P5) = 3
  OBVIOUS
<1>6. P6 \in Seq(S) /\ Len(P6) = 5
  OBVIOUS
<1>7. P7 \in Seq(S) /\ Len(P7) = 2
  OBVIOUS
<1> HIDE DEF S, P1, P2, P3, P4, P5, P6, P7
<1>12. /\ L2 \in Seq(S) /\ Len(L2) = 8
       /\ \A i \in 1 .. 8 : L2[i] = IF i <= 5 THEN P1[i] ELSE P2[i - 5]
  <2>1. /\ L2 \in Seq(S) /\ Len(L2) = Len(P1) + Len(P2)
        /\ \A i \in 1 .. Len(P1) + Len(P2) :
             L2[i] = IF i <= Len(P1) THEN P1[i] ELSE P2[i - Len(P1)]
    BY <1>1, <1>2, ConcatProperties
  <2> HIDE DEF L2
  <2> QED
    BY <2>1, <1>1, <1>2
<1> HIDE DEF L2
<1>32. \A i \in 1 .. 5 : L2[i] = P1[i]
  <2>1. \A i \in 1 .. 5 : i <= 5 /\ i \in 1 .. 8
    OBVIOUS
  <2> QED
    BY <1>12, <2>1
<1>42. L2[6] = P2[1] /\ L2[7] = P2[2] /\ L2[8] = P2[3]
  BY <1>12
<1>13. /\ L3 \in Seq(S) /\ Len(L3) = 13
       /\ \A i \in 1 .. 13 : L3[i] = IF i <= 8 THEN L2[i] ELSE P3[i - 8]
  <2>1. /\ L3 \in Seq(S) /\ Len(L3) = Len(L2) + Len(P3)
        /\ \A i \in 1 .. Len(L2) + Len(P3) :
             L3[i] = IF i <= Len(L2) THEN L2[i] ELSE P3[i - Len(L2)]
    BY <1>12, <1>3, ConcatProperties
  <2> HIDE DEF L3
  <2> QED
    BY <2>1, <1>12, <1>3
<1> HIDE DEF L3
<1>33. \A i \in 1 .. 8 : L3[i] = L2[i]
  <2>1. \A i \in 1 .. 8 : i <= 8 /\ i \in 1 .. 13
    OBVIOUS
  <2> QED
    BY <1>13, <2>1
<1>43. L3[9] = P3[1] /\ L3[10] = P3[2] /\ L3[11] = P3[3] /\ L3[12] = P3[4] /\ L3[13] = P3[5]
  BY <1>13
<1>14. /\ L4 \in Seq(S) /\ Len(L4) = 15
       /\ \A i \in 1 .. 15 : L4[i] = IF i <= 13 THEN L3[i] ELSE P4[i - 13]
  <2>1. /\ L4 \in Seq(S) /\ Len(L4) = Len(L3) + Len(P4)
        /\ \A i \in 1 .. Len(L3) + Len(P4) :
             L4[i] = IF i <= Len(L3) THEN L3[i] ELSE P4[i - Len(L3)]
    BY <1>13, <1>4, ConcatProperties
  <2> HIDE DEF L4
  <2> QED
    BY <2>1, <1>13, <1>4
<1> HIDE DEF L4
<1>34. \A i \in 1 .. 13 : L4[i] = L3[i]
  <2>1. \A i \in 1 .. 13 : i <= 13 /\ i \in 1 .. 15
    OBVIOUS
  <2> QED
    BY <1>14, <2>1
<1>44. L4[14] = P4[1] /\ L4[15] = P4[2]
  BY <1>14
<1>15. /\ L5 \in Seq(S) /\ Len(L5) = 18
       /\ \A i \in 1 .. 18 : L5[i] = IF i <= 15 THEN L4[i] ELSE P5[i - 15]
  <2>1. /\ L5 \in Seq(S) /\ Len(L5) = Len(L4) + Len(P5)
        /\ \A i \in 1 .. Len(L4) + Len(P5) :
             L5[i] = IF i <= Len(L4) THEN L4[i] ELSE P5[i - Len(L4)]
    BY <1>14, <1>5, ConcatProperties
  <2> HIDE DEF L5
  <2> QED
    BY <2>1, <1>14, <1>5
<1> HIDE DEF L5
<1>35. \A i \in 1 .. 15 : L5[i] = L4[i]
  <2>1. \A i \in 1 .. 15 : i <= 15 /\ i \in 1 .. 18
    OBVIOUS
  <2> QED
    BY <1>15, <2>1
<1>45. L5[16] = P5[1] /\ L5[17] = P5[2] /\ L5[18] = P5[3]
  BY <1>15
<1>16. /\ L6 \in Seq(S) /\ Len(L6) = 23
       /\ \A i \in 1 .. 23 : L6[i] = IF i <= 18 THEN L5[i] ELSE P6[i - 18]
  <2>1. /\ L6 \in Seq(S) /\ Len(L6) = Len(L5) + Len(P6)
        /\ \A i \in 1 .. Len(L5) + Len(P6) :
             L6[i] = IF i <= Len(L5) THEN L5[i] ELSE P6[i - Len(L5)]
    BY <1>15, <1>6, ConcatProperties
  <2> HIDE DEF L6
  <2> QED
    BY <2>1, <1>15, <1>6
<1> HIDE DEF L6
<1>36. \A i \in 1 .. 18 : L6[i] = L5[i]
  <2>1. \A i \in 1 .. 18 : i <= 18 /\ i \in 1 .. 23
    OBVIOUS
  <2> QED
    BY <1>16, <2>1
<1>46. L6[19] = P6[1] /\ L6[20] = P6[2] /\ L6[21] = P6[3] /\ L6[22] = P6[4] /\ L6[23] = P6[5]
  BY <1>16
<1>17. /\ L7 \in Seq(S) /\ Len(L7) = 25
       /\ \A i \in 1 .. 25 : L7[i] = IF i <= 23 THEN L6[i] ELSE P7[i - 23]
  <2>1. /\ L7 \in Seq(S) /\ Len(L7) = Len(L6) + Len(P7)
        /\ \A i \in 1 .. Len(L6) + Len(P7) :
             L7[i] = IF i <= Len(L6) THEN L6[i] ELSE P7[i - Len(L6)]
    BY <1>16, <1>7, ConcatProperties
  <2> HIDE DEF L7
  <2> QED
    BY <2>1, <1>16, <1>7
<1> HIDE DEF L7
<1>37. \A i \in 1 .. 23 : L7[i] = L6[i]
  <2>1. \A i \in 1 .. 23 : i <= 23 /\ i \in 1 .. 25
    OBVIOUS
  <2> QED
    BY <1>17, <2>1
<1>47. L7[24] = P7[1] /\ L7[25] = P7[2]
  BY <1>17
<1>21. L7[1] = a1 /\ L7[2] = a2 /\ L7[3] = a3 /\ L7[4] = a4 /\ L7[5] = a5
  BY <1>32, <1>33, <1>34, <1>35, <1>36, <1>37 DEF P1
<1>22. L7[6] = a6 /\ L7[7] = a7 /\ L7[8] = a8
  BY <1>42, <1>33, <1>34, <1>35, <1>36, <1>37 DEF P2
<1>23. L7[9] = a9 /\ L7[10] = a10 /\ L7[11] = a11 /\ L7[12] = a12 /\ L7[13] = a13
  BY <1>43, <1>34, <1>35, <1>36, <1>37 DEF P3
<1>24. L7[14] = a14 /\ L7[15] = a15
  BY <1>44, <1>35, <1>36, <1>37 DEF P4
<1>25. L7[16] = a16 /\ L7[17] = a17 /\ L7[18] = a18
  BY <1>45, <1>36, <1>37 DEF P5
<1>26. L7[19] = a19 /\ L7[20] = a20 /\ L7[21] = a21 /\ L7[22] = a22 /\ L7[23] = a23
  BY <1>46, <1>37 DEF P6
<1>27. L7[24] = a24 /\ L7[25] = a25
  BY <1>47 DEF P7
<1>28. Len(L7) = NumSteps
  BY <1>17 DEF NumSteps
<1> QED
  BY <1>20, <1>21, <1>22, <1>23, <1>24, <1>25, <1>26, <1>27, <1>28, Zenon
     DEF a1, a2, a3, a4, a5, a6, a7, a8, a9, a10, a11, a12, a13,
         a14, a15, a16, a17, a18, a19, a20, a21, a22, a23, a24, a25

(* What the step at hand is. *)
LEMMA StepFields ==
    /\ drv.at = 1 => Step.do = "check_id" /\ Step.checked
    /\ drv.at = 2 => Step.do = "soft_reset" /\ Step.checked
    /\ drv.at = 3 => Step.do = "set_txfifo" /\ Step.checked
    /\ drv.at = 4 => Step.do = "wait_eeprom" /\ Step.checked
    /\ drv.at = 5 => Step.do = "init_irqs" /\ Step.checked
    /\ drv.at = 6 => Step.do = "phy_read" /\ Step.checked /\ Step.reg = "id1"
    /\ drv.at = 7 => Step.do = "phy_read" /\ Step.checked /\ Step.reg = "id2"
    /\ drv.at = 8 => Step.do = "check_ids" /\ Step.checked
    /\ drv.at = 9 => Step.do = "phy_read" /\ Step.checked /\ Step.reg = "bctrl"
    /\ drv.at = 10 => Step.do = "phy_write" /\ Step.checked
          /\ Step.reg = "bctrl" /\ Step.bit = "reset"
    /\ drv.at = 11 => Step.do = "phy_resets" /\ Step.checked
    /\ drv.at = 12 => Step.do = "phy_read" /\ Step.checked /\ Step.reg = "bctrl"
    /\ drv.at = 13 => Step.do = "check_reset" /\ Step.checked
    /\ drv.at = 14 => Step.do = "phy_read" /\ ~Step.checked /\ Step.reg = "aneg_adv"
    /\ drv.at = 15 => Step.do = "phy_write" /\ ~Step.checked
          /\ Step.reg = "aneg_adv" /\ Step.bit = "all"
    /\ drv.at = 16 => Step.do = "phy_read" /\ ~Step.checked /\ Step.reg = "bctrl"
    /\ drv.at = 17 => Step.do = "phy_write" /\ ~Step.checked
          /\ Step.reg = "bctrl" /\ Step.bit = "auto_neg"
    /\ drv.at = 18 => Step.do = "must_be_one" /\ Step.checked
    /\ drv.at = 19 => Step.do = "mac_read" /\ ~Step.checked /\ Step.reg = "cr"
    /\ drv.at = 20 => Step.do = "mac_write" /\ ~Step.checked
          /\ Step.reg = "cr" /\ Step.bit = "txen"
    /\ drv.at = 21 => Step.do = "tx_on" /\ Step.checked
    /\ drv.at = 22 => Step.do = "mac_read" /\ ~Step.checked /\ Step.reg = "cr"
    /\ drv.at = 23 => Step.do = "mac_write" /\ ~Step.checked
          /\ Step.reg = "cr" /\ Step.bit = "rxen"
    /\ drv.at = 24 => Step.do = "finish" /\ Step.checked
    /\ drv.at = 25 => Step.do = "read_address" /\ ~Step.checked
<1>1. drv.at = 1 => Step.do = "check_id" /\ Step.checked
  <2>1. drv.at = 1 => Step = Plain("check_id")
    BY StepList, Zenon DEF Step
  <2> QED
    BY <2>1 DEF Plain
<1>2. drv.at = 2 => Step.do = "soft_reset" /\ Step.checked
  <2>1. drv.at = 2 => Step = Plain("soft_reset")
    BY StepList, Zenon DEF Step
  <2> QED
    BY <2>1 DEF Plain
<1>3. drv.at = 3 => Step.do = "set_txfifo" /\ Step.checked
  <2>1. drv.at = 3 => Step = Plain("set_txfifo")
    BY StepList, Zenon DEF Step
  <2> QED
    BY <2>1 DEF Plain
<1>4. drv.at = 4 => Step.do = "wait_eeprom" /\ Step.checked
  <2>1. drv.at = 4 => Step = Plain("wait_eeprom")
    BY StepList, Zenon DEF Step
  <2> QED
    BY <2>1 DEF Plain
<1>5. drv.at = 5 => Step.do = "init_irqs" /\ Step.checked
  <2>1. drv.at = 5 => Step = Plain("init_irqs")
    BY StepList, Zenon DEF Step
  <2> QED
    BY <2>1 DEF Plain
<1>6. drv.at = 6 => Step.do = "phy_read" /\ Step.checked /\ Step.reg = "id1"
  <2>1. drv.at = 6 => Step = PhyRead("id1", TRUE)
    BY StepList, Zenon DEF Step
  <2> QED
    BY <2>1 DEF PhyRead
<1>7. drv.at = 7 => Step.do = "phy_read" /\ Step.checked /\ Step.reg = "id2"
  <2>1. drv.at = 7 => Step = PhyRead("id2", TRUE)
    BY StepList, Zenon DEF Step
  <2> QED
    BY <2>1 DEF PhyRead
<1>8. drv.at = 8 => Step.do = "check_ids" /\ Step.checked
  <2>1. drv.at = 8 => Step = Plain("check_ids")
    BY StepList, Zenon DEF Step
  <2> QED
    BY <2>1 DEF Plain
<1>9. drv.at = 9 => Step.do = "phy_read" /\ Step.checked /\ Step.reg = "bctrl"
  <2>1. drv.at = 9 => Step = PhyRead("bctrl", TRUE)
    BY StepList, Zenon DEF Step
  <2> QED
    BY <2>1 DEF PhyRead
<1>10. drv.at = 10 => Step.do = "phy_write" /\ Step.checked /\ Step.reg = "bctrl" /\ Step.bit = "reset"
  <2>1. drv.at = 10 => Step = PhyWrite("bctrl", "reset", TRUE)
    BY StepList, Zenon DEF Step
  <2> QED
    BY <2>1 DEF PhyWrite
<1>11. drv.at = 11 => Step.do = "phy_resets" /\ Step.checked
  <2>1. drv.at = 11 => Step = Plain("phy_resets")
    BY StepList, Zenon DEF Step
  <2> QED
    BY <2>1 DEF Plain
<1>12. drv.at = 12 => Step.do = "phy_read" /\ Step.checked /\ Step.reg = "bctrl"
  <2>1. drv.at = 12 => Step = PhyRead("bctrl", TRUE)
    BY StepList, Zenon DEF Step
  <2> QED
    BY <2>1 DEF PhyRead
<1>13. drv.at = 13 => Step.do = "check_reset" /\ Step.checked
  <2>1. drv.at = 13 => Step = Plain("check_reset")
    BY StepList, Zenon DEF Step
  <2> QED
    BY <2>1 DEF Plain
<1>14. drv.at = 14 => Step.do = "phy_read" /\ ~Step.checked /\ Step.reg = "aneg_adv"
  <2>1. drv.at = 14 => Step = PhyRead("aneg_adv", FALSE)
    BY StepList, Zenon DEF Step
  <2> QED
    BY <2>1 DEF PhyRead
<1>15. drv.at = 15 => Step.do = "phy_write" /\ ~Step.checked /\ Step.reg = "aneg_adv" /\ Step.bit = "all"
  <2>1. drv.at = 15 => Step = PhyWrite("aneg_adv", "all", FALSE)
    BY StepList, Zenon DEF Step
  <2> QED
    BY <2>1 DEF PhyWrite
<1>16. drv.at = 16 => Step.do = "phy_read" /\ ~Step.checked /\ Step.reg = "bctrl"
  <2>1. drv.at = 16 => Step = PhyRead("bctrl", FALSE)
    BY StepList, Zenon DEF Step
  <2> QED
    BY <2>1 DEF PhyRead
<1>17. drv.at = 17 => Step.do = "phy_write" /\ ~Step.checked /\ Step.reg = "bctrl" /\ Step.bit = "auto_neg"
  <2>1. drv.at = 17 => Step = PhyWrite("bctrl", "auto_neg", FALSE)
    BY StepList, Zenon DEF Step
  <2> QED
    BY <2>1 DEF PhyWrite
<1>18. drv.at = 18 => Step.do = "must_be_one" /\ Step.checked
  <2>1. drv.at = 18 => Step = Plain("must_be_one")
    BY StepList, Zenon DEF Step
  <2> QED
    BY <2>1 DEF Plain
<1>19. drv.at = 19 => Step.do = "mac_read" /\ ~Step.checked /\ Step.reg = "cr"
  <2>1. drv.at = 19 => Step = MacReadCr
    BY StepList, Zenon DEF Step
  <2> QED
    BY <2>1 DEF MacReadCr
<1>20. drv.at = 20 => Step.do = "mac_write" /\ ~Step.checked /\ Step.reg = "cr" /\ Step.bit = "txen"
  <2>1. drv.at = 20 => Step = MacWriteCr("txen")
    BY StepList, Zenon DEF Step
  <2> QED
    BY <2>1 DEF MacWriteCr
<1>21. drv.at = 21 => Step.do = "tx_on" /\ Step.checked
  <2>1. drv.at = 21 => Step = Plain("tx_on")
    BY StepList, Zenon DEF Step
  <2> QED
    BY <2>1 DEF Plain
<1>22. drv.at = 22 => Step.do = "mac_read" /\ ~Step.checked /\ Step.reg = "cr"
  <2>1. drv.at = 22 => Step = MacReadCr
    BY StepList, Zenon DEF Step
  <2> QED
    BY <2>1 DEF MacReadCr
<1>23. drv.at = 23 => Step.do = "mac_write" /\ ~Step.checked /\ Step.reg = "cr" /\ Step.bit = "rxen"
  <2>1. drv.at = 23 => Step = MacWriteCr("rxen")
    BY StepList, Zenon DEF Step
  <2> QED
    BY <2>1 DEF MacWriteCr
<1>24. drv.at = 24 => Step.do = "finish" /\ Step.checked
  <2>1. drv.at = 24 => Step = Plain("finish")
    BY StepList, Zenon DEF Step
  <2> QED
    BY <2>1 DEF Plain
<1>25. drv.at = 25 => Step.do = "read_address" /\ ~Step.checked
  <2>1. drv.at = 25 => Step = [Plain("read_address") EXCEPT !.checked = FALSE]
    BY StepList, Zenon DEF Step
  <2> QED
    BY <2>1 DEF Plain
<1> QED
  BY <1>1, <1>2, <1>3, <1>4, <1>5, <1>6, <1>7, <1>8, <1>9, <1>10, <1>11, <1>12, <1>13,
     <1>14, <1>15, <1>16, <1>17, <1>18, <1>19, <1>20, <1>21, <1>22, <1>23, <1>24, <1>25

-----------------------------------------------------------------------------
(* The registers: time passes, and accesses are made *)

LEMMA TurnsType ==
    ASSUME NEW delay \in Nat, NEW limit \in Nat PROVE Turns(delay, limit) \in Nat
BY DEF Turns, Most, Least

LEMMA TickKeeps ==
    ASSUME NEW c \in ChipType, NEW n \in Nat
    PROVE  Tick(c, n) \in ChipType /\ Tick(c, n).regs = c.regs
<1> DEFINE a == Most(0, c.mac - n)
           b == Most(0, c.mii - n)
<1>1. a \in Nat /\ b \in Nat
  BY DEF Most, ChipType
<1>2. Tick(c, n) = [c EXCEPT !.mac = a, !.mii = b]
  BY DEF Tick
<1> HIDE DEF a, b
<1> QED
  BY <1>1, <1>2 DEF ChipType

LEMMA AccessKeeps ==
    ASSUME NEW c \in ChipType, NEW delay \in Nat, NEW n \in Nat
    PROVE  /\ Tick([c EXCEPT !.mac = delay], n) \in ChipType
           /\ Tick([c EXCEPT !.mac = delay], n).regs = c.regs
<1>1. [c EXCEPT !.mac = delay] \in ChipType /\ [c EXCEPT !.mac = delay].regs = c.regs
  BY DEF ChipType
<1> QED
  BY <1>1, TickKeeps

LEMMA MacReadKeeps ==
    ASSUME NEW c \in ChipType, NEW delay \in Nat
    PROVE  MacRead(c, delay).chip \in ChipType /\ MacRead(c, delay).chip.regs = c.regs
<1> DEFINE n == Turns(delay, TimeOut)
           e == Tick([c EXCEPT !.mac = delay], n)
<1>1. n \in Nat
  BY EthernetAssumption, TurnsType
<1>2. e \in ChipType /\ e.regs = c.regs
  BY <1>1, AccessKeeps
<1>3. MacRead(c, delay) = IF c.mac > 0 THEN [st |-> "busy", chip |-> c]
                          ELSE [st |-> IF n = TimeOut THEN "timeout" ELSE "none", chip |-> e]
  BY DEF MacRead
<1> HIDE DEF n, e
<1>4. MacRead(c, delay).chip = c \/ MacRead(c, delay).chip = e
  BY <1>3
<1> QED
  BY <1>2, <1>4

LEMMA MacWriteKeeps ==
    ASSUME NEW c \in ChipType, NEW delay \in Nat, NEW odd \in BOOLEAN
    PROVE  MacWrite(c, odd, delay).chip \in ChipType /\ MacWrite(c, odd, delay).chip.regs = c.regs
<1> DEFINE n == IF odd THEN Turns(delay, TimeOut) ELSE 1
           e == Tick([c EXCEPT !.mac = delay], n)
<1>1. n \in Nat
  BY EthernetAssumption, TurnsType
<1>2. e \in ChipType /\ e.regs = c.regs
  BY <1>1, AccessKeeps
<1>3. MacWrite(c, odd, delay) =
        IF c.mac > 0 THEN [st |-> "busy", chip |-> c]
        ELSE [st |-> IF n = TimeOut THEN "timeout" ELSE "none", chip |-> e]
  BY DEF MacWrite
<1> HIDE DEF n, e
<1>4. MacWrite(c, odd, delay).chip = c \/ MacWrite(c, odd, delay).chip = e
  BY <1>3
<1> QED
  BY <1>2, <1>4

(* A step that is over: the next one follows, unless a checked error ends  *)
(* the initialisation or this was the last one.                            *)
LEMMA PassedType ==
    ASSUME NEW d \in DrvType, d.at = drv.at, NEW st, NEW val \in SUBSET Bits
    PROVE  Passed(d, st, val) \in DrvType
<1>1. CASE st # "none" /\ Step.checked
  <2>1. Passed(d, st, val) = [d EXCEPT !.result = "failed"]
    BY <1>1 DEF Passed
  <2> QED
    BY <2>1 DEF DrvType
<1>2. CASE ~(st # "none" /\ Step.checked)
  <2> DEFINE e == [d EXCEPT !.val = val, !.ignored = @ \/ st # "none"]
  <2>1. e \in DrvType /\ e.at = drv.at
    BY DEF DrvType
  <2>2. Passed(d, st, val) = IF drv.at = Len(xNetworkInterfaceInitialise)
                               THEN [e EXCEPT !.result = "none"] ELSE [e EXCEPT !.at = @ + 1]
    BY <1>2 DEF Passed
  <2> HIDE DEF e
  <2>3. CASE drv.at = NumSteps
    BY <2>1, <2>2, <2>3, StepList DEF DrvType
  <2>4. CASE drv.at # NumSteps
    <3>1. e.at + 1 \in 1 .. NumSteps
      BY <2>1, <2>4 DEF DrvType, NumSteps
    <3> QED
      BY <2>1, <2>2, <2>4, <3>1, StepList DEF DrvType
  <2> QED
    BY <2>3, <2>4
<1> QED
  BY <1>1, <1>2

LEMMA PassedClean ==
    ASSUME NEW d \in DrvType, d.at = drv.at, d.result = "running", NEW st, NEW val \in SUBSET Bits,
           Clean(Passed(d, st, val))
    PROVE  /\ Clean(d) /\ st = "none" /\ Passed(d, st, val).val = val
           /\ Position(Passed(d, st, val)) = drv.at + 1
           /\ Passed(d, st, val).address = d.address
           /\ drv.at = NumSteps <=> Passed(d, st, val).result = "none"
<1>1. CASE st # "none" /\ Step.checked
  <2>1. Passed(d, st, val) = [d EXCEPT !.result = "failed"]
    BY <1>1 DEF Passed
  <2> QED
    BY <2>1 DEF DrvType, Clean
<1>2. CASE ~(st # "none" /\ Step.checked)
  <2> DEFINE e == [d EXCEPT !.val = val, !.ignored = @ \/ st # "none"]
  <2>1. /\ e \in DrvType /\ e.at = drv.at /\ e.val = val /\ e.address = d.address
        /\ e.result = "running" /\ (e.ignored <=> d.ignored \/ st # "none")
    BY DEF DrvType
  <2>2. Passed(d, st, val) = IF drv.at = Len(xNetworkInterfaceInitialise)
                               THEN [e EXCEPT !.result = "none"] ELSE [e EXCEPT !.at = @ + 1]
    BY <1>2 DEF Passed
  <2> HIDE DEF e
  <2>3. CASE drv.at = NumSteps
    BY <2>1, <2>2, <2>3, StepList DEF DrvType, Clean, Position, NumSteps
  <2>4. CASE drv.at # NumSteps
    BY <2>1, <2>2, <2>4, StepList DEF DrvType, Clean, Position, NumSteps
  <2> QED
    BY <2>3, <2>4
<1> QED
  BY <1>1, <1>2

-----------------------------------------------------------------------------
(* The steps keep what the earlier ones have done *)

LEMMA StepPlaces ==
    ASSUME drv.at \in 1 .. NumSteps
    PROVE  /\ Step.do = "check_id" => drv.at = 1
           /\ Step.do = "soft_reset" => drv.at = 2
           /\ Step.do = "set_txfifo" => drv.at = 3
           /\ Step.do = "wait_eeprom" => drv.at = 4
           /\ Step.do = "init_irqs" => drv.at = 5
           /\ Step.do = "check_ids" => drv.at = 8
           /\ Step.do = "phy_resets" => drv.at = 11
           /\ Step.do = "check_reset" => drv.at = 13
           /\ Step.do = "must_be_one" => drv.at = 18
           /\ Step.do = "tx_on" => drv.at = 21
           /\ Step.do = "finish" => drv.at = 24
           /\ Step.do = "read_address" => drv.at = 25
           /\ Step.do = "phy_read" => drv.at \in {6, 7, 9, 12, 14, 16}
           /\ Step.do = "phy_write" => drv.at \in {10, 15, 17}
           /\ Step.do = "mac_read" => drv.at \in {19, 22}
           /\ Step.do = "mac_write" => drv.at \in {20, 23}
<1>1. drv.at \in {1, 2, 3, 4, 5, 6, 7, 8, 9, 10, 11, 12, 13, 14, 15, 16, 17, 18, 19, 20, 21, 22,
                  23, 24, 25}
  BY DEF NumSteps
<1> QED
  BY <1>1, StepFields

(* A step is over that leaves the link as it must be for the next one. *)
LEMMA StepOver ==
    ASSUME LinkAll, drv.result = "running", NEW d \in DrvType, d.at = drv.at,
           d.result = "running", Clean(d) => Clean(drv),
           NEW st, NEW val \in SUBSET Bits, drv' = Passed(d, st, val),
           op' \in OpType, op'.phase = "none", chip' \in ChipType,
           Clean(drv) /\ st = "none" => LinkAt(drv.at + 1, FALSE, chip'.regs, val, d.address)
    PROVE  LinkAll'
<1>1. drv' \in DrvType
  BY PassedType
<1>2. LinkType'
  BY <1>1 DEF LinkType
<1>3. OpInv'
  BY DEF OpInv
<1>4. LinkInv'
  <2> SUFFICES ASSUME Clean(drv')
               PROVE  LinkAt(Position(drv'), op'.phase = "poll", chip'.regs, drv'.val, drv'.address)
    BY DEF LinkInv
  <2>1. /\ Clean(d) /\ st = "none" /\ drv'.val = val /\ Position(drv') = drv.at + 1
        /\ drv'.address = d.address
    BY PassedClean
  <2>2. LinkAt(drv.at + 1, FALSE, chip'.regs, val, d.address)
    BY <2>1
  <2>3. (op'.phase = "poll") = FALSE
    OBVIOUS
  <2> QED
    BY <2>1, <2>2, <2>3
<1> QED
  BY <1>2, <1>3, <1>4 DEF LinkAll

(* Between two accesses to the PHY none is under way. *)
LEMMA Between ==
    ASSUME LinkAll, Running, Step.do \notin {"phy_read", "phy_write"}
    PROVE  /\ op.phase = "none" /\ op \in OpType /\ drv \in DrvType /\ chip \in ChipType
           /\ drv.result = "running" /\ drv.at \in 1 .. NumSteps
           /\ Clean(drv) => LinkAt(drv.at, FALSE, chip.regs, drv.val, drv.address)
<1>1. op.phase = "none" /\ op \in OpType /\ drv \in DrvType /\ chip \in ChipType
  BY DEF LinkAll, LinkType, OpInv
<1>2. drv.result = "running" /\ drv.at \in 1 .. NumSteps
  BY <1>1 DEF Running, DrvType
<1>3. (op.phase = "poll") = FALSE /\ Position(drv) = drv.at
  BY <1>1, <1>2 DEF Position
<1> QED
  BY <1>1, <1>2, <1>3 DEF LinkAll, LinkInv

(* The same for a step that does not touch the address. *)
LEMMA PlainStepOver ==
    ASSUME LinkAll, Running, Step.do \notin {"phy_read", "phy_write"},
           NEW st, NEW val \in SUBSET Bits, drv' = Passed(drv, st, val), UNCHANGED op,
           chip' \in ChipType,
           Clean(drv) /\ st = "none" => LinkAt(drv.at + 1, FALSE, chip'.regs, val, drv.address)
    PROVE  LinkAll'
<1>1. op'.phase = "none" /\ op' \in OpType /\ drv \in DrvType /\ drv.result = "running"
  BY Between
<1> QED
  BY <1>1, StepOver

LEMMA SetupStepKeeps == ASSUME LinkAll, SetupStep PROVE LinkAll'
<1>1. Running
  BY DEF SetupStep
<1>2. {} \in SUBSET Bits
  OBVIOUS
<1>3. ASSUME Step.do \in {"check_id", "soft_reset", "wait_eeprom"}, NEW st,
             drv' = Passed(drv, st, {}), UNCHANGED <<op, chip>>
      PROVE  LinkAll'
  <2>1. Step.do \notin {"phy_read", "phy_write"}
    BY <1>3
  <2>2. /\ drv.at \in 1 .. NumSteps /\ chip' \in ChipType
        /\ Clean(drv) => LinkAt(drv.at, FALSE, chip'.regs, drv.val, drv.address)
    BY <1>1, <1>3, <2>1, Between
  <2>3. drv.at \in {1, 2, 4}
    BY <1>3, <2>2, StepPlaces
  <2>4. Clean(drv) => LinkAt(drv.at + 1, FALSE, chip'.regs, {}, drv.address)
    BY <2>2, <2>3 DEF LinkAt, NumSteps
  <2> QED
    BY <1>1, <1>2, <1>3, <2>1, <2>2, <2>4, PlainStepOver
<1>4. ASSUME Step.do = "set_txfifo", drv' = Passed(drv, "none", {}), UNCHANGED op,
             chip' = [chip EXCEPT !.regs.hw_cfg = {"txfifo"}]
      PROVE  LinkAll'
  <2>1. Step.do \notin {"phy_read", "phy_write"}
    BY <1>4
  <2>2. /\ drv.at \in 1 .. NumSteps /\ chip \in ChipType
        /\ Clean(drv) => LinkAt(drv.at, FALSE, chip.regs, drv.val, drv.address)
    BY <1>1, <2>1, Between
  <2>3. drv.at = 3
    BY <1>4, <2>2, StepPlaces
  <2>4. chip' \in ChipType /\ chip'.regs = [chip.regs EXCEPT !.hw_cfg = {"txfifo"}]
    BY <1>4, <2>2 DEF ChipType, RegNames, Bits
  <2>5. Clean(drv) => LinkAt(drv.at + 1, FALSE, chip'.regs, {}, drv.address)
    BY <2>2, <2>3, <2>4 DEF LinkAt, NumSteps, ChipType, RegNames
  <2> QED
    BY <1>1, <1>2, <1>4, <2>1, <2>4, <2>5, PlainStepOver
<1>5. ASSUME Step.do = "init_irqs", drv' = Passed(drv, "none", {}), UNCHANGED op,
             chip' = [chip EXCEPT !.regs.irq_cfg = {"irq_en"}]
      PROVE  LinkAll'
  <2>1. Step.do \notin {"phy_read", "phy_write"}
    BY <1>5
  <2>2. /\ drv.at \in 1 .. NumSteps /\ chip \in ChipType
        /\ Clean(drv) => LinkAt(drv.at, FALSE, chip.regs, drv.val, drv.address)
    BY <1>1, <2>1, Between
  <2>3. drv.at = 5
    BY <1>5, <2>2, StepPlaces
  <2>4. chip' \in ChipType /\ chip'.regs = [chip.regs EXCEPT !.irq_cfg = {"irq_en"}]
    BY <1>5, <2>2 DEF ChipType, RegNames, Bits
  <2>5. Clean(drv) => LinkAt(drv.at + 1, FALSE, chip'.regs, {}, drv.address)
    BY <2>2, <2>3, <2>4 DEF LinkAt, NumSteps, ChipType, RegNames
  <2> QED
    BY <1>1, <1>2, <1>5, <2>1, <2>4, <2>5, PlainStepOver
<1>6. ASSUME Step.do = "must_be_one", drv' = Passed(drv, "none", {}), UNCHANGED op,
             chip' = [chip EXCEPT !.regs.hw_cfg = @ \cup {"one"}]
      PROVE  LinkAll'
  <2>1. Step.do \notin {"phy_read", "phy_write"}
    BY <1>6
  <2>2. /\ drv.at \in 1 .. NumSteps /\ chip \in ChipType
        /\ Clean(drv) => LinkAt(drv.at, FALSE, chip.regs, drv.val, drv.address)
    BY <1>1, <2>1, Between
  <2>3. drv.at = 18
    BY <1>6, <2>2, StepPlaces
  <2>4. chip' \in ChipType /\ chip'.regs = [chip.regs EXCEPT !.hw_cfg = @ \cup {"one"}]
    BY <1>6, <2>2 DEF ChipType, RegNames, Bits
  <2>5. Clean(drv) => LinkAt(drv.at + 1, FALSE, chip'.regs, {}, drv.address)
    BY <2>2, <2>3, <2>4 DEF LinkAt, NumSteps, ChipType, RegNames
  <2> QED
    BY <1>1, <1>2, <1>6, <2>1, <2>4, <2>5, PlainStepOver
<1>7. ASSUME Step.do = "tx_on", drv' = Passed(drv, "none", {}), UNCHANGED op,
             chip' = [chip EXCEPT !.regs.tx_cfg = @ \cup {"on"}]
      PROVE  LinkAll'
  <2>1. Step.do \notin {"phy_read", "phy_write"}
    BY <1>7
  <2>2. /\ drv.at \in 1 .. NumSteps /\ chip \in ChipType
        /\ Clean(drv) => LinkAt(drv.at, FALSE, chip.regs, drv.val, drv.address)
    BY <1>1, <2>1, Between
  <2>3. drv.at = 21
    BY <1>7, <2>2, StepPlaces
  <2>4. chip' \in ChipType /\ chip'.regs = [chip.regs EXCEPT !.tx_cfg = @ \cup {"on"}]
    BY <1>7, <2>2 DEF ChipType, RegNames, Bits
  <2>5. Clean(drv) => LinkAt(drv.at + 1, FALSE, chip'.regs, {}, drv.address)
    BY <2>2, <2>3, <2>4 DEF LinkAt, NumSteps, ChipType, RegNames
  <2> QED
    BY <1>1, <1>2, <1>7, <2>1, <2>4, <2>5, PlainStepOver
<1>8. ASSUME NEW what, NEW limit, PollOwn(what, limit), what \in {"soft_reset", "wait_eeprom"}
      PROVE  LinkAll'
  BY <1>3, <1>8 DEF PollOwn
<1>9. \/ \E st \in {"none", "internal"} : Step.do = "check_id" /\ drv' = Passed(drv, st, {})
                                        /\ UNCHANGED <<op, chip>>
      \/ PollOwn("soft_reset", ResetTimeOut) \/ PollOwn("wait_eeprom", TimeOut)
      \/ /\ Step.do = "set_txfifo" /\ drv' = Passed(drv, "none", {})
         /\ chip' = [chip EXCEPT !.regs.hw_cfg = {"txfifo"}] /\ UNCHANGED op
      \/ /\ Step.do = "init_irqs" /\ drv' = Passed(drv, "none", {})
         /\ chip' = [chip EXCEPT !.regs.irq_cfg = {"irq_en"}] /\ UNCHANGED op
      \/ /\ Step.do = "must_be_one" /\ drv' = Passed(drv, "none", {})
         /\ chip' = [chip EXCEPT !.regs.hw_cfg = @ \cup {"one"}] /\ UNCHANGED op
      \/ /\ Step.do = "tx_on" /\ drv' = Passed(drv, "none", {})
         /\ chip' = [chip EXCEPT !.regs.tx_cfg = @ \cup {"on"}] /\ UNCHANGED op
  BY DEF SetupStep
<1> QED
  BY <1>3, <1>4, <1>5, <1>6, <1>7, <1>8, <1>9, Zenon

LEMMA PhyCheckedKeeps == ASSUME LinkAll, PhyChecked PROVE LinkAll'
<1>1. Running /\ UNCHANGED op
  BY DEF PhyChecked
<1>2. {} \in SUBSET Bits
  OBVIOUS
<1>3. ASSUME Step.do = "check_ids", NEW st, drv' = Passed(drv, st, {}), UNCHANGED chip
      PROVE  LinkAll'
  <2>1. Step.do \notin {"phy_read", "phy_write"}
    BY <1>3
  <2>2. /\ drv.at \in 1 .. NumSteps /\ chip' \in ChipType
        /\ Clean(drv) => LinkAt(drv.at, FALSE, chip'.regs, drv.val, drv.address)
    BY <1>1, <1>3, <2>1, Between
  <2>3. drv.at = 8
    BY <1>3, <2>2, StepPlaces
  <2>4. Clean(drv) => LinkAt(drv.at + 1, FALSE, chip'.regs, {}, drv.address)
    BY <2>2, <2>3 DEF LinkAt, NumSteps
  <2> QED
    BY <1>1, <1>2, <1>3, <2>1, <2>2, <2>4, PlainStepOver
<1>4. ASSUME Step.do = "check_reset", NEW st, st = "none" => "reset" \notin drv.val,
             drv' = Passed(drv, st, {}), UNCHANGED chip
      PROVE  LinkAll'
  <2>1. Step.do \notin {"phy_read", "phy_write"}
    BY <1>4
  <2>2. /\ drv.at \in 1 .. NumSteps /\ chip' \in ChipType
        /\ Clean(drv) => LinkAt(drv.at, FALSE, chip'.regs, drv.val, drv.address)
    BY <1>1, <1>4, <2>1, Between
  <2>3. drv.at = 13
    BY <1>4, <2>2, StepPlaces
  <2>4. ASSUME Clean(drv), st = "none"
        PROVE  LinkAt(drv.at + 1, FALSE, chip'.regs, {}, drv.address)
    <3>1. chip'.regs.bctrl \subseteq {"reset"} /\ drv.val = chip'.regs.bctrl
      BY <2>2, <2>3, <2>4 DEF LinkAt
    <3>2. chip'.regs.bctrl = {}
      BY <1>4, <2>4, <3>1
    <3> QED
      BY <2>2, <2>3, <2>4, <3>2 DEF LinkAt, NumSteps
  <2> QED
    BY <1>1, <1>2, <1>4, <2>1, <2>2, <2>4, PlainStepOver
<1>5. ASSUME Step.do = "phy_resets", drv' = Passed(drv, "none", {}),
             NEW left, chip' = Tick([chip EXCEPT !.regs.bctrl = @ \cap left], TimeOut)
      PROVE  LinkAll'
  <2>1. Step.do \notin {"phy_read", "phy_write"}
    BY <1>5
  <2>2. /\ drv.at \in 1 .. NumSteps /\ chip \in ChipType
        /\ Clean(drv) => LinkAt(drv.at, FALSE, chip.regs, drv.val, drv.address)
    BY <1>1, <2>1, Between
  <2>3. drv.at = 11
    BY <1>5, <2>2, StepPlaces
  <2> DEFINE c == [chip EXCEPT !.regs.bctrl = @ \cap left]
  <2>4. c \in ChipType /\ c.regs = [chip.regs EXCEPT !.bctrl = @ \cap left]
    BY <2>2 DEF ChipType, RegNames
  <2> HIDE DEF c
  <2>5. chip' \in ChipType /\ chip'.regs = [chip.regs EXCEPT !.bctrl = @ \cap left]
    BY <1>5, <2>4, TickKeeps, EthernetAssumption DEF c
  <2>6. Clean(drv) => LinkAt(drv.at + 1, FALSE, chip'.regs, {}, drv.address)
    BY <2>2, <2>3, <2>5 DEF LinkAt, NumSteps, ChipType, RegNames
  <2> QED
    BY <1>1, <1>2, <1>5, <2>1, <2>5, <2>6, PlainStepOver
<1>6. \/ \E st : Step.do = "check_ids" /\ drv' = Passed(drv, st, {}) /\ UNCHANGED chip
      \/ \E st : /\ Step.do = "check_reset" /\ (st = "none" => "reset" \notin drv.val)
                 /\ drv' = Passed(drv, st, {}) /\ UNCHANGED chip
      \/ \E left : /\ Step.do = "phy_resets" /\ drv' = Passed(drv, "none", {})
                   /\ chip' = Tick([chip EXCEPT !.regs.bctrl = @ \cap left], TimeOut)
  BY Zenon DEF PhyChecked
<1> QED
  BY <1>3, <1>4, <1>5, <1>6, Zenon

LEMMA MacAccessKeeps == ASSUME LinkAll, MacAccess PROVE LinkAll'
<1>1. Running /\ UNCHANGED op /\ Step.do \in {"mac_read", "mac_write"}
  BY DEF MacAccess
<1>2. Step.do \notin {"phy_read", "phy_write"}
  BY <1>1
<1>3. /\ drv.at \in 1 .. NumSteps /\ chip \in ChipType /\ drv \in DrvType
      /\ Clean(drv) => LinkAt(drv.at, FALSE, chip.regs, drv.val, drv.address)
  BY <1>1, <1>2, Between
<1>4. PICK delay \in MacDelays :
        LET r == MacRead(chip, delay)
            w == MacWrite(chip, TRUE, delay)
        IN  IF Step.do = "mac_read"
              THEN /\ chip' = r.chip
                   /\ drv' = Passed(drv, r.st, IF r.st = "none" THEN chip.regs.cr ELSE {})
            ELSE /\ chip' = IF w.st = "busy" THEN w.chip
                            ELSE [w.chip EXCEPT !.regs.cr = WithBit(drv.val, Step.bit)]
                 /\ drv' = Passed(drv, w.st, {})
  BY DEF MacAccess
<1>5. delay \in Nat
  BY EthernetAssumption
<1>6. CASE Step.do = "mac_read"
  <2> DEFINE r == MacRead(chip, delay)
             st == r.st
             val == IF st = "none" THEN chip.regs.cr ELSE {}
  <2>1. chip' = r.chip /\ drv' = Passed(drv, st, val)
    BY <1>4, <1>6
  <2>2. chip' \in ChipType /\ chip'.regs = chip.regs
    BY <1>3, <1>5, <2>1, MacReadKeeps
  <2>3. val \in SUBSET Bits /\ (st = "none" => val = chip.regs.cr)
    BY <1>3 DEF ChipType, RegNames
  <2> HIDE DEF st, val
  <2>4. drv.at \in {19, 22}
    BY <1>3, <1>6, StepPlaces
  <2>5. ASSUME Clean(drv), st = "none"
        PROVE  LinkAt(drv.at + 1, FALSE, chip'.regs, val, drv.address)
    BY <1>3, <2>2, <2>3, <2>4, <2>5 DEF LinkAt, NumSteps
  <2> QED
    BY <1>1, <1>2, <2>1, <2>2, <2>3, <2>5, PlainStepOver
<1>7. CASE Step.do = "mac_write"
  <2> DEFINE w == MacWrite(chip, TRUE, delay)
             st == w.st
             c == w.chip
             v == WithBit(drv.val, Step.bit)
  <2>1. drv' = Passed(drv, st, {}) /\ chip' = IF st = "busy" THEN c ELSE [c EXCEPT !.regs.cr = v]
    BY <1>4, <1>7
  <2>2. c \in ChipType /\ c.regs = chip.regs
    BY <1>3, <1>5, MacWriteKeeps
  <2>3. drv.at \in {20, 23} /\ Step.bit = IF drv.at = 20 THEN "txen" ELSE "rxen"
    BY <1>3, <1>7, StepPlaces, StepFields
  <2>4. v \in SUBSET Bits /\ v = drv.val \cup {IF drv.at = 20 THEN "txen" ELSE "rxen"}
    BY <1>3, <2>3 DEF WithBit, DrvType, Bits
  <2> HIDE DEF st, c, v
  <2>5. chip' \in ChipType
    BY <2>1, <2>2, <2>4 DEF ChipType, RegNames
  <2>6. st = "none" => chip'.regs = [chip.regs EXCEPT !.cr = v]
    BY <2>1, <2>2 DEF ChipType
  <2>7. ASSUME Clean(drv), st = "none"
        PROVE  LinkAt(drv.at + 1, FALSE, chip'.regs, {}, drv.address)
    BY <1>3, <2>3, <2>4, <2>6, <2>7 DEF LinkAt, NumSteps, ChipType, RegNames
  <2>8. {} \in SUBSET Bits
    OBVIOUS
  <2> QED
    BY <1>1, <1>2, <2>1, <2>5, <2>7, <2>8, PlainStepOver
<1> QED
  BY <1>1, <1>6, <1>7

LEMMA FinishKeeps == ASSUME LinkAll, Finish PROVE LinkAll'
<1>1. /\ Running /\ UNCHANGED op /\ Step.do = "finish" /\ drv' = Passed(drv, "none", {})
      /\ chip' = Tick(chip, chip.mac + chip.mii) /\ {} \in SUBSET Bits
  BY DEF Finish
<1>2. Step.do \notin {"phy_read", "phy_write"}
  BY <1>1
<1>3. /\ drv.at \in 1 .. NumSteps /\ chip \in ChipType
      /\ Clean(drv) => LinkAt(drv.at, FALSE, chip.regs, drv.val, drv.address)
  BY <1>1, <1>2, Between
<1>4. chip.mac + chip.mii \in Nat
  BY <1>3 DEF ChipType
<1>5. chip' \in ChipType /\ chip'.regs = chip.regs
  BY <1>1, <1>3, <1>4, TickKeeps
<1>6. drv.at = 24
  BY <1>1, <1>3, StepPlaces
<1>7. Clean(drv) => LinkAt(drv.at + 1, FALSE, chip'.regs, {}, drv.address)
  BY <1>3, <1>5, <1>6 DEF LinkAt, NumSteps
<1> QED
  BY <1>1, <1>2, <1>5, <1>7, PlainStepOver

LEMMA ReadAddressKeeps == ASSUME LinkAll, ReadAddress PROVE LinkAll'
<1>1. /\ Running /\ UNCHANGED op /\ Step.do = "read_address"
  BY DEF ReadAddress
<1>2. Step.do \notin {"phy_read", "phy_write"}
  BY <1>1
<1>3. /\ drv.at \in 1 .. NumSteps /\ chip \in ChipType /\ drv \in DrvType
      /\ op'.phase = "none" /\ op' \in OpType /\ drv.result = "running"
      /\ Clean(drv) => LinkAt(drv.at, FALSE, chip.regs, drv.val, drv.address)
  BY <1>1, <1>2, Between
<1>4. PICK high \in MacDelays, low \in MacDelays :
        LET h == MacRead(chip, high)
            l == MacRead(h.chip, low)
            ok == h.st = "none" /\ l.st = "none"
        IN  /\ drv' = Passed([drv EXCEPT !.address = ok], IF ok THEN "none" ELSE "internal", {})
            /\ chip' = IF h.st = "none" THEN l.chip ELSE h.chip
  BY DEF ReadAddress
<1> DEFINE h == MacRead(chip, high)
           l == MacRead(h.chip, low)
           ok == h.st = "none" /\ l.st = "none"
           st == IF ok THEN "none" ELSE "internal"
           d == [drv EXCEPT !.address = ok]
<1>5. drv' = Passed(d, st, {}) /\ (chip' = l.chip \/ chip' = h.chip)
  BY <1>4
<1>6. high \in Nat /\ low \in Nat
  BY EthernetAssumption
<1>7. h.chip \in ChipType /\ h.chip.regs = chip.regs
  BY <1>3, <1>6, MacReadKeeps
<1>8. l.chip \in ChipType /\ l.chip.regs = chip.regs
  BY <1>6, <1>7, MacReadKeeps
<1>9. chip' \in ChipType /\ chip'.regs = chip.regs
  BY <1>5, <1>7, <1>8
<1>10. ok \in BOOLEAN /\ (st = "none" => ok)
  OBVIOUS
<1> HIDE DEF h, l, ok, st
<1>11. /\ d \in DrvType /\ d.at = drv.at /\ d.result = "running" /\ (Clean(d) => Clean(drv))
       /\ d.address = ok
  BY <1>3, <1>10 DEF DrvType, Clean
<1>12. drv.at = 25
  BY <1>1, <1>3, StepPlaces
<1> HIDE DEF d
<1>13. ASSUME Clean(drv), st = "none" PROVE LinkAt(drv.at + 1, FALSE, chip'.regs, {}, d.address)
  BY <1>3, <1>9, <1>10, <1>11, <1>12, <1>13 DEF LinkAt, NumSteps
<1>14. {} \in SUBSET Bits
  OBVIOUS
<1> QED
  BY <1>3, <1>5, <1>9, <1>11, <1>13, <1>14, StepOver

(* An access to the PHY fails. *)
LEMMA AccessFailed ==
    ASSUME LinkAll, Running, NEW st, st # "none", EndOp(st, {}), chip' \in ChipType
    PROVE  LinkAll'
<1>1. drv \in DrvType /\ drv.result = "running" /\ {} \in SUBSET Bits
  BY DEF LinkAll, LinkType, Running
<1>2. drv' = Passed(drv, st, {}) /\ op' \in OpType /\ op'.phase = "none"
  BY DEF EndOp, NoOp, OpType
<1> QED
  BY <1>1, <1>2, StepOver

(* An access to the PHY goes on. *)
LEMMA AccessGoesOn ==
    ASSUME LinkAll, Running, Step.do \in {"phy_read", "phy_write"}, UNCHANGED drv,
           op' \in OpType, op'.phase = "fetch" => Step.do = "phy_read", chip' \in ChipType,
           NEW started \in BOOLEAN, started <=> op'.phase = "poll",
           Clean(drv) => LinkAt(drv.at, started, chip'.regs, drv.val, drv.address)
    PROVE  LinkAll'
<1>1. LinkType'
  BY DEF LinkAll, LinkType
<1>2. Step' = Step
  BY DEF Step
<1>3. OpInv'
  BY <1>2 DEF OpInv, Running
<1>4. Position(drv') = drv.at /\ Clean(drv') = Clean(drv)
  BY DEF Position, Running, Clean
<1>5. LinkInv'
  BY <1>4 DEF LinkInv
<1> QED
  BY <1>1, <1>3, <1>5 DEF LinkAll

LEMMA PhyAccessKeeps == ASSUME LinkAll, PhyAccess PROVE LinkAll'
<1>1. Running /\ Step.do \in {"phy_read", "phy_write"}
  BY DEF PhyAccess
<1>2. /\ drv \in DrvType /\ chip \in ChipType /\ op \in OpType /\ drv.at \in 1 .. NumSteps
      /\ drv.result = "running" /\ (op.phase = "fetch" => Step.do = "phy_read")
  BY <1>1 DEF LinkAll, LinkType, Running, DrvType, OpInv
<1>3. Clean(drv) => LinkAt(drv.at, op.phase = "poll", chip.regs, drv.val, drv.address)
  BY <1>2 DEF LinkAll, LinkInv, Position
<1>4. /\ Step.do = "phy_read" => drv.at \in {6, 7, 9, 12, 14, 16}
      /\ Step.do = "phy_write" => drv.at \in {10, 15, 17}
  BY <1>2, StepPlaces
<1>5. PICK delay \in MacDelays, phy \in PhyDelays :
         LET r == MacRead(chip, delay)
             data == MacWrite(chip, TRUE, delay)
             start == MacWrite(chip, FALSE, delay)
             poll == MacRead(Tick(chip, 1), delay)
             failed(a) == a.st # "none"
         IN
         CASE op.phase = "none" ->
                /\ chip' = r.chip
                /\ IF failed(r) THEN EndOp("internal", {})
                   ELSE IF r.chip.mii > 0 THEN EndOp("busy", {})
                   ELSE Goto(Loads)
           [] op.phase = "load" ->
                /\ chip' = data.chip
                /\ IF failed(data) THEN EndOp("internal", {}) ELSE Goto("start")
           [] op.phase = "start" ->
                /\ chip' = IF failed(start) THEN start.chip
                           ELSE [start.chip EXCEPT
                                   !.mii = start.chip.mac + phy,
                                   !.regs[Step.reg] = IF Step.do = "phy_write"
                                                        THEN WithBit(drv.val, Step.bit)
                                                      ELSE @]
                /\ IF failed(start) THEN EndOp("internal", {})
                   ELSE op' = [phase |-> "poll", turns |-> TimeOut] /\ UNCHANGED drv
           [] op.phase = "poll" ->
                /\ chip' = poll.chip
                /\ IF failed(poll) THEN EndOp("internal", {})
                   ELSE IF op.turns > 1 /\ poll.chip.mii > 0
                     THEN op' = [op EXCEPT !.turns = @ - 1] /\ UNCHANGED drv
                   ELSE IF op.turns = 1 THEN EndOp("timeout", {})
                   ELSE IF Step.do = "phy_write" THEN EndOp("none", {})
                   ELSE Goto("fetch")
           [] op.phase = "fetch" ->
                /\ chip' = r.chip
                /\ IF failed(r) THEN EndOp("internal", {})
                   ELSE EndOp("none", chip.regs[Step.reg])
  BY DEF PhyAccess
<1>6. delay \in Nat /\ phy \in Nat /\ TimeOut \in Nat /\ 1 \in Nat
  BY EthernetAssumption
<1> DEFINE r == MacRead(chip, delay)
           data == MacWrite(chip, TRUE, delay)
           start == MacWrite(chip, FALSE, delay)
           poll == MacRead(Tick(chip, 1), delay)
           written == IF Step.do = "phy_write" THEN WithBit(drv.val, Step.bit)
                      ELSE chip.regs[Step.reg]
<1>7. /\ r.chip \in ChipType /\ r.chip.regs = chip.regs
      /\ data.chip \in ChipType /\ data.chip.regs = chip.regs
      /\ start.chip \in ChipType /\ start.chip.regs = chip.regs
  BY <1>2, <1>6, MacReadKeeps, MacWriteKeeps
<1>8. poll.chip \in ChipType /\ poll.chip.regs = chip.regs
  <2>1. Tick(chip, 1) \in ChipType /\ Tick(chip, 1).regs = chip.regs
    BY <1>2, <1>6, TickKeeps
  <2> QED
    BY <1>6, <2>1, MacReadKeeps
<1>9. CASE op.phase = "none"
  <2>1. /\ chip' = r.chip
        /\ EndOp("internal", {}) \/ EndOp("busy", {}) \/ Goto(Loads)
    BY <1>5, <1>9
  <2>2. chip' \in ChipType /\ chip'.regs = chip.regs
    BY <1>7, <2>1
  <2>3. ASSUME Goto(Loads) PROVE LinkAll'
    <3>1. UNCHANGED drv /\ op' \in OpType /\ op'.phase \in {"load", "start"}
      BY <1>2, <2>3 DEF Goto, Loads, OpType
    <3>2. Clean(drv) => LinkAt(drv.at, FALSE, chip'.regs, drv.val, drv.address)
      BY <1>3, <1>9, <2>2 DEF LinkAt
    <3>3. FALSE <=> op'.phase = "poll"
      BY <3>1
    <3>4. op'.phase = "fetch" => Step.do = "phy_read"
      BY <3>1
    <3> QED
      BY <1>1, <2>2, <3>1, <3>2, <3>3, <3>4, AccessGoesOn
  <2> QED
    BY <1>1, <2>1, <2>2, <2>3, AccessFailed
<1>10. CASE op.phase = "load"
  <2>1. chip' = data.chip /\ (EndOp("internal", {}) \/ Goto("start"))
    BY <1>5, <1>10
  <2>2. chip' \in ChipType /\ chip'.regs = chip.regs
    BY <1>7, <2>1
  <2>3. ASSUME Goto("start") PROVE LinkAll'
    <3>1. UNCHANGED drv /\ op' \in OpType /\ op'.phase = "start"
      BY <1>2, <2>3 DEF Goto, OpType
    <3>2. Clean(drv) => LinkAt(drv.at, FALSE, chip'.regs, drv.val, drv.address)
      BY <1>3, <1>10, <2>2 DEF LinkAt
    <3>3. (FALSE <=> op'.phase = "poll") /\ (op'.phase = "fetch" => Step.do = "phy_read")
      BY <3>1
    <3> QED
      BY <1>1, <2>2, <3>1, <3>2, <3>3, AccessGoesOn
  <2> QED
    BY <1>1, <2>1, <2>2, <2>3, AccessFailed
<1>11. CASE op.phase = "start"
  <2> DEFINE c == start.chip
             e == [c EXCEPT !.mii = c.mac + phy, !.regs[Step.reg] = written]
  <2>1. \/ EndOp("internal", {}) /\ chip' = c
        \/ chip' = e /\ op' = [phase |-> "poll", turns |-> TimeOut] /\ UNCHANGED drv
    BY <1>5, <1>7, <1>11
  <2>2. c \in ChipType /\ c.regs = chip.regs
    BY <1>7
  <2>3. /\ drv.at \in {6, 7, 9, 12, 14, 16, 10, 15, 17}
        /\ Step.reg \in RegNames
        /\ Step.do = "phy_write" => Step.bit \in Bits
    BY <1>1, <1>4, StepFields DEF RegNames, Bits
  <2>4. written \in SUBSET Bits
    BY <1>2, <2>3 DEF WithBit, DrvType, ChipType
  <2> HIDE DEF c, written
  <2>5. e \in ChipType /\ e.regs = [chip.regs EXCEPT ![Step.reg] = written]
    <3> DEFINE a == [c EXCEPT !.mii = c.mac + phy]
               regs == [a.regs EXCEPT ![Step.reg] = written]
    <3>1. a \in ChipType /\ a.regs = chip.regs
      BY <1>6, <2>2 DEF ChipType
    <3>2. e = [a EXCEPT !.regs = regs]
      OBVIOUS
    <3> HIDE DEF a
    <3>3. regs \in [RegNames -> SUBSET Bits] /\ regs = [chip.regs EXCEPT ![Step.reg] = written]
      BY <2>3, <2>4, <3>1 DEF ChipType
    <3> HIDE DEF regs
    <3>4. [a EXCEPT !.regs = regs] \in ChipType /\ [a EXCEPT !.regs = regs].regs = regs
      BY <3>1, <3>3 DEF ChipType
    <3> QED
      BY <3>2, <3>3, <3>4
  <2> HIDE DEF e
  <2>6. ASSUME chip' = e, op' = [phase |-> "poll", turns |-> TimeOut], UNCHANGED drv
        PROVE  LinkAll'
    <3>1. op' \in OpType /\ op'.phase = "poll"
      BY <1>6, <2>6 DEF OpType
    <3>2. ASSUME Clean(drv) PROVE LinkAt(drv.at, TRUE, chip'.regs, drv.val, drv.address)
      <4>1. LinkAt(drv.at, FALSE, chip.regs, drv.val, drv.address)
        BY <1>3, <1>11, <3>2
      <4>2. CASE Step.do = "phy_read"
        <5>1. written = chip.regs[Step.reg] /\ chip'.regs = chip.regs
          BY <2>3, <2>5, <2>6, <4>2, <1>2 DEF written, ChipType
        <5> QED
          BY <1>4, <4>1, <4>2, <5>1 DEF LinkAt
      <4>3. CASE Step.do = "phy_write"
        <5>1. drv.at \in {10, 15, 17} /\ drv.val = {}
          BY <1>4, <4>1, <4>3 DEF LinkAt
        <5>2. written = {Step.bit}
          BY <4>3, <5>1 DEF written, WithBit
        <5>3. CASE drv.at = 10
          <6>1. chip'.regs = [chip.regs EXCEPT !["bctrl"] = {"reset"}]
            BY <2>5, <2>6, <5>2, <5>3, StepFields
          <6> QED
            BY <1>2, <4>1, <5>3, <6>1 DEF LinkAt, NumSteps, ChipType, RegNames
        <5>4. CASE drv.at = 15
          <6>1. chip'.regs = [chip.regs EXCEPT !["aneg_adv"] = {"all"}]
            BY <2>5, <2>6, <5>2, <5>4, StepFields
          <6> QED
            BY <1>2, <4>1, <5>4, <6>1 DEF LinkAt, NumSteps, ChipType, RegNames
        <5>5. CASE drv.at = 17
          <6>1. chip'.regs = [chip.regs EXCEPT !["bctrl"] = {"auto_neg"}]
            BY <2>5, <2>6, <5>2, <5>5, StepFields
          <6> QED
            BY <1>2, <4>1, <5>5, <6>1 DEF LinkAt, NumSteps, ChipType, RegNames
        <5> QED
          BY <5>1, <5>3, <5>4, <5>5
      <4> QED
        BY <1>1, <4>2, <4>3
    <3>3. (TRUE <=> op'.phase = "poll") /\ (op'.phase = "fetch" => Step.do = "phy_read")
      BY <3>1
    <3>4. chip' \in ChipType
      BY <2>5, <2>6
    <3> QED
      BY <1>1, <2>6, <3>1, <3>2, <3>3, <3>4, AccessGoesOn
  <2> QED
    BY <1>1, <2>1, <2>2, <2>6, AccessFailed
<1>12. CASE op.phase = "poll"
  <2>1. /\ chip' = poll.chip
        /\ \/ EndOp("internal", {}) \/ EndOp("timeout", {})
           \/ op.turns > 1 /\ op' = [op EXCEPT !.turns = @ - 1] /\ UNCHANGED drv
           \/ Step.do = "phy_write" /\ EndOp("none", {})
           \/ Step.do # "phy_write" /\ Goto("fetch")
    BY <1>5, <1>12
  <2>2. chip' \in ChipType /\ chip'.regs = chip.regs
    BY <1>8, <2>1
  <2>3. Clean(drv) => LinkAt(drv.at, TRUE, chip'.regs, drv.val, drv.address)
    BY <1>3, <1>12, <2>2
  <2>4. ASSUME op.turns > 1, op' = [op EXCEPT !.turns = @ - 1], UNCHANGED drv PROVE LinkAll'
    <3>1. op' \in OpType /\ op'.phase = "poll"
      BY <1>2, <1>12, <2>4 DEF OpType
    <3>2. (TRUE <=> op'.phase = "poll") /\ (op'.phase = "fetch" => Step.do = "phy_read")
      BY <3>1
    <3> QED
      BY <1>1, <2>2, <2>3, <2>4, <3>1, <3>2, AccessGoesOn
  <2>5. ASSUME Step.do = "phy_write", EndOp("none", {}) PROVE LinkAll'
    <3>1. Clean(drv) => LinkAt(drv.at + 1, FALSE, chip'.regs, {}, drv.address)
      BY <1>4, <2>3, <2>5 DEF LinkAt, NumSteps
    <3>2. drv' = Passed(drv, "none", {}) /\ op' \in OpType /\ op'.phase = "none"
      BY <2>5 DEF EndOp, NoOp, OpType
    <3>3. {} \in SUBSET Bits
      OBVIOUS
    <3> QED
      BY <1>2, <2>2, <3>1, <3>2, <3>3, StepOver
  <2>6. ASSUME Step.do = "phy_read", Goto("fetch") PROVE LinkAll'
    <3>1. UNCHANGED drv /\ op' \in OpType /\ op'.phase = "fetch"
      BY <1>2, <2>6 DEF Goto, OpType
    <3>2. Clean(drv) => LinkAt(drv.at, FALSE, chip'.regs, drv.val, drv.address)
      BY <1>4, <2>3, <2>6 DEF LinkAt
    <3>3. FALSE <=> op'.phase = "poll"
      BY <3>1
    <3> QED
      BY <1>1, <2>2, <2>6, <3>1, <3>2, <3>3, AccessGoesOn
  <2> QED
    BY <1>1, <2>1, <2>2, <2>4, <2>5, <2>6, AccessFailed
<1>13. CASE op.phase = "fetch"
  <2>1. chip' = r.chip /\ (EndOp("internal", {}) \/ EndOp("none", chip.regs[Step.reg]))
    BY <1>5, <1>13
  <2>2. chip' \in ChipType /\ chip'.regs = chip.regs
    BY <1>7, <2>1
  <2>3. ASSUME EndOp("none", chip.regs[Step.reg]) PROVE LinkAll'
    <3>1. drv.at \in {6, 7, 9, 12, 14, 16} /\ Step.do = "phy_read"
      BY <1>2, <1>4, <1>13
    <3>2. Step.reg = CASE drv.at = 6 -> "id1" [] drv.at = 7 -> "id2" [] drv.at = 9 -> "bctrl"
                       [] drv.at = 12 -> "bctrl" [] drv.at = 14 -> "aneg_adv"
                       [] drv.at = 16 -> "bctrl"
      BY <3>1, StepFields
    <3> DEFINE val == chip.regs[Step.reg]
    <3>3. val \in SUBSET Bits
      BY <1>2, <3>1, <3>2 DEF ChipType, RegNames
    <3>4. Clean(drv) => LinkAt(drv.at, FALSE, chip'.regs, drv.val, drv.address)
      BY <1>3, <1>13, <2>2 DEF LinkAt
    <3>5. Clean(drv) => LinkAt(drv.at + 1, FALSE, chip'.regs, val, drv.address)
      BY <2>2, <3>1, <3>2, <3>4 DEF LinkAt, NumSteps
    <3>6. drv' = Passed(drv, "none", val) /\ op' \in OpType /\ op'.phase = "none"
      BY <2>3 DEF EndOp, NoOp, OpType
    <3> HIDE DEF val
    <3> QED
      BY <1>2, <2>2, <3>3, <3>5, <3>6, StepOver
  <2> QED
    BY <1>1, <2>1, <2>2, <2>3, AccessFailed
<1> QED
  BY <1>2, <1>9, <1>10, <1>11, <1>12, <1>13 DEF OpType

LEMMA LinkAllInit == Init => LinkAll
<1> SUFFICES ASSUME Init PROVE LinkAll
  OBVIOUS
<1>1. PICK id1 \in {{}, {"id"}}, id2 \in {{}, {"id"}} :
        chip = [mac |-> 0, mii |-> 0, regs |-> Regs(id1, id2)]
  BY DEF Init
<1>2. Regs(id1, id2) \in [RegNames -> SUBSET Bits]
  BY DEF Regs, RegNames, Bits
<1>3. LinkType
  BY <1>1, <1>2 DEF Init, LinkType, DrvType, OpType, ChipType, NoOp, NumSteps
<1>4. OpInv
  BY DEF Init, OpInv, NoOp
<1>5. LinkInv
  BY <1>1 DEF Init, LinkInv, LinkAt, Regs, NoOp, Position, NumSteps
<1> QED
  BY <1>3, <1>4, <1>5 DEF LinkAll

LEMMA LinkAllStep == LinkAll /\ [Next]_vars => LinkAll'
<1> SUFFICES ASSUME LinkAll, [Next]_vars PROVE LinkAll'
  OBVIOUS
<1>1. CASE Initialise
  BY <1>1, SetupStepKeeps, PhyCheckedKeeps, PhyAccessKeeps, MacAccessKeeps, FinishKeeps,
     ReadAddressKeeps DEF Initialise
<1>2. CASE UNCHANGED <<drv, op, chip>>
  <2>1. UNCHANGED Step /\ Clean(drv)' = Clean(drv) /\ Position(drv)' = Position(drv)
    BY <1>2 DEF Step, Clean, Position
  <2>2. LinkType' /\ OpInv'
    BY <1>2, <2>1 DEF LinkAll, LinkType, OpInv
  <2>3. LinkInv'
    BY <1>2, <2>1 DEF LinkAll, LinkInv
  <2> QED
    BY <2>2, <2>3 DEF LinkAll
<1>3. Initialise \/ UNCHANGED <<drv, op, chip>>
  BY DEF Next, vars, FrameArrives, ETHERNET_Handler, smsc9220_Receive_task, IpTask, Output, Send,
         TakeMutex, WriteWord, GiveMutex, ChipSends
<1> QED
  BY <1>1, <1>2, <1>3

(* An initialisation in which nothing failed leaves the link configured,   *)
(* whatever the accesses to the MAC and the PHY take (smsc9220_init).      *)
THEOREM LinkConfiguredCorrect == Spec => []LinkConfigured
<1>1. Init => LinkAll
  BY LinkAllInit
<1>2. LinkAll /\ [Next]_vars => LinkAll'
  BY LinkAllStep
<1>3. LinkAll => LinkConfigured
  BY DEF LinkAll, LinkInv, LinkAt, LinkConfigured, Clean, Position, NumSteps
<1> QED
  BY <1>1, <1>2, <1>3, PTL DEF Spec

-----------------------------------------------------------------------------
(* Receiving *)

LEMMA ReceivedType ==
    ASSUME NEW k \in 1 .. Len(RxSizes)
    PROVE  /\ k \in Nat /\ RxSizes[k] \in Nat /\ Received(k) \in Seq(Nat)
           /\ Len(Received(k)) = RxSizes[k] /\ FrameWords[k] = Words(Received(k))
           /\ FrameWords[k] \in Seq(RxWord) /\ Len(FrameWords[k]) = NumRead(RxSizes[k])
<1>1. RxSizes[k] \in Nat /\ k \in Nat
  BY EthernetAssumption
<1>2. Received(k) \in Seq(Nat) /\ Len(Received(k)) = RxSizes[k]
  BY <1>1, FrameType DEF Received
<1>3. FrameWords[k] = Words(Received(k))
  BY DEF FrameWords
<1>4. FrameWords[k] \in Seq(RxWord) /\ Len(FrameWords[k]) = NumRead(RxSizes[k])
  BY <1>2, <1>3, WordsType
<1> QED
  BY <1>1, <1>2, <1>3, <1>4

LEMMA SendingKept ==
    ASSUME MutexInv(tx, snd), TxInv(tx, snd), UNCHANGED <<tx, snd>>
    PROVE  MutexInv(tx, snd)' /\ TxInv(tx, snd)'
OBVIOUS

(* The parts that make up the invariant, for an action of the receive side. *)
LEMMA ReceiveSide ==
    ASSUME TrafficInv, UNCHANGED <<drv, tx, snd>>, task.at # "new" \/ UNCHANGED task,
           rx' \in RxType, task' \in TaskType, ip' \in IpType,
           RxInv(rx', task'),
           ip'.free + Len(ip'.queue) + Held(task') = ip.free + Len(ip.queue) + Held(task)
    PROVE  TrafficInv'
<1>1. TrafficType'
  BY DEF TrafficInv, TrafficType
<1>2. MutexInv(tx, snd)' /\ TxInv(tx, snd)'
  BY SendingKept DEF TrafficInv
<1>3. TaskInv'
  BY DEF TrafficInv, TaskInv
<1>4. BufferInv(ip, snd, task)'
  <2>1. Cardinality(Busy(snd)) \in Nat
    <3>1. IsFiniteSet(Busy(snd))
      BY EthernetAssumption, FS_Subset DEF Busy
    <3> QED
      BY <3>1, FS_CardinalityType
  <2>2. /\ ip.free \in Nat /\ Len(ip.queue) \in Nat /\ Held(task) \in Nat
        /\ ip'.free \in Nat /\ Len(ip'.queue) \in Nat /\ Held(task') \in Nat
    BY DEF TrafficInv, TrafficType, IpType, Held
  <2>3. ip.free + Len(ip.queue) + Cardinality(Busy(snd)) + Held(task) = Buffers
    BY DEF TrafficInv, BufferInv
  <2>4. PICK a \in Nat, b \in Nat, h \in Nat, c \in Nat :
          a = ip'.free /\ b = Len(ip'.queue) /\ h = Held(task') /\ c = Cardinality(Busy(snd))
    BY <2>1, <2>2
  <2>5. PICK d \in Nat, e \in Nat, g \in Nat :
          d = ip.free /\ e = Len(ip.queue) /\ g = Held(task)
    BY <2>2
  <2>6. a + b + h = d + e + g /\ d + e + c + g = Buffers
    BY <2>3, <2>4, <2>5
  <2>7. a + b + c + h = Buffers
    BY <2>6
  <2>8. ip'.free + Len(ip'.queue) + Cardinality(Busy(snd')) + Held(task') = Buffers
    BY <2>4, <2>7
  <2> QED
    BY <2>8 DEF BufferInv
<1> QED
  BY <1>1, <1>2, <1>3, <1>4 DEF TrafficInv

LEMMA FrameArrivesKeeps == ASSUME TrafficInv, FrameArrives PROVE TrafficInv'
<1> DEFINE k == rx.arrived + 1
           x == Words(Frame(k, RxSizes[k]))
<1>1. /\ rx \in RxType /\ task \in TaskType /\ ip \in IpType /\ RxInv(rx, task)
  BY DEF TrafficInv, TrafficType
<1>2. /\ rx.arrived \in Nat /\ rx.read \in Nat /\ rx.status \in Seq(Nat)
      /\ rx.data \in Seq(RxWord) /\ rx.read <= rx.arrived
      /\ Len(RxSizes) \in Nat /\ rx.arrived < Len(RxSizes)
  BY <1>1, EthernetAssumption DEF FrameArrives, RxType, RxInv
<1>3. k \in 1 .. Len(RxSizes)
  BY <1>2
<1>4. x = FrameWords[k] /\ x \in Seq(RxWord) /\ RxSizes[k] \in Nat
  BY <1>3, ReceivedType DEF Received
<1>5. /\ UNCHANGED <<drv, op, chip, task, ip, tx, snd>>
      /\ rx' = [rx EXCEPT !.arrived = k, !.status = Append(@, RxSizes[k]), !.data = @ \o x]
  BY DEF FrameArrives
<1> HIDE DEF x
<1>6. rx.data \o x \in Seq(RxWord) /\ Append(rx.status, RxSizes[k]) \in Seq(Nat)
  BY <1>2, <1>4, ConcatProperties
<1>7. /\ rx' \in RxType /\ rx'.arrived = k /\ rx'.status = Append(rx.status, RxSizes[k])
      /\ rx'.data = rx.data \o x /\ rx'.read = rx.read
  <2>1. k \in 0 .. Len(RxSizes)
    BY <1>3
  <2> HIDE DEF k
  <2> QED
    BY <1>1, <1>5, <1>6, <2>1 DEF RxType
<1>8. Packed(rx'.data, FrameWords, rx'.read, rx'.arrived)
  <2>1. \A i \in rx.read + 1 .. rx.arrived : FrameWords[i] = FrameWords[i] /\ FrameWords[i] \in Seq(RxWord)
    <3> TAKE i \in rx.read + 1 .. rx.arrived
    <3>1. i \in 1 .. Len(RxSizes)
      BY <1>2
    <3> QED
      BY <3>1, ReceivedType
  <2>2. Packed(rx.data, FrameWords, rx.read, rx.arrived)
    BY <1>1 DEF RxInv
  <2>3. Packed(rx.data \o x, FrameWords, rx.read, rx.arrived + 1)
    BY <1>2, <1>4, <2>1, <2>2, PackedMore
  <2> QED
    BY <1>7, <2>3
<1>9. RxInv(rx', task')
  <2> DEFINE s == rx.status
  <2>1. PICK n \in Nat : n = Len(s)
    BY <1>2
  <2>2. /\ Len(rx'.status) = n + 1 /\ rx'.status[n + 1] = RxSizes[k]
        /\ \A j \in 1 .. n : rx'.status[j] = s[j]
    BY <1>2, <1>4, <1>7, <2>1
  <2>3. n = rx.arrived - rx.read /\ \A j \in 1 .. n : s[j] = RxSizes[rx.read + j]
    BY <1>1, <2>1 DEF RxInv
  <2>4. rx'.read <= rx'.arrived /\ Len(rx'.status) = rx'.arrived - rx'.read /\ rx.read + (n + 1) = k
    BY <1>2, <1>7, <2>2, <2>3
  <2>5. ASSUME NEW j \in 1 .. n + 1 PROVE rx'.status[j] = RxSizes[rx'.read + j]
    <3>1. CASE j = n + 1
      BY <1>7, <2>2, <2>4, <3>1
    <3>2. CASE j \in 1 .. n
      BY <1>7, <2>2, <2>3, <3>2
    <3> QED
      BY <3>1, <3>2
  <2>6. task.at \in {"alloc", "read"} =>
          rx'.status # << >> /\ task.length = Head(rx'.status)
    <3> SUFFICES ASSUME task.at \in {"alloc", "read"}
                 PROVE  rx'.status # << >> /\ task.length = Head(rx'.status)
      OBVIOUS
    <3>1. s # << >> /\ task.length = Head(s)
      BY <1>1 DEF RxInv
    <3>2. Head(s) = s[1] /\ n > 0
      BY <1>2, <2>1, <3>1
    <3>5. n + 1 # 0
      OBVIOUS
    <3>3. rx'.status \in Seq(Nat) /\ Len(rx'.status) # 0
      BY <1>6, <1>7, <2>2, <3>5
    <3>4. rx'.status # << >> /\ Head(rx'.status) = rx'.status[1]
      BY <3>3
    <3> QED
      BY <2>2, <3>1, <3>2, <3>4
  <2>7. task.at = "consider" => rx'.read # 0 /\ task.frame = Received(rx'.read)
    BY <1>1, <1>7 DEF RxInv
  <2> QED
    BY <1>5, <1>8, <2>2, <2>4, <2>5, <2>6, <2>7 DEF RxInv
<1> QED
  BY <1>1, <1>5, <1>7, <1>9, ReceiveSide

(* The FIFO of the controller stays as it is. *)
LEMMA FifoKept ==
    ASSUME RxInv(rx, task), rx'.read = rx.read, rx'.arrived = rx.arrived,
           rx'.status = rx.status, rx'.data = rx.data,
           task'.at \in {"alloc", "read"} => rx.status # << >> /\ task'.length = Head(rx.status),
           task'.at = "consider" => rx.read # 0 /\ task'.frame = Received(rx.read)
    PROVE  RxInv(rx', task')
BY DEF RxInv

LEMMA HandlerKeeps == ASSUME TrafficInv, ETHERNET_Handler PROVE TrafficInv'
<1>1. /\ rx \in RxType /\ task \in TaskType /\ ip \in IpType /\ RxInv(rx, task)
  BY DEF TrafficInv, TrafficType
<1>2. /\ UNCHANGED <<drv, op, chip, task, ip, tx, snd>>
      /\ rx' = [rx EXCEPT !.irq_enable = FALSE, !.notified = @ + 1]
  BY DEF ETHERNET_Handler
<1>3. /\ rx' \in RxType /\ rx'.read = rx.read /\ rx'.arrived = rx.arrived
      /\ rx'.status = rx.status /\ rx'.data = rx.data
  <2> DEFINE m == rx.notified + 1
  <2>1. m \in Nat /\ rx' = [rx EXCEPT !.irq_enable = FALSE, !.notified = m]
    BY <1>1, <1>2 DEF RxType
  <2> HIDE DEF m
  <2> QED
    BY <1>1, <2>1 DEF RxType
<1>4. /\ task.at \in {"alloc", "read"} => rx.status # << >> /\ task.length = Head(rx.status)
      /\ task.at = "consider" => rx.read # 0 /\ task.frame = Received(rx.read)
  BY <1>1 DEF RxInv
<1>5. RxInv(rx', task')
  BY <1>1, <1>2, <1>3, <1>4, FifoKept
<1> QED
  BY <1>1, <1>2, <1>3, <1>5, ReceiveSide

LEMMA EnableInterruptKeeps ==
    ASSUME TrafficInv, EnableInterrupt, UNCHANGED <<drv, ip, tx, snd>> PROVE TrafficInv'
<1>1. /\ rx \in RxType /\ task \in TaskType /\ ip \in IpType /\ RxInv(rx, task)
  BY DEF TrafficInv, TrafficType
<1>2. /\ task.at = "enable" /\ rx' = [rx EXCEPT !.irq_enable = TRUE]
      /\ task' = [task EXCEPT !.at = "wait"]
  BY DEF EnableInterrupt
<1>3. /\ rx' \in RxType /\ rx'.read = rx.read /\ rx'.arrived = rx.arrived
      /\ rx'.status = rx.status /\ rx'.data = rx.data
  BY <1>1, <1>2 DEF RxType
<1>4. task' \in TaskType /\ task'.at = "wait" /\ Held(task') = Held(task)
  BY <1>1, <1>2 DEF TaskType, Held
<1>5. RxInv(rx', task')
  BY <1>1, <1>3, <1>4, FifoKept
<1> QED
  BY <1>1, <1>2, <1>3, <1>4, <1>5, ReceiveSide

LEMMA PeekKeeps == ASSUME TrafficInv, Peek, UNCHANGED <<drv, ip, tx, snd>> PROVE TrafficInv'
<1>1. /\ rx \in RxType /\ task \in TaskType /\ ip \in IpType /\ RxInv(rx, task)
  BY DEF TrafficInv, TrafficType
<1>2. /\ task.at = "wait" /\ rx.notified > 0 /\ rx' = [rx EXCEPT !.notified = @ - 1]
      /\ task' = IF rx.status = << >> THEN [task EXCEPT !.at = "enable"]
                 ELSE [task EXCEPT !.at = "alloc", !.length = Head(rx.status)]
  BY DEF Peek
<1>3. /\ rx' \in RxType /\ rx'.read = rx.read /\ rx'.arrived = rx.arrived
      /\ rx'.status = rx.status /\ rx'.data = rx.data
  BY <1>1, <1>2 DEF RxType
<1>4. /\ task' \in TaskType /\ Held(task') = Held(task)
      /\ \/ task'.at = "enable"
         \/ task'.at = "alloc" /\ rx.status # << >> /\ task'.length = Head(rx.status)
  <2>1. CASE rx.status = << >>
    BY <1>1, <1>2, <2>1 DEF TaskType, Held
  <2>2. CASE rx.status # << >>
    <3>1. Head(rx.status) \in Nat
      BY <1>1, <2>2 DEF RxType
    <3> QED
      BY <1>1, <1>2, <2>2, <3>1 DEF TaskType, Held
  <2> QED
    BY <2>1, <2>2
<1>5. RxInv(rx', task')
  BY <1>1, <1>3, <1>4, FifoKept
<1> QED
  BY <1>1, <1>2, <1>3, <1>4, <1>5, ReceiveSide

LEMMA AllocateKeeps == ASSUME TrafficInv, Allocate, UNCHANGED <<drv, rx, tx, snd>> PROVE TrafficInv'
<1>1. /\ rx \in RxType /\ task \in TaskType /\ ip \in IpType /\ RxInv(rx, task)
  BY DEF TrafficInv, TrafficType
<1>2. /\ task.at = "alloc"
      /\ task' = [task EXCEPT !.at = IF ip.free > 0 THEN "read" ELSE "enable"]
      /\ ip' = [ip EXCEPT !.free = IF @ > 0 THEN @ - 1 ELSE @]
  BY DEF Allocate
<1>3. rx.status # << >> /\ task.length = Head(rx.status)
  BY <1>1, <1>2 DEF RxInv
<1>4. /\ task' \in TaskType /\ task'.length = task.length /\ Held(task) = 0
      /\ task'.at = IF ip.free > 0 THEN "read" ELSE "enable"
  BY <1>1, <1>2 DEF TaskType, Held
<1>5. /\ ip' \in IpType /\ ip'.queue = ip.queue
      /\ ip'.free = IF ip.free > 0 THEN ip.free - 1 ELSE ip.free
  BY <1>1, <1>2 DEF IpType
<1>6. ip'.free + Len(ip'.queue) + Held(task') = ip.free + Len(ip.queue) + Held(task)
  <2>1. PICK f \in Nat, q \in Nat : f = ip.free /\ q = Len(ip.queue)
    BY <1>1 DEF IpType
  <2>2. CASE f > 0
    <3>1. ip'.free = f - 1 /\ Len(ip'.queue) = q /\ Held(task') = 1
      BY <1>4, <1>5, <2>1, <2>2 DEF Held
    <3> QED
      BY <1>4, <2>1, <3>1
  <2>3. CASE ~(f > 0)
    <3>1. ip'.free = f /\ Len(ip'.queue) = q /\ Held(task') = 0
      BY <1>4, <1>5, <2>1, <2>3 DEF Held
    <3> QED
      BY <1>4, <2>1, <3>1
  <2> QED
    BY <2>2, <2>3
<1>7. RxInv(rx', task')
  BY <1>1, <1>3, <1>4, FifoKept
<1>8. rx' \in RxType /\ UNCHANGED <<drv, tx, snd>> /\ task.at # "new"
  BY <1>1, <1>2
<1> QED
  BY <1>4, <1>5, <1>6, <1>7, <1>8, ReceiveSide

LEMMA HandKeeps == ASSUME TrafficInv, Hand, UNCHANGED <<drv, rx, tx, snd>> PROVE TrafficInv'
<1>1. /\ rx \in RxType /\ task \in TaskType /\ ip \in IpType /\ RxInv(rx, task)
  BY DEF TrafficInv, TrafficType
<1>2. /\ task.at = "consider" /\ task' = [task EXCEPT !.at = "enable", !.frame = << >>]
      /\ \/ ip' = [ip EXCEPT !.free = @ + 1]
         \/ ip' = [ip EXCEPT !.queue = Append(@, task.frame)]
  BY DEF Hand, Drop
<1>3. task' \in TaskType /\ task'.at = "enable" /\ Held(task) = 1 /\ Held(task') = 0
  <2> DEFINE e == << >>
  <2>1. e \in Seq(Nat) /\ task' = [task EXCEPT !.at = "enable", !.frame = e]
    BY <1>2
  <2> HIDE DEF e
  <2>2. task' \in TaskType /\ task'.at = "enable"
    BY <1>1, <2>1 DEF TaskType
  <2> QED
    BY <1>2, <2>2 DEF Held
<1>4. PICK f \in Nat, q \in Nat : f = ip.free /\ q = Len(ip.queue)
  BY <1>1 DEF IpType
<1>5. /\ ip' \in IpType
      /\ \/ ip'.free = f + 1 /\ Len(ip'.queue) = q
         \/ ip'.free = f /\ Len(ip'.queue) = q + 1
  <2>1. CASE ip' = [ip EXCEPT !.free = @ + 1]
    BY <1>1, <1>4, <2>1 DEF IpType
  <2>2. CASE ip' = [ip EXCEPT !.queue = Append(@, task.frame)]
    <3>1. task.frame \in Seq(Nat) /\ ip.queue \in Seq(Seq(Nat))
      BY <1>1 DEF TaskType, IpType
    <3>2. /\ Append(ip.queue, task.frame) \in Seq(Seq(Nat))
          /\ Len(Append(ip.queue, task.frame)) = Len(ip.queue) + 1
      BY <3>1, AppendProperties
    <3>3. ip' \in IpType /\ ip'.free = ip.free /\ ip'.queue = Append(ip.queue, task.frame)
      BY <1>1, <2>2, <3>2 DEF IpType
    <3> QED
      BY <1>4, <3>2, <3>3
  <2> QED
    BY <1>2, <2>1, <2>2
<1>6. ip'.free + Len(ip'.queue) + Held(task') = ip.free + Len(ip.queue) + Held(task)
  BY <1>3, <1>4, <1>5
<1>7. RxInv(rx', task')
  BY <1>1, <1>3, FifoKept
<1>8. rx' \in RxType /\ UNCHANGED <<drv, tx, snd>> /\ task.at # "new"
  BY <1>1, <1>2
<1> QED
  BY <1>3, <1>5, <1>6, <1>7, <1>8, ReceiveSide

LEMMA IpTaskKeeps == ASSUME TrafficInv, IpTask PROVE TrafficInv'
<1>1. /\ rx \in RxType /\ task \in TaskType /\ ip \in IpType /\ RxInv(rx, task)
  BY DEF TrafficInv, TrafficType
<1>2. /\ ip.queue # << >> /\ ip' = [ip EXCEPT !.queue = Tail(@), !.free = @ + 1]
      /\ UNCHANGED <<drv, op, chip, rx, task, tx, snd>>
  BY DEF IpTask
<1>3. ip.queue \in Seq(Seq(Nat)) /\ ip.free \in Nat
  BY <1>1 DEF IpType
<1>4. Tail(ip.queue) \in Seq(Seq(Nat)) /\ Len(Tail(ip.queue)) = Len(ip.queue) - 1
  BY <1>2, <1>3, HeadTailProperties
<1>5. ip' \in IpType /\ ip'.queue = Tail(ip.queue) /\ ip'.free = ip.free + 1
  <2> DEFINE a == Tail(ip.queue)
             b == ip.free + 1
  <2>1. a \in Seq(Seq(Nat)) /\ b \in Nat /\ ip' = [ip EXCEPT !.queue = a, !.free = b]
    BY <1>2, <1>3, <1>4
  <2> HIDE DEF a, b
  <2>2. ip' \in IpType /\ ip'.queue = a /\ ip'.free = b
    BY <1>1, <2>1 DEF IpType
  <2> QED
    BY <2>2 DEF a, b
<1>6. PICK f \in Nat, q \in Nat, h \in Nat : f = ip.free /\ q = Len(ip.queue) /\ h = Held(task)
  BY <1>3 DEF Held
<1>7. ip'.free = f + 1 /\ Len(ip'.queue) = q - 1 /\ Held(task') = h
  BY <1>2, <1>4, <1>5, <1>6
<1>8. (f + 1) + (q - 1) + h = f + q + h
  OBVIOUS
<1>9. ip'.free + Len(ip'.queue) + Held(task') = ip.free + Len(ip.queue) + Held(task)
  BY <1>6, <1>7, <1>8
<1>10. RxInv(rx', task')
  BY <1>1, <1>2
<1>11. rx' \in RxType /\ task' \in TaskType /\ UNCHANGED <<drv, tx, snd>> /\ UNCHANGED task
  BY <1>1, <1>2
<1> QED
  BY <1>5, <1>9, <1>10, <1>11, ReceiveSide

(* The frame that was peeked at is taken out of the FIFO. *)
LEMMA ReadFrameKeeps ==
    ASSUME TrafficInv, ReadFrame, UNCHANGED <<drv, ip, tx, snd>> PROVE TrafficInv'
<1> DEFINE k == rx.read + 1
           s == rx.status
           n == NumRead(task.length)
           left == SubSeq(rx.data, n + 1, Len(rx.data))
<1>1. /\ rx \in RxType /\ task \in TaskType /\ ip \in IpType /\ RxInv(rx, task)
      /\ task.at = "read"
  BY DEF TrafficInv, TrafficType, ReadFrame
<1>2. s # << >> /\ task.length = Head(s)
  BY <1>1 DEF RxInv
<1>3. /\ task' = [task EXCEPT !.at = "consider", !.frame = Bytes(rx.data, task.length)]
      /\ rx' = [rx EXCEPT !.data = left, !.status = Tail(s), !.read = k]
  BY <1>2 DEF ReadFrame, EmptyRxFifo
<1>4. /\ rx.read \in Nat /\ rx.arrived \in Nat /\ rx.arrived <= Len(RxSizes)
      /\ s \in Seq(Nat) /\ rx.data \in Seq(RxWord) /\ Len(RxSizes) \in Nat
  BY <1>1, EthernetAssumption DEF RxType
<1> HIDE DEF s
<1>5. PICK m \in Nat : m = Len(s) /\ m > 0
  BY <1>2, <1>4
<1>6. /\ Head(s) = s[1] /\ Tail(s) \in Seq(Nat) /\ Len(Tail(s)) = m - 1
      /\ \A j \in 1 .. m - 1 : Tail(s)[j] = s[j + 1]
  BY <1>2, <1>4, <1>5, HeadTailProperties
<1>7. m = rx.arrived - rx.read /\ \A j \in 1 .. m : s[j] = RxSizes[rx.read + j]
  BY <1>1, <1>5 DEF RxInv, s
<1>8. k \in 1 .. Len(RxSizes) /\ rx.read < rx.arrived /\ k \in Nat /\ k # 0
  BY <1>4, <1>5, <1>7
<1>9. task.length = RxSizes[k]
  <2>1. 1 \in 1 .. m
    BY <1>5
  <2> QED
    BY <1>2, <1>6, <1>7, <2>1
<1> HIDE DEF n, k
<1>10. /\ Received(k) \in Seq(Nat) /\ Len(Received(k)) = task.length
       /\ FrameWords[k] = Words(Received(k)) /\ Len(FrameWords[k]) = n
       /\ task.length \in Nat
  BY <1>8, <1>9, ReceivedType DEF n
<1>11. n \in Nat
  BY <1>10, Quotient DEF n, NumRead
<1>12. /\ n <= Len(rx.data) /\ \A w \in 1 .. n : rx.data[w] = FrameWords[k][w]
       /\ Packed(left, FrameWords, k, rx.arrived)
  <2>1. \A i \in rx.read + 1 .. rx.arrived : FrameWords[i] \in Seq(RxWord)
    <3> TAKE i \in rx.read + 1 .. rx.arrived
    <3>1. i \in 1 .. Len(RxSizes)
      BY <1>4
    <3> QED
      BY <3>1, ReceivedType
  <2>2. Packed(rx.data, FrameWords, rx.read, rx.arrived)
    BY <1>1 DEF RxInv
  <2>3. Len(FrameWords[rx.read + 1]) = n
    BY <1>10 DEF k
  <2>4. PICK a \in Nat, b \in Nat, d \in Seq(RxWord) :
          a = rx.read /\ b = rx.arrived /\ d = rx.data
    BY <1>4
  <2>5. /\ a < b /\ Packed(d, FrameWords, a, b) /\ Len(FrameWords[a + 1]) = n
        /\ \A i \in a + 1 .. b : FrameWords[i] \in Seq(RxWord)
    BY <1>8, <2>1, <2>2, <2>3, <2>4
  <2>6. /\ n <= Len(d) /\ \A w \in 1 .. n : d[w] = FrameWords[a + 1][w]
        /\ Packed(SubSeq(d, n + 1, Len(d)), FrameWords, a + 1, b)
    BY <1>11, <2>5, PackedFirst
  <2> QED
    BY <2>4, <2>6 DEF k
<1>13. left \in Seq(RxWord)
  BY <1>4, <1>11, <1>12, FromProperties
<1>14. Bytes(rx.data, task.length) = Received(k)
  <2>1. \A w \in 1 .. NumRead(Len(Received(k))) : rx.data[w] = Words(Received(k))[w]
    BY <1>10, <1>12 DEF n
  <2> QED
    BY <1>10, <2>1, BytesOfWords
<1> HIDE DEF left
<1>15. task' \in TaskType /\ task'.at = "consider" /\ task'.frame = Received(k)
  <2> DEFINE f == Bytes(rx.data, task.length)
  <2>1. f \in Seq(Nat) /\ f = Received(k) /\ task' = [task EXCEPT !.at = "consider", !.frame = f]
    BY <1>3, <1>10, <1>14
  <2> HIDE DEF f
  <2>2. task' \in TaskType /\ task'.at = "consider" /\ task'.frame = f
    BY <1>1, <2>1 DEF TaskType
  <2> QED
    BY <2>1, <2>2
<1>16. /\ rx' \in RxType /\ rx'.data = left /\ rx'.status = Tail(s) /\ rx'.read = k
       /\ rx'.arrived = rx.arrived
  <2> DEFINE a == Tail(s)
  <2>1. a \in Seq(Nat)
    BY <1>6
  <2>2. rx' = [rx EXCEPT !.data = left, !.status = a, !.read = k]
    BY <1>3
  <2> HIDE DEF a
  <2>3. rx' \in RxType /\ rx'.data = left /\ rx'.status = a /\ rx'.read = k /\ rx'.arrived = rx.arrived
    BY <1>1, <1>8, <1>13, <2>1, <2>2 DEF RxType
  <2> QED
    BY <2>3 DEF a
<1>17. RxInv(rx', task')
  <2>1. k <= rx.arrived /\ m - 1 = rx.arrived - k
    BY <1>4, <1>7, <1>8 DEF k
  <2>2. ASSUME NEW j \in 1 .. m - 1 PROVE Tail(s)[j] = RxSizes[k + j]
    <3>1. j + 1 \in 1 .. m
      BY <1>5
    <3>2. PICK a \in Nat : a = rx.read
      BY <1>4
    <3>3. a + (j + 1) = (a + 1) + j
      OBVIOUS
    <3>4. rx.read + (j + 1) = k + j
      BY <3>2, <3>3 DEF k
    <3> QED
      BY <1>6, <1>7, <3>1, <3>4
  <2>3. task'.at \notin {"alloc", "read"}
    BY <1>15
  <2> QED
    BY <1>6, <1>8, <1>12, <1>15, <1>16, <2>1, <2>2, <2>3 DEF RxInv
<1>18. Held(task') = 1 /\ Held(task) = 1 /\ task.at # "new"
  BY <1>1, <1>15 DEF Held
<1>19. ip' \in IpType /\ UNCHANGED <<drv, tx, snd>>
  BY <1>1
<1>20. ip'.free + Len(ip'.queue) + Held(task') = ip.free + Len(ip.queue) + Held(task)
  BY <1>18
<1> QED
  BY <1>15, <1>16, <1>17, <1>18, <1>19, <1>20, ReceiveSide

-----------------------------------------------------------------------------
(* Sending *)

LEMMA BusyType == Cardinality(Busy(snd)) \in Nat /\ IsFiniteSet(Busy(snd))
<1>1. IsFiniteSet(Busy(snd))
  BY EthernetAssumption, FS_Subset DEF Busy
<1> QED
  BY <1>1, FS_CardinalityType

(* The parts that make up the invariant, for an action of the send side. *)
LEMMA SendSide ==
    ASSUME TrafficInv, UNCHANGED <<drv, rx, task>>,
           ip' \in IpType, tx' \in TxType, snd' \in [Sender -> SndType],
           MutexInv(tx', snd'), TxInv(tx', snd'), ip'.queue = ip.queue,
           ip'.free + Cardinality(Busy(snd')) = ip.free + Cardinality(Busy(snd))
    PROVE  TrafficInv'
<1>1. TrafficType'
  BY DEF TrafficInv, TrafficType
<1>2. RxInv(rx, task)'
  BY DEF TrafficInv
<1>3. TaskInv'
  BY DEF TrafficInv, TaskInv
<1>4. BufferInv(ip, snd, task)'
  <2>1. /\ ip.free \in Nat /\ Len(ip.queue) \in Nat /\ Held(task) \in Nat /\ ip'.free \in Nat
        /\ Cardinality(Busy(snd)) \in Nat
    BY BusyType DEF TrafficInv, TrafficType, IpType, Held
  <2>2. Cardinality(Busy(snd')) \in Nat
    <3>1. IsFiniteSet(Busy(snd'))
      BY EthernetAssumption, FS_Subset DEF Busy
    <3> QED
      BY <3>1, FS_CardinalityType
  <2>3. ip.free + Len(ip.queue) + Cardinality(Busy(snd)) + Held(task) = Buffers
    BY DEF TrafficInv, BufferInv
  <2>4. PICK a \in Nat, b \in Nat, h \in Nat, c \in Nat, d \in Nat, e \in Nat :
          /\ a = ip'.free /\ b = Len(ip.queue) /\ h = Held(task)
          /\ c = Cardinality(Busy(snd')) /\ d = ip.free /\ e = Cardinality(Busy(snd))
    BY <2>1, <2>2
  <2>5. a + c = d + e /\ d + b + e + h = Buffers
    BY <2>3, <2>4
  <2>6. a + b + c + h = Buffers
    BY <2>5
  <2>7. ip'.free + Len(ip'.queue) + Cardinality(Busy(snd')) + Held(task') = Buffers
    BY <2>4, <2>6
  <2> QED
    BY <2>7 DEF BufferInv
<1> QED
  BY <1>1, <1>2, <1>3, <1>4 DEF TrafficInv

(* Nobody starts or stops writing, and the FIFO stays as it is. *)
LEMMA TxSame ==
    ASSUME TxInv(tx, snd), tx'.fifo = tx.fifo, tx'.accepted = tx.accepted, tx'.wire = tx.wire,
           tx'.tight = tx.tight, tx'.overrun = tx.overrun,
           \A t \in Sender : /\ snd'[t].at = "write" <=> snd[t].at = "write"
                             /\ snd'[t].words = snd[t].words
    PROVE  TxInv(tx', snd')
<1>1. PacketWords(tx') = PacketWords(tx)
  BY DEF PacketWords
<1>2. /\ Len(tx.wire) <= Len(tx.accepted)
      /\ \A k \in 1 .. Len(tx.wire) : tx.wire[k] = tx.accepted[k]
      /\ ~tx.overrun =>
           /\ \A s \in Sender : snd[s].at = "write" =>
                Packed(tx.fifo \o snd[s].words, PacketWords(tx), Len(tx.wire), Len(tx.accepted))
           /\ (\A s \in Sender : snd[s].at # "write") =>
                Packed(tx.fifo, PacketWords(tx), Len(tx.wire), Len(tx.accepted))
      /\ ~tx.tight =>
           /\ ~tx.overrun
           /\ \A s \in Sender :
                snd[s].at = "write" => 4 * Len(tx.fifo) + 4 * Len(snd[s].words) <= TxSpace
  BY DEF TxInv
<1>3. ~tx.overrun =>
           /\ \A s \in Sender : snd'[s].at = "write" =>
                Packed(tx.fifo \o snd'[s].words, PacketWords(tx), Len(tx.wire), Len(tx.accepted))
           /\ (\A s \in Sender : snd'[s].at # "write") =>
                Packed(tx.fifo, PacketWords(tx), Len(tx.wire), Len(tx.accepted))
  BY <1>2, Zenon
<1>4. ~tx.tight =>
           /\ ~tx.overrun
           /\ \A s \in Sender :
                snd'[s].at = "write" => 4 * Len(tx.fifo) + 4 * Len(snd'[s].words) <= TxSpace
  BY <1>2, Zenon
<1> QED
  BY <1>1, <1>2, <1>3, <1>4 DEF TxInv

LEMMA OutputKeeps == ASSUME TrafficInv, NEW s \in Sender, Output(s) PROVE TrafficInv'
<1>1. /\ ip \in IpType /\ tx \in TxType /\ snd \in [Sender -> SndType]
      /\ MutexInv(tx, snd) /\ TxInv(tx, snd)
  BY DEF TrafficInv, TrafficType
<1>2. /\ snd[s].at = "idle" /\ ip.free > 0 /\ snd[s].sent < Len(TxSizes)
      /\ ip' = [ip EXCEPT !.free = @ - 1]
      /\ snd' = [snd EXCEPT ![s].at = "take", ![s].sent = @ + 1]
      /\ UNCHANGED <<drv, op, chip, rx, task, tx>>
  BY DEF Output
<1>3. ip' \in IpType /\ ip'.queue = ip.queue /\ ip'.free = ip.free - 1 /\ ip.free \in Nat
  BY <1>1, <1>2 DEF IpType
<1> DEFINE n == snd[s].sent + 1
           e == [snd[s] EXCEPT !.at = "take", !.sent = n]
<1>4. /\ snd' = [snd EXCEPT ![s] = e]
  BY <1>1, <1>2
<1>5. n \in 0 .. Len(TxSizes) /\ n # 0
  <2>1. PICK m \in Nat, l \in Nat : m = snd[s].sent /\ l = Len(TxSizes) /\ m < l
    <3>1. snd[s] \in SndType /\ Len(TxSizes) \in Nat
      BY <1>1, EthernetAssumption
    <3>2. snd[s].sent \in 0 .. Len(TxSizes)
      BY <3>1 DEF SndType
    <3>3. snd[s].sent \in Nat
      BY <3>1, <3>2
    <3> QED
      BY <1>2, <3>1, <3>3
  <2>2. m + 1 \in 0 .. l /\ m + 1 # 0
    BY <2>1
  <2> QED
    BY <2>1, <2>2
<1> HIDE DEF n
<1>6. e \in SndType /\ e.at = "take" /\ e.sent = n /\ e.words = snd[s].words
  BY <1>1, <1>5 DEF SndType
<1> HIDE DEF e
<1>7. snd' \in [Sender -> SndType] /\ snd'[s] = e /\ \A t \in Sender \ {s} : snd'[t] = snd[t]
  BY <1>1, <1>4, <1>6
<1>8. MutexInv(tx', snd')
  BY <1>1, <1>2, <1>5, <1>6, <1>7 DEF MutexInv
<1>9. TxInv(tx', snd')
  <2>1. \A t \in Sender : /\ snd'[t].at = "write" <=> snd[t].at = "write"
                          /\ snd'[t].words = snd[t].words
    BY <1>2, <1>6, <1>7
  <2> QED
    BY <1>1, <1>2, <2>1, TxSame
<1>10. Cardinality(Busy(snd')) = Cardinality(Busy(snd)) + 1
  <2>1. Busy(snd') = Busy(snd) \cup {s} /\ s \notin Busy(snd)
    BY <1>2, <1>6, <1>7 DEF Busy
  <2> QED
    BY <2>1, BusyType, FS_AddElement
<1>11. ip'.free + Cardinality(Busy(snd')) = ip.free + Cardinality(Busy(snd))
  <2>1. PICK a \in Nat, b \in Nat : a = ip.free /\ b = Cardinality(Busy(snd))
    BY <1>3, BusyType
  <2>2. (a - 1) + (b + 1) = a + b
    OBVIOUS
  <2> QED
    BY <1>3, <1>10, <2>1, <2>2
<1> QED
  BY <1>1, <1>2, <1>3, <1>7, <1>8, <1>9, <1>11, SendSide

LEMMA GiveMutexKeeps == ASSUME TrafficInv, NEW s \in Sender, GiveMutex(s) PROVE TrafficInv'
<1>1. /\ ip \in IpType /\ tx \in TxType /\ snd \in [Sender -> SndType]
      /\ MutexInv(tx, snd) /\ TxInv(tx, snd)
  BY DEF TrafficInv, TrafficType
<1>2. /\ snd[s].at = "give" /\ tx' = [tx EXCEPT !.mutex = FALSE]
      /\ ip' = [ip EXCEPT !.free = @ + 1] /\ snd' = [snd EXCEPT ![s].at = "idle"]
      /\ UNCHANGED <<drv, op, chip, rx, task>>
  BY DEF GiveMutex
<1>3. ip' \in IpType /\ ip'.queue = ip.queue /\ ip'.free = ip.free + 1 /\ ip.free \in Nat
  BY <1>1, <1>2 DEF IpType
<1>4. /\ tx' \in TxType /\ tx'.fifo = tx.fifo /\ tx'.accepted = tx.accepted
      /\ tx'.wire = tx.wire /\ tx'.tight = tx.tight /\ tx'.overrun = tx.overrun
  BY <1>1, <1>2 DEF TxType
<1> DEFINE e == [snd[s] EXCEPT !.at = "idle"]
<1>5. snd' = [snd EXCEPT ![s] = e] /\ e \in SndType /\ e.at = "idle" /\ e.words = snd[s].words
  BY <1>1, <1>2 DEF SndType
<1> HIDE DEF e
<1>6. snd' \in [Sender -> SndType] /\ snd'[s] = e /\ \A t \in Sender \ {s} : snd'[t] = snd[t]
  BY <1>1, <1>5
<1>7. \A t \in Sender : snd'[t].at \notin {"write", "give"}
  BY <1>1, <1>2, <1>5, <1>6 DEF MutexInv
<1>8. \A t \in Sender : snd'[t].at # "idle" => snd'[t].sent # 0
  BY <1>1, <1>5, <1>6 DEF MutexInv
<1>9. MutexInv(tx', snd')
  BY <1>7, <1>8 DEF MutexInv
<1>10. TxInv(tx', snd')
  <2>1. \A t \in Sender : /\ snd'[t].at = "write" <=> snd[t].at = "write"
                          /\ snd'[t].words = snd[t].words
    BY <1>2, <1>5, <1>6
  <2> QED
    BY <1>1, <1>4, <2>1, TxSame
<1>11. Cardinality(Busy(snd')) = Cardinality(Busy(snd)) - 1
  <2>1. Busy(snd') = Busy(snd) \ {s} /\ s \in Busy(snd)
    BY <1>2, <1>5, <1>6 DEF Busy
  <2> QED
    BY <2>1, BusyType, FS_RemoveElement
<1>12. ip'.free + Cardinality(Busy(snd')) = ip.free + Cardinality(Busy(snd))
  <2>1. PICK a \in Nat, b \in Nat : a = ip.free /\ b = Cardinality(Busy(snd))
    BY <1>3, BusyType
  <2>2. (a + 1) + (b - 1) = a + b
    OBVIOUS
  <2> QED
    BY <1>3, <1>11, <2>1, <2>2
<1> QED
  BY <1>2, <1>3, <1>4, <1>6, <1>9, <1>10, <1>12, SendSide

LEMMA PacketType ==
    ASSUME TrafficInv, NEW s \in Sender, snd[s].at # "idle"
    PROVE  Packet(s) \in Seq(Nat)
<1>1. snd[s] \in SndType /\ snd[s].sent # 0 /\ TxSizes \in Seq(Nat)
  BY EthernetAssumption DEF TrafficInv, TrafficType, MutexInv
<1>2. snd[s].sent \in 1 .. Len(TxSizes)
  <2>1. snd[s].sent \in 0 .. Len(TxSizes)
    BY <1>1 DEF SndType
  <2> QED
    BY <1>1, <2>1
<1>3. TxSizes[snd[s].sent] \in Nat
  BY <1>1, <1>2
<1> DEFINE k == IF s = CHOOSE t \in Sender : TRUE THEN 5 ELSE 7
<1>4. k \in Nat
  OBVIOUS
<1> HIDE DEF k
<1>5. Packet(s) = Frame(k, TxSizes[snd[s].sent])
  BY DEF Packet, k
<1> QED
  BY <1>3, <1>4, <1>5, FrameType

LEMMA PacketWordsType ==
    ASSUME NEW x \in TxType, NEW k \in 1 .. Len(x.accepted)
    PROVE  /\ x.accepted[k] \in Seq(Nat) /\ PacketWords(x)[k] = ToWrite(x.accepted[k])
           /\ PacketWords(x)[k] \in Seq(TxWord)
<1>1. x.accepted \in Seq(Seq(Nat))
  BY DEF TxType
<1>2. x.accepted[k] \in Seq(Nat)
  BY <1>1
<1>3. PacketWords(x)[k] = ToWrite(x.accepted[k])
  BY DEF PacketWords
<1> QED
  BY <1>2, <1>3, ToWriteType

(* A packet that is not accepted, or that is: its words are to be written. *)
LEMMA TakeMutexKeeps == ASSUME TrafficInv, NEW s \in Sender, TakeMutex(s) PROVE TrafficInv'
<1> DEFINE p == Packet(s)
<1>1. /\ ip \in IpType /\ tx \in TxType /\ snd \in [Sender -> SndType]
      /\ MutexInv(tx, snd) /\ TxInv(tx, snd)
  BY DEF TrafficInv, TrafficType
<1>2. /\ snd[s].at = "take" /\ ~tx.mutex /\ UNCHANGED <<drv, op, chip, rx, task, ip>>
      /\ \/ /\ snd' = [snd EXCEPT ![s].at = "give"]
            /\ tx' = [tx EXCEPT !.mutex = TRUE]
         \/ /\ snd' = [snd EXCEPT ![s].at = "write", ![s].words = ToWrite(p)]
            /\ tx' = [tx EXCEPT !.mutex = TRUE, !.accepted = Append(@, p),
                                !.tight = @ \/ FreeSpace < Len(p) + 12]
  BY DEF TakeMutex
<1>3. \A t \in Sender : snd[t].at \notin {"write", "give"}
  BY <1>1, <1>2 DEF MutexInv
<1>4. ASSUME NEW e \in SndType, snd' = [snd EXCEPT ![s] = e], e.at \in {"write", "give"},
             e.sent = snd[s].sent, e.at = "write" => e.words # << >>,
             tx' \in TxType, tx'.mutex, TxInv(tx', snd')
      PROVE  TrafficInv'
  <2>1. snd' \in [Sender -> SndType] /\ snd'[s] = e /\ \A t \in Sender \ {s} : snd'[t] = snd[t]
    BY <1>1, <1>4
  <2>2. \A t \in Sender : snd'[t].at \in {"write", "give"} => t = s
    BY <1>3, <2>1
  <2>3. \A t \in Sender : snd'[t].at = "write" => snd'[t].words # << >>
    BY <1>4, <2>1, <2>2
  <2>4. \A t \in Sender : snd'[t].at # "idle" => snd'[t].sent # 0
    BY <1>1, <1>2, <1>4, <2>1 DEF MutexInv
  <2>5. MutexInv(tx', snd')
    BY <1>4, <2>2, <2>3, <2>4 DEF MutexInv
  <2>6. Busy(snd') = Busy(snd)
    BY <1>2, <1>4, <2>1 DEF Busy
  <2> QED
    BY <1>1, <1>2, <1>4, <2>1, <2>5, <2>6, SendSide
<1>5. CASE snd' = [snd EXCEPT ![s].at = "give"] /\ tx' = [tx EXCEPT !.mutex = TRUE]
  <2> DEFINE e == [snd[s] EXCEPT !.at = "give"]
  <2>1. /\ e \in SndType /\ snd' = [snd EXCEPT ![s] = e] /\ e.at = "give"
        /\ e.sent = snd[s].sent /\ e.words = snd[s].words
    BY <1>1, <1>5 DEF SndType
  <2> HIDE DEF e
  <2>2. /\ tx' \in TxType /\ tx'.mutex /\ tx'.fifo = tx.fifo /\ tx'.accepted = tx.accepted
        /\ tx'.wire = tx.wire /\ tx'.tight = tx.tight /\ tx'.overrun = tx.overrun
    BY <1>1, <1>5 DEF TxType
  <2>3. snd'[s] = e /\ \A t \in Sender \ {s} : snd'[t] = snd[t]
    BY <1>1, <2>1
  <2>4. \A t \in Sender : /\ snd'[t].at = "write" <=> snd[t].at = "write"
                          /\ snd'[t].words = snd[t].words
    BY <1>2, <2>1, <2>3
  <2>5. TxInv(tx', snd')
    BY <1>1, <2>2, <2>4, TxSame
  <2> QED
    BY <1>4, <2>1, <2>2, <2>5
<1>6. CASE /\ snd' = [snd EXCEPT ![s].at = "write", ![s].words = ToWrite(p)]
           /\ tx' = [tx EXCEPT !.mutex = TRUE, !.accepted = Append(@, p),
                               !.tight = @ \/ FreeSpace < Len(p) + 12]
  <2> DEFINE words == ToWrite(p)
             q == Append(tx.accepted, p)
             e == [snd[s] EXCEPT !.at = "write", !.words = words]
             less == FreeSpace < Len(p) + 12
  <2>1. p \in Seq(Nat)
    BY <1>2, PacketType
  <2>2. words \in Seq(TxWord) /\ Len(words) = 3 + Len(p) \div 4
    BY <2>1, ToWriteType
  <2>3. /\ tx.accepted \in Seq(Seq(Nat)) /\ tx.fifo \in Seq(TxWord) /\ tx.wire \in Seq(Seq(Nat))
    BY <1>1 DEF TxType
  <2>4. /\ q \in Seq(Seq(Nat)) /\ Len(q) = Len(tx.accepted) + 1
        /\ \A i \in 1 .. Len(tx.accepted) : q[i] = tx.accepted[i]
        /\ q[Len(tx.accepted) + 1] = p
    BY <2>1, <2>3, AppendProperties
  <2>5. snd' = [snd EXCEPT ![s] = e]
    BY <1>1, <1>6
  <2>6. less \in BOOLEAN
    OBVIOUS
  <2> HIDE DEF words, q, less
  <2>7. e \in SndType /\ e.at = "write" /\ e.sent = snd[s].sent /\ e.words = words
    BY <1>1, <2>2 DEF SndType
  <2>8. tx' = [tx EXCEPT !.mutex = TRUE, !.accepted = q, !.tight = @ \/ less]
    BY <1>6 DEF q, less
  <2>9. /\ tx' \in TxType /\ tx'.mutex /\ tx'.fifo = tx.fifo /\ tx'.accepted = q
        /\ tx'.wire = tx.wire /\ (tx'.tight <=> tx.tight \/ less) /\ tx'.overrun = tx.overrun
    BY <1>1, <2>4, <2>6, <2>8 DEF TxType
  <2> HIDE DEF e
  <2>10. snd'[s] = e /\ \A t \in Sender \ {s} : snd'[t] = snd[t]
    BY <1>1, <2>5
  <2>11. \A t \in Sender : snd'[t].at = "write" => t = s
    BY <1>3, <2>10
  <2>12. PICK a \in Nat, b \in Nat, n \in Nat, l \in Nat :
           a = Len(tx.wire) /\ b = Len(tx.accepted) /\ n = Len(tx.fifo) /\ l = Len(p)
    BY <2>1, <2>3
  <2>13. a <= b /\ \A k \in 1 .. a : tx.wire[k] = tx.accepted[k]
    BY <1>1, <2>12 DEF TxInv
  <2>14. a <= b + 1 /\ Len(q) = b + 1 /\ \A k \in 1 .. a : tx.wire[k] = q[k]
    <3>1. a <= b + 1 /\ \A k \in 1 .. a : k \in 1 .. b
      BY <2>13
    <3>2. Len(q) = b + 1 /\ \A k \in 1 .. b : q[k] = tx.accepted[k]
      BY <2>4, <2>12
    <3> QED
      BY <2>13, <3>1, <3>2
  <2>15. ASSUME ~tx.overrun PROVE Packed(tx.fifo \o words, PacketWords(tx'), a, b + 1)
    <3>1. Packed(tx.fifo, PacketWords(tx), a, b)
      BY <1>1, <1>3, <2>12, <2>15 DEF TxInv
    <3>2. \A k \in a + 1 .. b : k \in 1 .. b /\ k \in 1 .. b + 1
      OBVIOUS
    <3>3. \A k \in 1 .. b + 1 : PacketWords(tx')[k] = ToWrite(q[k])
      BY <2>9, <2>14 DEF PacketWords
    <3>4. \A k \in a + 1 .. b : /\ PacketWords(tx')[k] = PacketWords(tx)[k]
                                /\ PacketWords(tx)[k] \in Seq(TxWord)
      <4> TAKE k \in a + 1 .. b
      <4>1. /\ PacketWords(tx)[k] = ToWrite(tx.accepted[k]) /\ PacketWords(tx)[k] \in Seq(TxWord)
        BY <1>1, <2>12, <3>2, PacketWordsType
      <4>2. PacketWords(tx')[k] = ToWrite(tx.accepted[k])
        BY <2>4, <2>12, <3>2, <3>3
      <4> QED
        BY <4>1, <4>2
    <3>5. PacketWords(tx')[b + 1] = words
      <4>1. b + 1 \in 1 .. b + 1
        OBVIOUS
      <4>2. q[b + 1] = p
        BY <2>4, <2>12
      <4> QED
        BY <3>3, <4>1, <4>2 DEF words
    <3> QED
      BY <2>2, <2>3, <2>13, <3>1, <3>4, <3>5, PackedMore
  <2>16. ASSUME ~tx.tight, ~less PROVE ~tx.overrun /\ 4 * n + 4 * Len(words) <= TxSpace
    <3>1. ~tx.overrun
      BY <1>1, <2>16 DEF TxInv
    <3>2. ~(TxSpace - 4 * n < l + 12)
      BY <2>12, <2>16 DEF less, FreeSpace
    <3>3. Len(words) = 3 + l \div 4
      BY <2>2, <2>12
    <3>4. PICK d \in Nat : d = l \div 4 /\ 4 * d <= l
      <4>1. l \div 4 \in Nat /\ 4 * (l \div 4) <= l
        BY Quotient
      <4> QED
        BY <4>1
    <3>5. TxSpace \in Nat
      BY EthernetAssumption
    <3>6. 4 * n + 4 * (3 + d) <= TxSpace
      BY <3>2, <3>4, <3>5
    <3> QED
      BY <3>1, <3>3, <3>4, <3>6
  <2>17. TxInv(tx', snd')
    <3>1. ~tx'.overrun =>
            /\ \A t \in Sender : snd'[t].at = "write" =>
                 Packed(tx'.fifo \o snd'[t].words, PacketWords(tx'), Len(tx'.wire), Len(tx'.accepted))
            /\ (\A t \in Sender : snd'[t].at # "write") =>
                 Packed(tx'.fifo, PacketWords(tx'), Len(tx'.wire), Len(tx'.accepted))
      BY <2>7, <2>9, <2>10, <2>11, <2>12, <2>14, <2>15
    <3>2. ~tx'.tight =>
            /\ ~tx'.overrun
            /\ \A t \in Sender :
                 snd'[t].at = "write" => 4 * Len(tx'.fifo) + 4 * Len(snd'[t].words) <= TxSpace
      BY <2>7, <2>9, <2>10, <2>11, <2>12, <2>16
    <3>3. /\ Len(tx'.wire) <= Len(tx'.accepted)
          /\ \A k \in 1 .. Len(tx'.wire) : tx'.wire[k] = tx'.accepted[k]
      BY <2>9, <2>12, <2>14
    <3> QED
      BY <3>1, <3>2, <3>3 DEF TxInv
  <2>18. words # << >>
    <3>1. Len(words) # 0
      BY <2>1, <2>2, Quotient
    <3> QED
      BY <2>2, <3>1
  <2> QED
    BY <1>4, <2>5, <2>7, <2>9, <2>17, <2>18
<1> QED
  BY <1>2, <1>5, <1>6

(* The first word moves from what is to be written to the FIFO. *)
LEMMA WordMoved ==
    ASSUME NEW S, NEW f \in Seq(S), NEW w \in Seq(S), w # << >>
    PROVE  /\ Append(f, Head(w)) \in Seq(S) /\ Len(Append(f, Head(w))) = Len(f) + 1
           /\ Tail(w) \in Seq(S) /\ Len(Tail(w)) = Len(w) - 1
           /\ Append(f, Head(w)) \o Tail(w) = f \o w
           /\ Len(w) = 1 => Append(f, Head(w)) = f \o w
<1>1. Head(w) \in S /\ Tail(w) \in Seq(S) /\ Len(Tail(w)) = Len(w) - 1
  BY HeadTailProperties
<1>2. Append(f, Head(w)) \in Seq(S) /\ Len(Append(f, Head(w))) = Len(f) + 1
  BY <1>1, AppendProperties
<1>3. Append(f, Head(w)) = f \o <<Head(w)>>
  BY <1>1, AppendIsConcat
<1>4. <<Head(w)>> \in Seq(S)
  BY <1>1
<1>5. w = <<Head(w)>> \o Tail(w)
  <2>1. Len(w) \in Nat /\ Len(w) # 0
    OBVIOUS
  <2>2. 1 \in 1 .. Len(w) /\ Len(w) \in 1 .. Len(w)
    BY <2>1
  <2>3. SubSeq(w, 1, Len(w)) = <<w[1]>> \o SubSeq(w, 1 + 1, Len(w))
    BY <2>2, SubSeqRecursiveFirst
  <2>4. SubSeq(w, 1, Len(w)) = w /\ Tail(w) = SubSeq(w, 2, Len(w)) /\ 1 + 1 = 2
    BY SubSeqFull, TailIsSubSeq
  <2>5. w[1] = Head(w)
    OBVIOUS
  <2> QED
    BY <2>3, <2>4, <2>5
<1>6. Append(f, Head(w)) \o Tail(w) = f \o w
  <2>1. (f \o <<Head(w)>>) \o Tail(w) = f \o (<<Head(w)>> \o Tail(w))
    BY <1>1, <1>4, ConcatAssociative
  <2> QED
    BY <1>3, <1>5, <2>1
<1>7. ASSUME Len(w) = 1 PROVE Append(f, Head(w)) = f \o w
  <2>1. Len(Tail(w)) = 0
    BY <1>1, <1>7
  <2>2. Tail(w) = << >>
    BY <1>1, <2>1, EmptySeq
  <2>3. Append(f, Head(w)) \o << >> = Append(f, Head(w))
    BY <1>2, ConcatEmptySeq
  <2> QED
    BY <1>6, <2>2, <2>3
<1> QED
  BY <1>1, <1>2, <1>6, <1>7

LEMMA WriteWordKeeps == ASSUME TrafficInv, NEW s \in Sender, WriteWord(s) PROVE TrafficInv'
<1> DEFINE w == snd[s].words
           f == Append(tx.fifo, Head(w))
           pc == IF Len(w) = 1 THEN "give" ELSE "write"
           e == [snd[s] EXCEPT !.at = pc, !.words = Tail(w)]
<1>1. /\ ip \in IpType /\ tx \in TxType /\ snd \in [Sender -> SndType]
      /\ MutexInv(tx, snd) /\ TxInv(tx, snd)
  BY DEF TrafficInv, TrafficType
<1>2. /\ snd[s].at = "write" /\ UNCHANGED <<drv, op, chip, rx, task, ip>>
      /\ tx' = IF FreeSpace < 4 THEN [tx EXCEPT !.overrun = TRUE] ELSE [tx EXCEPT !.fifo = f]
      /\ snd' = [snd EXCEPT ![s].words = Tail(@), ![s].at = pc]
  BY DEF WriteWord
<1>3. snd' = [snd EXCEPT ![s] = e]
  BY <1>1, <1>2
<1>4. /\ tx.fifo \in Seq(TxWord) /\ tx.wire \in Seq(Seq(Nat)) /\ tx.accepted \in Seq(Seq(Nat))
      /\ tx.tight \in BOOLEAN /\ tx.overrun \in BOOLEAN
  BY <1>1 DEF TxType
<1>5. w \in Seq(TxWord) /\ w # << >> /\ snd[s] \in SndType
  BY <1>1, <1>2 DEF SndType, MutexInv
<1> HIDE DEF w
<1>6. /\ f \in Seq(TxWord) /\ Len(f) = Len(tx.fifo) + 1
      /\ Tail(w) \in Seq(TxWord) /\ Len(Tail(w)) = Len(w) - 1
      /\ f \o Tail(w) = tx.fifo \o w /\ (Len(w) = 1 => f = tx.fifo \o w)
  BY <1>4, <1>5, WordMoved
<1> HIDE DEF f
<1>7. pc \in {"write", "give"} /\ (pc = "give" <=> Len(w) = 1)
  OBVIOUS
<1> HIDE DEF pc
<1>8. e \in SndType /\ e.at = pc /\ e.words = Tail(w) /\ e.sent = snd[s].sent
  BY <1>5, <1>6, <1>7 DEF SndType
<1> HIDE DEF e
<1>9. snd' \in [Sender -> SndType] /\ snd'[s] = e /\ \A t \in Sender \ {s} : snd'[t] = snd[t]
  BY <1>1, <1>3, <1>8
<1>10. \A t \in Sender \ {s} : snd[t].at \notin {"write", "give"}
  BY <1>1, <1>2 DEF MutexInv
<1>11. PICK n \in Nat, l \in Nat : n = Len(tx.fifo) /\ l = Len(w) /\ l # 0
  BY <1>4, <1>5
<1>12. pc = "write" => Tail(w) # << >>
  <2>1. l # 1 => l - 1 # 0
    OBVIOUS
  <2> QED
    BY <1>6, <1>7, <1>11, <2>1
<1>13. /\ tx' \in TxType /\ tx'.mutex = tx.mutex /\ tx'.accepted = tx.accepted
       /\ tx'.wire = tx.wire /\ tx'.tight = tx.tight
       /\ FreeSpace < 4 => tx'.overrun /\ tx'.fifo = tx.fifo
       /\ ~(FreeSpace < 4) => tx'.overrun = tx.overrun /\ tx'.fifo = f
  <2>1. CASE FreeSpace < 4
    BY <1>1, <1>2, <2>1 DEF TxType
  <2>2. CASE ~(FreeSpace < 4)
    BY <1>1, <1>2, <1>6, <2>2 DEF TxType
  <2> QED
    BY <2>1, <2>2
<1>14. MutexInv(tx', snd')
  <2>1. tx.mutex
    BY <1>1, <1>2 DEF MutexInv
  <2>2. \A t \in Sender : snd'[t].at \in {"write", "give"} => t = s
    BY <1>9, <1>10
  <2>3. \A t \in Sender : snd'[t].at = "write" => snd'[t].words # << >>
    BY <1>8, <1>9, <1>12, <2>2
  <2>4. \A t \in Sender : snd'[t].at # "idle" => snd'[t].sent # 0
    BY <1>1, <1>2, <1>8, <1>9 DEF MutexInv
  <2> QED
    BY <1>13, <2>1, <2>2, <2>3, <2>4 DEF MutexInv
<1>15. Busy(snd') = Busy(snd)
  BY <1>2, <1>7, <1>8, <1>9 DEF Busy
<1>16. \A t \in Sender : snd'[t].at = "write" => t = s
  BY <1>9, <1>10
<1>17. ASSUME ~tx.tight
       PROVE  ~(FreeSpace < 4) /\ ~tx.overrun /\ 4 * (n + 1) + 4 * (l - 1) <= TxSpace
  <2>1. ~tx.overrun /\ 4 * n + 4 * l <= TxSpace
    BY <1>1, <1>2, <1>11, <1>17 DEF TxInv, w
  <2>2. TxSpace \in Nat
    BY EthernetAssumption
  <2>3. ~(TxSpace - 4 * n < 4) /\ 4 * (n + 1) + 4 * (l - 1) <= TxSpace
    <3>1. l # 0 /\ 4 * n + 4 * l <= TxSpace
      BY <1>11, <2>1
    <3> QED
      BY ONLY <3>1, <2>2, n \in Nat, l \in Nat
  <2> QED
    BY <1>11, <2>1, <2>3 DEF FreeSpace
<1>18. ASSUME ~tx'.overrun
       PROVE  /\ tx'.fifo = f
              /\ Packed(f \o Tail(w), PacketWords(tx'), Len(tx.wire), Len(tx.accepted))
              /\ Len(w) = 1 => Packed(f, PacketWords(tx'), Len(tx.wire), Len(tx.accepted))
  <2>1. tx'.fifo = f /\ ~tx.overrun
    BY <1>13, <1>18
  <2>2. Packed(tx.fifo \o w, PacketWords(tx), Len(tx.wire), Len(tx.accepted))
    BY <1>1, <1>2, <2>1 DEF TxInv, w
  <2>3. PacketWords(tx') = PacketWords(tx)
    BY <1>13 DEF PacketWords
  <2> QED
    BY <1>6, <2>1, <2>2, <2>3
<1>19. TxInv(tx', snd')
  <2>1. ~tx'.overrun =>
          /\ \A t \in Sender : snd'[t].at = "write" =>
               Packed(tx'.fifo \o snd'[t].words, PacketWords(tx'), Len(tx'.wire), Len(tx'.accepted))
          /\ (\A t \in Sender : snd'[t].at # "write") =>
               Packed(tx'.fifo, PacketWords(tx'), Len(tx'.wire), Len(tx'.accepted))
    BY <1>7, <1>8, <1>9, <1>13, <1>16, <1>18
  <2>2. ~tx'.tight =>
          /\ ~tx'.overrun
          /\ \A t \in Sender :
               snd'[t].at = "write" => 4 * Len(tx'.fifo) + 4 * Len(snd'[t].words) <= TxSpace
    BY <1>6, <1>8, <1>9, <1>11, <1>13, <1>16, <1>17
  <2>3. /\ Len(tx'.wire) <= Len(tx'.accepted)
        /\ \A k \in 1 .. Len(tx'.wire) : tx'.wire[k] = tx'.accepted[k]
    BY <1>1, <1>13 DEF TxInv
  <2> QED
    BY <2>1, <2>2, <2>3 DEF TxInv
<1> QED
  BY <1>1, <1>2, <1>9, <1>13, <1>14, <1>15, <1>19, SendSide

LEMMA PackedEmpty == ASSUME NEW s, NEW f, NEW a \in Nat, Packed(s, f, a, a) PROVE Len(s) = 0
<1>1. PICK p \in [a + 1 .. a + 1 -> 0 .. Len(s)] : p[a + 1] = 0 /\ p[a + 1] = Len(s)
  BY DEF Packed
<1> QED
  BY <1>1

(* Taking words from the front of two sequences, of which the first is     *)
(* long enough.                                                            *)
LEMMA TakenFromFirst ==
    ASSUME NEW S, NEW s \in Seq(S), NEW t \in Seq(S), NEW n \in Nat, n <= Len(s)
    PROVE  SubSeq(s \o t, n + 1, Len(s \o t)) = SubSeq(s, n + 1, Len(s)) \o t
<1> DEFINE u == s \o t
           v == SubSeq(u, n + 1, Len(u))
           x == SubSeq(s, n + 1, Len(s))
           y == x \o t
<1>1. /\ u \in Seq(S) /\ Len(u) = Len(s) + Len(t)
      /\ \A i \in 1 .. Len(s) + Len(t) : u[i] = IF i <= Len(s) THEN s[i] ELSE t[i - Len(s)]
  BY ConcatProperties
<1> HIDE DEF u
<1>2. PICK a \in Nat, b \in Nat : a = Len(s) /\ b = Len(t)
  OBVIOUS
<1>3. n <= a /\ n <= a + b /\ (a + b) - n = (a - n) + b /\ a - n \in Nat
  BY <1>2
<1>4. n <= Len(u)
  BY <1>1, <1>2, <1>3
<1>5. /\ v \in Seq(S) /\ Len(v) = Len(u) - n /\ \A i \in 1 .. Len(u) - n : v[i] = u[n + i]
  BY <1>1, <1>4, FromProperties
<1>6. /\ x \in Seq(S) /\ Len(x) = Len(s) - n /\ \A i \in 1 .. Len(s) - n : x[i] = s[n + i]
  BY FromProperties
<1> HIDE DEF v, x
<1>7. /\ y \in Seq(S) /\ Len(y) = Len(x) + Len(t)
      /\ \A i \in 1 .. Len(x) + Len(t) : y[i] = IF i <= Len(x) THEN x[i] ELSE t[i - Len(x)]
  BY <1>6, ConcatProperties
<1> HIDE DEF y
<1>8. Len(v) = (a - n) + b /\ Len(y) = (a - n) + b
  BY <1>1, <1>2, <1>3, <1>5, <1>6, <1>7
<1>9. ASSUME NEW i \in 1 .. (a - n) + b PROVE v[i] = y[i]
  <2>1. n + i \in 1 .. a + b /\ i \in 1 .. (a + b) - n
    BY <1>3
  <2>2. v[i] = u[n + i]
    BY <1>1, <1>2, <1>5, <2>1
  <2>3. u[n + i] = IF n + i <= a THEN s[n + i] ELSE t[(n + i) - a]
    BY <1>1, <1>2, <2>1
  <2>4. y[i] = IF i <= a - n THEN x[i] ELSE t[i - (a - n)]
    BY <1>2, <1>6, <1>7
  <2>5. CASE i <= a - n
    <3>1. n + i <= a /\ i \in 1 .. a - n
      BY <1>3, <2>5
    <3>2. x[i] = s[n + i]
      BY <1>2, <1>6, <3>1
    <3> QED
      BY <2>2, <2>3, <2>4, <2>5, <3>1, <3>2
  <2>6. CASE ~(i <= a - n)
    <3>1. ~(n + i <= a) /\ (n + i) - a = i - (a - n)
      BY <1>3, <2>6
    <3> QED
      BY <2>2, <2>3, <2>4, <2>6, <3>1
  <2> QED
    BY <2>5, <2>6
<1>10. v = y
  BY <1>5, <1>7, <1>8, <1>9, SeqEqual
<1> QED
  BY <1>10 DEF u, v, x, y

(* The first packet in the FIFO is sent: it is the one that was accepted   *)
(* next, and the others stay.                                              *)
LEMMA FirstSent ==
    ASSUME tx \in TxType, NEW rest \in Seq(TxWord), Len(tx.wire) <= Len(tx.accepted),
           Packed(tx.fifo \o rest, PacketWords(tx), Len(tx.wire), Len(tx.accepted)),
           tx.fifo # << >>, Len(tx.fifo) >= HeadWords
    PROVE  /\ Len(tx.wire) < Len(tx.accepted) /\ HeadWords \in Nat
           /\ Transmitted = tx.accepted[Len(tx.wire) + 1]
           /\ Packed(SubSeq(tx.fifo, HeadWords + 1, Len(tx.fifo)) \o rest, PacketWords(tx),
                     Len(tx.wire) + 1, Len(tx.accepted))
<1> DEFINE u == tx.fifo \o rest
           f == PacketWords(tx)
<1>1. tx.fifo \in Seq(TxWord) /\ tx.wire \in Seq(Seq(Nat)) /\ tx.accepted \in Seq(Seq(Nat))
  BY DEF TxType
<1>2. PICK a \in Nat, b \in Nat, m \in Nat, l \in Nat :
        a = Len(tx.wire) /\ b = Len(tx.accepted) /\ m = Len(tx.fifo) /\ l = Len(rest)
  BY <1>1
<1>3. m # 0
  BY <1>1, <1>2
<1>4. u \in Seq(TxWord) /\ Len(u) = m + l /\ \A i \in 1 .. m : u[i] = tx.fifo[i]
  <2>1. /\ u \in Seq(TxWord) /\ Len(u) = Len(tx.fifo) + Len(rest)
        /\ \A i \in 1 .. Len(tx.fifo) + Len(rest) :
             u[i] = IF i <= Len(tx.fifo) THEN tx.fifo[i] ELSE rest[i - Len(tx.fifo)]
    BY <1>1, ConcatProperties
  <2> HIDE DEF u
  <2>2. \A i \in 1 .. m : i \in 1 .. m + l /\ i <= m
    OBVIOUS
  <2> QED
    BY <1>2, <2>1, <2>2
<1>5. Packed(u, f, a, b) /\ a <= b
  BY <1>2
<1> HIDE DEF u
<1>6. a # b
  <2>1. ASSUME a = b PROVE FALSE
    <3>1. Len(u) = 0
      BY <1>5, <2>1, PackedEmpty
    <3> QED
      BY <1>3, <1>4, <3>1
  <2> QED
    BY <2>1
<1>7. a < b /\ a + 1 \in 1 .. b /\ \A k \in a + 1 .. b : k \in 1 .. b
  BY <1>5, <1>6
<1>8. \A k \in a + 1 .. b : f[k] \in Seq(TxWord)
  BY <1>2, <1>7, PacketWordsType
<1> DEFINE bytes == tx.accepted[a + 1]
           n == Len(ToWrite(bytes))
<1>9. bytes \in Seq(Nat) /\ f[a + 1] = ToWrite(bytes)
  BY <1>2, <1>7, PacketWordsType
<1> HIDE DEF f, bytes
<1>10. n \in Nat /\ 1 \in 1 .. n /\ 1 \in 1 .. m
  <2>0. Len(ToWrite(bytes)) = 3 + Len(bytes) \div 4
    BY <1>9, ToWriteType
  <2>1. n = 3 + Len(bytes) \div 4 /\ Len(bytes) \in Nat
    BY <1>9, <2>0
  <2>2. Len(bytes) \div 4 \in Nat
    BY <2>1, Quotient
  <2>3. PICK d \in Nat : d = Len(bytes) \div 4
    BY <2>2
  <2> HIDE DEF n
  <2> QED
    BY <1>3, <2>1, <2>3
<1>11. Len(f[a + 1]) = n
  BY <1>9
<1> HIDE DEF n
<1>12. /\ n <= Len(u) /\ \A w \in 1 .. n : u[w] = f[a + 1][w]
       /\ Packed(SubSeq(u, n + 1, Len(u)), f, a + 1, b)
  <2>1. u \in Seq(TxWord) /\ a < b /\ n \in Nat
    BY <1>4, <1>7, <1>10
  <2> QED
    BY ONLY a \in Nat, b \in Nat, <1>5, <1>8, <1>11, <2>1, PackedFirst
<1>13. tx.fifo[1] = ToWrite(bytes)[1]
  BY <1>4, <1>9, <1>10, <1>12
<1>14. HeadWords = n
  BY <1>9, <1>13, HeadSize DEF n
<1>15. n <= m /\ \A w \in 1 .. n : w \in 1 .. m
  BY <1>2, <1>10, <1>14
<1>16. \A w \in 1 .. n : tx.fifo[w] = ToWrite(bytes)[w]
  BY <1>4, <1>9, <1>12, <1>15
<1>17. Transmitted = bytes
  BY <1>9, <1>16, SentAsWritten DEF n
<1>18. SubSeq(u, n + 1, Len(u)) = SubSeq(tx.fifo, n + 1, Len(tx.fifo)) \o rest
  BY <1>1, <1>2, <1>10, <1>15, TakenFromFirst DEF u
<1> QED
  BY <1>2, <1>7, <1>10, <1>12, <1>14, <1>17, <1>18 DEF f, bytes

LEMMA ChipSendsKeeps == ASSUME TrafficInv, ChipSends PROVE TrafficInv'
<1> DEFINE f == SubSeq(tx.fifo, HeadWords + 1, Len(tx.fifo))
           w == Append(tx.wire, Transmitted)
<1>1. /\ ip \in IpType /\ tx \in TxType /\ snd \in [Sender -> SndType]
      /\ MutexInv(tx, snd) /\ TxInv(tx, snd)
  BY DEF TrafficInv, TrafficType
<1>2. /\ ~tx.overrun /\ tx.fifo # << >> /\ Len(tx.fifo) >= HeadWords
      /\ tx' = [tx EXCEPT !.fifo = f, !.wire = w]
      /\ UNCHANGED <<drv, op, chip, rx, task, ip, snd>>
  BY DEF ChipSends
<1>3. tx.fifo \in Seq(TxWord) /\ tx.wire \in Seq(Seq(Nat)) /\ tx.accepted \in Seq(Seq(Nat))
  BY <1>1 DEF TxType
<1>4. Len(tx.wire) <= Len(tx.accepted) /\ \A k \in 1 .. Len(tx.wire) : tx.wire[k] = tx.accepted[k]
  BY <1>1 DEF TxInv
<1>5. ASSUME NEW rest \in Seq(TxWord),
             Packed(tx.fifo \o rest, PacketWords(tx), Len(tx.wire), Len(tx.accepted))
      PROVE  /\ Len(tx.wire) < Len(tx.accepted) /\ HeadWords \in Nat
             /\ Transmitted = tx.accepted[Len(tx.wire) + 1]
             /\ Packed(f \o rest, PacketWords(tx), Len(tx.wire) + 1, Len(tx.accepted))
  BY <1>1, <1>2, <1>4, <1>5, FirstSent
<1>6. ASSUME NEW s \in Sender, snd[s].at = "write"
      PROVE  /\ snd[s].words \in Seq(TxWord)
             /\ Packed(tx.fifo \o snd[s].words, PacketWords(tx), Len(tx.wire), Len(tx.accepted))
  <2>1. snd[s] \in SndType
    BY <1>1
  <2> QED
    BY <1>1, <1>2, <1>6, <2>1 DEF TxInv, SndType
<1>7. ASSUME \A s \in Sender : snd[s].at # "write"
      PROVE  Packed(tx.fifo \o << >>, PacketWords(tx), Len(tx.wire), Len(tx.accepted))
  <2>1. Packed(tx.fifo, PacketWords(tx), Len(tx.wire), Len(tx.accepted))
    BY <1>1, <1>2, <1>7 DEF TxInv
  <2> QED
    BY <1>3, <2>1, ConcatEmptySeq
<1>8. << >> \in Seq(TxWord)
  OBVIOUS
<1> HIDE DEF f
<1>9. /\ Len(tx.wire) < Len(tx.accepted) /\ HeadWords \in Nat
      /\ Transmitted = tx.accepted[Len(tx.wire) + 1]
  <2>1. CASE \E s \in Sender : snd[s].at = "write"
    <3>1. PICK s \in Sender : snd[s].at = "write"
      BY <2>1
    <3> QED
      BY <1>5, <1>6, <3>1
  <2>2. CASE \A s \in Sender : snd[s].at # "write"
    BY <1>5, <1>7, <1>8, <2>2
  <2> QED
    BY <2>1, <2>2
<1>10. PICK a \in Nat, b \in Nat, m \in Nat, h \in Nat :
         a = Len(tx.wire) /\ b = Len(tx.accepted) /\ m = Len(tx.fifo) /\ h = HeadWords
  BY <1>3, <1>9
<1>11. a < b /\ a + 1 \in 1 .. b /\ h <= m /\ a + 1 <= b
  <2>1. a < b /\ m >= h
    BY <1>2, <1>9, <1>10
  <2> QED
    BY <2>1
<1>12. f \in Seq(TxWord) /\ Len(f) = m - h
  BY <1>3, <1>10, <1>11, FromProperties DEF f
<1>13. Transmitted \in Seq(Nat) /\ Transmitted = tx.accepted[a + 1]
  BY <1>3, <1>9, <1>10, <1>11
<1>14. /\ w \in Seq(Seq(Nat)) /\ Len(w) = a + 1 /\ w[a + 1] = tx.accepted[a + 1]
       /\ \A k \in 1 .. a : w[k] = tx.wire[k]
  BY <1>3, <1>10, <1>13, AppendProperties
<1> HIDE DEF w
<1>15. /\ tx' \in TxType /\ tx'.fifo = f /\ tx'.wire = w /\ tx'.accepted = tx.accepted
       /\ tx'.overrun = tx.overrun /\ tx'.tight = tx.tight /\ tx'.mutex = tx.mutex
  BY <1>1, <1>2, <1>12, <1>14 DEF TxType
<1>16. PacketWords(tx') = PacketWords(tx)
  BY <1>15 DEF PacketWords
<1>17. MutexInv(tx', snd')
  BY <1>1, <1>2, <1>15 DEF MutexInv
<1>18. \A k \in 1 .. a + 1 : w[k] = tx.accepted[k]
  <2>1. \A k \in 1 .. a + 1 : k = a + 1 \/ k \in 1 .. a
    OBVIOUS
  <2> QED
    BY <1>4, <1>10, <1>14, <2>1
<1>19. \A s \in Sender : snd[s].at = "write" =>
         Packed(f \o snd[s].words, PacketWords(tx), a + 1, b)
  BY <1>5, <1>6, <1>10
<1>20. (\A s \in Sender : snd[s].at # "write") => Packed(f, PacketWords(tx), a + 1, b)
  <2>1. SUFFICES ASSUME \A s \in Sender : snd[s].at # "write"
                 PROVE  Packed(f, PacketWords(tx), a + 1, b)
    OBVIOUS
  <2>2. Packed(f \o << >>, PacketWords(tx), a + 1, b)
    BY <1>5, <1>7, <1>8, <1>10, <2>1
  <2> QED
    BY <1>12, <2>2, ConcatEmptySeq
<1>21. ASSUME ~tx.tight, NEW s \in Sender, snd[s].at = "write"
       PROVE  4 * Len(f) + 4 * Len(snd[s].words) <= TxSpace
  <2>1. PICK l \in Nat : l = Len(snd[s].words)
    BY <1>6, <1>21
  <2>2. 4 * m + 4 * l <= TxSpace
    BY <1>1, <1>10, <1>21, <2>1 DEF TxInv
  <2>3. TxSpace \in Nat
    BY EthernetAssumption
  <2>4. h <= m
    BY <1>11
  <2>5. 4 * (m - h) + 4 * l <= TxSpace
    BY ONLY <2>2, <2>3, <2>4, m \in Nat, h \in Nat, l \in Nat
  <2> QED
    BY <1>12, <2>1, <2>5
<1>22. TxInv(tx', snd')
  <2>1. ~tx'.overrun =>
          /\ \A s \in Sender : snd'[s].at = "write" =>
               Packed(tx'.fifo \o snd'[s].words, PacketWords(tx'), Len(tx'.wire), Len(tx'.accepted))
          /\ (\A s \in Sender : snd'[s].at # "write") =>
               Packed(tx'.fifo, PacketWords(tx'), Len(tx'.wire), Len(tx'.accepted))
    BY <1>2, <1>10, <1>14, <1>15, <1>16, <1>19, <1>20
  <2>2. ~tx'.tight =>
          /\ ~tx'.overrun
          /\ \A s \in Sender :
               snd'[s].at = "write" => 4 * Len(tx'.fifo) + 4 * Len(snd'[s].words) <= TxSpace
    BY <1>2, <1>15, <1>21
  <2>3. /\ Len(tx'.wire) <= Len(tx'.accepted)
        /\ \A k \in 1 .. Len(tx'.wire) : tx'.wire[k] = tx'.accepted[k]
    BY <1>10, <1>11, <1>14, <1>15, <1>18
  <2> QED
    BY <2>1, <2>2, <2>3 DEF TxInv
<1> QED
  BY <1>1, <1>2, <1>15, <1>17, <1>22, SendSide

-----------------------------------------------------------------------------
(* All of the traffic *)

LEMMA InitialiseKeeps == ASSUME LinkAll, TrafficInv, Initialise PROVE TrafficInv'
<1>1. CASE SetupStep \/ PhyChecked \/ PhyAccess \/ MacAccess \/ Finish
  <2>1. Running /\ UNCHANGED <<rx, task, ip, tx, snd>>
    BY <1>1 DEF SetupStep, PhyChecked, PhyAccess, MacAccess, Finish, Others
  <2>2. TrafficType' /\ TaskInv'
    BY <2>1 DEF TrafficInv, TrafficType, TaskInv, Running
  <2>3. RxInv(rx, task)' /\ MutexInv(tx, snd)' /\ TxInv(tx, snd)' /\ BufferInv(ip, snd, task)'
    BY <2>1 DEF TrafficInv
  <2> QED
    BY <2>2, <2>3 DEF TrafficInv
<1>2. CASE ReadAddress
  <2>1. /\ Running /\ Step.do = "read_address" /\ task' = [task EXCEPT !.at = "enable"]
        /\ UNCHANGED <<op, rx, ip, tx, snd>>
        /\ \E address \in BOOLEAN, st \in {"none", "internal"} :
             drv' = Passed([drv EXCEPT !.address = address], st, {})
    BY <1>2, Zenon DEF ReadAddress
  <2>2. drv \in DrvType /\ drv.at = 25 /\ ~Step.checked
    <3>1. drv \in DrvType /\ drv.at \in 1 .. NumSteps
      BY DEF LinkAll, LinkType, DrvType
    <3>2. drv.at = 25
      BY <2>1, <3>1, StepPlaces
    <3> QED
      BY <3>1, <3>2, StepFields
  <2>3. drv'.result = "none"
    <3>1. PICK address \in BOOLEAN, st \in {"none", "internal"} :
            drv' = Passed([drv EXCEPT !.address = address], st, {})
      BY <2>1
    <3> DEFINE d == [drv EXCEPT !.address = address]
               e == [d EXCEPT !.val = {}, !.ignored = @ \/ st # "none"]
    <3>2. e \in DrvType
      BY <2>2 DEF DrvType
    <3>3. drv' = [e EXCEPT !.result = "none"]
      BY <2>2, <3>1, StepList DEF Passed, NumSteps
    <3> HIDE DEF e
    <3> QED
      BY <3>2, <3>3 DEF DrvType
  <2>4. task \in TaskType /\ task.at = "new" /\ RxInv(rx, task)
    BY <2>1 DEF TrafficInv, TrafficType, TaskInv, Running
  <2>5. task' \in TaskType /\ task'.at = "enable"
    BY <2>1, <2>4 DEF TaskType
  <2>6. RxInv(rx', task')
    BY <2>1, <2>4, <2>5, FifoKept
  <2>7. BufferInv(ip', snd', task')
    BY <2>1, <2>4, <2>5 DEF TrafficInv, BufferInv, Held
  <2>8. TrafficType' /\ TaskInv'
    BY <2>1, <2>3, <2>5 DEF TrafficInv, TrafficType, TaskInv
  <2>9. MutexInv(tx, snd)' /\ TxInv(tx, snd)'
    BY <2>1, SendingKept DEF TrafficInv
  <2> QED
    BY <2>6, <2>7, <2>8, <2>9 DEF TrafficInv
<1> QED
  BY <1>1, <1>2 DEF Initialise

LEMMA TrafficInvInit == Init => TrafficInv
<1> SUFFICES ASSUME Init PROVE TrafficInv
  OBVIOUS
<1>1. /\ drv.result = "running"
      /\ rx = [status |-> << >>, data |-> << >>, irq_enable |-> FALSE, notified |-> 0,
               arrived |-> 0, read |-> 0]
      /\ task = [at |-> "new", length |-> 0, frame |-> << >>]
      /\ ip = [queue |-> << >>, free |-> Buffers]
      /\ tx = [fifo |-> << >>, mutex |-> FALSE, accepted |-> << >>, wire |-> << >>,
               tight |-> FALSE, overrun |-> FALSE]
      /\ snd = [s \in Sender |-> [at |-> "idle", words |-> << >>, sent |-> 0]]
  BY DEF Init
<1>2. rx \in RxType
  <2>1. 0 \in 0 .. Len(RxSizes)
    BY EthernetAssumption
  <2> QED
    BY <1>1, <2>1 DEF RxType
<1>3. snd \in [Sender -> SndType]
  <2>1. 0 \in 0 .. Len(TxSizes)
    BY EthernetAssumption
  <2> QED
    BY <1>1, <2>1 DEF SndType
<1>4. TrafficType /\ TaskInv
  BY <1>1, <1>2, <1>3, EthernetAssumption DEF TrafficType, TaskType, IpType, TxType, TaskInv
<1>5. RxInv(rx, task)
  <2>1. Packed(<< >>, FrameWords, 0, 0)
    BY PackedNone
  <2> QED
    BY <1>1, <2>1 DEF RxInv
<1>6. MutexInv(tx, snd)
  BY <1>1 DEF MutexInv
<1>7. TxInv(tx, snd)
  <2>1. Packed(<< >>, PacketWords(tx), 0, 0)
    BY PackedNone
  <2>2. \A s \in Sender : snd[s].at # "write"
    BY <1>1
  <2>3. tx.fifo = << >> /\ Len(tx.wire) = 0 /\ Len(tx.accepted) = 0 /\ ~tx.overrun
    BY <1>1
  <2> QED
    BY <2>1, <2>2, <2>3 DEF TxInv
<1>8. BufferInv(ip, snd, task)
  <2>1. Busy(snd) = {}
    BY <1>1 DEF Busy
  <2>2. Cardinality(Busy(snd)) = 0 /\ Len(ip.queue) = 0 /\ Held(task) = 0 /\ ip.free = Buffers
    BY <1>1, <2>1, FS_EmptySet DEF Held
  <2> QED
    BY <2>2, EthernetAssumption DEF BufferInv
<1> QED
  BY <1>4, <1>5, <1>6, <1>7, <1>8 DEF TrafficInv

LEMMA TrafficInvStep == LinkAll /\ TrafficInv /\ [Next]_vars => TrafficInv'
<1> SUFFICES ASSUME LinkAll, TrafficInv, [Next]_vars PROVE TrafficInv'
  OBVIOUS
<1>1. CASE Initialise
  BY <1>1, InitialiseKeeps
<1>2. CASE FrameArrives \/ ETHERNET_Handler \/ IpTask \/ ChipSends
  BY <1>2, FrameArrivesKeeps, HandlerKeeps, IpTaskKeeps, ChipSendsKeeps
<1>3. CASE smsc9220_Receive_task
  BY <1>3, EnableInterruptKeeps, PeekKeeps, AllocateKeeps, ReadFrameKeeps, HandKeeps
     DEF smsc9220_Receive_task
<1>4. CASE \E s \in Sender : Output(s) \/ Send(s)
  BY <1>4, OutputKeeps, TakeMutexKeeps, WriteWordKeeps, GiveMutexKeeps DEF Send
<1>5. CASE UNCHANGED vars
  <2>1. UNCHANGED <<drv, rx, task, ip, tx, snd>>
    BY <1>5 DEF vars
  <2>2. TrafficType' /\ TaskInv'
    BY <2>1 DEF TrafficInv, TrafficType, TaskInv
  <2>3. RxInv(rx, task)' /\ MutexInv(tx, snd)' /\ TxInv(tx, snd)' /\ BufferInv(ip, snd, task)'
    BY <2>1 DEF TrafficInv
  <2> QED
    BY <2>2, <2>3 DEF TrafficInv
<1> QED
  BY <1>1, <1>2, <1>3, <1>4, <1>5 DEF Next

LEMMA TrafficInvImplies == TrafficInv => TrafficIntact
<1> SUFFICES ASSUME TrafficInv PROVE TrafficIntact
  OBVIOUS
<1>1. tx \in TxType /\ TxInv(tx, snd) /\ RxInv(rx, task) /\ BufferInv(ip, snd, task)
  BY DEF TrafficInv, TrafficType
<1>2. task.at = "consider" => task.frame = Frame(rx.read, RxSizes[rx.read])
  BY <1>1 DEF RxInv, Received
<1>3. tx.overrun => tx.tight
  BY <1>1 DEF TxInv
<1>4. Len(tx.wire) <= Len(tx.accepted) /\ \A k \in 1 .. Len(tx.wire) : tx.wire[k] = tx.accepted[k]
  BY <1>1 DEF TxInv
<1>5. tx.wire = SubSeq(tx.accepted, 1, Len(tx.wire))
  <2>1. tx.wire \in Seq(Seq(Nat)) /\ tx.accepted \in Seq(Seq(Nat))
    BY <1>1 DEF TxType
  <2>2. PICK a \in Nat : a = Len(tx.wire)
    BY <2>1
  <2> DEFINE u == SubSeq(tx.accepted, 1, a)
  <2>3. u \in Seq(Seq(Nat)) /\ Len(u) = a /\ \A k \in 1 .. a : u[k] = tx.accepted[k]
    BY <1>4, <2>1, <2>2
  <2> HIDE DEF u
  <2>4. tx.wire = u
    BY <1>4, <2>1, <2>2, <2>3, SeqEqual
  <2> QED
    BY <2>2, <2>4 DEF u
<1>6. {s \in Sender : InUse(s)} = Busy(snd)
  BY DEF InUse, Busy
<1>7. ip.free + Len(ip.queue) + Cardinality({s \in Sender : InUse(s)})
        + (IF task.at \in {"read", "consider"} THEN 1 ELSE 0) = Buffers
  BY <1>1, <1>6 DEF BufferInv, Held
<1> QED
  BY <1>2, <1>3, <1>4, <1>5, <1>7 DEF TrafficIntact

(* What arrives is received byte for byte, and what is accepted is sent,   *)
(* in its order, by any number of tasks; the transmit FIFO overruns only   *)
(* in the gap that the space check leaves, and no network buffer is lost   *)
(* (empty_rx_fifo, fill_tx_fifo, smsc9220_send_by_chunks,                  *)
(* smsc9220_Receive_task and xNetworkInterfaceOutput), for frames and      *)
(* packets of any length.                                                  *)
THEOREM TrafficIntactCorrect == Spec => []TrafficIntact
<1>1. Init => LinkAll /\ TrafficInv
  BY LinkAllInit, TrafficInvInit
<1>2. (LinkAll /\ TrafficInv) /\ [Next]_vars => (LinkAll /\ TrafficInv)'
  BY LinkAllStep, TrafficInvStep
<1>3. LinkAll /\ TrafficInv => TrafficIntact
  BY TrafficInvImplies
<1> QED
  BY <1>1, <1>2, <1>3, PTL DEF Spec
=============================================================================
