---------------------------- MODULE Dma350Proofs ----------------------------
(***************************************************************************)
(* Proofs about Dma350: each of the three programs transfers the right     *)
(* data, for drawings of any size, blocks and groups of any length.        *)
(***************************************************************************)
EXTENDS Dma350, SequenceTheorems, TLAPS

-----------------------------------------------------------------------------
(* Types *)

ChType(R) == [run : BOOLEAN, regs : R, sent : Nat, triggered : BOOLEAN,
              irq : {"none", "trigger_wait", "done"}, nvic : BOOLEAN, clash : BOOLEAN,
              err : BOOLEAN]
CpuType == [at : {"rx_init", "rx_armed", "rx_asleep", "process", "tx_init", "tx_armed",
                  "tx_asleep"},
            in : [1 .. BufferingLen -> Nat], out : [1 .. BufferingLen -> Nat],
            other : Nat, early : BOOLEAN]
UartType == [typed : Nat, held : Nat, taken : Seq(Nat), sent : Seq(Nat)]
PartType == [at : {"test", "wait", "idle", "panic"}, test : 1 .. 4, failed : BOOLEAN,
             to : BOOLEAN]

-----------------------------------------------------------------------------
(* The invariants *)

(* The tasks of the display example do nothing in the other programs. *)
ImageInv ==
    /\ image \in {"display", "triggering", "partition"}
    /\ image # "display" => draw.at = "draw" /\ clcd.at = "setup"

(* The tests of what is refused pass, and the copy is to be seen with its  *)
(* interrupt, unless there was an error.                                   *)
PartInv ==
    /\ part \in PartType
    /\ image # "partition" => part.at = "test" /\ ~part.failed
    /\ image = "partition" =>
         /\ ch \in ChType({Cleared})
         /\ part.failed \/ part.at = "panic" => ch.err
         /\ part.at = "test" => ~part.failed /\ ~ch.run /\ ch.irq = "none"
         /\ part.at = "wait" => ~part.failed /\ (ch.irq = "done" => part.to = ~ch.err)
         /\ part.at = "idle" /\ ch.nvic /\ ch.irq = "done" => ch.err

Multiples == {q * BufferingLen : q \in Nat}

(* The group that character j is in, and the place it comes from *)
Group(j) == ((j - 1) \div BufferingLen) * BufferingLen
From(j) == 2 * Group(j) + BufferingLen + 1 - j

(* Groups up to base are sent; the next one is received or sent. *)
EchoAt(base) ==
    /\ cpu.at = "rx_init" => Len(uart.sent) = base /\ Len(uart.taken) = base /\ ~ch.run
    /\ cpu.at \in {"rx_armed", "rx_asleep"} =>
         /\ Len(uart.sent) = base /\ Len(uart.taken) = base + ch.sent
         /\ ch.sent <= BufferingLen /\ (~ch.run => ch.sent = BufferingLen)
         /\ \A i \in 1 .. ch.sent : cpu.in[i] = uart.taken[base + i]
    /\ cpu.at = "process" =>
         /\ Len(uart.sent) = base /\ Len(uart.taken) = base + BufferingLen /\ ~ch.run
         /\ \A i \in 1 .. BufferingLen : cpu.in[i] = uart.taken[base + i]
    /\ cpu.at = "tx_init" =>
         /\ Len(uart.sent) = base /\ Len(uart.taken) = base + BufferingLen /\ ~ch.run
         /\ \A i \in 1 .. BufferingLen : cpu.out[i] = uart.taken[base + BufferingLen + 1 - i]
    /\ cpu.at \in {"tx_armed", "tx_asleep"} =>
         /\ Len(uart.sent) = base + ch.sent /\ Len(uart.taken) = base + BufferingLen
         /\ ch.sent <= BufferingLen /\ (~ch.run => ch.sent = BufferingLen)
         /\ \A i \in 1 .. BufferingLen : cpu.out[i] = uart.taken[base + BufferingLen + 1 - i]

EchoType ==
    /\ cpu \in CpuType /\ uart \in UartType
    /\ image = "triggering" => ch \in ChType({Cleared}) /\ (ch.run => ch.sent < BufferingLen)

EchoOk ==
    /\ ~ch.clash /\ (ch.irq = "done" => ~ch.run)
    /\ \A j \in 1 .. Len(uart.sent) : uart.sent[j] = uart.taken[From(j)]
    /\ \E base \in Multiples : EchoAt(base)

EchoInv ==
    /\ EchoType
    /\ image # "triggering" => uart.sent = << >> /\ uart.taken = << >>
    /\ image = "triggering" /\ ~cpu.early => EchoOk

(* The registers of the channel after the command that enables it, and     *)
(* after each linked command                                               *)
BlockRegs(src, link) ==
    [src |-> src, xsize |-> 2, ysize |-> Quarter, xinc |-> -1, ystride |-> 2,
     trigger |-> TRUE, done |-> FALSE, link |-> link]
LastRegs == [src |-> 0, xsize |-> 0, ysize |-> 0, xinc |-> 0, ystride |-> 0,
             trigger |-> FALSE, done |-> TRUE, link |-> 0]
StageRegs(k) ==
    IF k = 0 THEN [Cleared EXCEPT !.link = 1]
    ELSE IF k = 5 THEN LastRegs
    ELSE BlockRegs(2 * (k - 1) * Quarter + 1, k + 1)
Stages == {StageRegs(k) : k \in 0 .. 5} \cup {Cleared}

(* The bytes that are sent before command k, and by it *)
Before(k) == IF k = 0 THEN 0 ELSE 2 * (k - 1) * Quarter
Size(k) == IF k \in 1 .. 4 THEN 2 * Quarter ELSE 0

(* Byte j of the display: the high byte of a pixel comes first. *)
PixelByte(b, j) == <<b[(j - 1) \div 2], IF j % 2 = 1 THEN "high" ELSE "low">>
Shown(s, b, n) == Len(s.bytes) = n /\ \A j \in 1 .. n : s.bytes[j] = PixelByte(b, j)
Sending(c, s, b, k) ==
    c.regs = StageRegs(k) /\ c.sent \in 0 .. Size(k) /\ Shown(s, b, Before(k) + c.sent)

DrawType == [at : {"draw", "wait", "deleted"}, col : 0 .. Columns, row : 0 .. Rows,
             transform : Nat, notified : Nat, refused : SUBSET (0 .. Pixels - 1)]
ClcdType == [at : {"setup", "receive", "start", "wait", "notify", "deleted"}, notified : Nat]
ScreenType == [cs : {"high", "low"}, bytes : Seq(Int \X {"low", "high"})]
DisplayType ==
    /\ draw \in DrawType /\ clcd \in ClcdType /\ buf \in [0 .. Pixels - 1 -> Int]
    /\ screen \in ScreenType /\ ch \in ChType(Stages)

(* The two tasks take turns. *)
HandInv(d, l, q) ==
    \/ /\ d.at = "draw" /\ d.notified = 0 /\ q = << >> /\ l.at \in {"setup", "receive"}
    \/ /\ d.at = "wait" /\ d.notified = 0 /\ q = <<"draw">> /\ l.at \in {"setup", "receive"}
    \/ /\ d.at = "wait" /\ d.notified = 0 /\ q = << >> /\ l.at \in {"start", "wait", "notify"}
    \/ /\ d.at = "wait" /\ d.notified = 1 /\ q = << >> /\ l.at = "receive"
    \/ /\ d.at = "deleted" /\ q = <<"no_more_drawing">> /\ l.at \in {"setup", "receive"}
    \/ /\ d.at = "deleted" /\ q = << >> /\ l.at = "deleted"

(* The channel runs, or its interrupt is pending, or the display task is    *)
(* notified, only while that task waits.                                   *)
ChanInv(c, l, s, b) ==
    /\ l.at # "wait" => ~c.run /\ c.irq = "none" /\ l.notified = 0
    /\ l.at = "wait" =>
         /\ s.cs = "low"
         /\ \/ c.run /\ c.irq # "done" /\ l.notified = 0 /\ \E k \in 0 .. 5 : Sending(c, s, b, k)
            \/ ~c.run /\ c.irq = "done" /\ l.notified = 0 /\ Shown(s, b, 2 * Pixels)
            \/ ~c.run /\ c.irq = "none" /\ l.notified = 1 /\ Shown(s, b, 2 * Pixels)
    /\ l.at = "notify" => Shown(s, b, 2 * Pixels)

(* The tiles before the place of the drawing task are drawn, unless their  *)
(* call was refused, and no others.                                        *)
Reached(p, c, r) == p % Columns < c \/ (p % Columns = c /\ p \div Columns < r)
TileValue(p) == (Rows * (p % Columns) + p \div Columns) % Transforms
DrawnInv(d, b) ==
    /\ d.at # "draw" \/ d.col = Columns => d.row = 0
    /\ d.transform = (Rows * d.col + d.row) % Transforms
    /\ \A p \in d.refused : Reached(p, d.col, d.row)
    /\ \A p \in 0 .. Pixels - 1 :
         b[p] = IF p \in d.refused \/ ~Reached(p, d.col, d.row) THEN Blank ELSE TileValue(p)

DisplayOk ==
    /\ DisplayType /\ ~ch.clash
    /\ HandInv(draw, clcd, queue) /\ ChanInv(ch, clcd, screen, buf) /\ DrawnInv(draw, buf)
DisplayInv == image = "display" => DisplayOk

-----------------------------------------------------------------------------
(* Arithmetic *)

LEMMA MultLess ==
    ASSUME NEW n \in Nat, NEW p \in Nat, NEW q \in Nat, p < q
    PROVE  n * p + n <= n * q
<1>1. PICK d \in Nat : q = p + 1 + d
  <2>1. q - (p + 1) \in Nat /\ q = p + 1 + (q - (p + 1))
    OBVIOUS
  <2> QED
    BY <2>1
<1>2. n * q = n * p + n + n * d /\ n * d \in Nat /\ n * p \in Nat
  BY <1>1
<1> QED
  BY <1>2

LEMMA DivMod ==
    ASSUME NEW n \in Nat \ {0}, NEW x \in Nat
    PROVE  x = n * (x \div n) + (x % n) /\ x \div n \in Nat /\ x % n \in 0 .. n - 1
OBVIOUS

LEMMA DivUnique ==
    ASSUME NEW n \in Nat \ {0}, NEW p \in Nat, NEW q \in Nat,
           NEW r \in 0 .. n - 1, NEW s \in 0 .. n - 1, n * p + r = n * q + s
    PROVE  p = q /\ r = s
<1>1. n * p \in Nat /\ n * q \in Nat /\ n \in Nat
  OBVIOUS
<1>2. ASSUME p < q PROVE FALSE
  <2>1. n * p + n <= n * q
    BY <1>1, <1>2, MultLess
  <2> QED
    BY <1>1, <2>1
<1>3. ASSUME q < p PROVE FALSE
  <2>1. n * q + n <= n * p
    BY <1>1, <1>3, MultLess
  <2> QED
    BY <1>1, <2>1
<1>4. p = q
  BY <1>2, <1>3
<1> QED
  BY <1>1, <1>4

(* What division gives for a number made of a multiple and a rest. *)
LEMMA DivOf ==
    ASSUME NEW n \in Nat \ {0}, NEW p \in Nat, NEW r \in 0 .. n - 1
    PROVE  (n * p + r) \div n = p /\ (n * p + r) % n = r /\ n * p + r \in Nat
<1>1. PICK x \in Nat : x = n * p + r
  OBVIOUS
<1>2. PICK d \in Nat, e \in 0 .. n - 1 : d = x \div n /\ e = x % n /\ x = n * d + e
  BY DivMod
<1>3. d = p /\ e = r
  <2>1. n * d + e = n * p + r
    BY <1>1, <1>2
  <2> QED
    BY <2>1, DivUnique
<1> QED
  BY <1>1, <1>2, <1>3

LEMMA MultipleProperties ==
    ASSUME NEW base \in Multiples
    PROVE  /\ base \in Nat /\ base + BufferingLen \in Multiples
           /\ \A i \in 1 .. BufferingLen : Group(base + i) = base
           /\ \A j \in 1 .. base : /\ Group(j) \in Nat /\ Group(j) < j
                                   /\ j <= Group(j) + BufferingLen
                                   /\ Group(j) + BufferingLen <= base
<1> DEFINE B == BufferingLen
<1>1. B \in Nat \ {0}
  BY Dma350Assumption
<1>2. PICK q \in Nat : base = q * B
  BY DEF Multiples
<1> HIDE DEF B
<1>3. base \in Nat /\ base = B * q
  BY <1>1, <1>2
<1>4. base + B \in Multiples
  <2>1. base + B = (q + 1) * B /\ q + 1 \in Nat
    BY <1>1, <1>2
  <2> QED
    BY <2>1 DEF Multiples, B
<1>5. ASSUME NEW i \in 1 .. B PROVE Group(base + i) = base
  <2>1. PICK r \in 0 .. B - 1 : r = i - 1
    BY <1>1
  <2>2. (base + i) - 1 = B * q + r
    BY <1>1, <1>3, <2>1
  <2>3. (B * q + r) \div B = q
    BY <1>1, DivOf
  <2> QED
    BY <1>2, <2>2, <2>3 DEF Group, B
<1>6. ASSUME NEW j \in 1 .. base
      PROVE  /\ Group(j) \in Nat /\ Group(j) < j /\ j <= Group(j) + B /\ Group(j) + B <= base
  <2>1. PICK x \in Nat : x = j - 1 /\ x < base /\ j = x + 1
    BY <1>3
  <2>2. PICK d \in Nat, e \in 0 .. B - 1 : d = x \div B /\ e = x % B /\ x = B * d + e
    BY <1>1, DivMod
  <2>3. Group(j) = d * B
    BY <2>1, <2>2 DEF Group, B
  <2>4. PICK g \in Nat : g = d * B /\ g = B * d
    BY <1>1
  <2>5. d < q
    <3>1. ASSUME d >= q PROVE FALSE
      <4>1. PICK f \in Nat : d = q + f
        <5>1. d - q \in Nat /\ d = q + (d - q)
          BY <3>1
        <5> QED
          BY <5>1
      <4>2. B * d = B * q + B * f /\ B * f \in Nat
        BY <1>1, <4>1
      <4>3. g >= base
        BY <1>3, <2>4, <4>2
      <4> QED
        BY <1>3, <2>1, <2>2, <2>4, <4>3
    <3> QED
      BY <3>1
  <2>6. g + B <= base
    BY <1>1, <1>3, <2>4, <2>5, MultLess
  <2> QED
    BY <1>1, <2>1, <2>2, <2>3, <2>4, <2>6
<1> QED
  BY <1>3, <1>4, <1>5, <1>6 DEF B

LEMMA ZeroIsMultiple == 0 \in Multiples
<1>1. 0 = 0 * BufferingLen
  BY Dma350Assumption
<1> QED
  BY <1>1 DEF Multiples

-----------------------------------------------------------------------------
(* One program runs *)

DisplayStep == drawTask \/ clcdTask \/ ChannelStep \/ ChannelInterrupt
EchoStep == Main \/ EchoInterrupt \/ Environment \/ EchoCopy
PartStep == PartitionStep \/ PartitionCopy

LEMMA DisplayStepOnly ==
    ASSUME ImageInv, DisplayStep
    PROVE  image = "display" /\ UNCHANGED <<image, cpu, uart, part>>
<1>1. CASE drawTask
  BY <1>1 DEF drawTask, DrawTile, RequestDisplay, Notified, NoMoreDrawing, ImageInv, echo
<1>2. CASE clcdTask
  BY <1>2 DEF clcdTask, SetUp, Receive, StartDisplay, Displayed, NotifyDraw, ImageInv, echo
<1>3. CASE ChannelStep
  BY <1>3 DEF ChannelStep, echo
<1>4. CASE ChannelInterrupt
  BY <1>4 DEF ChannelInterrupt, dma_ch_irq_handler, echo
<1> QED
  BY <1>1, <1>2, <1>3, <1>4 DEF DisplayStep

LEMMA EchoStepOnly ==
    ASSUME EchoStep
    PROVE  image = "triggering" /\ UNCHANGED <<image, draw, clcd, queue, buf, screen, part>>
BY DEF EchoStep, Main, EchoInterrupt, Environment, EchoCopy, Triggering, display

LEMMA PartStepOnly ==
    ASSUME PartStep
    PROVE  /\ image = "partition"
           /\ UNCHANGED <<image, draw, clcd, queue, buf, screen, cpu, uart>>
BY DEF PartStep, PartitionStep, PartitionCopy, Partition, display, echo

LEMMA ImageInvInit == Init => ImageInv
BY DEF Init, ImageInv

LEMMA ImageInvStep == ImageInv /\ [Next]_vars => ImageInv'
<1> SUFFICES ASSUME ImageInv, [Next]_vars PROVE ImageInv'
  OBVIOUS
<1>1. CASE DisplayStep
  BY <1>1, DisplayStepOnly DEF ImageInv
<1>2. CASE EchoStep
  BY <1>2, EchoStepOnly DEF ImageInv
<1>3. CASE PartStep
  BY <1>3, PartStepOnly DEF ImageInv
<1>4. CASE UNCHANGED vars
  BY <1>4 DEF ImageInv, vars
<1> QED
  BY <1>1, <1>2, <1>3, <1>4 DEF Next, DisplayStep, EchoStep, PartStep

-----------------------------------------------------------------------------
(* The partition *)

LEMMA TestsRefused == \A k \in 1 .. 3 : Refused(Tests[k])
<1>1. Refused("wrong_channel") /\ Refused("blocking") /\ Refused("priv_address")
  BY DEF Refused, PrivConfig
<1>2. /\ Tests[1] = "wrong_channel" /\ Tests[2] = "blocking" /\ Tests[3] = "priv_address"
  BY DEF Tests
<1>3. \A k \in 1 .. 3 : k = 1 \/ k = 2 \/ k = 3
  OBVIOUS
<1> QED
  BY <1>1, <1>2, <1>3

LEMMA PartInvInit == Init => PartInv
BY DEF Init, PartInv, PartType, ChType

LEMMA PartStepKeeps == ASSUME PartInv, PartStep PROVE PartInv'
<1>1. image = "partition" /\ image' = image
  BY PartStepOnly
<1>2. /\ part \in PartType /\ ch \in ChType({Cleared})
      /\ part.failed \/ part.at = "panic" => ch.err
      /\ part.at = "test" => ~part.failed /\ ~ch.run /\ ch.irq = "none"
      /\ part.at = "wait" => ~part.failed /\ (ch.irq = "done" => part.to = ~ch.err)
      /\ part.at = "idle" /\ ch.nvic /\ ch.irq = "done" => ch.err
  BY <1>1 DEF PartInv
<1> HIDE DEF PartInv
<1>3. CASE RefusalTest
  <2>1. part.test \in 1 .. 3 /\ part.test + 1 \in 1 .. 4
    BY <1>2, <1>3 DEF RefusalTest, Tests, PartType
  <2>2. part' = [part EXCEPT !.test = @ + 1] /\ UNCHANGED ch
    <3>1. ~Refused(Tests[part.test]) = FALSE
      BY <2>1, TestsRefused
    <3> DEFINE n == part.test + 1
               f == part.failed \/ ~Refused(Tests[part.test])
    <3>2. f = part.failed
      BY <1>2, <3>1 DEF PartType
    <3>3. part' = [part EXCEPT !.test = n, !.failed = f] /\ UNCHANGED ch
      BY <1>3 DEF RefusalTest
    <3> QED
      BY <1>2, <3>2, <3>3 DEF PartType
  <2>3. /\ part' \in PartType /\ part'.at = part.at /\ part'.failed = part.failed
        /\ part'.to = part.to
    BY <1>2, <2>1, <2>2 DEF PartType
  <2> QED
    BY <1>1, <1>2, <2>2, <2>3 DEF PartInv
<1>4. CASE StartCopy
  <2>1. /\ part.at = "test" /\ ch' = [ch EXCEPT !.run = TRUE, !.nvic = TRUE, !.err = FALSE]
        /\ part' = [part EXCEPT !.at = "wait", !.to = FALSE]
    BY <1>4 DEF StartCopy, PrivConfig
  <2>2. /\ part' \in PartType /\ part'.at = "wait" /\ part'.failed = part.failed
    BY <1>2, <2>1 DEF PartType
  <2>3. ch' \in ChType({Cleared}) /\ ch'.irq = ch.irq
    BY <1>2, <2>1 DEF ChType
  <2> QED
    BY <1>1, <1>2, <2>1, <2>2, <2>3 DEF PartInv
<1>5. CASE Finished
  <2>1. CASE ch.err
    <3>1. part' = [part EXCEPT !.at = "idle", !.failed = TRUE] /\ UNCHANGED ch
      BY <1>5, <2>1 DEF Finished
    <3>2. part' \in PartType /\ part'.at = "idle"
      BY <1>2, <3>1 DEF PartType
    <3> QED
      BY <1>1, <1>2, <2>1, <3>1, <3>2 DEF PartInv
  <2>2. CASE ~ch.err
    <3>1. /\ part.at = "wait" /\ ch.irq = "done" /\ ~part.failed /\ part.to
      BY <1>2, <1>5, <2>2 DEF Finished
    <3>2. /\ part' = [part EXCEPT !.at = "idle", !.failed = FALSE]
          /\ ch' = [ch EXCEPT !.irq = "none", !.nvic = FALSE]
      BY <1>5, <2>2, <3>1 DEF Finished
    <3>3. part' \in PartType /\ part'.at = "idle" /\ ~part'.failed
      BY <1>2, <3>2 DEF PartType
    <3>4. ch' \in ChType({Cleared}) /\ ch'.irq = "none"
      BY <1>2, <3>2 DEF ChType
    <3> QED
      BY <1>1, <3>3, <3>4 DEF PartInv
  <2> QED
    BY <2>1, <2>2
<1>6. CASE LeftOver
  <2>1. /\ part.at = "idle" /\ ch.err /\ part' = [part EXCEPT !.at = "panic"] /\ UNCHANGED ch
    BY <1>2, <1>6 DEF LeftOver
  <2>2. part' \in PartType /\ part'.at = "panic"
    BY <1>2, <2>1 DEF PartType
  <2> QED
    BY <1>1, <1>2, <2>1, <2>2 DEF PartInv
<1>7. CASE Copy
  <2>1. PICK err \in BOOLEAN : /\ part.at = "wait"
                               /\ ch' = [ch EXCEPT !.run = FALSE, !.irq = "done", !.err = err]
                               /\ part' = [part EXCEPT !.to = ~err]
    BY <1>7 DEF Copy
  <2>2. /\ part' \in PartType /\ part'.at = "wait" /\ part'.failed = part.failed
        /\ part'.to = ~err
    BY <1>2, <2>1 DEF PartType
  <2>3. ch' \in ChType({Cleared}) /\ ch'.err = err
    BY <1>2, <2>1 DEF ChType
  <2> QED
    BY <1>1, <1>2, <2>1, <2>2, <2>3 DEF PartInv
<1> QED
  BY <1>3, <1>4, <1>5, <1>6, <1>7 DEF PartStep, PartitionStep, PartitionCopy

LEMMA PartInvStep == ImageInv /\ PartInv /\ [Next]_vars => PartInv'
<1> SUFFICES ASSUME ImageInv, PartInv, [Next]_vars PROVE PartInv'
  OBVIOUS
<1>1. CASE DisplayStep
  BY <1>1, DisplayStepOnly DEF PartInv
<1>2. CASE EchoStep
  BY <1>2, EchoStepOnly DEF PartInv
<1>3. CASE PartStep
  BY <1>3, PartStepKeeps
<1>4. CASE UNCHANGED vars
  BY <1>4 DEF PartInv, vars
<1> QED
  BY <1>1, <1>2, <1>3, <1>4 DEF Next, DisplayStep, EchoStep, PartStep

(* The partition's tests fail and the partition panics only when the       *)
(* channel reports an error (dma350_unpriv_partition).                     *)
THEOREM PartitionPassesCorrect == Spec => []PartitionPasses
<1>1. Init => ImageInv /\ PartInv
  BY ImageInvInit, PartInvInit
<1>2. (ImageInv /\ PartInv) /\ [Next]_vars => (ImageInv /\ PartInv)'
  BY ImageInvStep, PartInvStep
<1>3. ImageInv /\ PartInv => PartitionPasses
  BY DEF ImageInv, PartInv, PartitionPasses
<1> QED
  BY <1>1, <1>2, <1>3, PTL DEF Spec

-----------------------------------------------------------------------------
(* The triggering example *)

LEMMA EchoInvInit == Init => EchoInv
<1> SUFFICES ASSUME Init PROVE EchoInv
  OBVIOUS
<1>1. BufferingLen \in Nat \ {0}
  BY Dma350Assumption
<1>2. EchoType
  BY <1>1 DEF Init, EchoType, CpuType, UartType, ChType
<1>3. uart.sent = << >> /\ uart.taken = << >>
  BY DEF Init
<1>4. EchoOk
  <2>1. EchoAt(0)
    BY DEF Init, EchoAt
  <2>2. ~ch.clash /\ ~ch.run
    BY DEF Init
  <2> QED
    BY <1>3, <2>1, <2>2, ZeroIsMultiple DEF EchoOk
<1> QED
  BY <1>2, <1>3, <1>4 DEF EchoInv

(* A character that was taken stays where it is. *)
LEMMA FromInside ==
    ASSUME NEW base \in Multiples, NEW j \in 1 .. base
    PROVE  From(j) \in 1 .. base
<1>1. PICK g \in Nat, n \in Nat :
        /\ g = Group(j) /\ n = BufferingLen /\ g < j /\ j <= g + n /\ g + n <= base
  BY MultipleProperties, Dma350Assumption
<1>2. base \in Nat
  BY MultipleProperties
<1>3. 2 * g + n + 1 - j \in 1 .. base
  BY <1>1, <1>2
<1> QED
  BY <1>1, <1>3 DEF From

LEMMA EchoTypeKept ==
    ASSUME EchoType, image = "triggering", EchoStep
    PROVE  EchoType'
<1> DEFINE B == BufferingLen
<1>1. /\ cpu \in CpuType /\ uart \in UartType /\ ch \in ChType({Cleared})
      /\ ch.run => ch.sent < B
  BY DEF EchoType
<1>2. B \in Nat \ {0}
  BY Dma350Assumption
<1>3. image' = image
  BY EchoStepOnly
<1> HIDE DEF B
<1> SUFFICES cpu' \in CpuType /\ uart' \in UartType /\ ch' \in ChType({Cleared})
             /\ (ch'.run => ch'.sent < B)
  BY <1>3 DEF EchoType, B
<1>4. CASE StartTransfer
  <2>1. ch' \in ChType({Cleared}) /\ ch'.sent = 0
    BY <1>1, <1>4 DEF StartTransfer, ChType
  <2>2. cpu' \in CpuType
    BY <1>1, <1>4 DEF StartTransfer, CpuType
  <2> QED
    BY <1>1, <1>2, <1>4, <2>1, <2>2 DEF StartTransfer
<1>5. CASE Sleep
  BY <1>1, <1>5 DEF Sleep, CpuType
<1>6. CASE process_data
  <2>1. Reversed(cpu.in) \in [1 .. BufferingLen -> Nat]
    <3>1. \A i \in 1 .. B : B + 1 - i \in 1 .. B
      BY <1>2
    <3> QED
      BY <1>1, <3>1 DEF Reversed, CpuType, B
  <2> QED
    BY <1>1, <1>6, <2>1 DEF process_data, CpuType
<1>7. Awake \in {"rx_init", "rx_armed", "rx_asleep", "process", "tx_init", "tx_armed", "tx_asleep"}
  BY <1>1 DEF Awake, CpuType
<1>8. CASE TransferDone
  <2>1. ch' \in ChType({Cleared}) /\ ch'.sent = ch.sent /\ ch'.run = ch.run
    BY <1>1, <1>8 DEF TransferDone, ChType
  <2>2. cpu' \in CpuType
    BY <1>1, <1>7, <1>8 DEF TransferDone, CpuType
  <2> QED
    BY <1>1, <1>8, <2>1, <2>2 DEF TransferDone
<1>9. CASE OtherInterrupt
  <2> DEFINE a == Awake
             n == cpu.other + 1
             e == cpu.early \/ ch.run
  <2>1. cpu' = [cpu EXCEPT !.at = a, !.other = n, !.early = e] /\ UNCHANGED <<ch, uart>>
    BY <1>9 DEF OtherInterrupt
  <2>2. n \in Nat /\ e \in BOOLEAN
    BY <1>1 DEF CpuType, ChType
  <2> HIDE DEF a, n, e
  <2>3. cpu' \in CpuType
    BY <1>1, <1>7, <2>1, <2>2 DEF CpuType, a
  <2> QED
    BY <1>1, <2>1, <2>3
<1>10. CASE Typed
  <2> DEFINE n == uart.typed + 1
  <2>1. uart' = [uart EXCEPT !.typed = n, !.held = n] /\ UNCHANGED <<ch, cpu>>
    BY <1>10 DEF Typed
  <2>2. n \in Nat
    BY <1>1 DEF UartType
  <2> HIDE DEF n
  <2>3. uart' \in UartType
    BY <1>1, <2>1, <2>2 DEF UartType
  <2> QED
    BY <1>1, <2>1, <2>3
<1>11. ASSUME ch' = Copied, ch.run PROVE ch' \in ChType({Cleared}) /\ (ch'.run => ch'.sent < B)
  <2> DEFINE n == ch.sent + 1
             r == ch.sent + 1 < BufferingLen
             q == IF ch.sent + 1 = BufferingLen THEN "done" ELSE ch.irq
  <2>1. n \in Nat /\ r \in BOOLEAN /\ q \in {"none", "trigger_wait", "done"} /\ (r => n < B)
    BY <1>1 DEF ChType, B
  <2>2. ch' = [ch EXCEPT !.sent = n, !.run = r, !.irq = q]
    BY <1>1, <1>11 DEF Copied, ChType
  <2> HIDE DEF n, r, q
  <2>3. ch' \in ChType({Cleared}) /\ ch'.run = r /\ ch'.sent = n
    BY <1>1, <2>1, <2>2 DEF ChType
  <2> QED
    BY <2>1, <2>3
<1>12. CASE CopyIn
  <2> DEFINE i == ch.sent + 1
             v == uart.held
  <2>1. v \in Nat /\ uart.taken \in Seq(Nat)
    BY <1>1 DEF UartType
  <2>2. /\ cpu' = [cpu EXCEPT !.in = [@ EXCEPT ![i] = v]]
        /\ uart' = [uart EXCEPT !.held = 0, !.taken = Append(@, v)] /\ ch' = Copied /\ ch.run
    BY <1>12 DEF CopyIn
  <2> HIDE DEF i, v
  <2>3. cpu' \in CpuType
    BY <1>1, <2>1, <2>2 DEF CpuType
  <2>4. Append(uart.taken, v) \in Seq(Nat)
    BY <2>1
  <2>5. uart' \in UartType
    BY <1>1, <2>2, <2>4 DEF UartType
  <2> QED
    BY <1>11, <2>2, <2>3, <2>5
<1>13. CASE CopyOut
  <2> DEFINE v == cpu.out[ch.sent + 1]
             s == Append(uart.sent, v)
  <2>1. v \in Nat
    <3>1. ch.run
      BY <1>13 DEF CopyOut
    <3>2. ch.sent \in Nat
      BY <1>1 DEF ChType
    <3>3. ch.sent + 1 \in 1 .. B
      BY <1>1, <1>2, <3>1, <3>2
    <3> QED
      BY <1>1, <3>3 DEF CpuType, B
  <2>2. uart.sent \in Seq(Nat)
    BY <1>1 DEF UartType
  <2>3. s \in Seq(Nat)
    BY <2>1, <2>2
  <2>4. uart' = [uart EXCEPT !.sent = s] /\ ch' = Copied /\ ch.run /\ UNCHANGED cpu
    BY <1>13 DEF CopyOut
  <2> HIDE DEF v, s
  <2>5. uart' \in UartType
    BY <1>1, <2>3, <2>4 DEF UartType
  <2> QED
    BY <1>1, <1>11, <2>4, <2>5
<1> QED
  BY <1>4, <1>5, <1>6, <1>8, <1>9, <1>10, <1>12, <1>13
  DEF EchoStep, Main, EchoInterrupt, Environment, EchoCopy

(* The parts of the invariant that an action of the CPU does not touch, or *)
(* one of the UARTs.                                                       *)
LEMMA EchoOkStep ==
    ASSUME EchoOk, ~ch'.clash, ch'.irq = "done" => ~ch'.run,
           uart'.sent = uart.sent, uart'.taken = uart.taken,
           \A base \in Multiples : EchoAt(base) => \E b \in Multiples : EchoAt(b)'
    PROVE  EchoOk'
BY DEF EchoOk

LEMMA CpuStepOk ==
    ASSUME EchoType, image = "triggering", EchoOk,
           StartTransfer \/ Sleep \/ process_data, ch.irq = "none"
    PROVE  EchoOk'
<1> DEFINE B == BufferingLen
<1>1. /\ cpu \in CpuType /\ uart \in UartType /\ ch \in ChType({Cleared})
      /\ ~ch.clash /\ B \in Nat \ {0}
  BY Dma350Assumption DEF EchoType, EchoOk
<1>2. UNCHANGED uart
  BY DEF StartTransfer, Sleep, process_data
<1>3. CASE StartTransfer
  <2>1. CASE cpu.at = "rx_init"
    <3>1. cpu' = [cpu EXCEPT !.at = "rx_armed"]
      BY <1>3, <2>1 DEF StartTransfer
    <3>2. cpu'.at = "rx_armed" /\ cpu'.in = cpu.in
      BY <1>1, <3>1 DEF CpuType
    <3>3. ~ch.run
      BY <2>1 DEF EchoOk, EchoAt
    <3>4. ch' = [ch EXCEPT !.run = TRUE, !.sent = 0, !.nvic = TRUE, !.clash = FALSE]
      BY <1>1, <1>3, <3>3 DEF StartTransfer
    <3>5. ch'.run /\ ch'.sent = 0 /\ ~ch'.clash /\ ch'.irq = "none"
      BY <1>1, <3>4 DEF ChType
    <3>6. ASSUME NEW base \in Multiples, EchoAt(base) PROVE EchoAt(base)'
      <4>1. Len(uart.sent) = base /\ Len(uart.taken) = base /\ base \in Nat
        BY <2>1, <3>6, MultipleProperties DEF EchoAt
      <4>2. Len(uart.taken) = base + 0 /\ 0 <= B
        BY <1>1, <4>1
      <4> QED
        BY <1>2, <3>2, <3>5, <4>1, <4>2 DEF EchoAt
    <3> QED
      BY <1>2, <3>5, <3>6, EchoOkStep
  <2>2. CASE cpu.at = "tx_init"
    <3>1. cpu' = [cpu EXCEPT !.at = "tx_armed"]
      BY <1>3, <2>2 DEF StartTransfer
    <3>2. cpu'.at = "tx_armed" /\ cpu'.out = cpu.out
      BY <1>1, <3>1 DEF CpuType
    <3>3. ~ch.run
      BY <2>2 DEF EchoOk, EchoAt
    <3>4. ch' = [ch EXCEPT !.run = TRUE, !.sent = 0, !.nvic = TRUE, !.clash = FALSE]
      BY <1>1, <1>3, <3>3 DEF StartTransfer
    <3>5. ch'.run /\ ch'.sent = 0 /\ ~ch'.clash /\ ch'.irq = "none"
      BY <1>1, <3>4 DEF ChType
    <3>6. ASSUME NEW base \in Multiples, EchoAt(base) PROVE EchoAt(base)'
      <4>1. /\ Len(uart.sent) = base /\ Len(uart.taken) = base + B /\ base \in Nat
            /\ \A i \in 1 .. B : cpu.out[i] = uart.taken[base + B + 1 - i]
        BY <2>2, <3>6, MultipleProperties DEF EchoAt
      <4>2. Len(uart.sent) = base + 0 /\ 0 <= B
        BY <1>1, <4>1
      <4> QED
        BY <1>2, <3>2, <3>5, <4>1, <4>2 DEF EchoAt
    <3> QED
      BY <1>2, <3>5, <3>6, EchoOkStep
  <2> QED
    BY <1>3, <2>1, <2>2 DEF StartTransfer
<1>4. CASE Sleep
  <2>1. /\ UNCHANGED ch
        /\ \/ cpu.at = "rx_armed" /\ cpu' = [cpu EXCEPT !.at = "rx_asleep"]
           \/ cpu.at = "tx_armed" /\ cpu' = [cpu EXCEPT !.at = "tx_asleep"]
    BY <1>4 DEF Sleep
  <2>2. /\ \/ cpu.at = "rx_armed" /\ cpu'.at = "rx_asleep"
           \/ cpu.at = "tx_armed" /\ cpu'.at = "tx_asleep"
        /\ cpu'.in = cpu.in /\ cpu'.out = cpu.out
    BY <1>1, <2>1 DEF CpuType
  <2>3. ASSUME NEW base \in Multiples, EchoAt(base) PROVE EchoAt(base)'
    BY <1>2, <2>1, <2>2, <2>3 DEF EchoAt
  <2>4. ~ch'.clash /\ (ch'.irq = "done" => ~ch'.run)
    BY <2>1 DEF EchoOk
  <2> QED
    BY <1>2, <2>3, <2>4, EchoOkStep
<1>5. CASE process_data
  <2> DEFINE r == Reversed(cpu.in)
  <2>1. cpu.at = "process" /\ cpu' = [cpu EXCEPT !.at = "tx_init", !.out = r] /\ UNCHANGED ch
    BY <1>5 DEF process_data
  <2>2. \A i \in 1 .. B : r[i] = cpu.in[B + 1 - i]
    BY DEF Reversed
  <2> HIDE DEF r
  <2>3. cpu'.at = "tx_init" /\ cpu'.out = r
    BY <1>1, <2>1 DEF CpuType
  <2>4. ASSUME NEW base \in Multiples, EchoAt(base) PROVE EchoAt(base)'
    <3>1. /\ Len(uart.sent) = base /\ Len(uart.taken) = base + B /\ ~ch.run
          /\ \A i \in 1 .. B : cpu.in[i] = uart.taken[base + i]
      BY <2>1, <2>4 DEF EchoAt
    <3>2. base \in Nat
      BY MultipleProperties
    <3>3. \A i \in 1 .. B : B + 1 - i \in 1 .. B /\ base + (B + 1 - i) = base + B + 1 - i
      BY <1>1, <3>2
    <3>4. \A i \in 1 .. B : r[i] = uart.taken[base + B + 1 - i]
      <4> TAKE i \in 1 .. B
      <4>1. PICK k \in 1 .. B : k = B + 1 - i
        BY <3>3
      <4>2. r[i] = cpu.in[k] /\ cpu.in[k] = uart.taken[base + k]
        BY <2>2, <3>1, <4>1
      <4>3. base + k = base + B + 1 - i
        BY <3>3, <4>1
      <4> QED
        BY <4>2, <4>3
    <3> QED
      BY <1>2, <2>1, <2>3, <3>1, <3>4 DEF EchoAt
  <2>5. ~ch'.clash /\ (ch'.irq = "done" => ~ch'.run)
    BY <2>1 DEF EchoOk
  <2> QED
    BY <1>2, <2>4, <2>5, EchoOkStep
<1> QED
  BY <1>3, <1>4, <1>5

LEMMA WakeOk ==
    ASSUME EchoType, image = "triggering", EchoOk, TransferDone \/ OtherInterrupt, ~cpu'.early
    PROVE  EchoOk'
<1> DEFINE B == BufferingLen
<1>1. /\ cpu \in CpuType /\ uart \in UartType /\ ch \in ChType({Cleared})
      /\ ~ch.clash /\ B \in Nat \ {0} /\ UNCHANGED uart
  BY Dma350Assumption DEF EchoType, EchoOk, TransferDone, OtherInterrupt
<1>2. /\ ~ch.run /\ cpu'.at = Awake /\ cpu'.in = cpu.in /\ cpu'.out = cpu.out
      /\ ch'.run = ch.run /\ ch'.sent = ch.sent /\ ch'.clash = ch.clash
  <2>1. CASE TransferDone
    <3>1. /\ cpu' = [cpu EXCEPT !.at = Awake] /\ ch' = [ch EXCEPT !.irq = "none"] /\ ~ch.run
      BY <2>1 DEF TransferDone, EchoOk
    <3> QED
      BY <1>1, <3>1 DEF CpuType, ChType
  <2>2. CASE OtherInterrupt
    <3> DEFINE n == cpu.other + 1
               e == cpu.early \/ ch.run
    <3>1. /\ cpu' = [cpu EXCEPT !.at = Awake, !.other = n, !.early = e] /\ UNCHANGED ch
      BY <2>2 DEF OtherInterrupt
    <3> HIDE DEF e, n
    <3>2. cpu'.early = e /\ cpu'.at = Awake /\ cpu'.in = cpu.in /\ cpu'.out = cpu.out
      BY <1>1, <3>1 DEF CpuType
    <3> QED
      BY <3>1, <3>2 DEF e
  <2> QED
    BY <2>1, <2>2
<1>3. ASSUME NEW base \in Multiples, EchoAt(base) PROVE \E b \in Multiples : EchoAt(b)'
  <2>1. base + B \in Multiples /\ base \in Nat
    BY MultipleProperties
  <2>2. CASE cpu.at = "rx_asleep"
    <3>1. cpu'.at = "process"
      BY <1>2, <2>2 DEF Awake
    <3>2. EchoAt(base)'
      BY <1>1, <1>2, <1>3, <2>2, <3>1 DEF EchoAt
    <3> QED
      BY <3>2
  <2>3. CASE cpu.at = "tx_asleep"
    <3>1. cpu'.at = "rx_init"
      BY <1>2, <2>3 DEF Awake
    <3>2. EchoAt(base + B)'
      BY <1>1, <1>2, <1>3, <2>3, <3>1 DEF EchoAt
    <3> QED
      BY <2>1, <3>2
  <2>4. CASE cpu.at \notin {"rx_asleep", "tx_asleep"}
    <3>1. cpu'.at = cpu.at
      BY <1>2, <2>4 DEF Awake
    <3>2. EchoAt(base)'
      BY <1>1, <1>2, <1>3, <3>1 DEF EchoAt
    <3> QED
      BY <3>2
  <2> QED
    BY <2>2, <2>3, <2>4
<1> QED
  BY <1>1, <1>2, <1>3, EchoOkStep

LEMMA CopiedFields ==
    ASSUME ch \in ChType({Cleared}), ch' = Copied, ch.run, ch.sent < BufferingLen
    PROVE  /\ ch'.sent = ch.sent + 1 /\ ch'.clash = ch.clash /\ ch.sent \in Nat
           /\ ch.sent + 1 <= BufferingLen
           /\ ~ch'.run => ch.sent + 1 = BufferingLen
           /\ ch.irq # "done" => (ch'.irq = "done" => ~ch'.run)
<1> DEFINE n == ch.sent + 1
           r == ch.sent + 1 < BufferingLen
           q == IF ch.sent + 1 = BufferingLen THEN "done" ELSE ch.irq
<1>1. ch.sent \in Nat /\ BufferingLen \in Nat
  BY Dma350Assumption DEF ChType
<1>2. n <= BufferingLen /\ (~r => n = BufferingLen) /\ (n = BufferingLen => ~r)
  BY <1>1
<1>3. ch.irq # "done" => (q = "done" => n = BufferingLen)
  OBVIOUS
<1>4. ch' = [ch EXCEPT !.sent = n, !.run = r, !.irq = q]
  BY DEF Copied, ChType
<1> HIDE DEF n, r, q
<1>5. ch'.sent = n /\ ch'.run = r /\ ch'.irq = q /\ ch'.clash = ch.clash
  BY <1>4 DEF ChType
<1>6. n = ch.sent + 1
  BY DEF n
<1> QED
  BY <1>1, <1>2, <1>3, <1>5, <1>6

LEMMA CopyInOk ==
    ASSUME EchoType, image = "triggering", EchoOk, CopyIn
    PROVE  EchoOk'
<1> DEFINE B == BufferingLen
           n == ch.sent
           v == uart.held
           t == Append(uart.taken, v)
<1>1. /\ cpu \in CpuType /\ uart \in UartType /\ ch \in ChType({Cleared})
      /\ ~ch.clash /\ B \in Nat \ {0} /\ (ch.irq = "done" => ~ch.run)
  BY Dma350Assumption DEF EchoType, EchoOk
<1>2. /\ ch.run /\ cpu.at \in {"rx_armed", "rx_asleep"} /\ ch' = Copied
      /\ cpu' = [cpu EXCEPT !.in = [@ EXCEPT ![n + 1] = v]]
      /\ uart' = [uart EXCEPT !.held = 0, !.taken = t]
  BY DEF CopyIn, Receiving
<1>3. n < B
  BY <1>2 DEF EchoType
<1>4. /\ ch'.sent = n + 1 /\ ~ch'.clash /\ n \in Nat /\ n + 1 <= B
      /\ (~ch'.run => n + 1 = B) /\ (ch'.irq = "done" => ~ch'.run)
  <2>1. ch.irq # "done"
    BY <1>1, <1>2
  <2> QED
    BY <1>1, <1>2, <1>3, <2>1, CopiedFields
<1>5. uart.taken \in Seq(Nat) /\ uart.sent \in Seq(Nat) /\ v \in Nat
  BY <1>1 DEF UartType
<1> HIDE DEF n, v
<1>6. /\ Len(t) = Len(uart.taken) + 1 /\ t[Len(uart.taken) + 1] = v
      /\ \A i \in 1 .. Len(uart.taken) : t[i] = uart.taken[i]
  BY <1>5, AppendProperties
<1> HIDE DEF t
<1>7. uart'.taken = t /\ uart'.sent = uart.sent
  BY <1>1, <1>2 DEF UartType
<1> DEFINE in == [cpu.in EXCEPT ![n + 1] = v]
<1>8. cpu.in \in [1 .. B -> Nat] /\ n + 1 \in 1 .. B
  BY <1>1, <1>4 DEF CpuType
<1>9. in[n + 1] = v /\ \A i \in 1 .. B : i # n + 1 => in[i] = cpu.in[i]
  BY <1>8
<1>10. cpu' = [cpu EXCEPT !.in = in]
  BY <1>2
<1> HIDE DEF in
<1>11. cpu'.at = cpu.at /\ cpu'.in = in
  BY <1>1, <1>10 DEF CpuType
<1>12. PICK base \in Multiples : EchoAt(base)
  BY DEF EchoOk
<1>13. /\ Len(uart.sent) = base /\ Len(uart.taken) = base + n
       /\ \A i \in 1 .. n : cpu.in[i] = uart.taken[base + i]
  BY <1>2, <1>12 DEF EchoAt, n
<1>14. base \in Nat
  BY MultipleProperties
<1>15. EchoAt(base)'
  <2>1. Len(t) = base + (n + 1)
    BY <1>4, <1>6, <1>13, <1>14
  <2>2. ASSUME NEW i \in 1 .. n + 1 PROVE in[i] = t[base + i]
    <3>1. CASE i = n + 1
      <4>1. base + i = (base + n) + 1
        BY <1>4, <1>14, <3>1
      <4>2. t[(base + n) + 1] = v
        BY <1>6, <1>13
      <4> QED
        BY <1>9, <3>1, <4>1, <4>2
    <3>2. CASE i # n + 1
      <4>1. i \in 1 .. n /\ i \in 1 .. B /\ base + i \in 1 .. base + n
        BY <1>1, <1>4, <1>14, <3>2
      <4>2. t[base + i] = uart.taken[base + i]
        BY <1>6, <1>13, <4>1
      <4> QED
        BY <1>9, <1>13, <3>2, <4>1, <4>2
    <3> QED
      BY <3>1, <3>2
  <2> QED
    BY <1>2, <1>4, <1>7, <1>11, <1>13, <2>1, <2>2 DEF EchoAt
<1>16. \A j \in 1 .. Len(uart'.sent) : uart'.sent[j] = uart'.taken[From(j)]
  <2> SUFFICES ASSUME NEW j \in 1 .. base PROVE uart.sent[j] = t[From(j)]
    BY <1>7, <1>13
  <2>1. From(j) \in 1 .. base
    BY FromInside
  <2>2. From(j) \in 1 .. Len(uart.taken)
    BY <1>4, <1>13, <1>14, <2>1
  <2>3. uart.sent[j] = uart.taken[From(j)]
    BY <1>13 DEF EchoOk
  <2> QED
    BY <1>6, <2>2, <2>3
<1> QED
  BY <1>4, <1>15, <1>16 DEF EchoOk

LEMMA CopyOutOk ==
    ASSUME EchoType, image = "triggering", EchoOk, CopyOut
    PROVE  EchoOk'
<1> DEFINE B == BufferingLen
           n == ch.sent
           v == cpu.out[n + 1]
           s == Append(uart.sent, v)
<1>1. /\ cpu \in CpuType /\ uart \in UartType /\ ch \in ChType({Cleared})
      /\ ~ch.clash /\ B \in Nat \ {0} /\ (ch.irq = "done" => ~ch.run)
  BY Dma350Assumption DEF EchoType, EchoOk
<1>2. /\ ch.run /\ cpu.at \in {"tx_armed", "tx_asleep"} /\ ch' = Copied /\ UNCHANGED cpu
      /\ uart' = [uart EXCEPT !.sent = s]
  BY DEF CopyOut
<1>3. n < B
  BY <1>2 DEF EchoType
<1>4. /\ ch'.sent = n + 1 /\ ~ch'.clash /\ n \in Nat /\ n + 1 <= B
      /\ (~ch'.run => n + 1 = B) /\ (ch'.irq = "done" => ~ch'.run)
  <2>1. ch.irq # "done"
    BY <1>1, <1>2
  <2> QED
    BY <1>1, <1>2, <1>3, <2>1, CopiedFields
<1> HIDE DEF n
<1>5. n + 1 \in 1 .. B
  BY <1>1, <1>4
<1>6. uart.taken \in Seq(Nat) /\ uart.sent \in Seq(Nat) /\ v \in Nat
  BY <1>1, <1>5 DEF UartType, CpuType
<1> HIDE DEF v
<1>7. /\ Len(s) = Len(uart.sent) + 1 /\ s[Len(uart.sent) + 1] = v
      /\ \A i \in 1 .. Len(uart.sent) : s[i] = uart.sent[i]
  BY <1>6, AppendProperties
<1> HIDE DEF s
<1>8. uart'.sent = s /\ uart'.taken = uart.taken
  BY <1>1, <1>2 DEF UartType
<1>9. PICK base \in Multiples : EchoAt(base)
  BY DEF EchoOk
<1>10. /\ Len(uart.sent) = base + n /\ Len(uart.taken) = base + B
       /\ \A i \in 1 .. B : cpu.out[i] = uart.taken[base + B + 1 - i]
  BY <1>2, <1>9 DEF EchoAt, n
<1>11. base \in Nat /\ Group(base + (n + 1)) = base
  BY <1>5, MultipleProperties
<1>12. Len(s) = base + (n + 1)
  BY <1>4, <1>7, <1>10, <1>11
<1>13. EchoAt(base)'
  BY <1>2, <1>4, <1>8, <1>10, <1>12 DEF EchoAt
<1>14. From(base + (n + 1)) = base + B + 1 - (n + 1)
  <2>1. 2 * base + B + 1 - (base + (n + 1)) = base + B + 1 - (n + 1)
    BY <1>1, <1>4, <1>11
  <2> QED
    BY <1>11, <2>1 DEF From
<1>15. \A j \in 1 .. Len(uart'.sent) : uart'.sent[j] = uart'.taken[From(j)]
  <2> SUFFICES ASSUME NEW j \in 1 .. base + (n + 1) PROVE s[j] = uart.taken[From(j)]
    BY <1>8, <1>12
  <2>1. CASE j = base + (n + 1)
    <3>1. s[j] = v
      <4>1. j = (base + n) + 1
        BY <1>4, <1>11, <2>1
      <4> QED
        BY <1>7, <1>10, <4>1
    <3>2. v = uart.taken[base + B + 1 - (n + 1)]
      BY <1>5, <1>10 DEF v
    <3> QED
      BY <1>14, <2>1, <3>1, <3>2
  <2>2. CASE j # base + (n + 1)
    <3>1. j \in 1 .. Len(uart.sent)
      BY <1>4, <1>10, <1>11, <2>2
    <3> QED
      BY <1>7, <3>1 DEF EchoOk
  <2> QED
    BY <2>1, <2>2
<1> QED
  BY <1>4, <1>13, <1>15 DEF EchoOk

LEMMA EchoStepKeeps == ASSUME EchoInv, EchoStep PROVE EchoInv'
<1>1. image = "triggering" /\ image' = image
  BY EchoStepOnly
<1>2. EchoType /\ EchoType'
  BY <1>1, EchoTypeKept DEF EchoInv
<1>3. ASSUME ~cpu'.early PROVE ~cpu.early
  <2>1. cpu \in CpuType /\ cpu.in \in [1 .. BufferingLen -> Nat]
    BY <1>2 DEF EchoType, CpuType
  <2>2. CASE StartTransfer
    BY <1>3, <2>1, <2>2 DEF StartTransfer, CpuType
  <2>3. CASE Sleep
    BY <1>3, <2>1, <2>3 DEF Sleep, CpuType
  <2>4. CASE process_data
    <3> DEFINE r == Reversed(cpu.in)
    <3>1. cpu' = [cpu EXCEPT !.at = "tx_init", !.out = r]
      BY <2>4 DEF process_data
    <3> HIDE DEF r
    <3> QED
      BY <1>3, <2>1, <3>1 DEF CpuType
  <2>5. CASE TransferDone
    <3> DEFINE a == Awake
    <3>1. cpu' = [cpu EXCEPT !.at = a]
      BY <2>5 DEF TransferDone
    <3> HIDE DEF a
    <3> QED
      BY <1>3, <2>1, <3>1 DEF CpuType
  <2>6. CASE OtherInterrupt
    <3> DEFINE a == Awake
               n == cpu.other + 1
               e == cpu.early \/ ch.run
    <3>1. cpu' = [cpu EXCEPT !.at = a, !.other = n, !.early = e]
      BY <2>6 DEF OtherInterrupt
    <3> HIDE DEF a, n, e
    <3>2. cpu'.early = e
      BY <2>1, <3>1 DEF CpuType
    <3> QED
      BY <1>3, <3>2 DEF e
  <2>7. CASE CopyIn
    <3> DEFINE f == [cpu.in EXCEPT ![ch.sent + 1] = uart.held]
    <3>1. cpu' = [cpu EXCEPT !.in = f]
      BY <2>7 DEF CopyIn
    <3> HIDE DEF f
    <3> QED
      BY <1>3, <2>1, <3>1 DEF CpuType
  <2>8. CASE Typed \/ CopyOut
    BY <1>3, <2>8 DEF Typed, CopyOut
  <2> QED
    BY <2>2, <2>3, <2>4, <2>5, <2>6, <2>7, <2>8
    DEF EchoStep, Main, EchoInterrupt, Environment, EchoCopy
<1>4. ASSUME ~cpu'.early PROVE EchoOk'
  <2>1. EchoOk
    BY <1>1, <1>3, <1>4 DEF EchoInv
  <2>2. CASE Main
    BY <1>1, <1>2, <2>1, <2>2, CpuStepOk DEF Main
  <2>3. CASE TransferDone \/ OtherInterrupt
    BY <1>1, <1>2, <1>4, <2>1, <2>3, WakeOk
  <2>4. CASE CopyIn
    BY <1>1, <1>2, <2>1, <2>4, CopyInOk
  <2>5. CASE CopyOut
    BY <1>1, <1>2, <2>1, <2>5, CopyOutOk
  <2>6. CASE Typed
    <3> DEFINE n == uart.typed + 1
    <3>1. uart' = [uart EXCEPT !.typed = n, !.held = n] /\ UNCHANGED <<ch, cpu>>
      BY <2>6 DEF Typed
    <3> HIDE DEF n
    <3>2. uart'.sent = uart.sent /\ uart'.taken = uart.taken
      BY <1>2, <3>1 DEF EchoType, UartType
    <3>3. \A base \in Multiples : EchoAt(base) => EchoAt(base)'
      BY <3>1, <3>2 DEF EchoAt
    <3>4. ~ch'.clash /\ (ch'.irq = "done" => ~ch'.run)
      BY <2>1, <3>1 DEF EchoOk
    <3> QED
      BY <2>1, <3>2, <3>3, <3>4, EchoOkStep
  <2> QED
    BY <2>2, <2>3, <2>4, <2>5, <2>6 DEF EchoStep, EchoInterrupt, Environment, EchoCopy
<1> QED
  BY <1>1, <1>2, <1>4 DEF EchoInv

LEMMA EchoInvStep == ImageInv /\ EchoInv /\ [Next]_vars => EchoInv'
<1> SUFFICES ASSUME ImageInv, EchoInv, [Next]_vars PROVE EchoInv'
  OBVIOUS
<1>1. CASE DisplayStep
  BY <1>1, DisplayStepOnly DEF EchoInv, EchoType
<1>2. CASE EchoStep
  BY <1>2, EchoStepKeeps
<1>3. CASE PartStep
  BY <1>3, PartStepOnly DEF EchoInv, EchoType
<1>4. CASE UNCHANGED vars
  <2>1. UNCHANGED <<image, ch, cpu, uart>>
    BY <1>4 DEF vars
  <2>2. EchoType'
    BY <2>1 DEF EchoInv, EchoType
  <2>3. EchoOk => EchoOk'
    BY <2>1 DEF EchoOk, EchoAt
  <2> QED
    BY <2>1, <2>2, <2>3 DEF EchoInv
<1> QED
  BY <1>1, <1>2, <1>3, <1>4 DEF Next, DisplayStep, EchoStep, PartStep

LEMMA EchoInvImplies == ImageInv /\ EchoInv => EchoReversed
<1> SUFFICES ASSUME ImageInv, EchoInv, ~cpu.early
             PROVE  /\ image = "triggering" => ~ch.clash
                    /\ Len(uart.sent) <= Len(uart.taken)
                    /\ \A j \in 1 .. Len(uart.sent) : uart.sent[j] = uart.taken[From(j)]
  BY DEF EchoReversed, From, Group
<1>1. CASE image # "triggering"
  BY <1>1 DEF EchoInv
<1>2. CASE image = "triggering"
  <2>1. EchoOk
    BY <1>2 DEF EchoInv
  <2>2. PICK base \in Multiples : EchoAt(base)
    BY <2>1 DEF EchoOk
  <2>3. base \in Nat /\ BufferingLen \in Nat /\ ch.sent \in Nat
    BY <1>2, MultipleProperties, Dma350Assumption DEF EchoInv, EchoType, ChType
  <2>4. cpu.at \in {"rx_init", "rx_armed", "rx_asleep", "process", "tx_init", "tx_armed",
                    "tx_asleep"}
    BY DEF EchoInv, EchoType, CpuType
  <2>5. Len(uart.sent) <= Len(uart.taken)
    BY <2>2, <2>3, <2>4 DEF EchoAt
  <2> QED
    BY <2>1, <2>5 DEF EchoOk
<1> QED
  BY <1>1, <1>2

(* The characters sent are those taken, each group of them reversed, for   *)
(* groups of any length, unless another interrupt ends __WFI() during a    *)
(* transfer (triggering_example/main_ns.c).                                *)
THEOREM EchoReversedCorrect == Spec => []EchoReversed
<1>1. Init => ImageInv /\ EchoInv
  BY ImageInvInit, EchoInvInit
<1>2. (ImageInv /\ EchoInv) /\ [Next]_vars => (ImageInv /\ EchoInv)'
  BY ImageInvStep, EchoInvStep
<1>3. ImageInv /\ EchoInv => EchoReversed
  BY EchoInvImplies
<1> QED
  BY <1>1, <1>2, <1>3, PTL DEF Spec

-----------------------------------------------------------------------------
(* Tiles and bytes *)

LEMMA PixelCount ==
    Pixels \in Nat \ {0} /\ Quarter \in Nat /\ Pixels = 4 * Quarter
    /\ Columns \in Nat \ {0} /\ Rows \in Nat \ {0} /\ Transforms \in Nat \ {0}
<1>1. /\ Columns \in Nat \ {0} /\ Rows \in Nat \ {0} /\ Transforms \in Nat \ {0}
      /\ Pixels % 4 = 0
  BY Dma350Assumption DEF Pixels
<1>2. Pixels \in Nat \ {0}
  BY <1>1 DEF Pixels
<1>3. Pixels = 4 * (Pixels \div 4) + (Pixels % 4) /\ Pixels \div 4 \in Nat
  BY <1>2
<1> QED
  BY <1>1, <1>2, <1>3 DEF Quarter

LEMMA TilePlace ==
    ASSUME NEW c \in Nat, NEW r \in Nat, c < Columns, r < Rows
    PROVE  /\ Tile(c, r) \in 0 .. Pixels - 1
           /\ Tile(c, r) % Columns = c /\ Tile(c, r) \div Columns = r
<1>1. Columns \in Nat \ {0} /\ Rows \in Nat /\ Pixels \in Nat
  BY PixelCount
<1>2. c \in 0 .. Columns - 1
  BY <1>1
<1>3. /\ (Columns * r + c) \div Columns = r /\ (Columns * r + c) % Columns = c
      /\ Columns * r + c \in Nat
  BY <1>1, <1>2, DivOf
<1>4. Columns * r + Columns <= Columns * Rows
  BY <1>1, MultLess
<1>5. Columns * r + c \in 0 .. Columns * Rows - 1
  BY <1>1, <1>2, <1>3, <1>4
<1> QED
  BY <1>3, <1>5 DEF Tile, Pixels

LEMMA PlaceOf ==
    ASSUME NEW p \in 0 .. Pixels - 1
    PROVE  /\ p % Columns \in 0 .. Columns - 1 /\ p \div Columns \in 0 .. Rows - 1
           /\ p = Tile(p % Columns, p \div Columns)
<1>1. Columns \in Nat \ {0} /\ Rows \in Nat /\ Pixels \in Nat
  BY PixelCount
<1>2. p \in Nat /\ p < Columns * Rows
  BY <1>1 DEF Pixels
<1>3. PICK r \in Nat, c \in 0 .. Columns - 1 :
        r = p \div Columns /\ c = p % Columns /\ p = Columns * r + c
  BY <1>1, <1>2, DivMod
<1>4. r < Rows
  <2>1. ASSUME Rows <= r PROVE FALSE
    <3>1. PICK d \in Nat : r = Rows + d
      <4>1. r - Rows \in Nat /\ r = Rows + (r - Rows)
        BY <1>1, <2>1
      <4> QED
        BY <4>1
    <3>2. Columns * r = Columns * Rows + Columns * d /\ Columns * d \in Nat
          /\ Columns * Rows \in Nat
      BY <1>1, <3>1
    <3> QED
      BY <1>1, <1>2, <1>3, <3>2
  <2> QED
    BY <1>1, <2>1
<1>5. r \in 0 .. Rows - 1
  BY <1>1, <1>4
<1> QED
  BY <1>3, <1>5 DEF Tile

LEMMA NextTransformOf ==
    ASSUME NEW n \in Nat
    PROVE  NextTransform(n % Transforms) = (n + 1) % Transforms
           /\ n % Transforms \in Nat
<1> DEFINE T == Transforms
<1>1. T \in Nat \ {0}
  BY PixelCount
<1> HIDE DEF T
<1>2. PICK q \in Nat, r \in 0 .. T - 1 : r = n % T /\ n = T * q + r
  BY <1>1, DivMod
<1>3. CASE r + 1 >= T
  <2>1. n + 1 = T * (q + 1) + 0 /\ q + 1 \in Nat /\ 0 \in 0 .. T - 1
    BY <1>1, <1>2, <1>3
  <2>2. (T * (q + 1) + 0) % T = 0
    BY <1>1, <2>1, DivOf
  <2> QED
    BY <1>2, <1>3, <2>1, <2>2 DEF NextTransform, T
<1>4. CASE ~(r + 1 >= T)
  <2>1. r + 1 \in 0 .. T - 1
    BY <1>1, <1>4
  <2>2. n + 1 = T * q + (r + 1)
    BY <1>1, <1>2
  <2>3. (T * q + (r + 1)) % T = r + 1
    BY <1>1, <2>1, DivOf
  <2> QED
    BY <1>2, <1>4, <2>2, <2>3 DEF NextTransform, T
<1> QED
  BY <1>3, <1>4

(* The place of the drawing task, and the one after it *)
LEMMA ReachedNext ==
    ASSUME NEW c \in 0 .. Columns - 1, NEW r \in 0 .. Rows - 1, NEW p \in 0 .. Pixels - 1
    PROVE  /\ Reached(p, c, r + 1) <=> Reached(p, c, r) \/ p = Tile(c, r)
           /\ ~Reached(Tile(c, r), c, r)
           /\ Reached(p, c, Rows) <=> Reached(p, c + 1, 0)
<1> DEFINE x == p % Columns
           y == p \div Columns
<1>1. x \in 0 .. Columns - 1 /\ y \in 0 .. Rows - 1 /\ p = Tile(x, y)
  BY PlaceOf
<1>2. Columns \in Nat \ {0} /\ Rows \in Nat \ {0}
  BY PixelCount
<1>3. Tile(c, r) % Columns = c /\ Tile(c, r) \div Columns = r
  BY <1>2, TilePlace
<1>4. p = Tile(c, r) <=> x = c /\ y = r
  BY <1>1, <1>3
<1> HIDE DEF x, y
<1>5. (x < c \/ (x = c /\ y < r + 1)) <=> (x < c \/ (x = c /\ y < r)) \/ (x = c /\ y = r)
  BY <1>1, <1>2
<1>6. (x < c \/ (x = c /\ y < Rows)) <=> (x < c + 1 \/ (x = c + 1 /\ y < 0))
  BY <1>1, <1>2
<1>7. ~(c < c \/ (c = c /\ r < r))
  BY <1>2
<1> QED
  BY <1>3, <1>4, <1>5, <1>6, <1>7 DEF Reached, x, y

(* The registers that a stage sets *)
LEMMA StageFields ==
    /\ \A k \in 1 .. 4 :
         /\ StageRegs(k).src = 2 * (k - 1) * Quarter + 1 /\ StageRegs(k).xsize = 2
         /\ StageRegs(k).ysize = Quarter /\ StageRegs(k).xinc = -1 /\ StageRegs(k).ystride = 2
         /\ StageRegs(k).link = k + 1
    /\ \A k \in {0, 5} : StageRegs(k).xsize = 0 /\ StageRegs(k).ysize = 0
    /\ StageRegs(0).link = 1 /\ StageRegs(5).link = 0 /\ StageRegs(5).done
BY DEF StageRegs, BlockRegs, LastRegs, Cleared

LEMMA StageTotal ==
    ASSUME NEW k \in 0 .. 5
    PROVE  StageRegs(k).xsize * StageRegs(k).ysize = Size(k) /\ Size(k) \in Nat
<1>1. Quarter \in Nat
  BY PixelCount
<1>2. CASE k \in 1 .. 4
  BY <1>1, <1>2, StageFields DEF Size
<1>3. CASE k \in {0, 5}
  <2>1. k \notin 1 .. 4
    BY <1>3
  <2> QED
    BY <1>3, <2>1, StageFields DEF Size
<1> QED
  BY <1>2, <1>3

LEMMA StageLoaded ==
    ASSUME NEW k \in 0 .. 4
    PROVE  /\ StageRegs(k).link # 0
           /\ Loaded(StageRegs(k), Cmd(StageRegs(k).link)) = StageRegs(k + 1)
<1> DEFINE D == {"src", "xsize", "ysize", "xinc", "ystride", "trigger", "done", "link"}
           r == StageRegs(k)
           c == Cmd(r.link)
<1>1. DOMAIN Cleared = D
  BY DEF Cleared
<1>2. CASE k = 0
  <2>1. r.link = 1 /\ k + 1 = 1
    BY <1>2, StageFields
  <2>2. c = [regclear |-> TRUE, src |-> 1, xsize |-> 2, ysize |-> Quarter, xinc |-> -1,
             ystride |-> 2, trigger |-> TRUE, done |-> FALSE, link |-> 2]
    BY <2>1 DEF Cmd
  <2>3. StageRegs(1) = BlockRegs(1, 2)
    <3>1. 2 * (1 - 1) * Quarter + 1 = 1 /\ 1 + 1 = 2
      BY PixelCount
    <3> QED
      BY <3>1 DEF StageRegs
  <2>4. /\ c.src = 1 /\ c.xsize = 2 /\ c.ysize = Quarter /\ c.xinc = -1 /\ c.ystride = 2
        /\ c.trigger = TRUE /\ c.done = FALSE /\ c.link = 2 /\ DOMAIN c = D \cup {"regclear"}
    BY <2>2
  <2> HIDE DEF c, r
  <2>5. Loaded(r, c) = [f \in D |-> c[f]]
    BY <1>1, <2>4 DEF Loaded
  <2>6. Loaded(r, c) = BlockRegs(1, 2)
    BY <2>4, <2>5 DEF BlockRegs
  <2> QED
    BY <2>1, <2>3, <2>6 DEF c, r
<1>3. CASE k \in 1 .. 3
  <2> DEFINE n == k + 1
             s == 2 * (n - 1) * Quarter + 1
  <2>1. r.link = n /\ n \in 2 .. 4
    BY <1>3, StageFields
  <2>2. c = [src |-> s, xsize |-> 2, ysize |-> Quarter, link |-> n + 1]
    BY <2>1 DEF Cmd
  <2>3. StageRegs(n) = BlockRegs(s, n + 1)
    BY <2>1 DEF StageRegs
  <2>4. r = BlockRegs(2 * (k - 1) * Quarter + 1, k + 1)
    BY <1>3 DEF StageRegs
  <2>5. r.xinc = -1 /\ r.ystride = 2 /\ r.trigger = TRUE /\ r.done = FALSE
    BY <2>4 DEF BlockRegs
  <2> HIDE DEF r, s, n
  <2>6. /\ DOMAIN c = {"src", "xsize", "ysize", "link"} /\ c.src = s /\ c.xsize = 2
        /\ c.ysize = Quarter /\ c.link = n + 1
    BY <2>2
  <2> HIDE DEF c
  <2>7. Loaded(r, c) = [f \in D |-> IF f \in {"src", "xsize", "ysize", "link"} THEN c[f] ELSE r[f]]
    BY <1>1, <2>6 DEF Loaded
  <2>8. Loaded(r, c) = BlockRegs(s, n + 1)
    BY <2>5, <2>6, <2>7 DEF BlockRegs
  <2>9. n # 0
    BY <2>1
  <2> QED
    BY <2>1, <2>3, <2>8, <2>9 DEF r, c, n
<1>4. CASE k = 4
  <2>1. r.link = 5 /\ k + 1 = 5
    BY <1>4, StageFields
  <2>2. c = [regclear |-> TRUE, done |-> TRUE, link |-> 0]
    BY <2>1 DEF Cmd
  <2>3. StageRegs(5) = LastRegs
    BY DEF StageRegs
  <2>4. DOMAIN c = {"regclear", "done", "link"} /\ c.done = TRUE /\ c.link = 0
    BY <2>2
  <2> HIDE DEF c, r
  <2>5. Loaded(r, c) = [f \in D |-> IF f \in {"regclear", "done", "link"} THEN c[f] ELSE Cleared[f]]
    BY <1>1, <2>4 DEF Loaded
  <2>6. /\ Cleared.src = 0 /\ Cleared.xsize = 0 /\ Cleared.ysize = 0 /\ Cleared.xinc = 0
        /\ Cleared.ystride = 0 /\ Cleared.trigger = FALSE
    BY DEF Cleared
  <2>7. Loaded(r, c) = LastRegs
    BY <2>4, <2>5, <2>6 DEF LastRegs
  <2> QED
    BY <2>1, <2>3, <2>7 DEF c, r
<1> QED
  BY <1>2, <1>3, <1>4

(* The byte that the channel fetches for place m of command k is the next  *)
(* one of the display.                                                     *)
LEMMA SourceByte ==
    ASSUME NEW k \in 1 .. 4, NEW m \in 0 .. 2 * Quarter - 1
    PROVE  /\ ByteAt(Source(StageRegs(k), m)) = PixelByte(buf, Before(k) + m + 1)
           /\ (Before(k) + m) \div 2 \in 0 .. Pixels - 1
<1> DEFINE Q == Quarter
           a == Source(StageRegs(k), m)
<1>1. Q \in Nat /\ Pixels = 4 * Q
  BY PixelCount
<1>2. a = (2 * (k - 1) * Q + 1) + (m \div 2) * 2 + (m % 2) * (-1)
  BY StageFields DEF Source
<1>3. PICK d \in Nat, e \in 0 .. 1 : d = m \div 2 /\ e = m % 2 /\ m = 2 * d + e
  <2>1. m \in Nat
    BY <1>1
  <2> QED
    BY <2>1
<1> HIDE DEF Q, a
<1>4. PICK t \in Nat : t = (k - 1) * Q /\ 2 * t = 2 * (k - 1) * Q /\ t <= 3 * Q
  <2>1. k = 1 \/ k = 2 \/ k = 3 \/ k = 4
    OBVIOUS
  <2> QED
    BY <1>1, <2>1
<1>5. Before(k) = 2 * t
  <2>1. k # 0
    OBVIOUS
  <2> QED
    BY <1>4, <2>1 DEF Before, Q
<1>6. a = 2 * (t + d) + (1 - e)
  BY <1>2, <1>3, <1>4
<1>7. a \div 2 = t + d /\ (a % 2 = 0 <=> e = 1)
  <2>1. CASE e = 0
    BY <1>6, <2>1
  <2>2. CASE e = 1
    BY <1>6, <2>2
  <2> QED
    BY <2>1, <2>2
<1> DEFINE j == Before(k) + m + 1
<1>8. j - 1 = 2 * (t + d) + e /\ j = 2 * (t + d) + e + 1 /\ Before(k) + m = 2 * (t + d) + e
  BY <1>3, <1>5
<1> HIDE DEF j
<1>9. (j - 1) \div 2 = t + d /\ (j % 2 = 1 <=> e = 0)
  <2>1. CASE e = 0
    BY <1>8, <2>1
  <2>2. CASE e = 1
    BY <1>8, <2>2
  <2> QED
    BY <2>1, <2>2
<1>10. (2 * (t + d) + e) \div 2 = t + d
  <2>1. CASE e = 0
    BY <2>1
  <2>2. CASE e = 1
    BY <2>2
  <2> QED
    BY <2>1, <2>2
<1>11. t + d \in 0 .. Pixels - 1
  <2>1. m < 2 * Q /\ m \in Nat
    BY <1>1 DEF Q
  <2>2. d < Q
    BY <1>1, <1>3, <2>1
  <2> QED
    BY <1>1, <1>4, <2>2
<1>12. e = 0 \/ e = 1
  OBVIOUS
<1> QED
  BY <1>7, <1>8, <1>9, <1>10, <1>11, <1>12 DEF ByteAt, PixelByte, a, j

-----------------------------------------------------------------------------
(* The display example *)

LEMMA ClearedIsStage == Cleared \in Stages /\ \A k \in 0 .. 5 : StageRegs(k) \in Stages
BY DEF Stages

LEMMA DisplayInvInit == Init => DisplayInv
<1> SUFFICES ASSUME Init PROVE DisplayOk
  BY DEF DisplayInv
<1>0. /\ Pixels \in Nat \ {0} /\ Columns \in Nat \ {0} /\ Rows \in Nat \ {0}
      /\ Transforms \in Nat \ {0}
  BY PixelCount
<1>1. draw \in DrawType /\ clcd \in ClcdType
  BY <1>0 DEF Init, DrawType, ClcdType
<1>2. buf \in [0 .. Pixels - 1 -> Int]
  BY DEF Init, Blank
<1>3. screen \in ScreenType
  BY DEF Init, ScreenType
<1>4. ch \in ChType(Stages) /\ ~ch.clash
  BY ClearedIsStage DEF Init, ChType
<1>5. HandInv(draw, clcd, queue)
  BY DEF Init, HandInv
<1>6. ChanInv(ch, clcd, screen, buf)
  BY DEF Init, ChanInv
<1>7. DrawnInv(draw, buf)
  <2>1. draw.at = "draw" /\ draw.col = 0 /\ draw.row = 0 /\ draw.transform = 0 /\ draw.refused = {}
    BY DEF Init
  <2>2. (Rows * 0 + 0) % Transforms = 0
    <3>1. Rows * 0 + 0 = 0 /\ 0 = Transforms * 0 + 0 /\ 0 \in 0 .. Transforms - 1 /\ 0 \in Nat
      BY <1>0
    <3>2. (Transforms * 0 + 0) % Transforms = 0
      BY ONLY <1>0, <3>1, DivOf
    <3> QED
      BY <3>1, <3>2
  <2>3. ASSUME NEW p \in 0 .. Pixels - 1 PROVE ~Reached(p, 0, 0)
    <3>1. p % Columns \in 0 .. Columns - 1 /\ p \div Columns \in 0 .. Rows - 1
      BY PlaceOf
    <3> QED
      BY <1>0, <3>1 DEF Reached
  <2>4. \A p \in 0 .. Pixels - 1 : buf[p] = Blank
    BY DEF Init
  <2> QED
    BY <2>1, <2>2, <2>3, <2>4 DEF DrawnInv
<1> QED
  BY <1>1, <1>2, <1>3, <1>4, <1>5, <1>6, <1>7 DEF DisplayOk, DisplayType

(* The channel is idle while the drawing task draws. *)
LEMMA IdleWhileDrawing ==
    ASSUME DisplayOk, draw.at = "draw"
    PROVE  /\ ~ch.run /\ ch.irq = "none" /\ draw.notified = 0 /\ queue = << >>
           /\ clcd.at \in {"setup", "receive"} /\ clcd.notified = 0
BY DEF DisplayOk, HandInv, ChanInv

LEMMA DrawTileOk == ASSUME DisplayOk, DrawTile PROVE DisplayOk'
<1> DEFINE c == draw.col
           r == draw.row
           x == Tile(c, r)
           n == NextTransform(draw.transform)
<1>1. /\ draw.at = "draw" /\ c < Columns /\ r < Rows /\ UNCHANGED <<clcd, queue, screen>>
      /\ ch' = [ch EXCEPT !.clash = ch.clash \/ ch.run]
  BY DEF DrawTile
<1>2. PICK R, b :
        /\ draw' = [draw EXCEPT !.row = r + 1, !.transform = n, !.refused = R]
        /\ buf' = b
        /\ \/ R = draw.refused \cup {x} /\ b = buf
           \/ R = draw.refused /\ b = [buf EXCEPT ![x] = draw.transform]
  BY DEF DrawTile
<1>3. /\ Pixels \in Nat \ {0} /\ Columns \in Nat \ {0} /\ Rows \in Nat \ {0}
      /\ Transforms \in Nat \ {0}
  BY PixelCount
<1>4. /\ draw \in DrawType /\ clcd \in ClcdType /\ buf \in [0 .. Pixels - 1 -> Int]
      /\ screen \in ScreenType /\ ch \in ChType(Stages)
  BY DEF DisplayOk, DisplayType
<1>5. c \in 0 .. Columns - 1 /\ r \in 0 .. Rows - 1 /\ draw.transform \in Nat
      /\ draw.refused \subseteq 0 .. Pixels - 1
  BY <1>1, <1>3, <1>4 DEF DrawType
<1>6. x \in 0 .. Pixels - 1 /\ x % Columns = c /\ x \div Columns = r
  BY <1>1, <1>3, <1>5, TilePlace
<1> HIDE DEF c, r, x
<1>7. DrawnInv(draw, buf)
  BY DEF DisplayOk
<1>8. draw.transform = (Rows * c + r) % Transforms
  BY <1>7 DEF DrawnInv, c, r
<1>9. Rows * c + r \in Nat /\ Rows * c + r + 1 = Rows * c + (r + 1)
  BY <1>3, <1>5
<1>10. n = (Rows * c + (r + 1)) % Transforms /\ n \in Nat
  <2>1. n = (Rows * c + r + 1) % Transforms
    BY <1>8, <1>9, NextTransformOf
  <2>2. (Rows * c + r + 1) % Transforms \in Nat
    BY <1>3, <1>9
  <2> QED
    BY <1>9, <2>1, <2>2
<1> HIDE DEF n
<1>11. /\ draw'.at = "draw" /\ draw'.col = c /\ draw'.row = r + 1 /\ draw'.transform = n
       /\ draw'.refused = R /\ draw'.notified = draw.notified
  BY <1>1, <1>2, <1>4 DEF DrawType, c
<1>12. R \subseteq 0 .. Pixels - 1 /\ r + 1 \in 0 .. Rows
  BY <1>2, <1>3, <1>5, <1>6
<1>13. draw' \in DrawType
  BY <1>2, <1>4, <1>10, <1>12 DEF DrawType
<1>14. buf' \in [0 .. Pixels - 1 -> Int]
  BY <1>2, <1>4, <1>5
<1>15. ~ch.run /\ ch.irq = "none" /\ clcd.at \in {"setup", "receive"} /\ clcd.notified = 0
  BY <1>1, IdleWhileDrawing
<1>16. ch' \in ChType(Stages) /\ ~ch'.clash /\ ~ch'.run /\ ch'.irq = "none"
  <2>1. ch.clash = FALSE /\ ch.run = FALSE
    BY <1>4, <1>15 DEF ChType, DisplayOk
  <2>2. ch' = [ch EXCEPT !.clash = FALSE]
    BY <1>1, <2>1
  <2> QED
    BY <1>4, <1>15, <2>2 DEF ChType
<1>17. HandInv(draw', clcd', queue')
  BY <1>1, <1>11, <1>15, IdleWhileDrawing DEF HandInv
<1>18. ChanInv(ch', clcd', screen', buf')
  BY <1>1, <1>15, <1>16 DEF ChanInv
<1>19. DrawnInv(draw', buf')
  <2>1. \A p \in 0 .. Pixels - 1 : Reached(p, c, r + 1) <=> Reached(p, c, r) \/ p = x
    BY <1>5, ReachedNext DEF x
  <2>2. ~Reached(x, c, r)
    BY <1>5, <1>6, ReachedNext DEF x
  <2>3. TileValue(x) = draw.transform
    BY <1>6, <1>8 DEF TileValue
  <2>4. /\ \A p \in draw.refused : Reached(p, c, r)
        /\ \A p \in 0 .. Pixels - 1 :
             buf[p] = IF p \in draw.refused \/ ~Reached(p, c, r) THEN Blank ELSE TileValue(p)
    BY <1>7 DEF DrawnInv, c, r
  <2>5. \A p \in R : Reached(p, c, r + 1)
    BY <1>2, <1>5, <1>6, <2>1, <2>4
  <2>6. ASSUME NEW p \in 0 .. Pixels - 1
        PROVE  b[p] = IF p \in R \/ ~Reached(p, c, r + 1) THEN Blank ELSE TileValue(p)
    <3>1. CASE p # x
      BY <1>2, <1>4, <2>1, <2>4, <3>1
    <3>2. CASE p = x
      BY <1>2, <1>4, <1>6, <2>1, <2>2, <2>3, <2>4, <3>2
    <3> QED
      BY <3>1, <3>2
  <2>7. ~(c = Columns)
    BY <1>3, <1>5
  <2> QED
    BY <1>2, <1>10, <1>11, <2>5, <2>6, <2>7 DEF DrawnInv
<1> QED
  BY <1>1, <1>4, <1>13, <1>14, <1>16, <1>17, <1>18, <1>19 DEF DisplayOk, DisplayType

LEMMA RequestDisplayOk == ASSUME DisplayOk, RequestDisplay PROVE DisplayOk'
<1> DEFINE c == draw.col
<1>1. /\ draw.at = "draw" /\ c < Columns /\ draw.row = Rows
      /\ UNCHANGED <<ch, clcd, buf, screen>> /\ queue' = Append(queue, "draw")
      /\ draw' = [draw EXCEPT !.at = "wait", !.col = c + 1, !.row = 0]
  BY DEF RequestDisplay
<1>2. Pixels \in Nat \ {0} /\ Columns \in Nat \ {0} /\ Rows \in Nat \ {0}
  BY PixelCount
<1>3. DisplayType /\ draw \in DrawType
  BY DEF DisplayOk, DisplayType
<1>4. c \in 0 .. Columns - 1
  BY <1>1, <1>2, <1>3 DEF DrawType
<1>5. c + 1 \in 0 .. Columns /\ 0 \in 0 .. Rows /\ 0 \in 0 .. Rows - 1
  BY <1>2, <1>4
<1> HIDE DEF c
<1>6. /\ draw'.at = "wait" /\ draw'.col = c + 1 /\ draw'.row = 0
      /\ draw'.transform = draw.transform /\ draw'.refused = draw.refused
      /\ draw'.notified = draw.notified
  BY <1>1, <1>3 DEF DrawType
<1>7. draw' \in DrawType
  BY <1>1, <1>3, <1>5 DEF DrawType
<1>8. queue = << >> /\ clcd.at \in {"setup", "receive"} /\ draw.notified = 0
  BY <1>1, IdleWhileDrawing
<1>9. HandInv(draw', clcd', queue')
  <2>1. queue' = <<"draw">>
    BY <1>1, <1>8
  <2> QED
    BY <1>1, <1>6, <1>8, <2>1 DEF HandInv
<1>10. DrawnInv(draw', buf')
  <2>1. DrawnInv(draw, buf)
    BY DEF DisplayOk
  <2>2. Rows * c + Rows = Rows * (c + 1) + 0
    BY <1>2, <1>4
  <2>3. \A p \in 0 .. Pixels - 1 : Reached(p, c, Rows) <=> Reached(p, c + 1, 0)
    BY <1>4, <1>5, ReachedNext
  <2>4. /\ draw.transform = (Rows * c + Rows) % Transforms
        /\ \A p \in draw.refused : Reached(p, c, Rows)
        /\ \A p \in 0 .. Pixels - 1 :
             buf[p] = IF p \in draw.refused \/ ~Reached(p, c, Rows) THEN Blank ELSE TileValue(p)
    BY <1>1, <2>1 DEF DrawnInv, c
  <2>5. draw.refused \subseteq 0 .. Pixels - 1
    BY <1>3 DEF DrawType
  <2>6. \A p \in draw.refused : Reached(p, c + 1, 0)
    BY <2>3, <2>4, <2>5
  <2>7. \A p \in 0 .. Pixels - 1 :
          buf[p] = IF p \in draw.refused \/ ~Reached(p, c + 1, 0) THEN Blank ELSE TileValue(p)
    BY <2>3, <2>4
  <2> QED
    BY <1>1, <1>6, <2>2, <2>4, <2>6, <2>7 DEF DrawnInv
<1> QED
  BY <1>1, <1>3, <1>7, <1>9, <1>10 DEF DisplayOk, DisplayType

LEMMA NotifiedOk == ASSUME DisplayOk, Notified PROVE DisplayOk'
<1>1. /\ draw.at = "wait" /\ draw.notified > 0 /\ UNCHANGED <<ch, clcd, queue, buf, screen>>
      /\ draw' = [draw EXCEPT !.at = "draw", !.notified = 0]
  BY DEF Notified
<1>2. DisplayType /\ draw \in DrawType
  BY DEF DisplayOk, DisplayType
<1>3. /\ draw'.at = "draw" /\ draw'.col = draw.col /\ draw'.row = draw.row
      /\ draw'.transform = draw.transform /\ draw'.refused = draw.refused
      /\ draw'.notified = 0 /\ draw' \in DrawType
  BY <1>1, <1>2 DEF DrawType
<1>4. HandInv(draw', clcd', queue')
  BY <1>1, <1>3 DEF DisplayOk, HandInv
<1>5. DrawnInv(draw', buf')
  BY <1>1, <1>3 DEF DisplayOk, DrawnInv
<1> QED
  BY <1>1, <1>2, <1>3, <1>4, <1>5 DEF DisplayOk, DisplayType

LEMMA NoMoreDrawingOk == ASSUME DisplayOk, NoMoreDrawing PROVE DisplayOk'
<1>1. /\ draw.at = "draw" /\ draw.col = Columns /\ UNCHANGED <<ch, clcd, buf, screen>>
      /\ draw' = [draw EXCEPT !.at = "deleted"] /\ queue' = Append(queue, "no_more_drawing")
  BY DEF NoMoreDrawing
<1>2. DisplayType /\ draw \in DrawType
  BY DEF DisplayOk, DisplayType
<1>3. /\ draw'.at = "deleted" /\ draw'.col = draw.col /\ draw'.row = draw.row
      /\ draw'.transform = draw.transform /\ draw'.refused = draw.refused
      /\ draw' \in DrawType
  BY <1>1, <1>2 DEF DrawType
<1>4. HandInv(draw', clcd', queue')
  <2>1. queue = << >> /\ clcd.at \in {"setup", "receive"}
    BY <1>1, IdleWhileDrawing
  <2>2. queue' = <<"no_more_drawing">>
    BY <1>1, <2>1
  <2> QED
    BY <1>1, <1>3, <2>1, <2>2 DEF HandInv
<1>5. DrawnInv(draw', buf')
  BY <1>1, <1>3 DEF DisplayOk, DrawnInv
<1> QED
  BY <1>1, <1>2, <1>3, <1>4, <1>5 DEF DisplayOk, DisplayType

LEMMA SetUpOk == ASSUME DisplayOk, SetUp PROVE DisplayOk'
<1>1. /\ clcd.at = "setup" /\ UNCHANGED <<ch, draw, queue, buf>>
      /\ clcd' = [clcd EXCEPT !.at = "receive"] /\ screen' = [cs |-> "high", bytes |-> << >>]
  BY DEF SetUp
<1>2. DisplayType /\ clcd \in ClcdType
  BY DEF DisplayOk, DisplayType
<1>3. clcd'.at = "receive" /\ clcd'.notified = clcd.notified /\ clcd' \in ClcdType
  BY <1>1, <1>2 DEF ClcdType
<1>4. screen' \in ScreenType
  BY <1>1 DEF ScreenType
<1>5. HandInv(draw', clcd', queue')
  BY <1>1, <1>3 DEF DisplayOk, HandInv
<1>6. ChanInv(ch', clcd', screen', buf')
  BY <1>1, <1>3 DEF DisplayOk, ChanInv
<1> QED
  BY <1>1, <1>2, <1>3, <1>4, <1>5, <1>6 DEF DisplayOk, DisplayType

LEMMA ReceiveOk == ASSUME DisplayOk, Receive PROVE DisplayOk'
<1> DEFINE a == IF Head(queue) = "draw" THEN "start" ELSE "deleted"
<1>1. /\ clcd.at = "receive" /\ queue # << >> /\ UNCHANGED <<ch, draw, buf, screen>>
      /\ clcd' = [clcd EXCEPT !.at = a] /\ queue' = Tail(queue)
  BY DEF Receive
<1>2. DisplayType /\ clcd \in ClcdType
  BY DEF DisplayOk, DisplayType
<1>3. \/ queue = <<"draw">> /\ draw.at = "wait" /\ draw.notified = 0
      \/ queue = <<"no_more_drawing">> /\ draw.at = "deleted"
  BY <1>1 DEF DisplayOk, HandInv
<1>4. queue' = << >> /\ a \in {"start", "deleted"}
      /\ (queue = <<"draw">> => a = "start")
      /\ (queue = <<"no_more_drawing">> => a = "deleted")
  BY <1>1, <1>3
<1> HIDE DEF a
<1>5. clcd'.at = a /\ clcd'.notified = clcd.notified /\ clcd' \in ClcdType
  BY <1>1, <1>2, <1>4 DEF ClcdType
<1>6. HandInv(draw', clcd', queue')
  BY <1>1, <1>3, <1>4, <1>5 DEF HandInv
<1>7. ChanInv(ch', clcd', screen', buf')
  BY <1>1, <1>4, <1>5 DEF DisplayOk, ChanInv
<1> QED
  BY <1>1, <1>2, <1>5, <1>6, <1>7 DEF DisplayOk, DisplayType

LEMMA StartDisplayOk == ASSUME DisplayOk, StartDisplay PROVE DisplayOk'
<1> DEFINE R == [Cleared EXCEPT !.link = 1]
<1>1. /\ clcd.at = "start" /\ UNCHANGED <<draw, queue, buf>>
      /\ ch' = [ch EXCEPT !.run = TRUE, !.regs = R, !.sent = 0, !.irq = "none", !.nvic = TRUE]
      /\ clcd' = [clcd EXCEPT !.at = "wait"] /\ screen' = [cs |-> "low", bytes |-> << >>]
  BY DEF StartDisplay
<1>2. DisplayType /\ clcd \in ClcdType /\ ch \in ChType(Stages)
  BY DEF DisplayOk, DisplayType
<1>3. R = StageRegs(0) /\ R \in Stages
  BY ClearedIsStage DEF StageRegs
<1> HIDE DEF R
<1>4. clcd'.at = "wait" /\ clcd'.notified = clcd.notified /\ clcd' \in ClcdType
  BY <1>1, <1>2 DEF ClcdType
<1>5. screen' \in ScreenType /\ screen'.cs = "low" /\ screen'.bytes = << >>
  BY <1>1 DEF ScreenType
<1>6. /\ ch' \in ChType(Stages) /\ ch'.run /\ ch'.regs = R /\ ch'.sent = 0 /\ ch'.irq = "none"
      /\ ch'.clash = ch.clash
  BY <1>1, <1>2, <1>3 DEF ChType
<1>7. HandInv(draw', clcd', queue')
  BY <1>1, <1>4 DEF DisplayOk, HandInv
<1>8. clcd.notified = 0
  BY <1>1 DEF DisplayOk, ChanInv
<1>9. Sending(ch', screen', buf', 0)
  <2>1. Before(0) = 0 /\ Size(0) = 0
    BY DEF Before, Size
  <2>2. Shown(screen', buf', 0)
    BY <1>5 DEF Shown
  <2> QED
    BY <1>3, <1>6, <2>1, <2>2 DEF Sending
<1>10. ChanInv(ch', clcd', screen', buf')
  BY <1>4, <1>5, <1>6, <1>8, <1>9 DEF ChanInv
<1> QED
  BY <1>1, <1>2, <1>4, <1>5, <1>6, <1>7, <1>10 DEF DisplayOk, DisplayType

LEMMA DisplayedOk == ASSUME DisplayOk, Displayed PROVE DisplayOk'
<1>1. /\ clcd.at = "wait" /\ clcd.notified > 0 /\ UNCHANGED <<draw, queue, buf>>
      /\ clcd' = [clcd EXCEPT !.at = "notify", !.notified = 0]
      /\ ch' = [ch EXCEPT !.nvic = FALSE] /\ screen' = [screen EXCEPT !.cs = "high"]
  BY DEF Displayed
<1>2. DisplayType /\ clcd \in ClcdType /\ ch \in ChType(Stages) /\ screen \in ScreenType
  BY DEF DisplayOk, DisplayType
<1>3. clcd'.at = "notify" /\ clcd'.notified = 0 /\ clcd' \in ClcdType
  BY <1>1, <1>2 DEF ClcdType
<1>4. screen' \in ScreenType /\ screen'.bytes = screen.bytes
  BY <1>1, <1>2 DEF ScreenType
<1>5. /\ ch' \in ChType(Stages) /\ ch'.run = ch.run /\ ch'.irq = ch.irq /\ ch'.clash = ch.clash
  BY <1>1, <1>2 DEF ChType
<1>6. HandInv(draw', clcd', queue')
  BY <1>1, <1>3 DEF DisplayOk, HandInv
<1>7. clcd.notified # 0
  BY <1>1
<1>8. ~ch.run /\ ch.irq = "none" /\ Shown(screen, buf, 2 * Pixels)
  BY <1>1, <1>7 DEF DisplayOk, ChanInv
<1>9. Shown(screen', buf', 2 * Pixels)
  BY <1>1, <1>4, <1>8 DEF Shown
<1>10. ChanInv(ch', clcd', screen', buf')
  BY <1>3, <1>5, <1>8, <1>9 DEF ChanInv
<1> QED
  BY <1>1, <1>2, <1>3, <1>4, <1>5, <1>6, <1>10 DEF DisplayOk, DisplayType

LEMMA NotifyDrawOk == ASSUME DisplayOk, NotifyDraw PROVE DisplayOk'
<1> DEFINE n == draw.notified + 1
<1>1. /\ clcd.at = "notify" /\ UNCHANGED <<ch, queue, buf, screen>>
      /\ clcd' = [clcd EXCEPT !.at = "receive"] /\ draw' = [draw EXCEPT !.notified = n]
  BY DEF NotifyDraw
<1>2. DisplayType /\ clcd \in ClcdType /\ draw \in DrawType
  BY DEF DisplayOk, DisplayType
<1>3. draw.at = "wait" /\ draw.notified = 0 /\ queue = << >>
  BY <1>1 DEF DisplayOk, HandInv
<1>4. n = 1
  BY <1>3
<1> HIDE DEF n
<1>5. clcd'.at = "receive" /\ clcd'.notified = clcd.notified /\ clcd' \in ClcdType
  BY <1>1, <1>2 DEF ClcdType
<1>6. /\ draw'.at = "wait" /\ draw'.col = draw.col /\ draw'.row = draw.row
      /\ draw'.transform = draw.transform /\ draw'.refused = draw.refused
      /\ draw'.notified = 1 /\ draw' \in DrawType
  BY <1>1, <1>2, <1>3, <1>4 DEF DrawType
<1>7. HandInv(draw', clcd', queue')
  BY <1>1, <1>3, <1>5, <1>6 DEF HandInv
<1>8. DrawnInv(draw', buf')
  BY <1>1, <1>3, <1>6 DEF DisplayOk, DrawnInv
<1>9. ChanInv(ch', clcd', screen', buf')
  BY <1>1, <1>5 DEF DisplayOk, ChanInv
<1> QED
  BY <1>1, <1>2, <1>5, <1>6, <1>7, <1>8, <1>9 DEF DisplayOk, DisplayType

(* The display is complete after the last command, and every command       *)
(* continues where the one before it ended.                                *)
LEMMA StagePlace ==
    /\ \A k \in 0 .. 4 : Before(k) + Size(k) = Before(k + 1) + 0
    /\ Before(5) + Size(5) = 2 * Pixels
    /\ \A k \in 0 .. 5 : Before(k) \in Nat /\ Size(k) \in Nat
<1>1. Quarter \in Nat /\ Pixels = 4 * Quarter
  BY PixelCount
<1>2. /\ Before(0) = 0 /\ Before(1) = 0 /\ Before(2) = 2 * Quarter /\ Before(3) = 4 * Quarter
      /\ Before(4) = 6 * Quarter /\ Before(5) = 8 * Quarter
  BY <1>1 DEF Before
<1>3. /\ Size(0) = 0 /\ Size(5) = 0 /\ \A k \in 1 .. 4 : Size(k) = 2 * Quarter
  BY DEF Size
<1>4. ASSUME NEW k \in 0 .. 5
      PROVE  k = 0 \/ k = 1 \/ k = 2 \/ k = 3 \/ k = 4 \/ k = 5
  OBVIOUS
<1>5. 0 + 1 = 1 /\ 1 + 1 = 2 /\ 2 + 1 = 3 /\ 3 + 1 = 4 /\ 4 + 1 = 5
  OBVIOUS
<1>6. ASSUME NEW k \in 0 .. 4 PROVE k = 0 \/ k = 1 \/ k = 2 \/ k = 3 \/ k = 4
  OBVIOUS
<1>7. \A k \in 0 .. 5 : Before(k) \in Nat /\ Size(k) \in Nat
  <2>1. /\ 2 * Quarter \in Nat /\ 4 * Quarter \in Nat /\ 6 * Quarter \in Nat
        /\ 8 * Quarter \in Nat
    BY <1>1
  <2> QED
    BY <1>2, <1>3, <1>4, <2>1
<1>8. ASSUME NEW k \in 0 .. 4 PROVE Before(k) + Size(k) = Before(k + 1) + 0
  BY <1>1, <1>2, <1>3, <1>5, <1>6
<1> QED
  BY <1>1, <1>2, <1>3, <1>7, <1>8

(* What a step of the channel or its interrupt may change *)
LEMMA ChannelKeeps ==
    ASSUME DisplayOk, clcd.at = "wait", UNCHANGED <<draw, queue, buf>>,
           clcd' \in ClcdType, clcd'.at = clcd.at, screen' \in ScreenType,
           ch' \in ChType(Stages), ~ch'.clash, ChanInv(ch', clcd', screen', buf')
    PROVE  DisplayOk'
<1>1. HandInv(draw', clcd', queue')
  BY DEF DisplayOk, HandInv
<1>2. DrawnInv(draw', buf')
  BY DEF DisplayOk
<1> QED
  BY <1>1, <1>2 DEF DisplayOk, DisplayType

LEMMA TriggerWaitOk ==
    ASSUME DisplayOk, ch.run, ch.irq = "none", UNCHANGED <<draw, clcd, queue, buf, screen>>,
           ch' = [ch EXCEPT !.irq = "trigger_wait"]
    PROVE  DisplayOk'
<1>1. ch \in ChType(Stages) /\ clcd \in ClcdType /\ screen \in ScreenType /\ ~ch.clash
  BY DEF DisplayOk, DisplayType
<1>2. /\ ch' \in ChType(Stages) /\ ch'.run = ch.run /\ ch'.irq = "trigger_wait"
      /\ ch'.regs = ch.regs /\ ch'.sent = ch.sent /\ ch'.clash = ch.clash
  BY <1>1 DEF ChType
<1>3. clcd.at = "wait"
  BY DEF DisplayOk, ChanInv
<1>4. screen.cs = "low" /\ clcd.notified = 0 /\ \E k \in 0 .. 5 : Sending(ch, screen, buf, k)
  BY <1>3 DEF DisplayOk, ChanInv
<1>5. \E k \in 0 .. 5 : Sending(ch', screen', buf', k)
  BY <1>2, <1>4 DEF Sending
<1>6. ChanInv(ch', clcd', screen', buf')
  BY <1>2, <1>3, <1>4, <1>5 DEF ChanInv
<1> QED
  BY <1>1, <1>2, <1>3, <1>6, ChannelKeeps

LEMMA LoadOk ==
    ASSUME DisplayOk, ch.run, ch.irq = "none", UNCHANGED <<draw, clcd, queue, buf, screen>>,
           ch.sent = Total, ch.regs.link # 0,
           ch' = [ch EXCEPT !.regs = Loaded(ch.regs, Cmd(ch.regs.link)), !.sent = 0]
    PROVE  DisplayOk'
<1>1. ch \in ChType(Stages) /\ clcd \in ClcdType /\ screen \in ScreenType /\ ~ch.clash
  BY DEF DisplayOk, DisplayType
<1>2. clcd.at = "wait"
  BY DEF DisplayOk, ChanInv
<1>3. screen.cs = "low" /\ clcd.notified = 0 /\ \E k \in 0 .. 5 : Sending(ch, screen, buf, k)
  BY <1>2 DEF DisplayOk, ChanInv
<1>4. PICK k \in 0 .. 5 : Sending(ch, screen, buf, k)
  BY <1>3
<1>5. ch.regs = StageRegs(k) /\ Shown(screen, buf, Before(k) + ch.sent)
  BY <1>4 DEF Sending
<1>6. ch.sent = Size(k)
  BY <1>5, StageTotal DEF Total
<1>7. k \in 0 .. 4
  <2>1. k # 5
    BY <1>5, StageFields
  <2> QED
    BY <2>1
<1> DEFINE R == Loaded(ch.regs, Cmd(ch.regs.link))
<1>8. R = StageRegs(k + 1) /\ k + 1 \in 0 .. 5
  BY <1>5, <1>7, StageLoaded
<1>9. R \in Stages
  BY <1>8, ClearedIsStage
<1> HIDE DEF R
<1>10. /\ ch' \in ChType(Stages) /\ ch'.run = ch.run /\ ch'.irq = ch.irq
       /\ ch'.regs = R /\ ch'.sent = 0 /\ ch'.clash = ch.clash
  <2>1. ch' = [ch EXCEPT !.regs = R, !.sent = 0]
    BY DEF R
  <2> QED
    BY ONLY <1>1, <1>9, <2>1 DEF ChType
<1>11. Shown(screen', buf', Before(k + 1) + 0)
  BY <1>5, <1>6, <1>7, StagePlace
<1>12. 0 \in 0 .. Size(k + 1)
  BY <1>8, StagePlace
<1>13. Sending(ch', screen', buf', k + 1)
  BY <1>8, <1>10, <1>11, <1>12 DEF Sending
<1>14. ChanInv(ch', clcd', screen', buf')
  BY <1>2, <1>3, <1>8, <1>10, <1>13 DEF ChanInv
<1> QED
  BY <1>1, <1>2, <1>10, <1>14, ChannelKeeps

LEMMA EndOk ==
    ASSUME DisplayOk, ch.run, ch.irq = "none", UNCHANGED <<draw, clcd, queue, buf, screen>>,
           ch.sent = Total, ch.regs.link = 0,
           ch' = [ch EXCEPT !.run = FALSE, !.irq = IF ch.regs.done THEN "done" ELSE "none"]
    PROVE  DisplayOk'
<1>1. ch \in ChType(Stages) /\ clcd \in ClcdType /\ screen \in ScreenType /\ ~ch.clash
  BY DEF DisplayOk, DisplayType
<1>2. clcd.at = "wait"
  BY DEF DisplayOk, ChanInv
<1>3. screen.cs = "low" /\ clcd.notified = 0 /\ \E k \in 0 .. 5 : Sending(ch, screen, buf, k)
  BY <1>2 DEF DisplayOk, ChanInv
<1>4. PICK k \in 0 .. 5 : Sending(ch, screen, buf, k)
  BY <1>3
<1>5. ch.regs = StageRegs(k) /\ Shown(screen, buf, Before(k) + ch.sent)
  BY <1>4 DEF Sending
<1>6. ch.sent = Size(k)
  BY <1>5, StageTotal DEF Total
<1>7. k = 5
  <2>1. ASSUME k \in 0 .. 4 PROVE FALSE
    BY <1>5, <2>1, StageLoaded
  <2> QED
    BY <2>1
<1>8. ch.regs.done
  BY <1>5, <1>7, StageFields
<1>9. /\ ch' \in ChType(Stages) /\ ~ch'.run /\ ch'.irq = "done" /\ ch'.clash = ch.clash
  <2>1. ch' = [ch EXCEPT !.run = FALSE, !.irq = "done"]
    BY <1>8
  <2> QED
    BY <1>1, <2>1 DEF ChType
<1>10. Shown(screen', buf', 2 * Pixels)
  BY <1>5, <1>6, <1>7, StagePlace
<1>11. ChanInv(ch', clcd', screen', buf')
  BY <1>2, <1>3, <1>9, <1>10 DEF ChanInv
<1> QED
  BY <1>1, <1>2, <1>9, <1>11, ChannelKeeps

LEMMA InterruptOk == ASSUME DisplayOk, ChannelInterrupt PROVE DisplayOk'
<1>1. UNCHANGED <<draw, queue, buf, screen>> /\ ch.irq # "none"
  BY DEF ChannelInterrupt, dma_ch_irq_handler
<1>2. ch \in ChType(Stages) /\ clcd \in ClcdType /\ screen \in ScreenType /\ ~ch.clash
  BY DEF DisplayOk, DisplayType
<1>3. clcd.at = "wait"
  BY <1>1 DEF DisplayOk, ChanInv
<1>4. screen.cs = "low" /\ clcd.notified = 0
  BY <1>1, <1>3 DEF DisplayOk, ChanInv
<1>5. CASE ch.irq = "done" /\ ch' = [ch EXCEPT !.irq = "none"]
           /\ clcd' = [clcd EXCEPT !.notified = clcd.notified + 1]
  <2>1. ~ch.run /\ Shown(screen, buf, 2 * Pixels)
    BY <1>3, <1>5 DEF DisplayOk, ChanInv
  <2>2. clcd' = [clcd EXCEPT !.notified = 1]
    BY <1>4, <1>5
  <2>3. clcd' \in ClcdType /\ clcd'.at = clcd.at /\ clcd'.notified = 1
    BY <1>2, <2>2 DEF ClcdType
  <2>4. ch' \in ChType(Stages) /\ ch'.run = ch.run /\ ch'.irq = "none" /\ ch'.clash = ch.clash
    BY <1>2, <1>5 DEF ChType
  <2>5. ChanInv(ch', clcd', screen', buf')
    BY <1>1, <1>3, <1>4, <2>1, <2>3, <2>4 DEF ChanInv
  <2> QED
    BY <1>1, <1>2, <1>3, <2>3, <2>4, <2>5, ChannelKeeps
<1>6. CASE ch.irq = "trigger_wait" /\ ch' = [ch EXCEPT !.irq = "none", !.triggered = TRUE]
           /\ UNCHANGED clcd
  <2>1. ch.run /\ \E k \in 0 .. 5 : Sending(ch, screen, buf, k)
    BY <1>3, <1>6 DEF DisplayOk, ChanInv
  <2>2. /\ ch' \in ChType(Stages) /\ ch'.run = ch.run /\ ch'.irq = "none"
        /\ ch'.regs = ch.regs /\ ch'.sent = ch.sent /\ ch'.clash = ch.clash
    BY <1>2, <1>6 DEF ChType
  <2>3. \E k \in 0 .. 5 : Sending(ch', screen', buf', k)
    BY <1>1, <2>1, <2>2 DEF Sending
  <2>4. ChanInv(ch', clcd', screen', buf')
    BY <1>1, <1>3, <1>4, <1>6, <2>1, <2>2, <2>3 DEF ChanInv
  <2> QED
    BY <1>1, <1>2, <1>3, <1>6, <2>2, <2>4, ChannelKeeps
<1> QED
  BY <1>5, <1>6 DEF ChannelInterrupt, dma_ch_irq_handler

(* The bytes of one block are the next ones of the display. *)
Sent(k, s, n) == [j \in 1 .. n |-> ByteAt(Source(StageRegs(k), s + j - 1))]
LEMMA BlockBytes ==
    ASSUME DisplayType, NEW k \in 1 .. 4, NEW s \in Nat, NEW n \in Nat, s + n <= Size(k)
    PROVE  /\ Sent(k, s, n) \in Seq(Int \X {"low", "high"}) /\ Len(Sent(k, s, n)) = n
           /\ \A j \in 1 .. n : Sent(k, s, n)[j] = PixelByte(buf, Before(k) + s + j)
<1> DEFINE e == Sent(k, s, n)
<1>1. Quarter \in Nat /\ Size(k) = 2 * Quarter /\ Before(k) \in Nat /\ Pixels \in Nat
  <2>1. k \in 0 .. 5
    OBVIOUS
  <2>2. Size(k) = 2 * Quarter
    BY DEF Size
  <2> QED
    BY <2>1, <2>2, PixelCount, StagePlace
<1>2. ASSUME NEW j \in 1 .. n
      PROVE  /\ e[j] = PixelByte(buf, Before(k) + s + j)
             /\ PixelByte(buf, Before(k) + s + j) \in Int \X {"low", "high"}
  <2>1. s + j - 1 \in 0 .. 2 * Quarter - 1
    BY <1>1
  <2> DEFINE m == s + j - 1
             i == Before(k) + s + j
  <2>2. Before(k) + m + 1 = i /\ Before(k) + m = i - 1
    BY <1>1
  <2>3. /\ ByteAt(Source(StageRegs(k), m)) = PixelByte(buf, Before(k) + m + 1)
        /\ (Before(k) + m) \div 2 \in 0 .. Pixels - 1
    BY <2>1, SourceByte
  <2>4. e[j] = ByteAt(Source(StageRegs(k), m))
    BY DEF Sent
  <2> HIDE DEF m, i
  <2>5. (i - 1) \div 2 \in 0 .. Pixels - 1
    BY <2>2, <2>3
  <2>6. buf[(i - 1) \div 2] \in Int
    BY <2>5 DEF DisplayType
  <2>7. PixelByte(buf, i) \in Int \X {"low", "high"}
    BY <2>6 DEF PixelByte
  <2> QED
    BY <2>2, <2>3, <2>4, <2>7 DEF i
<1>3. e \in [1 .. n -> Int \X {"low", "high"}]
  <2>1. e = [j \in 1 .. n |-> e[j]]
    BY DEF Sent
  <2> HIDE DEF e
  <2> QED
    BY <1>2, <2>1
<1> HIDE DEF e
<1>4. e \in Seq(Int \X {"low", "high"}) /\ Len(e) = n
  <2> DEFINE S == Int \X {"low", "high"}
  <2>1. e \in [1 .. n -> S]
    BY <1>3
  <2> HIDE DEF S
  <2>2. e \in Seq(S) /\ Len(e) = n
    BY ONLY n \in Nat, <2>1
  <2> QED
    BY <2>2 DEF S
<1> QED
  BY <1>2, <1>4 DEF e

LEMMA BlockOk ==
    ASSUME DisplayOk, ch.run, ch.irq = "none", UNCHANGED <<draw, clcd, queue, buf>>,
           ch.sent < Total, NEW n, n = (IF Total - ch.sent < Block THEN Total - ch.sent ELSE Block),
           NEW e, e = [j \in 1 .. n |-> ByteAt(Source(ch.regs, ch.sent + j - 1))],
           screen' = IF screen.cs = "high" THEN screen
                     ELSE [screen EXCEPT !.bytes = screen.bytes \o e],
           ch' = [ch EXCEPT !.sent = ch.sent + n, !.triggered = FALSE]
    PROVE  DisplayOk'
<1>1. /\ ch \in ChType(Stages) /\ clcd \in ClcdType /\ screen \in ScreenType /\ ~ch.clash
      /\ DisplayType
  BY DEF DisplayOk, DisplayType
<1>2. clcd.at = "wait"
  BY DEF DisplayOk, ChanInv
<1>3. screen.cs = "low" /\ clcd.notified = 0 /\ \E k \in 0 .. 5 : Sending(ch, screen, buf, k)
  BY <1>2 DEF DisplayOk, ChanInv
<1>4. PICK k \in 0 .. 5 : Sending(ch, screen, buf, k)
  BY <1>3
<1>5. /\ ch.regs = StageRegs(k) /\ Shown(screen, buf, Before(k) + ch.sent)
      /\ ch.sent \in 0 .. Size(k)
  BY <1>4 DEF Sending
<1>6. Total = Size(k) /\ Size(k) \in Nat /\ Before(k) \in Nat
  BY <1>5, StageTotal, StagePlace DEF Total
<1>7. k \in 1 .. 4
  BY <1>5, <1>6 DEF Size
<1> DEFINE s == ch.sent
           o == screen.bytes
           B == Before(k)
<1>8. s \in Nat /\ n \in Nat /\ s + n \in 0 .. Size(k) /\ s + n <= Size(k)
  <2>1. PICK z \in Nat : z = Size(k) /\ z = Total
    BY <1>6
  <2>2. s \in Nat /\ s < z /\ Block \in Nat
    BY <1>5, <2>1, Dma350Assumption
  <2>3. n = IF z - s < Block THEN z - s ELSE Block
    BY <2>1
  <2> HIDE DEF s
  <2>4. n \in Nat /\ s + n \in 0 .. z /\ s + n <= z
    BY ONLY <2>2, <2>3
  <2> QED
    BY <2>1, <2>2, <2>4
<1>9. o \in Seq(Int \X {"low", "high"}) /\ Len(o) = B + s
      /\ \A j \in 1 .. B + s : o[j] = PixelByte(buf, j)
  BY <1>1, <1>5 DEF ScreenType, Shown
<1>10. e = [j \in 1 .. n |-> ByteAt(Source(StageRegs(k), s + j - 1))]
  BY <1>5
<1>11. /\ e \in Seq(Int \X {"low", "high"}) /\ Len(e) = n
       /\ \A j \in 1 .. n : e[j] = PixelByte(buf, B + s + j)
  <2>1. PICK i \in Nat : i = s
    BY <1>8
  <2>2. i \in Nat /\ i + n <= Size(k) /\ n \in Nat
        /\ e = Sent(k, i, n)
    BY <1>8, <1>10, <2>1 DEF Sent
  <2> HIDE DEF s, o, B
  <2>3. /\ e \in Seq(Int \X {"low", "high"}) /\ Len(e) = n
        /\ \A j \in 1 .. n : e[j] = PixelByte(buf, Before(k) + i + j)
    BY ONLY <1>1, <1>7, <2>2, BlockBytes
  <2> QED
    BY <2>1, <2>3 DEF B
<1> HIDE DEF s, o, B
<1>12. B \in Nat
  BY <1>6 DEF B
<1>13. /\ o \o e \in Seq(Int \X {"low", "high"}) /\ Len(o \o e) = B + (s + n)
       /\ \A j \in 1 .. B + (s + n) : (o \o e)[j] = PixelByte(buf, j)
  <2>1. /\ o \o e \in Seq(Int \X {"low", "high"}) /\ Len(o \o e) = Len(o) + Len(e)
        /\ \A j \in 1 .. Len(o) + Len(e) :
             (o \o e)[j] = IF j <= Len(o) THEN o[j] ELSE e[j - Len(o)]
    BY ONLY <1>9, <1>11, ConcatProperties
  <2>2. Len(o) + Len(e) = B + (s + n)
    BY <1>8, <1>9, <1>11, <1>12
  <2>3. ASSUME NEW j \in 1 .. B + (s + n) PROVE (o \o e)[j] = PixelByte(buf, j)
    <3>1. CASE j <= B + s
      <4>1. j \in 1 .. B + s
        BY <1>8, <1>12, <3>1
      <4> QED
        BY <1>9, <2>1, <2>2, <3>1, <4>1
    <3>2. CASE ~(j <= B + s)
      <4>1. j - (B + s) \in 1 .. n /\ B + s + (j - (B + s)) = j
        BY <1>8, <1>12, <3>2
      <4>2. e[j - (B + s)] = PixelByte(buf, j)
        BY <1>11, <4>1
      <4> QED
        BY <1>9, <2>1, <2>2, <3>2, <4>2
    <3> QED
      BY <3>1, <3>2
  <2> QED
    BY <2>1, <2>2, <2>3
<1>14. screen' = [screen EXCEPT !.bytes = o \o e]
  BY <1>3 DEF o
<1>15. screen' \in ScreenType /\ screen'.cs = "low" /\ screen'.bytes = o \o e
  BY ONLY <1>1, <1>3, <1>13, <1>14 DEF ScreenType
<1>16. /\ ch' \in ChType(Stages) /\ ch'.run = ch.run /\ ch'.irq = ch.irq
       /\ ch'.regs = ch.regs /\ ch'.sent = s + n /\ ch'.clash = ch.clash
  <2>1. ch' = [ch EXCEPT !.sent = s + n, !.triggered = FALSE] /\ s + n \in Nat
    BY <1>8 DEF s
  <2> QED
    BY ONLY <1>1, <2>1 DEF ChType
<1>17. Shown(screen', buf', B + (s + n))
  BY <1>13, <1>15 DEF Shown
<1>18. Sending(ch', screen', buf', k)
  BY <1>5, <1>8, <1>16, <1>17 DEF Sending, B
<1>19. ChanInv(ch', clcd', screen', buf')
  BY <1>2, <1>3, <1>15, <1>16, <1>18 DEF ChanInv
<1> QED
  BY <1>1, <1>2, <1>15, <1>16, <1>19, ChannelKeeps

LEMMA ChannelStepOk == ASSUME DisplayOk, ChannelStep PROVE DisplayOk'
<1>1. ch.run /\ ch.irq = "none" /\ UNCHANGED <<draw, clcd, queue, buf>>
  BY DEF ChannelStep
<1>2. CASE ch' = [ch EXCEPT !.irq = "trigger_wait"] /\ UNCHANGED screen
  BY <1>1, <1>2, TriggerWaitOk
<1>3. CASE /\ ch.sent < Total
           /\ \E n, e :
                /\ n = IF Total - ch.sent < Block THEN Total - ch.sent ELSE Block
                /\ e = [j \in 1 .. n |-> ByteAt(Source(ch.regs, ch.sent + j - 1))]
                /\ screen' = IF screen.cs = "high" THEN screen
                             ELSE [screen EXCEPT !.bytes = screen.bytes \o e]
                /\ ch' = [ch EXCEPT !.sent = ch.sent + n, !.triggered = FALSE]
  BY <1>1, <1>3, BlockOk
<1>4. CASE /\ ch.sent = Total /\ ch.regs.link # 0 /\ UNCHANGED screen
           /\ ch' = [ch EXCEPT !.regs = Loaded(ch.regs, Cmd(ch.regs.link)), !.sent = 0]
  BY <1>1, <1>4, LoadOk
<1>5. CASE /\ ch.sent = Total /\ ch.regs.link = 0 /\ UNCHANGED screen
           /\ ch' = [ch EXCEPT !.run = FALSE, !.irq = IF ch.regs.done THEN "done" ELSE "none"]
  BY <1>1, <1>5, EndOk
<1> QED
  BY <1>2, <1>3, <1>4, <1>5 DEF ChannelStep

LEMMA DisplayInvStep == ImageInv /\ DisplayInv /\ [Next]_vars => DisplayInv'
<1> SUFFICES ASSUME ImageInv, DisplayInv, [Next]_vars PROVE DisplayInv'
  OBVIOUS
<1>1. CASE DisplayStep
  <2>1. image = "display" /\ DisplayOk
    BY <1>1, DisplayStepOnly DEF DisplayInv
  <2>2. CASE drawTask
    BY <2>1, <2>2, DrawTileOk, RequestDisplayOk, NotifiedOk, NoMoreDrawingOk
    DEF drawTask, DisplayInv
  <2>3. CASE clcdTask
    BY <2>1, <2>3, SetUpOk, ReceiveOk, StartDisplayOk, DisplayedOk, NotifyDrawOk
    DEF clcdTask, DisplayInv
  <2>4. CASE ChannelStep \/ ChannelInterrupt
    BY <2>1, <2>4, ChannelStepOk, InterruptOk DEF DisplayInv
  <2> QED
    BY <1>1, <2>2, <2>3, <2>4 DEF DisplayStep
<1>2. CASE EchoStep
  BY <1>2, EchoStepOnly DEF DisplayInv
<1>3. CASE PartStep
  BY <1>3, PartStepOnly DEF DisplayInv
<1>4. CASE UNCHANGED vars
  BY <1>4 DEF vars, DisplayInv, DisplayOk, DisplayType
<1> QED
  BY <1>1, <1>2, <1>3, <1>4 DEF Next, DisplayStep, EchoStep, PartStep

LEMMA DisplayInvImplies == ImageInv /\ DisplayInv => DrawingShown
<1> SUFFICES ASSUME ImageInv, DisplayInv, image = "display" PROVE DrawingShown
  BY DEF ImageInv, DrawingShown
<1>1. DisplayOk
  BY DEF DisplayInv
<1>2. ASSUME clcd.at = "notify"
      PROVE  screen.bytes = [j \in 1 .. 2 * Pixels |->
               <<Drawn((j - 1) \div 2, draw.col), IF j % 2 = 1 THEN "high" ELSE "low">>]
  <2>1. Pixels \in Nat \ {0} /\ Columns \in Nat \ {0} /\ Rows \in Nat \ {0}
    BY PixelCount
  <2>2. Shown(screen, buf, 2 * Pixels) /\ draw.at # "draw"
    BY <1>1, <1>2 DEF DisplayOk, ChanInv, HandInv
  <2>3. /\ draw.row = 0 /\ draw.col \in 0 .. Columns
        /\ \A p \in 0 .. Pixels - 1 :
             buf[p] = IF p \in draw.refused \/ ~Reached(p, draw.col, draw.row)
                      THEN Blank ELSE TileValue(p)
    BY <1>1, <2>2 DEF DisplayOk, DrawnInv, DisplayType, DrawType
  <2>4. ASSUME NEW p \in 0 .. Pixels - 1 PROVE buf[p] = Drawn(p, draw.col)
    <3>1. p % Columns \in 0 .. Columns - 1 /\ p \div Columns \in 0 .. Rows - 1
      BY PlaceOf
    <3>2. Reached(p, draw.col, 0) <=> ~(p % Columns >= draw.col)
      BY <2>1, <2>3, <3>1 DEF Reached
    <3> QED
      BY <2>3, <3>2 DEF Drawn, TileValue
  <2>5. ASSUME NEW j \in 1 .. 2 * Pixels
        PROVE  screen.bytes[j] =
                 <<Drawn((j - 1) \div 2, draw.col), IF j % 2 = 1 THEN "high" ELSE "low">>
    <3>1. (j - 1) \div 2 \in 0 .. Pixels - 1
      BY <2>1
    <3>2. screen.bytes[j] = PixelByte(buf, j)
      BY <2>2 DEF Shown
    <3> QED
      BY <2>4, <3>1, <3>2 DEF PixelByte
  <2>6. screen.bytes \in Seq(Int \X {"low", "high"}) /\ Len(screen.bytes) = 2 * Pixels
    BY <1>1, <2>2 DEF DisplayOk, DisplayType, ScreenType, Shown
  <2>7. screen.bytes = [j \in 1 .. 2 * Pixels |-> screen.bytes[j]]
    BY <2>6
  <2> QED
    BY <2>5, <2>7
<1> QED
  BY <1>1, <1>2 DEF DrawingShown, DisplayOk

(* Whatever the size of the drawing, of a block and of the set of          *)
(* transforms: when display_image_with_dma returns to clcdTask, the display *)
(* has received every pixel of the columns that drawTask had completed, in *)
(* order and high byte first, and drawTask never used the channel while    *)
(* the display was being sent (corstone310_fvp_dma/dma350_ns).             *)
THEOREM DrawingShownCorrect == Spec => []DrawingShown
<1>1. Init => ImageInv /\ DisplayInv
  BY ImageInvInit, DisplayInvInit
<1>2. (ImageInv /\ DisplayInv) /\ [Next]_vars => (ImageInv /\ DisplayInv)'
  BY ImageInvStep, DisplayInvStep
<1>3. ImageInv /\ DisplayInv => DrawingShown
  BY DisplayInvImplies
<1> QED
  BY <1>1, <1>2, <1>3, PTL DEF Spec

(* Each of the three programs that use the DMA-350 transfers the right     *)
(* data: the drawing, the reversed characters, the copy of the partition.  *)
THEOREM TransfersRightCorrect == Spec => []TransfersRight
<1>1. DrawingShown /\ EchoReversed /\ PartitionPasses => TransfersRight
  BY DEF TransfersRight
<1> QED
  BY <1>1, DrawingShownCorrect, EchoReversedCorrect, PartitionPassesCorrect, PTL
=============================================================================
