------------------------------- MODULE I2cSbcon -------------------------------
(***************************************************************************)
(* The bit-banged I2C master (i2c_sbcon_drv.c) and the initialisation of   *)
(* the audio codec over it (audio_codec_mps3.c).  A transaction is the     *)
(* sequence of the driver's accesses to the two lines; the codec, which    *)
(* decodes them, is external.  The delays between accesses are left out.   *)
(***************************************************************************)
EXTENDS Integers, Sequences, FiniteSets

CONSTANT Reg32Values    \* what register 0x32 of the codec may hold at first

ASSUME Reg32Assumption == Reg32Values \subseteq 0 .. 255

VARIABLES
    bus,        \* what the master drives the two lines to
    codec,      \* the slave: its decoder and its registers
    i2c,        \* the transaction, the access reached, and the bits received
    reg_32      \* audio_codec_mps3_init: the value read from register 0x32

i2cVars == <<bus, codec, i2c, reg_32>>

Bit(d, n) == (d \div 2^n) % 2

-------------------------------------------------------------------------------
(* The driver *)

Drive(pins, level) == [op |-> "drive", pins |-> pins, to |-> level]
Sample == [op |-> "sample"]

(* i2c_tx_bit, i2c_rx_bit *)
TxBit(b) == <<Drive({"SDA"}, b), Drive({"SCL"}, 1), Drive({"SCL"}, 0)>>
RxBit == <<Drive({"SDA"}, 1), Drive({"SCL"}, 1), Sample, Drive({"SCL"}, 0)>>

(* i2c_sbcon_tx_start, _tx_stop, _rx_ack, _tx_ack *)
TxStart == <<Drive({"SCL", "SDA"}, 1), Drive({"SDA"}, 0), Drive({"SCL"}, 0)>>
TxStop == <<Drive({"SDA"}, 0), Drive({"SCL"}, 1), Drive({"SDA"}, 1)>>
RxAck == RxBit
TxAck(b) == TxBit(b)

(* i2c_sbcon_tx_byte and _rx_byte: the most significant bit first. *)
TxByteLsbFirst(d) == TxBit(Bit(d, 0)) \o TxBit(Bit(d, 1)) \o TxBit(Bit(d, 2))
    \o TxBit(Bit(d, 3)) \o TxBit(Bit(d, 4)) \o TxBit(Bit(d, 5))
    \o TxBit(Bit(d, 6)) \o TxBit(Bit(d, 7))
TxByte(d) == TxBit(Bit(d, 7)) \o TxBit(Bit(d, 6)) \o TxBit(Bit(d, 5))
    \o TxBit(Bit(d, 4)) \o TxBit(Bit(d, 3)) \o TxBit(Bit(d, 2))
    \o TxBit(Bit(d, 1)) \o TxBit(Bit(d, 0))
RxByte == RxBit \o RxBit \o RxBit \o RxBit \o RxBit \o RxBit \o RxBit \o RxBit

Acked(d) == TxByte(d) \o RxAck

(* i2c_sbcon_master_transmit of one or two bytes, _master_receive of one; *)
(* addresses of seven bits, no pending transfer.                          *)
Transmit1(addr, d) == TxStart \o Acked(addr) \o Acked(d) \o TxStop
Transmit2(addr, d1, d2) == TxStart \o Acked(addr) \o Acked(d1) \o Acked(d2) \o TxStop
Receive1(addr) ==
    TxStart \o Acked(IF addr % 2 = 1 THEN addr ELSE addr + 1) \o RxByte \o TxAck(1) \o TxStop

(* The first acknowledge bit, the second, and the byte, in what Receive1    *)
(* has sampled.                                                            *)
ReceivedByte(bits) ==
    2^7 * bits[2] + 2^6 * bits[3] + 2^5 * bits[4] + 2^4 * bits[5] + 2^3 * bits[6]
      + 2^2 * bits[7] + 2 * bits[8] + bits[9]

-------------------------------------------------------------------------------
(* audio_codec_mps3_init *)

CHIP_ADDR_WRITE == 150  \* 0x96
CHIP_ADDR_READ == 151   \* 0x97

(* audio_codec_mps3_write, audio_codec_mps3_read *)
Write(reg, d) == Transmit2(CHIP_ADDR_WRITE, reg, d)
SelectRead(reg) == Transmit1(CHIP_ADDR_WRITE, reg)
Read == Receive1(CHIP_ADDR_READ)

(* Registers 0x00, 0x3E, 0x47 and 0x32 as the manual says, then the clock, *)
(* the three power controls, the inputs, the amplifiers and the filter.    *)
Fixed == <<[reg |-> 5, d |-> 32], [reg |-> 2, d |-> 0], [reg |-> 3, d |-> 0],
           [reg |-> 4, d |-> 170], [reg |-> 8, d |-> 144], [reg |-> 9, d |-> 144],
           [reg |-> 16, d |-> 95], [reg |-> 17, d |-> 95], [reg |-> 14, d |-> 4]>>

Transaction(n) ==
    CASE n = 1 -> Write(0, 153)
      [] n = 2 -> Write(62, 186)
      [] n = 3 -> Write(71, 128)
      [] n = 4 -> SelectRead(50)
      [] n = 5 -> Read
      [] n = 6 -> Write(50, (reg_32 % 128) + 128)
      [] n = 7 -> Write(50, reg_32 % 128)
      [] n = 8 -> Write(0, 0)
      [] OTHER -> Write(Fixed[n - 8].reg, Fixed[n - 8].d)
NumTransactions == 8 + Len(Fixed)

Registers == {0, 50, 62, 71} \cup {Fixed[j].reg : j \in 1 .. Len(Fixed)}

I2cInit ==
    /\ bus = [SDA |-> 1, SCL |-> 1]
    /\ \E v \in Reg32Values :
         codec = [phase |-> "idle", shift |-> 0, n |-> 0, first |-> TRUE, map |-> 0,
                  drive |-> 1, regs |-> [r \in Registers |-> IF r = 50 THEN v ELSE 255]]
    /\ i2c = [n |-> 1, at |-> 1, bits |-> << >>]
    /\ reg_32 = 0

-------------------------------------------------------------------------------
(* The codec, as an I2C slave: external *)

SlaveStart(c) == [c EXCEPT !.phase = "addr", !.shift = 0, !.n = 0, !.drive = 1]
SlaveStop(c) == [c EXCEPT !.phase = "idle", !.drive = 1]

(* A rising clock: a bit is sampled, or the ninth one. *)
SlaveRise(c, sda) ==
    CASE c.phase \in {"addr", "write"} /\ c.n < 8 ->
           [c EXCEPT !.shift = 2 * @ + sda, !.n = @ + 1]
      [] c.phase = "read" /\ c.n = 8 /\ sda = 1 -> SlaveStop(c)
      [] c.phase # "idle" -> [c EXCEPT !.n = @ + 1]
      [] OTHER -> c

(* A falling clock: a byte is complete, the ninth bit is over, or the next *)
(* bit of a register goes out.                                             *)
SlaveByte(c) ==
    IF c.phase = "addr"
      THEN IF c.shift \div 2 # CHIP_ADDR_WRITE \div 2 THEN SlaveStop(c)
           ELSE [c EXCEPT !.drive = 0, !.first = TRUE,
                          !.phase = IF c.shift % 2 = 1 THEN "addressed" ELSE "write"]
    ELSE IF c.first THEN [c EXCEPT !.drive = 0, !.map = c.shift, !.first = FALSE]
    ELSE [c EXCEPT !.drive = 0, !.regs[c.map] = c.shift]

SlaveFall(c) ==
    CASE c.phase \in {"addr", "write"} /\ c.n = 8 -> SlaveByte(c)
      [] c.phase = "write" /\ c.n = 9 -> [c EXCEPT !.drive = 1, !.n = 0, !.shift = 0]
      [] c.phase = "addressed" /\ c.n = 9 ->
           [c EXCEPT !.phase = "read", !.n = 0, !.drive = Bit(c.regs[c.map], 7)]
      [] c.phase = "read" /\ c.n \in 1 .. 7 ->
           [c EXCEPT !.drive = Bit(c.regs[c.map], 7 - c.n)]
      [] c.phase = "read" /\ c.n = 8 -> [c EXCEPT !.drive = 1]
      [] OTHER -> c

Slave(c, old, new) ==
    CASE old.SCL = 1 /\ new.SCL = 1 /\ old.SDA = 1 /\ new.SDA = 0 -> SlaveStart(c)
      [] old.SCL = 1 /\ new.SCL = 1 /\ old.SDA = 0 /\ new.SDA = 1 -> SlaveStop(c)
      [] old.SCL = 0 /\ new.SCL = 1 -> SlaveRise(c, new.SDA)
      [] old.SCL = 1 /\ new.SCL = 0 -> SlaveFall(c)
      [] OTHER -> c

-------------------------------------------------------------------------------
CodecReady == i2c.n > NumTransactions

(* The next access of the driver to the lines, and the codec's reaction. *)
LineAccess ==
    /\ ~CodecReady
    /\ LET o == Transaction(i2c.n)[i2c.at]
           last == i2c.at = Len(Transaction(i2c.n))
           bits == IF o.op = "sample" THEN Append(i2c.bits, bus.SDA * codec.drive)
                   ELSE i2c.bits
       IN  /\ bus' = IF o.op = "drive"
                       THEN [p \in {"SDA", "SCL"} |-> IF p \in o.pins THEN o.to ELSE bus[p]]
                     ELSE bus
           /\ codec' = Slave(codec, bus, bus')
           /\ i2c' = IF last THEN [n |-> i2c.n + 1, at |-> 1, bits |-> << >>]
                     ELSE [n |-> i2c.n, at |-> i2c.at + 1, bits |-> bits]
           /\ reg_32' = IF last /\ i2c.n = 5 THEN ReceivedByte(i2c.bits) ELSE reg_32

(* After its initialisation every register of the codec holds the value    *)
(* that the sequence names; of 0x32 only the highest bit is changed.       *)
CodecConfigured ==
    CodecReady =>
      /\ \A j \in 1 .. Len(Fixed) : codec.regs[Fixed[j].reg] = Fixed[j].d
      /\ codec.regs[0] = 0 /\ codec.regs[62] = 186 /\ codec.regs[71] = 128
      /\ \E v \in Reg32Values : codec.regs[50] = v % 128
      /\ codec.phase = "idle" /\ bus = [SDA |-> 1, SCL |-> 1]
===============================================================================
