------------------------------- MODULE Ethernet -------------------------------
(***************************************************************************)
(* The Ethernet driver of the VAD example (smsc9220_eth_drv.c) and the     *)
(* network interface on top of it (NetworkInterface.c): the initialisation *)
(* of the controller, the receive task with its interrupt handler and the  *)
(* network buffers, and the sending tasks.  The controller, FreeRTOS and   *)
(* the IP task are external.  Time is counted in milliseconds: an access   *)
(* to a MAC register takes any of MacDelays, one to the PHY any of         *)
(* PhyDelays.                                                              *)
(***************************************************************************)
EXTENDS Integers, Sequences, FiniteSets

CONSTANTS
    TimeOut,        \* REG_WRITE_TIME_OUT_MS
    ResetTimeOut,   \* RESET_TIME_OUT_MS
    MacDelays, PhyDelays,
    RxSizes,        \* bound: the lengths of the frames that arrive
    TxSizes,        \* bound: the lengths of the packets that are sent
    Sender,         \* the tasks that send
    TxSpace,        \* bytes of the transmit FIFO
    RxSlots,        \* frames that the receive FIFO holds
    Buffers,        \* network buffers
    EventSlots      \* length of the queue of the IP task

ASSUME EthernetAssumption ==
    /\ TimeOut \in Nat /\ TimeOut > 1 /\ ResetTimeOut \in Nat \ {0}
    /\ MacDelays \subseteq Nat /\ PhyDelays \subseteq Nat
    /\ RxSizes \in Seq(Nat) /\ TxSizes \in Seq(Nat) /\ IsFiniteSet(Sender)
    /\ Buffers \in Nat /\ EventSlots \in Nat /\ TxSpace \in Nat /\ TxSpace % 4 = 0

VARIABLES
    drv,    \* smsc9220_init: the step, what it has read, its result
    op,     \* the access to the PHY that is under way
    chip,   \* the controller: time left of accesses, its registers
    rx,     \* receive side: FIFOs of the controller, interrupt, notification
    task,   \* the receive task: where it is, the length peeked, its buffer
    ip,     \* the queue of the IP task, and the number of free buffers
    tx,     \* the transmit FIFO, what was accepted and what was sent
    snd     \* per sender: where it is, the words it still has to write

vars == <<drv, op, chip, rx, task, ip, tx, snd>>

Least(a, b) == IF a < b THEN a ELSE b
Most(a, b) == IF a > b THEN a ELSE b

-------------------------------------------------------------------------------
(* The registers of the MAC *)

(* time passes *)
Tick(c, n) == [c EXCEPT !.mac = Most(0, @ - n), !.mii = Most(0, @ - n)]

(* do { wait_ms(1); time_out--; } while (time_out && busy) *)
Turns(delay, limit) == Most(1, Least(delay, limit))

(* smsc9220_mac_regread *)
MacRead(c, delay) ==
    IF c.mac > 0 THEN [st |-> "busy", chip |-> c]
    ELSE LET n == Turns(delay, TimeOut)
         IN  [st |-> IF n = TimeOut THEN "timeout" ELSE "none",
              chip |-> Tick([c EXCEPT !.mac = delay], n)]

(* smsc9220_mac_regwrite.  The busy bit is masked with the lowest bit of    *)
(* the command, which is that of the register's number: the loop does not  *)
(* wait for a register with an even number, such as MII_ACC.               *)
MacWrite(c, odd, delay) ==
    IF c.mac > 0 THEN [st |-> "busy", chip |-> c]
    ELSE LET n == IF odd THEN Turns(delay, TimeOut) ELSE 1
         IN  [st |-> IF n = TimeOut THEN "timeout" ELSE "none",
              chip |-> Tick([c EXCEPT !.mac = delay], n)]

-------------------------------------------------------------------------------
(* xNetworkInterfaceInitialise: smsc9220_init, the address, the receive task *)

PhyRead(reg, checked) == [do |-> "phy_read", reg |-> reg, bit |-> "none", checked |-> checked]
PhyWrite(reg, bit, checked) ==
    [do |-> "phy_write", reg |-> reg, bit |-> bit, checked |-> checked]
MacReadCr == [do |-> "mac_read", reg |-> "cr", bit |-> "none", checked |-> FALSE]
MacWriteCr(bit) == [do |-> "mac_write", reg |-> "cr", bit |-> bit, checked |-> FALSE]
Plain(what) == [do |-> what, reg |-> "none", bit |-> "none", checked |-> TRUE]

(* smsc9220_check_phy, smsc9220_reset_phy *)
CheckPhy == <<PhyRead("id1", TRUE), PhyRead("id2", TRUE), Plain("check_ids")>>
ResetPhy == <<PhyRead("bctrl", TRUE), PhyWrite("bctrl", "reset", TRUE), Plain("phy_resets"),
              PhyRead("bctrl", TRUE), Plain("check_reset")>>
(* smsc9220_advertise_cap, smsc9220_establish_link *)
AdvertiseCap == <<PhyRead("aneg_adv", FALSE), PhyWrite("aneg_adv", "all", FALSE)>>
EstablishLink == <<PhyRead("bctrl", FALSE), PhyWrite("bctrl", "auto_neg", FALSE),
                   Plain("must_be_one")>>
(* smsc9220_enable_mac_xmit, smsc9220_enable_xmit, smsc9220_enable_mac_recv *)
EnableMac == <<MacReadCr, MacWriteCr("txen"), Plain("tx_on"), MacReadCr, MacWriteCr("rxen")>>

xNetworkInterfaceInitialise ==
    <<Plain("check_id"), Plain("soft_reset"), Plain("set_txfifo"), Plain("wait_eeprom"),
      Plain("init_irqs")>>
      \o CheckPhy \o ResetPhy \o AdvertiseCap \o EstablishLink \o EnableMac
      \o <<Plain("finish"), [Plain("read_address") EXCEPT !.checked = FALSE]>>

NoOp == [phase |-> "none", turns |-> 0]
Regs(id1, id2) ==
        [id1 |-> id1, id2 |-> id2, bctrl |-> {}, aneg_adv |-> {}, cr |-> {},
         tx_cfg |-> {}, hw_cfg |-> {}, irq_cfg |-> {}]

Step == xNetworkInterfaceInitialise[drv.at]
Running == drv.result = "running"

(* The step is over: an error that is checked ends the initialisation, any *)
(* other leaves what was read at zero.  Which error it was is not kept.    *)
Passed(d, st, val) ==
    IF st # "none" /\ Step.checked THEN [d EXCEPT !.result = "failed"]
    ELSE LET e == [d EXCEPT !.val = val, !.ignored = @ \/ st # "none"] IN
         IF drv.at = Len(xNetworkInterfaceInitialise) THEN [e EXCEPT !.result = "none"]
         ELSE [e EXCEPT !.at = @ + 1]

Others == <<rx, task, ip, tx, snd>>

(* A loop that polls one of the controller's own registers. *)
PollOwn(what, limit) ==
    /\ Step.do = what
    /\ \E delay \in MacDelays :
         drv' = Passed(drv, IF Turns(delay, limit) = limit THEN "timeout" ELSE "none", {})
    /\ UNCHANGED <<op, chip>>

(* smsc9220_check_id, _soft_reset, _set_txfifo, _wait_eeprom, _init_irqs *)
SetupStep ==
    /\ Running
    /\ \/ /\ Step.do = "check_id"
          /\ \E st \in {"none", "internal"} : drv' = Passed(drv, st, {})
          /\ UNCHANGED <<op, chip>>
       \/ PollOwn("soft_reset", ResetTimeOut) \/ PollOwn("wait_eeprom", TimeOut)
       \/ /\ Step.do = "set_txfifo" /\ drv' = Passed(drv, "none", {})
          /\ chip' = [chip EXCEPT !.regs.hw_cfg = {"txfifo"}] /\ UNCHANGED op
       \/ /\ Step.do = "init_irqs" /\ drv' = Passed(drv, "none", {})
          /\ chip' = [chip EXCEPT !.regs.irq_cfg = {"irq_en"}] /\ UNCHANGED op
       \/ /\ Step.do = "must_be_one" /\ drv' = Passed(drv, "none", {})
          /\ chip' = [chip EXCEPT !.regs.hw_cfg = @ \cup {"one"}] /\ UNCHANGED op
       \/ /\ Step.do = "tx_on" /\ drv' = Passed(drv, "none", {})
          /\ chip' = [chip EXCEPT !.regs.tx_cfg = @ \cup {"on"}] /\ UNCHANGED op
    /\ UNCHANGED Others

(* The two checks of what the PHY has answered, and its time for a reset. *)
PhyChecked ==
    /\ Running
    /\ \/ /\ Step.do = "check_ids"
          /\ drv' = Passed(drv, IF chip.regs.id1 \cup chip.regs.id2 = {} THEN "internal"
                               ELSE "none", {})
          /\ UNCHANGED chip
       \/ /\ Step.do = "check_reset"
          /\ drv' = Passed(drv, IF "reset" \in drv.val THEN "internal" ELSE "none", {})
          /\ UNCHANGED chip
       \/ /\ Step.do = "phy_resets"
          /\ drv' = Passed(drv, "none", {})
          /\ \E left \in {{}, {"reset"}} :
               chip' = Tick([chip EXCEPT !.regs.bctrl = @ \cap left], TimeOut)
    /\ UNCHANGED <<op, Others>>

BitOnly(val, bit) == {bit}
WithBit(val, bit) == val \cup {bit}

EndOp(st, val) == drv' = Passed(drv, st, val) /\ op' = NoOp
Goto(phase) == op' = [op EXCEPT !.phase = phase] /\ UNCHANGED drv

(* smsc9220_phy_regread, _phy_regwrite: the interface to the PHY must be   *)
(* idle; data to write is loaded, the operation is started and polled, and *)
(* data that was read is fetched.                                          *)
Loads == IF Step.do = "phy_write" THEN "load" ELSE "start"
PhyAccess ==
    /\ Running /\ Step.do \in {"phy_read", "phy_write"}
    /\ \E delay \in MacDelays, phy \in PhyDelays :
         LET r == MacRead(chip, delay)
             data == MacWrite(chip, TRUE, delay)
             start == MacWrite(chip, FALSE, delay)
             poll == MacRead(Tick(chip, 1), delay)
             failed(a) == a.st # "none"
         IN
         CASE op.phase = "none" ->
                /\ chip' = r.chip
                /\ IF failed(r) THEN EndOp("internal", {})
                   ELSE IF r.chip.mii > 0 THEN EndOp("busy", {})
                   ELSE Goto(Loads)
           [] op.phase = "load" ->
                /\ chip' = data.chip
                /\ IF failed(data) THEN EndOp("internal", {}) ELSE Goto("start")
           [] op.phase = "start" ->
                /\ chip' = IF failed(start) THEN start.chip
                           ELSE [start.chip EXCEPT
                                   !.mii = start.chip.mac + phy,
                                   !.regs[Step.reg] = IF Step.do = "phy_write"
                                                        THEN WithBit(drv.val, Step.bit)
                                                      ELSE @]
                /\ IF failed(start) THEN EndOp("internal", {})
                   ELSE op' = [phase |-> "poll", turns |-> TimeOut] /\ UNCHANGED drv
           [] op.phase = "poll" ->
                /\ chip' = poll.chip
                /\ IF failed(poll) THEN EndOp("internal", {})
                   ELSE IF op.turns > 1 /\ poll.chip.mii > 0
                     THEN op' = [op EXCEPT !.turns = @ - 1] /\ UNCHANGED drv
                   ELSE IF op.turns = 1 THEN EndOp("timeout", {})
                   ELSE IF Step.do = "phy_write" THEN EndOp("none", {})
                   ELSE Goto("fetch")
           [] op.phase = "fetch" ->
                /\ chip' = r.chip
                /\ IF failed(r) THEN EndOp("internal", {})
                   ELSE EndOp("none", chip.regs[Step.reg])
    /\ UNCHANGED Others

(* The accesses to MAC_CR, whose results nobody looks at. *)
MacAccess ==
    /\ Running /\ Step.do \in {"mac_read", "mac_write"}
    /\ \E delay \in MacDelays :
         LET r == MacRead(chip, delay)
             w == MacWrite(chip, TRUE, delay)
         IN  IF Step.do = "mac_read"
               THEN /\ chip' = r.chip
                    /\ drv' = Passed(drv, r.st, IF r.st = "none" THEN chip.regs.cr ELSE {})
             ELSE /\ chip' = IF w.st = "busy" THEN w.chip
                             ELSE [w.chip EXCEPT !.regs.cr = WithBit(drv.val, Step.bit)]
                  /\ drv' = Passed(drv, w.st, {})
    /\ UNCHANGED <<op, Others>>

(* The delay at the end of smsc9220_init outlasts every access. *)
Finish ==
    /\ Running /\ Step.do = "finish"
    /\ drv' = Passed(drv, "none", {})
    /\ chip' = Tick(chip, chip.mac + chip.mii)
    /\ UNCHANGED <<op, Others>>

(* smsc9220_read_mac_address: the address stays zero when it cannot be     *)
(* read, nobody looks at the result, and the receive task is created.      *)
ReadAddress ==
    /\ Running /\ Step.do = "read_address"
    /\ \E high, low \in MacDelays :
         LET h == MacRead(chip, high)
             l == MacRead(h.chip, low)
             ok == h.st = "none" /\ l.st = "none"
         IN  /\ drv' = Passed([drv EXCEPT !.address = ok], IF ok THEN "none" ELSE "internal", {})
             /\ chip' = IF h.st = "none" THEN l.chip ELSE h.chip
    /\ task' = [task EXCEPT !.at = "enable"]
    /\ UNCHANGED <<op, rx, ip, tx, snd>>

-------------------------------------------------------------------------------
(* Receiving *)

Frame(k, size) == [j \in 1 .. size |-> 10 * k + j]

(* The words of a frame in the FIFO, the last one padded: external *)
Word(bytes, w) == [j \in 0 .. 3 |-> IF 4 * w + j < Len(bytes) THEN bytes[4 * w + j + 1] ELSE 0]
Words(bytes) == [w \in 1 .. (Len(bytes) + 3) \div 4 |-> Word(bytes, w - 1)]

FrameArrives ==
    /\ "rxen" \in chip.regs.cr
    /\ rx.arrived < Len(RxSizes) /\ Len(rx.status) < RxSlots
    /\ LET k == rx.arrived + 1 IN
         rx' = [rx EXCEPT !.arrived = k, !.status = Append(@, RxSizes[k]),
                          !.data = @ \o Words(Frame(k, RxSizes[k]))]
    /\ UNCHANGED <<drv, op, chip, task, ip, tx, snd>>

(* ETHERNET_Handler: with the lowest level set the interrupt is raised as   *)
(* long as there are frames.                                               *)
ETHERNET_Handler ==
    /\ rx.irq_enable /\ rx.status # << >>
    /\ rx' = [rx EXCEPT !.irq_enable = FALSE, !.notified = @ + 1]
    /\ UNCHANGED <<drv, op, chip, task, ip, tx, snd>>

EnabledOnce ==
    /\ task.at = "enable"
    /\ rx' = [rx EXCEPT !.irq_enable = @ \/ rx.read = 0]
    /\ task' = [task EXCEPT !.at = "wait"]
EnableInterrupt ==
    /\ task.at = "enable"
    /\ rx' = [rx EXCEPT !.irq_enable = TRUE]
    /\ task' = [task EXCEPT !.at = "wait"]

(* ulTaskNotifyTake, smsc9220_peek_next_packet_size.  The code takes a    *)
(* length of zero for no packet; no frame is that short.                   *)
Peek ==
    /\ task.at = "wait" /\ rx.notified > 0
    /\ rx' = [rx EXCEPT !.notified = @ - 1]
    /\ task' = IF rx.status = << >> THEN [task EXCEPT !.at = "enable"]
               ELSE [task EXCEPT !.at = "alloc", !.length = Head(rx.status)]

(* pxGetNetworkBufferWithDescriptor: without a buffer the frame stays. *)
Allocate ==
    /\ task.at = "alloc"
    /\ task' = [task EXCEPT !.at = IF ip.free > 0 THEN "read" ELSE "enable"]
    /\ ip' = [ip EXCEPT !.free = IF @ > 0 THEN @ - 1 ELSE @]

(* empty_rx_fifo: whole words, a last one for the remaining bytes, and the *)
(* status.                                                                 *)
Bytes(data, n) == [j \in 1 .. n |-> data[(j - 1) \div 4 + 1][(j - 1) % 4]]
NumRead(n) == n \div 4 + (IF n % 4 > 0 THEN 1 ELSE 0)
RemainderLeft(r, n) ==
    [r EXCEPT !.data = SubSeq(@, n \div 4 + 1, Len(@)), !.status = Tail(@), !.read = @ + 1]
EmptyRxFifo(r, n) ==
    [r EXCEPT !.data = SubSeq(@, NumRead(n) + 1, Len(@)), !.status = Tail(@), !.read = @ + 1]

(* smsc9220_get_received_packet.  Another length than the one peeked would  *)
(* keep the buffer for good.                                               *)
ReadFrame ==
    /\ task.at = "read"
    /\ IF rx.status = << >> \/ Head(rx.status) # task.length
         THEN task' = [task EXCEPT !.at = "enable"] /\ UNCHANGED rx
       ELSE /\ task' = [task EXCEPT !.at = "consider", !.frame = Bytes(rx.data, task.length)]
            /\ rx' = EmptyRxFifo(rx, task.length)

(* eConsiderFrameForProcessing and xSendEventStructToIPTask *)
Drop == /\ task' = [task EXCEPT !.at = "enable", !.frame = << >>]
        /\ ip' = [ip EXCEPT !.free = @ + 1]
Hand ==
    /\ task.at = "consider"
    /\ \/ Drop
       \/ /\ Len(ip.queue) < EventSlots
          /\ ip' = [ip EXCEPT !.queue = Append(@, task.frame)]
          /\ task' = [task EXCEPT !.at = "enable", !.frame = << >>]

smsc9220_Receive_task ==
    /\ \/ (EnableInterrupt \/ Peek \/ ReadFrame) /\ UNCHANGED ip
       \/ (Allocate \/ Hand) /\ UNCHANGED rx
    /\ UNCHANGED <<drv, op, chip, tx, snd>>

(* The IP task takes a frame and releases its buffer: external *)
IpTask ==
    /\ ip.queue # << >>
    /\ ip' = [ip EXCEPT !.queue = Tail(@), !.free = @ + 1]
    /\ UNCHANGED <<drv, op, chip, rx, task, tx, snd>>

-------------------------------------------------------------------------------
(* Sending *)

FreeSpace == TxSpace - 4 * Len(tx.fifo)
Offset(size) == 4 - (size % 4)

(* The two commands, and fill_tx_fifo: a first word of filler and the       *)
(* bytes that do not fill a word, then whole words.                        *)
Filled(bytes) ==
    LET r == Len(bytes) % 4
        word(w) == IF w = 1 THEN [j \in 0 .. 3 |-> IF j < 4 - r THEN 0 ELSE bytes[j - (4 - r) + 1]]
                   ELSE [j \in 0 .. 3 |-> bytes[r + 4 * (w - 2) + j + 1]]
    IN  [w \in 1 .. 1 + Len(bytes) \div 4 |-> word(w)]
ToWrite(bytes) ==
    <<[offset |-> Offset(Len(bytes)), len |-> Len(bytes)], [len |-> Len(bytes)]>>
      \o Filled(bytes)

(* xNetworkInterfaceOutput is called with a buffer. *)
Output(s) ==
    /\ drv.result = "none" /\ snd[s].at = "idle" /\ ip.free > 0
    /\ snd[s].sent < Len(TxSizes)
    /\ ip' = [ip EXCEPT !.free = @ - 1]
    /\ snd' = [snd EXCEPT ![s].at = "take", ![s].sent = @ + 1]
    /\ UNCHANGED <<drv, op, chip, rx, task, tx>>

Packet(s) == Frame(IF s = CHOOSE t \in Sender : TRUE THEN 5 ELSE 7, TxSizes[snd[s].sent])

(* smsc9220_send_by_chunks of a whole packet, under the mutex. *)
TakeMutex(s) ==
    /\ snd[s].at = "take" /\ ~tx.mutex
    /\ IF Len(Packet(s)) > FreeSpace
         THEN /\ snd' = [snd EXCEPT ![s].at = "give"]
              /\ tx' = [tx EXCEPT !.mutex = TRUE]
       ELSE /\ snd' = [snd EXCEPT ![s].at = "write", ![s].words = ToWrite(Packet(s))]
            /\ tx' = [tx EXCEPT !.mutex = TRUE, !.accepted = Append(@, Packet(s)),
                                !.tight = @ \/ FreeSpace < Len(Packet(s)) + 12]
    /\ UNCHANGED <<drv, op, chip, rx, task, ip>>

(* One word to the data port: a full FIFO loses it. *)
WriteWord(s) ==
    /\ snd[s].at = "write"
    /\ tx' = IF FreeSpace < 4 THEN [tx EXCEPT !.overrun = TRUE]
             ELSE [tx EXCEPT !.fifo = Append(@, Head(snd[s].words))]
    /\ snd' = [snd EXCEPT ![s].words = Tail(@),
                          ![s].at = IF Len(snd[s].words) = 1 THEN "give" ELSE "write"]
    /\ UNCHANGED <<drv, op, chip, rx, task, ip>>

(* xSemaphoreGive and the release of the buffer, here or by the caller *)
GiveMutex(s) ==
    /\ snd[s].at = "give"
    /\ tx' = [tx EXCEPT !.mutex = FALSE]
    /\ ip' = [ip EXCEPT !.free = @ + 1]
    /\ snd' = [snd EXCEPT ![s].at = "idle"]
    /\ UNCHANGED <<drv, op, chip, rx, task>>

(* The controller sends the packet at the head of its FIFO: external.      *)
(* After an overrun the FIFO no longer says where a packet begins, and     *)
(* what the controller makes of it is left out.                            *)
HeadWords == 2 + (tx.fifo[1].offset + tx.fifo[1].len + 3) \div 4
Transmitted ==
    LET a == tx.fifo[1]
        byte(j) == tx.fifo[3 + (j \div 4)][j % 4]
    IN  [j \in 1 .. a.len |-> byte(a.offset + j - 1)]
ChipSends ==
    /\ "txen" \in chip.regs.cr /\ ~tx.overrun
    /\ tx.fifo # << >> /\ Len(tx.fifo) >= HeadWords
    /\ tx' = [tx EXCEPT !.fifo = SubSeq(@, HeadWords + 1, Len(@)),
                        !.wire = Append(@, Transmitted)]
    /\ UNCHANGED <<drv, op, chip, rx, task, ip, snd>>

-------------------------------------------------------------------------------
Init ==
    /\ drv = [at |-> 1, val |-> {}, ignored |-> FALSE, address |-> FALSE, result |-> "running"]
    /\ op = NoOp
    /\ \E id1, id2 \in {{}, {"id"}} : chip = [mac |-> 0, mii |-> 0, regs |-> Regs(id1, id2)]
    /\ rx = [status |-> << >>, data |-> << >>, irq_enable |-> FALSE, notified |-> 0,
             arrived |-> 0, read |-> 0]
    /\ task = [at |-> "new", length |-> 0, frame |-> << >>]
    /\ ip = [queue |-> << >>, free |-> Buffers]
    /\ tx = [fifo |-> << >>, mutex |-> FALSE, accepted |-> << >>, wire |-> << >>,
             tight |-> FALSE, overrun |-> FALSE]
    /\ snd = [s \in Sender |-> [at |-> "idle", words |-> << >>, sent |-> 0]]

Initialise == SetupStep \/ PhyChecked \/ PhyAccess \/ MacAccess \/ Finish \/ ReadAddress
Send(s) == TakeMutex(s) \/ WriteWord(s) \/ GiveMutex(s)

Next ==
    \/ Initialise
    \/ FrameArrives \/ ETHERNET_Handler \/ smsc9220_Receive_task \/ IpTask
    \/ \E s \in Sender : Output(s) \/ Send(s)
    \/ ChipSends

(* The interrupt is served, and the tasks are scheduled. *)
Fairness ==
    /\ WF_vars(Initialise)
    /\ WF_vars(ETHERNET_Handler) /\ WF_vars(smsc9220_Receive_task) /\ WF_vars(IpTask)
    /\ \A s \in Sender : WF_vars(Send(s))

Spec == Init /\ [][Next]_vars /\ Fairness

-------------------------------------------------------------------------------
(* Properties *)

(* An initialisation that reports success, and in which none of the        *)
(* accesses failed that nobody checks, leaves the link configured: the PHY *)
(* out of reset, advertising and negotiating, both directions of the MAC   *)
(* enabled, every bit kept that an earlier step has set, and the address  *)
(* that of the controller.                                                 *)
LinkConfigured ==
    drv.result = "none" /\ ~drv.ignored =>
      /\ drv.address /\ chip.regs.bctrl = {"auto_neg"} /\ chip.regs.aneg_adv = {"all"}
      /\ chip.regs.cr = {"txen", "rxen"} /\ chip.regs.tx_cfg = {"on"}
      /\ chip.regs.hw_cfg = {"txfifo", "one"} /\ chip.regs.irq_cfg = {"irq_en"}

InUse(s) == snd[s].at # "idle"

(* The frames that the receive task takes out of the FIFO are the frames   *)
(* that arrived, byte for byte; the packets on the wire are those that     *)
(* were accepted, in their order, whoever sent them; the FIFO overruns     *)
(* only when a packet is accepted that leaves fewer than the twelve bytes  *)
(* that the space check does not count; and every network buffer is free or  *)
(* held by somebody who will release it.                                   *)
TrafficIntact ==
    /\ task.at = "consider" => task.frame = Frame(rx.read, RxSizes[rx.read])
    /\ tx.overrun => tx.tight
    /\ Len(tx.wire) <= Len(tx.accepted)
    /\ tx.wire = SubSeq(tx.accepted, 1, Len(tx.wire))
    /\ ip.free + Len(ip.queue) + Cardinality({s \in Sender : InUse(s)})
         + (IF task.at \in {"read", "consider"} THEN 1 ELSE 0) = Buffers

(* Every frame that arrives is taken out of the FIFO, although the         *)
(* interrupt is off while one is processed, one frame is read for each     *)
(* notification, and there may be no buffer at first.                      *)
FramesServed == \A k \in 1 .. Len(RxSizes) : (rx.arrived >= k) ~> (rx.read >= k)
===============================================================================
