-------------------------------- MODULE Dma350 --------------------------------
(***************************************************************************)
(* The programs that use a channel of the DMA-350, one of which runs:      *)
(*   "display"     corstone310_fvp_dma/dma350_ns: drawTask draws tiles     *)
(*                 into a buffer, clcdTask sends it to the display with    *)
(*                 linked commands that the interrupt handler triggers;    *)
(*   "triggering"  triggering_example: characters are received by one      *)
(*                 UART, reversed and sent by another, the CPU sleeps;     *)
(*   "partition"   dma350_unpriv_partition: a secure partition that tests  *)
(*                 the unprivileged interface.                             *)
(* The channel, the display, the UARTs, the privileged library, FreeRTOS   *)
(* and the SPM are external.                                               *)
(***************************************************************************)
EXTENDS Integers, Sequences, FiniteSets

CONSTANTS
    Columns, Rows,      \* tiles of the drawing, one pixel each
    Transforms,         \* number of transforms that are cycled through
    Block,              \* bytes sent for one trigger
    QueueLength,        \* QUEUE_LENGTH
    BufferingLen,       \* BUFFERING_LEN
    MaxTyped,           \* bound: characters typed
    MaxOther,           \* bound: other interrupts
    MaxFailedDraws      \* bound: draw calls that are refused

ASSUME Dma350Assumption ==
    /\ Columns \in Nat \ {0} /\ Rows \in Nat \ {0} /\ (Columns * Rows) % 4 = 0
    /\ Transforms \in Nat \ {0} /\ Block \in Nat \ {0}
    /\ BufferingLen \in Nat \ {0} /\ QueueLength \in Nat \ {0}

VARIABLES
    image,      \* the program that runs
    ch,         \* the channel
    draw,       \* drawTask: where it is, its loop variables, its notification
    clcd,       \* clcdTask: where it is and its notification
    queue,      \* xQueue
    buf,        \* shared_clcd_buffer
    screen,     \* the display: chip select, the bytes since the last command 0x22
    cpu,        \* the triggering example: where it is, in_array, out_array
    uart,       \* the UARTs: typed, held, taken by the DMA, sent
    part        \* the partition: where it is, its result, the signal

vars == <<image, ch, draw, clcd, queue, buf, screen, cpu, uart, part>>
display == <<draw, clcd, queue, buf, screen>>
echo == <<cpu, uart>>

-------------------------------------------------------------------------------
(* drawTask *)

Tile(c, r) == Columns * r + c       \* &shared_clcd_buffer[to_y][to_x]
Blank == -1

NextTransform(t) == IF t + 1 >= Transforms THEN 0 ELSE t + 1

(* One call of dma350_draw_from_bitmap_unpriv, which is blocking and whose  *)
(* result is not looked at.                                                *)
DrawTile ==
    /\ image = "display" /\ draw.at = "draw" /\ draw.col < Columns /\ draw.row < Rows
    /\ \E refused \in BOOLEAN :
         /\ refused => Cardinality(draw.refused) < MaxFailedDraws
         /\ buf' = IF refused THEN buf
                   ELSE [buf EXCEPT ![Tile(draw.col, draw.row)] = draw.transform]
         /\ draw' = [draw EXCEPT !.row = @ + 1, !.transform = NextTransform(@),
                                 !.refused = IF refused THEN @ \cup {Tile(draw.col, draw.row)}
                                             ELSE @]
    /\ ch' = [ch EXCEPT !.clash = @ \/ ch.run]
    /\ UNCHANGED <<image, clcd, queue, screen, echo, part>>

(* A column is complete: the display is requested. *)
RequestDisplay ==
    /\ image = "display" /\ draw.at = "draw" /\ draw.col < Columns /\ draw.row = Rows
    /\ Len(queue) < QueueLength
    /\ queue' = Append(queue, "draw")
    /\ draw' = [draw EXCEPT !.at = "wait", !.col = @ + 1, !.row = 0]
    /\ UNCHANGED <<image, ch, clcd, buf, screen, echo, part>>

Notified ==
    /\ draw.at = "wait" /\ draw.notified > 0
    /\ draw' = [draw EXCEPT !.at = "draw", !.notified = 0]
    /\ UNCHANGED <<image, ch, clcd, queue, buf, screen, echo, part>>

NoMoreDrawing ==
    /\ image = "display" /\ draw.at = "draw" /\ draw.col = Columns
    /\ Len(queue) < QueueLength
    /\ queue' = Append(queue, "no_more_drawing")
    /\ draw' = [draw EXCEPT !.at = "deleted"]
    /\ UNCHANGED <<image, ch, clcd, buf, screen, echo, part>>

drawTask == DrawTile \/ RequestDisplay \/ Notified \/ NoMoreDrawing

-------------------------------------------------------------------------------
(* generate_dma_cmdlinks_for_display: what each command writes to the       *)
(* registers of the channel.  The other registers keep their values, or    *)
(* are cleared first.                                                      *)

Pixels == Columns * Rows
Quarter == Pixels \div 4

Cleared == [src |-> 0, xsize |-> 0, ysize |-> 0, xinc |-> 0, ystride |-> 0,
            trigger |-> FALSE, done |-> FALSE, link |-> 0]

Cmd(k) ==
    CASE k = 1 -> [regclear |-> TRUE, src |-> 1, xsize |-> 2, ysize |-> Quarter, xinc |-> -1,
                   ystride |-> 2, trigger |-> TRUE, done |-> FALSE, link |-> 2]
      [] k \in 2 .. 4 -> [src |-> 2 * (k - 1) * Quarter + 1, xsize |-> 2, ysize |-> Quarter,
                          link |-> k + 1]
      [] k = 5 -> [regclear |-> TRUE, done |-> TRUE, link |-> 0]

(* the channel loads a command: external *)
Loaded(regs, cmd) ==
    LET base == IF "regclear" \in DOMAIN cmd THEN Cleared ELSE regs
    IN  [f \in DOMAIN Cleared |-> IF f \in DOMAIN cmd THEN cmd[f] ELSE base[f]]

(* The byte at address a of the buffer: a pixel is stored low byte first. *)
ByteAt(a) == <<buf[a \div 2], IF a % 2 = 0 THEN "low" ELSE "high">>
Source(regs, n) == regs.src + (n \div regs.xsize) * regs.ystride + (n % regs.xsize) * regs.xinc

(* display_image_with_dma up to ENABLECMD: a zero-length command whose link *)
(* is the first one; the window is set, and command 0x22 announces data.   *)
StartDisplay ==
    /\ clcd.at = "start"
    /\ ch' = [ch EXCEPT !.run = TRUE, !.regs = [Cleared EXCEPT !.link = 1], !.sent = 0,
                        !.irq = "none", !.nvic = TRUE]
    /\ screen' = [cs |-> "low", bytes |-> << >>]
    /\ clcd' = [clcd EXCEPT !.at = "wait"]
    /\ UNCHANGED <<image, draw, queue, buf, echo, part>>

(* clcd_mps3_init clears the window; the commands are generated. *)
SetUp ==
    /\ image = "display" /\ clcd.at = "setup"
    /\ clcd' = [clcd EXCEPT !.at = "receive"]
    /\ screen' = [cs |-> "high", bytes |-> << >>]
    /\ UNCHANGED <<image, ch, draw, queue, buf, echo, part>>

Receive ==
    /\ clcd.at = "receive" /\ queue # << >>
    /\ queue' = Tail(queue)
    /\ clcd' = [clcd EXCEPT !.at = IF Head(queue) = "draw" THEN "start" ELSE "deleted"]
    /\ UNCHANGED <<image, ch, draw, buf, screen, echo, part>>

(* The rest of display_image_with_dma, and the notification of drawTask. *)
Displayed ==
    /\ clcd.at = "wait" /\ clcd.notified > 0
    /\ clcd' = [clcd EXCEPT !.at = "notify", !.notified = 0]
    /\ ch' = [ch EXCEPT !.nvic = FALSE]
    /\ screen' = [screen EXCEPT !.cs = "high"]
    /\ UNCHANGED <<image, draw, queue, buf, echo, part>>

NotifyDraw ==
    /\ clcd.at = "notify"
    /\ clcd' = [clcd EXCEPT !.at = "receive"]
    /\ draw' = [draw EXCEPT !.notified = @ + 1]
    /\ UNCHANGED <<image, ch, queue, buf, screen, echo, part>>

clcdTask == SetUp \/ Receive \/ StartDisplay \/ Displayed \/ NotifyDraw

(* The channel of the display example: external.  It waits for a trigger    *)
(* before each block, and goes on with the linked command.                 *)
Total == ch.regs.xsize * ch.regs.ysize
ChannelStep ==
    /\ image = "display" /\ ch.run /\ ch.irq = "none"
    /\ \/ /\ ch.sent < Total /\ ch.regs.trigger /\ ~ch.triggered
          /\ ch' = [ch EXCEPT !.irq = "trigger_wait"] /\ UNCHANGED screen
       \/ /\ ch.sent < Total /\ (ch.triggered \/ ~ch.regs.trigger)
          /\ LET n == IF Total - ch.sent < Block THEN Total - ch.sent ELSE Block
                 bytes == [j \in 1 .. n |-> ByteAt(Source(ch.regs, ch.sent + j - 1))]
             IN  /\ screen' = IF screen.cs = "high" THEN screen
                              ELSE [screen EXCEPT !.bytes = @ \o bytes]
                 /\ ch' = [ch EXCEPT !.sent = @ + n, !.triggered = FALSE]
       \/ /\ ch.sent = Total /\ ch.regs.link # 0
          /\ ch' = [ch EXCEPT !.regs = Loaded(@, Cmd(ch.regs.link)), !.sent = 0]
          /\ UNCHANGED screen
       \/ /\ ch.sent = Total /\ ch.regs.link = 0
          /\ ch' = [ch EXCEPT !.run = FALSE, !.irq = IF ch.regs.done THEN "done" ELSE "none"]
          /\ UNCHANGED screen
    /\ UNCHANGED <<image, draw, clcd, queue, buf, echo, part>>

(* dma_ch_irq_handler.  Its last branch, for any other interrupt, is left  *)
(* out: only these two are enabled in INTREN.                              *)
NotNotified ==
    /\ image = "display" /\ ch.nvic /\ ch.irq # "none"
    /\ ch' = [ch EXCEPT !.irq = "none", !.triggered = (ch.irq = "trigger_wait")]
    /\ UNCHANGED clcd
dma_ch_irq_handler ==
    /\ image = "display" /\ ch.nvic /\ ch.irq # "none"
    /\ \/ /\ ch.irq = "done"
          /\ ch' = [ch EXCEPT !.irq = "none"]
          /\ clcd' = [clcd EXCEPT !.notified = @ + 1]
       \/ /\ ch.irq = "trigger_wait"
          /\ ch' = [ch EXCEPT !.irq = "none", !.triggered = TRUE]
          /\ UNCHANGED clcd
ChannelInterrupt == dma_ch_irq_handler /\ UNCHANGED <<image, draw, queue, buf, screen, echo, part>>

-------------------------------------------------------------------------------
(* The triggering example *)

Triggering == image = "triggering" /\ UNCHANGED <<image, display, part>>

(* init_dma_for_uart_rx, init_dma_for_uart_tx: the transfer starts, and the *)
(* CPU is about to execute __WFI().                                        *)
StartTransfer ==
    /\ cpu.at \in {"rx_init", "tx_init"}
    /\ cpu' = [cpu EXCEPT !.at = IF @ = "rx_init" THEN "rx_armed" ELSE "tx_armed"]
    /\ ch' = [ch EXCEPT !.run = TRUE, !.sent = 0, !.nvic = TRUE, !.clash = @ \/ ch.run]
    /\ UNCHANGED uart

Sleep ==
    /\ cpu.at \in {"rx_armed", "tx_armed"}
    /\ cpu' = [cpu EXCEPT !.at = IF @ = "rx_armed" THEN "rx_asleep" ELSE "tx_asleep"]
    /\ UNCHANGED <<ch, uart>>

Asleep == cpu.at \in {"rx_asleep", "tx_asleep"}
Awake == IF cpu.at = "rx_asleep" THEN "process"
         ELSE IF cpu.at = "tx_asleep" THEN "rx_init" ELSE cpu.at

(* The handler only clears the interrupt, whether or not the CPU sleeps. *)
TransferDone ==
    /\ ch.nvic /\ ch.irq = "done"
    /\ ch' = [ch EXCEPT !.irq = "none"]
    /\ cpu' = [cpu EXCEPT !.at = Awake]
    /\ UNCHANGED uart

(* Any other interrupt ends __WFI() too: external *)
OtherInterrupt ==
    /\ Asleep /\ cpu.other < MaxOther
    /\ cpu' = [cpu EXCEPT !.at = Awake, !.other = @ + 1, !.early = @ \/ ch.run]
    /\ UNCHANGED <<ch, uart>>

NotReversed(in) == in
Reversed(in) == [i \in 1 .. BufferingLen |-> in[BufferingLen + 1 - i]]
process_data ==
    /\ cpu.at = "process"
    /\ cpu' = [cpu EXCEPT !.at = "tx_init", !.out = Reversed(cpu.in)]
    /\ UNCHANGED <<ch, uart>>

(* A character is typed; one that is not fetched in time is overwritten.    *)
(* The channel copies a character when its UART triggers it: external      *)
Typed ==
    /\ uart.typed < MaxTyped
    /\ uart' = [uart EXCEPT !.typed = @ + 1, !.held = uart.typed + 1]
    /\ UNCHANGED <<ch, cpu>>

Copied == [ch EXCEPT !.sent = @ + 1, !.run = (ch.sent + 1 < BufferingLen),
                     !.irq = IF ch.sent + 1 = BufferingLen THEN "done" ELSE @]
Receiving == cpu.at \in {"rx_armed", "rx_asleep"}
CopyIn ==
    /\ ch.run /\ Receiving /\ uart.held # 0
    /\ cpu' = [cpu EXCEPT !.in[ch.sent + 1] = uart.held]
    /\ uart' = [uart EXCEPT !.held = 0, !.taken = Append(@, uart.held)]
    /\ ch' = Copied
CopyOut ==
    /\ ch.run /\ cpu.at \in {"tx_armed", "tx_asleep"}
    /\ uart' = [uart EXCEPT !.sent = Append(@, cpu.out[ch.sent + 1])]
    /\ ch' = Copied
    /\ UNCHANGED cpu

(* A pending interrupt is taken before the thread goes on. *)
Main == Triggering /\ ch.irq = "none" /\ (StartTransfer \/ Sleep \/ process_data)
EchoInterrupt == Triggering /\ TransferDone
Environment == Triggering /\ (OtherInterrupt \/ Typed)
EchoCopy == Triggering /\ (CopyIn \/ CopyOut)

-------------------------------------------------------------------------------
(* The partition *)

Partition == image = "partition" /\ UNCHANGED <<image, display, echo>>

(* request_dma350_priv_config, the privileged side of the library: external *)
PrivConfig(channel, exec, src) ==
    IF channel = 22 THEN "channel_invalid"
    ELSE IF channel # 0 THEN "range_not_accessible"
    ELSE IF exec = "blocking" THEN "cfg_err"
    ELSE IF src = "privileged" THEN "range_not_accessible"
    ELSE "none"

(* test_wrong_channel, test_memcopy_blocking,                               *)
(* test_memcopy_non_blocking_priv_address                                  *)
Refused(test) ==
    CASE test = "wrong_channel" ->
           /\ PrivConfig(22, "status", "own") = "channel_invalid"
           /\ PrivConfig(1, "status", "own") = "range_not_accessible"
      [] test = "blocking" -> PrivConfig(0, "blocking", "own") = "cfg_err"
      [] test = "priv_address" -> PrivConfig(0, "irq", "privileged") = "range_not_accessible"

Tests == <<"wrong_channel", "blocking", "priv_address">>
RefusalTest ==
    /\ part.test <= Len(Tests)
    /\ part' = [part EXCEPT !.test = @ + 1, !.failed = @ \/ ~Refused(Tests[part.test])]
    /\ UNCHANGED ch

(* test_memcopy_non_blocking: the interrupt is enabled before the copy is    *)
(* started, waited for, and cleared at the end.  A channel that has not    *)
(* finished properly fails the test with the interrupt still enabled.  The *)
(* calls that read and clear the status do not fail: the library accepted  *)
(* the channel just before.                                                *)
StartCopy ==
    /\ part.at = "test" /\ part.test = Len(Tests) + 1
    /\ IF PrivConfig(0, "irq", "own") = "none"
         THEN /\ ch' = [ch EXCEPT !.run = TRUE, !.nvic = TRUE, !.err = FALSE]
              /\ part' = [part EXCEPT !.at = "wait", !.to = FALSE]
       ELSE /\ part' = [part EXCEPT !.at = "idle", !.failed = TRUE]
            /\ UNCHANGED ch
Finished ==
    /\ part.at = "wait" /\ ch.nvic /\ ch.irq = "done"
    /\ IF ch.err
         THEN /\ part' = [part EXCEPT !.at = "idle", !.failed = TRUE] /\ UNCHANGED ch
       ELSE /\ part' = [part EXCEPT !.at = "idle", !.failed = @ \/ ~part.to]
            /\ ch' = [ch EXCEPT !.irq = "none", !.nvic = FALSE]

(* The last psa_wait expects no signal: one that is left over is fatal. *)
LeftOver ==
    /\ part.at = "idle" /\ ch.nvic /\ ch.irq = "done"
    /\ part' = [part EXCEPT !.at = "panic"]
    /\ UNCHANGED ch

(* the copy, or an error of the channel: external *)
Copy ==
    /\ part.at = "wait" /\ ch.run
    /\ \E err \in BOOLEAN :
         /\ ch' = [ch EXCEPT !.run = FALSE, !.irq = "done", !.err = err]
         /\ part' = [part EXCEPT !.to = ~err]

PartitionStep == Partition /\ (RefusalTest \/ StartCopy \/ Finished \/ LeftOver)
PartitionCopy == Partition /\ Copy

-------------------------------------------------------------------------------
Init ==
    /\ image \in {"display", "triggering", "partition"}
    /\ ch = [run |-> FALSE, regs |-> Cleared, sent |-> 0, triggered |-> FALSE, irq |-> "none",
             nvic |-> FALSE, clash |-> FALSE, err |-> FALSE]
    /\ draw = [at |-> "draw", col |-> 0, row |-> 0, transform |-> 0, notified |-> 0,
               refused |-> {}]
    /\ clcd = [at |-> "setup", notified |-> 0]
    /\ queue = << >>
    /\ buf = [p \in 0 .. Pixels - 1 |-> Blank]
    /\ screen = [cs |-> "high", bytes |-> << >>]
    /\ cpu = [at |-> "rx_init", in |-> [i \in 1 .. BufferingLen |-> 0],
              out |-> [i \in 1 .. BufferingLen |-> 0], other |-> 0, early |-> FALSE]
    /\ uart = [typed |-> 0, held |-> 0, taken |-> << >>, sent |-> << >>]
    /\ part = [at |-> "test", test |-> 1, failed |-> FALSE, to |-> FALSE]

Next ==
    \/ drawTask \/ clcdTask \/ ChannelStep \/ ChannelInterrupt
    \/ Main \/ EchoInterrupt \/ Environment \/ EchoCopy
    \/ PartitionStep \/ PartitionCopy

(* The tasks are scheduled, interrupts are taken and the channel goes on. *)
Fairness ==
    /\ WF_vars(drawTask) /\ WF_vars(clcdTask) /\ WF_vars(ChannelStep)
    /\ WF_vars(ChannelInterrupt)
    /\ WF_vars(Main) /\ WF_vars(EchoInterrupt) /\ WF_vars(EchoCopy)
    /\ WF_vars(PartitionStep) /\ WF_vars(PartitionCopy)

Spec == Init /\ [][Next]_vars /\ Fairness

-------------------------------------------------------------------------------
(* Properties *)

(* The transform of a tile once c columns are drawn *)
Drawn(p, c) ==
    LET col == p % Columns IN
    IF col >= c \/ p \in draw.refused THEN Blank
    ELSE (Rows * col + p \div Columns) % Transforms

(* What clcdTask reports as displayed is the drawing of the columns that    *)
(* are complete, all pixels in order and with their high byte first, and   *)
(* the drawing task does not use the channel meanwhile.                    *)
DrawingShown ==
    /\ image = "display" => ~ch.clash
    /\ clcd.at = "notify" =>
         screen.bytes = [j \in 1 .. 2 * Pixels |->
                           <<Drawn((j - 1) \div 2, draw.col), IF j % 2 = 1 THEN "high" ELSE "low">>]

(* As long as no other interrupt ends a sleep during a transfer, the        *)
(* characters sent are those taken, each group of them reversed.           *)
EchoReversed ==
    ~cpu.early =>
      /\ image = "triggering" => ~ch.clash
      /\ Len(uart.sent) <= Len(uart.taken)
      /\ \A j \in 1 .. Len(uart.sent) :
           LET g == ((j - 1) \div BufferingLen) * BufferingLen
           IN  uart.sent[j] = uart.taken[2 * g + BufferingLen + 1 - j]

(* The partition's tests fail, and the partition panics, only when the      *)
(* channel reports an error.                                               *)
PartitionPasses == part.failed \/ part.at = "panic" => ch.err

(* Each of the three programs transfers the right data. *)
TransfersRight == DrawingShown /\ EchoReversed /\ PartitionPasses

Overslept == Asleep /\ ~ch.run /\ ch.irq = "none"

(* The display example comes to its end: both tasks are deleted and nobody *)
(* waits for a notification that was missed.  A group of characters that   *)
(* was taken is sent, unless the interrupt came before __WFI() and the CPU *)
(* sleeps with nothing to wait for, or another one woke it too early.  The *)
(* partition comes to its last wait or to a panic.                         *)
ExamplesFinish ==
    /\ (image = "display") ~> (draw.at = "deleted" /\ clcd.at = "deleted")
    /\ (Len(uart.taken) = BufferingLen)
         ~> (Len(uart.sent) >= BufferingLen \/ Overslept \/ cpu.early)
    /\ (image = "partition") ~> (part.at \in {"idle", "panic"})
===============================================================================
