---------------------------------- MODULE Vad ----------------------------------
(***************************************************************************)
(* The voice activity detection partition (vad_an552_sp_main.c) with the   *)
(* I2S driver (audio_i2s_mps3_drv.c), the timeouts (systimer_armv8-m_      *)
(* timeout.c) and the interrupt (i2s_spm_irq.c).                           *)
(*                                                                         *)
(* The thread of the partition and the first-level interrupt handler are   *)
(* lists of the operations they still have to do.  The handler interrupts  *)
(* the thread between any two operations; an update of the control         *)
(* register reads it in one operation and writes it in another.            *)
(***************************************************************************)
EXTENDS I2cSbcon

CONSTANTS
    RecordingSize,  \* RECORDING_SIZE
    FifoSize        \* words in the receive FIFO of the I2S

ASSUME VadAssumption == RecordingSize \in Nat \ {0} /\ FifoSize \in Nat \ {0}

VARIABLES
    control,    \* the control register of the I2S
    rx,         \* number of samples in the receive FIFO
    nvic,       \* the I2S interrupt is enabled
    timer,      \* the system timer shared by all waits
    vad_status,
    sample_buffer,  \* which samples are of the voice detected last
    sample_buffer_end_idx,
    est,        \* the state of the voice estimation library
    thread,     \* the partition's thread: what it has to do, the register read
    flih,       \* the interrupt handler: what it has to do
    call,       \* the call of the client: its type, and where it is
    answer      \* the reply to it

i2sVars == <<control, rx, nvic, timer>>
recVars == <<vad_status, sample_buffer, sample_buffer_end_idx, est>>
vadVars == <<i2cVars, i2sVars, recVars, thread, flih, call, answer>>

(* No sample of the buffer is of the voice detected last. *)
Stale == [i \in 0 .. RecordingSize - 1 |-> "stale"]

Statuses == {"stopped", "no_voice", "recording", "recorded"}
CallTypes == {"start", "query", "get_freq", "stop", "other"}

-------------------------------------------------------------------------------
(* The operations and the functions made of them *)

Set(b) == [op |-> "update", bit |-> b, to |-> TRUE]
Clear(b) == [op |-> "update", bit |-> b, to |-> FALSE]
Wait == [op |-> "wait"]
Status(s) == [op |-> "status", to |-> s]
Do(what) == [op |-> what]
Lines(n) == [op |-> "lines", upto |-> n]

start_listening ==
    <<Set("fifo_reset"), Wait, Clear("fifo_reset"), Set("rx_en"), Set("rx_int")>>
stop_listening == <<Clear("rx_en"), Clear("rx_int"), Wait>>

(* The estimator is initialised before anything can interrupt. *)
InitialisedLast ==
    <<Status("no_voice")>> \o start_listening
      \o <<Do("irq_enable"), Do("init"), Do("inited"), Do("reply")>>
start_vad ==
    <<Do("init"), Do("inited"), Status("no_voice")>> \o start_listening
      \o <<Do("irq_enable"), Do("reply")>>
stop_vad == <<Do("irq_disable")>> \o stop_listening \o <<Status("stopped"), Do("reply")>>
query_vad == <<Do("query"), Do("reply")>>
StatusKept == <<Do("fft"), Do("reply")>>
get_freq == <<Do("fft"), Status("stopped"), Do("reply")>>

(* vad_signal_handle *)
vad_signal_handle(type) ==
    CASE type = "start" -> start_vad
      [] type = "query" -> query_vad
      [] type = "get_freq" -> get_freq
      [] type = "stop" -> stop_vad
      [] OTHER -> <<Do("invalid")>>

(* vad_main, up to its loop: audio_codec_mps3_init and the water level. *)
vad_main ==
    <<Set("codec_reset"), Wait, Clear("codec_reset"), Wait, Lines(8), Wait,
      Lines(NumTransactions), Wait, Set("rx_water")>>

ControlBits == {"codec_reset", "fifo_reset", "rx_en", "rx_int", "rx_water"}
NoHeld == [b \in {} |-> FALSE]

VadInit ==
    /\ I2cInit
    /\ control = [b \in ControlBits |-> FALSE] /\ rx = 0 /\ nvic = FALSE
    /\ timer = "running"
    /\ vad_status = "stopped"
    /\ sample_buffer = Stale
    /\ sample_buffer_end_idx = 0
    /\ est = [state |-> "new", reentered |-> FALSE]
    /\ thread = [todo |-> vad_main, held |-> NoHeld]
    /\ flih = [on |-> FALSE, todo |-> << >>]
    /\ call = [type |-> "none", at |-> "none"]
    /\ answer = [status |-> "none", value |-> "none"]

-------------------------------------------------------------------------------
(* The hardware: external *)

Sampling == control["rx_en"] /\ ~control["fifo_reset"]

SampleArrives ==
    /\ Sampling /\ rx < FifoSize
    /\ rx' = rx + 1
    /\ UNCHANGED <<i2cVars, control, nvic, timer, recVars, thread, flih, call, answer>>

TimerElapses ==
    /\ timer = "running" /\ timer' = "elapsed"
    /\ UNCHANGED <<i2cVars, control, rx, nvic, recVars, thread, flih, call, answer>>

Written(c, o) == [c EXCEPT ![o.bit] = o.to]
Emptied(c) == IF c["fifo_reset"] THEN 0 ELSE rx

-------------------------------------------------------------------------------
(* The handler i2s_flih *)

(* I2S_Handler *)
Interrupt ==
    /\ ~flih.on /\ nvic /\ control["rx_int"] /\ rx > 0
    /\ flih' = [on |-> TRUE, todo |-> << >>]
    /\ UNCHANGED <<i2cVars, i2sVars, recVars, thread, call, answer>>

(* A sample for the estimator.  The first sample of a voice is not stored. *)
IndexKept(voice) ==
    /\ vad_status = "no_voice"
    /\ est' = [est EXCEPT !.reentered = @ \/ est.state # "ready"]
    /\ vad_status' = IF voice THEN "recording" ELSE vad_status
    /\ sample_buffer' = IF voice THEN Stale ELSE sample_buffer
    /\ UNCHANGED <<flih, sample_buffer_end_idx>>
Detect(voice) ==
    /\ vad_status = "no_voice"
    /\ est' = [est EXCEPT !.reentered = @ \/ est.state # "ready"]
    /\ vad_status' = IF voice THEN "recording" ELSE vad_status
    /\ sample_buffer_end_idx' = IF voice THEN 0 ELSE sample_buffer_end_idx
    /\ sample_buffer' = IF voice THEN Stale ELSE sample_buffer
    /\ UNCHANGED flih

(* A sample of the recording. *)
Record ==
    /\ vad_status = "recording"
    /\ sample_buffer' = [sample_buffer EXCEPT ![sample_buffer_end_idx] = "voice"]
    /\ sample_buffer_end_idx' = sample_buffer_end_idx + 1
    /\ flih' = IF sample_buffer_end_idx' = RecordingSize
                 THEN [flih EXCEPT !.todo = stop_listening \o <<Status("recorded")>>]
               ELSE flih
    /\ UNCHANGED <<vad_status, est>>

(* Nobody wants the sample. *)
Ignore ==
    /\ vad_status \in {"stopped", "recorded"}
    /\ flih' = [flih EXCEPT !.todo = stop_listening]
    /\ UNCHANGED recVars

HandleSample ==
    /\ flih.on /\ flih.todo = << >> /\ rx > 0
    /\ rx' = rx - 1
    /\ \/ \E voice \in BOOLEAN : Detect(voice)
       \/ Record
       \/ Ignore
    /\ UNCHANGED <<i2cVars, control, nvic, timer, thread, call, answer>>

HandlerStep ==
    /\ flih.todo # << >>
    /\ LET o == Head(flih.todo) IN
         /\ o.op = "wait" => timer = "elapsed"
         /\ control' = IF o.op = "update" THEN Written(control, o) ELSE control
         /\ timer' = IF o.op = "wait" THEN "running" ELSE timer
         /\ vad_status' = IF o.op = "status" THEN o.to ELSE vad_status
    /\ flih' = [flih EXCEPT !.todo = Tail(@)]
    /\ UNCHANGED <<i2cVars, rx, nvic, sample_buffer, sample_buffer_end_idx, est,
                   thread, call, answer>>

HandlerReturns ==
    /\ flih.on /\ flih.todo = << >> /\ rx = 0
    /\ flih' = [flih EXCEPT !.on = FALSE]
    /\ UNCHANGED <<i2cVars, i2sVars, recVars, thread, call, answer>>

-------------------------------------------------------------------------------
(* The thread *)

Runs(op) == ~flih.on /\ thread.todo # << >> /\ Head(thread.todo).op = op
Advanced == [todo |-> Tail(thread.todo), held |-> NoHeld]

(* The read and the write of control |= ..., control &= ... *)
ReadControl ==
    /\ Runs("update") /\ thread.held = NoHeld
    /\ thread' = [thread EXCEPT !.held = control]
    /\ UNCHANGED <<i2cVars, i2sVars, recVars, flih, call, answer>>
WriteControl ==
    /\ Runs("update") /\ thread.held # NoHeld
    /\ control' = Written(thread.held, Head(thread.todo))
    /\ rx' = Emptied(control')
    /\ thread' = Advanced
    /\ UNCHANGED <<i2cVars, nvic, timer, recVars, flih, call, answer>>

(* wait_ms: an elapsed timer is started again. *)
WaitMs ==
    /\ Runs("wait") /\ timer = "elapsed"
    /\ timer' = "running" /\ thread' = Advanced
    /\ UNCHANGED <<i2cVars, control, rx, nvic, recVars, flih, call, answer>>

CodecLines ==
    /\ Runs("lines")
    /\ IF i2c.n > Head(thread.todo).upto
         THEN thread' = Advanced /\ UNCHANGED i2cVars
       ELSE LineAccess /\ UNCHANGED thread
    /\ UNCHANGED <<i2sVars, recVars, flih, call, answer>>

SetStatus ==
    /\ Runs("status")
    /\ vad_status' = Head(thread.todo).to /\ thread' = Advanced
    /\ UNCHANGED <<i2cVars, i2sVars, sample_buffer, sample_buffer_end_idx, est,
                   flih, call, answer>>

(* vad_estimation(INIT_VAD) is entered and left. *)
InitEstimation ==
    /\ Runs("init") \/ Runs("inited")
    /\ est' = [est EXCEPT !.state =
                 IF Head(thread.todo).op = "init" THEN "initialising" ELSE "ready"]
    /\ thread' = Advanced
    /\ UNCHANGED <<i2cVars, i2sVars, vad_status, sample_buffer, sample_buffer_end_idx,
                   flih, call, answer>>

IrqEnable ==
    /\ Runs("irq_enable") \/ Runs("irq_disable")
    /\ nvic' = (Head(thread.todo).op = "irq_enable")
    /\ thread' = Advanced
    /\ UNCHANGED <<i2cVars, control, rx, timer, recVars, flih, call, answer>>

(* psa_write of the status *)
Query ==
    /\ Runs("query")
    /\ answer' = [status |-> "success", value |-> vad_status] /\ thread' = Advanced
    /\ UNCHANGED <<i2cVars, i2sVars, recVars, flih, call>>

(* The FFT, in place, and psa_write of the frequency. *)
Fft ==
    /\ Runs("fft")
    /\ IF vad_status = "recorded"
         THEN /\ answer' = [status |-> "success",
                            value |-> IF \A i \in DOMAIN sample_buffer :
                                            sample_buffer[i] = "voice"
                                        THEN "freq" ELSE "garbage"]
              /\ sample_buffer' = Stale
              /\ thread' = Advanced /\ UNCHANGED call
       ELSE /\ answer' = [status |-> "bad_state", value |-> "none"]
            /\ call' = [call EXCEPT !.at = "replied"]
            /\ thread' = [todo |-> << >>, held |-> NoHeld] /\ UNCHANGED sample_buffer
    /\ UNCHANGED <<i2cVars, i2sVars, vad_status, sample_buffer_end_idx, est, flih>>

Reply ==
    /\ Runs("reply") \/ Runs("invalid")
    /\ call' = [call EXCEPT !.at = "replied"]
    /\ answer' = CASE Head(thread.todo).op = "invalid" ->
                        [status |-> "programmer_error", value |-> "none"]
                   [] call.type \in {"start", "stop"} ->
                        [status |-> "success", value |-> "none"]
                   [] OTHER -> answer
    /\ thread' = Advanced
    /\ UNCHANGED <<i2cVars, i2sVars, recVars, flih>>

(* psa_wait and psa_get *)
Accept ==
    /\ ~flih.on /\ thread.todo = << >> /\ call.at = "sent"
    /\ call' = [call EXCEPT !.at = "taken"]
    /\ thread' = [thread EXCEPT !.todo = vad_signal_handle(call.type)]
    /\ UNCHANGED <<i2cVars, i2sVars, recVars, flih, answer>>

ThreadStep == ReadControl \/ WriteControl \/ WaitMs \/ CodecLines \/ SetStatus
                \/ InitEstimation \/ IrqEnable \/ Query \/ Fft \/ Reply \/ Accept
Handler == HandleSample \/ HandlerStep \/ HandlerReturns
Hardware == SampleArrives \/ TimerElapses \/ Interrupt

-------------------------------------------------------------------------------
(* A recording that is reported is whole: it fills the buffer and all its  *)
(* samples are of the voice detected last, whatever calls were made while  *)
(* it was recorded, and a frequency is never computed from a buffer that   *)
(* the FFT has overwritten or that was only partly filled.                 *)
RecordingWhole ==
    /\ sample_buffer_end_idx \in 0 .. RecordingSize
    /\ vad_status = "recorded" => sample_buffer_end_idx = RecordingSize
    /\ answer.value # "garbage"
===============================================================================
