---------------------------- MODULE VadAppProofs ----------------------------
(***************************************************************************)
(* Proofs about the VAD partition and its main task, for recordings and    *)
(* FIFOs of any size and any number of retries.  The thread and the        *)
(* interrupt handler are lists of operations, so the invariants say which  *)
(* lists there may be beside the state of the recording.                   *)
(***************************************************************************)
EXTENDS VadApp, SequenceTheorems, TLAPS

-----------------------------------------------------------------------------
(* Types *)

Stop == [op : {"update"}, bit : ControlBits, to : BOOLEAN] \cup {Wait}
(* What the thread does before its loop. *)
Prep == Stop \cup [op : {"lines"}, upto : Int]
(* What it does for a call, before it replies. *)
Work == Stop \cup {Status("no_voice"), Status("stopped"), Do("init"), Do("inited"),
                   Do("irq_enable"), Do("irq_disable"), Do("query")}
Op == Prep \cup Work
        \cup {Status("recorded"), Do("fft"), Do("reply"), Do("invalid")}

CallPlace == {"any", "nc_start", "nc_query", "nc_freq", "start", "query", "freq",
              "restart", "stop"}
NetPlace == {"mqtt", "publish", "wait", "mqtt_disconnect", "disconnect"}
Place == CallPlace \cup NetPlace
           \cup {"boot", "provision", "write_pattern", "ota", "ota_settled", "ota_job",
                 "check", "connect", "published"}

Control == [ControlBits -> BOOLEAN]
VadTypeOK ==
    /\ control \in Control /\ rx \in 0 .. FifoSize /\ nvic \in BOOLEAN
    /\ timer \in {"running", "elapsed"}
    /\ vad_status \in Statuses
    /\ sample_buffer \in [0 .. RecordingSize - 1 -> {"stale", "voice"}]
    /\ sample_buffer_end_idx \in 0 .. RecordingSize
    /\ est \in [state : {"new", "initialising", "ready"}, reentered : BOOLEAN]
    /\ thread \in [todo : Seq(Op), held : {NoHeld} \cup Control]
    /\ flih \in [on : BOOLEAN, todo : Seq(Op)]
    /\ call \in [type : CallTypes \cup {"none"}, at : {"none", "sent", "taken", "replied"}]
    /\ answer \in [status : {"none", "success", "bad_state", "programmer_error"},
                   value : Statuses \cup {"none", "freq", "garbage"}]
AppTypeOK ==
    /\ VadTypeOK
    /\ app \in [mode : Modes, tries : 0 .. MaxRetries, waits : 0 .. MaxWaits, at : Place]
    /\ net \in {"none", "tcp", "mqtt"} /\ late \in BOOLEAN
    /\ its \in [pattern : BOOLEAN, key : BOOLEAN, refused : BOOLEAN,
            fails : 0 .. MaxPowerFails]

-----------------------------------------------------------------------------
(* The lists of operations *)

(* A list of operations of S that ends in o. *)
Ends(s, S, o) ==
    /\ s # << >> /\ s[Len(s)] = o
    /\ \A k \in 1 .. Len(s) - 1 : s[k] \in S

(* The thread replies once, as the last thing it does for a call, and      *)
(* touches neither the status nor the estimator without a call.            *)
ThreadInv ==
    /\ call.at # "taken" => thread.todo \in Seq(Prep)
    /\ call.at = "taken" =>
         \/ Ends(thread.todo, Work, Do("reply"))
         \/ thread.todo \in {<<Do("invalid")>>, get_freq}

-----------------------------------------------------------------------------
(* The recording *)

AllVoice == \A i \in 0 .. RecordingSize - 1 : sample_buffer[i] = "voice"

(* The handler stops the sampling because nobody wants it, or because it   *)
(* has stored the last sample; the thread does not run in between.         *)
FlihInv ==
    \/ flih.todo = << >>
    \/ flih.on /\ flih.todo \in Seq(Stop) /\ vad_status \in {"stopped", "recorded"}
    \/ /\ flih.on /\ Ends(flih.todo, Stop, Status("recorded"))
       /\ vad_status = "recording"
       /\ sample_buffer_end_idx = RecordingSize /\ AllVoice

(* The FFT spoils a recording; the next thing the thread does is to give   *)
(* it up.                                                                  *)
RecInv ==
    /\ vad_status = "recording" /\ flih.todo = << >> =>
         /\ sample_buffer_end_idx < RecordingSize
         /\ \A i \in 0 .. sample_buffer_end_idx - 1 : sample_buffer[i] = "voice"
    /\ vad_status = "recorded" =>
         /\ sample_buffer_end_idx = RecordingSize
         /\ AllVoice \/ (thread.todo # << >> /\ Head(thread.todo) = Status("stopped"))
    /\ answer.value # "garbage"

-----------------------------------------------------------------------------
(* The main task *)

BeforeKey == {"any", "nc_start", "nc_query", "nc_freq", "boot", "provision"}

(* The key is there, or its import was tried and failed. *)
Imported == its.key \/ its.refused

TaskInv ==
    /\ net # "none" => app.at \in NetPlace
    /\ call.at # "none" => app.at \in CallPlace /\ call.type \in Calls(app.at)
    /\ its.pattern => Imported
    /\ app.at \notin BeforeKey => Imported
    /\ app.at = "any" => app.mode = "any"

-----------------------------------------------------------------------------
(* The estimator *)

(* Operations that leave status, estimator and answer alone. *)
Quiet == Stop \cup {Do("irq_enable"), Do("irq_disable"), Do("reply")}

(* A list that begins with pre and goes on with quiet operations. *)
Begins(s, pre) ==
    /\ Len(pre) <= Len(s)
    /\ \A k \in 1 .. Len(s) : IF k <= Len(pre) THEN s[k] = pre[k] ELSE s[k] \in Quiet

StartStage ==
    \/ /\ vad_status = "stopped"
       /\ \/ Begins(thread.todo, <<Do("init"), Do("inited"), Status("no_voice")>>)
          \/ Begins(thread.todo, <<Do("inited"), Status("no_voice")>>)
          \/ Begins(thread.todo, <<Status("no_voice")>>) /\ est.state = "ready"
    \/ Begins(thread.todo, << >>) /\ est.state = "ready"

FreqStage ==
    \/ thread.todo = get_freq /\ vad_status = "recorded"
    \/ Begins(thread.todo, <<Status("stopped")>>)
    \/ Begins(thread.todo, << >>) /\ vad_status = "stopped"

(* A quiet list whose last operation but one sets the status. *)
StopsLast(s) ==
    /\ Len(s) >= 2
    /\ \A k \in 1 .. Len(s) :
         IF k = Len(s) - 1 THEN s[k] = Status("stopped") ELSE s[k] \in Quiet

StopStage ==
    \/ StopsLast(thread.todo)
    \/ Begins(thread.todo, << >>) /\ vad_status = "stopped"

QueryStage == Begins(thread.todo, <<Do("query")>>) \/ Begins(thread.todo, << >>)

StoppedPlace == Place \ {"any", "nc_query", "nc_freq", "query", "freq", "check", "stop"}

(* An estimator that is not initialised is not asked: nobody listens. *)
EstInv == ~est.reentered /\ (est.state # "ready" => vad_status = "stopped")

AnswerInv ==
    answer.value = "recorded" =>
      call.type = "query" /\ call.at # "none" /\ vad_status = "recorded"

BetweenInv ==
    call.at \in {"none", "sent"} =>
      /\ app.at \in StoppedPlace => vad_status = "stopped"
      /\ app.at \in {"nc_freq", "freq"} => vad_status = "recorded"

StageInv ==
    call.at = "taken" =>
      /\ call.type = "start" => StartStage
      /\ call.type = "get_freq" => FreqStage
      /\ call.type = "stop" => StopStage
      /\ call.type = "query" => QueryStage

DoneInv ==
    call.at = "replied" /\ call.type \in {"get_freq", "stop"} => vad_status = "stopped"

(* This holds while the main task calls, not for arbitrary calls. *)
CalmInv == app.mode # "any" => EstInv /\ AnswerInv /\ BetweenInv /\ StageInv /\ DoneInv

VadInv == AppTypeOK /\ ThreadInv /\ FlihInv /\ RecInv /\ TaskInv /\ CalmInv

-----------------------------------------------------------------------------
(* Lists of operations *)

LEMMA TailItems ==
    ASSUME NEW S, NEW s \in Seq(S), s # << >>
    PROVE  /\ Len(s) \in Nat /\ Len(s) >= 1 /\ Head(s) = s[1] /\ s[1] \in S
           /\ Tail(s) \in Seq(S) /\ Len(Tail(s)) = Len(s) - 1
           /\ \A k \in 1 .. Len(s) - 1 : Tail(s)[k] = s[k + 1]
BY HeadTailProperties

LEMMA EndsTail ==
    ASSUME NEW T, NEW s \in Seq(T), NEW S, NEW o, Ends(s, S, o)
    PROVE  \/ Head(s) = o /\ Tail(s) = << >>
           \/ Head(s) \in S /\ Ends(Tail(s), S, o)
<1>1. s # << >>
  BY DEF Ends
<1>2. /\ Len(s) \in Nat /\ Len(s) >= 1 /\ Head(s) = s[1]
      /\ Tail(s) \in Seq(T) /\ Len(Tail(s)) = Len(s) - 1
      /\ \A k \in 1 .. Len(s) - 1 : Tail(s)[k] = s[k + 1]
  BY <1>1, TailItems
<1>3. CASE Len(s) = 1
  <2>1. Tail(s) = << >>
    <3>1. Tail(s) \in Seq(T) /\ Len(Tail(s)) = Len(s) - 1
      BY <1>2
    <3>2. Len(s) - 1 = 0
      BY <1>3
    <3>3. Len(Tail(s)) \notin Nat \ {0}
      BY <3>1, <3>2
    <3> QED
      BY <3>1, <3>3, EmptySeq
  <2> QED
    BY <1>2, <1>3, <2>1 DEF Ends
<1>4. CASE Len(s) > 1
  <2> DEFINE n == Len(s) - 1
  <2>0. n \in 1 .. n /\ 1 \in 1 .. n /\ n + 1 = Len(s) /\ n = Len(Tail(s)) /\ n # 0
    BY <1>2, <1>4
  <2>1. Tail(s) # << >> /\ Tail(s)[Len(Tail(s))] = s[Len(s)] /\ s[1] \in S
    <3>1. Tail(s)[n] = s[n + 1] /\ s[1] \in S
      BY <1>2, <2>0 DEF Ends
    <3> HIDE DEF n
    <3>2. Tail(s) # << >>
      BY <1>2, <2>0, EmptySeq
    <3> QED
      BY <2>0, <3>1, <3>2
  <2>2. ASSUME NEW k \in 1 .. Len(Tail(s)) - 1 PROVE Tail(s)[k] \in S
    <3>1. k \in 1 .. Len(s) - 1 /\ k + 1 \in 1 .. Len(s) - 1
      BY <1>2
    <3> QED
      BY <1>2, <3>1 DEF Ends
  <2> QED
    BY <1>2, <2>1, <2>2 DEF Ends
<1> QED
  BY <1>2, <1>3, <1>4

LEMMA EndsConcat ==
    ASSUME NEW S, NEW T, NEW v \in Seq(S), NEW w \in Seq(T), NEW o, Ends(w, S, o)
    PROVE  Ends(v \o w, S, o)
<1> DEFINE s == v \o w
<1>1. /\ Len(v) \in Nat /\ Len(w) \in Nat /\ Len(w) >= 1
  BY DEF Ends
<1>2. /\ Len(s) = Len(v) + Len(w)
      /\ \A i \in 1 .. Len(s) : s[i] = IF i <= Len(v) THEN v[i] ELSE w[i - Len(v)]
  OBVIOUS
<1> HIDE DEF s
<1>3. s # << >> /\ s[Len(s)] = o
  BY <1>1, <1>2 DEF Ends
<1>4. ASSUME NEW k \in 1 .. Len(s) - 1 PROVE s[k] \in S
  <2>1. k \in 1 .. Len(s)
    BY <1>1, <1>2
  <2>2. CASE k <= Len(v)
    BY <1>1, <1>2, <2>1, <2>2
  <2>3. CASE ~(k <= Len(v))
    <3>1. k - Len(v) \in 1 .. Len(w) - 1
      BY <1>1, <1>2, <2>3
    <3> QED
      BY <1>2, <2>1, <2>3, <3>1 DEF Ends
  <2> QED
    BY <2>2, <2>3
<1> QED
  BY <1>3, <1>4 DEF Ends, s

LEMMA BeginsTail ==
    ASSUME NEW T, NEW s \in Seq(T), s # << >>, NEW pre \in Seq(Op), Begins(s, pre)
    PROVE  /\ pre # << >> => Head(s) = Head(pre) /\ Begins(Tail(s), Tail(pre))
           /\ pre = << >> => Head(s) \in Quiet /\ Begins(Tail(s), << >>)
<1>1. /\ Len(s) \in Nat /\ Len(s) >= 1 /\ Head(s) = s[1]
      /\ Tail(s) \in Seq(T) /\ Len(Tail(s)) = Len(s) - 1
      /\ \A k \in 1 .. Len(s) - 1 : Tail(s)[k] = s[k + 1]
  BY TailItems
<1>2. CASE pre # << >>
  <2>1. /\ Len(pre) \in Nat /\ Len(pre) >= 1 /\ Head(pre) = pre[1]
        /\ Tail(pre) \in Seq(Op) /\ Len(Tail(pre)) = Len(pre) - 1
        /\ \A k \in 1 .. Len(pre) - 1 : Tail(pre)[k] = pre[k + 1]
    BY <1>2, TailItems
  <2>2. Head(s) = Head(pre)
    BY <1>1, <2>1 DEF Begins
  <2>3. Len(Tail(pre)) <= Len(Tail(s))
    BY <1>1, <2>1 DEF Begins
  <2>4. ASSUME NEW k \in 1 .. Len(Tail(s))
        PROVE  IF k <= Len(Tail(pre)) THEN Tail(s)[k] = Tail(pre)[k]
               ELSE Tail(s)[k] \in Quiet
    <3>1. k \in 1 .. Len(s) - 1 /\ k + 1 \in 1 .. Len(s)
      BY <1>1
    <3>2. CASE k <= Len(Tail(pre))
      <4>1. k \in 1 .. Len(pre) - 1 /\ k + 1 <= Len(pre)
        BY <2>1, <3>2
      <4> QED
        BY <1>1, <2>1, <3>1, <3>2, <4>1 DEF Begins
    <3>3. CASE ~(k <= Len(Tail(pre)))
      <4>1. ~(k + 1 <= Len(pre))
        BY <2>1, <3>3
      <4> QED
        BY <1>1, <3>1, <3>3, <4>1 DEF Begins
    <3> QED
      BY <3>2, <3>3
  <2> QED
    BY <1>2, <2>2, <2>3, <2>4 DEF Begins
<1>3. CASE pre = << >>
  <2>1. \A k \in 1 .. Len(s) : s[k] \in Quiet
    BY <1>3 DEF Begins
  <2>2. \A k \in 1 .. Len(Tail(s)) : Tail(s)[k] \in Quiet
    BY <1>1, <2>1
  <2> QED
    BY <1>1, <1>3, <2>1, <2>2 DEF Begins
<1> QED
  BY <1>2, <1>3

LEMMA BeginsConcat ==
    ASSUME NEW pre \in Seq(Op), NEW v \in Seq(Quiet)
    PROVE  Begins(pre \o v, pre)
<1>1. Len(pre) \in Nat /\ Len(v) \in Nat
  OBVIOUS
<1>2. Len(pre \o v) = Len(pre) + Len(v)
      /\ \A i \in 1 .. Len(pre \o v) :
           (pre \o v)[i] = IF i <= Len(pre) THEN pre[i] ELSE v[i - Len(pre)]
  OBVIOUS
<1> QED
  BY <1>1, <1>2 DEF Begins

LEMMA StopsTail ==
    ASSUME NEW T, NEW s \in Seq(T), StopsLast(s)
    PROVE  \/ Head(s) = Status("stopped") /\ Begins(Tail(s), << >>)
           \/ Head(s) \in Quiet /\ StopsLast(Tail(s))
<1>1. s # << >> /\ Len(s) \in Nat /\ Len(s) >= 2
  BY DEF StopsLast
<1>2. /\ Head(s) = s[1] /\ Tail(s) \in Seq(T) /\ Len(Tail(s)) = Len(s) - 1
      /\ \A k \in 1 .. Len(s) - 1 : Tail(s)[k] = s[k + 1]
  BY <1>1, TailItems
<1> DEFINE t == Tail(s)
<1> HIDE DEF t
<1>3. Len(t) = Len(s) - 1 /\ \A k \in 1 .. Len(s) - 1 : t[k] = s[k + 1]
  BY <1>2 DEF t
<1>4. CASE Len(s) = 2
  <2>1. s[1] = Status("stopped") /\ s[2] \in Quiet
    BY <1>1, <1>4 DEF StopsLast
  <2>2. Len(t) = 1 /\ t[1] \in Quiet
    BY <1>1, <1>3, <1>4, <2>1
  <2>3. Begins(t, << >>)
    BY <2>2 DEF Begins
  <2> QED
    BY <1>2, <2>1, <2>3 DEF t
<1>5. CASE Len(s) > 2
  <2>1. s[1] \in Quiet
    BY <1>1, <1>5 DEF StopsLast
  <2>2. ASSUME NEW k \in 1 .. Len(t)
        PROVE  IF k = Len(t) - 1 THEN t[k] = Status("stopped") ELSE t[k] \in Quiet
    <3>1. /\ k \in 1 .. Len(s) - 1 /\ k + 1 \in 1 .. Len(s)
          /\ k = Len(t) - 1 <=> k + 1 = Len(s) - 1
      BY <1>1, <1>3
    <3> QED
      BY <1>3, <3>1 DEF StopsLast
  <2>3. Len(t) >= 2
    BY <1>1, <1>3, <1>5
  <2> QED
    BY <1>2, <2>1, <2>2, <2>3 DEF StopsLast, t
<1> QED
  <2>1. PICK n \in Nat : n = Len(s) /\ n >= 2
    BY <1>1
  <2>2. n = 2 \/ n > 2
    BY <2>1
  <2> QED
    BY <1>4, <1>5, <2>1, <2>2

(* What the operations of each set are. *)
LEMMA OpKinds ==
    /\ \A o \in Op : /\ o.op = "update" => o.bit \in ControlBits /\ o.to \in BOOLEAN
                     /\ o.op = "status" => o.to \in Statuses
    /\ \A o \in Stop : o.op \in {"update", "wait"}
    /\ \A o \in Prep : o.op \in {"update", "wait", "lines"}
    /\ \A o \in Work : /\ o.op \in {"update", "wait", "status", "init", "inited",
                                    "irq_enable", "irq_disable", "query"}
                       /\ o.op = "status" => o.to \in {"no_voice", "stopped"}
    /\ \A o \in Quiet : o.op \in {"update", "wait", "irq_enable", "irq_disable", "reply"}
<1> USE DEF Wait, Status, Do
<1>1. \A o \in Stop : /\ o.op \in {"update", "wait"}
                      /\ o.op = "update" => o.bit \in ControlBits /\ o.to \in BOOLEAN
  BY DEF Stop
<1>2. \A o \in Prep : /\ o.op \in {"update", "wait", "lines"}
                      /\ o.op = "update" => o.bit \in ControlBits /\ o.to \in BOOLEAN
  BY <1>1 DEF Prep
<1>3. \A o \in Work : /\ o.op \in {"update", "wait", "status", "init", "inited",
                                    "irq_enable", "irq_disable", "query"}
                      /\ o.op = "status" => o.to \in {"no_voice", "stopped"}
                      /\ o.op = "update" => o.bit \in ControlBits /\ o.to \in BOOLEAN
  BY <1>1 DEF Work
<1>4. \A o \in Quiet : o.op \in {"update", "wait", "irq_enable", "irq_disable", "reply"}
  BY <1>1 DEF Quiet
<1>5. \A o \in Op : /\ o.op = "update" => o.bit \in ControlBits /\ o.to \in BOOLEAN
                    /\ o.op = "status" => o.to \in Statuses
  BY <1>2, <1>3 DEF Op, Statuses
<1> QED
  BY <1>1, <1>2, <1>3, <1>4, <1>5

LEMMA StopLists ==
    /\ start_listening \in Seq(Stop) /\ stop_listening \in Seq(Stop)
    /\ Ends(stop_listening \o <<Status("recorded")>>, Stop, Status("recorded"))
    /\ stop_listening \o <<Status("recorded")>> \in Seq(Op)
    /\ stop_listening \in Seq(Op) /\ vad_main \in Seq(Prep) /\ vad_main \in Seq(Op)
<1>1. \A b \in ControlBits : Set(b) \in Stop /\ Clear(b) \in Stop /\ Wait \in Stop
  BY DEF Set, Clear, Stop
<1>2. {"codec_reset", "fifo_reset", "rx_en", "rx_int", "rx_water"} \subseteq ControlBits
  BY DEF ControlBits
<1>3. start_listening \in Seq(Stop)
  BY <1>1, <1>2 DEF start_listening
<1>4. stop_listening \in Seq(Stop) /\ stop_listening \in Seq(Op)
  BY <1>1, <1>2 DEF stop_listening, Op, Prep
<1>5. /\ <<Status("recorded")>> \in Seq(Op)
      /\ Ends(<<Status("recorded")>>, Stop, Status("recorded"))
  BY DEF Ends, Op
<1>6. Ends(stop_listening \o <<Status("recorded")>>, Stop, Status("recorded"))
  BY <1>4, <1>5, EndsConcat
<1>7. stop_listening \o <<Status("recorded")>> \in Seq(Op)
  BY <1>4, <1>5, ConcatProperties
<1>8. NumTransactions \in Int /\ 8 \in Int
  BY DEF NumTransactions, Fixed
<1>9. vad_main \in Seq(Prep)
  BY <1>1, <1>2, <1>8 DEF vad_main, Prep, Lines
<1>10. vad_main \in Seq(Op)
  BY <1>9, SeqMonotonic DEF Op
<1> QED
  BY <1>3, <1>4, <1>6, <1>7, <1>9, <1>10

LEMMA CallLists ==
    /\ start_vad \in Seq(Op) /\ Ends(start_vad, Work, Do("reply"))
    /\ Begins(start_vad, <<Do("init"), Do("inited"), Status("no_voice")>>)
    /\ stop_vad \in Seq(Op) /\ Ends(stop_vad, Work, Do("reply")) /\ StopsLast(stop_vad)
    /\ query_vad \in Seq(Op) /\ Ends(query_vad, Work, Do("reply"))
    /\ Begins(query_vad, <<Do("query")>>)
    /\ get_freq \in Seq(Op) /\ <<Do("invalid")>> \in Seq(Op)
<1>1. /\ start_listening \in Seq(Work) /\ start_listening \in Seq(Quiet)
      /\ stop_listening \in Seq(Work) /\ stop_listening \in Seq(Quiet)
  BY StopLists, SeqMonotonic DEF Work, Quiet
<1>2. Work \subseteq Op /\ Quiet \subseteq Op
  BY DEF Op, Quiet, Work
<1> DEFINE pre == <<Do("init"), Do("inited"), Status("no_voice")>>
           w == <<Do("irq_enable"), Do("reply")>>
           x == <<Do("irq_disable")>>
           y == <<Status("stopped"), Do("reply")>>
<1>3. /\ pre \in Seq(Work) /\ pre \in Seq(Op) /\ w \in Seq(Op) /\ w \in Seq(Quiet)
      /\ Ends(w, Work, Do("reply"))
      /\ x \in Seq(Work) /\ x \in Seq(Quiet) /\ y \in Seq(Op)
      /\ Ends(y, Work, Do("reply"))
  BY <1>2 DEF Ends, Work, Quiet, Op
<1>4. start_vad = (pre \o start_listening) \o w /\ stop_vad = (x \o stop_listening) \o y
  BY DEF start_vad, stop_vad
<1>5. /\ query_vad \in Seq(Op) /\ Ends(query_vad, Work, Do("reply"))
      /\ Begins(query_vad, <<Do("query")>>)
      /\ get_freq \in Seq(Op) /\ <<Do("invalid")>> \in Seq(Op)
  BY DEF query_vad, get_freq, Ends, Begins, Quiet, Work, Op
<1> HIDE DEF pre, w, x, y
<1>6. /\ pre \o start_listening \in Seq(Work) /\ x \o stop_listening \in Seq(Work)
      /\ x \o stop_listening \in Seq(Quiet) /\ start_listening \o w \in Seq(Quiet)
  BY <1>1, <1>3, ConcatProperties
<1>7. Ends(start_vad, Work, Do("reply")) /\ Ends(stop_vad, Work, Do("reply"))
  BY <1>3, <1>4, <1>6, EndsConcat
<1>8. start_vad \in Seq(Op) /\ stop_vad \in Seq(Op)
  <2>1. pre \o start_listening \in Seq(Op) /\ x \o stop_listening \in Seq(Op)
    BY <1>2, <1>6, SeqMonotonic
  <2> QED
    BY <1>3, <1>4, <2>1, ConcatProperties
<1>9. Begins(start_vad, pre)
  <2>1. start_listening \in Seq(Op) /\ w \in Seq(Op)
    BY <1>1, <1>2, <1>3, SeqMonotonic
  <2>2. start_vad = pre \o (start_listening \o w)
    <3>1. pre \in Seq(Op)
      BY <1>3
    <3>2. (pre \o start_listening) \o w = pre \o (start_listening \o w)
      BY <2>1, <3>1, ConcatAssociative
    <3> QED
      BY <1>4, <3>2
  <2> QED
    BY <1>3, <1>6, <2>2, BeginsConcat
<1>10. StopsLast(stop_vad)
  <2> DEFINE v == x \o stop_listening
             s == v \o y
  <2>1. /\ Len(v) \in Nat /\ Len(y) = 2 /\ y[1] = Status("stopped") /\ y[2] \in Quiet
        /\ \A k \in 1 .. Len(v) : v[k] \in Quiet
    BY <1>6 DEF y, Quiet
  <2>2. v \in Seq(Quiet) /\ y \in Seq(Op)
    BY <1>3, <1>6
  <2> HIDE DEF v
  <2>3. /\ Len(s) = Len(v) + 2
        /\ \A i \in 1 .. Len(s) : s[i] = IF i <= Len(v) THEN v[i] ELSE y[i - Len(v)]
    <3>1. v \in Seq(Op)
      BY <1>2, <2>2, SeqMonotonic
    <3>2. /\ Len(s) = Len(v) + Len(y)
          /\ \A i \in 1 .. Len(v) + Len(y) :
               s[i] = IF i <= Len(v) THEN v[i] ELSE y[i - Len(v)]
      BY <2>2, <3>1, ConcatProperties
    <3> QED
      BY <2>1, <3>2
  <2> HIDE DEF s
  <2>4. ASSUME NEW k \in 1 .. Len(s)
        PROVE  IF k = Len(s) - 1 THEN s[k] = Status("stopped") ELSE s[k] \in Quiet
    <3>1. CASE k <= Len(v)
      BY <2>1, <2>3, <3>1
    <3>2. CASE ~(k <= Len(v))
      <4>1. k = Len(v) + 1 \/ k = Len(v) + 2
        BY <2>1, <2>3, <3>2
      <4> QED
        BY <2>1, <2>3, <3>2, <4>1
    <3> QED
      BY <3>1, <3>2
  <2>5. StopsLast(s)
    BY <2>1, <2>3, <2>4 DEF StopsLast
  <2> QED
    BY <1>4, <2>5 DEF s, v
<1> QED
  BY <1>5, <1>7, <1>8, <1>9, <1>10 DEF pre

-----------------------------------------------------------------------------
(* Initially *)

LEMMA InvInit == AppInit => VadInv
<1> SUFFICES ASSUME AppInit PROVE VadInv
  OBVIOUS
<1>1. VadInit
  BY DEF AppInit
<1>2. /\ app \in [mode : Modes, tries : 0 .. MaxRetries, waits : 0 .. MaxWaits, at : Place]
      /\ app.at \in {"nc_start", "boot", "any"} /\ (app.at = "any" => app.mode = "any")
  BY AppAssumption DEF AppInit, Place, CallPlace
<1>3. AppTypeOK
  <2>1. thread \in [todo : Seq(Op), held : {NoHeld} \cup Control]
        /\ flih \in [on : BOOLEAN, todo : Seq(Op)]
    BY <1>1, StopLists DEF VadInit
  <2>2. /\ control \in Control /\ rx \in 0 .. FifoSize /\ nvic \in BOOLEAN
        /\ timer \in {"running", "elapsed"} /\ vad_status \in Statuses
        /\ sample_buffer \in [0 .. RecordingSize - 1 -> {"stale", "voice"}]
        /\ sample_buffer_end_idx \in 0 .. RecordingSize
    <3>1. control \in Control /\ nvic \in BOOLEAN
      BY <1>1 DEF VadInit, Control
    <3>2. rx \in 0 .. FifoSize /\ sample_buffer_end_idx \in 0 .. RecordingSize
      BY <1>1, VadAssumption DEF VadInit
    <3> QED
      BY <1>1, <3>1, <3>2 DEF VadInit, Statuses, Stale
  <2>3. /\ est \in [state : {"new", "initialising", "ready"}, reentered : BOOLEAN]
        /\ call \in [type : CallTypes \cup {"none"},
                     at : {"none", "sent", "taken", "replied"}]
        /\ answer \in [status : {"none", "success", "bad_state", "programmer_error"},
                       value : Statuses \cup {"none", "freq", "garbage"}]
    BY <1>1 DEF VadInit
  <2>4. /\ net \in {"none", "tcp", "mqtt"} /\ late \in BOOLEAN
        /\ its \in [pattern : BOOLEAN, key : BOOLEAN, refused : BOOLEAN,
            fails : 0 .. MaxPowerFails]
    <3>1. 0 \in 0 .. MaxPowerFails
      BY AppAssumption
    <3> QED
      BY <3>1 DEF AppInit
  <2> QED
    BY <1>2, <2>1, <2>2, <2>3, <2>4 DEF AppTypeOK, VadTypeOK
<1>4. ThreadInv /\ FlihInv /\ RecInv
  BY <1>1, StopLists DEF VadInit, ThreadInv, FlihInv, RecInv
<1>5. TaskInv
  BY <1>1, <1>2 DEF AppInit, VadInit, TaskInv, BeforeKey
<1>6. CalmInv
  BY <1>1, <1>2 DEF VadInit, CalmInv, EstInv, AnswerInv, BetweenInv, StageInv, DoneInv
<1> QED
  BY <1>3, <1>4, <1>5, <1>6 DEF VadInv

-----------------------------------------------------------------------------
(* Types *)

(* The operation that the thread is about to run. *)
LEMMA RunsHead ==
    ASSUME VadTypeOK, NEW op, Runs(op)
    PROVE  /\ thread.todo # << >> /\ thread.todo \in Seq(Op) /\ ~flih.on
           /\ Head(thread.todo) \in Op /\ Head(thread.todo).op = op
           /\ Tail(thread.todo) \in Seq(Op)
           /\ Advanced \in [todo : Seq(Op), held : {NoHeld} \cup Control]
           /\ Advanced.todo = Tail(thread.todo)
<1>1. thread.todo \in Seq(Op) /\ thread.todo # << >> /\ ~flih.on
      /\ Head(thread.todo).op = op
  BY DEF VadTypeOK, Runs
<1>2. Head(thread.todo) \in Op /\ Tail(thread.todo) \in Seq(Op)
  BY <1>1, TailItems
<1> QED
  BY <1>1, <1>2 DEF Advanced

LEMMA HandlerTypes ==
    ASSUME VadTypeOK, RecInv, Hardware \/ Handler
    PROVE  VadTypeOK'
<1>1. CASE SampleArrives
  BY <1>1, VadAssumption DEF SampleArrives, VadTypeOK, recVars
<1>2. CASE TimerElapses
  BY <1>2 DEF TimerElapses, VadTypeOK, recVars
<1>3. CASE Interrupt
  BY <1>3 DEF Interrupt, VadTypeOK, recVars, i2sVars
<1>4. CASE HandleSample
  <2>1. rx' \in 0 .. FifoSize
    BY <1>4, VadAssumption DEF HandleSample, VadTypeOK
  <2>2. /\ vad_status' \in Statuses
        /\ sample_buffer' \in [0 .. RecordingSize - 1 -> {"stale", "voice"}]
        /\ sample_buffer_end_idx' \in 0 .. RecordingSize
        /\ est' \in [state : {"new", "initialising", "ready"}, reentered : BOOLEAN]
        /\ flih' \in [on : BOOLEAN, todo : Seq(Op)]
    <3>1. ASSUME NEW voice \in BOOLEAN, Detect(voice)
          PROVE  /\ vad_status' \in Statuses
                 /\ sample_buffer' \in [0 .. RecordingSize - 1 -> {"stale", "voice"}]
                 /\ sample_buffer_end_idx' \in 0 .. RecordingSize
                 /\ est' \in [state : {"new", "initialising", "ready"},
                              reentered : BOOLEAN]
                 /\ flih' \in [on : BOOLEAN, todo : Seq(Op)]
      <4>1. est' \in [state : {"new", "initialising", "ready"}, reentered : BOOLEAN]
        <5>1. (est.reentered \/ est.state # "ready") \in BOOLEAN
          OBVIOUS
        <5> QED
          BY <3>1, <5>1 DEF Detect, VadTypeOK
      <4>2. sample_buffer_end_idx' \in 0 .. RecordingSize
        BY <3>1, VadAssumption DEF Detect, VadTypeOK
      <4> QED
        BY <3>1, <4>1, <4>2 DEF Detect, VadTypeOK, Stale, Statuses
    <3>2. CASE Record
      <4>1. sample_buffer_end_idx' \in 0 .. RecordingSize
        BY <1>4, <3>2, VadAssumption DEF Record, HandleSample, VadTypeOK, RecInv
      <4>2. sample_buffer' \in [0 .. RecordingSize - 1 -> {"stale", "voice"}]
        BY <3>2 DEF Record, VadTypeOK
      <4>3. flih' \in [on : BOOLEAN, todo : Seq(Op)]
        BY <3>2, StopLists DEF Record, VadTypeOK
      <4> QED
        BY <3>2, <4>1, <4>2, <4>3 DEF Record, VadTypeOK
    <3>3. CASE Ignore
      BY <3>3, StopLists DEF Ignore, VadTypeOK, recVars
    <3> QED
      BY <1>4, <3>1, <3>2, <3>3 DEF HandleSample
  <2> QED
    BY <1>4, <2>1, <2>2 DEF HandleSample, VadTypeOK
<1>5. CASE HandlerStep
  <2> DEFINE o == Head(flih.todo)
  <2>1. flih.todo \in Seq(Op) /\ flih.todo # << >>
    BY <1>5 DEF HandlerStep, VadTypeOK
  <2>2. o \in Op /\ Tail(flih.todo) \in Seq(Op)
    BY <2>1, TailItems
  <2>3. /\ o.op = "update" => o.bit \in ControlBits /\ o.to \in BOOLEAN
        /\ o.op = "status" => o.to \in Statuses
    BY <2>2, OpKinds
  <2>4. /\ control' = (IF o.op = "update" THEN Written(control, o) ELSE control)
        /\ timer' = (IF o.op = "wait" THEN "running" ELSE timer)
        /\ vad_status' = (IF o.op = "status" THEN o.to ELSE vad_status)
        /\ flih' = [flih EXCEPT !.todo = Tail(flih.todo)]
    BY <1>5 DEF HandlerStep
  <2>5. control' \in Control
    BY <2>3, <2>4 DEF Written, VadTypeOK, Control
  <2>6. flih' \in [on : BOOLEAN, todo : Seq(Op)]
    BY <2>2, <2>4 DEF VadTypeOK
  <2> QED
    BY <1>5, <2>3, <2>4, <2>5, <2>6 DEF HandlerStep, VadTypeOK
<1>6. CASE HandlerReturns
  <2>1. flih' \in [on : BOOLEAN, todo : Seq(Op)]
    BY <1>6 DEF HandlerReturns, VadTypeOK
  <2> QED
    BY <1>6, <2>1 DEF HandlerReturns, VadTypeOK, i2sVars, recVars
<1> QED
  BY <1>1, <1>2, <1>3, <1>4, <1>5, <1>6 DEF Hardware, Handler

LEMMA ThreadTypes ==
    ASSUME VadTypeOK, ThreadStep
    PROVE  VadTypeOK'
<1> DEFINE o == Head(thread.todo)
           Threads == [todo : Seq(Op), held : {NoHeld} \cup Control]
           Calling == [type : CallTypes \cup {"none"},
                       at : {"none", "sent", "taken", "replied"}]
<1>1. CASE ReadControl
  <2>1. thread' \in Threads
    BY <1>1 DEF ReadControl, VadTypeOK
  <2> QED
    BY <1>1, <2>1 DEF ReadControl, VadTypeOK, i2sVars, recVars
<1>2. CASE WriteControl
  <2>1. Runs("update") /\ thread.held # NoHeld /\ thread' = Advanced
        /\ control' = Written(thread.held, o)
    BY <1>2 DEF WriteControl
  <2>2. o \in Op /\ o.op = "update" /\ thread' \in Threads
    BY <2>1, RunsHead
  <2>3. o.bit \in ControlBits /\ o.to \in BOOLEAN
    BY <2>2, OpKinds
  <2>4. thread.held \in Control
    BY <2>1 DEF VadTypeOK
  <2>5. control' \in Control
    BY <2>1, <2>3, <2>4 DEF Written, Control
  <2>6. rx' \in 0 .. FifoSize
    BY <1>2, VadAssumption DEF WriteControl, Emptied, VadTypeOK
  <2> QED
    BY <1>2, <2>2, <2>5, <2>6 DEF WriteControl, VadTypeOK, recVars
<1>3. CASE WaitMs
  <2>1. thread' \in Threads
    BY <1>3, RunsHead DEF WaitMs
  <2> QED
    BY <1>3, <2>1 DEF WaitMs, VadTypeOK, recVars
<1>4. CASE CodecLines
  <2>1. thread' \in Threads
    BY <1>4, RunsHead DEF CodecLines, VadTypeOK
  <2> QED
    BY <1>4, <2>1 DEF CodecLines, VadTypeOK, recVars, i2sVars
<1>5. CASE SetStatus
  <2>1. o \in Op /\ o.op = "status" /\ thread' \in Threads /\ vad_status' = o.to
    BY <1>5, RunsHead DEF SetStatus
  <2>2. vad_status' \in Statuses
    BY <2>1, OpKinds
  <2> QED
    BY <1>5, <2>1, <2>2 DEF SetStatus, VadTypeOK, i2sVars
<1>6. CASE InitEstimation
  <2>1. thread' \in Threads
    BY <1>6, RunsHead DEF InitEstimation
  <2>2. est' \in [state : {"new", "initialising", "ready"}, reentered : BOOLEAN]
    BY <1>6 DEF InitEstimation, VadTypeOK
  <2> QED
    BY <1>6, <2>1, <2>2 DEF InitEstimation, VadTypeOK, i2sVars
<1>7. CASE IrqEnable
  <2>1. thread' \in Threads
    BY <1>7, RunsHead DEF IrqEnable
  <2>2. nvic' \in BOOLEAN
    BY <1>7 DEF IrqEnable
  <2> QED
    BY <1>7, <2>1, <2>2 DEF IrqEnable, VadTypeOK, recVars
<1>8. CASE Query
  <2>1. thread' \in Threads
    BY <1>8, RunsHead DEF Query
  <2> QED
    BY <1>8, <2>1 DEF Query, VadTypeOK, i2sVars, recVars
<1>9. CASE Fft
  <2>1. thread' \in Threads
    <3>1. [todo |-> << >>, held |-> NoHeld] \in Threads
      OBVIOUS
    <3>2. Advanced \in Threads
      BY <1>9, RunsHead DEF Fft
    <3> QED
      BY <1>9, <3>1, <3>2 DEF Fft
  <2>2. call' \in Calling
    BY <1>9 DEF Fft, VadTypeOK
  <2>3. answer' \in [status : {"none", "success", "bad_state", "programmer_error"},
                     value : Statuses \cup {"none", "freq", "garbage"}]
    BY <1>9 DEF Fft
  <2>4. sample_buffer' \in [0 .. RecordingSize - 1 -> {"stale", "voice"}]
    BY <1>9 DEF Fft, VadTypeOK, Stale
  <2> QED
    BY <1>9, <2>1, <2>2, <2>3, <2>4 DEF Fft, VadTypeOK, i2sVars
<1>10. CASE Reply
  <2>1. thread' \in Threads
    BY <1>10, RunsHead DEF Reply
  <2>2. call' \in Calling
    BY <1>10 DEF Reply, VadTypeOK
  <2>3. answer' \in [status : {"none", "success", "bad_state", "programmer_error"},
                     value : Statuses \cup {"none", "freq", "garbage"}]
    BY <1>10 DEF Reply, VadTypeOK
  <2> QED
    BY <1>10, <2>1, <2>2, <2>3 DEF Reply, VadTypeOK, i2sVars, recVars
<1>11. CASE Accept
  <2>1. call' \in Calling
    BY <1>11 DEF Accept, VadTypeOK
  <2>2. vad_signal_handle(call.type) \in Seq(Op)
    BY CallLists DEF vad_signal_handle
  <2>3. thread' \in Threads
    BY <1>11, <2>2 DEF Accept, VadTypeOK
  <2> QED
    BY <1>11, <2>1, <2>3 DEF Accept, VadTypeOK, i2sVars, recVars
<1> QED
  BY <1>1, <1>2, <1>3, <1>4, <1>5, <1>6, <1>7, <1>8, <1>9, <1>10, <1>11 DEF ThreadStep

(* A step of the partition's client. *)
AppStep == PsaCall \/ Return \/ TaskStep \/ MinutePasses \/ PowerFail \/ Asleep

AppRecord == [mode : Modes, tries : 0 .. MaxRetries, waits : 0 .. MaxWaits, at : Place]

(* The task's steps, as far as its place and its connection go. *)
LEMMA AppTypes ==
    ASSUME AppTypeOK, AppStep
    PROVE  AppTypeOK'
<1> USE AppAssumption DEF AppTypeOK
<1>0. app \in AppRecord
  BY DEF AppRecord
<1>1. CASE PsaCall
  <2>1. call' \in [type : CallTypes \cup {"none"},
                   at : {"none", "sent", "taken", "replied"}]
    BY <1>1 DEF PsaCall, Calls, CallTypes
  <2> QED
    BY <1>1, <2>1 DEF PsaCall, VadTypeOK, i2sVars, recVars, appVars
<1>2. \A at \in Place : [app EXCEPT !.at = at] \in AppRecord
  BY <1>0 DEF AppRecord
<1>3. CASE Return
  <2>1. After(app.at) \in Place
    BY <1>0 DEF After, AppRecord, Place, CallPlace
  <2>2. 0 \in 0 .. MaxRetries
    BY AppAssumption
  <2>3. app' \in AppRecord
    BY <1>0, <1>3, <2>1, <2>2 DEF Return, AppRecord
  <2> QED
    BY <1>3, <2>3 DEF Return, VadTypeOK, AppRecord, i2sVars, recVars
<1>4. CASE TaskStep
  <2>1. UNCHANGED vadVars
    BY <1>4 DEF TaskStep
  <2>2. VadTypeOK'
    BY <2>1 DEF VadTypeOK, vadVars, i2sVars, recVars
  <2>3. CASE FirstBoot /\ UNCHANGED <<net, late>>
    <3>1. app' \in AppRecord
      <4>1. PICK at \in {"ota", "provision", "write_pattern"} : app' = [app EXCEPT !.at = at]
        BY <2>3 DEF FirstBoot, GoTo
      <4> QED
        BY <1>2, <4>1 DEF Place
    <3>2. its' \in [pattern : BOOLEAN, key : BOOLEAN, refused : BOOLEAN,
            fails : 0 .. MaxPowerFails]
      BY <2>3 DEF FirstBoot
    <3> QED
      BY <2>2, <2>3, <3>1, <3>2 DEF AppRecord
  <2>4. CASE Ota /\ UNCHANGED <<net, its>>
    <3>1. app' \in AppRecord
      BY <1>2, <2>4 DEF Ota, GoTo, Place, CallPlace
    <3>2. late' \in BOOLEAN
      BY <2>4 DEF Ota
    <3> QED
      BY <2>2, <2>4, <3>1, <3>2 DEF AppRecord
  <2>5. CASE Check /\ UNCHANGED <<net, late, its>>
    <3>1. app' \in AppRecord
      BY <1>2, <2>5 DEF Check, GoTo, Place, CallPlace
    <3> QED
      BY <2>2, <2>5, <3>1 DEF AppRecord
  <2>6. CASE /\ Connect \/ CreateMqtt \/ Publish \/ WaitForPacket \/ Disconnect
             /\ UNCHANGED <<late, its>>
    <3>1. net' \in {"none", "tcp", "mqtt"}
      BY <2>6 DEF Connect, CreateMqtt, Publish, WaitForPacket, Disconnect
    <3>2. CASE app' = [app EXCEPT !.tries = app.tries + 1] /\ app.tries < MaxRetries
      <4>1. app.tries + 1 \in 0 .. MaxRetries
        BY <1>0, <3>2 DEF AppRecord
      <4> QED
        BY <1>0, <2>2, <2>6, <3>1, <3>2, <4>1 DEF AppRecord
    <3>3. CASE app' = [app EXCEPT !.waits = app.waits + 1] /\ app.waits < MaxWaits
      <4>1. app.waits + 1 \in 0 .. MaxWaits
        BY <1>0, <3>3 DEF AppRecord
      <4> QED
        BY <1>0, <2>2, <2>6, <3>1, <3>3, <4>1 DEF AppRecord
    <3>4. CASE app' = [app EXCEPT !.at = "wait", !.waits = 0]
      <4>1. 0 \in 0 .. MaxWaits /\ "wait" \in Place
        BY AppAssumption DEF Place, NetPlace
      <4> QED
        BY <1>0, <2>2, <2>6, <3>1, <3>4, <4>1 DEF AppRecord
    <3>5. CASE \E at \in Place : app' = [app EXCEPT !.at = at]
      <4>1. app' \in AppRecord
        BY <1>2, <3>5
      <4> QED
        BY <2>2, <2>6, <3>1, <4>1 DEF AppRecord
    <3> QED
      BY <2>6, <3>2, <3>3, <3>4, <3>5
      DEF Connect, CreateMqtt, Publish, WaitForPacket, Disconnect, GoTo, Place, NetPlace
  <2> QED
    BY <1>4, <2>3, <2>4, <2>5, <2>6 DEF TaskStep
<1>5. CASE MinutePasses
  BY <1>5 DEF MinutePasses, VadTypeOK, vadVars, i2sVars, recVars
<1>6. CASE PowerFail
  <2>1. app' \in AppRecord
    BY <1>2, <1>6 DEF PowerFail, Place
  <2>2. its.fails + 1 \in 0 .. MaxPowerFails
    BY <1>6 DEF PowerFail
  <2>3. its' \in [pattern : BOOLEAN, key : BOOLEAN, refused : BOOLEAN,
            fails : 0 .. MaxPowerFails]
    BY <1>6, <2>2 DEF PowerFail
  <2>4. VadTypeOK'
    BY <1>6 DEF PowerFail, VadTypeOK, vadVars, i2sVars, recVars
  <2>5. late' \in BOOLEAN /\ net' = net
    BY <1>6 DEF PowerFail
  <2> QED
    BY <2>1, <2>3, <2>4, <2>5 DEF AppRecord
<1>7. CASE Asleep
  BY <1>7 DEF Asleep, vars, VadTypeOK, vadVars, i2sVars, recVars, appVars
<1> QED
  BY <1>1, <1>3, <1>4, <1>5, <1>6, <1>7 DEF AppStep

-----------------------------------------------------------------------------
(* The thread *)

(* Operations that do not concern the recording or the call. *)
QuietStep ==
    /\ \E op \in {"update", "wait", "lines", "irq_enable", "irq_disable"} : Runs(op)
    /\ thread'.todo \in {thread.todo, Tail(thread.todo)}
    /\ UNCHANGED <<recVars, call, answer>>

LEMMA ThreadEffect ==
    ASSUME VadTypeOK, ThreadStep
    PROVE  /\ UNCHANGED flih /\ ~flih.on
           /\ \/ QuietStep \/ SetStatus \/ InitEstimation \/ Query \/ Fft \/ Reply
              \/ Accept
<1>1. CASE ReadControl
  <2>1. thread'.todo = thread.todo
    BY <1>1 DEF ReadControl, VadTypeOK
  <2> QED
    BY <1>1, <2>1 DEF ReadControl, QuietStep, Runs
<1>2. CASE WriteControl
  BY <1>2, RunsHead DEF WriteControl, QuietStep, Runs
<1>3. CASE WaitMs
  BY <1>3, RunsHead DEF WaitMs, QuietStep, Runs
<1>4. CASE CodecLines
  BY <1>4, RunsHead DEF CodecLines, QuietStep, Runs
<1>5. CASE IrqEnable
  BY <1>5, RunsHead DEF IrqEnable, QuietStep, Runs
<1>6. CASE SetStatus \/ InitEstimation \/ Query \/ Fft \/ Reply \/ Accept
  BY <1>6 DEF SetStatus, InitEstimation, Query, Fft, Reply, Accept, Runs
<1> QED
  BY <1>1, <1>2, <1>3, <1>4, <1>5, <1>6 DEF ThreadStep

(* The next operation of the thread, and what is left after it. *)
LEMMA ThreadAdvance ==
    ASSUME VadTypeOK, ThreadInv, NEW op, Runs(op)
    PROVE  \/ /\ call.at # "taken" /\ op \in {"update", "wait", "lines"}
              /\ Tail(thread.todo) \in Seq(Prep)
           \/ /\ call.at = "taken" /\ Head(thread.todo) \in Work
              /\ Ends(Tail(thread.todo), Work, Do("reply"))
           \/ call.at = "taken" /\ op \in {"reply", "invalid"} /\ Tail(thread.todo) = << >>
           \/ /\ call.at = "taken" /\ op = "fft" /\ thread.todo = get_freq
              /\ Tail(thread.todo) = <<Status("stopped"), Do("reply")>>
<1> DEFINE t == thread.todo
<1>1. t \in Seq(Op) /\ t # << >> /\ Head(t).op = op
  BY RunsHead
<1>2. CASE call.at # "taken"
  <2>1. t \in Seq(Prep)
    BY <1>2 DEF ThreadInv
  <2>2. Head(t) \in Prep /\ Tail(t) \in Seq(Prep)
    BY <1>1, <2>1, TailItems
  <2> QED
    BY <1>1, <1>2, <2>2, OpKinds
<1>3. CASE call.at = "taken" /\ Ends(t, Work, Do("reply"))
  <2>1. \/ Head(t) = Do("reply") /\ Tail(t) = << >>
        \/ Head(t) \in Work /\ Ends(Tail(t), Work, Do("reply"))
    BY <1>1, <1>3, EndsTail
  <2>2. Do("reply").op = "reply"
    BY DEF Do
  <2> QED
    BY <1>1, <1>3, <2>1, <2>2
<1>4. CASE call.at = "taken" /\ t = <<Do("invalid")>>
  <2>1. Head(t) = Do("invalid") /\ Tail(t) = << >> /\ Do("invalid").op = "invalid"
    BY <1>4 DEF Do
  <2> QED
    BY <1>1, <1>4, <2>1
<1>5. CASE call.at = "taken" /\ t = get_freq
  <2>1. /\ Head(t) = Do("fft") /\ Do("fft").op = "fft"
        /\ Tail(t) = <<Status("stopped"), Do("reply")>>
    BY <1>5 DEF get_freq, Do
  <2> QED
    BY <1>1, <1>5, <2>1
<1> QED
  BY <1>2, <1>3, <1>4, <1>5 DEF ThreadInv

(* The operation of the thread is of the given kind: what follows. *)
LEMMA WorkOp ==
    ASSUME VadTypeOK, ThreadInv, NEW op, Runs(op), op \notin {"reply", "invalid", "fft"}
    PROVE  /\ op \notin {"update", "wait", "lines"} =>
                call.at = "taken" /\ Head(thread.todo) \in Work
           /\ call.at # "taken" => Tail(thread.todo) \in Seq(Prep)
           /\ call.at = "taken" => Ends(Tail(thread.todo), Work, Do("reply"))
BY ThreadAdvance

LEMMA FreqTail == Ends(<<Status("stopped"), Do("reply")>>, Work, Do("reply"))
BY DEF Ends, Work

LEMMA ThreadStepInv ==
    ASSUME VadTypeOK, ThreadInv, ThreadStep
    PROVE  ThreadInv'
<1>1. CASE QuietStep
  <2>1. PICK op \in {"update", "wait", "lines", "irq_enable", "irq_disable"} : Runs(op)
    BY <1>1 DEF QuietStep
  <2>2. CASE thread'.todo = thread.todo
    BY <1>1, <2>2 DEF QuietStep, ThreadInv
  <2>3. CASE thread'.todo = Tail(thread.todo)
    BY <1>1, <2>1, <2>3, WorkOp DEF QuietStep, ThreadInv
  <2> QED
    BY <1>1, <2>2, <2>3 DEF QuietStep
<1>2. CASE SetStatus \/ InitEstimation \/ Query
  <2>1. PICK op \in {"status", "init", "inited", "query"} : Runs(op)
    BY <1>2 DEF SetStatus, InitEstimation, Query
  <2>2. thread'.todo = Tail(thread.todo) /\ UNCHANGED call
    BY <1>2, <2>1, RunsHead DEF SetStatus, InitEstimation, Query
  <2> QED
    BY <2>1, <2>2, WorkOp DEF ThreadInv
<1>3. CASE Fft
  <2>1. /\ call.at = "taken" /\ Tail(thread.todo) = <<Status("stopped"), Do("reply")>>
        /\ Advanced.todo = Tail(thread.todo)
    <3>1. Runs("fft") /\ "fft" \notin {"update", "wait", "lines", "reply", "invalid"}
      BY <1>3 DEF Fft
    <3>2. \A o \in Work : o.op # "fft"
      BY OpKinds
    <3> QED
      BY <3>1, <3>2, ThreadAdvance, RunsHead
  <2>2. CASE vad_status = "recorded"
    BY <1>3, <2>1, <2>2, FreqTail DEF Fft, ThreadInv
  <2>3. CASE vad_status # "recorded"
    <3>1. thread'.todo = << >> /\ call'.at = "replied" /\ << >> \in Seq(Prep)
      BY <1>3, <2>3 DEF Fft, VadTypeOK
    <3> QED
      BY <3>1 DEF ThreadInv
  <2> QED
    BY <2>2, <2>3
<1>4. CASE Reply
  <2>1. PICK op \in {"reply", "invalid"} : Runs(op)
    BY <1>4 DEF Reply
  <2>2. \A o \in Work : o.op \notin {"reply", "invalid"}
    BY OpKinds
  <2>3. Tail(thread.todo) = << >> /\ thread'.todo = Tail(thread.todo)
    BY <1>4, <2>1, <2>2, ThreadAdvance, RunsHead DEF Reply
  <2>4. call'.at = "replied" /\ << >> \in Seq(Prep)
    BY <1>4 DEF Reply, VadTypeOK
  <2> QED
    BY <2>3, <2>4 DEF ThreadInv
<1>5. CASE Accept
  <2>1. call'.at = "taken" /\ thread'.todo = vad_signal_handle(call.type)
    BY <1>5 DEF Accept, VadTypeOK
  <2>2. \/ Ends(vad_signal_handle(call.type), Work, Do("reply"))
        \/ vad_signal_handle(call.type) \in {<<Do("invalid")>>, get_freq}
    BY CallLists DEF vad_signal_handle
  <2> QED
    BY <2>1, <2>2 DEF ThreadInv
<1> QED
  BY <1>1, <1>2, <1>3, <1>4, <1>5, ThreadEffect

-----------------------------------------------------------------------------
(* The recording *)

LEMMA ThreadRecording ==
    ASSUME VadTypeOK, ThreadInv, FlihInv, RecInv, ThreadStep
    PROVE  FlihInv' /\ RecInv'
<1>1. flih' = flih /\ flih.todo = << >>
  BY ThreadEffect DEF FlihInv
<1>2. FlihInv'
  BY <1>1 DEF FlihInv
<1>3. ASSUME NEW op, Runs(op), op # "status", vad_status = "recorded" PROVE AllVoice
  <2>1. Head(thread.todo).op = op /\ Status("stopped").op = "status"
    BY <1>3, RunsHead DEF Status
  <2> QED
    BY <1>3, <2>1 DEF RecInv
<1>4. CASE /\ UNCHANGED <<vad_status, sample_buffer, sample_buffer_end_idx>>
           /\ vad_status = "recorded" => AllVoice
           /\ answer'.value # "garbage"
  <2>1. vad_status = "recorded" => AllVoice'
    BY <1>4 DEF AllVoice
  <2> QED
    BY <1>1, <1>2, <1>4, <2>1 DEF RecInv
<1>5. CASE QuietStep
  <2>1. PICK op \in {"update", "wait", "lines", "irq_enable", "irq_disable"} : Runs(op)
    BY <1>5 DEF QuietStep
  <2> QED
    BY <1>3, <1>4, <1>5, <2>1 DEF QuietStep, recVars, RecInv
<1>6. CASE SetStatus
  <2>1. Head(thread.todo) \in Work /\ Head(thread.todo).op = "status"
    BY <1>6, WorkOp, RunsHead DEF SetStatus
  <2>2. vad_status' \in {"no_voice", "stopped"} /\ answer' = answer
    BY <1>6, <2>1, OpKinds DEF SetStatus
  <2> QED
    BY <1>2, <2>2 DEF RecInv
<1>7. CASE InitEstimation
  <2>1. PICK op \in {"init", "inited"} : Runs(op)
    BY <1>7 DEF InitEstimation
  <2> QED
    BY <1>3, <1>4, <1>7, <2>1 DEF InitEstimation, RecInv
<1>8. CASE Query
  <2>1. Runs("query") /\ answer'.value = vad_status /\ UNCHANGED recVars
    BY <1>8 DEF Query
  <2>2. answer'.value # "garbage"
    BY <2>1 DEF VadTypeOK, Statuses
  <2> QED
    BY <1>3, <1>4, <2>1, <2>2 DEF recVars
<1>9. CASE Fft
  <2>1. Runs("fft")
    BY <1>9 DEF Fft
  <2>2. CASE vad_status = "recorded"
    <3>1. AllVoice
      BY <1>3, <2>1, <2>2
    <3>2. answer'.value = "freq" /\ thread' = Advanced
      <4>1. \A i \in DOMAIN sample_buffer : sample_buffer[i] = "voice"
        BY <3>1 DEF AllVoice, VadTypeOK
      <4> QED
        BY <1>9, <2>2, <4>1 DEF Fft
    <3>3. thread'.todo = <<Status("stopped"), Do("reply")>>
      <4>1. \A o \in Work : o.op # "fft"
        BY OpKinds
      <4> QED
        BY <2>1, <3>2, <4>1, ThreadAdvance, RunsHead
    <3>4. thread'.todo # << >> /\ Head(thread'.todo) = Status("stopped")
      BY <3>3
    <3>5. UNCHANGED <<vad_status, sample_buffer_end_idx>>
      BY <1>9 DEF Fft
    <3> QED
      BY <1>2, <2>2, <3>2, <3>4, <3>5 DEF RecInv
  <2>3. CASE vad_status # "recorded"
    BY <1>4, <1>9, <2>3 DEF Fft
  <2> QED
    BY <2>2, <2>3
<1>10. CASE Reply
  <2>1. PICK op \in {"reply", "invalid"} : Runs(op)
    BY <1>10 DEF Reply
  <2>2. answer'.value # "garbage"
    BY <1>10 DEF Reply, RecInv
  <2> QED
    BY <1>3, <1>4, <1>10, <2>1, <2>2 DEF Reply, recVars
<1>11. CASE Accept
  <2>1. vad_status = "recorded" => AllVoice
    BY <1>11 DEF Accept, RecInv
  <2> QED
    BY <1>4, <1>11, <2>1 DEF Accept, recVars, RecInv
<1> QED
  BY <1>5, <1>6, <1>7, <1>8, <1>9, <1>10, <1>11, ThreadEffect

LEMMA HandlerRecording ==
    ASSUME VadTypeOK, ThreadInv, FlihInv, RecInv, Hardware \/ Handler
    PROVE  FlihInv' /\ RecInv'
<1>0. UNCHANGED <<thread, answer>>
  BY DEF Hardware, Handler, SampleArrives, TimerElapses, Interrupt, HandleSample,
         HandlerStep, HandlerReturns
<1> USE DEF AllVoice
<1>1. CASE SampleArrives \/ TimerElapses
  BY <1>0, <1>1 DEF SampleArrives, TimerElapses, recVars, FlihInv, RecInv
<1>2. CASE Interrupt \/ HandlerReturns
  <2>1. flih.todo = << >> /\ flih'.todo = << >> /\ UNCHANGED recVars
    BY <1>2 DEF Interrupt, HandlerReturns, FlihInv, VadTypeOK
  <2> QED
    BY <1>0, <2>1 DEF FlihInv, RecInv, recVars
<1>3. CASE HandleSample
  <2>1. flih.on /\ flih.todo = << >>
    BY <1>3 DEF HandleSample
  <2>2. ASSUME NEW voice \in BOOLEAN, Detect(voice) PROVE FlihInv' /\ RecInv'
    <3>1. flih' = flih /\ vad_status' # "recorded"
      BY <2>2 DEF Detect
    <3>2. vad_status' = "recording" => sample_buffer_end_idx' = 0
      BY <2>2 DEF Detect
    <3>3. 0 < RecordingSize /\ \A i \in 0 .. 0 - 1 : FALSE
      BY VadAssumption
    <3> QED
      BY <1>0, <2>1, <3>1, <3>2, <3>3 DEF FlihInv, RecInv
  <2>3. CASE Record
    <3> DEFINE n == sample_buffer_end_idx
    <3>1. /\ n \in Nat /\ n < RecordingSize /\ RecordingSize \in Nat
          /\ \A i \in 0 .. n - 1 : sample_buffer[i] = "voice"
      BY <2>1, <2>3, VadAssumption DEF Record, RecInv, VadTypeOK
    <3>2. /\ sample_buffer' = [sample_buffer EXCEPT ![n] = "voice"]
          /\ sample_buffer_end_idx' = n + 1 /\ vad_status' = "recording"
          /\ vad_status = "recording"
      BY <2>3 DEF Record
    <3>3. \A i \in 0 .. n : sample_buffer'[i] = "voice"
      BY <3>1, <3>2 DEF VadTypeOK
    <3>4. CASE n + 1 = RecordingSize
      <4>1. flih' = [flih EXCEPT !.todo = stop_listening \o <<Status("recorded")>>]
        BY <2>3, <3>2, <3>4 DEF Record
      <4>2. /\ flih'.on /\ flih'.todo = stop_listening \o <<Status("recorded")>>
        BY <2>1, <4>1 DEF VadTypeOK
      <4>3. Ends(flih'.todo, Stop, Status("recorded")) /\ flih'.todo # << >>
        BY <4>2, StopLists DEF Ends
      <4>4. AllVoice'
        BY <3>1, <3>3, <3>4
      <4> QED
        BY <1>0, <3>2, <3>4, <4>2, <4>3, <4>4 DEF FlihInv, RecInv
    <3>5. CASE n + 1 # RecordingSize
      <4>1. flih' = flih
        BY <2>3, <3>2, <3>5 DEF Record
      <4>2. n + 1 < RecordingSize /\ \A i \in 0 .. (n + 1) - 1 : i \in 0 .. n
        BY <3>1, <3>5
      <4> QED
        BY <1>0, <2>1, <3>2, <3>3, <4>1, <4>2 DEF FlihInv, RecInv
    <3> QED
      BY <3>4, <3>5
  <2>4. CASE Ignore
    <3>1. flih'.on /\ flih'.todo = stop_listening
      BY <2>1, <2>4 DEF Ignore, VadTypeOK
    <3> QED
      BY <1>0, <2>1, <2>4, <3>1, StopLists DEF Ignore, FlihInv, RecInv, recVars
  <2> QED
    BY <1>3, <2>2, <2>3, <2>4 DEF HandleSample
<1>4. CASE HandlerStep
  <2> DEFINE t == flih.todo
  <2>1. t \in Seq(Op) /\ t # << >> /\ flih'.todo = Tail(t) /\ flih'.on = flih.on
    BY <1>4 DEF HandlerStep, VadTypeOK
  <2>2. /\ vad_status' = (IF Head(t).op = "status" THEN Head(t).to ELSE vad_status)
        /\ UNCHANGED <<sample_buffer, sample_buffer_end_idx>>
    BY <1>4 DEF HandlerStep
  <2>3. CASE t \in Seq(Stop) /\ flih.on /\ vad_status \in {"stopped", "recorded"}
    <3>1. Head(t) \in Stop /\ Tail(t) \in Seq(Stop)
      BY <2>1, <2>3, TailItems
    <3>2. vad_status' = vad_status
      BY <2>2, <3>1, OpKinds
    <3> QED
      BY <1>0, <2>1, <2>2, <2>3, <3>1, <3>2 DEF FlihInv, RecInv
  <2>4. CASE /\ flih.on /\ Ends(t, Stop, Status("recorded")) /\ vad_status = "recording"
             /\ sample_buffer_end_idx = RecordingSize /\ AllVoice
    <3>1. \/ Head(t) = Status("recorded") /\ Tail(t) = << >>
          \/ Head(t) \in Stop /\ Ends(Tail(t), Stop, Status("recorded"))
      BY <2>1, <2>4, EndsTail
    <3>2. CASE Head(t) = Status("recorded") /\ Tail(t) = << >>
      <4>1. vad_status' = "recorded"
        BY <2>2, <3>2 DEF Status
      <4> QED
        BY <1>0, <2>1, <2>2, <2>4, <3>2, <4>1 DEF FlihInv, RecInv
    <3>3. CASE Head(t) \in Stop /\ Ends(Tail(t), Stop, Status("recorded"))
      <4>1. vad_status' = vad_status
        BY <2>2, <3>3, OpKinds
      <4>2. Tail(t) # << >>
        BY <3>3 DEF Ends
      <4> QED
        BY <1>0, <2>1, <2>2, <2>4, <3>3, <4>1, <4>2 DEF FlihInv, RecInv
    <3> QED
      BY <3>1, <3>2, <3>3
  <2> QED
    BY <2>1, <2>3, <2>4 DEF FlihInv
<1> QED
  BY <1>1, <1>2, <1>3, <1>4 DEF Hardware, Handler

LEMMA AppRecording ==
    ASSUME VadTypeOK, ThreadInv, FlihInv, RecInv, AppStep \/ UNCHANGED vars
    PROVE  ThreadInv' /\ FlihInv' /\ RecInv'
<1>1. UNCHANGED <<recVars, flih, thread>>
  BY DEF AppStep, PsaCall, Return, TaskStep, MinutePasses, PowerFail, Asleep, vars, vadVars
<1>2. FlihInv'
  BY <1>1 DEF FlihInv, recVars, AllVoice
<1>3. answer' = answer \/ answer'.value = "none"
  BY DEF AppStep, PsaCall, Return, TaskStep, MinutePasses, PowerFail, Asleep, vars, vadVars
<1>4. RecInv'
  BY <1>1, <1>3 DEF RecInv, recVars, AllVoice
<1>5. call' = call \/ (call.at # "taken" /\ call'.at # "taken")
  BY DEF AppStep, PsaCall, Return, TaskStep, MinutePasses, PowerFail, Asleep, vars, vadVars
<1>6. ThreadInv'
  BY <1>1, <1>5 DEF ThreadInv
<1> QED
  BY <1>2, <1>4, <1>6

-----------------------------------------------------------------------------
(* The main task *)

LEMMA PartitionTask ==
    ASSUME VadTypeOK, ThreadInv, TaskInv, Hardware \/ Handler \/ ThreadStep,
           UNCHANGED appVars
    PROVE  TaskInv'
<1>1. CASE call' = call \/ (call.at # "none" /\ call'.type = call.type)
  BY <1>1 DEF TaskInv, appVars, Imported
<1>2. CASE Hardware \/ Handler
  BY <1>1, <1>2 DEF Hardware, Handler, SampleArrives, TimerElapses, Interrupt,
                    HandleSample, HandlerStep, HandlerReturns
<1>3. CASE ThreadStep
  <2>1. CASE QuietStep \/ SetStatus \/ InitEstimation \/ Query
    BY <1>1, <2>1 DEF QuietStep, SetStatus, InitEstimation, Query
  <2>2. CASE Fft \/ Reply
    <3>1. PICK op \in {"fft", "reply", "invalid"} : Runs(op)
      BY <2>2 DEF Fft, Reply
    <3>2. call.at = "taken"
      BY <3>1, ThreadAdvance
    <3>3. call'.type = call.type
      BY <2>2 DEF Fft, Reply, VadTypeOK
    <3> QED
      BY <1>1, <3>2, <3>3
  <2>3. CASE Accept
    BY <1>1, <2>3 DEF Accept, VadTypeOK
  <2> QED
    BY <1>3, <2>1, <2>2, <2>3, ThreadEffect
<1> QED
  BY <1>2, <1>3

LEMMA AppTask ==
    ASSUME AppTypeOK, TaskInv, AppStep \/ UNCHANGED vars
    PROVE  TaskInv'
<1>0. app \in AppRecord
  BY DEF AppTypeOK, AppRecord
<1>1. \A at : [app EXCEPT !.at = at].at = at /\ [app EXCEPT !.at = at].mode = app.mode
  BY <1>0 DEF AppRecord
<1>2. CASE PsaCall
  <2>1. PICK t \in Calls(app.at) : call' = [type |-> t, at |-> "sent"]
    BY <1>2 DEF PsaCall
  <2>2. app.at \in CallPlace
    BY <2>1 DEF Calls, CallPlace
  <2> QED
    BY <1>2, <2>1, <2>2 DEF PsaCall, appVars, TaskInv, Imported
<1>3. CASE Return
  <2>1. app.at \in CallPlace /\ call'.at = "none" /\ UNCHANGED <<net, its>>
    BY <1>3 DEF Return, TaskInv
  <2>2. app'.at = After(app.at) /\ app'.mode = app.mode
    BY <1>0, <1>3 DEF Return, AppRecord
  <2>3. net = "none"
    BY <2>1 DEF TaskInv, CallPlace, NetPlace
  <2>4. /\ After(app.at) \notin BeforeKey => app.at \notin BeforeKey
        /\ After(app.at) = "any" => app.at = "any"
    BY <2>1 DEF After, CallPlace, BeforeKey
  <2> QED
    BY <2>1, <2>2, <2>3, <2>4 DEF TaskInv, Imported
<1>4. CASE TaskStep
  <2>1. call.at = "none" /\ call' = call
    BY <1>4 DEF TaskStep, vadVars
  <2>2. CASE FirstBoot /\ UNCHANGED <<net, late>>
    <3>1. net' = "none"
      BY <2>2 DEF FirstBoot, TaskInv, NetPlace
    <3>2. CASE app.at = "boot"
      <4>1. app'.at \in {"ota", "provision"} /\ (app'.at = "ota" => its.pattern)
            /\ its' = its /\ app'.mode = app.mode
        BY <1>1, <2>2, <3>2 DEF FirstBoot, GoTo
      <4> QED
        BY <2>1, <3>1, <4>1 DEF TaskInv, Imported, BeforeKey
    <3>3. CASE app.at = "provision"
      <4>1. app'.at = "write_pattern" /\ Imported'
        BY <1>1, <2>2, <3>3 DEF FirstBoot, GoTo, AppTypeOK, Imported
      <4> QED
        BY <2>1, <3>1, <4>1 DEF TaskInv
    <3>4. CASE app.at = "write_pattern"
      <4>1. Imported
        BY <3>4 DEF TaskInv, BeforeKey
      <4>2. app'.at = "ota" /\ Imported'
        BY <1>1, <2>2, <3>4, <4>1 DEF FirstBoot, GoTo, AppTypeOK, Imported
      <4> QED
        BY <2>1, <3>1, <4>2 DEF TaskInv
    <3> QED
      BY <2>2, <3>2, <3>3, <3>4 DEF FirstBoot
  <2>3. CASE Ota /\ UNCHANGED <<net, its>>
    <3>1. /\ net = "none" /\ Imported /\ app'.at # "any"
      BY <1>1, <2>3 DEF Ota, GoTo, TaskInv, NetPlace, BeforeKey
    <3> QED
      BY <2>1, <2>3, <3>1 DEF TaskInv, Imported
  <2>4. CASE Check /\ UNCHANGED <<net, late, its>>
    <3>1. /\ net = "none" /\ Imported /\ app'.at # "any"
      BY <1>1, <2>4 DEF Check, GoTo, TaskInv, NetPlace, BeforeKey
    <3> QED
      BY <2>1, <2>4, <3>1 DEF TaskInv, Imported
  <2>5. CASE /\ Connect \/ CreateMqtt \/ Publish \/ WaitForPacket \/ Disconnect
             /\ UNCHANGED <<late, its>>
    <3>1. app.at \in NetPlace \cup {"connect"} /\ Imported
      BY <2>5 DEF Connect, CreateMqtt, Publish, WaitForPacket, Disconnect, TaskInv,
                  NetPlace, BeforeKey
    <3>2. app'.at # "any" /\ (net' # "none" => app'.at \in NetPlace)
      <4>1. CASE Connect
        BY <1>0, <1>1, <4>1 DEF Connect, GoTo, NetPlace, TaskInv, AppRecord
      <4>2. CASE CreateMqtt \/ Disconnect
        BY <1>1, <4>2 DEF CreateMqtt, Disconnect, GoTo, NetPlace
      <4>3. CASE Publish \/ WaitForPacket
        BY <1>0, <1>1, <4>3 DEF Publish, WaitForPacket, GoTo, NetPlace, AppRecord
      <4> QED
        BY <2>5, <4>1, <4>2, <4>3
    <3> QED
      BY <2>1, <2>5, <3>1, <3>2 DEF TaskInv, Imported
  <2> QED
    BY <1>4, <2>2, <2>3, <2>4, <2>5 DEF TaskStep
<1>5. CASE PowerFail
  <2>1. /\ net' = "none" /\ app'.at = "boot" /\ call' = call /\ call.at = "none"
        /\ its'.pattern = its.pattern /\ Imported' = Imported
    BY <1>1, <1>5 DEF PowerFail, TaskInv, NetPlace, AppTypeOK, Imported, vadVars
  <2> QED
    BY <2>1 DEF TaskInv, BeforeKey
<1>6. CASE MinutePasses \/ Asleep \/ UNCHANGED vars
  BY <1>6 DEF MinutePasses, Asleep, vars, vadVars, appVars, TaskInv, Imported
<1> QED
  BY <1>2, <1>3, <1>4, <1>5, <1>6 DEF AppStep

-----------------------------------------------------------------------------
(* The estimator *)

(* The handler only moves on from a voice that is awaited or recorded. *)
LEMMA HandlerEffect ==
    ASSUME VadTypeOK, FlihInv, Hardware \/ Handler
    PROVE  /\ UNCHANGED <<thread, call, answer>>
           /\ vad_status' = vad_status \/ vad_status \in {"no_voice", "recording"}
           /\ est'.state = est.state
           /\ est'.reentered = est.reentered
                \/ /\ vad_status = "no_voice"
                   /\ est.state = "ready" /\ ~est.reentered => ~est'.reentered
<1>1. CASE SampleArrives \/ TimerElapses \/ Interrupt \/ HandlerReturns
  BY <1>1 DEF SampleArrives, TimerElapses, Interrupt, HandlerReturns, recVars
<1>2. CASE HandleSample
  <2>1. UNCHANGED <<thread, call, answer>>
    BY <1>2 DEF HandleSample
  <2>2. ASSUME NEW voice \in BOOLEAN, Detect(voice)
        PROVE  /\ vad_status = "no_voice" /\ est'.state = est.state
               /\ est.state = "ready" /\ ~est.reentered => ~est'.reentered
    <3>1. est' = [est EXCEPT !.reentered = est.reentered \/ est.state # "ready"]
          /\ vad_status = "no_voice"
      BY <2>2 DEF Detect
    <3>2. /\ est'.state = est.state
          /\ est'.reentered = (est.reentered \/ est.state # "ready")
      BY <3>1 DEF VadTypeOK
    <3> QED
      BY <3>1, <3>2
  <2>3. CASE Record \/ Ignore
    BY <2>1, <2>3 DEF Record, Ignore, recVars
  <2> QED
    BY <1>2, <2>1, <2>2, <2>3 DEF HandleSample
<1>3. CASE HandlerStep
  <2> DEFINE t == flih.todo
  <2>1. t \in Seq(Op) /\ t # << >> /\ UNCHANGED <<thread, call, answer, est>>
    BY <1>3 DEF HandlerStep, VadTypeOK
  <2>2. vad_status' = (IF Head(t).op = "status" THEN Head(t).to ELSE vad_status)
    BY <1>3 DEF HandlerStep
  <2>3. CASE t \in Seq(Stop)
    <3>1. Head(t) \in Stop
      BY <2>1, <2>3, TailItems
    <3> QED
      BY <2>1, <2>2, <3>1, OpKinds
  <2> QED
    BY <2>1, <2>3 DEF FlihInv
<1> QED
  BY <1>1, <1>2, <1>3 DEF Hardware, Handler

LEMMA HandlerCalm ==
    ASSUME VadTypeOK, FlihInv, CalmInv, Hardware \/ Handler, UNCHANGED appVars
    PROVE  CalmInv'
<1> SUFFICES ASSUME app.mode # "any"
             PROVE  (EstInv /\ AnswerInv /\ BetweenInv /\ StageInv /\ DoneInv)'
  BY DEF CalmInv, appVars
<1>0. EstInv /\ AnswerInv /\ BetweenInv /\ StageInv /\ DoneInv
  BY DEF CalmInv
<1>1. /\ UNCHANGED <<thread, call, answer, app>> /\ est'.state = est.state
      /\ vad_status' = vad_status \/ vad_status \in {"no_voice", "recording"}
  BY HandlerEffect DEF appVars
<1>2. EstInv'
  <2>1. est.state # "ready" => vad_status = "stopped"
    BY <1>0 DEF EstInv
  <2>2. ~est'.reentered
    BY <1>0, <2>1, HandlerEffect DEF EstInv
  <2> QED
    BY <1>1, <2>1, <2>2 DEF EstInv
<1>3. AnswerInv' /\ BetweenInv' /\ DoneInv'
  BY <1>0, <1>1 DEF AnswerInv, BetweenInv, DoneInv
<1>4. StageInv'
  BY <1>0, <1>1 DEF StageInv, StartStage, FreqStage, StopStage, QueryStage, get_freq
<1> QED
  BY <1>2, <1>3, <1>4

LEMMA AppCalm ==
    ASSUME AppTypeOK, TaskInv, CalmInv, AppStep \/ UNCHANGED vars
    PROVE  CalmInv'
<1>0. app \in AppRecord
  BY DEF AppTypeOK, AppRecord
<1>1. \A at : [app EXCEPT !.at = at].at = at /\ [app EXCEPT !.at = at].mode = app.mode
  BY <1>0 DEF AppRecord
<1>2. UNCHANGED <<recVars, thread>> /\ app'.mode = app.mode
  <2>1. UNCHANGED <<recVars, thread>>
    BY DEF AppStep, PsaCall, Return, TaskStep, MinutePasses, PowerFail, Asleep, vars,
           vadVars
  <2>2. /\ \A n : [app EXCEPT !.tries = n].mode = app.mode
        /\ \A n : [app EXCEPT !.waits = n].mode = app.mode
    BY <1>0 DEF AppRecord
  <2>3. app'.mode = app.mode
    <3>1. CASE FirstBoot
      BY <1>1, <3>1 DEF FirstBoot, GoTo
    <3>2. CASE Ota \/ Check
      BY <1>1, <3>2 DEF Ota, Check, GoTo
    <3>3. CASE Connect \/ CreateMqtt \/ Disconnect
      BY <1>1, <2>2, <3>3 DEF Connect, CreateMqtt, Disconnect, GoTo
    <3>4. CASE Publish
      BY <1>0, <3>4 DEF Publish, AppRecord
    <3>5. CASE WaitForPacket
      BY <1>1, <2>2, <3>5 DEF WaitForPacket, GoTo
    <3>6. CASE PowerFail
      BY <1>1, <3>6 DEF PowerFail
    <3>7. CASE Return
      BY <1>0, <3>7 DEF Return, AppRecord
    <3>8. CASE PsaCall \/ MinutePasses \/ Asleep \/ UNCHANGED vars
      BY <3>8 DEF PsaCall, MinutePasses, Asleep, vars, appVars
    <3> QED
      BY <3>1, <3>2, <3>3, <3>4, <3>5, <3>6, <3>7, <3>8 DEF AppStep, TaskStep
  <2> QED
    BY <2>1, <2>3
<1> SUFFICES ASSUME app.mode # "any"
             PROVE  (EstInv /\ AnswerInv /\ BetweenInv /\ StageInv /\ DoneInv)'
  BY <1>2 DEF CalmInv
<1>3. EstInv /\ AnswerInv /\ BetweenInv /\ StageInv /\ DoneInv
  BY DEF CalmInv
<1>4. EstInv'
  BY <1>2, <1>3 DEF EstInv, recVars
<1>5. CASE UNCHANGED <<call, answer, app>>
  <2>1. AnswerInv' /\ BetweenInv' /\ DoneInv'
    BY <1>2, <1>3, <1>5 DEF AnswerInv, BetweenInv, DoneInv, recVars
  <2>2. StageInv'
    BY <1>2, <1>3, <1>5
    DEF StageInv, StartStage, FreqStage, StopStage, QueryStage, get_freq, recVars
  <2> QED
    BY <1>4, <2>1, <2>2
<1>6. CASE /\ call.at = "none" /\ call' = call /\ answer' = answer
           /\ app.at \in StoppedPlace \/ app'.at \notin StoppedPlace
           /\ app'.at \notin {"nc_freq", "freq"}
  BY <1>2, <1>3, <1>4, <1>6
  DEF AnswerInv, BetweenInv, DoneInv, StageInv, recVars
<1>7. CASE PsaCall
  <2>1. call.at = "none" /\ call'.at = "sent" /\ UNCHANGED <<app, answer>>
    BY <1>7 DEF PsaCall, appVars
  <2> QED
    BY <1>2, <1>3, <1>4, <2>1 DEF AnswerInv, BetweenInv, DoneInv, StageInv, recVars
<1>8. CASE Return
  <2>1. /\ call.at = "replied" /\ call'.at = "none" /\ answer'.value = "none"
        /\ app'.at = After(app.at)
    BY <1>0, <1>8 DEF Return, AppRecord
  <2>2. call.type \in Calls(app.at) /\ app.at \in CallPlace /\ app.at # "any"
    BY <2>1 DEF TaskInv
  <2>3. /\ After(app.at) \in StoppedPlace => call.type \in {"get_freq", "stop"}
        /\ After(app.at) \in {"nc_freq", "freq"} => answer.value = "recorded"
    BY <2>2 DEF After, Calls, CallPlace, StoppedPlace, Place, NetPlace
  <2> QED
    BY <1>2, <1>3, <1>4, <2>1, <2>3
    DEF AnswerInv, BetweenInv, DoneInv, StageInv, recVars
<1>9. CASE TaskStep
  <2>1. call.at = "none" /\ call' = call /\ answer' = answer
    BY <1>9 DEF TaskStep, vadVars
  <2>2. /\ app.at \in StoppedPlace \/ app'.at \notin StoppedPlace
        /\ app'.at \notin {"nc_freq", "freq"}
    <3>1. CASE FirstBoot
      BY <1>1, <3>1 DEF FirstBoot, GoTo, StoppedPlace, Place
    <3>2. CASE Ota \/ Check
      BY <1>1, <3>2 DEF Ota, Check, GoTo, StoppedPlace, Place, CallPlace
    <3>3. CASE Connect \/ CreateMqtt \/ Publish \/ WaitForPacket \/ Disconnect
      BY <1>0, <1>1, <3>3
      DEF Connect, CreateMqtt, Publish, WaitForPacket, Disconnect, GoTo, StoppedPlace,
          Place, NetPlace, AppRecord
    <3> QED
      BY <1>9, <3>1, <3>2, <3>3 DEF TaskStep
  <2> QED
    BY <1>6, <2>1, <2>2
<1>10. CASE PowerFail
  <2>1. /\ call.at = "none" /\ call' = call /\ answer' = answer /\ app'.at = "boot"
        /\ vad_status = "stopped"
    BY <1>1, <1>10 DEF PowerFail, vadVars
  <2> QED
    BY <1>2, <1>3, <1>4, <2>1 DEF AnswerInv, BetweenInv, DoneInv, StageInv, recVars
<1>11. CASE MinutePasses \/ Asleep \/ UNCHANGED vars
  BY <1>5, <1>11 DEF MinutePasses, Asleep, vars, vadVars, appVars
<1> QED
  BY <1>7, <1>8, <1>9, <1>10, <1>11 DEF AppStep

(* What the thread is at during a call, by the type of the call. *)
LEMMA StartOps ==
    ASSUME VadTypeOK, StartStage, NEW op, Runs(op)
    PROVE  \/ /\ op = "init" /\ vad_status = "stopped"
              /\ Begins(Tail(thread.todo), <<Do("inited"), Status("no_voice")>>)
           \/ /\ op = "inited" /\ vad_status = "stopped"
              /\ Begins(Tail(thread.todo), <<Status("no_voice")>>)
           \/ /\ op = "status" /\ Head(thread.todo).to = "no_voice"
              /\ Begins(Tail(thread.todo), << >>) /\ est.state = "ready"
           \/ /\ op \in {"update", "wait", "irq_enable", "irq_disable", "reply"}
              /\ Begins(thread.todo, << >>) /\ Begins(Tail(thread.todo), << >>)
              /\ est.state = "ready"
<1> DEFINE t == thread.todo
           x == Do("init")
           y == Do("inited")
           z == Status("no_voice")
<1>1. t \in Seq(Op) /\ t # << >> /\ Head(t).op = op
  BY RunsHead
<1>2. x.op = "init" /\ y.op = "inited" /\ z.op = "status" /\ z.to = "no_voice"
  BY DEF Do, Status
<1>3. x \in Op /\ y \in Op /\ z \in Op
  BY DEF Op, Work
<1> HIDE DEF t, x, y, z
<1>4. /\ Head(<<x, y, z>>) = x /\ Tail(<<x, y, z>>) = <<y, z>>
      /\ Head(<<y, z>>) = y /\ Tail(<<y, z>>) = <<z>>
      /\ Head(<<z>>) = z /\ Tail(<<z>>) = << >>
      /\ <<x, y, z>> # << >> /\ <<y, z>> # << >> /\ <<z>> # << >>
      /\ <<x, y, z>> \in Seq(Op) /\ <<y, z>> \in Seq(Op) /\ <<z>> \in Seq(Op)
      /\ << >> \in Seq(Op)
  BY <1>3
<1>5. \/ vad_status = "stopped" /\ Begins(t, <<x, y, z>>)
      \/ vad_status = "stopped" /\ Begins(t, <<y, z>>)
      \/ Begins(t, <<z>>) /\ est.state = "ready"
      \/ Begins(t, << >>) /\ est.state = "ready"
  BY DEF StartStage, t, x, y, z
<1>6. CASE vad_status = "stopped" /\ Begins(t, <<x, y, z>>)
  <2>1. Head(t) = x /\ Begins(Tail(t), <<y, z>>)
    BY <1>1, <1>4, <1>6, BeginsTail
  <2> QED
    BY <1>1, <1>2, <1>6, <2>1 DEF t, y, z
<1>7. CASE vad_status = "stopped" /\ Begins(t, <<y, z>>)
  <2>1. Head(t) = y /\ Begins(Tail(t), <<z>>)
    BY <1>1, <1>4, <1>7, BeginsTail
  <2> QED
    BY <1>1, <1>2, <1>7, <2>1 DEF t, z
<1>8. CASE Begins(t, <<z>>) /\ est.state = "ready"
  <2>1. Head(t) = z /\ Begins(Tail(t), << >>)
    BY <1>1, <1>4, <1>8, BeginsTail
  <2> QED
    BY <1>1, <1>2, <1>8, <2>1 DEF t
<1>9. CASE Begins(t, << >>) /\ est.state = "ready"
  <2>1. Head(t) \in Quiet /\ Begins(Tail(t), << >>)
    BY <1>1, <1>4, <1>9, BeginsTail
  <2> QED
    BY <1>1, <1>9, <2>1, OpKinds DEF t
<1> QED
  BY <1>5, <1>6, <1>7, <1>8, <1>9

LEMMA FreqOps ==
    ASSUME VadTypeOK, FreqStage, NEW op, Runs(op)
    PROVE  \/ /\ op = "fft" /\ vad_status = "recorded"
              /\ Begins(Tail(thread.todo), <<Status("stopped")>>)
           \/ /\ op = "status" /\ Head(thread.todo).to = "stopped"
              /\ Begins(Tail(thread.todo), << >>)
           \/ /\ op \in {"update", "wait", "irq_enable", "irq_disable", "reply"}
              /\ Begins(thread.todo, << >>) /\ Begins(Tail(thread.todo), << >>)
              /\ vad_status = "stopped"
<1> DEFINE t == thread.todo
           z == Status("stopped")
<1>1. t \in Seq(Op) /\ t # << >> /\ Head(t).op = op
  BY RunsHead
<1>2. z.op = "status" /\ z.to = "stopped" /\ z \in Op
  BY DEF Status, Op, Work
<1>3. CASE t = get_freq /\ vad_status = "recorded"
  <2>1. Head(t) = Do("fft") /\ Tail(t) = <<z, Do("reply")>> /\ Do("fft").op = "fft"
    BY <1>3 DEF get_freq, Do
  <2>2. Do("reply") \in Quiet
    BY DEF Quiet
  <2> HIDE DEF z
  <2>3. Begins(<<z, Do("reply")>>, <<z>>)
    BY <2>2 DEF Begins
  <2> QED
    BY <1>1, <1>3, <2>1, <2>3 DEF z
<1> HIDE DEF t, z
<1>4. /\ Head(<<z>>) = z /\ Tail(<<z>>) = << >> /\ <<z>> # << >> /\ <<z>> \in Seq(Op)
      /\ << >> \in Seq(Op)
  BY <1>2
<1>5. CASE Begins(t, <<z>>)
  <2>1. Head(t) = z /\ Begins(Tail(t), << >>)
    BY <1>1, <1>4, <1>5, BeginsTail
  <2> QED
    BY <1>1, <1>2, <2>1 DEF t
<1>6. CASE Begins(t, << >>) /\ vad_status = "stopped"
  <2>1. Head(t) \in Quiet /\ Begins(Tail(t), << >>)
    BY <1>1, <1>4, <1>6, BeginsTail
  <2> QED
    BY <1>1, <1>6, <2>1, OpKinds DEF t
<1> QED
  BY <1>3, <1>5, <1>6 DEF FreqStage, t, z

LEMMA StopOps ==
    ASSUME VadTypeOK, StopStage, NEW op, Runs(op)
    PROVE  \/ /\ op = "status" /\ Head(thread.todo).to = "stopped"
              /\ Begins(Tail(thread.todo), << >>)
           \/ /\ op \in {"update", "wait", "irq_enable", "irq_disable", "reply"}
              /\ \/ StopsLast(thread.todo) /\ StopsLast(Tail(thread.todo))
                 \/ /\ Begins(thread.todo, << >>) /\ Begins(Tail(thread.todo), << >>)
                    /\ vad_status = "stopped"
<1> DEFINE t == thread.todo
<1>1. t \in Seq(Op) /\ t # << >> /\ Head(t).op = op
  BY RunsHead
<1>2. Status("stopped").op = "status" /\ Status("stopped").to = "stopped"
  BY DEF Status
<1>3. << >> \in Seq(Op)
  OBVIOUS
<1> HIDE DEF t
<1>4. CASE StopsLast(t)
  <2>1. \/ Head(t) = Status("stopped") /\ Begins(Tail(t), << >>)
        \/ Head(t) \in Quiet /\ StopsLast(Tail(t))
    BY <1>1, <1>4, StopsTail
  <2> QED
    BY <1>1, <1>2, <1>4, <2>1, OpKinds DEF t
<1>5. CASE Begins(t, << >>) /\ vad_status = "stopped"
  <2>1. Head(t) \in Quiet /\ Begins(Tail(t), << >>)
    BY <1>1, <1>3, <1>5, BeginsTail
  <2> QED
    BY <1>1, <1>5, <2>1, OpKinds DEF t
<1> QED
  BY <1>4, <1>5 DEF StopStage, t

LEMMA QueryOps ==
    ASSUME VadTypeOK, QueryStage, NEW op, Runs(op)
    PROVE  /\ op \in {"query", "update", "wait", "irq_enable", "irq_disable", "reply"}
           /\ Begins(Tail(thread.todo), << >>)
<1> DEFINE t == thread.todo
           q == Do("query")
<1>1. t \in Seq(Op) /\ t # << >> /\ Head(t).op = op
  BY RunsHead
<1>2. q.op = "query" /\ q \in Op
  BY DEF Do, Op, Work
<1> HIDE DEF t, q
<1>3. /\ Head(<<q>>) = q /\ Tail(<<q>>) = << >> /\ <<q>> # << >> /\ <<q>> \in Seq(Op)
      /\ << >> \in Seq(Op)
  BY <1>2
<1>4. CASE Begins(t, <<q>>)
  <2>1. Head(t) = q /\ Begins(Tail(t), << >>)
    BY <1>1, <1>3, <1>4, BeginsTail
  <2> QED
    BY <1>1, <1>2, <2>1 DEF t
<1>5. CASE Begins(t, << >>)
  <2>1. Head(t) \in Quiet /\ Begins(Tail(t), << >>)
    BY <1>1, <1>3, <1>5, BeginsTail
  <2> QED
    BY <1>1, <2>1, OpKinds DEF t
<1> QED
  BY <1>4, <1>5 DEF QueryStage, t, q

(* Without a call the thread only waits, or accepts one. *)
LEMMA IdleCalm ==
    ASSUME VadTypeOK, ThreadInv, TaskInv, CalmInv, ThreadStep, UNCHANGED appVars,
           call.at # "taken", app.mode # "any"
    PROVE  (EstInv /\ AnswerInv /\ BetweenInv /\ StageInv /\ DoneInv)'
<1>0. EstInv /\ AnswerInv /\ BetweenInv /\ StageInv /\ DoneInv /\ app' = app
  BY DEF CalmInv, appVars
<1>1. \A op : Runs(op) => op \in {"update", "wait", "lines"}
  BY ThreadAdvance
<1>2. ~SetStatus /\ ~InitEstimation /\ ~Query /\ ~Fft /\ ~Reply
  BY <1>1 DEF SetStatus, InitEstimation, Query, Fft, Reply
<1>3. CASE QuietStep
  BY <1>0, <1>3 DEF QuietStep, EstInv, AnswerInv, BetweenInv, StageInv, DoneInv, recVars
<1>4. CASE Accept
  <2>1. /\ call.at = "sent" /\ call'.at = "taken" /\ call'.type = call.type
        /\ thread'.todo = vad_signal_handle(call.type)
        /\ UNCHANGED <<vad_status, est, answer>>
    BY <1>4 DEF Accept, VadTypeOK, recVars
  <2>2. EstInv' /\ AnswerInv' /\ BetweenInv' /\ DoneInv'
    BY <1>0, <2>1 DEF EstInv, AnswerInv, BetweenInv, DoneInv
  <2>3. app.at \in CallPlace \ {"any"} /\ call.type \in Calls(app.at)
    BY <2>1 DEF TaskInv
  <2>4. /\ call.type = "start" => vad_status = "stopped"
        /\ call.type = "get_freq" => vad_status = "recorded"
    <3>1. /\ call.type = "start" => app.at \in {"nc_start", "start", "restart"}
          /\ call.type = "get_freq" => app.at \in {"nc_freq", "freq"}
      BY <2>3 DEF Calls, CallPlace
    <3>2. {"nc_start", "start", "restart"} \subseteq StoppedPlace
      BY DEF StoppedPlace, Place, CallPlace
    <3> QED
      BY <1>0, <2>1, <3>1, <3>2 DEF BetweenInv
  <2>5. StageInv'
    <3>1. call.type = "start" => StartStage'
      BY <2>1, <2>4, CallLists DEF StartStage, vad_signal_handle
    <3>2. call.type = "get_freq" => FreqStage'
      BY <2>1, <2>4 DEF FreqStage, vad_signal_handle, get_freq
    <3>3. call.type = "stop" => StopStage'
      BY <2>1, CallLists DEF StopStage, vad_signal_handle
    <3>4. call.type = "query" => QueryStage'
      BY <2>1, CallLists DEF QueryStage, vad_signal_handle
    <3> QED
      BY <2>1, <3>1, <3>2, <3>3, <3>4 DEF StageInv
  <2> QED
    BY <2>2, <2>5
<1> QED
  BY <1>2, <1>3, <1>4, ThreadEffect

(* What an operation of a call changes beside the list. *)
LEMMA CallEffect ==
    ASSUME VadTypeOK, ThreadInv, ThreadStep, call.at = "taken"
    PROVE  \/ /\ \E op \in {"update", "wait", "lines", "irq_enable", "irq_disable"} : Runs(op)
              /\ thread'.todo \in {thread.todo, Tail(thread.todo)}
              /\ UNCHANGED <<vad_status, est, call, answer>>
           \/ /\ Runs("status") /\ thread'.todo = Tail(thread.todo)
              /\ vad_status' = Head(thread.todo).to /\ UNCHANGED <<est, call, answer>>
           \/ /\ Runs("init") \/ Runs("inited")
              /\ thread'.todo = Tail(thread.todo)
              /\ est'.reentered = est.reentered
              /\ est'.state = (IF Runs("init") THEN "initialising" ELSE "ready")
              /\ UNCHANGED <<vad_status, call, answer>>
           \/ /\ Runs("query") /\ thread'.todo = Tail(thread.todo)
              /\ answer'.value = vad_status /\ UNCHANGED <<vad_status, est, call>>
           \/ /\ Runs("fft") /\ vad_status = "recorded"
              /\ thread'.todo = Tail(thread.todo)
              /\ answer'.value # "recorded" /\ UNCHANGED <<vad_status, est, call>>
           \/ Runs("fft") /\ vad_status # "recorded"
           \/ /\ Runs("reply") \/ Runs("invalid")
              /\ Tail(thread.todo) = << >> /\ call' = [call EXCEPT !.at = "replied"]
              /\ answer' = answer \/ answer'.value = "none"
              /\ UNCHANGED <<vad_status, est>>
<1>1. CASE QuietStep
  BY <1>1 DEF QuietStep, recVars
<1>2. CASE SetStatus
  BY <1>2, RunsHead DEF SetStatus
<1>3. CASE InitEstimation
  <2>1. thread'.todo = Tail(thread.todo) /\ UNCHANGED <<vad_status, call, answer>>
    BY <1>3, RunsHead DEF InitEstimation
  <2>2. /\ Runs("init") \/ Runs("inited")
        /\ Runs("init") <=> Head(thread.todo).op = "init"
    BY <1>3 DEF InitEstimation, Runs
  <2>3. /\ est'.reentered = est.reentered
        /\ est'.state = (IF Runs("init") THEN "initialising" ELSE "ready")
    BY <1>3, <2>2 DEF InitEstimation, VadTypeOK
  <2> QED
    BY <2>1, <2>2, <2>3
<1>4. CASE Query
  BY <1>4, RunsHead DEF Query, recVars
<1>5. CASE Fft
  BY <1>5, RunsHead DEF Fft
<1>6. CASE Reply
  <2>1. PICK op \in {"reply", "invalid"} : Runs(op)
    BY <1>6 DEF Reply
  <2>2. Tail(thread.todo) = << >>
    <3>1. \A o \in Work : o.op \notin {"reply", "invalid"}
      BY OpKinds
    <3> QED
      BY <2>1, <3>1, ThreadAdvance, RunsHead
  <2>3. answer' = answer \/ answer'.value = "none"
    BY <1>6 DEF Reply
  <2> QED
    BY <1>6, <2>1, <2>2, <2>3 DEF Reply, recVars
<1>7. ~Accept
  BY DEF Accept
<1> QED
  BY <1>1, <1>2, <1>3, <1>4, <1>5, <1>6, <1>7, ThreadEffect

(* Serving a call of the main task. *)
LEMMA ServingCalm ==
    ASSUME VadTypeOK, ThreadInv, TaskInv, CalmInv, ThreadStep, UNCHANGED appVars,
           call.at = "taken", app.mode # "any"
    PROVE  (EstInv /\ AnswerInv /\ BetweenInv /\ StageInv /\ DoneInv)'
<1> DEFINE t == thread.todo
           t1 == thread'.todo
           quiet == {"update", "wait", "lines", "irq_enable", "irq_disable"}
<1>0. /\ ~est.reentered /\ (est.state # "ready" => vad_status = "stopped")
      /\ answer.value = "recorded" => call.type = "query" /\ vad_status = "recorded"
  BY DEF CalmInv, EstInv, AnswerInv
<1>1. call.type \in {"start", "query", "get_freq", "stop"}
  BY DEF TaskInv, Calls
<1>2. PICK op : Runs(op)
  BY CallEffect
<1>3. \A o : Runs(o) => o = op
  BY <1>2 DEF Runs
<1>4. op \in quiet => t1 \in {t, Tail(t)} /\ UNCHANGED <<vad_status, est, call, answer>>
  BY <1>3, CallEffect
<1>5. op = "status" =>
        t1 = Tail(t) /\ vad_status' = Head(t).to /\ UNCHANGED <<est, call, answer>>
  BY <1>3, CallEffect
<1>6. op \in {"init", "inited"} =>
        /\ t1 = Tail(t) /\ est'.reentered = est.reentered
        /\ est'.state = (IF op = "init" THEN "initialising" ELSE "ready")
        /\ UNCHANGED <<vad_status, call, answer>>
  BY <1>2, <1>3, CallEffect
<1>7. op = "query" =>
        t1 = Tail(t) /\ answer'.value = vad_status /\ UNCHANGED <<vad_status, est, call>>
  BY <1>3, CallEffect
<1>8. op = "fft" /\ vad_status = "recorded" =>
        /\ t1 = Tail(t) /\ answer'.value # "recorded"
        /\ UNCHANGED <<vad_status, est, call>>
  BY <1>3, CallEffect
<1>9. \A to : [call EXCEPT !.at = to].at = to /\ [call EXCEPT !.at = to].type = call.type
  BY DEF VadTypeOK
<1>10. op = "reply" =>
         /\ Tail(t) = << >> /\ call'.at = "replied" /\ call'.type = call.type
         /\ answer' = answer \/ answer'.value = "none"
         /\ UNCHANGED <<vad_status, est>>
  BY <1>3, <1>9, CallEffect
<1> DEFINE Done(S) ==
             /\ ~est'.reentered /\ (est'.state # "ready" => vad_status' = "stopped")
             /\ answer'.value = "recorded" =>
                   call.type = "query" /\ vad_status' = "recorded"
             /\ call'.type = call.type
             /\ \/ call'.at = "taken" /\ S
                \/ call'.at = "replied"
<1> HIDE DEF t, t1, quiet
<1>11. CASE call.type = "start"
  <2>1. StartStage
    BY <1>11 DEF CalmInv, StageInv
  <2>2. ASSUME op \in {"init", "inited"} PROVE Done(StartStage')
    <3>1. vad_status = "stopped"
      BY <1>2, <2>1, <2>2, StartOps
    <3>2. \/ op = "init" /\ Begins(t1, <<Do("inited"), Status("no_voice")>>)
          \/ op = "inited" /\ Begins(t1, <<Status("no_voice")>>)
      BY <1>2, <1>6, <2>1, <2>2, StartOps DEF t
    <3> QED
      BY <1>0, <1>6, <1>11, <2>2, <3>1, <3>2 DEF StartStage, t1
  <2>3. ASSUME op = "status" PROVE Done(StartStage')
    <3>1. Head(t).to = "no_voice" /\ Begins(Tail(t), << >>) /\ est.state = "ready"
      BY <1>2, <2>1, <2>3, StartOps DEF t
    <3> QED
      BY <1>0, <1>5, <1>11, <2>3, <3>1 DEF StartStage, t1
  <2>4. ASSUME op \in quiet PROVE Done(StartStage')
    <3>1. Begins(t, << >>) /\ Begins(Tail(t), << >>) /\ est.state = "ready"
      BY <1>2, <2>1, <2>4, StartOps DEF t, quiet
    <3> QED
      BY <1>0, <1>4, <1>11, <2>4, <3>1 DEF StartStage, t1
  <2>5. ASSUME op = "reply" PROVE Done(StartStage')
    BY <1>0, <1>10, <1>11, <2>5
  <2>6. Done(StartStage')
    BY <1>2, <2>1, <2>2, <2>3, <2>4, <2>5, StartOps DEF quiet
  <2> QED
    BY <1>11, <2>6 DEF EstInv, AnswerInv, BetweenInv, StageInv, DoneInv
<1>12. CASE call.type = "get_freq"
  <2>1. FreqStage
    BY <1>12 DEF CalmInv, StageInv
  <2>2. ASSUME op = "fft" PROVE Done(FreqStage') /\ call'.at = "taken"
    <3>1. vad_status = "recorded" /\ Begins(Tail(t), <<Status("stopped")>>)
      BY <1>2, <2>1, <2>2, FreqOps DEF t
    <3> QED
      BY <1>0, <1>8, <1>12, <2>2, <3>1 DEF FreqStage, t1
  <2>3. ASSUME op = "status" PROVE Done(FreqStage') /\ call'.at = "taken"
    <3>1. Head(t).to = "stopped" /\ Begins(Tail(t), << >>)
      BY <1>2, <2>1, <2>3, FreqOps DEF t
    <3> QED
      BY <1>0, <1>5, <1>12, <2>3, <3>1 DEF FreqStage, t1
  <2>4. ASSUME op \in quiet PROVE Done(FreqStage') /\ call'.at = "taken"
    <3>1. Begins(t, << >>) /\ Begins(Tail(t), << >>) /\ vad_status = "stopped"
      BY <1>2, <2>1, <2>4, FreqOps DEF t, quiet
    <3> QED
      BY <1>0, <1>4, <1>12, <2>4, <3>1 DEF FreqStage, t1
  <2>5. ASSUME op = "reply" PROVE Done(FreqStage') /\ vad_status' = "stopped"
    <3>1. vad_status = "stopped"
      BY <1>2, <2>1, <2>5, FreqOps
    <3> QED
      BY <1>0, <1>10, <1>12, <2>5, <3>1
  <2>6. Done(FreqStage') /\ (call'.at = "taken" \/ vad_status' = "stopped")
    BY <1>2, <2>1, <2>2, <2>3, <2>4, <2>5, FreqOps DEF quiet
  <2> QED
    BY <1>12, <2>6 DEF EstInv, AnswerInv, BetweenInv, StageInv, DoneInv
<1>13. CASE call.type = "stop"
  <2>1. StopStage
    BY <1>13 DEF CalmInv, StageInv
  <2>2. ASSUME op = "status" PROVE Done(StopStage') /\ call'.at = "taken"
    <3>1. Head(t).to = "stopped" /\ Begins(Tail(t), << >>)
      BY <1>2, <2>1, <2>2, StopOps DEF t
    <3> QED
      BY <1>0, <1>5, <1>13, <2>2, <3>1 DEF StopStage, t1
  <2>3. ASSUME op \in quiet PROVE Done(StopStage') /\ call'.at = "taken"
    <3>1. \/ StopsLast(t) /\ StopsLast(Tail(t))
          \/ Begins(t, << >>) /\ Begins(Tail(t), << >>) /\ vad_status = "stopped"
      BY <1>2, <2>1, <2>3, StopOps DEF t, quiet
    <3> QED
      BY <1>0, <1>4, <1>13, <2>3, <3>1 DEF StopStage, t1
  <2>4. ASSUME op = "reply" PROVE Done(StopStage') /\ vad_status' = "stopped"
    <3>1. ~StopsLast(<< >>)
      BY DEF StopsLast
    <3>2. vad_status = "stopped"
      BY <1>2, <1>10, <2>1, <2>4, <3>1, StopOps DEF t
    <3> QED
      BY <1>0, <1>10, <1>13, <2>4, <3>2
  <2>5. Done(StopStage') /\ (call'.at = "taken" \/ vad_status' = "stopped")
    BY <1>2, <2>1, <2>2, <2>3, <2>4, StopOps DEF quiet
  <2> QED
    BY <1>13, <2>5 DEF EstInv, AnswerInv, BetweenInv, StageInv, DoneInv
<1>14. CASE call.type = "query"
  <2>1. QueryStage /\ Begins(Tail(t), << >>)
    <3>1. QueryStage
      BY <1>14 DEF CalmInv, StageInv
    <3> QED
      BY <1>2, <3>1, QueryOps DEF t
  <2>2. ASSUME op = "query" PROVE Done(QueryStage')
    BY <1>0, <1>7, <1>14, <2>1, <2>2 DEF QueryStage, t1
  <2>3. ASSUME op \in quiet PROVE Done(QueryStage')
    BY <1>0, <1>4, <1>14, <2>1, <2>3 DEF QueryStage, t, t1
  <2>4. ASSUME op = "reply" PROVE Done(QueryStage')
    BY <1>0, <1>10, <1>14, <2>4
  <2>5. Done(QueryStage')
    BY <1>2, <2>1, <2>2, <2>3, <2>4, QueryOps DEF quiet
  <2> QED
    BY <1>14, <2>5 DEF EstInv, AnswerInv, BetweenInv, StageInv, DoneInv
<1> QED
  BY <1>1, <1>11, <1>12, <1>13, <1>14

LEMMA ThreadCalm ==
    ASSUME VadTypeOK, ThreadInv, TaskInv, CalmInv, ThreadStep, UNCHANGED appVars
    PROVE  CalmInv'
<1> SUFFICES ASSUME app.mode # "any"
             PROVE  (EstInv /\ AnswerInv /\ BetweenInv /\ StageInv /\ DoneInv)'
  BY DEF CalmInv, appVars
<1> QED
  BY IdleCalm, ServingCalm

-----------------------------------------------------------------------------
(* The invariant, and what it implies *)

LEMMA InvStep ==
    ASSUME VadInv, [Next]_vars
    PROVE  VadInv'
<1> USE DEF VadInv
<1>1. CASE (Hardware \/ Handler) /\ UNCHANGED appVars
  <2>1. AppTypeOK'
    BY <1>1, HandlerTypes DEF AppTypeOK, appVars
  <2>2. ThreadInv'
    BY <1>1, HandlerEffect DEF AppTypeOK, ThreadInv, get_freq
  <2>3. FlihInv' /\ RecInv'
    BY <1>1, HandlerRecording DEF AppTypeOK
  <2>4. TaskInv' /\ CalmInv'
    BY <1>1, PartitionTask, HandlerCalm DEF AppTypeOK
  <2> QED
    BY <2>1, <2>2, <2>3, <2>4
<1>2. CASE ThreadStep /\ UNCHANGED appVars
  <2>1. AppTypeOK'
    BY <1>2, ThreadTypes DEF AppTypeOK, appVars
  <2>2. ThreadInv' /\ FlihInv' /\ RecInv'
    BY <1>2, ThreadStepInv, ThreadRecording DEF AppTypeOK
  <2>3. TaskInv' /\ CalmInv'
    BY <1>2, PartitionTask, ThreadCalm DEF AppTypeOK
  <2> QED
    BY <2>1, <2>2, <2>3
<1>3. CASE AppStep \/ UNCHANGED vars
  <2>1. AppTypeOK'
    <3>1. CASE AppStep
      BY <3>1, AppTypes
    <3>2. CASE UNCHANGED vars
      BY <3>2 DEF AppTypeOK, VadTypeOK, vars, vadVars, appVars, i2sVars, recVars
    <3> QED
      BY <1>3, <3>1, <3>2
  <2>2. ThreadInv' /\ FlihInv' /\ RecInv'
    BY <1>3, AppRecording DEF AppTypeOK
  <2>3. TaskInv' /\ CalmInv'
    BY <1>3, AppTask, AppCalm
  <2> QED
    BY <2>1, <2>2, <2>3
<1> QED
  BY <1>1, <1>2, <1>3 DEF Next, AppStep

(* For recordings and FIFOs of any size and any number of retries: the     *)
(* types, and which lists of operations the thread and the handler may     *)
(* have left beside the state of the recording, of the call and of the     *)
(* main task.                                                              *)
THEOREM VadInvCorrect == Spec => []VadInv
<1>1. AppInit => VadInv
  BY InvInit
<1>2. VadInv /\ [Next]_vars => VadInv'
  BY InvStep
<1> QED
  BY <1>1, <1>2, PTL DEF Spec

(* The handler and get_freq of vad_an552_sp_main.c: whatever the calls and *)
(* wherever the interrupt comes, a recording that is reported is whole.    *)
THEOREM RecordingWholeCorrect == Spec => []RecordingWhole
<1>1. VadInv => RecordingWhole
  BY DEF VadInv, AppTypeOK, VadTypeOK, RecInv, RecordingWhole
<1> QED
  BY <1>1, VadInvCorrect, PTL

(* The order of the operations of start_vad and the calls of mainTask      *)
(* together: the handler never enters the estimation while it is being     *)
(* initialised.                                                            *)
THEOREM NoReentryCorrect == Spec => []NoReentry
<1>1. VadInv => NoReentry
  BY DEF VadInv, CalmInv, EstInv, NoReentry
<1> QED
  BY <1>1, VadInvCorrect, PTL

(* mainTask and publishToAWSTopic: every connection is closed before the   *)
(* partition is called again, and the OTA agent has its key unless the     *)
(* last import of it failed.                                               *)
THEOREM TaskCleansUpCorrect == Spec => []TaskCleansUp
<1>1. VadInv => TaskCleansUp
  BY DEF VadInv, TaskInv, TaskCleansUp, Imported, NetPlace, CallPlace, BeforeKey
<1> QED
  BY <1>1, VadInvCorrect, PTL
=============================================================================
