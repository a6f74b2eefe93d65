-------------------------------- MODULE VadApp --------------------------------
(***************************************************************************)
(* The non-secure application of the VAD example (main_ns.c) and the       *)
(* publishing of its messages (publish_aws.c), composed with the VAD       *)
(* partition.  One of three clients runs: the main task without            *)
(* connectivity, the main task with it, or a client that makes any calls   *)
(* in any order.  The OTA agent, MQTT, the sockets, the internal trusted   *)
(* storage and the clock are external.                                     *)
(***************************************************************************)
EXTENDS Vad

CONSTANTS
    Modes,          \* the clients of an instance
    MaxRetries,     \* RETRY_MAX_ATTEMPTS
    MaxWaits,       \* MQTT_PROCESS_LOOP_PACKET_WAIT_COUNT_MAX
    MaxPowerFails   \* bound: power failures during the first boots

ASSUME AppAssumption ==
    /\ Modes \subseteq {"no_connectivity", "connected", "any"}
    /\ MaxRetries \in Nat /\ MaxWaits \in Nat /\ MaxPowerFails \in Nat

VARIABLES
    app,    \* the client: its mode, where it is, its retries and waits
    net,    \* its connection
    late,   \* a minute has passed since the OTA agent was stopped
    its     \* the trusted storage: boot pattern and code signing key; whether
            \* the last import of the key failed; power failures

appVars == <<app, net, late, its>>
vars == <<vadVars, appVars>>

AppInit ==
    /\ VadInit
    /\ \E mode \in Modes :
         app = [mode |-> mode, tries |-> 0, waits |-> 0,
                at |-> CASE mode = "no_connectivity" -> "nc_start"
                         [] mode = "connected" -> "boot"
                         [] OTHER -> "any"]
    /\ net = "none" /\ late = FALSE
    /\ its = [pattern |-> FALSE, key |-> FALSE, refused |-> FALSE, fails |-> 0]

-------------------------------------------------------------------------------
(* The interface vad_an552_ipc_api.c *)

(* A partition has reached its loop before the non-secure side starts. *)
Initialised == CodecReady /\ (call.at = "none" => thread.todo = << >>)

Calls(at) ==
    CASE at = "any" -> CallTypes
      [] at \in {"nc_start", "start", "restart"} -> {"start"}
      [] at \in {"nc_query", "query"} -> {"query"}
      [] at \in {"nc_freq", "freq"} -> {"get_freq"}
      [] at = "stop" -> {"stop"}
      [] OTHER -> {}

PsaCall ==
    /\ Initialised /\ call.at = "none"
    /\ \E t \in Calls(app.at) : call' = [type |-> t, at |-> "sent"]
    /\ UNCHANGED <<i2cVars, i2sVars, recVars, thread, flih, answer, appVars>>

-------------------------------------------------------------------------------
(* mainTask *)

(* Where the task goes on after a call has returned. *)
After(at) ==
    CASE at = "nc_start" -> "nc_query"
      [] at = "nc_query" -> IF answer.value = "recorded" THEN "nc_freq" ELSE "nc_query"
      [] at = "nc_freq" -> "nc_start"
      [] at = "start" -> "query"
      [] at = "query" -> IF answer.value = "recorded" THEN "freq" ELSE "check"
      [] at = "freq" -> "connect"
      [] at = "restart" -> "check"
      [] at = "stop" -> "ota"
      [] OTHER -> at

Return ==
    /\ call.at = "replied"
    /\ call' = [type |-> "none", at |-> "none"]
    /\ app' = [app EXCEPT !.at = After(@), !.tries = 0]
    /\ answer' = [status |-> "none", value |-> "none"]
    /\ UNCHANGED <<i2cVars, i2sVars, recVars, thread, flih, net, late, its>>

GoTo(at) == app' = [app EXCEPT !.at = at]

(* main: the keys are provisioned on the first boot, or when the pattern  *)
(* cannot be read; then the pattern is written.  Nobody looks at the       *)
(* results of the import of the key and of the writing, so each may fail   *)
(* and the boot goes on.  A key that exists already stays.                 *)
FirstBoot ==
    \/ app.at = "boot" /\ its.pattern /\ GoTo("ota") /\ UNCHANGED its
    \/ app.at = "boot" /\ GoTo("provision") /\ UNCHANGED its
    \/ /\ app.at = "provision" /\ GoTo("write_pattern")
       /\ \E ok \in BOOLEAN :
            its' = [its EXCEPT !.key = @ \/ ok, !.refused = ~(its.key \/ ok)]
    \/ /\ app.at = "write_pattern" /\ GoTo("ota")
       /\ \E ok \in BOOLEAN : its' = [its EXCEPT !.pattern = @ \/ ok]

(* The OTA agent runs until it waits for a job and is shut down; with a     *)
(* job the task sleeps for ever.                                           *)
Ota ==
    \/ app.at = "ota" /\ GoTo("ota_settled") /\ UNCHANGED late
    \/ app.at = "ota_settled" /\ GoTo("ota_job") /\ UNCHANGED late
    \/ app.at = "ota_settled" /\ GoTo("start") /\ late' = FALSE

(* The timeout is looked at after publishing and in every turn of the loop. *)
Check ==
    \/ app.at = "published" /\ GoTo(IF late THEN "stop" ELSE "restart")
    \/ app.at = "check" /\ GoTo(IF late THEN "stop" ELSE "query")

-------------------------------------------------------------------------------
(* publishToAWSTopic *)

(* prvConnectToServerWithBackoffRetries and prvBackoffForRetry: the random *)
(* number of the backoff may fail too.                                     *)
Connect ==
    /\ app.at = "connect"
    /\ \/ GoTo("mqtt") /\ net' = "tcp"
       \/ /\ app.tries < MaxRetries
          /\ app' = [app EXCEPT !.tries = @ + 1] /\ UNCHANGED net
       \/ GoTo("published") /\ UNCHANGED net

(* prvCreateMQTTConnectionWithBroker *)
LeftOpen ==
    /\ app.at = "mqtt"
    /\ \/ GoTo("publish") /\ net' = "mqtt"
       \/ GoTo("published") /\ UNCHANGED net
CreateMqtt ==
    /\ app.at = "mqtt"
    /\ \/ GoTo("publish") /\ net' = "mqtt"
       \/ GoTo("disconnect") /\ UNCHANGED net

(* prvMQTTPublishToTopic waits for the acknowledgement even when nothing   *)
(* was sent.                                                               *)
Publish ==
    /\ app.at = "publish"
    /\ app' = [app EXCEPT !.at = "wait", !.waits = 0] /\ UNCHANGED net

(* prvWaitForPacket: acknowledged, an error or the last turn end it. *)
WaitUnbounded ==
    /\ app.at = "wait"
    /\ \/ GoTo("mqtt_disconnect")
       \/ app' = [app EXCEPT !.waits = (@ + 1) % (MaxWaits + 1)]
    /\ UNCHANGED net
WaitForPacket ==
    /\ app.at = "wait"
    /\ \/ GoTo("mqtt_disconnect")
       \/ app.waits < MaxWaits /\ app' = [app EXCEPT !.waits = @ + 1]
    /\ UNCHANGED net

Disconnect ==
    \/ app.at = "mqtt_disconnect" /\ GoTo("disconnect") /\ net' = "tcp"
    \/ app.at = "disconnect" /\ GoTo("published") /\ net' = "none"

-------------------------------------------------------------------------------
TaskStep ==
    /\ Initialised /\ call.at = "none"
    /\ \/ FirstBoot /\ UNCHANGED <<net, late>>
       \/ Ota /\ UNCHANGED <<net, its>>
       \/ Check /\ UNCHANGED <<net, late, its>>
       \/ (Connect \/ CreateMqtt \/ Publish \/ WaitForPacket \/ Disconnect)
            /\ UNCHANGED <<late, its>>
    /\ UNCHANGED vadVars

(* The tick count passes the minute: external *)
MinutePasses ==
    /\ app.mode = "connected" /\ ~late /\ late' = TRUE
    /\ UNCHANGED <<vadVars, app, net, its>>

(* Nothing is called before the boot is over, so the partition comes back  *)
(* to the state it was in.                                                 *)
PowerFail ==
    /\ app.at \in {"provision", "write_pattern", "ota"} /\ its.fails < MaxPowerFails
    /\ its' = [its EXCEPT !.fails = @ + 1]
    /\ app' = [app EXCEPT !.at = "boot"]
    /\ call.at = "none" /\ vad_status = "stopped" /\ ~control["rx_en"]
    /\ late' = FALSE /\ UNCHANGED <<vadVars, net>>

(* The main task with a job, or while it sleeps. *)
Asleep == app.at = "ota_job" /\ UNCHANGED vars

Next ==
    \/ (Hardware \/ Handler \/ ThreadStep) /\ UNCHANGED appVars
    \/ PsaCall \/ Return \/ TaskStep \/ MinutePasses \/ PowerFail \/ Asleep

(* The clock of the codec delivers samples while sampling is on, the       *)
(* interrupt is served, and the thread and the task are scheduled.         *)
Fairness ==
    /\ WF_vars(SampleArrives /\ UNCHANGED appVars)
    /\ WF_vars(TimerElapses /\ UNCHANGED appVars)
    /\ WF_vars(Interrupt /\ UNCHANGED appVars)
    /\ WF_vars(Handler /\ UNCHANGED appVars)
    /\ WF_vars(ThreadStep /\ UNCHANGED appVars)
    /\ WF_vars(PsaCall \/ Return \/ TaskStep)

Spec == AppInit /\ [][Next]_vars /\ Fairness

-------------------------------------------------------------------------------
(* The library's state is never used by the interrupt handler while the    *)
(* thread initialises it: the example's main task starts the detection     *)
(* only when no interrupt can come.                                        *)
NoReentry == app.mode # "any" => ~est.reentered

(* A connection that was opened is closed again on every path through      *)
(* publishToAWSTopic, before the task goes back to the partition; and the  *)
(* OTA agent runs without the key that verifies its images only if the     *)
(* last import of the key failed, never because the power failed during an *)
(* earlier boot or the boot pattern was found without the key.             *)
TaskCleansUp ==
    /\ call.at # "none" => net = "none"
    /\ app.at \in {"ota", "published", "check"} => net = "none"
    /\ app.at \in {"ota", "ota_settled", "ota_job"} => its.key \/ its.refused

(* A voice that is being recorded is reported by the main task.  Without   *)
(* connectivity the task prints it; with it the task is through with       *)
(* publishing it, or gives up listening because the minute has passed.     *)
VoiceReported ==
    /\ app.mode = "no_connectivity" /\ vad_status = "recording" ~> app.at = "nc_freq"
    /\ app.mode = "connected" /\ vad_status = "recording"
         ~> app.at \in {"published", "stop"}
===============================================================================
