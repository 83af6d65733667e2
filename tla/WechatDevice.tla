---------------------------- MODULE WechatDevice ----------------------------
(****************************************************************************)
(* The WeChat collector runs beside the WeChat client of its owner.  The    *)
(* knowledge service pairs it, keeps the configuration the owner asked for, *)
(* and answers its heartbeats with the desired state and with commands;     *)
(* COLLECTOR_MODE is "desktop", so nothing calls the collector directly.    *)
(*                                                                          *)
(* A configuration is its version and its desired status; the selected      *)
(* conversations and the history start travel with them.  A device is the   *)
(* number of the pairing that created it, 0 for none, and its key lives     *)
(* with it.  Requests are signed and every answer may be lost.              *)
(****************************************************************************)
EXTENDS Integers, FiniteSets

CONSTANTS
    MaxVersion,     \* bound: versions of the configuration
    MaxDevices,     \* bound: pairings
    MaxFaults       \* bound: lost answers, dead collectors, deadlines that pass

VARIABLES
    cfg,        \* wechat_collection_configs: version and desired_status
    command,    \* wechat_commands, one per version that was enqueued
    runtime,    \* wechat_collector_runtime.status
    active,     \* agent_devices: the one that is not revoked
    request,    \* the owner's request between its statements
    found,      \* scan_local_accounts finds the account that was paired
    identity,   \* collector: device_identity
    binding,    \* collector: binding
    disk,       \* collector: the state file
    config,     \* collector: config, the version it holds
    open,       \* collector: RuntimeState.db is open
    beat,       \* collector: the heartbeat that is under way
    faults

vars == <<cfg, command, runtime, active, request, found, identity, binding, disk,
          config, open, beat, faults>>
server == <<cfg, command, runtime, active, request>>
local == <<identity, binding, disk, config, open>>

None == "none"
Versions == 1..MaxVersion
Devices == 1..MaxDevices
Wanted == {"running", "stopped", "paused"}

Unbound == [dir |-> FALSE, status |-> None]
Idle == [pc |-> "idle", version |-> 0, desired |-> None, commands |-> {}]
NoRequest == [pc |-> None, want |-> None]
Unsent == [status |-> None, device |-> 0, desired |-> None]

Init ==
    /\ cfg = [version |-> 1, desired |-> "running"]
    /\ command = [v \in Versions |-> Unsent]
    /\ runtime = "running"
    /\ active = 1 /\ identity = 1
    /\ request = NoRequest
    /\ found \in BOOLEAN
    /\ binding = [dir |-> TRUE, status |-> "starting"]
    /\ disk = [identity |-> 1, binding |-> [dir |-> TRUE, status |-> "starting"]]
    /\ config = 0 /\ open = FALSE
    /\ beat = Idle
    /\ faults = 0

Fault == faults < MaxFaults /\ faults' = faults + 1
Paired == identity # 0 /\ identity = active     \* VerifyDeviceRequest
SaveState == disk' = [identity |-> identity', binding |-> binding']

-----------------------------------------------------------------------------
(* The owner: SaveWechatConfig, StopWechat. *)

\* The configuration is read, changed and written back, which makes a version.
SaveWechatConfig(want) ==
    /\ request.pc = None
    /\ cfg.version < MaxVersion
    /\ cfg' = [version |-> cfg.version + 1, desired |-> want]
    /\ request' = [pc |-> "enqueue", want |-> want]
    /\ UNCHANGED <<command, runtime, active, found, local, beat, faults>>

\* The command carries the configuration of its version.
CreateWechatCommand ==
    /\ request.pc = "enqueue"
    /\ command' = [command EXCEPT ![cfg.version] =
                     [status |-> "pending", device |-> 0, desired |-> request.want]]
    /\ request' = [request EXCEPT !.pc = IF request.want = "stopped" THEN "runtime" ELSE None]
    /\ UNCHANGED <<cfg, runtime, active, found, local, beat, faults>>

\* Only StopWechat writes the runtime; SaveWechatConfig that stops does not.
StopWechatRuntime(stop) ==
    /\ request.pc = "runtime"
    /\ runtime' = IF stop THEN "stopped" ELSE runtime
    /\ request' = NoRequest
    /\ UNCHANGED <<cfg, command, active, found, local, beat, faults>>

\* The API dies between two of its statements, or its caller's answer is an error.
RequestDies ==
    /\ request.pc # None
    /\ Fault
    /\ request' = NoRequest
    /\ UNCHANGED <<cfg, command, runtime, active, found, local, beat>>

-----------------------------------------------------------------------------
(* Pairing: CompleteAgentPairing is one transaction, which revokes the device before. *)

PairLocalDevice(lost) ==
    /\ active < MaxDevices
    /\ active' = active + 1
    /\ runtime' = "running"
    /\ IF lost
       THEN Fault /\ UNCHANGED local
       ELSE /\ identity' = active + 1
            /\ binding' = [dir |-> TRUE, status |-> "starting"]
            /\ SaveState
            /\ UNCHANGED <<config, open, faults>>
    /\ UNCHANGED <<cfg, command, request, found, beat>>

-----------------------------------------------------------------------------
(* The collector: collector_worker. *)

Ready == binding.status = "running" /\ open /\ config # 0

\* bootstrap_from_knowledge: the binding and the configuration are emptied before the
\* service is asked, and only an answer, or an expired device, is written to the disk.
Forget == config' = 0

BootstrapFails ==
    /\ beat.pc = "idle" /\ ~Ready /\ identity # 0
    /\ Fault
    /\ binding' = Unbound /\ Forget
    /\ UNCHANGED <<server, found, identity, disk, open, beat>>

\* ensure_bootstrap, which opens the database when the status it was given is running.
Bootstrap ==
    /\ beat.pc = "idle" /\ ~Ready
    /\ CASE ~Paired -> identity' = 0 /\ binding' = Unbound /\ Forget /\ UNCHANGED open
         [] Paired /\ ~(binding.dir \/ found) ->
                binding' = Unbound /\ Forget /\ UNCHANGED <<identity, open>>
         [] OTHER -> /\ binding' = [dir |-> TRUE, status |-> runtime]
                     /\ config' = cfg.version
                     /\ open' = (open \/ runtime = "running")
                     /\ UNCHANGED identity
    /\ SaveState
    /\ UNCHANGED <<server, found, beat, faults>>

\* HeartbeatDevice reads the configuration first.
Heartbeat ==
    /\ beat.pc = "idle" /\ Ready
    /\ IF Paired
       THEN beat' = [Idle EXCEPT !.pc = "asked", !.version = cfg.version, !.desired = cfg.desired]
                /\ UNCHANGED local
       ELSE /\ identity' = 0 /\ binding' = Unbound /\ SaveState
            /\ UNCHANGED <<config, open, beat>>
    /\ UNCHANGED <<server, found, faults>>

Pending == {v \in Versions : command[v].status = "pending"}
Unfinished == {v \in Versions : command[v].status \in {"pending", "delivered", "running"}}

\* Then it writes the status it was sent and claims what is pending, each command once.
ClaimWechatCommands(expired, lost) ==
    /\ beat.pc = "asked"
    /\ expired \subseteq Unfinished
    /\ IF lost \/ expired # {} THEN Fault ELSE UNCHANGED faults
    /\ lost \/ Paired
    /\ LET claimed == Pending \ expired
       IN  /\ command' = [v \in Versions |->
                            CASE v \in expired -> [command[v] EXCEPT !.status = "expired"]
                              [] v \in claimed -> [command[v] EXCEPT !.status = "delivered",
                                                                     !.device = identity]
                              [] OTHER -> command[v]]
           /\ beat' = IF lost THEN Idle ELSE [beat EXCEPT !.pc = "apply", !.commands = claimed]
    /\ runtime' = binding.status
    /\ UNCHANGED <<cfg, active, request, found, local>>

\* The device was replaced while its heartbeat ran: its assignment is gone.
HeartbeatRefused ==
    /\ beat.pc = "asked" /\ ~Paired
    /\ beat' = Idle
    /\ UNCHANGED <<server, found, local, faults>>

ApplyDesiredState_Skipped ==    \* mutant: a heartbeat is for its commands only
    /\ beat.pc = "apply"
    /\ beat' = [beat EXCEPT !.pc = "commands"]
    /\ UNCHANGED <<server, found, local, faults>>
ApplyDesiredState ==
    /\ beat.pc = "apply"
    /\ binding' = [binding EXCEPT !.status = beat.desired]
    /\ config' = beat.version
    /\ UNCHANGED identity /\ SaveState
    /\ beat' = [beat EXCEPT !.pc = "commands"]
    /\ UNCHANGED <<server, found, open, faults>>

\* AcknowledgeWechatCommand: of a device that is not revoked, for a command not expired.
Acknowledges(v) == Paired /\ command[v].status # "expired"

\* The claimed rows come back in no order, and each is applied over what is there: an
\* older command after a newer one, and all of them over the desired state.
ApplyCommand(v, acknowledged) ==
    /\ beat.pc = "commands" /\ v \in beat.commands
    /\ binding' = [binding EXCEPT !.status = command[v].desired]
    /\ config' = v
    /\ UNCHANGED identity /\ SaveState
    /\ IF acknowledged /\ Acknowledges(v)
       THEN command' = [command EXCEPT ![v].status = "acknowledged"] /\ UNCHANGED faults
       ELSE UNCHANGED command /\ IF acknowledged THEN UNCHANGED faults ELSE Fault
    /\ beat' = [beat EXCEPT !.commands = @ \ {v}]
    /\ UNCHANGED <<cfg, runtime, active, request, found, open>>

HeartbeatDone ==
    /\ beat.pc = "commands" /\ beat.commands = {}
    /\ beat' = Idle
    /\ UNCHANGED <<server, found, local, faults>>

\* collect_once: the heartbeat and the cursor of a collector write the runtime too.
CollectorHeartbeat ==
    /\ beat.pc = "idle" /\ Ready /\ Paired
    /\ runtime # "running"
    /\ runtime' = "running"
    /\ UNCHANGED <<cfg, command, active, request, found, local, beat, faults>>

\* The process restarts from its file; the configuration is not in it.
Restart ==
    /\ Fault
    /\ identity' = disk.identity /\ binding' = disk.binding
    /\ config' = 0 /\ open' = FALSE
    /\ beat' = Idle
    /\ UNCHANGED <<server, found, disk>>

-----------------------------------------------------------------------------
Step ==
    \/ Bootstrap \/ Heartbeat \/ HeartbeatRefused
    \/ ApplyDesiredState \/ HeartbeatDone
    \/ \E expired \in SUBSET Versions, lost \in BOOLEAN : ClaimWechatCommands(expired, lost)
    \/ \E v \in Versions, acknowledged \in BOOLEAN : ApplyCommand(v, acknowledged)

Next ==
    \/ Step
    \/ \E want \in Wanted : SaveWechatConfig(want)
    \/ CreateWechatCommand \/ RequestDies
    \/ \E stop \in BOOLEAN : StopWechatRuntime(stop)
    \/ \E lost \in BOOLEAN : PairLocalDevice(lost)
    \/ BootstrapFails \/ CollectorHeartbeat \/ Restart

\* The worker thread loops for as long as the process lives.
Fairness == WF_vars(Step)

Spec == Init /\ [][Next]_vars /\ Fairness

-----------------------------------------------------------------------------
TypeOK ==
    /\ cfg \in [version : Versions, desired : Wanted]
    /\ command \in [Versions -> [status : {None, "pending", "delivered", "acknowledged", "expired"},
                                 device : 0..MaxDevices, desired : Wanted \cup {None}]]
    /\ runtime \in Wanted \cup {"starting"}
    /\ active \in Devices /\ identity \in 0..MaxDevices
    /\ request \in [pc : {None, "enqueue", "runtime"}, want : Wanted \cup {None}]
    /\ binding \in [dir : BOOLEAN, status : Wanted \cup {None, "starting"}]
    /\ config \in 0..MaxVersion /\ open \in BOOLEAN /\ found \in BOOLEAN
    /\ beat.version \in 0..MaxVersion /\ beat.commands \subseteq Versions

Follows == config = cfg.version /\ binding.status = cfg.desired

\* The collector asks for the runtime only, and nothing but a collector that runs, or a
\* new pairing, makes the runtime running again.
Parked == binding.status # "running" /\ runtime # "running"

\* Whatever answers are lost and whatever order commands are applied in, a collector
\* that is paired comes back to the configuration its owner asked for last, unless it
\* has lost its account or stands parked with a runtime that is not running.
Obeys == []<>Follows \/ <>[](~Paired \/ ~binding.dir \/ Parked)
=============================================================================
