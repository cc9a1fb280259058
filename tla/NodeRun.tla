------------------------------ MODULE NodeRun ------------------------------
(***************************************************************************)
(* One node's runs (node.rs, run_inner and drive_main): the futures that a  *)
(* run joins for its role, the stop signal that must end every one of them, *)
(* the time limit of run_duration, the station's connection, DHCP client    *)
(* and flood (wifi/sta.rs), the access point's tasks (wifi/ap.rs), and the  *)
(* arming of CSI capture at the radio, which association may undo.          *)
(*                                                                          *)
(* All futures of a run are polled by one task.  A point at which a future  *)
(* waits is "guarded" if the wait is a select with the stop signal, which   *)
(* is polled first, so no other arm is taken once the signal is raised.     *)
(* STOP_SIGNAL holds one value: a future that takes it raises it again      *)
(* before the next future is polled.  Durations are left out: a timer may   *)
(* fire at any moment.  So are the flood's pacing and targets at the access *)
(* point, and what the ESP-NOW drivers exchange (EspNowLink).               *)
(***************************************************************************)
EXTENDS Naturals

CONSTANTS
    Gateways,   \* the gateways that DHCP servers hand out
    NoGateway,  \* no lease, no target
    NoConfig,   \* a node that is not run
    Configs,    \* the configurations the node is run with
    ReplyRoom   \* replies the DHCP server's socket buffers (3 fit in the code)

\* "exchange" stands for the ends that both send and measure over ESP-NOW
\* and for the simplex peer, "source" for the simplex source.
Roles == {"station", "ap", "sniffer", "emitter", "source", "exchange"}

ConfigType == [role : Roles, rx : BOOLEAN, tx : BOOLEAN, timed : BOOLEAN, dhcp : BOOLEAN]

ASSUME ConfigsAssumption == Configs \subseteq ConfigType /\ NoConfig \notin Configs
ASSUME GatewaysAssumption == NoGateway \notin Gateways
ASSUME ReplyRoomAssumption == ReplyRoom \in Nat \ {0}

\* The futures that a run may join, in the order in which they are polled.
Futures ==
    {"main", "net", "server", "connection", "monitor", "flood", "dhcp", "rate", "limit"}

\* Where a future waits beside the stop signal.
Guarded ==
    {"settle", "connect", "backoff", "serve", "trailing", "watch", "reconnect", "retry",
     "lease", "flooding", "net", "link", "config", "hold", "receive", "rate",
     "until_stop", "limit"}

\* Where it waits for something else alone.
Unguarded == {"disconnect", "cycle", "transmit", "reply", "collect", "collected"}

Points == Guarded \cup Unguarded \cup {"none", "done"}

VARIABLES
    config,     \* the configuration of the run, if there is one
    stop,       \* STOP_SIGNAL holds a value
    pc,         \* pc[f]: where future f waits
    armed,      \* a CSI configuration with our callback is in force at the radio
    link,       \* the station is associated
    lease,      \* the gateway of the lease the station's stack holds
    info,       \* DHCP_CLIENT_INFO
    target,     \* the destination of the station's flood
    pending,    \* an association the access point's monitor has yet to handle
    unsent,     \* replies in the DHCP server's socket
    published   \* history: the gateway the DHCP task published last in this run

network == <<link, lease, info, target, pending, unsent, published>>
vars == <<config, stop, pc, armed, network>>

Running == config # NoConfig

\* run_inner's rx_enabled, as drive_main is given it.
Captures == config.rx /\ config.role \notin {"emitter", "source"}

Init ==
    /\ config = NoConfig
    /\ stop = FALSE
    /\ pc = [f \in Futures |-> "none"]
    /\ armed = FALSE
    /\ link = FALSE /\ lease = NoGateway /\ pending = FALSE /\ unsent = 0
    /\ info = NoGateway /\ target = NoGateway /\ published = NoGateway

-----------------------------------------------------------------------------
(* The beginning and the end of a run. *)

\* The first wait of a role's own task.
MainStart(c) ==
    CASE c.role \in {"station", "ap"} -> "settle"
      [] c.role = "sniffer" -> IF c.rx /\ c.timed THEN "collected" ELSE "none"
      [] OTHER -> "serve"

\* drive_main: the rate task, or a waiter for the stop signal.
RateStart(c) ==
    IF c.rx /\ c.role \notin {"emitter", "source"} THEN "rate"
    ELSE IF c.role = "sniffer" /\ c.timed THEN "none" ELSE "until_stop"

\* drive_main: the future that ends a timed run.
LimitStart(c) ==
    IF ~c.timed THEN "none"
    ELSE IF c.rx /\ c.role \notin {"emitter", "source"} THEN "collect" ELSE "limit"

\* run_inner, up to the join.  Applying a station's or an access point's
\* configuration restarts the radio, which forgets the CSI configuration.
Start(c) ==
    /\ ~Running
    /\ config' = c
    /\ pc' = [f \in Futures |-> CASE f = "main" -> MainStart(c)
                                  [] f = "rate" -> RateStart(c)
                                  [] f = "limit" -> LimitStart(c)
                                  [] OTHER -> "none"]
    /\ armed' = CASE c.role = "station" -> c.rx
                  [] c.role = "ap" -> FALSE
                  [] OTHER -> armed \/ (c.rx /\ c.role # "emitter")
    /\ link' = FALSE /\ lease' = NoGateway /\ pending' = FALSE /\ unsent' = 0
    /\ published' = NoGateway /\ target' = NoGateway
    /\ UNCHANGED <<stop, info>>

\* Every future is finished: the signal is reset and the CSI gates closed.
\* What the radio and DHCP_CLIENT_INFO hold stays.
EndRun ==
    /\ Running
    /\ \A f \in Futures : pc[f] \in {"none", "done"}
    /\ config' = NoConfig
    /\ stop' = FALSE
    /\ pc' = [f \in Futures |-> "none"]
    /\ UNCHANGED <<armed, network>>

\* CsiNodeClient::send_stop, from any task, at any time.
SendStop ==
    /\ stop' = TRUE
    /\ UNCHANGED <<config, pc, armed, network>>

\* Mutant: the DHCP client keeps the value it took.
ObserveStopForDhcp(f) ==
    /\ pc[f] \in Guarded /\ stop
    /\ pc' = [pc EXCEPT ![f] = "done"]
    /\ stop' = (f # "dhcp")
    /\ UNCHANGED <<config, armed, network>>

\* Mutant: the flood's first wait is for the DHCP client alone.
ObserveStopNotForLease(f) ==
    /\ pc[f] \in Guarded \ {"lease"} /\ stop
    /\ pc' = [pc EXCEPT ![f] = "done"]
    /\ UNCHANGED <<config, stop, armed, network>>

\* A guarded future takes the stop signal, raises it again and ends.
ObserveStop(f) ==
    /\ pc[f] \in Guarded /\ stop
    /\ pc' = [pc EXCEPT ![f] = "done"]
    /\ UNCHANGED <<config, stop, armed, network>>

\* Another arm of the select at `from' is taken.
Arm(f, from, to) ==
    /\ pc[f] = from /\ ~stop
    /\ pc' = [pc EXCEPT ![f] = to]
    /\ UNCHANGED <<config, stop>>

\* An unguarded wait at `from' ends.
Resume(f, from, to) ==
    /\ pc[f] = from
    /\ pc' = [pc EXCEPT ![f] = to]
    /\ UNCHANGED config

-----------------------------------------------------------------------------
(* The station: run_sta_connect. *)

\* The radio may have dropped the CSI configuration.
MayDisarm == armed' \in {armed, FALSE}

\* set_csi: arms the capture, if `wanted'.
SetCsi(wanted) == armed' = (armed \/ wanted)

\* An association, which may come up without CSI, and then set_csi, if `wanted'.
Rearm(wanted) == IF wanted THEN armed' = TRUE ELSE MayDisarm

Settle == Running /\ config.role = "station" /\ Arm("main", "settle", "connect") /\ UNCHANGED <<armed, network>>

\* Mutant: the capture is armed once, before the first association only.
ConnectedNotRearmed ==
    /\ pc["main"] = "connect" /\ ~stop
    /\ pc' = [pc EXCEPT !["main"] = "none", !["connection"] = "watch", !["net"] = "net",
                        !["dhcp"] = "link", !["flood"] = IF config.tx THEN "lease" ELSE "none"]
    /\ link' = TRUE
    /\ MayDisarm
    /\ UNCHANGED <<config, stop, lease, info, target, pending, unsent, published>>

\* The association succeeds: CSI is armed again and the tasks are joined.
Connected ==
    /\ pc["main"] = "connect" /\ ~stop
    /\ pc' = [pc EXCEPT !["main"] = "none", !["connection"] = "watch", !["net"] = "net",
                        !["dhcp"] = "link", !["flood"] = IF config.tx THEN "lease" ELSE "none"]
    /\ link' = TRUE
    /\ Rearm(config.rx)
    /\ UNCHANGED <<config, stop, lease, info, target, pending, unsent, published>>

\* It fails or times out, which may wedge the radio's CSI state.
ConnectFails == Arm("main", "connect", "disconnect") /\ MayDisarm /\ UNCHANGED network

\* The radio is cycled after every failure: CSI is armed whatever config.rx is.
Cycle ==
    /\ Resume("main", "disconnect", "cycle")
    /\ SetCsi(TRUE)
    /\ UNCHANGED <<stop, network>>

CycleEnds == Resume("main", "cycle", "backoff") /\ UNCHANGED <<stop, armed, network>>

Backoff == Arm("main", "backoff", "connect") /\ UNCHANGED <<armed, network>>

\* The access point or the air ends the association; the stack drops its lease.
LinkLost ==
    /\ link
    /\ link' = FALSE /\ lease' = NoGateway
    /\ MayDisarm
    /\ UNCHANGED <<config, stop, pc, info, target, pending, unsent, published>>

\* sta_connection: a lost link is reconnected, with pauses after failures.
Disconnected == ~link /\ Arm("connection", "watch", "reconnect") /\ UNCHANGED <<armed, network>>

Reconnected ==
    /\ Arm("connection", "reconnect", "watch")
    /\ link' = TRUE
    /\ Rearm(config.rx)
    /\ UNCHANGED <<lease, info, target, pending, unsent, published>>

ReconnectFails == Arm("connection", "reconnect", "retry") /\ MayDisarm /\ UNCHANGED network

Retry == Arm("connection", "retry", "reconnect") /\ UNCHANGED <<armed, network>>

\* embassy-net's DHCP socket obtains a lease, and may lose it.
LeaseAcquired ==
    /\ link /\ lease = NoGateway /\ pc["net"] = "net"
    /\ lease' \in Gateways
    /\ UNCHANGED <<config, stop, pc, armed, link, info, target, pending, unsent, published>>

LeaseExpires ==
    /\ lease # NoGateway /\ pc["net"] = "net"
    /\ lease' = NoGateway
    /\ UNCHANGED <<config, stop, pc, armed, link, info, target, pending, unsent, published>>

\* run_dhcp_client: waits for the link, then for a lease, which it publishes,
\* then for the link to drop.
LinkUp == link /\ Arm("dhcp", "link", "config") /\ UNCHANGED <<armed, network>>

\* Mutant: only the first lease of a run is published.
PublishOnce ==
    /\ lease # NoGateway
    /\ Arm("dhcp", "config", "hold")
    /\ info' = IF published = NoGateway THEN lease ELSE info
    /\ published' = lease
    /\ UNCHANGED <<armed, link, lease, target, pending, unsent>>

Publish ==
    /\ lease # NoGateway
    /\ Arm("dhcp", "config", "hold")
    /\ info' = lease /\ published' = lease
    /\ UNCHANGED <<armed, link, lease, target, pending, unsent>>

LinkDown == ~link /\ Arm("dhcp", "hold", "link") /\ UNCHANGED <<armed, network>>

\* sta_network_ops and run_icmp_flood: the published gateway is taken, first
\* before the flood begins and then whenever a new one is there.
TakeInfo(from) ==
    /\ info # NoGateway
    /\ Arm("flood", from, "flooding")
    /\ target' = info /\ info' = NoGateway
    /\ UNCHANGED <<armed, link, lease, pending, unsent, published>>

FollowLease == TakeInfo("lease") \/ TakeInfo("flooding")

-----------------------------------------------------------------------------
(* The access point: run_ap. *)

\* CSI is armed after the restart of the radio, and the tasks are joined.
ApStarted ==
    /\ Running /\ config.role = "ap" /\ pc["main"] = "settle" /\ ~stop
    /\ pc' = [pc EXCEPT !["main"] = "none", !["net"] = "net", !["monitor"] = "watch",
                        !["server"] = IF config.dhcp THEN "receive" ELSE "none",
                        !["flood"] = IF config.tx THEN "serve" ELSE "none"]
    /\ SetCsi(config.rx)
    /\ UNCHANGED <<config, stop, network>>

\* A station associates with the access point.
StationAssociates ==
    /\ Running /\ config.role = "ap" /\ pc["monitor"] = "watch" /\ ~pending
    /\ pending' = TRUE
    /\ MayDisarm
    /\ UNCHANGED <<config, stop, pc, link, lease, info, target, unsent, published>>

\* ap_station_monitor
StationConnected ==
    /\ pending /\ Arm("monitor", "watch", "watch")
    /\ pending' = FALSE
    /\ SetCsi(config.rx)
    /\ UNCHANGED <<link, lease, info, target, unsent, published>>

\* run_dhcp_server: a request is received, and the reply handed to the socket
\* once it has room.  That wait is not guarded.
DhcpRequest == Arm("server", "receive", "reply") /\ UNCHANGED <<armed, network>>

DhcpReply ==
    /\ unsent < ReplyRoom
    /\ Resume("server", "reply", "receive")
    /\ unsent' = unsent + 1
    /\ UNCHANGED <<stop, armed, link, lease, info, target, pending, published>>

\* The network task, while it lasts, sends what the socket holds.
ReplySent ==
    /\ unsent > 0 /\ pc["net"] = "net"
    /\ unsent' = unsent - 1
    /\ UNCHANGED <<config, stop, pc, armed, link, lease, info, target, pending, published>>

-----------------------------------------------------------------------------
(* The other roles, and the futures that drive_main adds. *)

\* The drivers over ESP-NOW and the emitter: a guarded wait, then a frame.
Transmit == Arm("main", "serve", "transmit") /\ UNCHANGED <<armed, network>>

Transmitted == Resume("main", "transmit", "serve") /\ UNCHANGED <<stop, armed, network>>

\* The sniffer's timed arm runs the rate task once more after the join.
Collected ==
    /\ \A f \in {"rate", "limit"} : pc[f] = "done"
    /\ Resume("main", "collected", "trailing")
    /\ UNCHANGED <<stop, armed, network>>

\* Mutant: a time limit that ends without raising the signal.
TimeUpSilently ==
    \/ Arm("limit", "limit", "none") /\ UNCHANGED <<armed, network>>
    \/ Resume("limit", "collect", "none") /\ UNCHANGED <<stop, armed, network>>

\* csi_data_collection and stop_after_duration: the time is up.
TimeUp ==
    /\ \/ Resume("limit", "collect", "done")
       \/ ~stop /\ Resume("limit", "limit", "done")
    /\ stop' = TRUE
    /\ UNCHANGED <<armed, network>>

-----------------------------------------------------------------------------
\* What the network does.
Environment ==
    \/ Connected \/ Reconnected \/ ReconnectFails
    \/ LinkLost \/ LeaseAcquired \/ LeaseExpires
    \/ StationAssociates \/ DhcpRequest \/ ReplySent

\* What the futures do by themselves.
Station == Settle \/ ConnectFails \/ Cycle \/ CycleEnds \/ Backoff \/ Disconnected \/ Retry
DhcpClient == LinkUp \/ Publish \/ LinkDown
AccessPoint == ApStarted \/ StationConnected \/ DhcpReply

Next ==
    \/ \E c \in Configs : Start(c)
    \/ SendStop \/ EndRun \/ TimeUp \/ Collected \/ Transmit \/ Transmitted
    \/ \E f \in Futures : ObserveStop(f)
    \/ Environment \/ Station \/ DhcpClient \/ FollowLease \/ AccessPoint

\* The executor polls a future whose timer fired, whose event came or whom
\* the signal woke, and the driver ends a transmission and a disconnection.
\* Nothing obliges an association to succeed or to end, frames to come or a
\* user to run or stop the node.
Fairness ==
    /\ WF_vars(EndRun) /\ WF_vars(TimeUp) /\ WF_vars(Collected) /\ WF_vars(Transmitted)
    /\ \A f \in Futures : WF_vars(ObserveStop(f))
    /\ WF_vars(Station) /\ WF_vars(DhcpClient) /\ WF_vars(FollowLease) /\ WF_vars(AccessPoint)

Spec == Init /\ [][Next]_vars /\ Fairness

-----------------------------------------------------------------------------
(* What a run promises. *)

TypeOK ==
    /\ config \in ConfigType \cup {NoConfig}
    /\ pc \in [Futures -> Points]
    /\ stop \in BOOLEAN /\ armed \in BOOLEAN /\ link \in BOOLEAN /\ pending \in BOOLEAN
    /\ {lease, info, target, published} \subseteq Gateways \cup {NoGateway}
    /\ unsent \in 0 .. ReplyRoom
    /\ pc["flood"] = "flooding" => target \in Gateways

\* Once one future has ended, the signal stays raised for the others until
\* the run is over: every waiter of STOP_SIGNAL raises it again.
StopStaysRaised == (\E f \in Futures : pc[f] = "done") => stop

\* The DHCP server waits for room that only the network task makes.
ServerBlocked == pc["server"] = "reply" /\ unsent = ReplyRoom

\* A stop request ends the run, wherever its futures are (send_stop, and the
\* comment of run_dhcp_client on what an unguarded wait would do), unless the
\* DHCP server is blocked.
StopEndsRun == Running /\ stop ~> ~Running \/ ServerBlocked

\* run_duration ends by itself, with the same exception.
TimedRunEnds == Running /\ config.timed ~> ~Running \/ ServerBlocked

\* A receiver's capture is armed whenever its task watches a live association,
\* whatever failed connections or associations did to the radio before.
ArmedWhenAssociated ==
    Running /\ Captures =>
        /\ config.role = "station" /\ link /\ pc["connection"] = "watch" => armed
        /\ config.role = "ap" /\ ~pending /\ pc["monitor"] = "watch" => armed
        /\ config.role \notin {"station", "ap"} => armed

\* The station's flood settles on the gateway published last, across
\* reconnections: the comment "On reconnect this updates consumers".
FloodFollowsPublishedLease ==
    \A g \in Gateways :
        <>[](pc["flood"] \in {"lease", "flooding"} /\ ~stop /\ published = g) => <>[](target = g)

\* The docs of run_ap: the access point runs until a stop signal.
StopEndsApRun == Running /\ stop ~> ~Running
=============================================================================
