----------------------------- MODULE NodeBringUp -----------------------------
(* Bringing the radio up for a run: CsiNode::run_inner (src/src/lib/node.rs) *)
(* with the standard profile (profile.rs), the radio helpers (radio.rs), the *)
(* protocol ladder and the emitter's own bring-up (emitter/).                *)
(*                                                                           *)
(* The controller outlives a run, so every run starts from what earlier ones *)
(* left in it.  A step is the code between two awaits (the C5's settles and  *)
(* the awaits of the role's task).  The driver is outside src/; it is        *)
(* modelled by what the comments of src/ say of it: set_config embeds its    *)
(* own protocol set, and a change of Wi-Fi mode restarts the radio, which    *)
(* drops the CSI callback, the forced rate and the channel pair.  A call     *)
(* with the current mode may restart it too.                                 *)
EXTENDS Integers, Sequences, FiniteSets

CONSTANTS
  Channels5,  \* the 5 GHz primary channels in use; 1 stands for 2.4 GHz
  MaxRuns     \* bound on consecutive runs

ASSUME MaxRunsAssumption == MaxRuns \in Nat

VARIABLES
  part,      \* the chip: "classic", "c6" or "c5"
  node,      \* Mode: kind, the PHY its config asks for, channel, `second` end
  protocol,  \* CsiNode::protocol
  asked,     \* history: the argument of the last set_protocol
  rxOn,      \* IOTaskConfig::rx_enabled
  bringup,   \* RadioProfile::wants_bringup for this run
  radio,     \* the controller
  step,      \* position in run_inner
  runs       \* runs started (bounded by MaxRuns)

bringVars == <<part, node, protocol, asked, rxOn, bringup, radio, step, runs>>
nodeVars == <<part, node, asked, rxOn>>

Parts == {"classic", "c6", "c5"}
HeParts == {"c6", "c5"}
EspNowKinds == {"EspNow", "EspNowSimplex"}
RunSteps == {"idle", "dispatch", "park", "protocols", "interface", "arm", "task", "running",
             "panicked"}

(* What the mode configs admit.  `second` is the simplex peer, an emitter on *)
(* the access point's interface, or a station without a channel hint.  A     *)
(* sniffer has no 40 MHz config, a station's width is negotiated; only HE    *)
(* parts have an HE20 config.                                                *)
Nodes ==
  {n \in [kind : EspNowKinds \cup {"Sniffer", "Station", "AccessPoint", "Emitter"},
          phy : {"Ht20", "Ht40", "He20"},
          channel : {1} \cup (IF part = "c5" THEN Channels5 ELSE {}),
          second : BOOLEAN] :
     /\ n.phy = "He20" => part \in HeParts /\ n.kind \in EspNowKinds \cup {"Emitter"}
     /\ n.kind \in {"Sniffer", "Station"} => n.phy = "Ht20"
     /\ n.kind \in {"EspNow", "Sniffer", "AccessPoint"} => ~n.second
     /\ n.kind = "EspNowSimplex" /\ n.second => n.phy = "Ht20"}

BandOf(channel) == IF channel \in Channels5 THEN "5" ELSE "2.4"
Admits(band, channel) == band \in {"auto", BandOf(channel)}
Secondary(n) == IF n.phy = "Ht40" THEN "pair" ELSE "none"

(******************************* the driver ********************************)
DefaultProtocols == {"B", "G", "N"}

Boot ==
  [wifi |-> "off", protocols |-> DefaultProtocols, band |-> "auto", channel |-> <<>>,
   armed |-> FALSE, forced |-> "none", promiscuous |-> FALSE, linked |-> FALSE,
   dispatcher |-> "stock"]

(* WifiController::set_config; an access point's config carries its channel. *)
SetConfig(r, wifi, pair) ==
  LET kept == [r EXCEPT !.wifi = wifi, !.protocols = DefaultProtocols,
                        !.channel = IF wifi = "ap" THEN pair ELSE @]
      restarted == [kept EXCEPT !.armed = FALSE, !.forced = "none",
                                !.channel = IF wifi = "ap" THEN pair ELSE <<>>]
  IN IF wifi # r.wifi THEN {restarted} ELSE {kept, restarted}

(* set_band_mode exists on the dual-band part only, and fails, with a log    *)
(* line, while the controller is not configured and started.                 *)
SetBand(r, band) ==
  IF part = "c5" /\ r.wifi # "off" THEN [r EXCEPT !.band = band] ELSE r
ApplyBand(r, channel) == SetBand(r, BandOf(channel))

(* set_channel is refused in AP mode and while associated; what it does off  *)
(* the selected band is not said.  EspNow::set_channel takes the primary     *)
(* alone, which resets a secondary.                                          *)
CanTune(r, channel) ==
  IF r.wifi = "ap" \/ r.linked THEN {FALSE}
  ELSE IF Admits(r.band, channel) THEN {TRUE} ELSE BOOLEAN

Tune(r, done, channel, secondary) ==
  IF done THEN [r EXCEPT !.channel = <<channel, secondary>>] ELSE r

(* apply_ht40_channel: band, channel pair and interface width; a refusal is  *)
(* logged.                                                                   *)
ApplyHt40(r, channel) ==
  {Tune(ApplyBand(r, channel), done, channel, "pair") :
     done \in CanTune(ApplyBand(r, channel), channel)}

(************************* protocols and profile ***************************)
(* protocol_ladder_2_4.                                                      *)
Ladder(p) ==
  CASE p = "B" -> {"B"}
    [] p = "G" -> {"B", "G"}
    [] p = "N" -> {"B", "G", "N"}
    [] p = "LR" -> {"LR"}
    [] p = "AX" -> {"B", "G", "N", "AX"}

(* HE20 in an ESP-NOW config implies AX when no protocol was asked for.      *)
Implied ==
  IF /\ protocol = <<>>
     /\ part \in HeParts
     /\ node.kind \in EspNowKinds
     /\ node.phy = "He20"
  THEN <<"AX">> ELSE protocol

(* StandardProfile::wants_bringup.                                           *)
WantsBringup(p) ==
  /\ part \in HeParts
  /\ p = <<"AX">>
  /\ \/ node.kind = "AccessPoint" /\ node.phy # "Ht40"
     \/ node.kind \in {"Station", "Sniffer"}

(* StandardProfile::tune_protocols (2.4 GHz sets).                           *)
Tuned(p) ==
  IF part \in HeParts /\ p = "AX" /\ node.kind \in {"Station", "AccessPoint"}
  THEN {"N", "AX"} ELSE Ladder(p)

(* StandardProfile::apply_protocols_post and apply_sniffer_radio.            *)
PostProtocols == {"B", "G", "N", "AX"}
Post(r) == IF bringup THEN [r EXCEPT !.protocols = PostProtocols] ELSE r

(* before_sta_config / before_ap_config force HE20 on the interface.         *)
ForceRate(r, phy) == [r EXCEPT !.forced = phy]
Before(r) == IF bringup THEN ForceRate(r, "He20") ELSE r

(* phy::tx_protocols.                                                        *)
EmitterProtocols(phy) == DefaultProtocols \cup (IF phy = "He20" THEN {"AX"} ELSE {})

------------------------------------------------------------------------------
BringInit ==
  /\ part \in Parts
  /\ node \in Nodes
  /\ protocol = <<>>
  /\ asked = <<>>
  /\ rxOn = TRUE
  /\ bringup = FALSE
  /\ radio = Boot
  /\ step = "idle"
  /\ runs = 0

(* set_mode, set_protocol and set_rx_enabled, between runs.                  *)
ChooseMode(n) ==
  /\ step = "idle" /\ runs < MaxRuns
  /\ node' = n
  /\ UNCHANGED <<part, protocol, asked, rxOn, bringup, radio, step, runs>>

ChooseProtocol(p) ==
  /\ step = "idle" /\ runs < MaxRuns
  /\ protocol' = <<p>>
  /\ asked' = <<p>>
  /\ UNCHANGED <<part, node, rxOn, bringup, radio, step, runs>>

ChooseRx(on) ==
  /\ step = "idle" /\ runs < MaxRuns
  /\ rxOn' = on
  /\ UNCHANGED <<part, node, protocol, asked, bringup, radio, step, runs>>

BeginBringUp ==
  /\ step = "idle" /\ runs < MaxRuns
  /\ runs' = runs + 1
  /\ step' = "dispatch"
  /\ UNCHANGED <<nodeVars, protocol, bringup, radio>>

(* esp_now_pool::install for the ESP-NOW modes, suppress_espnow_rx for the   *)
(* others.                                                                   *)
TreatDispatcher ==
  /\ step = "dispatch"
  /\ IF node.kind \in EspNowKinds
     THEN radio' = [radio EXCEPT !.dispatcher = "pool"] /\ step' = "park"
     ELSE radio' = [radio EXCEPT !.dispatcher = "none"] /\ step' = "protocols"
  /\ UNCHANGED <<nodeVars, protocol, bringup, runs>>

(* Mutant: parking disconnects and leaves the Wi-Fi mode.                    *)
ParkStationKeepsMode ==
  /\ step = "park"
  /\ radio' = [radio EXCEPT !.linked = FALSE]
  /\ step' = "protocols"
  /\ UNCHANGED <<nodeVars, protocol, bringup, runs>>

(* idle_station_for_espnow: disconnect, and leave AP mode.                   *)
ParkStation ==
  /\ step = "park"
  /\ LET quiet == [radio EXCEPT !.linked = FALSE]
     IN radio' \in IF radio.wifi = "sta" THEN {quiet} ELSE SetConfig(quiet, "sta", <<>>)
  /\ step' = "protocols"
  /\ UNCHANGED <<nodeVars, protocol, bringup, runs>>

(* The protocol set, implied or asked for, tuned by the profile; an emitter  *)
(* pins its own.                                                             *)
ApplyProtocols ==
  /\ step = "protocols"
  /\ protocol' = Implied
  /\ bringup' = WantsBringup(Implied)
  /\ radio' = IF Implied # <<>> /\ node.kind # "Emitter"
              THEN [radio EXCEPT !.protocols = Tuned(Implied[1])] ELSE radio
  /\ step' = "interface"
  /\ UNCHANGED <<nodeVars, runs>>

(* sta_init and the station's band, ap_init after the access point's band or *)
(* channel pair; the other modes have no interface of their own.             *)
StartInterface ==
  /\ step = "interface"
  /\ CASE node.kind = "Station" ->
            \E r \in SetConfig(Before(radio), "sta", <<>>) :
              radio' = Post(IF node.second THEN SetBand(r, "auto")
                            ELSE ApplyBand(r, node.channel))
       [] node.kind = "AccessPoint" ->
            \E tuned \in IF node.phy = "Ht40" THEN ApplyHt40(radio, node.channel)
                          ELSE {ApplyBand(radio, node.channel)} :
              \E r \in SetConfig(Before(tuned), "ap", <<node.channel, Secondary(node)>>) :
                radio' = Post(r)
       [] OTHER -> radio' = radio
  /\ step' = "arm"
  /\ UNCHANGED <<nodeVars, protocol, bringup, runs>>

(* set_csi, but for the sniffer and the access point, which arm later.       *)
ArmCsi ==
  /\ step = "arm"
  /\ radio' = IF rxOn /\ node.kind \notin {"Emitter", "Sniffer", "AccessPoint"}
              THEN [radio EXCEPT !.armed = TRUE] ELSE radio
  /\ step' = "task"
  /\ UNCHANGED <<nodeVars, protocol, bringup, runs>>

(* emitter::bringup after its set_config: a refused channel is logged.       *)
EmitterRadios(started) ==
  LET r == [ApplyBand(started, node.channel) EXCEPT !.protocols = EmitterProtocols(node.phy)]
  IN {ForceRate(Tune(r, done, node.channel, Secondary(node)), node.phy) :
        done \in CanTune(r, node.channel)}

(* espnow::bringup, the transport of the classic parts.                      *)
EmitterOverEspNow(r) ==
  UNION {{Tune(q, done, node.channel, "none") : done \in CanTune(q, node.channel)} :
           q \in SetConfig(r, "sta", <<>>)}

StartEmitter ==
  /\ step = "task" /\ node.kind = "Emitter"
  /\ \E r \in SetConfig(ForceRate(radio, node.phy), IF node.second THEN "ap" ELSE "sta",
                        <<1, "none">>) :
       \E q \in EmitterRadios(r) :
         \E t \in IF part = "classic" THEN EmitterOverEspNow(q) ELSE {q} :
           radio' = [t EXCEPT !.promiscuous = TRUE]
  /\ step' = "running"
  /\ UNCHANGED <<nodeVars, protocol, bringup, runs>>

(* The sniffer arm: band, promiscuous mode, channel, profile, set_csi.  The  *)
(* channel is unwrapped.                                                     *)
StartSniffer ==
  /\ step = "task" /\ node.kind = "Sniffer"
  /\ LET open == [ApplyBand(radio, node.channel) EXCEPT !.promiscuous = TRUE]
     IN \E done \in CanTune(open, node.channel) :
          IF done
          THEN /\ radio' = [Post(Tune(open, done, node.channel, "none"))
                              EXCEPT !.armed = @ \/ rxOn]
               /\ step' = "running"
          ELSE radio' = open /\ step' = "panicked"
  /\ UNCHANGED <<nodeVars, protocol, bringup, runs>>

(* run_ap arms after its settle; run_sta_connect re-arms on association.     *)
StartWifi ==
  /\ step = "task" /\ node.kind \in {"AccessPoint", "Station"}
  /\ radio' = [radio EXCEPT !.armed = @ \/ rxOn, !.linked = (node.kind = "Station")]
  /\ step' = "running"
  /\ UNCHANGED <<nodeVars, protocol, bringup, runs>>

(* The head of the four ESP-NOW drivers: set_channel, unwrapped, but for     *)
(* HT40.                                                                     *)
StartEspNow ==
  /\ step = "task" /\ node.kind \in EspNowKinds
  /\ IF node.phy = "Ht40"
     THEN radio' = radio /\ step' = "running"
     ELSE \E done \in CanTune(radio, node.channel) :
            /\ radio' = Tune(radio, done, node.channel, "none")
            /\ step' = IF done THEN "running" ELSE "panicked"
  /\ UNCHANGED <<nodeVars, protocol, bringup, runs>>

(* The tail of run_inner: promiscuous mode is cleared by the three Wi-Fi     *)
(* arms only.  A station stays associated if the access point keeps it.      *)
EndBringUp ==
  /\ step = "running"
  /\ radio' = [radio EXCEPT !.promiscuous =
                 @ /\ node.kind \notin {"Sniffer", "AccessPoint", "Station"}]
  /\ step' = "idle"
  /\ UNCHANGED <<nodeVars, protocol, bringup, runs>>

(* A panic reboots the device; the application builds its node again.        *)
Reboot ==
  /\ step = "panicked"
  /\ radio' = Boot
  /\ protocol' = <<>>
  /\ asked' = <<>>
  /\ bringup' = FALSE
  /\ step' = "idle"
  /\ UNCHANGED <<part, node, rxOn, runs>>

BringNext ==
  \/ \E n \in Nodes : ChooseMode(n)
  \/ \E p \in {"N", "LR", "AX"} : ChooseProtocol(p)
  \/ \E on \in BOOLEAN : ChooseRx(on)
  \/ BeginBringUp \/ TreatDispatcher \/ ParkStation \/ ApplyProtocols
  \/ StartInterface \/ ArmCsi
  \/ StartEmitter \/ StartSniffer \/ StartWifi \/ StartEspNow
  \/ EndBringUp \/ Reboot

BringSpec == BringInit /\ [][BringNext]_bringVars
------------------------------------------------------------------------------
(* Type invariant.                                                           *)
BringTypeOK ==
  /\ part \in Parts
  /\ node \in Nodes
  /\ step \in RunSteps
  /\ runs \in 0..MaxRuns
  /\ radio.band \in {"auto", "2.4", "5"}
  /\ radio.dispatcher \in {"stock", "pool", "none"}

Up(kinds) == step = "running" /\ node.kind \in kinds

(* Whatever the earlier runs left in the controller, a run that listens has  *)
(* its CSI callback registered after the last restart of the radio; an       *)
(* ESP-NOW run hears its frames through the static pool, in station mode     *)
(* and unassociated, and advertises AX when its config implies it; a run     *)
(* that asked for AX advertises it, although set_config overwrites the set;  *)
(* an emitter advertises and forces exactly its own PHY.  A run panics on    *)
(* set_channel in two cases only: an ESP-NOW run when an earlier run left    *)
(* the other band selected, a sniffer run when the controller is still an    *)
(* access point or an associated station.                                    *)
RunsAreBroughtUp ==
  /\ Up(EspNowKinds \cup {"Sniffer", "Station", "AccessPoint"}) /\ rxOn => radio.armed
  /\ Up(EspNowKinds) =>
       /\ radio.dispatcher = "pool" /\ radio.wifi = "sta" /\ ~radio.linked
       /\ node.phy = "He20" /\ asked \in {<<>>, <<"AX">>} => "AX" \in radio.protocols
  /\ step = "running" /\ node.kind \notin EspNowKinds => radio.dispatcher = "none"
  /\ Up({"Station", "Sniffer"}) /\ part \in HeParts /\ asked = <<"AX">> =>
       "AX" \in radio.protocols
  /\ Up({"Station", "Sniffer", "AccessPoint"}) /\ ~node.second =>
       Admits(radio.band, node.channel)
  /\ Up({"Emitter"}) /\ part # "classic" =>
       /\ radio.protocols = EmitterProtocols(node.phy)
       /\ radio.forced = node.phy
  /\ step = "panicked" /\ node.kind \in EspNowKinds => ~Admits(radio.band, node.channel)
  /\ step = "panicked" /\ node.kind = "Sniffer" => radio.wifi = "ap" \/ radio.linked

(* A node that fixes its channel runs on it, with the secondary channel its  *)
(* config asks for (initiator/esp_now.rs:198: "In HT40 mode the channel      *)
(* (+secondary) was already set on the controller before this task ran").    *)
(* The code sets the pair for an access point only: an ESP-NOW node with     *)
(* HT40 stays on whatever channel the controller is on.                      *)
RunsOnItsChannel ==
  Up(EspNowKinds) => radio.channel = <<node.channel, Secondary(node)>>
==============================================================================
