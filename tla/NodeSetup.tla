------------------------------ MODULE NodeSetup ------------------------------
(* Taking on a measurement setup (src/src/lib/node.rs, wire/setup.rs,        *)
(* measurement.rs, model.rs) and what the radio then captures: the           *)
(* attribution filters of csi/delivery.rs and the acquisition config of      *)
(* config/csi.rs, packed for the chip by set_csi.                            *)
(*                                                                           *)
(* One node is configured by any sequence of calls, run, stopped and         *)
(* configured again.  The filters are process-wide statics: no run and no    *)
(* node resets them.  A call is one step, since all of them take the node    *)
(* by &mut and none awaits.                                                  *)
EXTENDS Integers, Sequences, FiniteSets

CONSTANTS
  Sources,  \* MAC addresses the setups name or frames come from
  AnySource,      \* the all-zero address, "accept any source"
  WireSetups,     \* the setups a controller may send
  MaxCalls        \* bound on configuration calls

PpduFormats == {"Dsss", "NonHt", "Ht", "Vht", "He", "Eht"}

(* An Option: empty or one value.                                            *)
Option(S) == {o \in Seq(S) : Len(o) <= 1}

(* wire::MeasurementSetup, as far as a node acts on it.                      *)
Stimuli ==
  [period : Nat, width : Nat, raw : BOOLEAN, responders : SUBSET Sources]

Setups ==
  [id : Nat, channel : Option(Nat), width : Option(Nat), formats : SUBSET PpduFormats,
   transmitter : Option(Sources), stimulus : Option(Stimuli)]

ASSUME AnySourceAssumption == AnySource \notin Sources
ASSUME WireSetupsAssumption == WireSetups \subseteq Setups
ASSUME MaxCallsAssumption == MaxCalls \in Nat

VARIABLES
  chip,        \* "classic", "c5" or "c6": the build
  mode,        \* Mode: kind, its fixed width, its channels, an emitter's period
  ownSetup,    \* the node-level MeasurementSetup: id, hz, width, acquisition
  peerFilter,  \* CSI_PEER_FILTER
  minSigMode,  \* CSI_MIN_SIG_MODE
  filterOn,    \* CSI_FILTER_ACTIVE
  running,     \* inside run_inner
  slots,       \* acquisition flags as the radio holds them, set by set_csi
  calls,       \* configuration calls so far (bounded by MaxCalls)
  accepted,    \* history: the last setup taken on, if nothing else was called since
  narrowed     \* history: an earlier call restricted what is captured

setupVars == <<chip, mode, ownSetup, peerFilter, minSigMode, filterOn,
               running, slots, calls, accepted, narrowed>>
filterVars == <<peerFilter, minSigMode, filterOn>>

HeChips == {"c5", "c6"}
Kinds == {"EspNow", "EspNowSimplex", "Sniffer", "Station", "AccessPoint", "Emitter"}
LegacyFormats == {"Dsss", "NonHt"}
Second == 1000000   \* microseconds
MaxHz == 65535      \* u16::MAX

(*************************** acquisition flags *****************************)
(* CsiConfig::default of each chip; a flag is in the set when it is on.      *)
DefaultAcquisition ==
  CASE chip = "classic" -> {"lltf", "htltf", "stbc", "merge"}
    [] chip = "c6" -> {"legacy", "ht20", "ht40", "su", "mu", "dcm", "bf",
                       "heStbc", "scale", "ack"}
    [] chip = "c5" -> {"legacy", "forceLltf", "ht20", "ht40", "vht", "su", "mu",
                       "dcm", "bf", "heStbc", "scale", "ack"}

(* CsiConfig::he20.                                                          *)
He20Acquisition ==
  DefaultAcquisition \ {"legacy", "ht20", "ht40", "ack", "forceLltf", "vht"}

(* emitter::phy::ht_csi_acquisition, the receiver's counterpart of an HT     *)
(* emitter; on the classic parts lltf has to stay on.                        *)
HtAcquisition(forty) ==
  IF chip = "classic" THEN {"lltf", "htltf", "stbc"}
  ELSE (DefaultAcquisition \cap {"heStbc", "scale"})
         \cup {"ht20"} \cup (IF forty THEN {"ht40"} ELSE {})

Acquisition(setup) ==
  IF setup.acquisition = <<>> THEN DefaultAcquisition ELSE setup.acquisition[1]

(* Where esp-radio's C5 conversion puts each field: every slot after         *)
(* `legacy` takes the field named here (the driver is outside src/).         *)
EspRadioPacking ==
  [legacy |-> "legacy", forceLltf |-> "ht20", ht20 |-> "ht40", ht40 |-> "su",
   vht |-> "mu", su |-> "dcm", mu |-> "bf", dcm |-> "heStbc", bf |-> "scale",
   heStbc |-> "ack", scale |-> "reserved"]

(* c5_bitfield_workaround: each field is pre-placed where esp-radio will     *)
(* move it to the slot it belongs in.                                        *)
Workaround ==
  [legacy |-> "legacy", ht20 |-> "forceLltf", ht40 |-> "ht20", su |-> "ht40",
   mu |-> "vht", dcm |-> "su", bf |-> "mu", heStbc |-> "dcm", scale |-> "bf",
   ack |-> "heStbc", reserved |-> "scale"]

Moved(flags, table) == {f \in DOMAIN table : table[f] \in flags}

(* set_csi: what the radio is told, slot by slot.                            *)
SetCsi(flags) ==
  IF chip = "c5" THEN Moved(Moved(flags, Workaround), EspRadioPacking) ELSE flags

(************************ attribution and capture **************************)
(* The sig_mode field of a classic radio.                                    *)
SigMode(f) == CASE f \in LegacyFormats -> 0 [] f = "Ht" -> 1 [] OTHER -> 3

(* Frames the chip's PHY decodes at all.                                     *)
Decodable ==
  CASE chip = "classic" -> {"NonHt", "Ht"}
    [] chip = "c6" -> {"NonHt", "Ht", "He"}
    [] chip = "c5" -> {"NonHt", "Ht", "Vht", "He"}

(* csi_passes_filter.                                                        *)
PassesFilter(mac, f) ==
  \/ ~filterOn
  \/ /\ peerFilter \in {AnySource, mac}
     /\ \/ chip # "classic"
        \/ minSigMode = 0
        \/ SigMode(f) >= minSigMode

(* The flags that turn the full estimate of a format on.                     *)
FullFlags(f) ==
  CASE f = "Ht" -> {"ht20", "ht40"}
    [] f = "Vht" -> {"vht"}
    [] f = "He" -> {"su", "mu"}
    [] OTHER -> {}

(* The estimate a decoded frame yields under the slots, if any.  Forcing     *)
(* L-LTF pins every frame to the legacy estimate.                            *)
Estimate(f) ==
  IF f \notin Decodable THEN "none"
  ELSE IF chip = "classic" THEN IF f \in LegacyFormats THEN "lltf" ELSE "full"
  ELSE IF "forceLltf" \in slots THEN "lltf"
  ELSE IF f \in LegacyFormats THEN IF "legacy" \in slots THEN "lltf" ELSE "none"
  ELSE IF FullFlags(f) \cap slots # {} THEN "full" ELSE "none"

Captured(mac, f) == Estimate(f) # "none" /\ PassesFilter(mac, f)

(* An emitter is never armed and the simplex source's run delivers nothing.  *)
Listening ==
  running /\ mode.kind # "Emitter" /\ ~(mode.kind = "EspNowSimplex" /\ mode.initiator)

(****************************** the node ***********************************)
(* The modes the constructors build: which end or role they take and        *)
(* whether their own config fixes 40 MHz.                                    *)
Modes ==
  {m \in [kind : Kinds, initiator : BOOLEAN, forty : BOOLEAN, channel : {1},
          beacon : {1}, period : {20000}] :
     /\ m.kind = "Sniffer" => ~m.initiator /\ ~m.forty
     /\ m.kind \in {"AccessPoint", "Emitter"} => m.initiator
     /\ m.kind = "Station" => ~m.forty
     /\ m.kind = "EspNowSimplex" /\ ~m.initiator => ~m.forty}

(* Whether this mode sounds the channel.                                     *)
Sounds == mode.initiator

(* configured_bandwidth: the width, where the mode's own config fixes one.   *)
ConfiguredWidth ==
  IF mode.kind \in {"Station", "Sniffer"} THEN <<>>
  ELSE <<IF mode.forty THEN 40 ELSE 20>>

(* PpduSet: the empty set is "every format".                                 *)
IsAny(formats) == formats = {}
OnlyHe(formats) == formats # {} /\ formats \subseteq {"He"}
ExcludesLegacy(formats) == formats # {} /\ formats \cap LegacyFormats = {}

(* StimulusParams::rate_hz.                                                  *)
RateHz(period) ==
  IF period = 0 THEN MaxHz
  ELSE LET hz == Second \div period
       IN IF hz > MaxHz THEN MaxHz ELSE IF hz = 0 THEN 1 ELSE hz

(* MeasurementSetup::from: the wire form of the node's own setup.            *)
WireForm ==
  [id |-> ownSetup.id, channel |-> <<>>, width |-> ownSetup.width, formats |-> {},
   transmitter |-> <<>>,
   stimulus |->
     IF ownSetup.hz = <<>> THEN <<>>
     ELSE <<[period |-> Second \div (IF ownSetup.hz[1] = 0 THEN 1 ELSE ownSetup.hz[1]),
             width |-> IF ownSetup.width = <<>> THEN 20 ELSE ownSetup.width[1],
             raw |-> TRUE, responders |-> {}]>>]

(* Parameters a filter is taken from: the transmitter, or the one responder. *)
FilterOf(s) ==
  IF s.stimulus # <<>> /\ s.stimulus[1].responders # {}
  THEN <<CHOOSE r \in s.stimulus[1].responders : TRUE>>
  ELSE s.transmitter

(* The validation half of apply_measurement_setup, in the code's terms.      *)
(* "raw" stands for a raw report with ng/nb 1/8 and non-TB sounding.         *)
Refused(s) ==
  \/ s.width # <<>> /\ ConfiguredWidth \notin {<<>>, s.width}
  \/ OnlyHe(s.formats) /\ chip \notin HeChips
  \/ ~IsAny(s.formats) /\ ~OnlyHe(s.formats) /\ ~ExcludesLegacy(s.formats)
  \/ /\ s.stimulus # <<>>
     /\ LET st == s.stimulus[1]
        IN \/ ~Sounds
           \/ ~st.raw
           \/ ConfiguredWidth \notin {<<>>, <<st.width>>}
           \/ Cardinality(st.responders) > 1
           \/ s.transmitter # <<>> /\ FilterOf(s) # s.transmitter

(* Mutant: a filter on the format alone is not switched on.                  *)
RefreshPeerOnly(peer, min) == filterOn' = (peer # AnySource)

(* refresh_filter_active over the values just stored.                        *)
Refresh(peer, min) == filterOn' = (peer # AnySource \/ min # 0)

StoreFilters(peer, min) ==
  /\ peerFilter' = peer
  /\ minSigMode' = min
  /\ Refresh(peer, min)

(* set_mode_channel: an access point keeps its channel twice, in its own     *)
(* config and in the driver's (`beacon`).                                    *)
SetModeChannel(m, channel) ==
  IF channel = <<>> THEN m
  ELSE [m EXCEPT !.channel = channel[1],
                 !.beacon = IF m.kind = "AccessPoint" THEN channel[1] ELSE @]

(* Mutant: excluding the legacy formats leaves L-LTF forced on the C5.        *)
AppliedAcquisitionKeepsForcing(s) ==
  IF chip \notin HeChips THEN ownSetup.acquisition
  ELSE IF OnlyHe(s.formats) THEN <<He20Acquisition>>
  ELSE IF ExcludesLegacy(s.formats)
       THEN <<Acquisition(ownSetup) \ {"legacy"}>>
       ELSE ownSetup.acquisition

(* The acquisition an accepted setup leaves.                                 *)
AppliedAcquisition(s) ==
  IF chip \notin HeChips THEN ownSetup.acquisition
  ELSE IF OnlyHe(s.formats) THEN <<He20Acquisition>>
  ELSE IF ExcludesLegacy(s.formats)
       THEN <<Acquisition(ownSetup) \ {"legacy", "forceLltf"}>>
       ELSE ownSetup.acquisition

(* The emitter's period goes through the rate in whole Hz.                   *)
AppliedMode(s) ==
  LET m == SetModeChannel(mode, s.channel)
  IN IF s.stimulus # <<>> /\ mode.kind = "Emitter"
     THEN [m EXCEPT !.period = Second \div RateHz(s.stimulus[1].period)]
     ELSE m

AppliedOwnSetup(s) ==
  [ownSetup EXCEPT
     !.id = s.id,
     !.acquisition = AppliedAcquisition(s),
     !.hz = IF s.stimulus # <<>> /\ mode.kind # "Emitter"
            THEN <<RateHz(s.stimulus[1].period)>> ELSE @]

MinSigMode(s) ==
  IF chip = "classic" /\ ExcludesLegacy(s.formats) THEN 1 ELSE minSigMode

Narrowing(s) == FilterOf(s) # <<>> \/ ~IsAny(s.formats)

------------------------------------------------------------------------------
SetupInit ==
  /\ chip \in {"classic", "c5", "c6"}
  /\ mode \in Modes
  /\ \E width \in {<<>>, <<40>>} :
       ownSetup = [id |-> 0, hz |-> <<>>, width |-> width, acquisition |-> <<>>]
  /\ peerFilter = AnySource
  /\ minSigMode = 0
  /\ filterOn = FALSE
  /\ running = FALSE
  /\ slots = {}
  /\ calls = 0
  /\ accepted = <<>>
  /\ narrowed = FALSE

(* A configuration call: between runs, except for the two filter setters.    *)
Call == calls < MaxCalls /\ calls' = calls + 1

(* apply_measurement_setup: nothing is changed on a refusal.                 *)
ApplyMeasurementSetup(s) ==
  /\ ~running
  /\ Call
  /\ IF Refused(s)
     THEN UNCHANGED <<mode, ownSetup, filterVars, accepted, narrowed>>
     ELSE /\ mode' = AppliedMode(s)
          /\ StoreFilters(IF FilterOf(s) = <<>> THEN peerFilter ELSE FilterOf(s)[1],
                          MinSigMode(s))
          /\ ownSetup' = AppliedOwnSetup(s)
          /\ accepted' = <<s>>
          /\ narrowed' = (narrowed \/ (accepted # <<>> /\ Narrowing(accepted[1])))
  /\ UNCHANGED <<chip, running, slots>>

(* The setters of the node: each replaces what an accepted setup asked for.  *)
Reconfigure ==
  /\ ~running
  /\ Call
  /\ accepted' = <<>>
  /\ narrowed' = (narrowed \/ (accepted # <<>> /\ Narrowing(accepted[1])))
  /\ UNCHANGED <<chip, filterVars, running, slots>>

(* set_mode, and set_station_config on a station.                            *)
SetMode(m) == Reconfigure /\ mode' = m /\ UNCHANGED ownSetup

(* set_measurement_setup, set_periodicity_hz and set_csi_config.             *)
SetPeriodicity(hz) ==
  /\ Reconfigure
  /\ ownSetup' = [ownSetup EXCEPT !.hz = <<hz>>]
  /\ UNCHANGED mode

SetCsiConfig(flags) ==
  /\ ~running
  /\ Call
  /\ ownSetup' = [ownSetup EXCEPT !.acquisition = <<flags>>]
  /\ accepted' = <<>>
  /\ narrowed' = TRUE
  /\ UNCHANGED <<chip, mode, filterVars, running, slots>>

(* set_csi_peer_filter and set_csi_min_sig_mode: free functions, so they    *)
(* may also be called during a run.                                          *)
SetPeerFilter(mac) ==
  /\ Call
  /\ StoreFilters(mac, minSigMode)
  /\ accepted' = <<>>
  /\ narrowed' = TRUE
  /\ UNCHANGED <<chip, mode, ownSetup, running, slots>>

SetMinSigMode(min) ==
  /\ Call
  /\ StoreFilters(peerFilter, min)
  /\ accepted' = <<>>
  /\ narrowed' = TRUE
  /\ UNCHANGED <<chip, mode, ownSetup, running, slots>>

(* run_inner: the acquisition is built from the setup and registered; an     *)
(* emitter's run registers nothing.                                          *)
StartNode ==
  /\ ~running
  /\ running' = TRUE
  /\ slots' = IF mode.kind = "Emitter" THEN slots ELSE SetCsi(Acquisition(ownSetup))
  /\ UNCHANGED <<chip, mode, ownSetup, filterVars, calls, accepted, narrowed>>

(* The end of a run leaves the filters and the radio's slots as they are.    *)
EndNode ==
  /\ running
  /\ running' = FALSE
  /\ UNCHANGED <<chip, mode, ownSetup, filterVars, slots, calls, accepted, narrowed>>

SetupNext ==
  \/ \E s \in WireSetups : ApplyMeasurementSetup(s)
  \/ ApplyMeasurementSetup(WireForm)
  \/ \E m \in Modes : SetMode(m)
  \/ \E hz \in {0, 100, 1500} : SetPeriodicity(hz)
  \/ \E forty \in BOOLEAN : SetCsiConfig(HtAcquisition(forty))
  \/ \E mac \in Sources \cup {AnySource} : SetPeerFilter(mac)
  \/ \E min \in {0, 1} : SetMinSigMode(min)
  \/ StartNode
  \/ EndNode

SetupSpec == SetupInit /\ [][SetupNext]_setupVars
------------------------------------------------------------------------------
(* Type invariant; CSI_FILTER_ACTIVE is the disjunction of the two filters.  *)
SetupTypeOK ==
  /\ chip \in {"classic"} \cup HeChips
  /\ mode.kind \in Kinds
  /\ peerFilter \in Sources \cup {AnySource}
  /\ minSigMode \in {0, 1}
  /\ filterOn = (peerFilter # AnySource \/ minSigMode # 0)
  /\ running \in BOOLEAN /\ narrowed \in BOOLEAN
  /\ calls \in 0..MaxCalls
  /\ Len(accepted) <= 1

(* Frames the setup asks for.                                                *)
Wanted(s, mac, f) ==
  /\ FilterOf(s) \in {<<>>, <<mac>>}
  /\ IsAny(s.formats) \/ f \in s.formats

(* The formats a node takes on without selecting them: legacy is left out,   *)
(* and what else is captured does not depend on the set.  The docs have them *)
(* selected, or refused (wire/setup.rs:10, :71; node.rs:700, :708).          *)
TakenInPart(formats) == ExcludesLegacy(formats) /\ ~OnlyHe(formats)

(* A run under a setup that was taken on captures no frame of another        *)
(* transmitter, no legacy estimate when the setup excludes legacy formats,   *)
(* and no format it leaves out unless the set is one of those taken in part: *)
(* the mapping onto filters and acquisition flags reaches the right slots of *)
(* each chip's radio.                                                        *)
ExcludesTheRest(s) ==
  \A mac \in Sources, f \in PpduFormats :
    Captured(mac, f) =>
      /\ FilterOf(s) \in {<<>>, <<mac>>}
      /\ ExcludesLegacy(s.formats) => Estimate(f) = "full"
      /\ IsAny(s.formats) \/ TakenInPart(s.formats) \/ f \in s.formats

(* It captures every frame the setup asks for that the chip can decode.      *)
HearsTheWanted(s) ==
  \A mac \in Sources, f \in Decodable :
    Wanted(s, mac, f) => Captured(mac, f)

(* The channel is the asked one, wherever the mode keeps it; soundings come  *)
(* at the asked period, in whole Hz, as far as a u16 rate of at least 1 Hz   *)
(* reaches; they carry the setup's id.                                       *)
SoundsAsAsked(s) ==
  /\ s.channel # <<>> =>
       /\ mode.channel = s.channel[1]
       /\ mode.kind = "AccessPoint" => mode.beacon = s.channel[1]
  /\ ownSetup.id = s.id
  /\ s.stimulus # <<>> =>
       LET p == s.stimulus[1].period
       IN p \in 16..Second =>
            IF mode.kind = "Emitter"
            THEN mode.period >= p /\ Second \div mode.period = Second \div p
            ELSE ownSetup.hz = <<Second \div p>>

(* Taking on a measurement setup is all or nothing (node.rs, the doc of      *)
(* apply_measurement_setup: "refused - with nothing changed").  A run after  *)
(* an accepted setup sounds as asked and keeps out what the setup leaves out, *)
(* sets of formats taken in part excepted, also when later setups were       *)
(* refused; and if no earlier call narrowed what is captured, it captures    *)
(* all that the setup asks for.  An earlier call's filter or acquisition     *)
(* stays where the setup says None or nothing, which the docs have accept    *)
(* any (wire/setup.rs:71-73).                                                *)
SetupsTakeEffect ==
  accepted # <<>> =>
    /\ SoundsAsAsked(accepted[1])
    /\ Listening =>
         /\ ExcludesTheRest(accepted[1])
         /\ ~narrowed => HearsTheWanted(accepted[1])
==============================================================================
