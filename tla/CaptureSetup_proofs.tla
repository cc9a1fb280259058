------------------------- MODULE CaptureSetup_proofs -------------------------
(***************************************************************************)
(* Proofs about what a capture is set up with and put out by: the radio     *)
(* brought up for a run (NodeBringUp), the measurement setups a node takes  *)
(* on (NodeSetup), the logging back end (CsiLog) and what is stated of a    *)
(* measured buffer (WireLayout), for every set of channels, addresses,      *)
(* setups and lengths and every bound.                                      *)
(***************************************************************************)
EXTENDS MCSetup, SequenceTheorems, FiniteSetTheorems, TLAPS

(***************************************************************************)
(* NodeBringUp: the fields of a node and of the controller.                 *)
(***************************************************************************)

Wants == {<<>>, <<"N">>, <<"LR">>, <<"AX">>}

Radio ==
  [wifi : {"off", "sta", "ap"}, protocols : SUBSET {"B", "G", "N", "AX", "LR"},
   band : {"auto", "2.4", "5"}, channel : {<<>>} \cup (({1} \cup Channels5) \X {"none", "pair"}),
   armed : BOOLEAN, forced : {"none", "Ht20", "Ht40", "He20"}, promiscuous : BOOLEAN,
   linked : BOOLEAN, dispatcher : {"stock", "pool", "none"}]

BringTypes ==
  /\ part \in Parts /\ node \in Nodes /\ step \in RunSteps /\ runs \in 0 .. MaxRuns
  /\ radio \in Radio /\ protocol \in Wants /\ asked \in Wants
  /\ rxOn \in BOOLEAN /\ bringup \in BOOLEAN

\* The fields of a node.
LEMMA NodeFields ==
  ASSUME NEW n \in Nodes
  PROVE  /\ n.kind \in EspNowKinds \cup {"Sniffer", "Station", "AccessPoint", "Emitter"}
         /\ n.phy \in {"Ht20", "Ht40", "He20"}
         /\ n.channel \in {1} \cup Channels5
         /\ part # "c5" => n.channel = 1
         /\ n.second \in BOOLEAN
         /\ n.kind = "Sniffer" => ~n.second
         /\ n.phy = "He20" => part \in HeParts
  BY DEF Nodes, EspNowKinds

\* What the driver's calls do to the fields of the controller.
LEMMA SetConfigFields ==
  ASSUME NEW r \in Radio, NEW wifi \in {"sta", "ap"},
         NEW pair \in {<<>>} \cup (({1} \cup Channels5) \X {"none", "pair"}),
         NEW q \in SetConfig(r, wifi, pair)
  PROVE  /\ q \in Radio /\ q.wifi = wifi /\ q.band = r.band /\ q.linked = r.linked
         /\ q.dispatcher = r.dispatcher /\ q.protocols = DefaultProtocols
         /\ q.promiscuous = r.promiscuous
  <1> DEFINE at == IF wifi = "ap" THEN pair ELSE r.channel
             off == IF wifi = "ap" THEN pair ELSE <<>>
             kept == [r EXCEPT !.wifi = wifi, !.protocols = DefaultProtocols, !.channel = at]
             restarted == [kept EXCEPT !.armed = FALSE, !.forced = "none", !.channel = off]
  <1>1. q = kept \/ q = restarted
    BY Zenon DEF SetConfig
  <1>2. at \in {<<>>} \cup (({1} \cup Channels5) \X {"none", "pair"})
    BY DEF Radio
  <1>3. off \in {<<>>} \cup (({1} \cup Channels5) \X {"none", "pair"})
    OBVIOUS
  <1>4. DefaultProtocols \in SUBSET {"B", "G", "N", "AX", "LR"}
    BY DEF DefaultProtocols
  <1> HIDE DEF at, off
  <1>5. /\ kept \in Radio /\ kept.wifi = wifi /\ kept.band = r.band /\ kept.linked = r.linked
        /\ kept.dispatcher = r.dispatcher /\ kept.protocols = DefaultProtocols
        /\ kept.promiscuous = r.promiscuous
    BY <1>2, <1>4 DEF Radio
  <1> HIDE DEF kept
  <1>6. /\ restarted \in Radio /\ restarted.wifi = wifi /\ restarted.band = r.band
        /\ restarted.linked = r.linked /\ restarted.dispatcher = r.dispatcher
        /\ restarted.protocols = DefaultProtocols /\ restarted.promiscuous = r.promiscuous
    BY <1>3, <1>5 DEF Radio
  <1> QED BY <1>1, <1>5, <1>6

LEMMA BandFields ==
  ASSUME NEW r \in Radio, NEW channel \in {1} \cup Channels5,
         part # "c5" \/ r.wifi = "off" => r.band = "auto"
  PROVE  LET q == ApplyBand(r, channel)
         IN /\ q \in Radio /\ Admits(q.band, channel)
            /\ part # "c5" \/ q.wifi = "off" => q.band = "auto"
            /\ q.wifi = r.wifi /\ q.linked = r.linked /\ q.dispatcher = r.dispatcher
            /\ q.protocols = r.protocols /\ q.armed = r.armed /\ q.promiscuous = r.promiscuous
            /\ q.forced = r.forced
  BY DEF Radio, ApplyBand, SetBand, Admits, BandOf

LEMMA TuneFields ==
  ASSUME NEW r \in Radio, NEW done, NEW channel \in {1} \cup Channels5,
         NEW secondary \in {"none", "pair"}
  PROVE  LET q == Tune(r, done, channel, secondary)
         IN /\ q \in Radio /\ q.band = r.band /\ q.wifi = r.wifi /\ q.linked = r.linked
            /\ q.dispatcher = r.dispatcher /\ q.protocols = r.protocols /\ q.armed = r.armed
            /\ q.promiscuous = r.promiscuous /\ q.forced = r.forced
  <1>1. <<channel, secondary>> \in ({1} \cup Channels5) \X {"none", "pair"}
    OBVIOUS
  <1> QED BY <1>1 DEF Radio, Tune

LEMMA ArmFields ==
  ASSUME NEW r \in Radio, NEW b \in BOOLEAN
  PROVE  LET q == [r EXCEPT !.armed = b]
         IN /\ q \in Radio /\ q.band = r.band /\ q.wifi = r.wifi /\ q.linked = r.linked
            /\ q.dispatcher = r.dispatcher /\ q.protocols = r.protocols /\ q.armed = b
            /\ q.promiscuous = r.promiscuous /\ q.forced = r.forced
  BY DEF Radio

LEMMA PostFields ==
  ASSUME NEW r \in Radio
  PROVE  LET q == Post(r)
         IN /\ q \in Radio /\ q.band = r.band /\ q.wifi = r.wifi /\ q.linked = r.linked
            /\ q.dispatcher = r.dispatcher /\ q.armed = r.armed
            /\ q.protocols = IF bringup THEN PostProtocols ELSE r.protocols
            /\ q.promiscuous = r.promiscuous /\ q.forced = r.forced
  BY DEF Radio, Post, PostProtocols

LEMMA ForceFields ==
  ASSUME NEW r \in Radio, NEW phy \in {"Ht20", "Ht40", "He20"}
  PROVE  LET q == ForceRate(r, phy)
         IN /\ q \in Radio /\ q.band = r.band /\ q.wifi = r.wifi /\ q.linked = r.linked
            /\ q.dispatcher = r.dispatcher /\ q.armed = r.armed /\ q.protocols = r.protocols
            /\ q.promiscuous = r.promiscuous /\ q.forced = phy
  BY DEF Radio, ForceRate

LEMMA BeforeFields ==
  ASSUME NEW r \in Radio
  PROVE  LET q == Before(r)
         IN /\ q \in Radio /\ q.band = r.band /\ q.wifi = r.wifi /\ q.linked = r.linked
            /\ q.dispatcher = r.dispatcher /\ q.armed = r.armed /\ q.protocols = r.protocols
            /\ q.promiscuous = r.promiscuous
  BY ForceFields, Zenon DEF Before

-----------------------------------------------------------------------------
(* The bring-up of a run. *)

IsEspNow == node.kind \in EspNowKinds

\* The protocol in force is the one asked for, or the one HE20 implies.
AskedInv == protocol = asked \/ (asked = <<>> /\ protocol = <<"AX">>)

\* Only a started controller of the dual-band part has a band selected.
OneBandInv == part # "c5" \/ radio.wifi = "off" => radio.band = "auto"

DispatcherInv ==
  /\ step = "park" => IsEspNow
  /\ step \notin {"idle", "dispatch"} => radio.dispatcher = IF IsEspNow THEN "pool" ELSE "none"

ParkedInv ==
  step \notin {"idle", "dispatch", "park"} /\ IsEspNow => radio.wifi = "sta" /\ ~radio.linked

WantsAx == part \in HeParts /\ asked = <<"AX">>

ProtocolInv ==
  /\ step \in {"interface", "arm", "task", "running"} /\ IsEspNow /\ node.phy = "He20"
     /\ asked \in {<<>>, <<"AX">>} => "AX" \in radio.protocols
  /\ step \in {"interface", "arm", "task"} /\ node.kind \in {"Station", "Sniffer"} /\ WantsAx
     => bringup
  /\ step \in {"arm", "task", "running"} /\ node.kind = "Station" /\ WantsAx
     => "AX" \in radio.protocols

ArmedInv ==
  step \in {"task", "running"} /\ node.kind \in EspNowKinds \cup {"Station"} /\ rxOn => radio.armed

BandInv ==
  step \in {"arm", "task", "running"} /\ node.kind \in {"Station", "AccessPoint"} /\ ~node.second
  => Admits(radio.band, node.channel)

BringInv ==
  /\ BringTypes /\ AskedInv /\ OneBandInv /\ DispatcherInv /\ ParkedInv /\ ProtocolInv
  /\ ArmedInv /\ BandInv /\ RunsAreBroughtUp

LEMMA BringInitInv == BringInit => BringInv
  <1> SUFFICES ASSUME BringInit PROVE BringInv
    OBVIOUS
  <1>1. radio \in Radio /\ radio.band = "auto"
    BY DEF BringInit, Boot, Radio, DefaultProtocols
  <1>2. rxOn \in BOOLEAN /\ bringup \in BOOLEAN
    BY Zenon DEF BringInit
  <1>3. BringTypes
    BY <1>1, <1>2, MaxRunsAssumption DEF BringInit, BringTypes, Wants, RunSteps
  <1>4. step = "idle" /\ protocol = asked
    BY DEF BringInit
  <1>5. AskedInv /\ OneBandInv /\ DispatcherInv /\ ParkedInv /\ ProtocolInv /\ ArmedInv /\ BandInv
    BY <1>1, <1>4
    DEF AskedInv, OneBandInv, DispatcherInv, ParkedInv, ProtocolInv, ArmedInv, BandInv
  <1>6. RunsAreBroughtUp
    BY <1>4 DEF RunsAreBroughtUp, Up
  <1> QED BY <1>3, <1>5, <1>6 DEF BringInv

\* Between runs nothing is required of a run.
LEMMA IdleInv == BringTypes' /\ AskedInv' /\ OneBandInv' /\ step' = "idle" => BringInv'
  BY DEF BringInv, DispatcherInv, ParkedInv, ProtocolInv, ArmedInv, BandInv, RunsAreBroughtUp, Up

LEMMA BringStep == BringInv /\ [BringNext]_bringVars => BringInv'
  <1> SUFFICES ASSUME BringInv, [BringNext]_bringVars PROVE BringInv'
    OBVIOUS
  <1>0. /\ part \in Parts /\ node \in Nodes /\ step \in RunSteps /\ runs \in 0 .. MaxRuns
        /\ radio \in Radio /\ protocol \in Wants /\ asked \in Wants
        /\ rxOn \in BOOLEAN /\ bringup \in BOOLEAN /\ MaxRuns \in Nat
    BY MaxRunsAssumption DEF BringInv, BringTypes
  <1>n. /\ node.kind \in EspNowKinds \cup {"Sniffer", "Station", "AccessPoint", "Emitter"}
        /\ node.phy \in {"Ht20", "Ht40", "He20"}
        /\ node.channel \in {1} \cup Channels5
        /\ part # "c5" => node.channel = 1
        /\ node.second \in BOOLEAN
        /\ node.kind = "Sniffer" => ~node.second
        /\ node.phy = "He20" => part \in HeParts
    BY <1>0, NodeFields
  <1>nodes. part' = part => Nodes' = Nodes
    BY DEF Nodes
  <1>types. ASSUME UNCHANGED nodeVars, radio' \in Radio, protocol' \in Wants, bringup' \in BOOLEAN,
                   step' \in RunSteps, runs' \in 0 .. MaxRuns
            PROVE  BringTypes'
    BY <1>0, <1>nodes, <1>types DEF nodeVars, BringTypes, Radio, Wants
  <1>inv. /\ AskedInv /\ OneBandInv /\ DispatcherInv /\ ParkedInv /\ ProtocolInv
          /\ ArmedInv /\ BandInv /\ RunsAreBroughtUp
    BY DEF BringInv
  <1>1. ASSUME NEW n \in Nodes, ChooseMode(n) PROVE BringInv'
    <2>1. BringTypes'
      BY <1>0, <1>nodes, <1>1 DEF ChooseMode, BringTypes, Radio, Wants
    <2>2. AskedInv' /\ OneBandInv' /\ step' = "idle"
      BY <1>inv, <1>1 DEF ChooseMode, AskedInv, OneBandInv
    <2> QED BY <2>1, <2>2, IdleInv
  <1>2. ASSUME NEW p \in {"N", "LR", "AX"}, ChooseProtocol(p) PROVE BringInv'
    <2>1. <<p>> \in Wants
      BY DEF Wants
    <2>2. BringTypes'
      BY <1>0, <1>nodes, <1>2, <2>1 DEF ChooseProtocol, BringTypes, Radio, Wants
    <2>3. AskedInv' /\ OneBandInv' /\ step' = "idle"
      BY <1>inv, <1>2 DEF ChooseProtocol, AskedInv, OneBandInv
    <2> QED BY <2>2, <2>3, IdleInv
  <1>3. ASSUME NEW on \in BOOLEAN, ChooseRx(on) PROVE BringInv'
    <2>2. BringTypes'
      BY <1>0, <1>nodes, <1>3 DEF ChooseRx, BringTypes, Radio, Wants
    <2>3. AskedInv' /\ OneBandInv' /\ step' = "idle"
      BY <1>inv, <1>3 DEF ChooseRx, AskedInv, OneBandInv
    <2> QED BY <2>2, <2>3, IdleInv
  <1>4. CASE Reboot
    <2>1. radio' \in Radio /\ radio'.band = "auto"
      BY <1>4 DEF Reboot, Boot, Radio, DefaultProtocols
    <2>2. <<>> \in Wants /\ bringup' \in BOOLEAN
      BY <1>4, Zenon DEF Reboot, Wants
    <2>3. BringTypes'
      BY <1>0, <1>nodes, <1>4, <2>1, <2>2 DEF Reboot, BringTypes, Radio, Wants, RunSteps
    <2>4. AskedInv' /\ OneBandInv' /\ step' = "idle"
      BY <1>4, <2>1 DEF Reboot, AskedInv, OneBandInv
    <2> QED BY <2>3, <2>4, IdleInv
  <1>5. CASE EndBringUp
    <2>1. PICK b \in BOOLEAN : b = (radio.promiscuous /\ node.kind \notin {"Sniffer", "AccessPoint", "Station"})
      OBVIOUS
    <2>2. radio' = [radio EXCEPT !.promiscuous = b]
      BY <1>5, <2>1, Zenon DEF EndBringUp
    <2>3. radio' \in Radio /\ radio'.band = radio.band /\ radio'.wifi = radio.wifi
      BY <1>0, <2>2 DEF Radio
    <2>4. BringTypes'
      BY <1>0, <1>5, <2>3, <1>types DEF EndBringUp, RunSteps
    <2>5. AskedInv' /\ OneBandInv' /\ step' = "idle"
      BY <1>inv, <1>5, <2>3 DEF EndBringUp, AskedInv, OneBandInv, nodeVars
    <2> QED BY <2>4, <2>5, IdleInv
  <1>6. CASE BeginBringUp
    <2>1. BringTypes'
      BY <1>0, <1>6, <1>types DEF BeginBringUp, RunSteps
    <2>2. UNCHANGED <<nodeVars, radio, protocol>> /\ step' = "dispatch"
      BY <1>6 DEF BeginBringUp
    <2>3. AskedInv' /\ OneBandInv' /\ DispatcherInv' /\ ParkedInv' /\ ProtocolInv' /\ ArmedInv' /\ BandInv'
      BY <1>inv, <2>2
      DEF nodeVars, AskedInv, OneBandInv, DispatcherInv, ParkedInv, ProtocolInv, ArmedInv, BandInv
    <2>4. RunsAreBroughtUp'
      BY <2>2 DEF RunsAreBroughtUp, Up
    <2> QED BY <2>1, <2>3, <2>4 DEF BringInv
  <1>7. CASE TreatDispatcher
    <2>1. /\ radio' = [radio EXCEPT !.dispatcher = IF IsEspNow THEN "pool" ELSE "none"]
          /\ step' = IF IsEspNow THEN "park" ELSE "protocols"
          /\ UNCHANGED <<nodeVars, protocol, bringup, runs>>
      BY <1>7 DEF TreatDispatcher, IsEspNow
    <2>2. /\ radio' \in Radio /\ radio'.band = radio.band /\ radio'.wifi = radio.wifi
          /\ radio'.dispatcher = IF IsEspNow THEN "pool" ELSE "none"
      BY <1>0, <2>1 DEF Radio
    <2>3. BringTypes'
      BY <1>0, <2>1, <2>2, <1>types DEF RunSteps
    <2>4. IsEspNow' <=> IsEspNow
      BY <2>1 DEF IsEspNow, nodeVars
    <2>5. AskedInv' /\ OneBandInv' /\ DispatcherInv' /\ ParkedInv'
      BY <1>inv, <2>1, <2>2, <2>4 DEF nodeVars, AskedInv, OneBandInv, DispatcherInv, ParkedInv
    <2>6. step' \notin {"idle", "interface", "arm", "task", "running", "panicked"}
      BY <2>1
    <2>7. ProtocolInv' /\ ArmedInv' /\ BandInv' /\ RunsAreBroughtUp'
      BY <2>6 DEF ProtocolInv, ArmedInv, BandInv, RunsAreBroughtUp, Up
    <2> QED BY <2>3, <2>5, <2>7 DEF BringInv
  <1>8. CASE ParkStation
    <2> DEFINE quiet == [radio EXCEPT !.linked = FALSE]
    <2>1. /\ quiet \in Radio /\ quiet.band = radio.band /\ quiet.dispatcher = radio.dispatcher
          /\ quiet.wifi = radio.wifi /\ ~quiet.linked
      BY <1>0 DEF Radio
    <2>2. /\ step = "park" /\ step' = "protocols" /\ UNCHANGED <<nodeVars, protocol, bringup, runs>>
          /\ radio' \in IF radio.wifi = "sta" THEN {quiet} ELSE SetConfig(quiet, "sta", <<>>)
      BY <1>8 DEF ParkStation
    <2> HIDE DEF quiet
    <2>3. /\ radio' \in Radio /\ radio'.band = radio.band /\ radio'.dispatcher = radio.dispatcher
          /\ radio'.wifi = "sta" /\ ~radio'.linked
      <3>1. CASE radio.wifi = "sta"
        BY <2>1, <2>2, <3>1
      <3>2. CASE radio.wifi # "sta"
        <4>1. radio' \in SetConfig(quiet, "sta", <<>>)
          BY <2>2, <3>2
        <4> QED BY <2>1, <4>1, SetConfigFields
      <3> QED BY <3>1, <3>2
    <2>4. BringTypes'
      BY <1>0, <2>2, <2>3, <1>types DEF RunSteps
    <2>5. IsEspNow' <=> IsEspNow
      BY <2>2 DEF IsEspNow, nodeVars
    <2>6. AskedInv' /\ OneBandInv' /\ DispatcherInv' /\ ParkedInv'
      BY <1>inv, <2>2, <2>3, <2>5 DEF nodeVars, AskedInv, OneBandInv, DispatcherInv, ParkedInv
    <2>7. ProtocolInv' /\ ArmedInv' /\ BandInv' /\ RunsAreBroughtUp'
      BY <2>2 DEF ProtocolInv, ArmedInv, BandInv, RunsAreBroughtUp, Up
    <2> QED BY <2>4, <2>6, <2>7 DEF BringInv
  <1>9. CASE ApplyProtocols
    <2>1. /\ step = "protocols" /\ step' = "interface" /\ UNCHANGED <<nodeVars, runs>>
          /\ protocol' = Implied
          /\ radio' = IF Implied # <<>> /\ node.kind # "Emitter"
                      THEN [radio EXCEPT !.protocols = Tuned(Implied[1])] ELSE radio
      BY <1>9 DEF ApplyProtocols
    <2>2. bringup' <=> WantsBringup(Implied)
      BY <1>9 DEF ApplyProtocols
    <2>3. bringup' \in BOOLEAN
      BY <1>9, Zenon DEF ApplyProtocols, WantsBringup
    <2>4. Implied \in Wants
      BY <1>0 DEF Implied, Wants
    <2>5. /\ asked \in {<<>>, <<"AX">>} /\ IsEspNow /\ node.phy = "He20" => Implied = <<"AX">>
          /\ asked = <<"AX">> => Implied = <<"AX">>
          /\ Implied = asked \/ (asked = <<>> /\ Implied = <<"AX">>)
      BY <1>0, <1>n, <1>inv DEF Implied, AskedInv, IsEspNow, Wants
    <2>6. /\ \A p \in {"N", "LR", "AX"} : Tuned(p) \in SUBSET {"B", "G", "N", "AX", "LR"}
          /\ "AX" \in Tuned("AX")
      BY DEF Tuned, Ladder
    <2>7. Implied # <<>> => Implied[1] \in {"N", "LR", "AX"}
      BY <2>4 DEF Wants
    <2>8. /\ radio' \in Radio /\ radio'.band = radio.band /\ radio'.dispatcher = radio.dispatcher
          /\ radio'.wifi = radio.wifi /\ radio'.linked = radio.linked
          /\ Implied = <<"AX">> /\ node.kind # "Emitter" => "AX" \in radio'.protocols
      BY <1>0, <2>1, <2>6, <2>7 DEF Radio
    <2>9. BringTypes'
      BY <1>0, <2>1, <2>3, <2>4, <2>8, <1>types DEF RunSteps
    <2>10. IsEspNow' <=> IsEspNow
      BY <2>1 DEF IsEspNow, nodeVars
    <2>11. AskedInv' /\ OneBandInv' /\ DispatcherInv' /\ ParkedInv'
      BY <1>inv, <2>1, <2>5, <2>8, <2>10 DEF nodeVars, AskedInv, OneBandInv, DispatcherInv, ParkedInv
    <2>12. ProtocolInv'
      BY <1>n, <2>1, <2>2, <2>5, <2>8 DEF ProtocolInv, nodeVars, IsEspNow, WantsAx, WantsBringup, EspNowKinds
    <2>13. ArmedInv' /\ BandInv' /\ RunsAreBroughtUp'
      BY <2>1 DEF ArmedInv, BandInv, RunsAreBroughtUp, Up
    <2> QED BY <2>9, <2>11, <2>12, <2>13 DEF BringInv
  <1>10. CASE StartInterface
    <2>1. /\ step = "interface" /\ step' = "arm" /\ UNCHANGED <<nodeVars, protocol, bringup, runs>>
      BY <1>10 DEF StartInterface
    <2>2. /\ radio' \in Radio /\ radio'.dispatcher = radio.dispatcher
          /\ part # "c5" \/ radio'.wifi = "off" => radio'.band = "auto"
          /\ IsEspNow => radio' = radio
          /\ node.kind \in {"Station", "AccessPoint"} /\ ~node.second
             => Admits(radio'.band, node.channel)
          /\ node.kind = "Station" /\ bringup => "AX" \in radio'.protocols
      <3>1. CASE node.kind = "Station"
        <4>1. PICK r \in SetConfig(Before(radio), "sta", <<>>) :
                radio' = Post(IF node.second THEN SetBand(r, "auto") ELSE ApplyBand(r, node.channel))
          BY <1>10, <3>1 DEF StartInterface
        <4>2. Before(radio) \in Radio /\ Before(radio).band = radio.band
              /\ Before(radio).dispatcher = radio.dispatcher
          BY <1>0, BeforeFields
        <4>3. /\ r \in Radio /\ r.wifi = "sta"
              /\ r.band = radio.band /\ r.dispatcher = radio.dispatcher
          BY <4>2, SetConfigFields
        <4>4. part # "c5" => r.band = "auto"
          BY <1>inv, <4>3 DEF OneBandInv
        <4> DEFINE q == IF node.second THEN SetBand(r, "auto") ELSE ApplyBand(r, node.channel)
        <4>5. /\ q \in Radio /\ q.dispatcher = r.dispatcher /\ q.wifi = "sta"
              /\ part # "c5" => q.band = "auto"
              /\ ~node.second => Admits(q.band, node.channel)
          <5>1. CASE node.second
            BY <4>3, <4>4, <5>1 DEF SetBand, Radio
          <5>2. CASE ~node.second
            BY <1>n, <4>3, <4>4, <5>2, BandFields
          <5> QED BY <5>1, <5>2
        <4>6. radio' = Post(q)
          BY <4>1
        <4> HIDE DEF q
        <4>7. /\ radio' \in Radio /\ radio'.band = q.band /\ radio'.dispatcher = q.dispatcher
              /\ radio'.wifi = "sta"
              /\ bringup => radio'.protocols = PostProtocols
          BY <4>5, <4>6, PostFields
        <4> QED BY <3>1, <4>3, <4>5, <4>7 DEF IsEspNow, EspNowKinds, PostProtocols
      <3>2. CASE node.kind = "AccessPoint"
        <4>1. PICK t \in IF node.phy = "Ht40" THEN ApplyHt40(radio, node.channel)
                         ELSE {ApplyBand(radio, node.channel)} :
                \E r \in SetConfig(Before(t), "ap", <<node.channel, Secondary(node)>>) :
                  radio' = Post(r)
          BY <1>10, <3>2 DEF StartInterface
        <4>2. PICK r \in SetConfig(Before(t), "ap", <<node.channel, Secondary(node)>>) :
                radio' = Post(r)
          BY <4>1
        <4> DEFINE a == ApplyBand(radio, node.channel)
        <4>3. /\ a \in Radio /\ Admits(a.band, node.channel) /\ a.dispatcher = radio.dispatcher
              /\ part # "c5" => a.band = "auto"
          BY <1>0, <1>n, <1>inv, BandFields DEF OneBandInv
        <4>4. t = a \/ \E done \in BOOLEAN : t = Tune(a, done, node.channel, "pair")
          BY <4>1 DEF ApplyHt40, CanTune
        <4> HIDE DEF a
        <4>5. t \in Radio /\ t.band = a.band /\ t.dispatcher = a.dispatcher
          <5>1. ASSUME NEW done \in BOOLEAN, t = Tune(a, done, node.channel, "pair")
                PROVE  t \in Radio /\ t.band = a.band /\ t.dispatcher = a.dispatcher
            BY <1>n, <4>3, <5>1, TuneFields
          <5> QED BY <4>3, <4>4, <5>1
        <4>6. Before(t) \in Radio /\ Before(t).band = t.band /\ Before(t).dispatcher = t.dispatcher
          BY <4>5, BeforeFields
        <4>7. <<node.channel, Secondary(node)>> \in ({1} \cup Channels5) \X {"none", "pair"}
          BY <1>n DEF Secondary
        <4>8. r \in Radio /\ r.wifi = "ap" /\ r.band = t.band /\ r.dispatcher = t.dispatcher
          BY <4>2, <4>6, <4>7, SetConfigFields
        <4>9. /\ radio' \in Radio /\ radio'.wifi = "ap"
              /\ radio'.band = r.band /\ radio'.dispatcher = r.dispatcher
          BY <4>2, <4>8, PostFields
        <4> QED BY <3>2, <4>3, <4>5, <4>8, <4>9 DEF IsEspNow, EspNowKinds
      <3>3. CASE node.kind \notin {"Station", "AccessPoint"}
        <4>1. radio' = radio
          BY <1>10, <3>3 DEF StartInterface
        <4> QED BY <1>0, <1>inv, <3>3, <4>1 DEF OneBandInv
      <3> QED BY <3>1, <3>2, <3>3
    <2>3. BringTypes'
      BY <1>0, <2>1, <2>2, <1>types DEF RunSteps
    <2>4. IsEspNow' <=> IsEspNow
      BY <2>1 DEF IsEspNow, nodeVars
    <2>5. AskedInv' /\ OneBandInv' /\ DispatcherInv' /\ ParkedInv'
      BY <1>inv, <2>1, <2>2, <2>4 DEF nodeVars, AskedInv, OneBandInv, DispatcherInv, ParkedInv
    <2>6. ProtocolInv'
      BY <1>n, <1>inv, <2>1, <2>2, <2>4 DEF ProtocolInv, nodeVars, WantsAx
    <2>7. BandInv'
      BY <2>1, <2>2 DEF BandInv, nodeVars, Admits, BandOf
    <2>8. ArmedInv' /\ RunsAreBroughtUp'
      BY <2>1 DEF ArmedInv, RunsAreBroughtUp, Up
    <2> QED BY <2>3, <2>5, <2>6, <2>7, <2>8 DEF BringInv
  <1>11. CASE ArmCsi
    <2>1. /\ step = "arm" /\ step' = "task" /\ UNCHANGED <<nodeVars, protocol, bringup, runs>>
          /\ radio' = IF rxOn /\ node.kind \notin {"Emitter", "Sniffer", "AccessPoint"}
                      THEN [radio EXCEPT !.armed = TRUE] ELSE radio
      BY <1>11 DEF ArmCsi
    <2>2. /\ radio' \in Radio /\ radio'.band = radio.band /\ radio'.dispatcher = radio.dispatcher
          /\ radio'.wifi = radio.wifi /\ radio'.linked = radio.linked
          /\ radio'.protocols = radio.protocols
          /\ rxOn /\ node.kind \in EspNowKinds \cup {"Station"} => radio'.armed
      BY <1>0, <2>1, ArmFields DEF EspNowKinds
    <2>3. BringTypes'
      BY <1>0, <2>1, <2>2, <1>types DEF RunSteps
    <2>4. IsEspNow' <=> IsEspNow
      BY <2>1 DEF IsEspNow, nodeVars
    <2>5. AskedInv' /\ OneBandInv' /\ DispatcherInv' /\ ParkedInv'
      BY <1>inv, <2>1, <2>2, <2>4 DEF nodeVars, AskedInv, OneBandInv, DispatcherInv, ParkedInv
    <2>6. ProtocolInv' /\ ArmedInv'
      BY <1>inv, <2>1, <2>2, <2>4 DEF ProtocolInv, ArmedInv, nodeVars, WantsAx
    <2>7. BandInv'
      BY <1>inv, <2>1, <2>2 DEF BandInv, nodeVars, Admits, BandOf
    <2>8. RunsAreBroughtUp'
      BY <2>1 DEF RunsAreBroughtUp, Up
    <2> QED BY <2>3, <2>5, <2>6, <2>7, <2>8 DEF BringInv
  <1>12. CASE StartEmitter
    <2>1. /\ step = "task" /\ node.kind = "Emitter" /\ step' = "running"
          /\ UNCHANGED <<nodeVars, protocol, bringup, runs>>
      BY <1>12 DEF StartEmitter
    <2> DEFINE f == ForceRate(radio, node.phy)
               wifi == IF node.second THEN "ap" ELSE "sta"
    <2>2. PICK r \in SetConfig(f, wifi, <<1, "none">>) :
            \E q \in EmitterRadios(r) :
              \E t \in IF part = "classic" THEN EmitterOverEspNow(q) ELSE {q} :
                radio' = [t EXCEPT !.promiscuous = TRUE]
      BY <1>12 DEF StartEmitter
    <2>3. PICK q \in EmitterRadios(r) :
            \E t \in IF part = "classic" THEN EmitterOverEspNow(q) ELSE {q} :
              radio' = [t EXCEPT !.promiscuous = TRUE]
      BY <2>2
    <2>4. PICK t \in IF part = "classic" THEN EmitterOverEspNow(q) ELSE {q} :
            radio' = [t EXCEPT !.promiscuous = TRUE]
      BY <2>3
    <2>5. f \in Radio /\ f.band = radio.band /\ f.dispatcher = radio.dispatcher
      BY <1>0, <1>n, ForceFields
    <2>6. <<1, "none">> \in ({1} \cup Channels5) \X {"none", "pair"} /\ wifi \in {"sta", "ap"}
      OBVIOUS
    <2> HIDE DEF f, wifi
    <2>7. /\ r \in Radio /\ r.wifi \in {"ap", "sta"}
          /\ r.band = radio.band /\ r.dispatcher = radio.dispatcher
      BY <2>2, <2>5, <2>6, SetConfigFields
    <2> DEFINE a == ApplyBand(r, node.channel)
               b == [a EXCEPT !.protocols = EmitterProtocols(node.phy)]
    <2>8. /\ a \in Radio /\ a.dispatcher = radio.dispatcher /\ a.wifi \in {"ap", "sta"}
          /\ part # "c5" => a.band = "auto"
      <3>1. part # "c5" \/ r.wifi = "off" => r.band = "auto"
        BY <1>inv, <2>7 DEF OneBandInv
      <3>2. node.channel \in {1} \cup Channels5 /\ r \in Radio
        BY <1>n, <2>7
      <3> QED BY <2>7, <3>1, <3>2, BandFields
    <2>9. /\ b \in Radio /\ b.band = a.band /\ b.dispatcher = a.dispatcher /\ b.wifi = a.wifi
          /\ b.protocols = EmitterProtocols(node.phy)
      BY <2>8 DEF Radio, EmitterProtocols, DefaultProtocols
    <2>10. PICK done \in BOOLEAN :
             q = ForceRate(Tune(b, done, node.channel, Secondary(node)), node.phy)
      BY <2>3 DEF EmitterRadios, CanTune
    <2> HIDE DEF a, b
    <2>11. /\ q \in Radio /\ q.band = b.band /\ q.dispatcher = b.dispatcher /\ q.wifi = b.wifi
           /\ q.protocols = EmitterProtocols(node.phy) /\ q.forced = node.phy
      <3>1. Secondary(node) \in {"none", "pair"}
        BY DEF Secondary
      <3>2. LET u == Tune(b, done, node.channel, Secondary(node))
            IN u \in Radio /\ u.band = b.band /\ u.dispatcher = b.dispatcher /\ u.wifi = b.wifi
               /\ u.protocols = b.protocols
        BY <1>n, <2>9, <3>1, TuneFields
      <3> QED BY <1>n, <2>9, <2>10, <3>2, ForceFields
    <2>12. /\ t \in Radio /\ t.band = q.band /\ t.dispatcher = q.dispatcher /\ t.wifi # "off"
           /\ part # "classic" => t = q
      <3>1. CASE part # "classic"
        BY <2>4, <2>8, <2>9, <2>11, <3>1
      <3>2. CASE part = "classic"
        <4>1. t \in EmitterOverEspNow(q)
          BY <2>4, <3>2
        <4>2. PICK u \in SetConfig(q, "sta", <<>>) :
                t \in {Tune(u, d, node.channel, "none") : d \in CanTune(u, node.channel)}
          BY <4>1 DEF EmitterOverEspNow
        <4>3. u \in Radio /\ u.band = q.band /\ u.dispatcher = q.dispatcher /\ u.wifi = "sta"
          BY <2>11, <4>2, SetConfigFields
        <4>4. PICK d : t = Tune(u, d, node.channel, "none")
          BY <4>2
        <4> QED BY <1>n, <3>2, <4>3, <4>4, TuneFields
      <3> QED BY <3>1, <3>2
    <2>13. /\ radio' \in Radio /\ radio'.band = t.band /\ radio'.dispatcher = t.dispatcher
           /\ radio'.wifi = t.wifi
           /\ radio'.protocols = t.protocols /\ radio'.forced = t.forced
      BY <2>4, <2>12 DEF Radio
    <2>14. BringTypes'
      BY <1>0, <2>1, <2>13, <1>types DEF RunSteps
    <2>15. ~IsEspNow /\ ~IsEspNow' /\ part' = part /\ node' = node /\ asked' = asked
      BY <2>1 DEF IsEspNow, EspNowKinds, nodeVars
    <2>16. AskedInv' /\ OneBandInv' /\ ParkedInv' /\ ProtocolInv' /\ ArmedInv' /\ BandInv'
      BY <1>inv, <2>1, <2>8, <2>9, <2>11, <2>12, <2>13, <2>15
      DEF nodeVars, AskedInv, OneBandInv, ParkedInv, ProtocolInv, ArmedInv, BandInv, EspNowKinds
    <2>17. radio'.dispatcher = "none"
      BY <1>inv, <2>1, <2>8, <2>9, <2>11, <2>12, <2>13, <2>15 DEF DispatcherInv
    <2>18. part' # "classic" => radio'.protocols = EmitterProtocols(node.phy) /\ radio'.forced = node.phy
      BY <2>11, <2>12, <2>13, <2>15
    <2>19. DispatcherInv' /\ RunsAreBroughtUp'
      BY <2>1, <2>15, <2>17, <2>18
      DEF DispatcherInv, RunsAreBroughtUp, Up, EspNowKinds, EmitterProtocols
    <2> QED BY <2>14, <2>16, <2>19 DEF BringInv
  <1>13. CASE StartSniffer
    <2> DEFINE open == [ApplyBand(radio, node.channel) EXCEPT !.promiscuous = TRUE]
    <2>1. /\ step = "task" /\ node.kind = "Sniffer" /\ step' \in {"running", "panicked"}
          /\ UNCHANGED <<nodeVars, protocol, bringup, runs>>
      BY <1>13 DEF StartSniffer
    <2>2. PICK done \in CanTune(open, node.channel) :
            IF done
            THEN /\ radio' = [Post(Tune(open, done, node.channel, "none")) EXCEPT !.armed = @ \/ rxOn]
                 /\ step' = "running"
            ELSE radio' = open /\ step' = "panicked"
      BY <1>13 DEF StartSniffer
    <2>3. /\ ApplyBand(radio, node.channel) \in Radio
          /\ Admits(ApplyBand(radio, node.channel).band, node.channel)
          /\ part # "c5" \/ ApplyBand(radio, node.channel).wifi = "off"
             => ApplyBand(radio, node.channel).band = "auto"
          /\ ApplyBand(radio, node.channel).dispatcher = radio.dispatcher
      BY <1>0, <1>n, <1>inv, BandFields DEF OneBandInv
    <2>4. /\ open \in Radio /\ open.dispatcher = radio.dispatcher
          /\ part # "c5" \/ open.wifi = "off" => open.band = "auto"
          /\ Admits(open.band, node.channel)
      BY <2>3 DEF Radio
    <2> HIDE DEF open
    <2> DEFINE tuned == Tune(open, done, node.channel, "none")
    <2>5. /\ tuned \in Radio /\ tuned.band = open.band /\ tuned.dispatcher = open.dispatcher
          /\ tuned.wifi = open.wifi
      BY <1>n, <2>4, TuneFields
    <2> HIDE DEF tuned
    <2>6. /\ Post(tuned) \in Radio /\ Post(tuned).band = open.band
          /\ Post(tuned).dispatcher = open.dispatcher /\ Post(tuned).wifi = open.wifi
          /\ bringup => Post(tuned).protocols = PostProtocols
      BY <2>5, PostFields
    <2>7. PICK b \in BOOLEAN : b = (Post(tuned).armed \/ rxOn)
      OBVIOUS
    <2>8. rxOn => b
      BY <2>7, Zenon
    <2>9. step' = "running" => radio' = [Post(tuned) EXCEPT !.armed = b]
      BY <2>2, <2>7, Zenon DEF tuned
    <2>10. step' = "panicked" => radio' = open
      BY <2>2
    <2>11. /\ radio' \in Radio /\ radio'.dispatcher = radio.dispatcher
           /\ part # "c5" \/ radio'.wifi = "off" => radio'.band = "auto"
           /\ step' = "panicked" => radio'.wifi = "ap" \/ radio'.linked
           /\ Admits(radio'.band, node.channel)
           /\ step' = "running" /\ rxOn => radio'.armed
           /\ step' = "running" /\ bringup => "AX" \in radio'.protocols
      <3>1. CASE step' = "panicked"
        <4>1. open.wifi = "ap" \/ open.linked
          BY <2>2, <2>4, <3>1 DEF CanTune
        <4> QED BY <2>4, <2>10, <3>1, <4>1
      <3>2. CASE step' = "running"
        <4>1. radio' = [Post(tuned) EXCEPT !.armed = b]
          BY <2>9, <3>2
        <4>2. /\ radio' \in Radio /\ radio'.band = Post(tuned).band /\ radio'.armed = b
              /\ radio'.dispatcher = Post(tuned).dispatcher /\ radio'.wifi = Post(tuned).wifi
              /\ radio'.protocols = Post(tuned).protocols
          BY <2>6, <4>1, ArmFields
        <4>3. bringup => "AX" \in radio'.protocols
          BY <2>6, <4>2 DEF PostProtocols
        <4>4. rxOn => radio'.armed
          BY <2>8, <4>2
        <4>5. radio'.band = open.band /\ radio'.wifi = open.wifi
              /\ radio'.dispatcher = open.dispatcher
          BY <2>6, <4>2
        <4>6. /\ part # "c5" \/ radio'.wifi = "off" => radio'.band = "auto"
              /\ Admits(radio'.band, node.channel)
          BY <2>4, <4>5
        <4>7. radio'.dispatcher = radio.dispatcher
          BY <2>4, <4>5
        <4> QED BY <3>2, <4>2, <4>3, <4>4, <4>6, <4>7
      <3> QED BY <2>1, <3>1, <3>2
    <2>12. BringTypes'
      BY <1>0, <2>1, <2>11, <1>types DEF RunSteps
    <2>13. ~IsEspNow /\ ~IsEspNow' /\ part' = part /\ node' = node /\ asked' = asked /\ rxOn' = rxOn
      BY <2>1 DEF IsEspNow, EspNowKinds, nodeVars
    <2>14. AskedInv' /\ OneBandInv' /\ ParkedInv' /\ ProtocolInv' /\ ArmedInv' /\ BandInv'
      BY <1>inv, <2>1, <2>11, <2>13
      DEF nodeVars, AskedInv, OneBandInv, ParkedInv, ProtocolInv, ArmedInv, BandInv, EspNowKinds
    <2>15. radio'.dispatcher = "none" /\ DispatcherInv'
      BY <1>inv, <2>1, <2>11, <2>13 DEF DispatcherInv
    <2>16. WantsAx => bringup
      BY <1>inv, <2>1 DEF ProtocolInv
    <2>17. RunsAreBroughtUp'
      <3>1. Admits(radio.band, node.channel)'
        BY <2>11, <2>13 DEF Admits, BandOf
      <3> QED BY <2>1, <2>11, <2>13, <2>15, <2>16, <3>1
              DEF RunsAreBroughtUp, Up, EspNowKinds, WantsAx
    <2> QED BY <2>12, <2>14, <2>15, <2>17 DEF BringInv
  <1>14. CASE StartWifi
    <2>1. /\ step = "task" /\ node.kind \in {"AccessPoint", "Station"} /\ step' = "running"
          /\ UNCHANGED <<nodeVars, protocol, bringup, runs>>
      BY <1>14 DEF StartWifi
    <2>2. PICK b \in BOOLEAN, l \in BOOLEAN :
            b = (radio.armed \/ rxOn) /\ l = (node.kind = "Station")
      OBVIOUS
    <2>3. rxOn => b
      BY <2>2, Zenon
    <2>4. radio' = [radio EXCEPT !.armed = b, !.linked = l]
      BY <1>14, <2>2, Zenon DEF StartWifi
    <2>5. /\ radio' \in Radio /\ radio'.dispatcher = radio.dispatcher /\ radio'.band = radio.band
          /\ radio'.protocols = radio.protocols /\ radio'.armed = b /\ radio'.wifi = radio.wifi
      BY <1>0, <2>4 DEF Radio
    <2>6. BringTypes'
      BY <1>0, <2>1, <2>5, <1>types DEF RunSteps
    <2>7. ~IsEspNow /\ ~IsEspNow' /\ part' = part /\ node' = node /\ asked' = asked /\ rxOn' = rxOn
      BY <2>1 DEF IsEspNow, EspNowKinds, nodeVars
    <2>8. AskedInv' /\ OneBandInv' /\ ParkedInv' /\ ProtocolInv' /\ ArmedInv' /\ DispatcherInv'
      BY <1>inv, <2>1, <2>3, <2>5, <2>7
      DEF nodeVars, AskedInv, OneBandInv, ParkedInv, ProtocolInv, ArmedInv, DispatcherInv, WantsAx
    <2>9. BandInv'
      BY <1>inv, <2>1, <2>5, <2>7 DEF BandInv, Admits, BandOf
    <2>10. radio'.dispatcher = "none"
      BY <1>inv, <2>1, <2>5, <2>7 DEF DispatcherInv
    <2>11. RunsAreBroughtUp'
      BY <1>inv, <2>1, <2>3, <2>5, <2>7, <2>8, <2>9, <2>10
      DEF RunsAreBroughtUp, Up, EspNowKinds, ProtocolInv, BandInv, WantsAx
    <2> QED BY <2>6, <2>8, <2>9, <2>11 DEF BringInv
  <1>15. CASE StartEspNow
    <2>1. /\ step = "task" /\ IsEspNow /\ step' \in {"running", "panicked"}
          /\ UNCHANGED <<nodeVars, protocol, bringup, runs>>
      BY <1>15 DEF StartEspNow, IsEspNow
    <2>2. /\ radio' \in Radio /\ radio'.dispatcher = radio.dispatcher /\ radio'.band = radio.band
          /\ radio'.protocols = radio.protocols /\ radio'.armed = radio.armed
          /\ radio'.wifi = radio.wifi /\ radio'.linked = radio.linked
          /\ step' = "panicked" => ~Admits(radio.band, node.channel)
      <3>1. CASE node.phy = "Ht40"
        BY <1>0, <1>15, <3>1 DEF StartEspNow
      <3>2. CASE node.phy # "Ht40"
        <4>1. PICK done \in CanTune(radio, node.channel) :
                /\ radio' = Tune(radio, done, node.channel, "none")
                /\ step' = IF done THEN "running" ELSE "panicked"
          BY <1>15, <3>2 DEF StartEspNow
        <4>2. radio.wifi = "sta" /\ ~radio.linked
          BY <1>inv, <2>1 DEF ParkedInv
        <4>3. step' = "panicked" => ~Admits(radio.band, node.channel)
          BY <4>1, <4>2 DEF CanTune
        <4> QED BY <1>0, <1>n, <4>1, <4>3, TuneFields
      <3> QED BY <3>1, <3>2
    <2>3. BringTypes'
      BY <1>0, <2>1, <2>2, <1>types DEF RunSteps
    <2>4. IsEspNow' /\ part' = part /\ node' = node /\ asked' = asked /\ rxOn' = rxOn
      BY <2>1 DEF IsEspNow, EspNowKinds, nodeVars
    <2>5. AskedInv' /\ OneBandInv' /\ ParkedInv' /\ ProtocolInv' /\ ArmedInv' /\ DispatcherInv'
      BY <1>inv, <2>1, <2>2, <2>4
      DEF nodeVars, AskedInv, OneBandInv, ParkedInv, ProtocolInv, ArmedInv, DispatcherInv, WantsAx
    <2>6. BandInv'
      BY <2>4 DEF BandInv, IsEspNow, EspNowKinds
    <2>7. step' = "panicked" => ~Admits(radio.band, node.channel)'
      BY <2>2, <2>4 DEF Admits, BandOf
    <2>8. RunsAreBroughtUp'
      BY <2>1, <2>2, <2>4, <2>5, <2>7
      DEF RunsAreBroughtUp, Up, EspNowKinds, IsEspNow, ProtocolInv, ArmedInv, ParkedInv, DispatcherInv
    <2> QED BY <2>3, <2>5, <2>6, <2>8 DEF BringInv
  <1>16. CASE UNCHANGED bringVars
    BY <1>nodes, <1>16
    DEF bringVars, BringInv, BringTypes, Radio, Wants, AskedInv, OneBandInv, DispatcherInv, ParkedInv,
        ProtocolInv, ArmedInv, BandInv, RunsAreBroughtUp, Up, Admits, BandOf, WantsAx, IsEspNow,
        EmitterProtocols
  <1> QED BY <1>1, <1>2, <1>3, <1>4, <1>5, <1>6, <1>7, <1>8, <1>9, <1>10, <1>11, <1>12, <1>13,
             <1>14, <1>15, <1>16 DEF BringNext

LEMMA BringHolds == BringSpec => []BringInv
  BY BringInitInv, BringStep, PTL DEF BringSpec

(* Types; the controller's band and the ESP-NOW dispatcher.                  *)
THEOREM BringUpTypes == BringSpec => []BringTypeOK
  <1>1. BringInv => BringTypeOK
    BY DEF BringInv, BringTypes, BringTypeOK, Radio
  <1> QED BY <1>1, BringHolds, PTL

(* A run that is up has the callback, dispatcher, protocols, band and rate   *)
(* its mode asks for, whatever earlier runs left in the controller, and a    *)
(* panic of the ESP-NOW tasks means a channel off the band (run_inner).      *)
THEOREM RunsComeUp == BringSpec => []RunsAreBroughtUp
  <1>1. BringInv => RunsAreBroughtUp
    BY DEF BringInv
  <1> QED BY <1>1, BringHolds, PTL


(***************************************************************************)
(* NodeSetup.                                                               *)
(***************************************************************************)
(* Options and rates. *)

Maybe(S) == {<<>>} \cup {<<x>> : x \in S}

LEMMA OptionIsMaybe ==
  ASSUME NEW S, NEW o \in Option(S)
  PROVE  o \in Maybe(S)
  <1>1. o \in Seq(S) /\ Len(o) <= 1
    BY DEF Option
  <1>2. PICK n \in Nat : n = Len(o) /\ n <= 1
    BY <1>1, LenProperties
  <1>3. CASE n = 0
    BY <1>1, <1>2, <1>3, EmptySeq DEF Maybe
  <1>4. CASE n = 1
    <2>0. Len(o) = 1 /\ 1 \in 1 .. Len(o)
      BY <1>2, <1>4
    <2>1. o[1] \in S
      BY <1>1, <2>0, ElementOfSeq
    <2>2. o = <<o[1]>>
      <3>1. /\ <<o[1]>> \in Seq(S) /\ Len(<<o[1]>>) = Len(o)
            /\ \A i \in 1 .. Len(o) : o[i] = <<o[1]>>[i]
        BY <2>0, <2>1
      <3> QED BY <1>1, <3>1, SeqEqual
    <2> QED BY <2>1, <2>2 DEF Maybe
  <1> QED BY <1>2, <1>3, <1>4

LEMMA OptionValues ==
  ASSUME NEW S
  PROVE  <<>> \in Option(S) /\ \A x \in S : <<x>> \in Option(S)
  <1>1. \A x \in S : <<x>> \in Seq(S) /\ Len(<<x>>) = 1
    OBVIOUS
  <1> QED BY <1>1 DEF Option

LEMMA MaybeIsOption ==
  ASSUME NEW S, NEW o \in Maybe(S)
  PROVE  o \in Option(S)
  BY OptionValues DEF Maybe

LEMMA Quotient ==
  ASSUME NEW a \in Nat, NEW b \in Nat \ {0}
  PROVE  /\ a \div b \in Nat
         /\ b * (a \div b) <= a
         /\ a < b * (a \div b) + b
  OBVIOUS

LEMMA QuotientIs ==
  ASSUME NEW a \in Nat, NEW b \in Nat \ {0}, NEW q \in Nat, b * q <= a, a < b * q + b
  PROVE  a \div b = q
  OBVIOUS

\* The rate of a period in whole Hz, and the period of that rate.
LEMMA HzRange == Second \in Nat /\ MaxHz \in Nat \ {0} /\ Second < 16 * (MaxHz + 1)
  BY SMT DEF Second, MaxHz

LEMMA RateOfPeriod ==
  ASSUME NEW p \in 16 .. Second
  PROVE  /\ RateHz(p) = Second \div p
         /\ Second \div RateHz(p) \in Nat
         /\ Second \div RateHz(p) >= p
         /\ Second \div (Second \div RateHz(p)) = Second \div p
  <1> DEFINE h == Second \div p
             q == Second \div h
  <1>1. /\ Second \in Nat /\ p \in Nat \ {0} /\ p >= 16 /\ p <= Second
        /\ MaxHz \in Nat \ {0} /\ Second < 16 * (MaxHz + 1)
    BY HzRange
  <1>2. h \in Nat /\ p * h <= Second /\ Second < p * h + p
    BY <1>1, Quotient
  <1> HIDE DEF h
  <1>3. h # 0
    <2> SUFFICES ASSUME h = 0 PROVE FALSE
      OBVIOUS
    <2> QED BY <1>1, <1>2
  <1>4. h <= MaxHz
    <2> SUFFICES ASSUME h >= MaxHz + 1 PROVE FALSE
      BY <1>1, <1>2
    <2>1. p * h >= 16 * h
      BY <1>1, <1>2
    <2> QED BY <1>1, <1>2, <2>1
  <1>5. RateHz(p) = h
    BY <1>1, <1>2, <1>3, <1>4 DEF RateHz, h
  <1>6. q \in Nat /\ h * q <= Second /\ Second < h * q + h
    BY <1>1, <1>2, <1>3, Quotient
  <1> HIDE DEF q
  <1>7. q >= p
    <2> SUFFICES ASSUME q + 1 <= p PROVE FALSE
      BY <1>1, <1>6
    <2>1. h * (q + 1) <= h * p
      BY <1>1, <1>2, <1>6
    <2>2. h * (q + 1) = h * q + h /\ h * p = p * h
      BY <1>1, <1>2, <1>6
    <2> QED BY <1>1, <1>2, <1>6, <2>1, <2>2
  <1>8. q * h <= Second /\ Second < q * h + q
    <2>1. q * h = h * q /\ p * h <= q * h
      BY <1>1, <1>2, <1>6, <1>7
    <2> QED BY <1>1, <1>2, <1>6, <1>7, <2>1
  <1>9. Second \div q = h
    BY <1>1, <1>2, <1>6, <1>7, <1>8, QuotientIs
  <1> QED BY <1>2, <1>5, <1>6, <1>7, <1>9 DEF h, q

LEMMA RateIsPositive ==
  ASSUME NEW p \in Nat
  PROVE  RateHz(p) \in Nat \ {0}
  <1>1. CASE p = 0
    BY <1>1, HzRange DEF RateHz
  <1>2. CASE p # 0
    <2>1. Second \div p \in Nat
      BY <1>2, Quotient, HzRange
    <2> QED BY <1>2, <2>1, HzRange DEF RateHz
  <1> QED BY <1>1, <1>2

-----------------------------------------------------------------------------
(* Setups, flags and slots. *)

CsiFlags ==
  {"lltf", "htltf", "stbc", "merge", "legacy", "forceLltf", "ht20", "ht40", "vht", "su", "mu",
   "dcm", "bf", "heStbc", "scale", "ack"}

ModeRecords ==
  [kind : Kinds, initiator : BOOLEAN, forty : BOOLEAN, channel : Nat, beacon : Nat, period : Nat]

OwnSetups ==
  [id : Nat, hz : Maybe(Nat), width : Maybe(Nat), acquisition : Maybe(SUBSET CsiFlags)]

LEMMA SetupFields ==
  ASSUME NEW s \in Setups
  PROVE  /\ s.id \in Nat /\ s.formats \in SUBSET PpduFormats
         /\ s.channel \in Maybe(Nat) /\ s.stimulus \in Maybe(Stimuli)
         /\ FilterOf(s) \in Maybe(Sources)
  <1>1. /\ s.id \in Nat /\ s.formats \in SUBSET PpduFormats /\ s.channel \in Option(Nat)
        /\ s.stimulus \in Option(Stimuli) /\ s.transmitter \in Option(Sources)
    BY DEF Setups
  <1>2. /\ s.channel \in Maybe(Nat) /\ s.stimulus \in Maybe(Stimuli)
        /\ s.transmitter \in Maybe(Sources)
    BY <1>1, OptionIsMaybe
  <1>3. FilterOf(s) \in Maybe(Sources)
    <2>1. CASE s.stimulus # <<>> /\ s.stimulus[1].responders # {}
      <3>1. s.stimulus[1].responders \in SUBSET Sources
        BY <1>2, <2>1 DEF Maybe, Stimuli
      <3>2. (CHOOSE r \in s.stimulus[1].responders : TRUE) \in Sources
        BY <2>1, <3>1
      <3> QED BY <2>1, <3>2 DEF FilterOf, Maybe
    <2>2. CASE ~(s.stimulus # <<>> /\ s.stimulus[1].responders # {})
      BY <1>2, <2>2, Zenon DEF FilterOf
    <2> QED BY <2>1, <2>2
  <1> QED BY <1>1, <1>2, <1>3

LEMMA AcquisitionFlags ==
  ASSUME chip \in {"classic"} \cup HeChips
  PROVE  /\ DefaultAcquisition \in SUBSET CsiFlags /\ He20Acquisition \in SUBSET CsiFlags
         /\ \A forty \in BOOLEAN : HtAcquisition(forty) \in SUBSET CsiFlags
  <1>1. DefaultAcquisition \in SUBSET CsiFlags
    BY DEF DefaultAcquisition, CsiFlags, HeChips
  <1>2. He20Acquisition \in SUBSET CsiFlags
    BY <1>1 DEF He20Acquisition
  <1>3. ASSUME NEW forty \in BOOLEAN PROVE HtAcquisition(forty) \in SUBSET CsiFlags
    BY <1>1 DEF HtAcquisition, CsiFlags
  <1> QED BY <1>1, <1>2, <1>3

\* HE20 keeps the HE estimate alone.
LEMMA He20Flags ==
  ASSUME chip \in HeChips
  PROVE  /\ "su" \in He20Acquisition
         /\ {"legacy", "forceLltf", "ht20", "ht40", "vht"} \cap He20Acquisition = {}
  BY DEF HeChips, He20Acquisition, DefaultAcquisition

\* On an HE part the flags of an acquisition reach their slots.
LEMMA SlotsOfFlags ==
  ASSUME chip \in HeChips, NEW flags \in SUBSET CsiFlags,
         NEW f \in {"legacy", "forceLltf", "ht20", "ht40", "vht", "su", "mu"}
  PROVE  f \in SetCsi(flags) <=> f \in flags
  <1>1. CASE chip # "c5"
    BY <1>1 DEF SetCsi
  <1>2. CASE chip = "c5"
    <2> DEFINE placed == Moved(flags, Workaround)
    <2>1. \A g \in {"legacy", "ht20", "ht40", "su", "mu", "dcm", "bf"} :
            g \in placed <=> Workaround[g] \in flags
      BY DEF Moved, Workaround
    <2>2. /\ Workaround["legacy"] = "legacy" /\ Workaround["ht20"] = "forceLltf"
          /\ Workaround["ht40"] = "ht20" /\ Workaround["su"] = "ht40" /\ Workaround["mu"] = "vht"
          /\ Workaround["dcm"] = "su" /\ Workaround["bf"] = "mu"
      BY DEF Workaround
    <2> HIDE DEF placed
    <2>3. f \in Moved(placed, EspRadioPacking) <=> EspRadioPacking[f] \in placed
      BY DEF Moved, EspRadioPacking
    <2>4. /\ EspRadioPacking["legacy"] = "legacy" /\ EspRadioPacking["forceLltf"] = "ht20"
          /\ EspRadioPacking["ht20"] = "ht40" /\ EspRadioPacking["ht40"] = "su"
          /\ EspRadioPacking["vht"] = "mu" /\ EspRadioPacking["su"] = "dcm"
          /\ EspRadioPacking["mu"] = "bf"
      BY DEF EspRadioPacking
    <2>5. f \in SetCsi(flags) <=> f \in Moved(placed, EspRadioPacking)
      BY <1>2 DEF SetCsi, placed
    <2> QED BY <2>1, <2>2, <2>3, <2>4, <2>5
  <1> QED BY <1>1, <1>2

-----------------------------------------------------------------------------
(* What a setup that was taken on leaves. *)

Settings ==
  /\ chip \in {"classic"} \cup HeChips /\ mode \in ModeRecords /\ ownSetup \in OwnSetups
  /\ peerFilter \in Sources \cup {AnySource} /\ minSigMode \in {0, 1}
  /\ filterOn \in BOOLEAN /\ (filterOn <=> peerFilter # AnySource \/ minSigMode # 0)
  /\ running \in BOOLEAN /\ narrowed \in BOOLEAN /\ calls \in 0 .. MaxCalls
  /\ accepted \in Maybe(Setups)

\* The formats of a setup that is not refused.
Admitted(s) ==
  /\ IsAny(s.formats) \/ OnlyHe(s.formats) \/ ExcludesLegacy(s.formats)
  /\ OnlyHe(s.formats) => chip \in HeChips

\* The filters and flags that keep other frames out, whatever came before.
ShutsOut(s) ==
  /\ FilterOf(s) # <<>> => peerFilter = FilterOf(s)[1]
  /\ chip = "classic" /\ ExcludesLegacy(s.formats) => minSigMode = 1
  /\ OnlyHe(s.formats) => ownSetup.acquisition = <<He20Acquisition>>
  /\ chip \in HeChips /\ ExcludesLegacy(s.formats)
       => {"legacy", "forceLltf"} \cap Acquisition(ownSetup) = {}

\* The acquisition of a setup on a node that nothing narrowed.
FreshAcquisition(s) ==
  IF chip \notin HeChips \/ IsAny(s.formats) THEN <<>>
  ELSE IF OnlyHe(s.formats) THEN <<He20Acquisition>>
       ELSE <<DefaultAcquisition \ {"legacy", "forceLltf"}>>

\* Nothing but the setup restricts the node.
LeavesOpen(s) ==
  /\ FilterOf(s) = <<>> => peerFilter = AnySource
  /\ minSigMode = IF chip = "classic" /\ ExcludesLegacy(s.formats) THEN 1 ELSE 0
  /\ ownSetup.acquisition = FreshAcquisition(s)

Unrestricted == peerFilter = AnySource /\ minSigMode = 0 /\ ownSetup.acquisition = <<>>

\* The settings are those of the last setup, if one was taken on.
Served ==
  /\ Settings
  /\ accepted # <<>> =>
       /\ Admitted(accepted[1]) /\ ShutsOut(accepted[1]) /\ SoundsAsAsked(accepted[1])
       /\ ~narrowed => LeavesOpen(accepted[1])
  /\ accepted = <<>> /\ ~narrowed => Unrestricted

\* And a run's radio has its flags.
SetupInv ==
  /\ Served
  /\ running /\ mode.kind # "Emitter" => slots = SetCsi(Acquisition(ownSetup))

-----------------------------------------------------------------------------
(* A run under it captures what it asks for. *)

LEMMA AcquisitionType == Settings => Acquisition(ownSetup) \in SUBSET CsiFlags
  BY AcquisitionFlags DEF Settings, OwnSetups, Acquisition, Maybe

LEMMA HonouredWhenListening == SetupInv => SetupsTakeEffect
  <1> SUFFICES ASSUME SetupInv, accepted # <<>>
               PROVE  /\ SoundsAsAsked(accepted[1])
                      /\ Listening => /\ ExcludesTheRest(accepted[1])
                                      /\ ~narrowed => HearsTheWanted(accepted[1])
    BY DEF SetupsTakeEffect
  <1> SUFFICES ASSUME Listening
               PROVE  /\ ExcludesTheRest(accepted[1])
                      /\ ~narrowed => HearsTheWanted(accepted[1])
    BY DEF SetupInv, Served
  <1> DEFINE s == accepted[1]
             acq == Acquisition(ownSetup)
  <1>1. s \in Setups /\ Settings /\ Admitted(s) /\ ShutsOut(s) /\ (~narrowed => LeavesOpen(s))
    BY DEF SetupInv, Served, Settings, Maybe
  <1>2. slots = SetCsi(acq)
    BY DEF SetupInv, Listening
  <1>3. acq \in SUBSET CsiFlags
    BY <1>1, AcquisitionType
  <1>4. /\ s.formats \in SUBSET PpduFormats /\ FilterOf(s) \in Maybe(Sources)
    BY <1>1, SetupFields
  <1>5. ASSUME chip \in HeChips, NEW f \in {"legacy", "forceLltf", "ht20", "ht40", "vht", "su", "mu"}
        PROVE  f \in slots <=> f \in acq
    BY <1>2, <1>3, <1>5, SlotsOfFlags
  <1>6. /\ chip \in {"classic", "c5", "c6"}
        /\ chip \in HeChips <=> chip # "classic"
        /\ peerFilter \in Sources \cup {AnySource}
        /\ filterOn <=> peerFilter # AnySource \/ minSigMode # 0
    BY <1>1 DEF Settings, HeChips
  <1>7. OnlyHe(s.formats) => acq = He20Acquisition /\ ExcludesLegacy(s.formats)
    BY <1>1 DEF ShutsOut, Acquisition, OnlyHe, ExcludesLegacy, LegacyFormats
  <1> HIDE DEF s, acq
  <1>8. ExcludesTheRest(s)
    <2> SUFFICES ASSUME NEW mac \in Sources, NEW f \in PpduFormats, Captured(mac, f)
                 PROVE  /\ FilterOf(s) \in {<<>>, <<mac>>}
                        /\ ExcludesLegacy(s.formats) => Estimate(f) = "full"
                        /\ IsAny(s.formats) \/ TakenInPart(s.formats) \/ f \in s.formats
      BY DEF ExcludesTheRest
    <2>1. Estimate(f) # "none" /\ PassesFilter(mac, f)
      BY DEF Captured
    <2>2. FilterOf(s) \in {<<>>, <<mac>>}
      <3>1. CASE FilterOf(s) # <<>>
        <4>1. PICK m \in Sources : FilterOf(s) = <<m>>
          BY <1>4, <3>1 DEF Maybe
        <4>2. peerFilter = m
          BY <1>1, <3>1, <4>1 DEF ShutsOut
        <4>3. m # AnySource /\ mac # AnySource
          BY AnySourceAssumption
        <4>4. peerFilter = mac
          BY <1>6, <2>1, <4>2, <4>3 DEF PassesFilter
        <4> QED BY <4>1, <4>2, <4>4
      <3> QED BY <3>1
    <2>3. ASSUME ExcludesLegacy(s.formats) PROVE Estimate(f) = "full"
      <3>1. CASE chip = "classic"
        <4>1. minSigMode = 1
          BY <1>1, <2>3, <3>1 DEF ShutsOut
        <4>2. SigMode(f) >= 1
          BY <1>6, <2>1, <3>1, <4>1 DEF PassesFilter
        <4>3. f \notin LegacyFormats
          <5> SUFFICES ASSUME f \in LegacyFormats PROVE FALSE
            OBVIOUS
          <5>1. SigMode(f) = 0
            BY DEF SigMode, LegacyFormats
          <5> QED BY <4>2, <5>1
        <4> QED BY <2>1, <3>1, <4>3 DEF Estimate, FullFlags
      <3>2. CASE chip \in HeChips
        <4>1. "legacy" \notin slots /\ "forceLltf" \notin slots
          BY <1>1, <1>5, <2>3, <3>2 DEF ShutsOut, acq
        <4>2. chip # "classic"
          BY <1>6, <3>2
        <4> QED BY <2>1, <4>1, <4>2 DEF Estimate, FullFlags, PpduFormats, LegacyFormats
      <3> QED BY <1>6, <3>1, <3>2
    <2>4. ASSUME OnlyHe(s.formats) PROVE f \in s.formats
      <3>1. chip \in HeChips /\ chip # "classic" /\ acq = He20Acquisition
        BY <1>1, <1>6, <1>7, <2>4 DEF Admitted
      <3>2. {"legacy", "forceLltf", "ht20", "ht40", "vht"} \cap slots = {}
        BY <1>5, <3>1, He20Flags
      <3>3. f = "He"
        BY <2>1, <3>1, <3>2 DEF Estimate, FullFlags, PpduFormats, LegacyFormats
      <3> QED BY <2>4, <3>3 DEF OnlyHe
    <2>5. IsAny(s.formats) \/ OnlyHe(s.formats) \/ ExcludesLegacy(s.formats)
      BY <1>1 DEF Admitted
    <2> QED BY <2>2, <2>3, <2>4, <2>5 DEF TakenInPart
  <1>9. ASSUME ~narrowed PROVE HearsTheWanted(s)
    <2> SUFFICES ASSUME NEW mac \in Sources, NEW f \in Decodable, Wanted(s, mac, f)
                 PROVE  Captured(mac, f)
      BY DEF HearsTheWanted
    <2>0. LeavesOpen(s) /\ Admitted(s)
      BY <1>1, <1>9
    <2>1. IsAny(s.formats) \/ f \in s.formats
      BY DEF Wanted
    <2>2. PassesFilter(mac, f)
      <3>1. peerFilter \in {AnySource, mac}
        <4>1. CASE FilterOf(s) = <<>>
          BY <2>0, <4>1 DEF LeavesOpen
        <4>2. CASE FilterOf(s) = <<mac>>
          BY <1>1, <4>2 DEF ShutsOut
        <4> QED BY <4>1, <4>2 DEF Wanted
      <3>2. ASSUME chip = "classic", minSigMode # 0 PROVE SigMode(f) >= minSigMode
        <4>1. ExcludesLegacy(s.formats) /\ minSigMode = 1
          BY <2>0, <3>2 DEF LeavesOpen
        <4>2. f \notin LegacyFormats
          BY <2>1, <4>1 DEF ExcludesLegacy, IsAny
        <4> QED BY <4>1, <4>2 DEF SigMode
      <3> QED BY <3>1, <3>2 DEF PassesFilter
    <2>3. Estimate(f) # "none"
      <3>1. CASE chip = "classic"
        BY <3>1 DEF Estimate, FullFlags
      <3>2. CASE chip \in HeChips
        <4>0. chip \in {"c5", "c6"} /\ chip # "classic" /\ f \in {"NonHt", "Ht", "Vht", "He"}
              /\ (f = "Vht" => chip = "c5")
          BY <1>6, <3>2 DEF Decodable, HeChips
        <4>1. CASE IsAny(s.formats)
          <5>1. acq = DefaultAcquisition
            BY <2>0, <3>2, <4>1 DEF LeavesOpen, FreshAcquisition, Acquisition, acq
          <5>2. /\ {"legacy", "ht20", "su"} \subseteq acq
                /\ chip = "c5" => "vht" \in acq
            BY <4>0, <5>1 DEF DefaultAcquisition
          <5>3. /\ {"legacy", "ht20", "su"} \subseteq slots
                /\ chip = "c5" => "vht" \in slots
            BY <1>5, <3>2, <5>2
          <5> QED BY <4>0, <5>3 DEF Estimate, FullFlags, LegacyFormats
        <4>2. CASE OnlyHe(s.formats)
          <5>1. f = "He"
            BY <2>1, <4>2 DEF OnlyHe, IsAny
          <5>2. "su" \in slots
            BY <1>5, <1>7, <3>2, <4>2, He20Flags
          <5> QED BY <4>0, <5>1, <5>2 DEF Estimate, FullFlags, LegacyFormats
        <4>3. CASE ExcludesLegacy(s.formats) /\ ~OnlyHe(s.formats)
          <5>1. acq = DefaultAcquisition \ {"legacy", "forceLltf"}
            BY <2>0, <3>2, <4>3
            DEF LeavesOpen, FreshAcquisition, Acquisition, acq, ExcludesLegacy, IsAny
          <5>2. /\ {"ht20", "su"} \subseteq acq
                /\ chip = "c5" => "vht" \in acq
            BY <4>0, <5>1 DEF DefaultAcquisition
          <5>3. /\ {"ht20", "su"} \subseteq slots
                /\ chip = "c5" => "vht" \in slots
            BY <1>5, <3>2, <5>2
          <5>4. f \notin LegacyFormats
            BY <2>1, <4>3 DEF ExcludesLegacy, IsAny
          <5> QED BY <4>0, <5>3, <5>4 DEF Estimate, FullFlags, LegacyFormats
        <4> QED BY <2>0, <4>1, <4>2, <4>3 DEF Admitted
      <3> QED BY <1>6, <3>1, <3>2
    <2> QED BY <2>2, <2>3 DEF Captured
  <1> QED BY <1>8, <1>9 DEF s

-----------------------------------------------------------------------------
(* The invariant. *)

LEMMA ModesAreRecords == Modes \subseteq ModeRecords
  BY DEF Modes, ModeRecords

LEMMA SetupInitInv == SetupInit => SetupInv
  <1> SUFFICES ASSUME SetupInit PROVE SetupInv
    OBVIOUS
  <1>1. mode \in ModeRecords
    BY ModesAreRecords DEF SetupInit
  <1>2. ownSetup \in OwnSetups /\ ownSetup.acquisition = <<>>
    <2>1. PICK width \in {<<>>, <<40>>} :
            ownSetup = [id |-> 0, hz |-> <<>>, width |-> width, acquisition |-> <<>>]
      BY DEF SetupInit
    <2>2. width \in Maybe(Nat) /\ <<>> \in Maybe(Nat) /\ <<>> \in Maybe(SUBSET CsiFlags)
      BY DEF Maybe
    <2> QED BY <2>1, <2>2 DEF OwnSetups
  <1>3. filterOn \in BOOLEAN /\ ~filterOn /\ running \in BOOLEAN /\ ~running /\ narrowed \in BOOLEAN
    BY Zenon DEF SetupInit
  <1>4. chip \in {"classic"} \cup HeChips /\ peerFilter = AnySource /\ minSigMode = 0
        /\ accepted = <<>> /\ calls = 0
    BY DEF SetupInit, HeChips
  <1>5. Settings
    BY <1>1, <1>2, <1>3, <1>4, MaxCallsAssumption DEF Settings, Maybe
  <1>6. Unrestricted
    BY <1>2, <1>4 DEF Unrestricted
  <1> QED BY <1>3, <1>4, <1>5, <1>6 DEF SetupInv, Served

\* The wire form of the node's own setup.
LEMMA WireFormIsSetup == Settings => WireForm \in Setups
  <1> SUFFICES ASSUME Settings PROVE WireForm \in Setups
    OBVIOUS
  <1>1. /\ ownSetup.id \in Nat /\ ownSetup.width \in Maybe(Nat) /\ ownSetup.hz \in Maybe(Nat)
    BY DEF Settings, OwnSetups
  <1> DEFINE hz == ownSetup.hz[1]
             d == IF hz = 0 THEN 1 ELSE hz
             w == IF ownSetup.width = <<>> THEN 20 ELSE ownSetup.width[1]
             stim == [period |-> Second \div d, width |-> w, raw |-> TRUE, responders |-> {}]
             stimulus == IF ownSetup.hz = <<>> THEN <<>> ELSE <<stim>>
  <1>2. w \in Nat
    BY <1>1 DEF Maybe
  <1>3. ASSUME ownSetup.hz # <<>> PROVE stim \in Stimuli
    <2>1. hz \in Nat
      BY <1>1, <1>3 DEF Maybe
    <2>2. d \in Nat \ {0}
      BY <2>1
    <2> HIDE DEF d
    <2>3. Second \div d \in Nat
      BY <2>2, HzRange, Quotient
    <2> HIDE DEF w
    <2> QED BY <1>2, <2>3 DEF Stimuli
  <1> HIDE DEF stim
  <1>4. stimulus \in Option(Stimuli)
    BY <1>3, OptionValues
  <1> HIDE DEF stimulus
  <1>5. ownSetup.width \in Option(Nat) /\ <<>> \in Option(Nat) /\ <<>> \in Option(Sources)
    BY <1>1, MaybeIsOption, OptionValues
  <1>6. WireForm = [id |-> ownSetup.id, channel |-> <<>>, width |-> ownSetup.width, formats |-> {},
                    transmitter |-> <<>>, stimulus |-> stimulus]
    BY Zenon DEF WireForm, stimulus, stim, w, d, hz
  <1> QED BY <1>1, <1>4, <1>5, <1>6 DEF Setups

\* A setup that is not refused has formats the chip can serve.
LEMMA TakenIsAdmitted ==
  ASSUME NEW s, chip \in {"classic"} \cup HeChips, ~Refused(s)
  PROVE  Admitted(s)
  BY DEF Admitted, Refused

\* What a setup taken on promises of the soundings.
LEMMA AppliedSounds ==
  ASSUME Settings, NEW s \in Setups, mode' = AppliedMode(s), ownSetup' = AppliedOwnSetup(s)
  PROVE  mode' \in ModeRecords /\ SoundsAsAsked(s)' /\ mode'.kind = mode.kind
  <1>0. /\ mode \in ModeRecords /\ ownSetup \in OwnSetups
        /\ s.id \in Nat /\ s.channel \in Maybe(Nat) /\ s.stimulus \in Maybe(Stimuli)
    BY SetupFields DEF Settings
  <1> DEFINE m == SetModeChannel(mode, s.channel)
  <1>1. /\ m \in ModeRecords /\ m.kind = mode.kind
        /\ s.channel # <<>> => /\ m.channel = s.channel[1]
                               /\ m.kind = "AccessPoint" => m.beacon = s.channel[1]
    <2>1. CASE s.channel = <<>>
      BY <1>0, <2>1 DEF SetModeChannel
    <2>2. CASE s.channel # <<>>
      <3>1. PICK c \in Nat : s.channel = <<c>>
        BY <1>0, <2>2 DEF Maybe
      <3> DEFINE b == IF mode.kind = "AccessPoint" THEN c ELSE mode.beacon
      <3>2. b \in Nat
        BY <1>0 DEF ModeRecords
      <3>3. m = [mode EXCEPT !.channel = c, !.beacon = b]
        BY <1>0, <2>2, <3>1 DEF SetModeChannel, ModeRecords
      <3>4. mode.kind = "AccessPoint" => b = c
        OBVIOUS
      <3> HIDE DEF m, b
      <3>5. m \in ModeRecords /\ m.kind = mode.kind /\ m.channel = c /\ m.beacon = b
        BY <1>0, <3>2, <3>3 DEF ModeRecords
      <3> QED BY <2>2, <3>1, <3>4, <3>5
    <2> QED BY <2>1, <2>2
  <1> HIDE DEF m
  <1>2. s.stimulus # <<>> => s.stimulus[1].period \in Nat
    BY <1>0 DEF Maybe, Stimuli
  <1> DEFINE p == s.stimulus[1].period
             sounding == s.stimulus # <<>> /\ mode.kind = "Emitter"
  <1>3. mode' = IF sounding THEN [m EXCEPT !.period = Second \div RateHz(p)] ELSE m
    BY DEF AppliedMode, m
  <1>4. sounding => Second \div RateHz(p) \in Nat
    BY <1>2, RateIsPositive, HzRange, Quotient
  <1> HIDE DEF p
  <1>5. /\ mode' \in ModeRecords /\ mode'.kind = m.kind /\ mode'.channel = m.channel
        /\ mode'.beacon = m.beacon
        /\ sounding => mode'.period = Second \div RateHz(p)
    BY <1>1, <1>3, <1>4 DEF ModeRecords
  <1>6. /\ ownSetup'.id = s.id
        /\ s.stimulus # <<>> /\ mode.kind # "Emitter" => ownSetup'.hz = <<RateHz(p)>>
    BY <1>0 DEF AppliedOwnSetup, OwnSetups, p
  <1>7. ASSUME s.stimulus # <<>>, p \in 16 .. Second
        PROVE  IF mode.kind = "Emitter"
               THEN mode'.period >= p /\ Second \div mode'.period = Second \div p
               ELSE ownSetup'.hz = <<Second \div p>>
    <2>1. /\ RateHz(p) = Second \div p /\ Second \div RateHz(p) >= p
          /\ Second \div (Second \div RateHz(p)) = Second \div p
      BY <1>7, RateOfPeriod
    <2> QED BY <1>5, <1>6, <1>7, <2>1
  <1> QED BY <1>1, <1>5, <1>6, <1>7 DEF SoundsAsAsked, p

\* What it leaves of the acquisition.
LEMMA AppliedFlags ==
  ASSUME Settings, NEW s \in Setups, Admitted(s), ownSetup' = AppliedOwnSetup(s), chip' = chip
  PROVE  /\ ownSetup' \in OwnSetups
         /\ OnlyHe(s.formats) => ownSetup'.acquisition = <<He20Acquisition>>
         /\ chip \in HeChips /\ ExcludesLegacy(s.formats)
              => {"legacy", "forceLltf"} \cap Acquisition(ownSetup)' = {}
         /\ ownSetup.acquisition = <<>> => ownSetup'.acquisition = FreshAcquisition(s)
  <1>0. /\ ownSetup \in OwnSetups /\ s.id \in Nat /\ s.stimulus \in Maybe(Stimuli)
        /\ ownSetup.acquisition \in Maybe(SUBSET CsiFlags) /\ ownSetup.hz \in Maybe(Nat)
        /\ chip \in {"classic"} \cup HeChips
    BY SetupFields DEF Settings, OwnSetups
  <1>1. Acquisition(ownSetup) \in SUBSET CsiFlags /\ He20Acquisition \in SUBSET CsiFlags
    BY <1>0, AcquisitionType, AcquisitionFlags
  <1> DEFINE a == AppliedAcquisition(s)
             hz == IF s.stimulus # <<>> /\ mode.kind # "Emitter"
                   THEN <<RateHz(s.stimulus[1].period)>> ELSE ownSetup.hz
  <1>2. a \in Maybe(SUBSET CsiFlags)
    BY <1>0, <1>1 DEF AppliedAcquisition, Maybe
  <1>3. hz \in Maybe(Nat)
    <2>1. CASE s.stimulus # <<>>
      <3>1. s.stimulus[1].period \in Nat
        BY <1>0, <2>1 DEF Maybe, Stimuli
      <3>2. RateHz(s.stimulus[1].period) \in Nat
        BY <3>1, RateIsPositive
      <3> QED BY <1>0, <3>2 DEF Maybe
    <2>2. CASE s.stimulus = <<>>
      BY <1>0, <2>2
    <2> QED BY <2>1, <2>2
  <1>4. ownSetup' = [ownSetup EXCEPT !.id = s.id, !.acquisition = a, !.hz = hz]
    BY DEF AppliedOwnSetup
  <1> HIDE DEF a, hz
  <1>5. ownSetup' \in OwnSetups /\ ownSetup'.acquisition = a
    BY <1>0, <1>2, <1>3, <1>4 DEF OwnSetups
  <1>6. OnlyHe(s.formats) => a = <<He20Acquisition>>
    BY DEF a, AppliedAcquisition, Admitted
  <1>7. OnlyHe(s.formats) => "legacy" \notin He20Acquisition /\ "forceLltf" \notin He20Acquisition
    BY He20Flags DEF Admitted
  <1>8. ASSUME chip \in HeChips, ExcludesLegacy(s.formats)
        PROVE  a # <<>> /\ {"legacy", "forceLltf"} \cap a[1] = {}
    BY <1>6, <1>7, <1>8 DEF a, AppliedAcquisition
  <1>9. Acquisition(ownSetup)' = IF a = <<>> THEN DefaultAcquisition ELSE a[1]
    BY <1>5 DEF Acquisition, DefaultAcquisition
  <1>10. ownSetup.acquisition = <<>> => a = FreshAcquisition(s)
    <2>1. ASSUME ownSetup.acquisition = <<>> PROVE Acquisition(ownSetup) = DefaultAcquisition
      BY <2>1 DEF Acquisition
    <2>2. IsAny(s.formats) => ~OnlyHe(s.formats) /\ ~ExcludesLegacy(s.formats)
      BY DEF IsAny, OnlyHe, ExcludesLegacy
    <2> QED BY <2>1, <2>2 DEF a, AppliedAcquisition, FreshAcquisition, Admitted
  <1> QED BY <1>5, <1>6, <1>8, <1>9, <1>10

\* Nothing but a call and a run's start or end.
LEMMA ServedStays ==
  ASSUME Served, running' \in BOOLEAN, calls' \in 0 .. MaxCalls,
         UNCHANGED <<chip, mode, ownSetup, peerFilter, minSigMode, filterOn, accepted, narrowed>>
  PROVE  Served'
  <1>1. /\ chip' = chip /\ mode' = mode /\ ownSetup' = ownSetup /\ peerFilter' = peerFilter
        /\ minSigMode' = minSigMode /\ accepted' = accepted
    OBVIOUS
  <1>2. narrowed' \in BOOLEAN /\ (narrowed' <=> narrowed)
    BY Zenon DEF Served, Settings
  <1>3. Settings'
    <2>1. filterOn' \in BOOLEAN /\ (filterOn' <=> filterOn)
      BY Zenon DEF Served, Settings
    <2> QED BY <1>1, <1>2, <2>1 DEF Served, Settings, ModeRecords, OwnSetups, Maybe
  <1> DEFINE s == accepted[1]
  <1>4. /\ DefaultAcquisition' = DefaultAcquisition /\ He20Acquisition' = He20Acquisition
        /\ Acquisition(ownSetup)' = Acquisition(ownSetup)
    BY <1>1 DEF DefaultAcquisition, He20Acquisition, Acquisition
  <1>5. /\ FilterOf(s)' = FilterOf(s) /\ OnlyHe(s.formats)' = OnlyHe(s.formats)
        /\ IsAny(s.formats)' = IsAny(s.formats)
        /\ ExcludesLegacy(s.formats)' = ExcludesLegacy(s.formats)
    BY <1>1 DEF FilterOf, OnlyHe, IsAny, ExcludesLegacy
  <1>6. Admitted(s) => Admitted(s)'
    BY <1>1, <1>5 DEF Admitted
  <1>7. ShutsOut(s) => ShutsOut(s)'
    BY <1>1, <1>4, <1>5 DEF ShutsOut
  <1>8. SoundsAsAsked(s) => SoundsAsAsked(s)'
    BY <1>1 DEF SoundsAsAsked
  <1>9. FreshAcquisition(s)' = FreshAcquisition(s)
    BY <1>1, <1>4, <1>5 DEF FreshAcquisition
  <1>10. LeavesOpen(s) => LeavesOpen(s)'
    BY <1>1, <1>5, <1>9 DEF LeavesOpen
  <1>11. Unrestricted => Unrestricted'
    BY <1>1 DEF Unrestricted
  <1> QED BY <1>1, <1>2, <1>3, <1>6, <1>7, <1>8, <1>10, <1>11 DEF Served

LEMMA ApplyStep ==
  ASSUME SetupInv, NEW s \in Setups, ApplyMeasurementSetup(s)
  PROVE  SetupInv'
  <1>0. /\ Settings /\ ~running /\ running' = running /\ chip' = chip /\ slots' = slots
        /\ calls' = calls + 1 /\ calls \in 0 .. MaxCalls /\ calls < MaxCalls /\ MaxCalls \in Nat
        /\ chip \in {"classic"} \cup HeChips
    BY MaxCallsAssumption DEF SetupInv, Served, Settings, ApplyMeasurementSetup, Call
  <1>1. CASE Refused(s)
    <2>1. UNCHANGED <<mode, ownSetup, filterVars, accepted, narrowed>>
      BY <1>1 DEF ApplyMeasurementSetup
    <2>2. Served'
      <3>1. UNCHANGED <<chip, mode, ownSetup, peerFilter, minSigMode, filterOn, accepted, narrowed>>
        BY <1>0, <2>1 DEF filterVars
      <3>2. calls' \in 0 .. MaxCalls
        BY <1>0
      <3>3. running' \in BOOLEAN
        BY <1>0 DEF Settings
      <3> QED BY <3>1, <3>2, <3>3, ServedStays DEF SetupInv
    <2> QED BY <1>0, <2>2 DEF SetupInv
  <1>2. CASE ~Refused(s)
    <2>0. /\ mode' = AppliedMode(s) /\ ownSetup' = AppliedOwnSetup(s) /\ accepted' = <<s>>
          /\ peerFilter' = IF FilterOf(s) = <<>> THEN peerFilter ELSE FilterOf(s)[1]
          /\ minSigMode' = MinSigMode(s)
      BY <1>2 DEF ApplyMeasurementSetup, StoreFilters
    <2>1. /\ filterOn' \in BOOLEAN /\ (filterOn' <=> peerFilter' # AnySource \/ minSigMode' # 0)
      <3>1. filterOn' = (peerFilter' # AnySource \/ minSigMode' # 0)
        BY <1>2, Zenon DEF ApplyMeasurementSetup, StoreFilters, Refresh
      <3> QED BY <3>1, Zenon
    <2>2. narrowed' \in BOOLEAN /\ (narrowed' <=> narrowed \/ (accepted # <<>> /\ Narrowing(accepted[1])))
      BY <1>2, Zenon DEF ApplyMeasurementSetup
    <2>3. Admitted(s)
      BY <1>0, <1>2, TakenIsAdmitted
    <2>4. FilterOf(s) \in Maybe(Sources)
      BY SetupFields
    <2>5. /\ peerFilter' \in Sources \cup {AnySource} /\ minSigMode' \in {0, 1}
      BY <1>0, <2>0, <2>4 DEF Settings, Maybe, MinSigMode
    <2>6. mode' \in ModeRecords /\ SoundsAsAsked(s)'
      BY <1>0, <2>0, AppliedSounds
    <2>7. /\ ownSetup' \in OwnSetups
          /\ OnlyHe(s.formats) => ownSetup'.acquisition = <<He20Acquisition>>
          /\ chip \in HeChips /\ ExcludesLegacy(s.formats)
               => {"legacy", "forceLltf"} \cap Acquisition(ownSetup)' = {}
          /\ ownSetup.acquisition = <<>> => ownSetup'.acquisition = FreshAcquisition(s)
      BY <1>0, <2>0, <2>3, AppliedFlags
    <2>8. Settings'
      BY <1>0, <2>0, <2>1, <2>2, <2>5, <2>6, <2>7 DEF Settings, Maybe
    <2>9. Admitted(s)' /\ ShutsOut(s)'
      BY <1>0, <2>0, <2>3, <2>7
      DEF Admitted, ShutsOut, MinSigMode, IsAny, OnlyHe, ExcludesLegacy, FilterOf, He20Acquisition,
          DefaultAcquisition
    <2>10. ASSUME ~narrowed' PROVE LeavesOpen(s)'
      <3>1. ~narrowed /\ (accepted # <<>> => ~Narrowing(accepted[1]))
        BY <2>2, <2>10
      <3>2. Unrestricted
        <4>1. CASE accepted = <<>>
          BY <3>1, <4>1 DEF SetupInv, Served
        <4>2. CASE accepted # <<>>
          <5>1. LeavesOpen(accepted[1]) /\ FilterOf(accepted[1]) = <<>> /\ IsAny(accepted[1].formats)
            BY <3>1, <4>2 DEF SetupInv, Served, Narrowing
          <5> QED BY <5>1 DEF LeavesOpen, Unrestricted, FreshAcquisition, IsAny, ExcludesLegacy
        <4> QED BY <4>1, <4>2
      <3>3. /\ FilterOf(s) = <<>> => peerFilter' = AnySource
            /\ minSigMode' = IF chip = "classic" /\ ExcludesLegacy(s.formats) THEN 1 ELSE 0
            /\ ownSetup'.acquisition = FreshAcquisition(s)
        BY <2>0, <2>7, <3>2 DEF Unrestricted, MinSigMode
      <3>4. FreshAcquisition(s)' = FreshAcquisition(s)
        BY <1>0 DEF FreshAcquisition, DefaultAcquisition, He20Acquisition, IsAny, OnlyHe
      <3> QED BY <1>0, <3>3, <3>4 DEF LeavesOpen, ExcludesLegacy, FilterOf
    <2>11. accepted'[1] = s /\ accepted' # <<>>
      BY <2>0
    <2> QED BY <1>0, <2>6, <2>8, <2>9, <2>10, <2>11 DEF SetupInv, Served
  <1> QED BY <1>1, <1>2

LEMMA SetupStep == SetupInv /\ [SetupNext]_setupVars => SetupInv'
  <1> SUFFICES ASSUME SetupInv, [SetupNext]_setupVars PROVE SetupInv'
    OBVIOUS
  <1>0. /\ Settings /\ calls \in 0 .. MaxCalls /\ MaxCalls \in Nat /\ ownSetup \in OwnSetups
        /\ mode \in ModeRecords
    BY MaxCallsAssumption DEF SetupInv, Served, Settings
  <1>1. ASSUME NEW s \in WireSetups, ApplyMeasurementSetup(s) PROVE SetupInv'
    <2>1. s \in Setups
      BY WireSetupsAssumption
    <2> QED BY <1>1, <2>1, ApplyStep
  <1>2. CASE ApplyMeasurementSetup(WireForm)
    <2>1. WireForm \in Setups
      BY <1>0, WireFormIsSetup
    <2> QED BY <1>2, <2>1, ApplyStep
  \* A call that replaces the setup and leaves the acquisition and the filters.
  <1>3. ASSUME Reconfigure, mode' \in ModeRecords, ownSetup' \in OwnSetups,
               ownSetup'.acquisition = ownSetup.acquisition
        PROVE  SetupInv'
    <2>1. /\ ~running /\ calls < MaxCalls /\ calls' = calls + 1 /\ accepted' = <<>>
          /\ UNCHANGED <<chip, filterVars, running, slots>>
      BY <1>3 DEF Reconfigure, Call
    <2>2. narrowed' \in BOOLEAN /\ (narrowed' <=> narrowed \/ (accepted # <<>> /\ Narrowing(accepted[1])))
      BY <1>3, Zenon DEF Reconfigure
    <2>3. Settings'
      BY <1>0, <1>3, <2>1, <2>2 DEF Settings, filterVars, Maybe
    <2>4. ASSUME ~narrowed' PROVE Unrestricted'
      <3>1. ~narrowed /\ (accepted # <<>> => ~Narrowing(accepted[1]))
        BY <2>2, <2>4
      <3>2. Unrestricted
        <4>1. CASE accepted = <<>>
          BY <3>1, <4>1 DEF SetupInv, Served
        <4>2. CASE accepted # <<>>
          <5>1. LeavesOpen(accepted[1]) /\ FilterOf(accepted[1]) = <<>> /\ IsAny(accepted[1].formats)
            BY <3>1, <4>2 DEF SetupInv, Served, Narrowing
          <5> QED BY <5>1 DEF LeavesOpen, Unrestricted, FreshAcquisition, IsAny, ExcludesLegacy
        <4> QED BY <4>1, <4>2
      <3> QED BY <1>3, <2>1, <3>2 DEF Unrestricted, filterVars
    <2> QED BY <2>1, <2>3, <2>4 DEF SetupInv, Served
  <1>4. ASSUME NEW m \in Modes, SetMode(m) PROVE SetupInv'
    BY <1>0, <1>3, <1>4, ModesAreRecords DEF SetMode
  <1>5. ASSUME NEW hz \in {0, 100, 1500}, SetPeriodicity(hz) PROVE SetupInv'
    <2>1. hz \in Nat
      OBVIOUS
    <2>2. <<hz>> \in Maybe(Nat)
      BY <2>1 DEF Maybe
    <2>3. /\ Reconfigure /\ mode' = mode
          /\ ownSetup' = [ownSetup EXCEPT !.hz = <<hz>>]
      BY <1>5 DEF SetPeriodicity
    <2>4. ownSetup' \in OwnSetups /\ ownSetup'.acquisition = ownSetup.acquisition
      BY <1>0, <2>2, <2>3 DEF OwnSetups
    <2> QED BY <1>0, <1>3, <2>3, <2>4
  <1>6. ASSUME NEW forty \in BOOLEAN, SetCsiConfig(HtAcquisition(forty)) PROVE SetupInv'
    <2>1. <<HtAcquisition(forty)>> \in Maybe(SUBSET CsiFlags)
      BY <1>0, AcquisitionFlags DEF Settings, Maybe
    <2>2. /\ ownSetup' = [ownSetup EXCEPT !.acquisition = <<HtAcquisition(forty)>>]
          /\ ~running /\ calls < MaxCalls /\ calls' = calls + 1 /\ accepted' = <<>>
          /\ UNCHANGED <<chip, mode, filterVars, running, slots>>
      BY <1>6 DEF SetCsiConfig, Call
    <2>3. narrowed' \in BOOLEAN /\ narrowed'
      BY <1>6, Zenon DEF SetCsiConfig
    <2>4. ownSetup' \in OwnSetups
      BY <1>0, <2>1, <2>2 DEF OwnSetups
    <2>5. Settings'
      BY <1>0, <2>2, <2>3, <2>4 DEF Settings, filterVars, Maybe
    <2> QED BY <2>2, <2>3, <2>5 DEF SetupInv, Served
  \* The filters are written, perhaps during a run.
  <1>7. ASSUME NEW peer \in Sources \cup {AnySource}, NEW min \in {0, 1}, StoreFilters(peer, min),
               Call, accepted' = <<>>, narrowed' = TRUE,
               UNCHANGED <<chip, mode, ownSetup, running, slots>>
        PROVE  SetupInv'
    <2>1. narrowed' \in BOOLEAN /\ narrowed'
      BY <1>7, Zenon
    <2>2. filterOn' \in BOOLEAN /\ (filterOn' <=> peerFilter' # AnySource \/ minSigMode' # 0)
      <3>1. filterOn' = (peerFilter' # AnySource \/ minSigMode' # 0)
        BY <1>7, Zenon DEF StoreFilters, Refresh
      <3> QED BY <3>1, Zenon
    <2>3. Settings'
      BY <1>0, <1>7, <2>1, <2>2 DEF Settings, StoreFilters, Call, Maybe
    <2>4. running /\ mode.kind # "Emitter" => slots' = SetCsi(Acquisition(ownSetup))'
      BY <1>7 DEF SetupInv, SetCsi, Acquisition, DefaultAcquisition
    <2> QED BY <1>7, <2>1, <2>3, <2>4 DEF SetupInv, Served
  <1>8. ASSUME NEW mac \in Sources \cup {AnySource}, SetPeerFilter(mac) PROVE SetupInv'
    <2>1. minSigMode \in {0, 1}
      BY <1>0 DEF Settings
    <2> QED BY <1>7, <1>8, <2>1 DEF SetPeerFilter
  <1>9. ASSUME NEW min \in {0, 1}, SetMinSigMode(min) PROVE SetupInv'
    <2>1. peerFilter \in Sources \cup {AnySource}
      BY <1>0 DEF Settings
    <2> QED BY <1>7, <1>9, <2>1 DEF SetMinSigMode
  \* Runs begin and end.
  <1>10. ASSUME UNCHANGED <<chip, mode, ownSetup, filterVars, calls, accepted, narrowed>>,
                running' \in BOOLEAN
         PROVE  Served'
    <2>1. UNCHANGED <<chip, mode, ownSetup, peerFilter, minSigMode, filterOn, accepted, narrowed>>
      BY <1>10 DEF filterVars
    <2>2. calls' \in 0 .. MaxCalls
      BY <1>0, <1>10
    <2> QED BY <1>10, <2>1, <2>2, ServedStays DEF SetupInv
  <1>11. CASE StartNode
    <2>1. running' \in BOOLEAN
      BY <1>11, Zenon DEF StartNode
    <2>2. mode.kind # "Emitter" => slots' = SetCsi(Acquisition(ownSetup))
      BY <1>11 DEF StartNode
    <2>3. SetCsi(Acquisition(ownSetup))' = SetCsi(Acquisition(ownSetup)) /\ mode' = mode
      BY <1>11 DEF StartNode, SetCsi, Acquisition, DefaultAcquisition
    <2> QED BY <1>10, <1>11, <2>1, <2>2, <2>3 DEF StartNode, SetupInv
  <1>12. CASE EndNode
    <2>1. running' \in BOOLEAN /\ ~running'
      BY <1>12, Zenon DEF EndNode
    <2> QED BY <1>10, <1>12, <2>1 DEF EndNode, SetupInv
  <1>13. CASE UNCHANGED setupVars
    <2>1. running' \in BOOLEAN /\ running' = running /\ slots' = slots
      BY <1>0, <1>13 DEF setupVars, Settings
    <2>2. SetCsi(Acquisition(ownSetup))' = SetCsi(Acquisition(ownSetup)) /\ mode' = mode
      BY <1>13 DEF setupVars, SetCsi, Acquisition, DefaultAcquisition
    <2>3. UNCHANGED <<chip, mode, ownSetup, filterVars, calls, accepted, narrowed>>
      BY <1>13 DEF setupVars, filterVars
    <2> QED BY <1>10, <2>1, <2>2, <2>3 DEF SetupInv, Served
  <1> QED BY <1>1, <1>2, <1>4, <1>5, <1>6, <1>8, <1>9, <1>11, <1>12, <1>13 DEF SetupNext

(* Types; CSI_FILTER_ACTIVE always says whether a filter is set.             *)
THEOREM SetupTypes == SetupSpec => []SetupTypeOK
  <1>1. ASSUME Settings PROVE SetupTypeOK
    <2>1. filterOn = (peerFilter # AnySource \/ minSigMode # 0)
      BY <1>1, Zenon DEF Settings
    <2>2. Len(accepted) <= 1
      <3>1. accepted = <<>> => Len(accepted) = 0
        OBVIOUS
      <3>2. (\E s \in Setups : accepted = <<s>>) => Len(accepted) = 1
        OBVIOUS
      <3>3. accepted = <<>> \/ \E s \in Setups : accepted = <<s>>
        BY <1>1, Zenon DEF Settings, Maybe
      <3>4. PICK n \in 0 .. 1 : Len(accepted) = n
        BY <3>1, <3>2, <3>3
      <3> QED BY <3>4
    <2> QED BY <1>1, <2>1, <2>2 DEF Settings, SetupTypeOK, ModeRecords
  <1>2. SetupInv => SetupTypeOK
    BY <1>1 DEF SetupInv, Served
  <1> QED BY <1>2, SetupInitInv, SetupStep, PTL DEF SetupSpec

(* A run under a setup that was taken on sounds as asked and captures no     *)
(* other transmitter than it names, no legacy estimate when it leaves legacy *)
(* out, and no format it leaves out unless its formats were taken in part;   *)
(* and all it asks for, unless an earlier call narrowed what is captured     *)
(* (apply_measurement_setup, run_inner, set_csi).                            *)
THEOREM SetupsHonoured == SetupSpec => []SetupsTakeEffect
  <1>1. SetupSpec => []SetupInv
    BY SetupInitInv, SetupStep, PTL DEF SetupSpec
  <1> QED BY <1>1, HonouredWhenListening, PTL

(***************************************************************************)
(* CsiLog, for every capacity of the two channels.                          *)
(***************************************************************************)

USE CsiCapacityAssumption, TextCapacityAssumption

\* The type invariant in three parts: flags, places and channels.
LogFlags ==
    /\ asyncActive \in BOOLEAN /\ headerPrinted \in BOOLEAN
    /\ headless \in BOOLEAN /\ raced \in BOOLEAN /\ spoiled \in BOOLEAN

LogPlaces ==
    /\ logMode \in LogModes
    /\ drainPc \in LogModes \cup {"select", "tool_row", "texts"}
    /\ writePc \in LogModes \cup {"idle", "tool_row"}
    /\ linePc \in {"idle", "text", "close"} /\ setPc \in {"idle", "header"}
    /\ unread \in {"nothing", "rows", "message"}
    /\ format \in LogModes \cup {"none"}

LogChannels ==
    /\ csiChannel \in 0 .. CsiCapacity
    /\ textChannel \in 0 .. TextCapacity /\ waiting \in 0 .. textChannel

LEMMA TypesInParts == LogTypeOK <=> LogFlags /\ LogPlaces /\ LogChannels
  <1>1. {asyncActive, headerPrinted, headless, raced, spoiled} \subseteq BOOLEAN <=> LogFlags
    BY Zenon DEF LogFlags
  <1> QED BY <1>1, Zenon DEF LogTypeOK, LogPlaces, LogChannels

LEMMA LogInitTypes == LogInit => LogFlags /\ LogPlaces /\ LogChannels
  <1>1. LogInit => LogFlags
    BY Zenon DEF LogInit, LogFlags
  <1>2. LogInit => LogPlaces
    BY DEF LogInit, LogPlaces, LogModes
  <1>3. LogInit => LogChannels
    BY DEF LogInit, LogChannels
  <1> QED BY <1>1, <1>2, <1>3

LEMMA FlagsStep == LogFlags /\ [LogNext]_logVars => LogFlags'
  <1> SUFFICES ASSUME LogFlags, [LogNext]_logVars PROVE LogFlags'
    OBVIOUS
  <1> USE DEF LogFlags, PutRow, PutPacket, PutHeader, PutText, linkVars
  <1>1. ASSUME NEW m \in LogModes, StoreLogMode(m) PROVE LogFlags'
    BY <1>1, Zenon DEF StoreLogMode
  <1>2. ASSUME NEW m \in LogModes, SetLogMode(m) PROVE LogFlags'
    BY <1>2, Zenon DEF SetLogMode
  <1>3. CASE ForgetHeader
    BY <1>3, Zenon DEF ForgetHeader
  <1>4. CASE QueueCsi
    BY <1>4, Zenon DEF QueueCsi, callbackRest
  <1>5. CASE BeginInline
    BY <1>5, Zenon DEF BeginInline, callbackRest
  <1>6. CASE InlineSerialized
    BY <1>6, Zenon DEF InlineSerialized, callbackRest
  <1>7. CASE InlineArray
    BY <1>7, Zenon DEF InlineArray, callbackRest
  <1>8. CASE InlineText
    BY <1>8, Zenon DEF InlineText, callbackRest
  <1>9. CASE InlineToolHeader
    BY <1>9, Zenon DEF InlineToolHeader, callbackRest
  <1>10. CASE InlineToolRow
    BY <1>10, Zenon DEF InlineToolRow, callbackRest
  <1>11. CASE QueueText
    BY <1>11, Zenon DEF QueueText, taskRest
  <1>12. CASE PrintLine
    BY <1>12, Zenon DEF PrintLine, taskRest
  <1>13. CASE OpenLine
    BY <1>13, Zenon DEF OpenLine, taskRest
  <1>14. CASE LineText
    BY <1>14, Zenon DEF LineText, taskRest
  <1>15. CASE CloseLine
    BY <1>15, Zenon DEF CloseLine, taskRest
  <1>16. CASE TakePacket
    BY <1>16, Zenon DEF TakePacket, drainRest
  <1>17. CASE SelectText
    BY <1>17, Zenon DEF SelectText, TakeText, WriteTextFramed, drainRest
  <1>18. CASE DrainSerialized
    BY <1>18, Zenon DEF DrainSerialized, drainRest
  <1>19. CASE DrainArray
    BY <1>19, Zenon DEF DrainArray, drainRest
  <1>20. CASE DrainText
    BY <1>20, Zenon DEF DrainText, drainRest
  <1>21. CASE DrainToolHeader
    BY <1>21, Zenon DEF DrainToolHeader, drainRest
  <1>22. CASE DrainToolRow
    BY <1>22, Zenon DEF DrainToolRow, drainRest
  <1>23. CASE DrainTexts
    BY <1>23, Zenon DEF DrainTexts, TakeText, WriteTextFramed, drainRest
  <1>24. CASE UNCHANGED logVars
    BY <1>24, Zenon DEF logVars, queueVars, logPcs
  <1> QED
    BY <1>1, <1>2, <1>3, <1>4, <1>5, <1>6, <1>7, <1>8, <1>9, <1>10, <1>11, <1>12, <1>13,
       <1>14, <1>15, <1>16, <1>17, <1>18, <1>19, <1>20, <1>21, <1>22, <1>23, <1>24, Zenon
    DEF LogNext, LoggerBackend

LEMMA PlacesStep == LogPlaces /\ [LogNext]_logVars => LogPlaces'
  <1> SUFFICES ASSUME LogPlaces, [LogNext]_logVars PROVE LogPlaces'
    OBVIOUS
  <1> USE DEF LogPlaces, LogModes, PutRow, PutPacket, PutHeader, PutText, linkVars
  <1>1. ASSUME NEW m \in LogModes, StoreLogMode(m) \/ SetLogMode(m) PROVE LogPlaces'
    <2>1. /\ logMode' = m /\ setPc' \in {setPc, "header"}
          /\ UNCHANGED <<drainPc, writePc, linePc, unread, format>>
      BY <1>1, Zenon DEF StoreLogMode, SetLogMode, logPcs
    <2> QED BY <2>1
  <1>0. CASE ForgetHeader
    BY <1>0 DEF ForgetHeader
  <1>2. CASE \/ QueueCsi \/ BeginInline \/ InlineSerialized \/ InlineArray \/ InlineText
             \/ InlineToolHeader \/ InlineToolRow
    BY <1>2 DEF QueueCsi, BeginInline, InlineSerialized, InlineArray, InlineText,
                InlineToolHeader, InlineToolRow, callbackRest
  <1>3. CASE QueueText \/ PrintLine \/ OpenLine \/ LineText \/ CloseLine
    BY <1>3 DEF QueueText, PrintLine, OpenLine, LineText, CloseLine, taskRest
  <1>4. CASE TakePacket \/ SelectText \/ DrainTexts
    BY <1>4 DEF TakePacket, SelectText, DrainTexts, TakeText, WriteTextFramed, drainRest
  <1>5. CASE DrainSerialized \/ DrainArray \/ DrainText \/ DrainToolHeader \/ DrainToolRow
    BY <1>5 DEF DrainSerialized, DrainArray, DrainText, DrainToolHeader, DrainToolRow,
                drainRest
  <1>6. CASE UNCHANGED logVars
    BY <1>6 DEF logVars, queueVars, logPcs
  <1> QED BY <1>0, <1>1, <1>2, <1>3, <1>4, <1>5, <1>6, Zenon DEF LogNext, LoggerBackend

LEMMA ChannelsStep == LogChannels /\ [LogNext]_logVars => LogChannels'
  <1> SUFFICES ASSUME LogChannels, [LogNext]_logVars PROVE LogChannels'
    OBVIOUS
  <1> USE DEF LogChannels, queueVars
  <1>1. CASE \/ \E m \in LogModes : StoreLogMode(m)
             \/ \E m \in LogModes : SetLogMode(m)
             \/ ForgetHeader
    BY <1>1, Zenon DEF StoreLogMode, SetLogMode, ForgetHeader
  <1>2. CASE QueueCsi
    BY <1>2 DEF QueueCsi, callbackRest
  <1>3. CASE \/ BeginInline \/ InlineSerialized \/ InlineArray \/ InlineText
             \/ InlineToolHeader \/ InlineToolRow
    BY <1>3, Zenon DEF BeginInline, InlineSerialized, InlineArray, InlineText,
                InlineToolHeader, InlineToolRow, callbackRest
  <1>4. CASE QueueText
    BY <1>4 DEF QueueText, taskRest
  <1>5. CASE PrintLine \/ OpenLine \/ LineText \/ CloseLine
    BY <1>5, Zenon DEF PrintLine, OpenLine, LineText, CloseLine, taskRest
  <1>6. CASE TakePacket
    BY <1>6 DEF TakePacket
  <1>7. CASE TakeText
    BY <1>7 DEF TakeText
  <1>8. CASE \/ DrainSerialized \/ DrainArray \/ DrainText \/ DrainToolHeader \/ DrainToolRow
             \/ UNCHANGED <<csiChannel, queueVars>>
    BY <1>8, Zenon DEF DrainSerialized, DrainArray, DrainText, DrainToolHeader, DrainToolRow
  <1>9. CASE UNCHANGED logVars
    BY <1>9, Zenon DEF logVars
  <1> QED
    BY <1>1, <1>2, <1>3, <1>4, <1>5, <1>6, <1>7, <1>8, <1>9, Zenon
    DEF LogNext, LoggerBackend, SelectText, DrainTexts

LEMMA TypesStep == LogTypeOK /\ [LogNext]_logVars => LogTypeOK'
  BY TypesInParts, FlagsStep, PlacesStep, ChannelsStep, PTL

-----------------------------------------------------------------------------
(* The invariants of the link. *)

\* The asynchronous back end never writes in the callback or where a line is
\* logged, and the inline one has no logger task.
BackEndInv ==
    /\ asyncActive => writePc = "idle" /\ linePc = "idle" /\ setPc = "idle"
    /\ ~asyncActive => drainPc = "select" /\ csiChannel = 0 /\ textChannel = 0

\* The asynchronous link never ends in an open message.
FramingInv == asyncActive => unread # "message" /\ ~spoiled

\* Unless the inline callback raced with set_log_mode, a row is never headless:
\* whoever is about to write a CSI-tool row comes after a row or header of that
\* kind, and under a header that was printed no packet of another format is held.
HeaderInv == ~raced =>
    /\ ~headless
    /\ writePc # "idle" => setPc = "idle"
    /\ "tool_row" \in {drainPc, writePc} => format = "tool"
    /\ headerPrinted /\ setPc = "idle" =>
          /\ "tool" \in {logMode, drainPc, writePc} => format = "tool"
          /\ logMode = "tool" => {drainPc, writePc} \cap {"text", "serialized", "array"} = {}

LEMMA LogInitInvs == LogInit => BackEndInv /\ FramingInv /\ HeaderInv
  BY DEF LogInit, BackEndInv, FramingInv, HeaderInv

LEMMA BackEndStep ==
    BackEndInv /\ LogChannels /\ [LogNext]_logVars => BackEndInv'
  <1> SUFFICES ASSUME BackEndInv, LogChannels, [LogNext]_logVars PROVE BackEndInv'
    OBVIOUS
  <1> USE DEF BackEndInv, queueVars
  <1>1. ASSUME NEW m \in LogModes, StoreLogMode(m) PROVE BackEndInv'
    BY <1>1, Zenon DEF StoreLogMode
  <1>2. ASSUME NEW m \in LogModes, SetLogMode(m) PROVE BackEndInv'
    BY <1>2, Zenon DEF SetLogMode, logPcs
  <1>3. CASE ForgetHeader
    BY <1>3, Zenon DEF ForgetHeader
  <1>4. CASE QueueCsi
    BY <1>4, Zenon DEF QueueCsi, callbackRest
  <1>5. CASE BeginInline
    BY <1>5, Zenon DEF BeginInline, callbackRest
  <1>6. CASE InlineSerialized
    BY <1>6, Zenon DEF InlineSerialized, callbackRest
  <1>7. CASE InlineArray
    BY <1>7, Zenon DEF InlineArray, callbackRest
  <1>8. CASE InlineText
    BY <1>8, Zenon DEF InlineText, callbackRest
  <1>9. CASE InlineToolHeader
    BY <1>9, Zenon DEF InlineToolHeader, callbackRest
  <1>10. CASE InlineToolRow
    BY <1>10, Zenon DEF InlineToolRow, callbackRest
  <1>11. CASE QueueText
    BY <1>11, Zenon DEF QueueText, taskRest
  <1>12. CASE PrintLine
    BY <1>12, Zenon DEF PrintLine, CalledInline, taskRest
  <1>13. CASE OpenLine
    BY <1>13, Zenon DEF OpenLine, CalledInline, taskRest
  <1>14. CASE LineText
    BY <1>14, Zenon DEF LineText, CalledInline, taskRest
  <1>15. CASE CloseLine
    BY <1>15, Zenon DEF CloseLine, CalledInline, taskRest
  <1>16. CASE TakePacket
    BY <1>16 DEF TakePacket, drainRest
  <1>17. CASE SelectText
    BY <1>17 DEF SelectText, TakeText, WriteTextFramed, drainRest
  <1>18. CASE DrainSerialized
    BY <1>18, Zenon DEF DrainSerialized, drainRest
  <1>19. CASE DrainArray
    BY <1>19, Zenon DEF DrainArray, drainRest
  <1>20. CASE DrainText
    BY <1>20, Zenon DEF DrainText, drainRest
  <1>21. CASE DrainToolHeader
    BY <1>21, Zenon DEF DrainToolHeader, drainRest
  <1>22. CASE DrainToolRow
    BY <1>22, Zenon DEF DrainToolRow, drainRest
  <1>23. CASE DrainTexts
    BY <1>23, Zenon DEF DrainTexts, TakeText, WriteTextFramed, drainRest
  <1>24. CASE UNCHANGED logVars
    BY <1>24, Zenon DEF logVars, queueVars, logPcs
  <1> QED
    BY <1>1, <1>2, <1>3, <1>4, <1>5, <1>6, <1>7, <1>8, <1>9, <1>10, <1>11, <1>12, <1>13, <1>14,
       <1>15, <1>16, <1>17, <1>18, <1>19, <1>20, <1>21, <1>22, <1>23, <1>24, Zenon
    DEF LogNext, LoggerBackend

LEMMA FramingStep ==
    BackEndInv /\ FramingInv /\ [LogNext]_logVars => FramingInv'
  <1> SUFFICES ASSUME BackEndInv, FramingInv, [LogNext]_logVars PROVE FramingInv'
    OBVIOUS
  <1> USE DEF BackEndInv, FramingInv, PutRow, PutPacket, PutHeader, PutText, linkVars
  <1>1. ASSUME NEW m \in LogModes, StoreLogMode(m) PROVE FramingInv'
    BY <1>1, Zenon DEF StoreLogMode
  <1>2. ASSUME NEW m \in LogModes, SetLogMode(m) PROVE FramingInv'
    BY <1>2, Zenon DEF SetLogMode, logPcs
  <1>3. CASE ForgetHeader
    BY <1>3, Zenon DEF ForgetHeader
  <1>4. CASE QueueCsi
    BY <1>4, Zenon DEF QueueCsi, callbackRest
  <1>5. CASE BeginInline
    BY <1>5, Zenon DEF BeginInline, callbackRest
  <1>6. CASE InlineSerialized
    BY <1>6, Zenon DEF InlineSerialized, callbackRest
  <1>7. CASE InlineArray
    BY <1>7, Zenon DEF InlineArray, callbackRest
  <1>8. CASE InlineText
    BY <1>8, Zenon DEF InlineText, callbackRest
  <1>9. CASE InlineToolHeader
    BY <1>9, Zenon DEF InlineToolHeader, callbackRest
  <1>10. CASE InlineToolRow
    BY <1>10, Zenon DEF InlineToolRow, callbackRest
  <1>11. CASE QueueText
    BY <1>11, Zenon DEF QueueText, taskRest
  <1>12. CASE PrintLine
    BY <1>12, Zenon DEF PrintLine, CalledInline, taskRest
  <1>13. CASE OpenLine
    BY <1>13, Zenon DEF OpenLine, CalledInline, taskRest
  <1>14. CASE LineText
    BY <1>14, Zenon DEF LineText, CalledInline, taskRest
  <1>15. CASE CloseLine
    BY <1>15, Zenon DEF CloseLine, CalledInline, taskRest
  <1>16. CASE TakePacket
    BY <1>16, Zenon DEF TakePacket, drainRest
  <1>17. CASE SelectText
    BY <1>17, Zenon DEF SelectText, TakeText, WriteTextFramed, drainRest
  <1>18. CASE DrainSerialized
    BY <1>18, Zenon DEF DrainSerialized, drainRest
  <1>19. CASE DrainArray
    BY <1>19, Zenon DEF DrainArray, drainRest
  <1>20. CASE DrainText
    BY <1>20, Zenon DEF DrainText, drainRest
  <1>21. CASE DrainToolHeader
    BY <1>21, Zenon DEF DrainToolHeader, drainRest
  <1>22. CASE DrainToolRow
    BY <1>22, Zenon DEF DrainToolRow, drainRest
  <1>23. CASE DrainTexts
    BY <1>23, Zenon DEF DrainTexts, TakeText, WriteTextFramed, drainRest
  <1>24. CASE UNCHANGED logVars
    BY <1>24, Zenon DEF logVars, queueVars, logPcs
  <1> QED
    BY <1>1, <1>2, <1>3, <1>4, <1>5, <1>6, <1>7, <1>8, <1>9, <1>10, <1>11, <1>12, <1>13, <1>14,
       <1>15, <1>16, <1>17, <1>18, <1>19, <1>20, <1>21, <1>22, <1>23, <1>24, Zenon
    DEF LogNext, LoggerBackend

LEMMA HeaderStep ==
    LogPlaces /\ BackEndInv /\ HeaderInv /\ [LogNext]_logVars => HeaderInv'
  <1> SUFFICES ASSUME LogPlaces, BackEndInv, HeaderInv, [LogNext]_logVars PROVE HeaderInv'
    OBVIOUS
  <1> USE DEF BackEndInv, HeaderInv, PutRow, PutPacket, PutHeader, PutText, linkVars
  <1>1. ASSUME NEW m \in LogModes, StoreLogMode(m) PROVE HeaderInv'
    BY <1>1, Zenon DEF StoreLogMode
  <1>2. ASSUME NEW m \in LogModes, SetLogMode(m) PROVE HeaderInv'
    BY <1>2, Zenon DEF SetLogMode, logPcs
  <1>3. CASE ForgetHeader
    BY <1>3, Zenon DEF ForgetHeader
  <1>4. CASE QueueCsi
    BY <1>4, Zenon DEF QueueCsi, callbackRest
  <1>5. CASE BeginInline
    <2> SUFFICES ASSUME ~raced' PROVE HeaderInv'
      BY Zenon
    <2>1. ~raced /\ setPc = "idle" /\ drainPc = "select" /\ writePc' = logMode
      BY <1>5, Zenon DEF BeginInline, callbackRest
    <2>2. UNCHANGED <<headless, setPc, drainPc, format, headerPrinted, logMode>>
      BY <1>5, Zenon DEF BeginInline, callbackRest
    <2>3. headerPrinted /\ logMode = "tool" => format = "tool"
      BY <2>1, Zenon
    <2> QED BY <2>1, <2>2, <2>3 DEF LogPlaces, LogModes
  <1>6. CASE InlineSerialized
    BY <1>6, Zenon DEF InlineSerialized, callbackRest
  <1>7. CASE InlineArray
    BY <1>7, Zenon DEF InlineArray, callbackRest
  <1>8. CASE InlineText
    BY <1>8, Zenon DEF InlineText, callbackRest
  <1>9. CASE InlineToolHeader
    BY <1>9, Zenon DEF InlineToolHeader, callbackRest
  <1>10. CASE InlineToolRow
    BY <1>10, Zenon DEF InlineToolRow, callbackRest
  <1>11. CASE QueueText
    BY <1>11, Zenon DEF QueueText, taskRest
  <1>12. CASE PrintLine
    BY <1>12, Zenon DEF PrintLine, CalledInline, taskRest
  <1>13. CASE OpenLine
    BY <1>13, Zenon DEF OpenLine, CalledInline, taskRest
  <1>14. CASE LineText
    BY <1>14, Zenon DEF LineText, CalledInline, taskRest
  <1>15. CASE CloseLine
    BY <1>15, Zenon DEF CloseLine, CalledInline, taskRest
  <1>16. CASE TakePacket
    <2> SUFFICES ASSUME ~raced' PROVE HeaderInv'
      BY Zenon
    <2>0. csiChannel # 0
      BY <1>16 DEF TakePacket
    <2>1. ~raced /\ drainPc' = logMode /\ writePc = "idle"
      BY <1>16, <2>0, Zenon DEF TakePacket, drainRest
    <2>2. UNCHANGED <<headless, setPc, writePc, format, headerPrinted, logMode>>
      BY <1>16, Zenon DEF TakePacket, drainRest, linkVars
    <2>3. headerPrinted /\ setPc = "idle" /\ logMode = "tool" => format = "tool"
      BY <2>1, Zenon
    <2> QED BY <2>1, <2>2, <2>3 DEF LogPlaces, LogModes
  <1>17. CASE SelectText
    BY <1>17, Zenon DEF SelectText, TakeText, WriteTextFramed, drainRest
  <1>18. CASE DrainSerialized
    BY <1>18, Zenon DEF DrainSerialized, drainRest
  <1>19. CASE DrainArray
    BY <1>19, Zenon DEF DrainArray, drainRest
  <1>20. CASE DrainText
    BY <1>20, Zenon DEF DrainText, drainRest
  <1>21. CASE DrainToolHeader
    BY <1>21, Zenon DEF DrainToolHeader, drainRest
  <1>22. CASE DrainToolRow
    BY <1>22, Zenon DEF DrainToolRow, drainRest
  <1>23. CASE DrainTexts
    BY <1>23, Zenon DEF DrainTexts, TakeText, WriteTextFramed, drainRest
  <1>24. CASE UNCHANGED logVars
    BY <1>24, Zenon DEF logVars, queueVars, logPcs
  <1> QED
    BY <1>1, <1>2, <1>3, <1>4, <1>5, <1>6, <1>7, <1>8, <1>9, <1>10, <1>11, <1>12, <1>13, <1>14,
       <1>15, <1>16, <1>17, <1>18, <1>19, <1>20, <1>21, <1>22, <1>23, <1>24, Zenon
    DEF LogNext, LoggerBackend

-----------------------------------------------------------------------------
(* The theorems. *)

LogInv == LogTypeOK /\ BackEndInv /\ FramingInv /\ HeaderInv

LEMMA LogInvHolds == LogSpec => []LogInv
  <1>1. LogInit => LogInv
    BY LogInitTypes, LogInitInvs, TypesInParts, Zenon DEF LogInv
  <1>2. LogInv /\ [LogNext]_logVars => LogInv'
    BY TypesInParts, TypesStep, BackEndStep, FramingStep, HeaderStep, Zenon DEF LogInv
  <1> QED BY <1>1, <1>2, PTL DEF LogSpec

\* The channels never exceed their capacities and every place, flag and link
\* state keeps its type (logging.rs: CSI_CHANNEL, LOG_CHANNEL).
THEOREM LogTypes == LogSpec => []LogTypeOK
  BY LogInvHolds, PTL DEF LogInv

\* With the asynchronous back end no message is ever merged with a packet, for
\* channels of any capacity (write_text_framed, logging.rs:1902): nothing but
\* the task writes, and it closes each message in the serialized format.
THEOREM MessagesStayOutOfPackets == LogSpec => []TextStaysOutOfPackets
  <1>1. LogInv => TextStaysOutOfPackets
    BY Zenon DEF LogInv, FramingInv, TextStaysOutOfPackets
  <1> QED BY <1>1, LogInvHolds, PTL

\* Unless the inline callback ran between set_log_mode's two stores, no CSI-tool
\* row follows another format without a header (logging.rs:868).
THEOREM RowsFollowTheirHeader == LogSpec => []HeaderBeforeRows
  <1>1. LogInv => HeaderBeforeRows
    BY Zenon DEF LogInv, HeaderInv, HeaderBeforeRows
  <1> QED BY <1>1, LogInvHolds, PTL

-------------------------------------------------------------------------------
(***************************************************************************)
(* WireLayout: what is stated of a buffer or a header is what was read.     *)
(***************************************************************************)

\* The state follows from the buffer or the header that was read.
ReadInv ==
    /\ \/ heardInfo = NoInfo /\ builtFrame = NoMeta
       \/ heardInfo \in ClassicInfos \cup HeInfos /\ builtFrame = FrameFromEsp(heardInfo)
    /\ \/ macHeader = NoHeader /\ digest = NoDigest
       \/ \E h \in Headers :
             /\ macHeader = [sent    |-> [type |-> h.type, subtype |-> h.subtype, retry |-> h.retry],
                             control |-> FrameControl(h.type, h.subtype, h.retry, h.ds),
                             len     |-> h.len]
             /\ digest = ParseHeader(macHeader)

LEMMA ReadInvHolds == LayoutSpec => []ReadInv
  <1>1. LayoutInit => ReadInv
    BY DEF LayoutInit, ReadInv
  <1>2. ReadInv /\ [LayoutNext]_layoutVars => ReadInv'
    <2> SUFFICES ASSUME ReadInv, [LayoutNext]_layoutVars PROVE ReadInv'
      OBVIOUS
    <2>1. ASSUME NEW i \in ClassicInfos \cup HeInfos, ReadBuffer(i) PROVE ReadInv'
      BY <2>1 DEF ReadBuffer, ReadInv
    <2>2. ASSUME NEW h \in Headers, ReadHeader(h) PROVE ReadInv'
      BY <2>2 DEF ReadHeader, ReadInv
    <2>3. CASE UNCHANGED layoutVars
      BY <2>3 DEF layoutVars, ReadInv
    <2> QED
      BY <2>1, <2>2, <2>3 DEF LayoutNext
  <1> QED
    BY <1>1, <1>2, PTL DEF LayoutSpec

-----------------------------------------------------------------------------
(* Layouts. *)

LayoutType ==
    [mac : {"classic", "c5", "unknown"}, side : Sides,
     kind : {"nonht", "ht20", "ht20stbc", "ht40", "ht40stbc", "lltf", "he20", "unknown"}]

LEMMA CheckedIs ==
    ASSUME NEW id, NEW len
    PROVE  /\ Checked(id, len) \in {id, Unknown}
           /\ Checked(id, len) # Unknown => ByteLen(id) = len /\ Checked(id, len) = id
  BY DEF Checked

\* A classic layout has the side that was reported and the kind of the PPDU.
LEMMA ClassicLayouts ==
    ASSUME NEW i \in ClassicInfos, ClassifyClassic(i) # Unknown
    PROVE  LET id == ClassifyClassic(i)
           IN /\ id \in LayoutType /\ id.mac = "classic" /\ id.side = i.side
              /\ ByteLen(id) = i.len
              /\ id.kind = CASE i.sigMode = 0 -> "nonht"
                             [] i.sigMode # 0 /\ ~i.forty /\ ~i.stbc -> "ht20"
                             [] i.sigMode # 0 /\ ~i.forty /\ i.stbc -> "ht20stbc"
                             [] i.sigMode # 0 /\ i.forty /\ ~i.stbc -> "ht40"
                             [] i.sigMode # 0 /\ i.forty /\ i.stbc -> "ht40stbc"
  <1> DEFINE kind == CASE ~i.forty /\ ~i.stbc -> "ht20"
                       [] ~i.forty /\ i.stbc  -> "ht20stbc"
                       [] i.forty /\ ~i.stbc  -> "ht40"
                       [] i.forty /\ i.stbc   -> "ht40stbc"
  <1>1. i.side \in Sides /\ i.forty \in BOOLEAN /\ i.stbc \in BOOLEAN
    BY DEF ClassicInfos
  <1>2. CASE i.sigMode = 0
    <2>1. ClassifyClassic(i) = Checked(Layout("classic", i.side, "nonht"), i.len)
      BY <1>2 DEF ClassifyClassic
    <2>2. /\ ClassifyClassic(i) = Layout("classic", i.side, "nonht")
          /\ ByteLen(Layout("classic", i.side, "nonht")) = i.len
      BY <2>1, CheckedIs
    <2> QED
      BY <1>1, <1>2, <2>2 DEF Layout, LayoutType
  <1>3. CASE i.sigMode # 0
    <2>1. ClassifyClassic(i) = Checked(Layout("classic", i.side, kind), i.len)
      BY <1>3 DEF ClassifyClassic
    <2>2. /\ ClassifyClassic(i) = Layout("classic", i.side, kind)
          /\ ByteLen(Layout("classic", i.side, kind)) = i.len
      BY <2>1, CheckedIs
    <2>3. kind \in {"ht20", "ht20stbc", "ht40", "ht40stbc"}
      BY <1>1
    <2>4. kind = CASE i.sigMode = 0 -> "nonht"
                   [] i.sigMode # 0 /\ ~i.forty /\ ~i.stbc -> "ht20"
                   [] i.sigMode # 0 /\ ~i.forty /\ i.stbc -> "ht20stbc"
                   [] i.sigMode # 0 /\ i.forty /\ ~i.stbc -> "ht40"
                   [] i.sigMode # 0 /\ i.forty /\ i.stbc -> "ht40stbc"
      BY <1>1, <1>3
    <2> HIDE DEF kind
    <2> QED
      BY <1>1, <2>2, <2>3, <2>4 DEF Layout, LayoutType
  <1> QED
    BY <1>2, <1>3

\* The legacy field of a classic layout, and the one field of a C5 layout, lies
\* on the side of the primary channel.
OnItsSide(field, side) ==
    /\ side = "above" => \A k \in field : k < 0
    /\ side = "below" => \A k \in field : k >= 0
    /\ side = "none"  => \E k \in field : k < 0

LEMMA ClassicFirst ==
    ASSUME NEW id \in LayoutType, id.mac = "classic",
           id.kind \in {"nonht", "ht20", "ht20stbc", "ht40", "ht40stbc"}
    PROVE  OnItsSide(Segments(id)[1], id.side)
  <1>1. id.side \in Sides
    BY DEF LayoutType
  <1>2. Segments(id)[1] = ClassicLltf(id.side)
    BY DEF Segments, ClassicSegments
  <1>3. CASE id.side = "none"
    <2>1. -32 \in -32 .. 31 /\ ClassicLltf(id.side) = -32 .. 31
      BY <1>3 DEF ClassicLltf
    <2> QED
      BY <1>2, <1>3, <2>1 DEF OnItsSide
  <1>4. CASE id.side = "above"
    BY <1>2, <1>4 DEF OnItsSide, ClassicLltf
  <1>5. CASE id.side = "below"
    BY <1>2, <1>5 DEF OnItsSide, ClassicLltf
  <1> QED
    BY <1>1, <1>3, <1>4, <1>5 DEF Sides

LEMMA IntervalSize ==
    \A a, b \in Int, n \in Nat \ {0} : b - a + 1 = n => Cardinality(a .. b) = n
  <1> SUFFICES ASSUME NEW a \in Int, NEW b \in Int, NEW n \in Nat \ {0}, b - a + 1 = n
               PROVE  Cardinality(a .. b) = n
    OBVIOUS
  <1>1. ~(a > b)
    OBVIOUS
  <1> QED
    BY <1>1, FS_Interval

\* The lengths that classify_c5 knows are those of its layouts.
LEMMA C5Widths ==
    /\ \A side \in Sides : C5Segments(side, "lltf") = <<C5Segments(side, "lltf")[1]>>
                           /\ Cardinality(C5Segments(side, "lltf")[1]) = 53
                           /\ OnItsSide(C5Segments(side, "lltf")[1], side)
    /\ \A side \in Sides : LET field == C5Segments(side, "ht20")[1]
                           IN /\ C5Segments(side, "ht20") = <<field>>
                              /\ C5Segments(side, "ht20stbc") = <<field, field>>
                              /\ Cardinality(field) = 57 /\ OnItsSide(field, side)
    /\ Cardinality(-58 .. 58) = 117 /\ Cardinality(-122 .. 122) = 245
  <1>1. /\ Cardinality(-26 .. 26) = 53 /\ Cardinality(0 .. 52) = 53 /\ Cardinality(-53 .. -1) = 53
        /\ Cardinality(-28 .. 28) = 57 /\ Cardinality(0 .. 56) = 57 /\ Cardinality(-57 .. -1) = 57
        /\ Cardinality(-58 .. 58) = 117 /\ Cardinality(-122 .. 122) = 245
    <2>1. Cardinality(-26 .. 26) = 53
      <3>1. -26 \in Int /\ 26 \in Int /\ 53 \in Nat \ {0} /\ 26 - (-26) + 1 = 53
        OBVIOUS
      <3> QED
        BY <3>1, IntervalSize, Zenon
    <2>2. Cardinality(0 .. 52) = 53
      <3>1. 0 \in Int /\ 52 \in Int /\ 53 \in Nat \ {0} /\ 52 - (0) + 1 = 53
        OBVIOUS
      <3> QED
        BY <3>1, IntervalSize, Zenon
    <2>3. Cardinality(-53 .. -1) = 53
      <3>1. -53 \in Int /\ -1 \in Int /\ 53 \in Nat \ {0} /\ -1 - (-53) + 1 = 53
        OBVIOUS
      <3> QED
        BY <3>1, IntervalSize, Zenon
    <2>4. Cardinality(-28 .. 28) = 57
      <3>1. -28 \in Int /\ 28 \in Int /\ 57 \in Nat \ {0} /\ 28 - (-28) + 1 = 57
        OBVIOUS
      <3> QED
        BY <3>1, IntervalSize, Zenon
    <2>5. Cardinality(0 .. 56) = 57
      <3>1. 0 \in Int /\ 56 \in Int /\ 57 \in Nat \ {0} /\ 56 - (0) + 1 = 57
        OBVIOUS
      <3> QED
        BY <3>1, IntervalSize, Zenon
    <2>6. Cardinality(-57 .. -1) = 57
      <3>1. -57 \in Int /\ -1 \in Int /\ 57 \in Nat \ {0} /\ -1 - (-57) + 1 = 57
        OBVIOUS
      <3> QED
        BY <3>1, IntervalSize, Zenon
    <2>7. Cardinality(-58 .. 58) = 117
      <3>1. PICK a \in Int, b \in Int, n \in Nat \ {0} : a = -58 /\ b = 58 /\ n = 117
        OBVIOUS
      <3>2. b - a + 1 = n
        BY <3>1
      <3>3. Cardinality(a .. b) = n
        BY <3>2, IntervalSize
      <3> QED
        BY <3>1, <3>3
    <2>8. Cardinality(-122 .. 122) = 245
      <3>1. PICK a \in Int, b \in Int, n \in Nat \ {0} : a = -122 /\ b = 122 /\ n = 245
        OBVIOUS
      <3>2. b - a + 1 = n
        BY <3>1
      <3>3. Cardinality(a .. b) = n
        BY <3>2, IntervalSize
      <3> QED
        BY <3>1, <3>3
    <2> QED
      BY <2>1, <2>2, <2>3, <2>4, <2>5, <2>6, <2>7, <2>8
  <1>2. ASSUME NEW side \in Sides
        PROVE  LET field == C5Segments(side, "lltf")[1]
               IN /\ C5Segments(side, "lltf") = <<field>> /\ Cardinality(field) = 53
                  /\ OnItsSide(field, side)
    <2>1. CASE side = "none"
      <3>1. PICK field : field = -26 .. 26
        OBVIOUS
      <3>2. C5Segments(side, "lltf") = <<field>>
        BY <2>1, <3>1 DEF C5Segments
      <3>3. -1 \in field
        BY <3>1
      <3>4. Cardinality(field) = 53 /\ OnItsSide(field, side)
        BY <1>1, <2>1, <3>1, <3>3 DEF OnItsSide
      <3> QED
        BY <3>2, <3>4
    <2>2. CASE side = "below"
      <3>1. PICK field : field = 0 .. 52
        OBVIOUS
      <3>2. C5Segments(side, "lltf") = <<field>>
        BY <2>2, <3>1 DEF C5Segments
      <3>3. Cardinality(field) = 53 /\ OnItsSide(field, side)
        BY <1>1, <2>2, <3>1 DEF OnItsSide
      <3> QED
        BY <3>2, <3>3
    <2>3. CASE side = "above"
      <3>1. PICK field : field = -53 .. -1
        OBVIOUS
      <3>2. C5Segments(side, "lltf") = <<field>>
        BY <2>3, <3>1 DEF C5Segments
      <3>3. Cardinality(field) = 53 /\ OnItsSide(field, side)
        BY <1>1, <2>3, <3>1 DEF OnItsSide
      <3> QED
        BY <3>2, <3>3
    <2> QED
      BY <2>1, <2>2, <2>3 DEF Sides
  <1>3. ASSUME NEW side \in Sides
        PROVE  LET field == C5Segments(side, "ht20")[1]
               IN /\ C5Segments(side, "ht20") = <<field>>
                  /\ C5Segments(side, "ht20stbc") = <<field, field>>
                  /\ Cardinality(field) = 57 /\ OnItsSide(field, side)
    <2>1. CASE side = "none"
      <3>1. PICK field : field = -28 .. 28
        OBVIOUS
      <3>2. C5Segments(side, "ht20") = <<field>> /\ C5Segments(side, "ht20stbc") = <<field, field>>
        BY <2>1, <3>1 DEF C5Segments
      <3>3. -1 \in field
        BY <3>1
      <3>4. Cardinality(field) = 57 /\ OnItsSide(field, side)
        BY <1>1, <2>1, <3>1, <3>3 DEF OnItsSide
      <3> QED
        BY <3>2, <3>4
    <2>2. CASE side = "below"
      <3>1. PICK field : field = 0 .. 56
        OBVIOUS
      <3>2. C5Segments(side, "ht20") = <<field>> /\ C5Segments(side, "ht20stbc") = <<field, field>>
        BY <2>2, <3>1 DEF C5Segments
      <3>3. Cardinality(field) = 57 /\ OnItsSide(field, side)
        BY <1>1, <2>2, <3>1 DEF OnItsSide
      <3> QED
        BY <3>2, <3>3
    <2>3. CASE side = "above"
      <3>1. PICK field : field = -57 .. -1
        OBVIOUS
      <3>2. C5Segments(side, "ht20") = <<field>> /\ C5Segments(side, "ht20stbc") = <<field, field>>
        BY <2>3, <3>1 DEF C5Segments
      <3>3. Cardinality(field) = 57 /\ OnItsSide(field, side)
        BY <1>1, <2>3, <3>1 DEF OnItsSide
      <3> QED
        BY <3>2, <3>3
    <2> QED
      BY <2>1, <2>2, <2>3 DEF Sides
  <1> QED
    BY <1>1, <1>2, <1>3

LEMMA BytesOf ==
    ASSUME NEW id, NEW a, NEW b, Cardinality(a) \in Nat, Cardinality(b) \in Nat
    PROVE  /\ Segments(id) = <<a>> => ByteLen(id) = 2 * Cardinality(a)
           /\ Segments(id) = <<a, b>> => ByteLen(id) = 2 * (Cardinality(a) + Cardinality(b))
  <1> DEFINE fields == Segments(id)
             Width(k) == IF k <= Len(fields) THEN Cardinality(fields[k]) ELSE 0
  <1>1. ByteLen(id) = 2 * (Width(1) + Width(2) + Width(3))
    BY DEF ByteLen
  <1>2. ASSUME fields = <<a>> PROVE ByteLen(id) = 2 * Cardinality(a)
    <2>1. Len(fields) = 1 /\ fields[1] = a
      BY <1>2
    <2>2. Width(1) = Cardinality(a) /\ Width(2) = 0 /\ Width(3) = 0
      BY <2>1
    <2> QED
      BY <1>1, <2>2
  <1>3. ASSUME fields = <<a, b>> PROVE ByteLen(id) = 2 * (Cardinality(a) + Cardinality(b))
    <2>1. Len(fields) = 2 /\ fields[1] = a /\ fields[2] = b
      BY <1>3
    <2>2. Width(1) = Cardinality(a) /\ Width(2) = Cardinality(b) /\ Width(3) = 0
      BY <2>1
    <2> QED
      BY <1>1, <2>2
  <1> QED
    BY <1>2, <1>3

LEMMA C5Layouts ==
    ASSUME NEW i \in HeInfos, ClassifyC5(i) # Unknown
    PROVE  LET id == ClassifyC5(i)
           IN /\ id \in LayoutType /\ id.mac = "c5"
              /\ id.kind \in {"lltf", "ht20", "ht20stbc", "ht40", "ht40stbc", "he20"}
              /\ ByteLen(id) = i.len
              /\ id.kind \in {"lltf", "ht20", "ht20stbc"} => OnItsSide(Segments(id)[1], i.side)
  <1>1. i.side \in Sides
    BY DEF HeInfos
  <1>2. ASSUME NEW kind, ClassifyC5(i) = Layout("c5", i.side, kind), kind \in {"lltf", "ht20"}
        PROVE  LET id == ClassifyC5(i)
               IN /\ id \in LayoutType /\ id.mac = "c5" /\ id.kind = kind
                  /\ ByteLen(id) = IF kind = "lltf" THEN 106 ELSE 114
                  /\ OnItsSide(Segments(id)[1], i.side)
    <2> DEFINE id == ClassifyC5(i)
               field == C5Segments(i.side, kind)[1]
    <2>1. id \in LayoutType /\ id.mac = "c5" /\ id.side = i.side /\ id.kind = kind
      BY <1>1, <1>2 DEF Layout, LayoutType
    <2>2. Segments(id) = C5Segments(i.side, kind)
      BY <2>1 DEF Segments
    <2>3. /\ Segments(id) = <<field>> /\ OnItsSide(field, i.side)
          /\ Cardinality(field) = IF kind = "lltf" THEN 53 ELSE 57
      BY <1>1, <1>2, <2>2, C5Widths
    <2> HIDE DEF field, id
    <2>4. ByteLen(id) = 2 * Cardinality(field)
      BY <2>3, BytesOf
    <2> QED
      BY <1>2, <2>1, <2>3, <2>4 DEF id
  <1>3. ASSUME ClassifyC5(i) = Layout("c5", i.side, "ht20stbc")
        PROVE  LET id == ClassifyC5(i)
               IN /\ id \in LayoutType /\ id.mac = "c5" /\ id.kind = "ht20stbc"
                  /\ ByteLen(id) = 228 /\ OnItsSide(Segments(id)[1], i.side)
    <2> DEFINE id == ClassifyC5(i)
               field == C5Segments(i.side, "ht20")[1]
    <2>1. id \in LayoutType /\ id.mac = "c5" /\ id.side = i.side /\ id.kind = "ht20stbc"
      BY <1>1, <1>3 DEF Layout, LayoutType
    <2>2. Segments(id) = C5Segments(i.side, "ht20stbc")
      BY <2>1 DEF Segments
    <2>3. /\ Segments(id) = <<field, field>> /\ OnItsSide(field, i.side)
          /\ Cardinality(field) = 57
      BY <1>1, <2>2, C5Widths
    <2> HIDE DEF field, id
    <2>4. ByteLen(id) = 2 * (Cardinality(field) + Cardinality(field))
      BY <2>3, BytesOf
    <2> QED
      BY <2>1, <2>3, <2>4 DEF id
  <1>4. ASSUME NEW kind, ClassifyC5(i) = Layout("c5", "none", kind),
               kind \in {"ht40", "ht40stbc", "he20"}
        PROVE  LET id == ClassifyC5(i)
               IN /\ id \in LayoutType /\ id.mac = "c5" /\ id.kind = kind
                  /\ ByteLen(id) = CASE kind = "ht40" -> 234 [] kind = "ht40stbc" -> 468
                                     [] kind = "he20" -> 490
    <2> DEFINE id == ClassifyC5(i)
    <2>1. id \in LayoutType /\ id.mac = "c5" /\ id.side = "none" /\ id.kind = kind
      BY <1>4 DEF Layout, LayoutType, Sides
    <2>2. Segments(id) = CASE kind = "ht40"     -> <<-58 .. 58>>
                           [] kind = "ht40stbc" -> <<-58 .. 58, -58 .. 58>>
                           [] kind = "he20"     -> <<-122 .. 122>>
      BY <1>4, <2>1 DEF Segments, C5Segments
    <2>3. PICK a, b : /\ a = -58 .. 58 /\ b = -122 .. 122
                      /\ Cardinality(a) = 117 /\ Cardinality(b) = 245
      BY C5Widths
    <2> HIDE DEF id
    <2>4. Segments(id) = CASE kind = "ht40" -> <<a>> [] kind = "ht40stbc" -> <<a, a>>
                           [] kind = "he20" -> <<b>>
      BY <2>2, <2>3
    <2>5. Cardinality(a) \in Nat /\ Cardinality(b) \in Nat
      BY <2>3
    <2>6. ASSUME kind = "ht40" PROVE ByteLen(id) = 2 * Cardinality(a)
      BY <2>4, <2>5, <2>6, BytesOf
    <2>7. ASSUME kind = "ht40stbc" PROVE ByteLen(id) = 2 * (Cardinality(a) + Cardinality(a))
      BY <2>4, <2>5, <2>7, BytesOf
    <2>8. ASSUME kind = "he20" PROVE ByteLen(id) = 2 * Cardinality(b)
      BY <2>4, <2>5, <2>8, BytesOf
    <2> QED
      BY <1>4, <2>1, <2>3, <2>6, <2>7, <2>8 DEF id
  <1>5. CASE i.len = 106 \/ i.len = 114
    <2>1. \/ ClassifyC5(i) = Layout("c5", i.side, "lltf") /\ i.len = 106
          \/ ClassifyC5(i) = Layout("c5", i.side, "ht20") /\ i.len = 114
      BY <1>5 DEF ClassifyC5
    <2> QED
      BY <1>2, <2>1
  <1>6. CASE i.len = 228
    <2>1. ClassifyC5(i) = Layout("c5", i.side, "ht20stbc")
      BY <1>6 DEF ClassifyC5
    <2> QED
      BY <1>3, <1>6, <2>1
  <1>7. CASE i.len = 234 \/ i.len = 468 \/ i.len = 490
    <2>1. \/ ClassifyC5(i) = Layout("c5", "none", "ht40") /\ i.len = 234
          \/ ClassifyC5(i) = Layout("c5", "none", "ht40stbc") /\ i.len = 468
          \/ ClassifyC5(i) = Layout("c5", "none", "he20") /\ i.len = 490
      BY <1>7 DEF ClassifyC5
    <2> QED
      BY <1>4, <2>1
  <1>8. i.len \in {106, 114, 228, 234, 468, 490}
    BY DEF ClassifyC5
  <1> QED
    BY <1>5, <1>6, <1>7, <1>8

-----------------------------------------------------------------------------
(* What is stated of a buffer, and of a header. *)

\* A frame is made of the layout and the metadata, unless the buffer is too long.
LEMMA FramesStateTheirLayout ==
    ASSUME NEW i \in ClassicInfos \cup HeInfos
    PROVE  LET f == FrameFromEsp(i)
           IN \/ f = NoMeta
              \/ i.chip = "classic" /\ i \in ClassicInfos /\ i.len <= MaxCsiBytes /\ f = ClassicMeta(i)
              \/ i.chip # "classic" /\ i \in HeInfos /\ i.len <= MaxCsiBytes /\ f = HeMeta(i)
  <1>1. i.len \in Nat
    BY LengthsAssumption DEF ClassicInfos, HeInfos
  <1>2. /\ i.chip = "classic" => i \in ClassicInfos
        /\ i.chip # "classic" => i \in HeInfos
    BY DEF ClassicInfos, HeInfos
  <1>3. i.len > MaxCsiBytes \/ i.len <= MaxCsiBytes
    BY <1>1 DEF MaxCsiBytes
  <1> QED
    BY <1>2, <1>3 DEF FrameFromEsp

LEMMA ClassicBuffers ==
    ASSUME NEW i \in ClassicInfos, i.len <= MaxCsiBytes, heardInfo = i, builtFrame = ClassicMeta(i)
    PROVE  /\ LayoutsMatchBuffers /\ MetadataAgrees
           /\ builtFrame.layout.side \in Sides /\ builtFrame.bandwidth \in {0, 20, 40}
           /\ builtFrame.stbc \in {"yes", "no", "?"}
  <1> DEFINE id == ClassifyClassic(i)
  <1>1. /\ i.side \in Sides /\ i.forty \in BOOLEAN /\ i.stbc \in BOOLEAN /\ i.chip = "classic"
    BY DEF ClassicInfos
  <1>2. /\ builtFrame.layout = id /\ builtFrame.bandwidth = (IF i.forty THEN 40 ELSE 20)
        /\ builtFrame.stbc = IF i.stbc THEN "yes" ELSE "no"
    BY DEF ClassicMeta
  <1>3. CASE id = Unknown
    BY <1>1, <1>2, <1>3 DEF Unknown, LayoutsMatchBuffers, MetadataAgrees, Sides
  <1>4. CASE id # Unknown
    <2>1. /\ id \in LayoutType /\ id.mac = "classic" /\ id.side = i.side /\ ByteLen(id) = i.len
          /\ id.kind \in {"nonht", "ht20", "ht20stbc", "ht40", "ht40stbc"}
          /\ id.kind \in {"ht40", "ht40stbc"} => i.forty
          /\ id.kind \in {"ht20", "ht20stbc"} => ~i.forty
          /\ id.kind \in {"ht20stbc", "ht40stbc"} => i.stbc
          /\ id.kind \in {"ht20", "ht40"} => ~i.stbc
      BY <1>1, <1>4, ClassicLayouts
    <2>2. OnItsSide(Segments(id)[1], i.side)
      BY <2>1, ClassicFirst
    <2> HIDE DEF id
    <2>3. LayoutsMatchBuffers
      BY <1>2, <2>1, <2>2 DEF LayoutsMatchBuffers, OnItsSide
    <2>4. MetadataAgrees
      BY <1>1, <1>2, <2>1 DEF MetadataAgrees
    <2> QED
      BY <1>1, <1>2, <2>1, <2>3, <2>4
  <1> QED
    BY <1>3, <1>4

LEMMA HeBuffers ==
    ASSUME NEW i \in HeInfos, i.len <= MaxCsiBytes, heardInfo = i, builtFrame = HeMeta(i)
    PROVE  /\ LayoutsMatchBuffers /\ MetadataAgrees
           /\ builtFrame.layout.side \in Sides /\ builtFrame.bandwidth \in {0, 20, 40}
           /\ builtFrame.stbc \in {"yes", "no", "?"}
  <1> DEFINE id == IF i.chip = "c5" THEN ClassifyC5(i) ELSE Unknown
  <1>1. PICK ppdu : LET width == HeWidth(id, ppdu, i.side)
                    IN /\ builtFrame.layout = id /\ builtFrame.bandwidth = width[1]
                       /\ builtFrame.stbc = width[2]
    BY DEF HeMeta
  <1>2. i.side \in Sides /\ i.chip \in {"c5", "c6"}
    BY DEF HeInfos
  <1>3. CASE id = Unknown
    <2>1. HeWidth(id, ppdu, i.side) \in {<<20, "?">>, <<0, "?">>}
      BY <1>3 DEF HeWidth, Unknown
    <2>2. builtFrame.bandwidth \in {0, 20} /\ builtFrame.stbc = "?" /\ builtFrame.layout = Unknown
      BY <1>1, <1>3, <2>1
    <2> QED
      BY <2>2 DEF Unknown, LayoutsMatchBuffers, MetadataAgrees, Sides
  <1>4. CASE id # Unknown
    <2>1. /\ id \in LayoutType /\ id.mac = "c5" /\ ByteLen(id) = i.len
          /\ id.kind \in {"lltf", "ht20", "ht20stbc", "ht40", "ht40stbc", "he20"}
          /\ id.kind \in {"lltf", "ht20", "ht20stbc"} => OnItsSide(Segments(id)[1], i.side)
      BY <1>4, C5Layouts
    <2> HIDE DEF id
    <2>2. LET width == HeWidth(id, ppdu, i.side)
          IN /\ id.kind \in {"ht40", "ht40stbc"} => width[1] = 40
             /\ id.kind \in {"lltf", "ht20", "ht20stbc", "he20"} => width[1] = 20
             /\ id.kind \in {"ht20stbc", "ht40stbc"} => width[2] = "yes"
             /\ id.kind \in {"ht20", "ht40", "he20"} => width[2] = "no"
             /\ id.kind = "lltf" => width[2] = "?"
      BY <2>1 DEF HeWidth
    <2>3. /\ id.kind \in {"ht40", "ht40stbc"} => builtFrame.bandwidth = 40
          /\ id.kind \in {"lltf", "ht20", "ht20stbc", "he20"} => builtFrame.bandwidth = 20
          /\ id.kind \in {"ht20stbc", "ht40stbc"} => builtFrame.stbc = "yes"
          /\ id.kind \in {"ht20", "ht40", "he20"} => builtFrame.stbc = "no"
          /\ id.kind = "lltf" => builtFrame.stbc = "?"
          /\ builtFrame.layout = id
      BY <1>1, <2>2
    <2>4. LayoutsMatchBuffers
      BY <2>1, <2>3 DEF LayoutsMatchBuffers, OnItsSide
    <2>5. MetadataAgrees
      BY <2>1, <2>3 DEF MetadataAgrees
    <2>6. id.side \in Sides
      BY <2>1 DEF LayoutType
    <2> QED
      BY <2>1, <2>3, <2>4, <2>5, <2>6
  <1> QED
    BY <1>3, <1>4

\* The frame control field gives back what was put into it.
LEMMA ControlFields ==
    ASSUME NEW type \in 0 .. 3, NEW subtype \in 0 .. 15, NEW retry \in BOOLEAN, NEW ds \in 0 .. 3
    PROVE  LET c == FrameControl(type, subtype, retry, ds)
           IN /\ (c \div 4) % 4 = type /\ (c \div 16) % 16 = subtype
              /\ (c \div 2048) % 2 = IF retry THEN 1 ELSE 0
  <1> DEFINE bit == IF retry THEN 1 ELSE 0
  <1>1. PICK b \in 0 .. 1 : b = bit
    OBVIOUS
  <1>2. FrameControl(type, subtype, retry, ds) = 4 * type + 16 * subtype + 256 * ds + 2048 * b
    BY <1>1 DEF FrameControl
  <1>3. PICK c \in Nat : c = 4 * type + 16 * subtype + 256 * ds + 2048 * b
    OBVIOUS
  <1>4. (c \div 4) % 4 = type
    BY <1>3
  <1>5. (c \div 16) % 16 = subtype
    BY <1>3
  <1>6. (c \div 2048) % 2 = b
    BY <1>3
  <1> QED
    BY <1>1, <1>2, <1>3, <1>4, <1>5, <1>6

LEMMA ReadRight == ReadInv => BuffersAreReadRight /\ LayoutTypeOK
  <1> SUFFICES ASSUME ReadInv PROVE BuffersAreReadRight /\ LayoutTypeOK
    OBVIOUS
  <1>1. /\ LayoutsMatchBuffers /\ MetadataAgrees
        /\ builtFrame.layout.side \in Sides /\ builtFrame.bandwidth \in {0, 20, 40}
        /\ builtFrame.stbc \in {"yes", "no", "?"}
    <2>1. CASE builtFrame = NoMeta
      BY <2>1 DEF NoMeta, Unknown, LayoutsMatchBuffers, MetadataAgrees, Sides
    <2>2. CASE builtFrame # NoMeta
      <3>1. heardInfo \in ClassicInfos \cup HeInfos /\ builtFrame = FrameFromEsp(heardInfo)
        BY <2>2 DEF ReadInv
      <3> QED
        BY <2>2, <3>1, FramesStateTheirLayout, ClassicBuffers, HeBuffers
    <2> QED
      BY <2>1, <2>2
  <1>2. DigestsAreTrue /\ digest \in [type : 0 .. 3, subtype : 0 .. 15, retry : BOOLEAN] \cup {NoDigest}
    <2>1. CASE digest = NoDigest
      BY <2>1 DEF DigestsAreTrue
    <2>2. ASSUME digest # NoDigest, NEW h \in Headers,
                 macHeader = [sent |-> [type |-> h.type, subtype |-> h.subtype, retry |-> h.retry],
                              control |-> FrameControl(h.type, h.subtype, h.retry, h.ds),
                              len |-> h.len],
                 digest = ParseHeader(macHeader)
          PROVE  DigestsAreTrue
                 /\ digest \in [type : 0 .. 3, subtype : 0 .. 15, retry : BOOLEAN]
      <3>1. h.type \in 0 .. 3 /\ h.subtype \in 0 .. 15 /\ h.retry \in BOOLEAN /\ h.ds \in 0 .. 3
        BY DEF Headers
      <3> DEFINE c == FrameControl(h.type, h.subtype, h.retry, h.ds)
                 parsed == [type |-> (c \div 4) % 4, subtype |-> (c \div 16) % 16,
                            retry |-> (c \div 2048) % 2 = 1]
      <3>2. digest = parsed /\ ~(parsed.type = 1 /\ parsed.subtype \in {12, 13})
        BY <2>2 DEF ParseHeader
      <3>3. (c \div 4) % 4 = h.type /\ (c \div 16) % 16 = h.subtype
            /\ ((c \div 2048) % 2 = 1) = h.retry
        BY <3>1, ControlFields
      <3> HIDE DEF c
      <3>4. parsed = [type |-> h.type, subtype |-> h.subtype, retry |-> h.retry]
        BY <3>3
      <3> HIDE DEF parsed
      <3>5. digest = macHeader.sent /\ digest = [type |-> h.type, subtype |-> h.subtype, retry |-> h.retry]
        BY <2>2, <3>2, <3>4
      <3>6. ~(digest.type = 1 /\ digest.subtype \in {12, 13})
        BY <3>2
      <3> QED
        BY <3>1, <3>5, <3>6 DEF DigestsAreTrue
    <2> QED
      BY <2>1, <2>2 DEF ReadInv
  <1>3. heardInfo \in ClassicInfos \cup HeInfos \cup {NoInfo}
    BY DEF ReadInv
  <1> QED
    BY <1>1, <1>2, <1>3 DEF BuffersAreReadRight, LayoutTypeOK

\* The buffer and header read, and what is made of them, keep their types.
THEOREM LayoutTypes == LayoutSpec => []LayoutTypeOK
  BY ReadInvHolds, ReadRight, PTL

\* For a buffer and a header of any length, what is stated of a measurement is
\* what was measured, or is left out (frame_from_esp, csi/esp.rs:40).
THEOREM StatedIsMeasured == LayoutSpec => []BuffersAreReadRight
  BY ReadInvHolds, ReadRight, PTL

-----------------------------------------------------------------------------
(***************************************************************************)
(* The parts together, as MCSetup runs them.                                *)
(***************************************************************************)
LEMMA SetUpSteps ==
    [MCNext]_setUpVars =>
        /\ [LogNext]_logVars /\ [LayoutNext]_layoutVars
        /\ [SetupNext]_setupVars /\ [BringNext]_bringVars
  <1>1. CASE UNCHANGED setUpVars
    BY <1>1 DEF setUpVars
  <1>2. CASE LogSteps
    BY <1>2 DEF LogSteps, OfLog, LogNext, LoggerBackend
  <1>3. CASE LayoutSteps
    BY <1>3 DEF LayoutSteps, OfLayout, LayoutNext
  <1>4. CASE SetupSteps
    BY <1>4 DEF SetupSteps, OfSetup, SetupNext
  <1>5. CASE BringUpSteps
    BY <1>5 DEF BringUpSteps, OfBringUp, BringNext
  <1> QED
    BY <1>1, <1>2, <1>3, <1>4, <1>5 DEF MCNext

\* The parts as they are run implement the specification of each: what is
\* proved of a part holds of the run.
THEOREM SetUpImplementsItsParts ==
    MCSpec => LogSpec /\ LayoutSpec /\ SetupSpec /\ BringSpec
  <1>1. MCInit => LogInit /\ LayoutInit /\ SetupInit /\ BringInit
    BY DEF MCInit
  <1> QED
    BY <1>1, SetUpSteps, PTL DEF MCSpec, LogSpec, LayoutSpec, SetupSpec, BringSpec

\* Every variable of the parts keeps its type.
THEOREM PartsTypes == MCSpec => []PartsTypeOK
  <1>1. LogTypeOK /\ LayoutTypeOK /\ SetupTypeOK /\ BringTypeOK => PartsTypeOK
    BY DEF PartsTypeOK
  <1> QED
    BY <1>1, SetUpImplementsItsParts, LogTypes, LayoutTypes, SetupTypes, BringUpTypes, PTL
=============================================================================
