------------------------------- MODULE MCSetup -------------------------------
(* Small instances of the parts a capture is set up with and put out by: a    *)
(* node taking on measurement setups, the bring-up of the radio, the reading   *)
(* of a measured buffer and the logging back end.  They share no variable, so  *)
(* one behaviour exercises one of them, its focus, and the others stay where   *)
(* they began.                                                                 *)
EXTENDS CsiLog, WireLayout, NodeSetup, NodeBringUp

CONSTANTS
    Foci,   \* the parts exercised
    t1, t2  \* MAC addresses

MCSources == {t1, t2}

LOCAL Stim(period, width, responders, raw) ==
    <<[period |-> period, width |-> width, responders |-> responders, raw |-> raw]>>

LOCAL Wire(id, channel, width, formats, transmitter, stimulus) ==
    [id |-> id, channel |-> channel, width |-> width, formats |-> formats,
     transmitter |-> transmitter, stimulus |-> stimulus]

\* One setup asks for nothing; the others ask for a channel, a width, formats, a
\* transmitter and a stimulus, alone and together, some of which every mode
\* refuses.
MCWireSetups ==
    {Wire(1, <<>>, <<>>, {}, <<>>, <<>>),
     Wire(2, <<6>>, <<20>>, {}, <<t1>>, <<>>),
     Wire(3, <<>>, <<>>, {"Ht"}, <<>>, Stim(10000, 40, {}, TRUE)),
     Wire(4, <<>>, <<>>, {"He"}, <<>>, <<>>),
     Wire(5, <<>>, <<>>, {"NonHt", "Ht"}, <<>>, <<>>),
     Wire(6, <<6>>, <<>>, {}, <<>>, Stim(1500, 20, {t2}, TRUE)),
     Wire(7, <<>>, <<>>, {}, <<t1>>, Stim(0, 20, {t2}, FALSE))}

VARIABLE focus

setUpVars == <<focus, logVars, layoutVars, setupVars, bringVars>>

\* A part that is not exercised has one initial state.
MCInit ==
    /\ focus \in Foci
    /\ LogInit
    /\ focus # "log" => asyncActive /\ logMode = "text"
    /\ LayoutInit
    /\ SetupInit
    /\ focus # "setup" => /\ chip = "c6" /\ mode.kind = "Sniffer"
                          /\ ownSetup.width = <<>>
    /\ BringInit
    /\ focus # "bringup" => part = "c6" /\ node.kind = "Sniffer"

\* A step of one part, when it is the focus.
OfLog(Step) ==
    focus = "log" /\ Step /\ UNCHANGED <<focus, layoutVars, setupVars, bringVars>>
OfLayout(Step) ==
    focus = "layout" /\ Step /\ UNCHANGED <<focus, logVars, setupVars, bringVars>>
OfSetup(Step) ==
    focus = "setup" /\ Step /\ UNCHANGED <<focus, logVars, layoutVars, bringVars>>
OfBringUp(Step) ==
    focus = "bringup" /\ Step /\ UNCHANGED <<focus, logVars, layoutVars, setupVars>>

\* The next-state relations of the parts, disjunct by disjunct.
LogSteps ==
    \/ OfLog(\E m \in LogModes : StoreLogMode(m))
    \/ OfLog(\E m \in LogModes : SetLogMode(m))
    \/ OfLog(ForgetHeader)
    \/ OfLog(QueueCsi)
    \/ OfLog(BeginInline)
    \/ OfLog(InlineSerialized)
    \/ OfLog(InlineArray)
    \/ OfLog(InlineText)
    \/ OfLog(InlineToolHeader)
    \/ OfLog(InlineToolRow)
    \/ OfLog(QueueText)
    \/ OfLog(PrintLine)
    \/ OfLog(OpenLine)
    \/ OfLog(LineText)
    \/ OfLog(CloseLine)
    \/ OfLog(TakePacket)
    \/ OfLog(SelectText)
    \/ OfLog(DrainSerialized)
    \/ OfLog(DrainArray)
    \/ OfLog(DrainText)
    \/ OfLog(DrainToolHeader)
    \/ OfLog(DrainToolRow)
    \/ OfLog(DrainTexts)

LayoutSteps ==
    \/ OfLayout(\E i \in ClassicInfos : ReadBuffer(i))
    \/ OfLayout(\E i \in HeInfos : ReadBuffer(i))
    \/ OfLayout(\E h \in Headers : ReadHeader(h))

SetupSteps ==
    \/ OfSetup(\E s \in WireSetups : ApplyMeasurementSetup(s))
    \/ OfSetup(ApplyMeasurementSetup(WireForm))
    \/ OfSetup(\E m \in Modes : SetMode(m))
    \/ OfSetup(\E hz \in {0, 100, 1500} : SetPeriodicity(hz))
    \/ OfSetup(\E forty \in BOOLEAN : SetCsiConfig(HtAcquisition(forty)))
    \/ OfSetup(\E mac \in Sources \cup {AnySource} : SetPeerFilter(mac))
    \/ OfSetup(\E min \in {0, 1} : SetMinSigMode(min))
    \/ OfSetup(StartNode)
    \/ OfSetup(EndNode)

BringUpSteps ==
    \/ OfBringUp(\E n \in Nodes : ChooseMode(n))
    \/ OfBringUp(\E p \in {"N", "LR", "AX"} : ChooseProtocol(p))
    \/ OfBringUp(\E on \in BOOLEAN : ChooseRx(on))
    \/ OfBringUp(BeginBringUp)
    \/ OfBringUp(TreatDispatcher)
    \/ OfBringUp(ParkStation)
    \/ OfBringUp(ApplyProtocols)
    \/ OfBringUp(StartInterface)
    \/ OfBringUp(ArmCsi)
    \/ OfBringUp(StartEmitter)
    \/ OfBringUp(StartSniffer)
    \/ OfBringUp(StartWifi)
    \/ OfBringUp(StartEspNow)
    \/ OfBringUp(EndBringUp)
    \/ OfBringUp(Reboot)

MCNext == LogSteps \/ LayoutSteps \/ SetupSteps \/ BringUpSteps

\* Only the logger task has fairness: it is disabled in every other focus.
MCSpec == MCInit /\ [][MCNext]_setUpVars /\ LogFairness

PartsTypeOK == LogTypeOK /\ LayoutTypeOK /\ SetupTypeOK /\ BringTypeOK
=============================================================================
