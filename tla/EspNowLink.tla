----------------------------- MODULE EspNowLink -----------------------------
(***************************************************************************)
(* The ESP-NOW exchange: initiators that send numbered control frames       *)
(* (initiator/esp_now.rs), responders that lock onto the first valid        *)
(* initiator, answer with presence beacons and take over reporting when it  *)
(* falls silent (responder/esp_now.rs), and the static receive pool in      *)
(* between (esp_now_pool.rs).                                               *)
(*                                                                          *)
(* A node is run, stopped and run again, and may lose power at any moment;  *)
(* the receive callback and the pool are statics that outlive a run.  The   *)
(* air loses frames, and the acknowledgement of a unicast frame too, after  *)
(* which the initiator repeats the sounding number.  A node sends one frame *)
(* at a time and awaits it, so one sender's frames stay in order.  Pacing   *)
(* (deadlines, back-off, adaptive rate) is left out: when a frame is due is *)
(* open.                                                                    *)
(***************************************************************************)
EXTENDS Integers, Sequences, FiniteSets

CONSTANTS
    Initiators, Responders,
    Anyone,         \* no configured peer; as a destination, the broadcast address
    NoConfig,       \* a node that is not run
    Configs,        \* the configurations that nodes are run with
    PoolCapacity,   \* slots of the receive pool (16 in the code)
    PeersCapacity,  \* peers an initiator tracks (16 in the code)
    SeqModulus,     \* sounding numbers wrap here (2^32 in the code)
    StreakMax       \* the streak counter saturates here (255 in the code)

Nodes == Initiators \cup Responders

\* What a run of a node is configured with: the manually paired peer, whether
\* it reports, which I/O tasks it has, and whether its replies are unicast.
ConfigType ==
    [peer : Nodes \cup {Anyone}, reports : BOOLEAN, rx : BOOLEAN, tx : BOOLEAN,
     unicast : BOOLEAN]

ASSUME NodesAssumption ==
    Initiators \cap Responders = {} /\ Anyone \notin Nodes
ASSUME ConfigsAssumption ==
    \A n \in Nodes : Configs[n] \subseteq ConfigType /\ Configs[n] # {}

\* Consecutive frames that must agree before a responder takes over reporting.
ModeSwitchHysteresis == 3

ASSUME BoundsAssumption ==
    /\ PoolCapacity \in Nat \ {0} /\ PeersCapacity \in Nat \ {0}
    /\ SeqModulus \in Nat \ {0, 1}
    /\ StreakMax \in Nat /\ StreakMax >= ModeSwitchHysteresis

SeqNumbers == 0 .. SeqModulus - 1

\* An ESP-NOW frame.  `magic' says whether it bears the auto-pairing prefix,
\* which tells control frames from beacons.  `lost' is a history field: how
\* many frames of its sender the receiver's pool missed since the last one it
\* took, up to the most misses that two numbers can tell.
MaxLost == SeqModulus - 2

Control == [kind : {"control"}, src : Initiators, magic : BOOLEAN,
            reports : BOOLEAN, seq : SeqNumbers, lost : 0 .. MaxLost]
Beacon == [kind : {"beacon"}, src : Responders, magic : BOOLEAN]
Frames == Control \cup Beacon

VARIABLES
    radio,      \* radio[n]: "off", "idle" (between runs) or "run"
    config,     \* config[n]: what n's run is configured with
    pool,       \* pool[n]: QUEUE, the frames received and not yet handled
    seq,        \* seq[i]: control_sequence
    known,      \* known[i]: known_peers
    shared,     \* shared[r]: the responder's Shared
    reporting,  \* reporting[r]: REPORTS, whether the responder reports
    missed,     \* history: missed[r][i], frames of i that r's pool missed (see `lost')
    recent,     \* history: recent[r], whether the last control frames r ingested reported
    lastFrom    \* history: lastFrom[r], whose frame r ingested last in this run

initiator == <<seq, known>>
responder == <<shared, reporting, recent, lastFrom>>
vars == <<radio, config, pool, initiator, responder, missed>>

SharedType ==
    [connected : BOOLEAN, mac : Nodes \cup {Anyone}, pending : BOOLEAN,
     reports : BOOLEAN, lastSilent : BOOLEAN, streak : 0 .. StreakMax,
     lastSeq : SeqNumbers \cup {-1}]

NoShared ==
    [connected |-> FALSE, mac |-> Anyone, pending |-> FALSE,
     reports |-> FALSE, lastSilent |-> FALSE, streak |-> 0, lastSeq |-> -1]

\* A fresh Shared: manual pairing starts connected to the configured peer.
NewShared(c) ==
    [NoShared EXCEPT !.connected = c.peer # Anyone, !.mac = c.peer, !.reports = c.reports]

Init ==
    /\ radio = [n \in Nodes |-> "off"]
    /\ config = [n \in Nodes |-> NoConfig]
    /\ pool = [n \in Nodes |-> <<>>]
    /\ seq = [i \in Initiators |-> 0]
    /\ known = [i \in Initiators |-> {}]
    /\ shared = [r \in Responders |-> NoShared]
    /\ reporting = [r \in Responders |-> FALSE]
    /\ missed = [r \in Responders |-> [i \in Initiators |-> 0]]
    /\ recent = [r \in Responders |-> <<>>]
    /\ lastFrom = [r \in Responders |-> Anyone]

Running(n) == radio[n] = "run"

-----------------------------------------------------------------------------
(* The life of a node. *)

\* run_inner sets the reporting, installs the receive callback and enters the
\* role's task with fresh local state.  The pool is not drained.
Start(n) ==
    /\ ~Running(n)
    /\ radio' = [radio EXCEPT ![n] = "run"]
    /\ \E c \in Configs[n] :
        /\ config' = [config EXCEPT ![n] = c]
        /\ \/ n \in Initiators /\ UNCHANGED responder
           \/ /\ n \in Responders
              /\ shared' = [shared EXCEPT ![n] = NewShared(c)]
              /\ reporting' = [reporting EXCEPT ![n] = c.reports]
              /\ UNCHANGED <<recent, lastFrom>>
    /\ UNCHANGED <<pool, initiator, missed>>

\* The run ends, and with it the local state of its task.  REPORTS, a static,
\* is not read again until the next run sets it.
End(n, to) ==
    /\ radio' = [radio EXCEPT ![n] = to]
    /\ config' = [config EXCEPT ![n] = NoConfig]
    /\ seq' = [i \in Initiators |-> IF i = n THEN 0 ELSE seq[i]]
    /\ known' = [i \in Initiators |-> IF i = n THEN {} ELSE known[i]]
    /\ shared' = [r \in Responders |-> IF r = n THEN NoShared ELSE shared[r]]
    /\ reporting' = [r \in Responders |-> IF r = n THEN FALSE ELSE reporting[r]]
    /\ recent' = [r \in Responders |-> IF r = n THEN <<>> ELSE recent[r]]
    /\ lastFrom' = [r \in Responders |-> IF r = n THEN Anyone ELSE lastFrom[r]]

\* The role's task observes the stop signal.  The receive callback stays.
Stop(n) == Running(n) /\ End(n, "idle") /\ UNCHANGED <<pool, missed>>

PowerLoss(n) ==
    /\ radio[n] # "off"
    /\ End(n, "off")
    /\ pool' = [pool EXCEPT ![n] = <<>>]
    /\ missed' = [r \in Responders |-> IF r = n THEN [i \in Initiators |-> 0] ELSE missed[r]]

-----------------------------------------------------------------------------
(* The air. *)

\* The nodes whose radio may take a frame of s to dest.
Audience(s, dest) ==
    {n \in Nodes \ {s} : radio[n] # "off" /\ dest \in {Anyone, n}}

\* How a transmission may end: the nodes whose radio took the frame, and
\* whether the sender was told that it was sent.  Nobody acknowledges a
\* broadcast, which fails only when it is not sent at all; a unicast frame may
\* have been taken and its acknowledgement lost.
Outcomes(s, dest) ==
    {o \in [reached : SUBSET Audience(s, dest), sent : BOOLEAN] :
        IF dest = Anyone THEN o.sent \/ o.reached = {} ELSE o.sent => dest \in o.reached}

\* Mutant: the pool holds one frame too many.
TakeLate(p, f) == IF Len(p) <= PoolCapacity THEN Append(p, f) ELSE p

\* pool_rcv_cb: a full pool drops the new frame.
Take(p, f) == IF Len(p) < PoolCapacity THEN Append(p, f) ELSE p

Lands(n, o) == n \in o.reached /\ Len(pool[n]) < PoolCapacity

\* What an initiator missed grows with every number that is used up unheard.
Missed(i, o) ==
    [r \in Responders |->
        [missed[r] EXCEPT ![i] =
            IF Lands(r, o) THEN 0
            ELSE IF o.sent /\ @ < MaxLost THEN @ + 1 ELSE @]]

-----------------------------------------------------------------------------
(* The initiator. *)

\* downlink_target: the configured peer, else the only known one, else all.
DownlinkTarget(i) ==
    IF ~Running(i) THEN Anyone
    ELSE IF config[i].peer # Anyone THEN config[i].peer
    ELSE IF Cardinality(known[i]) = 1 THEN CHOOSE r \in known[i] : TRUE
    ELSE Anyone

\* A control frame is due: it is sent, and numbered anew only if it went out.
InitiatorSend(i, o) ==
    /\ Running(i) /\ config[i].tx
    /\ o \in Outcomes(i, DownlinkTarget(i))
    /\ pool' = [n \in Nodes |->
          IF n \notin o.reached THEN pool[n]
          ELSE Take(pool[n],
                 [kind |-> "control", src |-> i, magic |-> config[i].peer = Anyone,
                  reports |-> config[i].reports, seq |-> seq[i],
                  lost |-> IF n \in Responders THEN missed[n][i] ELSE 0])]
    /\ missed' = Missed(i, o)
    /\ seq' = [seq EXCEPT ![i] = IF o.sent THEN (@ + 1) % SeqModulus ELSE @]
    /\ UNCHANGED <<radio, config, known, responder>>

\* The frames handle_responder_packet accepts: in manual pairing all of the
\* configured peer's, else those that bear the responders' magic.
AcceptsReply(i, f) ==
    IF config[i].peer # Anyone THEN f.src = config[i].peer
    ELSE f.kind = "beacon" /\ f.magic

\* handle_responder_packet: the sender becomes known.  A full table is
\* cleared for it.
InitiatorReceive(i) ==
    /\ Running(i) /\ config[i].rx /\ pool[i] # <<>>
    /\ pool' = [pool EXCEPT ![i] = Tail(@)]
    /\ LET f == Head(pool[i]) IN
       known' = [known EXCEPT ![i] =
                    IF ~AcceptsReply(i, f) \/ f.src \in @ THEN @
                    ELSE IF Cardinality(@) < PeersCapacity THEN @ \cup {f.src}
                    ELSE {f.src}]
    /\ UNCHANGED <<radio, config, seq, responder, missed>>

-----------------------------------------------------------------------------
(* The responder. *)

\* The frames ingest_control_packet accepts: of the locked initiator, if
\* there is one, and control frames of the configured pairing mode.
AcceptsControl(r, f) ==
    /\ shared[r].connected => f.src = shared[r].mac
    /\ f.kind = "control" /\ f.magic = (config[r].peer = Anyone)

\* Mutant: the gap is computed in the width of the number.
GapMissesWrapping(r, f) ==
    LET gap == (f.seq + SeqModulus - shared[r].lastSeq) % SeqModulus
    IN IF shared[r].lastSeq >= 0 /\ gap > 1 THEN gap - 1 ELSE 0

\* The misses that frame f adds to RX_SEQUENCE_MISS_COUNT: a number that did
\* not grow, after a restart of the initiator, a repetition or a wrap,
\* resynchronises silently.
GapMisses(r, f) ==
    LET gap == f.seq - shared[r].lastSeq
    IN IF shared[r].lastSeq >= 0 /\ gap > 1 THEN gap - 1 ELSE 0

\* Mutant: a change of mode restarts the streak and is not remembered.
FollowModeForgets(s, silent) ==
    IF silent # s.lastSilent THEN [s EXCEPT !.streak = 1]
    ELSE [s EXCEPT !.streak = IF @ < StreakMax THEN @ + 1 ELSE @]

\* ingest_control_packet, for the mode switch: `streak' counts consecutive
\* frames that agree on whether the initiator is silent.
FollowMode(s, silent) ==
    IF silent # s.lastSilent THEN [s EXCEPT !.lastSilent = silent, !.streak = 1]
    ELSE [s EXCEPT !.streak = IF @ < StreakMax THEN @ + 1 ELSE @]

\* Mutant: any three consecutive frames take the reporting over.
PromotesAlways(before, after) == after.streak = ModeSwitchHysteresis /\ ~after.reports

\* Mutant: it takes one frame too many.
PromotesLate(before, after) ==
    after.streak > ModeSwitchHysteresis /\ after.lastSilent /\ ~after.reports

\* Three consecutive frames of a silent initiator: a responder that does not
\* report takes over.
Promotes(before, after) ==
    /\ after.lastSilent = before.lastSilent
    /\ after.streak = ModeSwitchHysteresis /\ after.lastSilent /\ ~after.reports

\* Mutant: only the frame that locks is replied to.
LockRepliesOnce(r, s, f, registered) ==
    IF ~config[r].tx \/ s.connected \/ ~registered THEN s
    ELSE [s EXCEPT !.pending = TRUE, !.connected = TRUE, !.mac = f.src]

\* ingest_control_packet, for the pairing: with a TX task, the responder
\* locks onto the sender, unless the peer table refuses it, and owes a reply.
Lock(r, s, f, registered) ==
    IF ~config[r].tx THEN s
    ELSE IF s.connected \/ ~registered THEN [s EXCEPT !.pending = TRUE]
    ELSE [s EXCEPT !.pending = TRUE, !.connected = TRUE, !.mac = f.src]

Ingest(r, f, registered) ==
    LET before == [Lock(r, shared[r], f, registered) EXCEPT !.lastSeq = f.seq]
        after == FollowMode(before, ~f.reports)
        promoted == Promotes(before, after)
    IN /\ shared' = [shared EXCEPT ![r] = [after EXCEPT !.reports = @ \/ promoted]]
       /\ reporting' = [reporting EXCEPT ![r] = @ \/ promoted]
       /\ recent' = [recent EXCEPT ![r] =
                        IF Len(@) < ModeSwitchHysteresis THEN Append(@, f.reports)
                        ELSE Append(Tail(@), f.reports)]
       /\ lastFrom' = [lastFrom EXCEPT ![r] = f.src]

ResponderReceive(r) ==
    /\ Running(r) /\ config[r].rx /\ pool[r] # <<>>
    /\ pool' = [pool EXCEPT ![r] = Tail(@)]
    /\ \/ ~AcceptsControl(r, Head(pool[r])) /\ UNCHANGED responder
       \/ /\ AcceptsControl(r, Head(pool[r]))
          /\ \E registered \in BOOLEAN : Ingest(r, Head(pool[r]), registered)
    /\ UNCHANGED <<radio, config, initiator, missed>>

\* reply_destination
ReplyDestination(r) == IF Running(r) /\ config[r].unicast THEN shared[r].mac ELSE Anyone

\* An owed reply is due.  It is not owed any more, whether or not it is sent.
ResponderReply(r, o) ==
    /\ Running(r) /\ config[r].tx
    /\ shared[r].connected /\ shared[r].pending
    /\ o \in Outcomes(r, ReplyDestination(r))
    /\ shared' = [shared EXCEPT ![r].pending = FALSE]
    /\ pool' = [n \in Nodes |->
          IF n \notin o.reached THEN pool[n]
          ELSE Take(pool[n], [kind |-> "beacon", src |-> r, magic |-> config[r].peer = Anyone])]
    /\ UNCHANGED <<radio, config, initiator, reporting, recent, lastFrom, missed>>

-----------------------------------------------------------------------------
InitiatorStep(i) ==
    \/ \E o \in Outcomes(i, DownlinkTarget(i)) : InitiatorSend(i, o)
    \/ InitiatorReceive(i)

ResponderStep(r) ==
    \/ ResponderReceive(r)
    \/ \E o \in Outcomes(r, ReplyDestination(r)) : ResponderReply(r, o)

Next ==
    \/ \E n \in Nodes : Start(n) \/ Stop(n) \/ PowerLoss(n)
    \/ \E i \in Initiators : InitiatorStep(i)
    \/ \E r \in Responders : ResponderStep(r)

\* A frame of one role that lands in the pool of a node of the other.
ControlLands(i, r) ==
    \E o \in Outcomes(i, DownlinkTarget(i)) : o.sent /\ Lands(r, o) /\ InitiatorSend(i, o)
BeaconLands(r, i) ==
    \E o \in Outcomes(r, ReplyDestination(r)) : o.sent /\ Lands(i, o) /\ ResponderReply(r, o)
LocksOn(r) == ResponderReceive(r) /\ (AcceptsControl(r, Head(pool[r])) /\ config[r].tx => shared'[r].connected)

\* A running task handles what its pool holds, and frames keep falling due.
\* Of the frames that are sent again and again to a radio that is on, some
\* get through, and the peer table has room now and then.  Nothing obliges a
\* node to be run or to stay on.
Fairness ==
    /\ \A i \in Initiators : WF_vars(InitiatorReceive(i))
    /\ \A r \in Responders : WF_vars(ResponderReceive(r)) /\ SF_vars(LocksOn(r))
    /\ \A i \in Initiators, r \in Responders :
          SF_vars(ControlLands(i, r)) /\ SF_vars(BeaconLands(r, i))

Spec == Init /\ [][Next]_vars /\ Fairness

-----------------------------------------------------------------------------
(* What the exchange promises. *)

TypeOK ==
    /\ radio \in [Nodes -> {"off", "idle", "run"}]
    /\ config \in [Nodes -> ConfigType \cup {NoConfig}]
    /\ pool \in [Nodes -> Seq(Frames)] /\ \A n \in Nodes : Len(pool[n]) <= PoolCapacity
    /\ seq \in [Initiators -> SeqNumbers]
    /\ known \in [Initiators -> SUBSET Nodes]
    /\ \A i \in Initiators : Cardinality(known[i]) <= PeersCapacity
    /\ shared \in [Responders -> SharedType]
    /\ reporting \in [Responders -> BOOLEAN]
    /\ missed \in [Responders -> [Initiators -> 0 .. MaxLost]]
    /\ recent \in [Responders -> Seq(BOOLEAN)]
    /\ lastFrom \in [Responders -> Initiators \cup {Anyone}]

\* A responder never counts a miss that did not happen: the gap it computes
\* (RX_SEQUENCE_MISS_COUNT) is at most the number of frames its pool really
\* missed, across repetitions, wraps and restarts at either end.  Only one that
\* is not locked may compare the numbers of two initiators, since the code
\* keeps one last number for all of them (Shared::last_control_sequence).
NoPhantomMisses ==
    \A r \in Responders :
        /\ Running(r) /\ pool[r] # <<>> /\ AcceptsControl(r, Head(pool[r]))
        /\ shared[r].connected \/ lastFrom[r] \in {Anyone, Head(pool[r]).src}
        => GapMisses(r, Head(pool[r])) <= Head(pool[r]).lost

\* A responder takes over reporting exactly when the last three control
\* frames of this run said that nobody does: no single frame flips it, and a
\* consistently silent initiator is never left without a reporter.
TakesOverFromSilentInitiator ==
    \A r \in Responders : Running(r) =>
        /\ reporting[r] = shared[r].reports
        /\ recent[r] = <<FALSE, FALSE, FALSE>> => reporting[r]

\* The other half: a responder that did not report starts to only then.
NeverTakesOverEarly ==
    [][\A r \in Responders :
          Running(r) /\ Running(r)' /\ ~reporting[r] /\ reporting'[r]
              => recent'[r] = <<FALSE, FALSE, FALSE>>]_vars

\* Both ends run for good, in the same pairing mode, with their I/O tasks.
Meet(i, r) ==
    /\ Running(i) /\ Running(r)
    /\ config[i].tx /\ config[r].rx
    /\ config[i].peer = Anyone /\ config[r].peer = Anyone

\* A pair that stays on ends up paired: the responder locked on the
\* initiator and the downlink on the responder, so that both ends measure,
\* whatever was lost, repeated or left in the pools before.
PairsUp ==
    \A i \in Initiators, r \in Responders :
        <>[](Meet(i, r) /\ config[i].rx /\ config[r].tx)
            => <>[](shared[r].mac = i /\ DownlinkTarget(i) = r)

\* A pair that stays on ends up with a reporter.
SomeoneReports ==
    \A i \in Initiators, r \in Responders :
        <>[]Meet(i, r) => <>[]((Running(i) /\ config[i].reports) \/ reporting[r])

\* The comment in the initiator's loop: a responder that drops out has to
\* move the downlink back to broadcast.
DropOutMovesDownlink ==
    \A i \in Initiators, r \in Responders :
        <>[](Running(i) /\ config[i].peer = Anyone /\ radio[r] = "off")
            => []<>(DownlinkTarget(i) # r)
=============================================================================
