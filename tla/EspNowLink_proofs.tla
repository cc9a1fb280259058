-------------------------- MODULE EspNowLink_proofs --------------------------
(***************************************************************************)
(* Proofs about EspNowLink, for any number of initiators and responders,    *)
(* any configurations, pools, peer tables and widths of the sounding        *)
(* number.                                                                  *)
(***************************************************************************)
EXTENDS EspNowLink, FiniteSetTheorems, SequenceTheorems, TLAPS

-----------------------------------------------------------------------------
(* Constants and frames. *)

LEMMA Bounds ==
    /\ MaxLost \in Nat /\ SeqModulus = MaxLost + 2
    /\ SeqNumbers = 0 .. MaxLost + 1
    /\ 0 \in SeqNumbers /\ 0 \in 0 .. MaxLost
    /\ \A k \in SeqNumbers : (k + 1) % SeqModulus = IF k = MaxLost + 1 THEN 0 ELSE k + 1
  BY BoundsAssumption DEF MaxLost, SeqNumbers

LEMMA Roles ==
    /\ \A i \in Initiators : i \in Nodes /\ i \notin Responders /\ i # Anyone
    /\ \A r \in Responders : r \in Nodes /\ r \notin Initiators /\ r # Anyone
    /\ \A n \in Nodes : n \in Initiators \/ n \in Responders
    /\ Anyone \notin Nodes
  BY NodesAssumption DEF Nodes

LEMMA FrameTypes ==
    /\ \A f \in Frames : f.src \in Nodes /\ f.magic \in BOOLEAN
    /\ \A f \in Frames : f.src \in Initiators \/ f.kind = "control" =>
          f \in Control
    /\ \A f \in Control : /\ f.src \in Initiators /\ f.reports \in BOOLEAN
                          /\ f.seq \in SeqNumbers /\ f.lost \in 0 .. MaxLost
                          /\ f.seq \in Int /\ f.lost \in Nat
  BY Roles, Bounds DEF Frames, Control, Beacon, SeqNumbers

LEMMA TakeTypes ==
    ASSUME NEW p \in Seq(Frames), Len(p) <= PoolCapacity, NEW f \in Frames
    PROVE  Take(p, f) \in Seq(Frames) /\ Len(Take(p, f)) <= PoolCapacity
  BY BoundsAssumption DEF Take

-----------------------------------------------------------------------------
(* Types. *)

\* A node that runs has a configuration, and the peer tables are finite.
LinkTypes ==
    /\ TypeOK
    /\ \A n \in Nodes : Running(n) => config[n] \in ConfigType
    /\ \A i \in Initiators : IsFiniteSet(known[i])

LEMMA NoSharedType == NoShared \in SharedType
  BY BoundsAssumption DEF NoShared, SharedType

LEMMA NewSharedType == \A c \in ConfigType : NewShared(c) \in SharedType
  <1> SUFFICES ASSUME NEW c \in ConfigType PROVE NewShared(c) \in SharedType
    OBVIOUS
  <1>1. \A b, x \in BOOLEAN, p \in Nodes \cup {Anyone} :
          [NoShared EXCEPT !.connected = b, !.mac = p, !.reports = x] \in SharedType
    <2>1. \A s \in SharedType, b, x \in BOOLEAN, p \in Nodes \cup {Anyone} :
            [s EXCEPT !.connected = b, !.mac = p, !.reports = x] \in SharedType
      BY DEF SharedType
    <2> QED BY <2>1, NoSharedType
  <1>2. c.peer \in Nodes \cup {Anyone} /\ c.reports \in BOOLEAN
    BY DEF ConfigType
  <1>3. (c.peer # Anyone) \in BOOLEAN
    BY Zenon
  <1> QED BY <1>1, <1>2, <1>3, Zenon DEF NewShared

LEMMA NewSharedFields ==
    \A c \in ConfigType :
        /\ NewShared(c).streak = 0 /\ NewShared(c).lastSilent = FALSE
        /\ NewShared(c).reports = c.reports /\ NewShared(c).lastSeq = -1
        /\ NewShared(c).mac = c.peer
  <1> SUFFICES ASSUME NEW c \in ConfigType
               PROVE  /\ NewShared(c).streak = 0 /\ NewShared(c).lastSilent = FALSE
                      /\ NewShared(c).reports = c.reports /\ NewShared(c).lastSeq = -1
                      /\ NewShared(c).mac = c.peer
    OBVIOUS
  <1>1. \A b, x \in BOOLEAN, p \in Nodes \cup {Anyone} :
          /\ [NoShared EXCEPT !.connected = b, !.mac = p, !.reports = x].streak = 0
          /\ [NoShared EXCEPT !.connected = b, !.mac = p, !.reports = x].lastSilent = FALSE
          /\ [NoShared EXCEPT !.connected = b, !.mac = p, !.reports = x].reports = x
          /\ [NoShared EXCEPT !.connected = b, !.mac = p, !.reports = x].lastSeq = -1
          /\ [NoShared EXCEPT !.connected = b, !.mac = p, !.reports = x].mac = p
    BY DEF NoShared
  <1>2. c.peer \in Nodes \cup {Anyone} /\ c.reports \in BOOLEAN
    BY DEF ConfigType
  <1>3. (c.peer # Anyone) \in BOOLEAN
    BY Zenon
  <1>4. PICK b \in BOOLEAN : b = (c.peer # Anyone)
    BY <1>3, Zenon
  <1>5. NewShared(c) = [NoShared EXCEPT !.connected = b, !.mac = c.peer, !.reports = c.reports]
    BY <1>4, Zenon DEF NewShared
  <1> QED BY <1>1, <1>2, <1>5

LEMMA InitTypes == Init => LinkTypes
  <1> SUFFICES ASSUME Init PROVE LinkTypes
    OBVIOUS
  <1>1. \A i \in Initiators : IsFiniteSet(known[i]) /\ Cardinality(known[i]) = 0
    BY FS_EmptySet DEF Init
  <1>2. PoolCapacity >= 0 /\ PeersCapacity >= 0
    BY BoundsAssumption
  <1>3. TypeOK
    BY <1>1, <1>2, NoSharedType, Bounds DEF Init, TypeOK
  <1> QED BY <1>1, <1>3 DEF LinkTypes, Init, Running

LEMMA StartTypes ==
    ASSUME LinkTypes, NEW n \in Nodes, Start(n)
    PROVE  LinkTypes'
  <1>1. PICK c \in Configs[n] :
           /\ config' = [config EXCEPT ![n] = c]
           /\ \/ n \in Initiators /\ UNCHANGED responder
              \/ /\ n \in Responders
                 /\ shared' = [shared EXCEPT ![n] = NewShared(c)]
                 /\ reporting' = [reporting EXCEPT ![n] = c.reports]
                 /\ UNCHANGED <<recent, lastFrom>>
    BY DEF Start
  <1>2. c \in ConfigType /\ c.reports \in BOOLEAN
    BY ConfigsAssumption DEF ConfigType
  <1>3. NewShared(c) \in SharedType
    BY <1>2, NewSharedType
  <1>4. UNCHANGED <<pool, seq, known, missed, recent, lastFrom>>
    BY <1>1 DEF Start, initiator, responder
  <1>5. radio' = [radio EXCEPT ![n] = "run"]
    BY DEF Start
  <1>6. shared' \in [Responders -> SharedType] /\ reporting' \in [Responders -> BOOLEAN]
    BY <1>1, <1>2, <1>3 DEF LinkTypes, TypeOK, responder
  <1>7. TypeOK'
    BY <1>1, <1>2, <1>4, <1>5, <1>6 DEF LinkTypes, TypeOK
  <1>8. \A m \in Nodes : Running(m)' => config'[m] \in ConfigType
    BY <1>1, <1>2, <1>5 DEF LinkTypes, TypeOK, Running
  <1> QED BY <1>4, <1>7, <1>8 DEF LinkTypes

LEMMA EndTypes ==
    ASSUME LinkTypes, NEW n \in Nodes, NEW to \in {"off", "idle"}, End(n, to),
           pool' \in [Nodes -> Seq(Frames)], \A m \in Nodes : Len(pool'[m]) <= PoolCapacity,
           missed' \in [Responders -> [Initiators -> 0 .. MaxLost]]
    PROVE  LinkTypes'
  <1>1. \A i \in Initiators : IsFiniteSet(known'[i]) /\ Cardinality(known'[i]) <= PeersCapacity
    BY FS_EmptySet, BoundsAssumption DEF End, LinkTypes, TypeOK
  <1>2. TypeOK'
    <2>1. radio' \in [Nodes -> {"off", "idle", "run"}] /\ config' \in [Nodes -> ConfigType \cup {NoConfig}]
      BY DEF End, LinkTypes, TypeOK
    <2>2. seq' \in [Initiators -> SeqNumbers] /\ known' \in [Initiators -> SUBSET Nodes]
      BY Bounds DEF End, LinkTypes, TypeOK
    <2>3. /\ shared' \in [Responders -> SharedType] /\ reporting' \in [Responders -> BOOLEAN]
          /\ lastFrom' \in [Responders -> Initiators \cup {Anyone}]
      BY NoSharedType DEF End, LinkTypes, TypeOK
    <2>4. recent' \in [Responders -> Seq(BOOLEAN)]
      BY EmptySeq DEF End, LinkTypes, TypeOK
    <2> QED BY <1>1, <2>1, <2>2, <2>3, <2>4, Zenon DEF TypeOK
  <1>3. \A m \in Nodes : Running(m)' => config'[m] \in ConfigType
    BY DEF End, LinkTypes, TypeOK, Running
  <1> QED BY <1>1, <1>2, <1>3 DEF LinkTypes

\* The control frame of a running initiator, as node n hears it.
ControlFrame(i, n) ==
    [kind |-> "control", src |-> i, magic |-> config[i].peer = Anyone,
     reports |-> config[i].reports, seq |-> seq[i],
     lost |-> IF n \in Responders THEN missed[n][i] ELSE 0]

LEMMA ControlFrameType ==
    ASSUME LinkTypes, NEW i \in Initiators, Running(i), NEW n \in Nodes
    PROVE  ControlFrame(i, n) \in Control
  <1>1. config[i].reports \in BOOLEAN
    BY Roles DEF LinkTypes, ConfigType
  <1>2. (IF n \in Responders THEN missed[n][i] ELSE 0) \in 0 .. MaxLost
    BY Bounds DEF LinkTypes, TypeOK
  <1>3. seq[i] \in SeqNumbers /\ (config[i].peer = Anyone) \in BOOLEAN
    BY DEF LinkTypes, TypeOK
  <1> QED BY <1>1, <1>2, <1>3 DEF ControlFrame, Control

LEMMA InitiatorSendTypes ==
    ASSUME LinkTypes, NEW i \in Initiators, NEW o, InitiatorSend(i, o)
    PROVE  LinkTypes'
  <1>1. pool' = [n \in Nodes |-> IF n \notin o.reached THEN pool[n]
                                ELSE Take(pool[n], ControlFrame(i, n))]
    BY Zenon DEF InitiatorSend, ControlFrame
  <1>2. \A n \in Nodes : ControlFrame(i, n) \in Frames
    BY ControlFrameType DEF InitiatorSend, Frames
  <1>3. \A n \in Nodes : pool'[n] \in Seq(Frames) /\ Len(pool'[n]) <= PoolCapacity
    BY <1>1, <1>2, TakeTypes DEF LinkTypes, TypeOK
  <1>4. missed' \in [Responders -> [Initiators -> 0 .. MaxLost]]
    <2>1. \A r \in Responders : [missed[r] EXCEPT ![i] =
            IF Lands(r, o) THEN 0
            ELSE IF o.sent /\ @ < MaxLost THEN @ + 1 ELSE @] \in [Initiators -> 0 .. MaxLost]
      BY Bounds DEF LinkTypes, TypeOK
    <2> QED BY <2>1 DEF InitiatorSend, Missed
  <1>5. seq' \in [Initiators -> SeqNumbers]
    BY Bounds DEF InitiatorSend, LinkTypes, TypeOK
  <1>6. UNCHANGED <<radio, config, known, shared, reporting, recent, lastFrom>>
    BY DEF InitiatorSend, responder
  <1>7. pool' \in [Nodes -> Seq(Frames)]
    BY <1>1, <1>3
  <1> QED BY <1>3, <1>4, <1>5, <1>6, <1>7 DEF LinkTypes, TypeOK, Running

LEMMA InitiatorReceiveTypes ==
    ASSUME LinkTypes, NEW i \in Initiators, InitiatorReceive(i)
    PROVE  LinkTypes'
  <1> DEFINE f == Head(pool[i])
             new == IF ~AcceptsReply(i, f) \/ f.src \in known[i] THEN known[i]
                    ELSE IF Cardinality(known[i]) < PeersCapacity THEN known[i] \cup {f.src}
                    ELSE {f.src}
  <1>1. pool[i] \in Seq(Frames) /\ pool[i] # <<>> /\ f \in Frames /\ f.src \in Nodes
    BY Roles, FrameTypes DEF InitiatorReceive, LinkTypes, TypeOK
  <1>2. IsFiniteSet(new) /\ Cardinality(new) <= PeersCapacity /\ new \subseteq Nodes
    <2>0. /\ known[i] \subseteq Nodes /\ IsFiniteSet(known[i])
          /\ Cardinality(known[i]) <= PeersCapacity
      BY DEF LinkTypes, TypeOK
    <2> HIDE DEF f
    <2>1. CASE new = known[i]
      BY <2>0, <2>1
    <2>2. CASE new = known[i] \cup {f.src} /\ f.src \notin known[i] /\ Cardinality(known[i]) < PeersCapacity
      <3>1. IsFiniteSet(new) /\ Cardinality(new) = Cardinality(known[i]) + 1
        BY <2>0, <2>2, FS_AddElement
      <3>2. Cardinality(known[i]) \in Nat
        BY <2>0, FS_CardinalityType
      <3> QED BY <1>1, <2>0, <2>2, <3>1, <3>2, BoundsAssumption
    <2>3. CASE new = {f.src}
      <3>1. IsFiniteSet(new) /\ Cardinality(new) = 1
        BY <2>3, FS_Singleton
      <3> QED BY <1>1, <2>3, <3>1, BoundsAssumption
    <2> QED BY <2>1, <2>2, <2>3
  <1>3. known' = [known EXCEPT ![i] = new]
    BY DEF InitiatorReceive, LinkTypes, TypeOK
  <1>4. /\ pool' = [pool EXCEPT ![i] = Tail(@)]
        /\ UNCHANGED <<radio, config, seq, shared, reporting, recent, lastFrom, missed>>
    BY DEF InitiatorReceive, responder
  <1>5. Tail(pool[i]) \in Seq(Frames) /\ Len(Tail(pool[i])) <= PoolCapacity
    <2>1. Len(Tail(pool[i])) = Len(pool[i]) - 1 /\ Len(pool[i]) \in Nat
      BY <1>1
    <2> QED BY <1>1, <2>1, Roles, BoundsAssumption DEF LinkTypes, TypeOK
  <1> HIDE DEF new, f
  <1>6. /\ pool' \in [Nodes -> Seq(Frames)]
        /\ \A n \in Nodes : Len(pool'[n]) <= PoolCapacity
    BY <1>4, <1>5 DEF LinkTypes, TypeOK
  <1>7. /\ known' \in [Initiators -> SUBSET Nodes]
        /\ \A j \in Initiators : IsFiniteSet(known'[j]) /\ Cardinality(known'[j]) <= PeersCapacity
    BY <1>2, <1>3 DEF LinkTypes, TypeOK
  <1> QED BY <1>4, <1>6, <1>7 DEF LinkTypes, TypeOK, Running

-----------------------------------------------------------------------------
(* What the intake of a control frame does to a responder. *)

LEMMA LockEffect ==
    ASSUME NEW r \in Responders, NEW s \in SharedType, NEW f \in Control,
           NEW registered \in BOOLEAN
    PROVE  /\ Lock(r, s, f, registered) \in SharedType
           /\ s.connected => /\ Lock(r, s, f, registered).connected
                             /\ Lock(r, s, f, registered).mac = s.mac
           /\ ~s.connected /\ Lock(r, s, f, registered).connected =>
                Lock(r, s, f, registered).mac = f.src
           /\ Lock(r, s, f, registered).reports = s.reports
           /\ Lock(r, s, f, registered).lastSilent = s.lastSilent
           /\ Lock(r, s, f, registered).streak = s.streak
           /\ Lock(r, s, f, registered).lastSeq = s.lastSeq
  BY FrameTypes, Roles DEF Lock, SharedType

\* The streak after a frame that agrees, or does not, with the one before it.
Streak(s, silent) ==
    IF silent # s.lastSilent THEN 1
    ELSE IF s.streak < StreakMax THEN s.streak + 1 ELSE s.streak

LEMMA FollowModeEffect ==
    ASSUME NEW s \in SharedType, NEW silent \in BOOLEAN
    PROVE  /\ FollowMode(s, silent) \in SharedType
           /\ FollowMode(s, silent).lastSilent = silent
           /\ FollowMode(s, silent).streak = Streak(s, silent)
           /\ FollowMode(s, silent).connected = s.connected
           /\ FollowMode(s, silent).mac = s.mac
           /\ FollowMode(s, silent).reports = s.reports
           /\ FollowMode(s, silent).lastSeq = s.lastSeq
  <1>1. /\ 1 \in 0 .. StreakMax /\ s.streak \in 0 .. StreakMax
        /\ s.streak < StreakMax => s.streak + 1 \in 0 .. StreakMax
        /\ s.lastSilent \in BOOLEAN
    BY BoundsAssumption DEF SharedType, ModeSwitchHysteresis
  <1>2. CASE silent # s.lastSilent
    <2>1. FollowMode(s, silent) = [s EXCEPT !.lastSilent = silent, !.streak = 1]
      BY <1>2, Zenon DEF FollowMode
    <2>2. Streak(s, silent) = 1
      BY <1>2, Zenon DEF Streak
    <2> QED BY <1>1, <2>1, <2>2 DEF SharedType
  <1>3. CASE silent = s.lastSilent
    <2>1. FollowMode(s, silent) = [s EXCEPT !.streak = Streak(s, silent)]
      BY <1>3, Zenon DEF FollowMode, Streak
    <2>2. Streak(s, silent) \in 0 .. StreakMax
      BY <1>1, <1>3 DEF Streak
    <2> QED BY <1>3, <2>1, <2>2 DEF SharedType
  <1> QED BY <1>2, <1>3

\* A responder is promoted by its third frame in a row of a silent initiator.
Promoted(s, f) ==
    /\ s.lastSilent /\ ~f.reports /\ ~s.reports
    /\ Streak(s, TRUE) = ModeSwitchHysteresis

LEMMA IngestEffect ==
    ASSUME LinkTypes, NEW r \in Responders, NEW f \in Control, NEW registered \in BOOLEAN,
           Ingest(r, f, registered)
    PROVE  /\ shared' \in [Responders -> SharedType]
           /\ \A q \in Responders : q # r => shared'[q] = shared[q]
           /\ shared'[r].lastSeq = f.seq
           /\ shared'[r].lastSilent = ~f.reports
           /\ shared'[r].streak = Streak(shared[r], ~f.reports)
           /\ shared'[r].reports <=> shared[r].reports \/ Promoted(shared[r], f)
           /\ shared[r].connected =>
                 shared'[r].connected /\ shared'[r].mac = shared[r].mac
           /\ ~shared[r].connected /\ shared'[r].connected => shared'[r].mac = f.src
           /\ reporting' \in [Responders -> BOOLEAN]
           /\ \A q \in Responders : q # r => reporting'[q] = reporting[q]
           /\ reporting'[r] <=> reporting[r] \/ Promoted(shared[r], f)
  <1> DEFINE s == shared[r]
             locked == Lock(r, s, f, registered)
             before == [locked EXCEPT !.lastSeq = f.seq]
             after == FollowMode(before, ~f.reports)
             promoted == Promotes(before, after)
  <1>1. /\ s \in SharedType /\ f.reports \in BOOLEAN /\ (~f.reports) \in BOOLEAN
        /\ f.seq \in SeqNumbers
    BY FrameTypes DEF LinkTypes, TypeOK
  <1>2. /\ shared' = [shared EXCEPT ![r] = [after EXCEPT !.reports = @ \/ promoted]]
        /\ reporting' = [reporting EXCEPT ![r] = @ \/ promoted]
    BY Zenon DEF Ingest
  <1> HIDE DEF s
  <1>3. /\ locked \in SharedType
        /\ s.connected => locked.connected /\ locked.mac = s.mac
        /\ ~s.connected /\ locked.connected => locked.mac = f.src
        /\ locked.reports = s.reports /\ locked.lastSilent = s.lastSilent
        /\ locked.streak = s.streak /\ locked.lastSeq = s.lastSeq
    BY <1>1, LockEffect
  <1> HIDE DEF locked
  <1>4. /\ before \in SharedType /\ before.lastSeq = f.seq
        /\ s.connected => before.connected /\ before.mac = s.mac
        /\ ~s.connected /\ before.connected => before.mac = f.src
        /\ before.reports = s.reports /\ before.lastSilent = s.lastSilent
        /\ before.streak = s.streak
    BY <1>1, <1>3 DEF SharedType
  <1> HIDE DEF before
  <1>5. /\ after \in SharedType /\ after.lastSeq = f.seq
        /\ after.connected = before.connected /\ after.mac = before.mac
        /\ after.reports = s.reports /\ after.lastSilent = ~f.reports
        /\ after.streak = Streak(before, ~f.reports)
    BY <1>1, <1>4, FollowModeEffect
  <1>6. Streak(before, ~f.reports) = Streak(s, ~f.reports)
    BY <1>4 DEF Streak
  <1> HIDE DEF after
  <1>7. promoted \in BOOLEAN /\ promoted = Promoted(s, f)
    <2>1. promoted <=> Promoted(s, f)
      <3>1. /\ s.lastSilent \in BOOLEAN /\ s.reports \in BOOLEAN
        BY <1>1 DEF SharedType
      <3>2. CASE s.lastSilent = ~f.reports
        BY <1>1, <1>4, <1>5, <1>6, <3>1, <3>2 DEF Promotes, Promoted
      <3>3. CASE s.lastSilent # ~f.reports
        BY <1>1, <1>4, <1>5, <1>6, <3>1, <3>3 DEF Promotes, Promoted
      <3> QED BY <3>2, <3>3
    <2>2. promoted \in BOOLEAN /\ Promoted(s, f) \in BOOLEAN
      BY Zenon DEF Promotes, Promoted
    <2> QED BY <2>1, <2>2, Zenon
  <1> HIDE DEF promoted
  <1>8. /\ shared'[r] = [after EXCEPT !.reports = @ \/ promoted]
        /\ DOMAIN shared' = Responders
        /\ \A q \in Responders : q # r => shared'[q] = shared[q] /\ shared'[q] \in SharedType
    BY <1>2 DEF LinkTypes, TypeOK
  <1>9. /\ shared'[r] \in SharedType
        /\ shared'[r].lastSeq = after.lastSeq /\ shared'[r].lastSilent = after.lastSilent
        /\ shared'[r].streak = after.streak /\ shared'[r].connected = after.connected
        /\ shared'[r].mac = after.mac /\ shared'[r].reports = (after.reports \/ promoted)
    <2>1. (after.reports \/ promoted) \in BOOLEAN
      BY Zenon
    <2> QED BY <1>5, <1>8, <2>1 DEF SharedType
  <1>10. /\ reporting' \in [Responders -> BOOLEAN]
         /\ \A q \in Responders : q # r => reporting'[q] = reporting[q]
         /\ reporting'[r] <=> reporting[r] \/ Promoted(s, f)
    <2>1. PICK b \in BOOLEAN : b = (reporting[r] \/ Promoted(s, f))
      BY Zenon
    <2>2. reporting' = [reporting EXCEPT ![r] = b]
      BY <1>2, <1>7, <2>1, Zenon
    <2>3. reporting' \in [Responders -> BOOLEAN] /\ reporting'[r] = b
          /\ \A q \in Responders : q # r => reporting'[q] = reporting[q]
      BY <2>2 DEF LinkTypes, TypeOK
    <2> QED BY <2>1, <2>3, Zenon
  <1>11. shared'[r].reports <=> s.reports \/ Promoted(s, f)
    BY <1>5, <1>7, <1>9, Zenon
  <1>12. /\ s.connected => shared'[r].connected /\ shared'[r].mac = s.mac
         /\ ~s.connected /\ shared'[r].connected => shared'[r].mac = f.src
    BY <1>4, <1>5, <1>9, Zenon
  <1>13. /\ shared'[r].lastSeq = f.seq /\ shared'[r].lastSilent = ~f.reports
         /\ shared'[r].streak = Streak(s, ~f.reports)
    BY <1>5, <1>6, <1>9, Zenon
  <1>14. shared' \in [Responders -> SharedType]
    BY <1>2, <1>8, <1>9 DEF LinkTypes, TypeOK
  <1> QED BY <1>8, <1>9, <1>10, <1>11, <1>12, <1>13, <1>14, Zenon DEF s

\* The last flags heard, with one more.
LEMMA RecentTypes ==
    ASSUME NEW w \in Seq(BOOLEAN), NEW b \in BOOLEAN
    PROVE  (IF Len(w) < ModeSwitchHysteresis THEN Append(w, b) ELSE Append(Tail(w), b))
             \in Seq(BOOLEAN)
  <1>1. Append(w, b) \in Seq(BOOLEAN)
    BY AppendProperties
  <1>2. CASE w = <<>>
    BY <1>1, <1>2 DEF ModeSwitchHysteresis
  <1>3. CASE w # <<>>
    <2>1. Tail(w) \in Seq(BOOLEAN)
      BY <1>3, HeadTailProperties
    <2>2. Append(Tail(w), b) \in Seq(BOOLEAN)
      BY <2>1, AppendProperties
    <2> QED BY <1>1, <2>2
  <1> QED BY <1>2, <1>3

LEMMA ResponderReceiveTypes ==
    ASSUME LinkTypes, NEW r \in Responders, ResponderReceive(r)
    PROVE  LinkTypes'
  <1> DEFINE f == Head(pool[r])
  <1>1. pool[r] \in Seq(Frames) /\ pool[r] # <<>> /\ f \in Frames
    BY Roles DEF ResponderReceive, LinkTypes, TypeOK
  <1>2. /\ pool' = [pool EXCEPT ![r] = Tail(@)]
        /\ UNCHANGED <<radio, config, seq, known, missed>>
    BY DEF ResponderReceive, initiator
  <1>3. Tail(pool[r]) \in Seq(Frames) /\ Len(Tail(pool[r])) <= PoolCapacity
    <2>1. Len(Tail(pool[r])) = Len(pool[r]) - 1 /\ Len(pool[r]) \in Nat
      BY <1>1
    <2> QED BY <1>1, <2>1, Roles, BoundsAssumption DEF LinkTypes, TypeOK
  <1>4. /\ pool' \in [Nodes -> Seq(Frames)]
        /\ \A n \in Nodes : Len(pool'[n]) <= PoolCapacity
    BY <1>2, <1>3 DEF LinkTypes, TypeOK
  <1>5. /\ shared' \in [Responders -> SharedType] /\ reporting' \in [Responders -> BOOLEAN]
        /\ recent' \in [Responders -> Seq(BOOLEAN)]
        /\ lastFrom' \in [Responders -> Initiators \cup {Anyone}]
    <2>1. CASE UNCHANGED responder
      BY <2>1 DEF responder, LinkTypes, TypeOK
    <2>2. CASE ~UNCHANGED responder
      <3>0. PICK b \in BOOLEAN : AcceptsControl(r, f) /\ Ingest(r, f, b)
        BY <2>2, Zenon DEF ResponderReceive
      <3>1. f \in Control
        BY <1>1, <3>0, FrameTypes DEF AcceptsControl
      <3>2. PICK g \in Control : Ingest(r, g, b)
        BY <3>0, <3>1
      <3>3. shared' \in [Responders -> SharedType]
        BY <3>2, IngestEffect, Zenon
      <3>4. reporting' \in [Responders -> BOOLEAN]
        BY <3>2, IngestEffect, Zenon
      <3>5. recent' \in [Responders -> Seq(BOOLEAN)]
        <4> DEFINE newer == IF Len(recent[r]) < ModeSwitchHysteresis
                            THEN Append(recent[r], g.reports)
                            ELSE Append(Tail(recent[r]), g.reports)
        <4>1. g.reports \in BOOLEAN /\ recent[r] \in Seq(BOOLEAN)
          BY <3>2, FrameTypes DEF LinkTypes, TypeOK
        <4>2. newer \in Seq(BOOLEAN)
          BY <4>1, RecentTypes, Zenon
        <4>3. recent' = [recent EXCEPT ![r] = newer]
          BY <3>2 DEF Ingest, LinkTypes, TypeOK
        <4> HIDE DEF newer
        <4> QED BY <4>2, <4>3 DEF LinkTypes, TypeOK
      <3>6. lastFrom' \in [Responders -> Initiators \cup {Anyone}]
        <4>1. g.src \in Initiators
          BY FrameTypes
        <4> QED BY <3>2, <4>1 DEF Ingest, LinkTypes, TypeOK
      <3> QED BY <3>3, <3>4, <3>5, <3>6
    <2> QED BY <2>1, <2>2
  <1> QED BY <1>2, <1>4, <1>5 DEF LinkTypes, TypeOK, Running

\* The beacon of a running responder.
BeaconFrame(r) == [kind |-> "beacon", src |-> r, magic |-> config[r].peer = Anyone]

LEMMA BeaconFrameType == \A r \in Responders : BeaconFrame(r) \in Beacon
  <1> SUFFICES ASSUME NEW r \in Responders PROVE BeaconFrame(r) \in Beacon
    OBVIOUS
  <1>1. (config[r].peer = Anyone) \in BOOLEAN
    BY Zenon
  <1> QED BY <1>1 DEF BeaconFrame, Beacon

LEMMA ResponderReplyTypes ==
    ASSUME LinkTypes, NEW r \in Responders, NEW o, ResponderReply(r, o)
    PROVE  LinkTypes'
  <1>1. pool' = [n \in Nodes |-> IF n \notin o.reached THEN pool[n]
                                ELSE Take(pool[n], BeaconFrame(r))]
    BY Zenon DEF ResponderReply, BeaconFrame
  <1>2. BeaconFrame(r) \in Frames
    BY BeaconFrameType DEF Frames
  <1>3. \A n \in Nodes : pool'[n] \in Seq(Frames) /\ Len(pool'[n]) <= PoolCapacity
    BY <1>1, <1>2, TakeTypes DEF LinkTypes, TypeOK
  <1>4. pool' \in [Nodes -> Seq(Frames)]
    BY <1>1, <1>3
  <1>5. shared' \in [Responders -> SharedType]
    <2>1. \A t \in SharedType : [t EXCEPT !.pending = FALSE] \in SharedType
      BY DEF SharedType
    <2>2. shared' = [shared EXCEPT ![r] = [shared[r] EXCEPT !.pending = FALSE]]
      BY Zenon DEF ResponderReply
    <2> QED BY <2>1, <2>2 DEF LinkTypes, TypeOK
  <1>6. UNCHANGED <<radio, config, seq, known, missed, reporting, recent, lastFrom>>
    BY DEF ResponderReply, initiator
  <1> QED BY <1>3, <1>4, <1>5, <1>6 DEF LinkTypes, TypeOK, Running

LEMMA StopTypes ==
    ASSUME LinkTypes, NEW n \in Nodes, Stop(n)
    PROVE  LinkTypes'
  BY EndTypes DEF Stop, LinkTypes, TypeOK

LEMMA PowerLossTypes ==
    ASSUME LinkTypes, NEW n \in Nodes, PowerLoss(n)
    PROVE  LinkTypes'
  <1>1. <<>> \in Seq(Frames) /\ Len(<<>>) <= PoolCapacity
    BY EmptySeq, BoundsAssumption
  <1>2. /\ pool' \in [Nodes -> Seq(Frames)]
        /\ \A m \in Nodes : Len(pool'[m]) <= PoolCapacity
    BY <1>1 DEF PowerLoss, LinkTypes, TypeOK
  <1>3. missed' \in [Responders -> [Initiators -> 0 .. MaxLost]]
    BY Bounds DEF PowerLoss, LinkTypes, TypeOK
  <1> QED BY <1>2, <1>3, EndTypes DEF PowerLoss

\* Every step is one of these.
LEMMA StepCases ==
    ASSUME [Next]_vars
    PROVE  \/ \E n \in Nodes : Start(n) \/ Stop(n) \/ PowerLoss(n)
           \/ \E i \in Initiators : InitiatorReceive(i) \/ \E o : InitiatorSend(i, o)
           \/ \E r \in Responders : ResponderReceive(r) \/ \E o : ResponderReply(r, o)
           \/ UNCHANGED <<radio, config, pool, seq, known, shared, reporting, recent,
                          lastFrom, missed>>
  BY Zenon DEF Next, InitiatorStep, ResponderStep, vars, initiator, responder

LEMMA LinkTypesStep == LinkTypes /\ [Next]_vars => LinkTypes'
  <1> SUFFICES ASSUME LinkTypes, [Next]_vars PROVE LinkTypes'
    OBVIOUS
  <1>1. ASSUME UNCHANGED <<radio, config, pool, seq, known, shared, reporting, recent,
                           lastFrom, missed>>
        PROVE  LinkTypes'
    BY <1>1 DEF LinkTypes, TypeOK, Running
  <1> QED
    BY <1>1, StepCases, StartTypes, StopTypes, PowerLossTypes, InitiatorSendTypes,
       InitiatorReceiveTypes, ResponderReceiveTypes, ResponderReplyTypes, Zenon

-----------------------------------------------------------------------------
(* Taking over the reporting. *)

LEMMA AppendToOne == \A a, b : Append(<<a>>, b) = <<a, b>>
  <1> TAKE a, b
  <1> DEFINE S == {a, b}
  <1>1. <<a>> \in Seq(S) /\ b \in S /\ <<a, b>> \in Seq(S)
    OBVIOUS
  <1>2. /\ Append(<<a>>, b) \in Seq(S) /\ Len(Append(<<a>>, b)) = 2
        /\ Append(<<a>>, b)[1] = a /\ Append(<<a>>, b)[2] = b
    BY <1>1
  <1>3. Len(<<a, b>>) = 2 /\ <<a, b>>[1] = a /\ <<a, b>>[2] = b
    OBVIOUS
  <1>4. Len(Append(<<a>>, b)) = 2 /\ \A i \in 1 .. 2 : Append(<<a>>, b)[i] = <<a, b>>[i]
    <2>1. \A i \in 1 .. 2 : i = 1 \/ i = 2
      OBVIOUS
    <2> QED BY <1>2, <1>3, <2>1, Zenon
  <1> QED BY <1>1, <1>2, <1>3, <1>4, SeqEqual, Zenon

LEMMA AppendToTwo == \A a, b, c : Append(<<a, b>>, c) = <<a, b, c>>
  <1> TAKE a, b, c
  <1> DEFINE S == {a, b, c}
  <1>1. <<a, b>> \in Seq(S) /\ c \in S /\ <<a, b, c>> \in Seq(S)
    OBVIOUS
  <1>2. /\ Append(<<a, b>>, c) \in Seq(S) /\ Len(Append(<<a, b>>, c)) = 3
        /\ Append(<<a, b>>, c)[1] = a /\ Append(<<a, b>>, c)[2] = b /\ Append(<<a, b>>, c)[3] = c
    BY <1>1
  <1>3. Len(<<a, b, c>>) = 3 /\ <<a, b, c>>[1] = a /\ <<a, b, c>>[2] = b /\ <<a, b, c>>[3] = c
    OBVIOUS
  <1>4. Len(Append(<<a, b>>, c)) = 3 /\ \A i \in 1 .. 3 : Append(<<a, b>>, c)[i] = <<a, b, c>>[i]
    <2>1. \A i \in 1 .. 3 : i = 1 \/ i = 2 \/ i = 3
      OBVIOUS
    <2> QED BY <1>2, <1>3, <2>1, Zenon
  <1> QED BY <1>1, <1>2, <1>3, <1>4, SeqEqual, Zenon

\* What Ingest does to the last flags heard.
Newer(w, b) == IF Len(w) < ModeSwitchHysteresis THEN Append(w, b) ELSE Append(Tail(w), b)

LEMMA NewerIs ==
    /\ \A a : Newer(<<>>, a) = <<a>>
    /\ \A a, b : Newer(<<a>>, b) = <<a, b>>
    /\ \A a, b, c : Newer(<<a, b>>, c) = <<a, b, c>>
    /\ \A a, b, c, d : Newer(<<a, b, c>>, d) = <<b, c, d>>
  <1>1. \A a : Append(<<>>, a) = <<a>>
    OBVIOUS
  <1>2. \A a, b, c : Tail(<<a, b, c>>) = <<b, c>>
    OBVIOUS
  <1>3. \A a, b, c : /\ Len(<<>>) = 0 /\ Len(<<a>>) = 1
                     /\ Len(<<a, b>>) = 2 /\ Len(<<a, b, c>>) = 3
    OBVIOUS
  <1>4. /\ 0 < ModeSwitchHysteresis /\ 1 < ModeSwitchHysteresis
        /\ 2 < ModeSwitchHysteresis /\ ~(3 < ModeSwitchHysteresis)
    BY DEF ModeSwitchHysteresis
  <1>5. \A a : Newer(<<>>, a) = <<a>>
    BY <1>1, <1>3, <1>4, Zenon DEF Newer
  <1>6. \A a, b : Newer(<<a>>, b) = <<a, b>>
    BY <1>3, <1>4, AppendToOne, Zenon DEF Newer
  <1>7. \A a, b, c : Newer(<<a, b>>, c) = <<a, b, c>>
    BY <1>3, <1>4, AppendToTwo, Zenon DEF Newer
  <1>8. \A a, b, c, d : Newer(<<a, b, c>>, d) = <<b, c, d>>
    <2> TAKE a, b, c, d
    <2>1. Newer(<<a, b, c>>, d) = Append(Tail(<<a, b, c>>), d)
      BY <1>3, <1>4, Zenon DEF Newer
    <2>2. Tail(<<a, b, c>>) = <<b, c>>
      BY <1>2, Zenon
    <2>3. Append(<<b, c>>, d) = <<b, c, d>>
      BY AppendToTwo, Zenon
    <2> QED BY <2>1, <2>2, <2>3, Zenon
  <1> QED BY <1>5, <1>6, <1>7, <1>8

\* How the streak sums up the last flags heard: it counts the equal ones at
\* the end of w, as far as w goes back.
Trail(w, streak, silent) ==
    \/ w = <<>> /\ streak = 0 /\ ~silent
    \/ \E a \in BOOLEAN : w = <<a>> /\ (silent <=> ~a) /\ streak = 1
    \/ \E a, b \in BOOLEAN : /\ w = <<a, b>> /\ (silent <=> ~b)
                             /\ streak = IF a <=> b THEN 2 ELSE 1
    \/ \E a, b, c \in BOOLEAN : /\ w = <<a, b, c>> /\ (silent <=> ~c)
                                /\ IF ~(b <=> c) THEN streak = 1
                                   ELSE IF a <=> b THEN streak >= 3 ELSE streak = 2

LEMMA TrailStep ==
    ASSUME NEW w, NEW d \in BOOLEAN, NEW l \in BOOLEAN, NEW k \in 0 .. StreakMax, NEW n \in Nat,
           (l <=> d) => n = 1,
           (l <=> ~d) => n = IF k < StreakMax THEN k + 1 ELSE k,
           Trail(w, k, l)
    PROVE  Trail(Newer(w, d), n, ~d)
  <1>0. StreakMax \in Nat /\ StreakMax >= 3
    BY BoundsAssumption DEF ModeSwitchHysteresis
  <1>1. CASE w = <<>> /\ k = 0 /\ ~l
    <2>1. Newer(w, d) = <<d>>
      BY <1>1, NewerIs
    <2>2. n = 1
      BY <1>0, <1>1
    <2> QED BY <2>1, <2>2 DEF Trail
  <1>2. ASSUME NEW a \in BOOLEAN, w = <<a>> /\ (l <=> ~a) /\ k = 1
        PROVE  Trail(Newer(w, d), n, ~d)
    <2>1. Newer(w, d) = <<a, d>>
      BY <1>2, NewerIs
    <2>2. n = IF a <=> d THEN 2 ELSE 1
      BY <1>0, <1>2
    <2> QED BY <2>1, <2>2 DEF Trail
  <1>3. ASSUME NEW a \in BOOLEAN, NEW b \in BOOLEAN, w = <<a, b>> /\ (l <=> ~b),
               k = IF a <=> b THEN 2 ELSE 1
        PROVE  Trail(Newer(w, d), n, ~d)
    <2>1. Newer(w, d) = <<a, b, d>>
      BY <1>3, NewerIs
    <2>2. IF ~(b <=> d) THEN n = 1 ELSE IF a <=> b THEN n >= 3 ELSE n = 2
      BY <1>0, <1>3
    <2> QED BY <2>1, <2>2 DEF Trail
  <1>4. ASSUME NEW a \in BOOLEAN, NEW b \in BOOLEAN, NEW c \in BOOLEAN,
               w = <<a, b, c>> /\ (l <=> ~c),
               IF ~(b <=> c) THEN k = 1 ELSE IF a <=> b THEN k >= 3 ELSE k = 2
        PROVE  Trail(Newer(w, d), n, ~d)
    <2>1. Newer(w, d) = <<b, c, d>>
      BY <1>4, NewerIs
    <2>2. IF ~(c <=> d) THEN n = 1 ELSE IF b <=> c THEN n >= 3 ELSE n = 2
      BY <1>0, <1>4
    <2> QED BY <2>1, <2>2 DEF Trail
  <1> QED BY <1>1, <1>2, <1>3, <1>4 DEF Trail

\* The flags of a node that does not run are gone, the streak is that of the
\* last flags, and three in a row of a silent initiator were acted upon.
TakeOverInv ==
    \A r \in Responders :
        /\ Trail(recent[r], shared[r].streak, shared[r].lastSilent)
        /\ shared[r].streak >= 3 /\ shared[r].lastSilent => shared[r].reports
        /\ ~Running(r) => recent[r] = <<>> /\ lastFrom[r] = Anyone
        /\ Running(r) => (reporting[r] <=> shared[r].reports)

LEMMA TakeOverInit == Init => TakeOverInv
  BY EmptySeq DEF Init, TakeOverInv, Trail, NoShared, Running

LEMMA EndTakeOver ==
    ASSUME LinkTypes, TakeOverInv, NEW n \in Nodes, NEW to \in {"off", "idle"}, End(n, to)
    PROVE  TakeOverInv'
  <1>1. Trail(<<>>, NoShared.streak, NoShared.lastSilent) /\ ~(NoShared.streak >= 3)
    BY EmptySeq DEF Trail, NoShared
  <1> SUFFICES ASSUME NEW r \in Responders
               PROVE  /\ Trail(recent'[r], shared'[r].streak, shared'[r].lastSilent)
                      /\ shared'[r].streak >= 3 /\ shared'[r].lastSilent => shared'[r].reports
                      /\ ~Running(r)' => recent'[r] = <<>> /\ lastFrom'[r] = Anyone
                      /\ Running(r)' => (reporting'[r] <=> shared'[r].reports)
    BY Zenon DEF TakeOverInv
  <1>2. CASE r = n
    <2>1. recent'[r] = <<>> /\ lastFrom'[r] = Anyone /\ shared'[r] = NoShared /\ ~Running(r)'
      BY <1>2 DEF End, Running, LinkTypes, TypeOK
    <2> QED BY <1>1, <2>1
  <1>3. CASE r # n
    <2>1. /\ recent'[r] = recent[r] /\ lastFrom'[r] = lastFrom[r] /\ shared'[r] = shared[r]
          /\ reporting'[r] = reporting[r] /\ Running(r)' = Running(r)
      BY <1>3, Roles DEF End, Running, LinkTypes, TypeOK
    <2> QED BY <2>1 DEF TakeOverInv
  <1> QED BY <1>2, <1>3

LEMMA StartTakeOver ==
    ASSUME LinkTypes, TakeOverInv, NEW n \in Nodes, Start(n)
    PROVE  TakeOverInv'
  <1>1. PICK c \in Configs[n] :
           \/ n \in Initiators /\ UNCHANGED responder
           \/ /\ n \in Responders
              /\ shared' = [shared EXCEPT ![n] = NewShared(c)]
              /\ reporting' = [reporting EXCEPT ![n] = c.reports]
              /\ UNCHANGED <<recent, lastFrom>>
    BY DEF Start
  <1>2. UNCHANGED <<recent, lastFrom>> /\ radio' = [radio EXCEPT ![n] = "run"] /\ ~Running(n)
    BY <1>1 DEF Start, responder
  <1> SUFFICES ASSUME NEW r \in Responders
               PROVE  /\ Trail(recent'[r], shared'[r].streak, shared'[r].lastSilent)
                      /\ shared'[r].streak >= 3 /\ shared'[r].lastSilent => shared'[r].reports
                      /\ ~Running(r)' => recent'[r] = <<>> /\ lastFrom'[r] = Anyone
                      /\ Running(r)' => (reporting'[r] <=> shared'[r].reports)
    BY Zenon DEF TakeOverInv
  <1>3. CASE r = n
    <2>1. /\ shared'[r] = NewShared(c) /\ reporting'[r] = c.reports /\ recent'[r] = <<>>
          /\ Running(r)'
      BY <1>1, <1>2, <1>3, Roles DEF LinkTypes, TypeOK, TakeOverInv, Running
    <2>2. /\ NewShared(c).streak = 0 /\ NewShared(c).lastSilent = FALSE
          /\ NewShared(c).reports = c.reports
      BY NewSharedFields, ConfigsAssumption
    <2>3. Trail(<<>>, 0, FALSE)
      BY Zenon DEF Trail
    <2> QED BY <2>1, <2>2, <2>3
  <1>4. CASE r # n
    <2>1. /\ recent'[r] = recent[r] /\ lastFrom'[r] = lastFrom[r] /\ shared'[r] = shared[r]
          /\ reporting'[r] = reporting[r] /\ Running(r)' = Running(r)
      BY <1>1, <1>2, <1>4, Roles DEF responder, Running, LinkTypes, TypeOK
    <2> QED BY <2>1 DEF TakeOverInv
  <1> QED BY <1>3, <1>4

LEMMA IngestTakeOver ==
    ASSUME LinkTypes, TakeOverInv, NEW r \in Responders, NEW f \in Control,
           NEW registered \in BOOLEAN, Ingest(r, f, registered), Running(r), UNCHANGED radio
    PROVE  TakeOverInv'
  <1>1. /\ shared'[r].lastSilent = ~f.reports
        /\ shared'[r].streak = Streak(shared[r], ~f.reports)
        /\ shared'[r].reports <=> shared[r].reports \/ Promoted(shared[r], f)
        /\ reporting'[r] <=> reporting[r] \/ Promoted(shared[r], f)
        /\ \A q \in Responders : q # r => shared'[q] = shared[q] /\ reporting'[q] = reporting[q]
    <2>1. /\ shared'[r].lastSilent = ~f.reports
          /\ shared'[r].streak = Streak(shared[r], ~f.reports)
      BY IngestEffect
    <2>2. shared'[r].reports <=> shared[r].reports \/ Promoted(shared[r], f)
      BY IngestEffect
    <2>3. reporting'[r] <=> reporting[r] \/ Promoted(shared[r], f)
      BY IngestEffect
    <2>4. \A q \in Responders : q # r => shared'[q] = shared[q]
      BY IngestEffect
    <2>5. \A q \in Responders : q # r => reporting'[q] = reporting[q]
      BY IngestEffect
    <2> QED BY <2>1, <2>2, <2>3, <2>4, <2>5, Zenon
  <1>2. /\ recent'[r] = Newer(recent[r], f.reports)
        /\ \A q \in Responders : q # r => recent'[q] = recent[q] /\ lastFrom'[q] = lastFrom[q]
    BY DEF Ingest, Newer, LinkTypes, TypeOK
  <1>3. /\ shared[r] \in SharedType /\ recent[r] \in Seq(BOOLEAN) /\ f.reports \in BOOLEAN
        /\ shared[r].lastSilent \in BOOLEAN /\ shared[r].streak \in 0 .. StreakMax
    BY FrameTypes DEF LinkTypes, TypeOK, SharedType
  <1>4. PICK d, l \in BOOLEAN : d = f.reports /\ l = shared[r].lastSilent
    BY <1>3
  <1>5. shared[r].streak \in 0 .. StreakMax /\ StreakMax \in Nat /\ StreakMax >= 3
    BY <1>3, BoundsAssumption DEF ModeSwitchHysteresis
  <1>6. /\ (l <=> d) => shared'[r].streak = 1
        /\ (l <=> ~d) => shared'[r].streak =
              IF shared[r].streak < StreakMax THEN shared[r].streak + 1 ELSE shared[r].streak
    BY <1>1, <1>4 DEF Streak
  <1>7. Trail(recent'[r], shared'[r].streak, shared'[r].lastSilent)
    <2>1. shared'[r].streak \in Nat
      BY <1>5, <1>6
    <2>2. Trail(recent[r], shared[r].streak, l)
      BY <1>4 DEF TakeOverInv
    <2>3. Trail(Newer(recent[r], d), shared'[r].streak, ~d)
      BY <1>5, <1>6, <2>1, <2>2, TrailStep
    <2> QED BY <1>1, <1>2, <1>4, <2>3, Zenon
  <1>8. shared'[r].streak >= 3 /\ shared'[r].lastSilent => shared'[r].reports
    <2> SUFFICES ASSUME shared'[r].streak >= 3, ~d, ~shared[r].reports
                 PROVE  Promoted(shared[r], f)
      BY <1>1, <1>4
    <2>1. l /\ shared'[r].streak = IF shared[r].streak < StreakMax
                                   THEN shared[r].streak + 1 ELSE shared[r].streak
      BY <1>6
    <2>2. ~(shared[r].streak >= 3)
      BY <1>4, <2>1 DEF TakeOverInv
    <2>3. shared'[r].streak = 3
      BY <1>5, <2>1, <2>2
    <2>4. shared'[r].streak = Streak(shared[r], TRUE)
      BY <1>1, <1>4
    <2> QED BY <1>4, <2>1, <2>3, <2>4 DEF Promoted, ModeSwitchHysteresis
  <1>9. Running(r)' /\ (reporting'[r] <=> shared'[r].reports)
    BY <1>1 DEF TakeOverInv, Running
  <1>10. ASSUME NEW q \in Responders, q # r
        PROVE  /\ Trail(recent'[q], shared'[q].streak, shared'[q].lastSilent)
               /\ shared'[q].streak >= 3 /\ shared'[q].lastSilent => shared'[q].reports
               /\ ~Running(q)' => recent'[q] = <<>> /\ lastFrom'[q] = Anyone
               /\ Running(q)' => (reporting'[q] <=> shared'[q].reports)
    BY <1>1, <1>2, <1>10 DEF TakeOverInv, Running
  <1> QED BY <1>7, <1>8, <1>9, <1>10 DEF TakeOverInv

LEMMA KeptTakeOver ==
    ASSUME TakeOverInv, UNCHANGED <<radio, shared, reporting, recent, lastFrom>>
    PROVE  TakeOverInv'
  BY Zenon DEF TakeOverInv, Running

LEMMA ReplyTakeOver ==
    ASSUME LinkTypes, TakeOverInv, NEW r \in Responders, NEW o, ResponderReply(r, o)
    PROVE  TakeOverInv'
  <1>1. /\ shared' = [shared EXCEPT ![r].pending = FALSE]
        /\ UNCHANGED <<radio, reporting, recent, lastFrom>>
    BY DEF ResponderReply
  <1>2. \A q \in Responders :
          /\ shared'[q].streak = shared[q].streak
          /\ shared'[q].lastSilent = shared[q].lastSilent
          /\ shared'[q].reports = shared[q].reports
    BY <1>1 DEF LinkTypes, TypeOK, SharedType
  <1> QED BY <1>1, <1>2, Zenon DEF TakeOverInv, Running

LEMMA TakeOverStep == LinkTypes /\ TakeOverInv /\ [Next]_vars => TakeOverInv'
  <1> SUFFICES ASSUME LinkTypes, TakeOverInv, [Next]_vars PROVE TakeOverInv'
    OBVIOUS
  <1>1. ASSUME NEW n \in Nodes, Stop(n) \/ PowerLoss(n)
        PROVE  TakeOverInv'
    BY <1>1, EndTakeOver DEF Stop, PowerLoss
  <1>2. ASSUME NEW i \in Initiators, InitiatorReceive(i) \/ \E o : InitiatorSend(i, o)
        PROVE  TakeOverInv'
    <2>1. UNCHANGED <<radio, responder>>
      BY <1>2, Zenon DEF InitiatorReceive, InitiatorSend
    <2> QED BY <2>1, KeptTakeOver, Zenon DEF responder
  <1>3. ASSUME NEW r \in Responders, ResponderReceive(r)
        PROVE  TakeOverInv'
    <2>1. Running(r) /\ UNCHANGED radio /\ pool[r] # <<>>
      BY <1>3, Zenon DEF ResponderReceive
    <2>2. CASE UNCHANGED responder
      BY <2>1, <2>2, KeptTakeOver, Zenon DEF responder
    <2>3. CASE ~UNCHANGED responder
      <3>1. PICK b \in BOOLEAN : AcceptsControl(r, Head(pool[r])) /\ Ingest(r, Head(pool[r]), b)
        BY <1>3, <2>3, Zenon DEF ResponderReceive
      <3>2. Head(pool[r]) \in Control
        BY <2>1, <3>1, Roles, FrameTypes DEF AcceptsControl, LinkTypes, TypeOK
      <3> QED BY <2>1, <3>1, <3>2, IngestTakeOver, Zenon
    <2> QED BY <2>2, <2>3
  <1>4. ASSUME UNCHANGED <<radio, config, pool, seq, known, shared, reporting, recent,
                           lastFrom, missed>>
        PROVE  TakeOverInv'
    BY <1>4, KeptTakeOver, Zenon
  <1> QED BY <1>1, <1>2, <1>3, <1>4, StepCases, StartTakeOver, ReplyTakeOver, Zenon

LEMMA SilentTrail ==
    \A w, l : \A k \in Nat :
        Trail(w, k, l) => (k >= 3 /\ l <=> w = <<FALSE, FALSE, FALSE>>)
  <1> SUFFICES ASSUME NEW w, NEW l, NEW k \in Nat, Trail(w, k, l)
               PROVE  k >= 3 /\ l <=> w = <<FALSE, FALSE, FALSE>>
    OBVIOUS
  <1>1. CASE w = <<>> /\ k = 0 /\ ~l
    BY <1>1
  <1>2. ASSUME NEW a \in BOOLEAN, w = <<a>> /\ k = 1
        PROVE  k >= 3 /\ l <=> w = <<FALSE, FALSE, FALSE>>
    BY <1>2
  <1>3. ASSUME NEW a \in BOOLEAN, NEW b \in BOOLEAN, w = <<a, b>>, k = IF a <=> b THEN 2 ELSE 1
        PROVE  k >= 3 /\ l <=> w = <<FALSE, FALSE, FALSE>>
    BY <1>3
  <1>4. ASSUME NEW a \in BOOLEAN, NEW b \in BOOLEAN, NEW c \in BOOLEAN,
               w = <<a, b, c>>, l <=> ~c,
               IF ~(b <=> c) THEN k = 1 ELSE IF a <=> b THEN k >= 3 ELSE k = 2
        PROVE  k >= 3 /\ l <=> w = <<FALSE, FALSE, FALSE>>
    <2>1. CASE ~a /\ ~b /\ ~c
      BY <1>4, <2>1
    <2>2. CASE a \/ b \/ c
      <3>1. <<a, b, c>> # <<FALSE, FALSE, FALSE>>
        <4>1. /\ <<a, b, c>>[1] = a /\ <<a, b, c>>[2] = b /\ <<a, b, c>>[3] = c
              /\ <<FALSE, FALSE, FALSE>>[1] = FALSE /\ <<FALSE, FALSE, FALSE>>[2] = FALSE
              /\ <<FALSE, FALSE, FALSE>>[3] = FALSE
          OBVIOUS
        <4> QED BY <2>2, <4>1, Zenon
      <3>2. ~(k >= 3 /\ l)
        BY <1>4, <2>2
      <3> QED BY <1>4, <3>1, <3>2, Zenon
    <2> QED BY <2>1, <2>2
  <1> QED BY <1>1, <1>2, <1>3, <1>4 DEF Trail

LEMMA TakeOverCorrect == LinkTypes /\ TakeOverInv => TakesOverFromSilentInitiator
  <1> SUFFICES ASSUME LinkTypes, TakeOverInv, NEW r \in Responders, Running(r)
               PROVE  /\ reporting[r] = shared[r].reports
                      /\ recent[r] = <<FALSE, FALSE, FALSE>> => reporting[r]
    BY DEF TakesOverFromSilentInitiator
  <1>1. /\ reporting[r] \in BOOLEAN /\ shared[r].reports \in BOOLEAN
        /\ shared[r].streak \in Nat
    BY DEF LinkTypes, TypeOK, SharedType
  <1>2. reporting[r] <=> shared[r].reports
    BY Zenon DEF TakeOverInv
  <1>3. recent[r] = <<FALSE, FALSE, FALSE>> => shared[r].reports
    BY <1>1, SilentTrail, Zenon DEF TakeOverInv
  <1> QED BY <1>1, <1>2, <1>3

TakesOverThen ==
    \A r \in Responders :
        Running(r) /\ Running(r)' /\ ~reporting[r] /\ reporting'[r]
            => recent'[r] = <<FALSE, FALSE, FALSE>>

LEMMA TakeOverIsEarned ==
    LinkTypes /\ LinkTypes' /\ TakeOverInv /\ TakeOverInv' /\ [Next]_vars => TakesOverThen
  <1> SUFFICES ASSUME LinkTypes, LinkTypes', TakeOverInv, TakeOverInv', [Next]_vars,
                      NEW r \in Responders, Running(r), Running(r)', ~reporting[r], reporting'[r]
               PROVE  recent'[r] = <<FALSE, FALSE, FALSE>>
    BY DEF TakesOverThen
  <1>1. PICK q \in Responders : ResponderReceive(q)
    <2>1. ASSUME NEW n \in Nodes, Start(n) PROVE FALSE
      <3>1. n # r /\ ~Running(n)
        BY <2>1 DEF Start
      <3>2. reporting'[r] = reporting[r]
        BY <2>1, <3>1 DEF Start, responder, LinkTypes, TypeOK
      <3> QED BY <3>2
    <2>2. ASSUME NEW n \in Nodes, Stop(n) \/ PowerLoss(n) PROVE FALSE
      <3>1. n # r
        BY <2>2 DEF Stop, PowerLoss, End, Running, LinkTypes, TypeOK
      <3>2. reporting'[r] = reporting[r]
        BY <2>2, <3>1 DEF Stop, PowerLoss, End
      <3> QED BY <3>2
    <2>3. ASSUME UNCHANGED reporting PROVE FALSE
      BY <2>3
    <2>4. ASSUME NEW i \in Initiators, InitiatorReceive(i) \/ \E o : InitiatorSend(i, o)
          PROVE  UNCHANGED reporting
      BY <2>4, Zenon DEF InitiatorReceive, InitiatorSend, responder
    <2>5. ASSUME NEW q \in Responders, NEW o, ResponderReply(q, o) PROVE UNCHANGED reporting
      BY <2>5, Zenon DEF ResponderReply
    <2> QED BY <2>1, <2>2, <2>3, <2>4, <2>5, StepCases, Zenon
  <1>2. PICK b \in BOOLEAN : Ingest(q, Head(pool[q]), b) /\ AcceptsControl(q, Head(pool[q]))
    BY <1>1, Zenon DEF ResponderReceive, responder
  <1>3. pool[q] # <<>> /\ Head(pool[q]) \in Control
    BY <1>1, <1>2, Roles, FrameTypes DEF ResponderReceive, AcceptsControl, LinkTypes, TypeOK
  <1>4. PICK f \in Control : Ingest(q, f, b)
    BY <1>2, <1>3
  <1>5. q = r
    <2>1. \A p \in Responders : p # q => reporting'[p] = reporting[p]
      BY <1>4, IngestEffect
    <2> QED BY <2>1
  <1>6. Promoted(shared[r], f)
    <2>1. reporting'[r] <=> reporting[r] \/ Promoted(shared[r], f)
      BY <1>4, <1>5, IngestEffect
    <2> QED BY <2>1
  <1>7. shared'[r].lastSilent = ~f.reports /\ shared'[r].streak = Streak(shared[r], ~f.reports)
    BY <1>4, <1>5, IngestEffect
  <1>8. shared'[r].lastSilent /\ shared'[r].streak >= 3
    <2>1. (~f.reports) = TRUE
      BY <1>6, FrameTypes DEF Promoted
    <2>2. shared'[r].streak = 3
      BY <1>6, <1>7, <2>1 DEF Promoted, ModeSwitchHysteresis
    <2>3. 3 >= 3
      OBVIOUS
    <2> QED BY <1>7, <2>1, <2>2, <2>3, Zenon
  <1>9. shared'[r].streak \in Nat
    BY DEF LinkTypes, TypeOK, SharedType
  <1> QED BY <1>8, <1>9, SilentTrail, Zenon DEF TakeOverInv

-----------------------------------------------------------------------------
(* Sequences of frames, one initiator's seen apart. *)

\* Frame b may follow frame a of the same run of its sender, or begins a run.
Fits(a, b) ==
    \/ b.seq <= b.lost + 1
    \/ (b.magic <=> a.magic) /\ b.seq - a.seq <= b.lost + 1

\* Frame b, if it is of this pairing mode, claims no more misses than there were.
Follows(n, mode, b) == (b.magic <=> mode) => b.seq - n <= b.lost + 1

\* Every frame of i among the first n fits the one of i before it.
Chain(s, n, i) ==
    \A p, q \in 1 .. n :
        /\ p < q /\ s[p].src = i /\ s[q].src = i
        /\ \A k \in 1 .. n : p < k /\ k < q => s[k].src # i
        => Fits(s[p], s[q])

\* The first frame of i follows the last number ingested.
Base(s, n, i, last, mode) ==
    \A q \in 1 .. n :
        /\ s[q].src = i
        /\ \A k \in 1 .. n : k < q => s[k].src # i
        => Follows(last, mode, s[q])

LEMMA ChainGrows ==
    ASSUME NEW n \in Nat \ {0}, NEW s, NEW t, NEW i, Chain(s, n, i), s[n].src = i,
           \A k \in 1 .. n : t[k] = s[k], Fits(s[n], t[n + 1])
    PROVE  Chain(t, n + 1, i)
  <1> SUFFICES ASSUME NEW p \in 1 .. n + 1, NEW q \in 1 .. n + 1, p < q,
                      t[p].src = i, t[q].src = i,
                      \A k \in 1 .. n + 1 : p < k /\ k < q => t[k].src # i
               PROVE  Fits(t[p], t[q])
    BY DEF Chain
  <1>1. CASE q = n + 1
    <2>1. p = n
      BY <1>1
    <2> QED BY <1>1, <2>1
  <1>2. CASE q # n + 1
    <2>1. p \in 1 .. n /\ q \in 1 .. n
      BY <1>2
    <2>2. \A k \in 1 .. n : k \in 1 .. n + 1
      OBVIOUS
    <2> QED BY <2>1, <2>2 DEF Chain
  <1> QED BY <1>1, <1>2

LEMMA ChainInserts ==
    ASSUME NEW n \in Nat \ {0}, NEW s, NEW t, NEW i, Chain(s, n, i),
           \A k \in 1 .. n - 1 : t[k] = s[k], t[n].src # i, t[n + 1] = s[n]
    PROVE  Chain(t, n + 1, i)
  <1> SUFFICES ASSUME NEW p \in 1 .. n + 1, NEW q \in 1 .. n + 1, p < q,
                      t[p].src = i, t[q].src = i,
                      \A k \in 1 .. n + 1 : p < k /\ k < q => t[k].src # i
               PROVE  Fits(t[p], t[q])
    BY DEF Chain
  <1>1. p \in 1 .. n - 1 /\ q # n
    <2>1. p # n /\ q # n
      BY Zenon
    <2> QED BY <2>1
  <1>2. CASE q = n + 1
    <2>1. \A k \in 1 .. n : p < k /\ k < n => s[k].src # i
      <3> SUFFICES ASSUME NEW k \in 1 .. n, p < k, k < n PROVE s[k].src # i
        OBVIOUS
      <3>1. k \in 1 .. n - 1 /\ k \in 1 .. n + 1 /\ k < q
        BY <1>2
      <3> QED BY <3>1
    <2>2. s[p] = t[p] /\ s[n] = t[q] /\ p \in 1 .. n /\ n \in 1 .. n /\ p < n
      BY <1>1, <1>2
    <2>3. s[p].src = i /\ s[n].src = i
      BY <2>2
    <2>4. Fits(s[p], s[n])
      BY <2>1, <2>2, <2>3, Zenon DEF Chain
    <2> QED BY <2>2, <2>4
  <1>3. CASE q # n + 1
    <2>1. q \in 1 .. n - 1
      BY <1>1, <1>3
    <2>2. \A k \in 1 .. n : p < k /\ k < q => s[k].src # i
      <3> SUFFICES ASSUME NEW k \in 1 .. n, p < k, k < q PROVE s[k].src # i
        OBVIOUS
      <3>1. k \in 1 .. n - 1 /\ k \in 1 .. n + 1
        BY <2>1
      <3> QED BY <3>1
    <2>3. s[p] = t[p] /\ s[q] = t[q] /\ p \in 1 .. n /\ q \in 1 .. n
      BY <1>1, <2>1
    <2> QED BY <2>2, <2>3, Zenon DEF Chain
  <1> QED BY <1>2, <1>3

LEMMA ChainRetips ==
    ASSUME NEW n \in Nat \ {0}, NEW s, NEW t, NEW i, Chain(s, n, i), s[n].src = i,
           \A k \in 1 .. n - 1 : t[k] = s[k],
           \A k \in 1 .. n - 1 : s[k].src = i /\ Fits(s[k], s[n]) => Fits(s[k], t[n])
    PROVE  Chain(t, n, i)
  <1> SUFFICES ASSUME NEW p \in 1 .. n, NEW q \in 1 .. n, p < q,
                      t[p].src = i, t[q].src = i,
                      \A k \in 1 .. n : p < k /\ k < q => t[k].src # i
               PROVE  Fits(t[p], t[q])
    BY DEF Chain
  <1>1. p \in 1 .. n - 1 /\ s[p] = t[p]
    OBVIOUS
  <1>2. \A k \in 1 .. n : p < k /\ k < q => k \in 1 .. n - 1
    OBVIOUS
  <1>3. \A k \in 1 .. n : p < k /\ k < q => s[k].src # i
    BY <1>2
  <1>4. s[q].src = i
    OBVIOUS
  <1>5. Fits(s[p], s[q])
    BY <1>1, <1>3, <1>4 DEF Chain
  <1> QED BY <1>1, <1>5

LEMMA ChainShrinks ==
    ASSUME NEW n \in Nat \ {0}, NEW s, NEW t, NEW i, Chain(s, n + 1, i),
           \A k \in 1 .. n : t[k] = s[k + 1]
    PROVE  Chain(t, n, i)
  <1> SUFFICES ASSUME NEW p \in 1 .. n, NEW q \in 1 .. n, p < q,
                      t[p].src = i, t[q].src = i,
                      \A k \in 1 .. n : p < k /\ k < q => t[k].src # i
               PROVE  Fits(t[p], t[q])
    BY DEF Chain
  <1>1. /\ p + 1 \in 1 .. n + 1 /\ q + 1 \in 1 .. n + 1 /\ p + 1 < q + 1
        /\ s[p + 1] = t[p] /\ s[q + 1] = t[q]
    OBVIOUS
  <1>2. \A k \in 1 .. n + 1 : p + 1 < k /\ k < q + 1 => s[k].src # i
    <2> SUFFICES ASSUME NEW k \in 1 .. n + 1, p + 1 < k, k < q + 1 PROVE s[k].src # i
      OBVIOUS
    <2>1. k - 1 \in 1 .. n /\ p < k - 1 /\ k - 1 < q /\ (k - 1) + 1 = k
      OBVIOUS
    <2> QED BY <2>1
  <1> QED BY <1>1, <1>2 DEF Chain

LEMMA BaseGrows ==
    ASSUME NEW n \in Nat \ {0}, NEW s, NEW t, NEW i, NEW last, NEW mode,
           Base(s, n, i, last, mode), s[n].src = i, \A k \in 1 .. n : t[k] = s[k]
    PROVE  Base(t, n + 1, i, last, mode)
  <1> SUFFICES ASSUME NEW q \in 1 .. n + 1, t[q].src = i,
                      \A k \in 1 .. n + 1 : k < q => t[k].src # i
               PROVE  Follows(last, mode, t[q])
    BY DEF Base
  <1>1. q \in 1 .. n
    <2>1. n \in 1 .. n + 1 /\ t[n].src = i /\ n < n + 1
      OBVIOUS
    <2>2. q # n + 1
      BY <2>1, Zenon
    <2> QED BY <2>2
  <1>2. \A k \in 1 .. n : k \in 1 .. n + 1
    OBVIOUS
  <1> QED BY <1>1, <1>2 DEF Base

LEMMA BaseInserts ==
    ASSUME NEW n \in Nat \ {0}, NEW s, NEW t, NEW i, NEW last, NEW mode,
           Base(s, n, i, last, mode),
           \A k \in 1 .. n - 1 : t[k] = s[k], t[n].src # i, t[n + 1] = s[n]
    PROVE  Base(t, n + 1, i, last, mode)
  <1> SUFFICES ASSUME NEW q \in 1 .. n + 1, t[q].src = i,
                      \A k \in 1 .. n + 1 : k < q => t[k].src # i
               PROVE  Follows(last, mode, t[q])
    BY DEF Base
  <1>0. q # n
    BY Zenon
  <1>1. CASE q = n + 1
    <2>1. \A k \in 1 .. n : k < n => s[k].src # i
      <3> SUFFICES ASSUME NEW k \in 1 .. n, k < n PROVE s[k].src # i
        OBVIOUS
      <3>1. k \in 1 .. n - 1 /\ k \in 1 .. n + 1 /\ k < q
        BY <1>1
      <3> QED BY <3>1
    <2>2. s[n] = t[q] /\ n \in 1 .. n /\ s[n].src = i
      BY <1>1
    <2> QED BY <2>1, <2>2 DEF Base
  <1>2. CASE q # n + 1
    <2>1. q \in 1 .. n - 1 /\ q \in 1 .. n
      BY <1>0, <1>2
    <2>2. \A k \in 1 .. n : k < q => s[k].src # i
      <3> SUFFICES ASSUME NEW k \in 1 .. n, k < q PROVE s[k].src # i
        OBVIOUS
      <3>1. k \in 1 .. n - 1 /\ k \in 1 .. n + 1
        BY <2>1
      <3> QED BY <3>1
    <2> QED BY <2>1, <2>2 DEF Base
  <1> QED BY <1>1, <1>2

LEMMA BaseRetips ==
    ASSUME NEW n \in Nat \ {0}, NEW s, NEW t, NEW i, NEW last, NEW mode,
           Base(s, n, i, last, mode), s[n].src = i,
           \A k \in 1 .. n - 1 : t[k] = s[k],
           Follows(last, mode, s[n]) => Follows(last, mode, t[n])
    PROVE  Base(t, n, i, last, mode)
  <1> SUFFICES ASSUME NEW q \in 1 .. n, t[q].src = i,
                      \A k \in 1 .. n : k < q => t[k].src # i
               PROVE  Follows(last, mode, t[q])
    BY DEF Base
  <1>1. \A k \in 1 .. n : k < q => k \in 1 .. n - 1
    OBVIOUS
  <1>2. \A k \in 1 .. n : k < q => s[k].src # i
    BY <1>1
  <1>3. s[q].src = i
    OBVIOUS
  <1>4. Follows(last, mode, s[q])
    BY <1>2, <1>3 DEF Base
  <1> QED BY <1>4

LEMMA BaseShrinks ==
    ASSUME NEW n \in Nat \ {0}, NEW s, NEW t, NEW i, NEW last, NEW mode,
           Base(s, n + 1, i, last, mode), s[1].src # i,
           \A k \in 1 .. n : t[k] = s[k + 1]
    PROVE  Base(t, n, i, last, mode)
  <1> SUFFICES ASSUME NEW q \in 1 .. n, t[q].src = i,
                      \A k \in 1 .. n : k < q => t[k].src # i
               PROVE  Follows(last, mode, t[q])
    BY DEF Base
  <1>1. q + 1 \in 1 .. n + 1 /\ s[q + 1] = t[q]
    OBVIOUS
  <1>2. \A k \in 1 .. n + 1 : k < q + 1 => s[k].src # i
    <2> SUFFICES ASSUME NEW k \in 1 .. n + 1, k < q + 1 PROVE s[k].src # i
      OBVIOUS
    <2>1. CASE k = 1
      BY <2>1
    <2>2. CASE k # 1
      <3>1. k - 1 \in 1 .. n /\ k - 1 < q /\ (k - 1) + 1 = k
        BY <2>2
      <3> QED BY <3>1
    <2> QED BY <2>1, <2>2
  <1> QED BY <1>1, <1>2 DEF Base

LEMMA BaseFromChain ==
    ASSUME NEW n \in Nat \ {0}, NEW s, NEW t, NEW i, NEW last, NEW mode,
           Chain(s, n + 1, i), s[1].src = i,
           \A k \in 1 .. n : t[k] = s[k + 1],
           \A k \in 1 .. n : t[k].src = i /\ Fits(s[1], t[k]) => Follows(last, mode, t[k])
    PROVE  Base(t, n, i, last, mode)
  <1> SUFFICES ASSUME NEW q \in 1 .. n, t[q].src = i,
                      \A k \in 1 .. n : k < q => t[k].src # i
               PROVE  Follows(last, mode, t[q])
    BY DEF Base
  <1>1. 1 \in 1 .. n + 1 /\ q + 1 \in 1 .. n + 1 /\ 1 < q + 1 /\ s[q + 1] = t[q]
    OBVIOUS
  <1>2. \A k \in 1 .. n + 1 : 1 < k /\ k < q + 1 => s[k].src # i
    <2> SUFFICES ASSUME NEW k \in 1 .. n + 1, 1 < k, k < q + 1 PROVE s[k].src # i
      OBVIOUS
    <2>1. k - 1 \in 1 .. n /\ k - 1 < q /\ (k - 1) + 1 = k
      OBVIOUS
    <2> QED BY <2>1
  <1>3. Fits(s[1], s[q + 1])
    BY <1>1, <1>2 DEF Chain
  <1> QED BY <1>1, <1>3

-----------------------------------------------------------------------------
(* The frames that wait in a pool, and the frame that its sender sends next. *)

StreamOf(P, u) == [k \in 1 .. Len(P) + 1 |-> IF k = Len(P) + 1 THEN u ELSE P[k]]

Good(P, u, i, active, last, mode) ==
    /\ Chain(StreamOf(P, u), Len(P) + 1, i)
    /\ active => Base(StreamOf(P, u), Len(P) + 1, i, last, mode)

LEMMA StreamItems ==
    ASSUME NEW P \in Seq(Frames), NEW u, NEW n \in Nat, n = Len(P)
    PROVE  /\ StreamOf(P, u)[n + 1] = u
           /\ \A k \in 1 .. n : StreamOf(P, u)[k] = P[k] /\ StreamOf(P, u)[k] \in Frames
  BY DEF StreamOf

\* The frame lands, and another is due.
LEMMA GoodLands ==
    ASSUME NEW P \in Seq(Frames), NEW u \in Frames, NEW v, NEW i, NEW active, NEW last, NEW mode,
           Good(P, u, i, active, last, mode), u.src = i, Fits(u, v)
    PROVE  Good(Append(P, u), v, i, active, last, mode)
  <1> DEFINE s == StreamOf(P, u)
             t == StreamOf(Append(P, u), v)
  <1>1. PICK n \in Nat : n = Len(P)
    OBVIOUS
  <1>2. /\ Append(P, u) \in Seq(Frames) /\ Len(Append(P, u)) = n + 1
        /\ \A k \in 1 .. n : Append(P, u)[k] = P[k]
        /\ Append(P, u)[n + 1] = u
    BY <1>1, AppendProperties
  <1>3. s[n + 1] = u /\ \A k \in 1 .. n : s[k] = P[k]
    BY <1>1, StreamItems
  <1>4. t[(n + 1) + 1] = v /\ \A k \in 1 .. n + 1 : t[k] = Append(P, u)[k]
    <2>1. PICK m \in Nat : m = n + 1
      OBVIOUS
    <2>2. PICK Q \in Seq(Frames) : Q = Append(P, u)
      BY <1>2
    <2>3. m = Len(Q)
      BY <1>2, <2>1, <2>2
    <2>4. /\ StreamOf(Q, v)[m + 1] = v
          /\ \A k \in 1 .. m : StreamOf(Q, v)[k] = Q[k]
      BY <2>3, StreamItems
    <2> QED BY <2>1, <2>2, <2>4
  <1> HIDE DEF s, t
  <1>5. \A k \in 1 .. n + 1 : t[k] = s[k]
    <2>1. \A k \in 1 .. n + 1 : k \in 1 .. n \/ k = n + 1
      OBVIOUS
    <2> QED BY <1>2, <1>3, <1>4, <2>1
  <1>6. n + 1 \in Nat \ {0}
    OBVIOUS
  <1>7. Chain(s, n + 1, i) /\ (active => Base(s, n + 1, i, last, mode))
    BY <1>1 DEF Good, s
  <1>8. Chain(t, (n + 1) + 1, i)
    BY <1>3, <1>4, <1>5, <1>6, <1>7, ChainGrows
  <1>9. active => Base(t, (n + 1) + 1, i, last, mode)
    BY <1>3, <1>5, <1>6, <1>7, BaseGrows
  <1> QED BY <1>2, <1>8, <1>9 DEF Good, t

\* A frame of another node lands.
LEMMA GoodBesides ==
    ASSUME NEW P \in Seq(Frames), NEW g \in Frames, NEW u, NEW i, NEW active, NEW last, NEW mode,
           Good(P, u, i, active, last, mode), g.src # i
    PROVE  Good(Append(P, g), u, i, active, last, mode)
  <1> DEFINE s == StreamOf(P, u)
             t == StreamOf(Append(P, g), u)
  <1>1. PICK n \in Nat : n = Len(P)
    OBVIOUS
  <1>2. /\ Append(P, g) \in Seq(Frames) /\ Len(Append(P, g)) = n + 1
        /\ \A k \in 1 .. n : Append(P, g)[k] = P[k]
        /\ Append(P, g)[n + 1] = g
    BY <1>1, AppendProperties
  <1>3. s[n + 1] = u /\ \A k \in 1 .. n : s[k] = P[k]
    BY <1>1, StreamItems
  <1>4. t[(n + 1) + 1] = u /\ \A k \in 1 .. n + 1 : t[k] = Append(P, g)[k]
    <2>1. PICK m \in Nat : m = n + 1
      OBVIOUS
    <2>2. PICK Q \in Seq(Frames) : Q = Append(P, g)
      BY <1>2
    <2>3. m = Len(Q)
      BY <1>2, <2>1, <2>2
    <2>4. /\ StreamOf(Q, u)[m + 1] = u
          /\ \A k \in 1 .. m : StreamOf(Q, u)[k] = Q[k]
      BY <2>3, StreamItems
    <2> QED BY <2>1, <2>2, <2>4
  <1> HIDE DEF s, t
  <1>5. /\ \A k \in 1 .. (n + 1) - 1 : t[k] = s[k]
        /\ t[n + 1] = g /\ t[(n + 1) + 1] = s[n + 1]
    <2>1. \A k \in 1 .. (n + 1) - 1 : k \in 1 .. n /\ k \in 1 .. n + 1
      OBVIOUS
    <2>2. n + 1 \in 1 .. n + 1
      OBVIOUS
    <2> QED BY <1>2, <1>3, <1>4, <2>1, <2>2
  <1>6. n + 1 \in Nat \ {0}
    OBVIOUS
  <1>7. Chain(s, n + 1, i) /\ (active => Base(s, n + 1, i, last, mode))
    BY <1>1 DEF Good, s
  <1>8. Chain(t, (n + 1) + 1, i)
    BY <1>5, <1>6, <1>7, ChainInserts
  <1>9. active => Base(t, (n + 1) + 1, i, last, mode)
    BY <1>5, <1>6, <1>7, BaseInserts
  <1> QED BY <1>2, <1>8, <1>9 DEF Good, t

\* The frame that is due changes.
LEMMA GoodRetips ==
    ASSUME NEW P \in Seq(Frames), NEW u, NEW v, NEW i, NEW active, NEW last, NEW mode,
           Good(P, u, i, active, last, mode), u.src = i,
           \A a \in Frames : a.src = i /\ Fits(a, u) => Fits(a, v),
           active => (Follows(last, mode, u) => Follows(last, mode, v))
    PROVE  Good(P, v, i, active, last, mode)
  <1> DEFINE s == StreamOf(P, u)
             t == StreamOf(P, v)
  <1>1. PICK n \in Nat : n = Len(P)
    OBVIOUS
  <1>3. s[n + 1] = u /\ \A k \in 1 .. n : s[k] = P[k] /\ s[k] \in Frames
    BY <1>1, StreamItems
  <1>4. t[n + 1] = v /\ \A k \in 1 .. n : t[k] = P[k]
    BY <1>1, StreamItems
  <1> HIDE DEF s, t
  <1>5. \A k \in 1 .. (n + 1) - 1 : t[k] = s[k]
    BY <1>3, <1>4
  <1>6. n + 1 \in Nat \ {0}
    OBVIOUS
  <1>7. Chain(s, n + 1, i) /\ (active => Base(s, n + 1, i, last, mode))
    BY <1>1 DEF Good, s
  <1>8. Chain(t, n + 1, i)
    <2> DEFINE l == n + 1
    <2>1. l \in Nat \ {0} /\ Chain(s, l, i) /\ s[l].src = i /\ t[l] = v /\ s[l] = u
      BY <1>3, <1>4, <1>6, <1>7
    <2>2. \A k \in 1 .. l - 1 : t[k] = s[k]
      BY <1>5
    <2>3. \A k \in 1 .. l - 1 : s[k] \in Frames
      BY <1>3
    <2> HIDE DEF l
    <2>4. \A k \in 1 .. l - 1 : s[k].src = i /\ Fits(s[k], s[l]) => Fits(s[k], t[l])
      BY <2>1, <2>3
    <2>5. Chain(t, l, i)
      BY <2>1, <2>2, <2>4, ChainRetips
    <2> QED
      BY <2>5 DEF l
  <1>9. active => Base(t, n + 1, i, last, mode)
    BY <1>3, <1>4, <1>5, <1>6, <1>7, BaseRetips
  <1> QED BY <1>1, <1>8, <1>9 DEF Good, t

\* The first frame is handled.
LEMMA GoodHandles ==
    ASSUME NEW P \in Seq(Frames), P # <<>>, NEW u, NEW i, NEW mode,
           NEW active, NEW last, NEW active1, NEW last1,
           Good(P, u, i, active, last, mode),
           active1 => \/ active /\ last1 = last /\ Head(P).src # i
                      \/ /\ Head(P).src = i
                         /\ \A b \in Frames \cup {u} :
                              b.src = i /\ Fits(Head(P), b) => Follows(last1, mode, b)
    PROVE  Good(Tail(P), u, i, active1, last1, mode)
  <1> DEFINE s == StreamOf(P, u)
             t == StreamOf(Tail(P), u)
  <1>1. PICK n \in Nat : Len(P) = n + 1
    <2>1. Len(P) \in Nat /\ Len(P) # 0
      OBVIOUS
    <2>2. Len(P) - 1 \in Nat /\ Len(P) = (Len(P) - 1) + 1
      BY <2>1
    <2> QED BY <2>2
  <1>2. /\ Tail(P) \in Seq(Frames) /\ Len(Tail(P)) = n
        /\ \A k \in 1 .. n : Tail(P)[k] = P[k + 1]
        /\ Head(P) = P[1]
    BY <1>1, HeadTailProperties
  <1>3. s[(n + 1) + 1] = u /\ \A k \in 1 .. n + 1 : s[k] = P[k] /\ s[k] \in Frames
    <2>1. PICK m \in Nat : m = n + 1
      OBVIOUS
    <2>2. s[m + 1] = u /\ \A k \in 1 .. m : s[k] = P[k] /\ s[k] \in Frames
      BY <1>1, <2>1, StreamItems
    <2> QED BY <2>1, <2>2
  <1>4. t[n + 1] = u /\ \A k \in 1 .. n : t[k] = Tail(P)[k] /\ t[k] \in Frames
    <2>1. PICK Q \in Seq(Frames) : Q = Tail(P)
      BY <1>2
    <2>2. n = Len(Q)
      BY <1>2, <2>1
    <2>3. /\ StreamOf(Q, u)[n + 1] = u
          /\ \A k \in 1 .. n : StreamOf(Q, u)[k] = Q[k] /\ StreamOf(Q, u)[k] \in Frames
      BY <2>2, StreamItems
    <2> QED BY <2>1, <2>3
  <1> HIDE DEF s, t
  <1>5. \A k \in 1 .. n + 1 : t[k] = s[k + 1] /\ t[k] \in Frames \cup {u}
    <2>1. \A k \in 1 .. n + 1 : k = n + 1 \/ (k \in 1 .. n /\ k + 1 \in 1 .. n + 1)
      OBVIOUS
    <2> QED BY <1>2, <1>3, <1>4, <2>1
  <1>6. n + 1 \in Nat \ {0}
    OBVIOUS
  <1>7. Chain(s, (n + 1) + 1, i) /\ (active => Base(s, (n + 1) + 1, i, last, mode))
    BY <1>1 DEF Good, s
  <1>8. s[1] = Head(P)
    <2>1. 1 \in 1 .. n + 1
      OBVIOUS
    <2> QED BY <1>2, <1>3, <2>1
  <1>9. Chain(t, n + 1, i)
    BY <1>5, <1>6, <1>7, ChainShrinks
  <1>10. CASE active /\ last1 = last /\ Head(P).src # i
    <2>1. Base(t, n + 1, i, last1, mode)
      BY <1>5, <1>6, <1>7, <1>8, <1>10, BaseShrinks
    <2> QED BY <1>2, <1>9, <2>1 DEF Good, t
  <1>11. CASE /\ Head(P).src = i
              /\ \A b \in Frames \cup {u} :
                   b.src = i /\ Fits(Head(P), b) => Follows(last1, mode, b)
    <2>1. \A k \in 1 .. n + 1 :
            t[k].src = i /\ Fits(s[1], t[k]) => Follows(last1, mode, t[k])
      BY <1>5, <1>8, <1>11
    <2>2. Base(t, n + 1, i, last1, mode)
      BY <1>5, <1>6, <1>7, <1>8, <1>11, <2>1, BaseFromChain
    <2> QED BY <1>2, <1>9, <2>2 DEF Good, t
  <1>12. CASE ~active1
    BY <1>2, <1>9, <1>12 DEF Good, t
  <1> QED BY <1>10, <1>11, <1>12

LEMMA GoodEmpty ==
    ASSUME NEW u, NEW i, NEW last, NEW mode
    PROVE  Good(<<>>, u, i, FALSE, last, mode)
  <1>1. Len(<<>>) + 1 = 1
    OBVIOUS
  <1>2. Chain(StreamOf(<<>>, u), 1, i)
    BY DEF Chain
  <1> QED BY <1>1, <1>2 DEF Good

LEMMA GoodIdle ==
    ASSUME NEW P, NEW u, NEW i, NEW active, NEW last, NEW mode, NEW last1, NEW mode1,
           Good(P, u, i, active, last, mode)
    PROVE  Good(P, u, i, FALSE, last1, mode1)
  BY DEF Good

\* A number that starts again fits anywhere.
LEMMA GoodAnew ==
    ASSUME NEW P \in Seq(Frames), NEW u, NEW v, NEW i, NEW active, NEW last \in Int, NEW mode,
           Good(P, u, i, active, last, mode), u.src = i,
           v.seq = 0, v.lost \in Nat, last >= -1
    PROVE  Good(P, v, i, active, last, mode)
  <1>1. \A a : Fits(a, v)
    BY DEF Fits
  <1>2. Follows(last, mode, v)
    BY DEF Follows
  <1> QED BY <1>1, <1>2, GoodRetips

-----------------------------------------------------------------------------
(* Sounding numbers. *)

\* An initiator that does not run starts over with number 0.  A responder
\* has a last number when it has ingested a frame, and if it is locked, then
\* on the sender of that frame.
OriginInv ==
    /\ \A i \in Initiators : ~Running(i) => seq[i] = 0
    /\ \A r \in Responders :
          /\ lastFrom[r] = Anyone <=> shared[r].lastSeq = -1
          /\ shared[r].connected /\ lastFrom[r] # Anyone => lastFrom[r] = shared[r].mac

GoodStream(r, i) ==
    Good(pool[r], ControlFrame(i, r), i, lastFrom[r] = i, shared[r].lastSeq,
         config[r].peer = Anyone)

StreamInv == \A r \in Responders, i \in Initiators : GoodStream(r, i)

LEMMA UpcomingFields ==
    ASSUME LinkTypes, NEW i \in Initiators, NEW r \in Responders
    PROVE  /\ ControlFrame(i, r).src = i
           /\ ControlFrame(i, r).magic <=> config[i].peer = Anyone
           /\ ControlFrame(i, r).seq = seq[i] /\ ControlFrame(i, r).seq \in SeqNumbers
           /\ ControlFrame(i, r).lost = missed[r][i] /\ ControlFrame(i, r).lost \in 0 .. MaxLost
           /\ shared[r].lastSeq \in Int /\ shared[r].lastSeq >= -1
           /\ lastFrom[r] = i => i # Anyone
           /\ pool[r] \in Seq(Frames)
  <1>1. seq[i] \in SeqNumbers /\ missed[r][i] \in 0 .. MaxLost /\ pool[r] \in Seq(Frames)
    BY Roles DEF LinkTypes, TypeOK
  <1>2. shared[r].lastSeq \in Int /\ shared[r].lastSeq >= -1
    <2>1. shared[r].lastSeq \in SeqNumbers \cup {-1}
      BY DEF LinkTypes, TypeOK, SharedType
    <2> QED BY <2>1, Bounds DEF SeqNumbers
  <1> QED BY <1>1, <1>2, Roles DEF ControlFrame

LEMMA OriginInit == Init => OriginInv
  BY DEF Init, OriginInv, NoShared, Running

LEMMA StreamInit == Init => StreamInv
  <1> SUFFICES ASSUME Init, NEW r \in Responders, NEW i \in Initiators PROVE GoodStream(r, i)
    BY DEF StreamInv
  <1>1. pool[r] = <<>> /\ lastFrom[r] # i
    BY Roles DEF Init
  <1>2. (lastFrom[r] = i) = FALSE
    BY <1>1
  <1> QED BY <1>1, <1>2, GoodEmpty DEF GoodStream

LEMMA EndOrigin ==
    ASSUME LinkTypes, OriginInv, NEW n \in Nodes, NEW to \in {"off", "idle"}, End(n, to)
    PROVE  OriginInv'
  <1>1. ASSUME NEW i \in Initiators, ~Running(i)' PROVE seq'[i] = 0
    BY <1>1, Roles DEF End, OriginInv, Running, LinkTypes, TypeOK
  <1>2. ASSUME NEW r \in Responders
        PROVE  /\ lastFrom'[r] = Anyone <=> shared'[r].lastSeq = -1
               /\ shared'[r].connected /\ lastFrom'[r] # Anyone => lastFrom'[r] = shared'[r].mac
    <2>1. CASE r = n
      BY <2>1 DEF End, NoShared
    <2>2. CASE r # n
      BY <2>2 DEF End, OriginInv
    <2> QED BY <2>1, <2>2
  <1> QED BY <1>1, <1>2 DEF OriginInv

LEMMA StartOrigin ==
    ASSUME LinkTypes, TakeOverInv, OriginInv, NEW n \in Nodes, Start(n)
    PROVE  OriginInv'
  <1>1. PICK c \in Configs[n] :
           \/ n \in Initiators /\ UNCHANGED responder
           \/ /\ n \in Responders
              /\ shared' = [shared EXCEPT ![n] = NewShared(c)]
              /\ UNCHANGED <<recent, lastFrom>>
    BY DEF Start
  <1>2. /\ UNCHANGED <<seq, lastFrom>> /\ radio' = [radio EXCEPT ![n] = "run"] /\ ~Running(n)
    BY <1>1 DEF Start, responder, initiator
  <1>3. ASSUME NEW i \in Initiators, ~Running(i)' PROVE seq'[i] = 0
    BY <1>2, <1>3, Roles DEF OriginInv, Running, LinkTypes, TypeOK
  <1>4. ASSUME NEW r \in Responders
        PROVE  /\ lastFrom'[r] = Anyone <=> shared'[r].lastSeq = -1
               /\ shared'[r].connected /\ lastFrom'[r] # Anyone => lastFrom'[r] = shared'[r].mac
    <2>1. CASE r = n
      <3>1. lastFrom'[r] = Anyone
        BY <1>2, <2>1 DEF TakeOverInv
      <3>2. shared'[r] = NewShared(c)
        BY <1>1, <2>1, Roles DEF LinkTypes, TypeOK
      <3>3. NewShared(c).lastSeq = -1
        BY NewSharedFields, ConfigsAssumption
      <3> QED BY <3>1, <3>2, <3>3
    <2>2. CASE r # n
      <3>1. lastFrom'[r] = lastFrom[r] /\ shared'[r] = shared[r]
        BY <1>1, <1>2, <2>2 DEF responder, LinkTypes, TypeOK
      <3> QED BY <3>1 DEF OriginInv
    <2> QED BY <2>1, <2>2
  <1> QED BY <1>3, <1>4 DEF OriginInv

LEMMA SendOrigin ==
    ASSUME LinkTypes, OriginInv, NEW i \in Initiators, NEW o, InitiatorSend(i, o)
    PROVE  OriginInv'
  <1>1. /\ Running(i) /\ UNCHANGED <<radio, shared, lastFrom>>
        /\ \A j \in Initiators : j # i => seq'[j] = seq[j]
    BY DEF InitiatorSend, responder, LinkTypes, TypeOK
  <1> QED BY <1>1 DEF OriginInv, Running

\* What the handling of a frame does to the last number and its origin.
LEMMA IngestOrigin ==
    ASSUME LinkTypes, NEW r \in Responders, NEW f \in Control, NEW registered \in BOOLEAN,
           Ingest(r, f, registered), shared[r].connected => f.src = shared[r].mac
    PROVE  /\ lastFrom'[r] = f.src /\ shared'[r].lastSeq = f.seq
           /\ shared'[r].connected => f.src = shared'[r].mac
           /\ \A q \in Responders : q # r => lastFrom'[q] = lastFrom[q] /\ shared'[q] = shared[q]
  <1>1. /\ lastFrom'[r] = f.src
        /\ \A q \in Responders : q # r => lastFrom'[q] = lastFrom[q]
    BY DEF Ingest, LinkTypes, TypeOK
  <1>2. shared'[r].lastSeq = f.seq
    BY IngestEffect
  <1>3. \A q \in Responders : q # r => shared'[q] = shared[q]
    BY IngestEffect
  <1>4. /\ shared[r].connected => shared'[r].mac = shared[r].mac
        /\ ~shared[r].connected /\ shared'[r].connected => shared'[r].mac = f.src
    BY IngestEffect
  <1> QED BY <1>1, <1>2, <1>3, <1>4

LEMMA ReceiveCases ==
    ASSUME LinkTypes, NEW r \in Responders, ResponderReceive(r)
    PROVE  \/ ~AcceptsControl(r, Head(pool[r])) /\ UNCHANGED responder
           \/ \E f \in Control, b \in BOOLEAN :
                 f = Head(pool[r]) /\ AcceptsControl(r, f) /\ Ingest(r, f, b)
  <1>1. CASE ~AcceptsControl(r, Head(pool[r]))
    BY <1>1, Zenon DEF ResponderReceive
  <1>2. CASE AcceptsControl(r, Head(pool[r]))
    <2>1. PICK b \in BOOLEAN : Ingest(r, Head(pool[r]), b)
      BY <1>2, Zenon DEF ResponderReceive
    <2>2. Head(pool[r]) \in Control
      BY <1>2, Roles, FrameTypes DEF ResponderReceive, AcceptsControl, LinkTypes, TypeOK
    <2> QED BY <1>2, <2>1, <2>2, Zenon
  <1> QED BY <1>1, <1>2

LEMMA ReceiveOrigin ==
    ASSUME LinkTypes, OriginInv, NEW r \in Responders, ResponderReceive(r)
    PROVE  OriginInv'
  <1>1. UNCHANGED <<radio, seq>>
    BY DEF ResponderReceive, initiator
  <1>2. CASE UNCHANGED responder
    BY <1>1, <1>2 DEF responder, OriginInv, Running
  <1>3. ASSUME NEW f \in Control, NEW b \in BOOLEAN, AcceptsControl(r, f), Ingest(r, f, b)
        PROVE  OriginInv'
    <2>1. shared[r].connected => f.src = shared[r].mac
      BY <1>3 DEF AcceptsControl
    <2>2. /\ lastFrom'[r] = f.src /\ shared'[r].lastSeq = f.seq
          /\ shared'[r].connected => f.src = shared'[r].mac
          /\ \A q \in Responders : q # r => lastFrom'[q] = lastFrom[q] /\ shared'[q] = shared[q]
      BY <1>3, <2>1, IngestOrigin
    <2>3. f.src # Anyone /\ f.seq # -1
      BY FrameTypes, Roles, Bounds DEF SeqNumbers
    <2> QED BY <1>1, <2>2, <2>3 DEF OriginInv, Running
  <1> QED BY <1>2, <1>3, ReceiveCases

LEMMA OriginStep == LinkTypes /\ TakeOverInv /\ OriginInv /\ [Next]_vars => OriginInv'
  <1> SUFFICES ASSUME LinkTypes, TakeOverInv, OriginInv, [Next]_vars PROVE OriginInv'
    OBVIOUS
  <1>1. ASSUME UNCHANGED <<radio, seq, shared, lastFrom>> PROVE OriginInv'
    BY <1>1 DEF OriginInv, Running
  <1>2. ASSUME NEW n \in Nodes, Stop(n) \/ PowerLoss(n) PROVE OriginInv'
    BY <1>2, EndOrigin DEF Stop, PowerLoss
  <1>3. ASSUME NEW i \in Initiators, InitiatorReceive(i) PROVE OriginInv'
    BY <1>1, <1>3 DEF InitiatorReceive, responder
  <1>4. ASSUME NEW r \in Responders, NEW o, ResponderReply(r, o) PROVE OriginInv'
    <2>1. /\ shared' = [shared EXCEPT ![r].pending = FALSE]
          /\ UNCHANGED <<radio, seq, lastFrom>>
      BY <1>4 DEF ResponderReply, initiator
    <2>2. \A q \in Responders :
            /\ shared'[q].lastSeq = shared[q].lastSeq /\ shared'[q].mac = shared[q].mac
            /\ shared'[q].connected = shared[q].connected
      BY <2>1 DEF LinkTypes, TypeOK, SharedType
    <2> QED BY <2>1, <2>2, Zenon DEF OriginInv, Running
  <1> QED BY <1>1, <1>2, <1>3, <1>4, StepCases, StartOrigin, SendOrigin, ReceiveOrigin, Zenon

LEMMA KeptStream ==
    ASSUME StreamInv, NEW r \in Responders, NEW i \in Initiators,
           pool'[r] = pool[r], config'[r] = config[r], config'[i] = config[i],
           seq'[i] = seq[i], missed'[r][i] = missed[r][i],
           lastFrom'[r] = lastFrom[r], shared'[r].lastSeq = shared[r].lastSeq
    PROVE  GoodStream(r, i)'
  <1>1. ControlFrame(i, r)' = ControlFrame(i, r)
    BY Zenon DEF ControlFrame
  <1>2. GoodStream(r, i)
    BY Zenon DEF StreamInv
  <1> QED BY <1>1, <1>2, Zenon DEF GoodStream

\* The initiator's run ends or begins.
LEMMA RestartedStream ==
    ASSUME LinkTypes, LinkTypes', StreamInv, NEW r \in Responders, NEW i \in Initiators,
           pool'[r] = pool[r], config'[r] = config[r],
           seq'[i] = 0, missed'[r][i] = missed[r][i],
           lastFrom'[r] = lastFrom[r], shared'[r].lastSeq = shared[r].lastSeq
    PROVE  GoodStream(r, i)'
  <1> DEFINE u == ControlFrame(i, r)
             v == ControlFrame(i, r)'
  <1>1. u.src = i /\ pool[r] \in Seq(Frames) /\ shared[r].lastSeq \in Int /\ shared[r].lastSeq >= -1
    BY UpcomingFields
  <1>2. v.seq = 0 /\ v.lost \in Nat
    <2>1. v.seq = seq'[i] /\ v.lost = missed'[r][i]
      BY DEF ControlFrame
    <2>2. missed'[r][i] \in Nat
      BY Bounds DEF LinkTypes, TypeOK
    <2> QED BY <2>1, <2>2
  <1>3. Good(pool[r], u, i, lastFrom[r] = i, shared[r].lastSeq, config[r].peer = Anyone)
    BY Zenon DEF StreamInv, GoodStream
  <1> HIDE DEF u, v
  <1>4. Good(pool[r], v, i, lastFrom[r] = i, shared[r].lastSeq, config[r].peer = Anyone)
    BY <1>1, <1>2, <1>3, GoodAnew
  <1> QED BY <1>4, Zenon DEF GoodStream, v

\* The responder's run ends or begins: no number is compared with its first one.
LEMMA IdleStream ==
    ASSUME StreamInv, NEW r \in Responders, NEW i \in Initiators,
           pool'[r] = pool[r], config'[i] = config[i],
           seq'[i] = seq[i], missed'[r][i] = missed[r][i], lastFrom'[r] # i
    PROVE  GoodStream(r, i)'
  <1>1. ControlFrame(i, r)' = ControlFrame(i, r)
    BY Zenon DEF ControlFrame
  <1>2. Good(pool[r], ControlFrame(i, r), i, lastFrom[r] = i, shared[r].lastSeq, config[r].peer = Anyone)
    BY Zenon DEF StreamInv, GoodStream
  <1>3. Good(pool[r], ControlFrame(i, r), i, FALSE, shared'[r].lastSeq, config'[r].peer = Anyone)
    BY <1>2 DEF Good
  <1>4. (lastFrom'[r] = i) = FALSE
    OBVIOUS
  <1>5. Good(pool'[r], ControlFrame(i, r)', i, lastFrom'[r] = i, shared'[r].lastSeq, config'[r].peer = Anyone)
    BY <1>1, <1>3, <1>4, Zenon
  <1> QED BY <1>5, Zenon DEF GoodStream

LEMMA StartStream ==
    ASSUME LinkTypes, LinkTypes', TakeOverInv, OriginInv, StreamInv, NEW n \in Nodes, Start(n)
    PROVE  StreamInv'
  <1> SUFFICES ASSUME NEW r \in Responders, NEW i \in Initiators PROVE GoodStream(r, i)'
    BY Zenon DEF StreamInv
  <1>1. PICK c \in Configs[n] :
           /\ config' = [config EXCEPT ![n] = c]
           /\ \/ n \in Initiators /\ UNCHANGED responder
              \/ /\ n \in Responders
                 /\ shared' = [shared EXCEPT ![n] = NewShared(c)]
                 /\ UNCHANGED <<recent, lastFrom>>
    BY DEF Start
  <1>2. UNCHANGED <<pool, seq, missed, lastFrom>> /\ ~Running(n)
    BY <1>1 DEF Start, responder, initiator
  <1>3. \A m \in Nodes : m # n => config'[m] = config[m]
    BY <1>1 DEF LinkTypes, TypeOK
  <1>4. r # n => shared'[r] = shared[r]
    BY <1>1 DEF responder, LinkTypes, TypeOK
  <1>5. CASE n = r
    <2>1. lastFrom'[r] # i
      BY <1>2, <1>5, Roles DEF TakeOverInv
    <2>2. config'[i] = config[i]
      BY <1>3, <1>5, Roles
    <2> QED BY <1>2, <2>1, <2>2, IdleStream
  <1>6. CASE n = i
    <2>1. seq'[i] = 0
      BY <1>2, <1>6 DEF OriginInv
    <2>2. r # n /\ config'[r] = config[r]
      BY <1>3, <1>6, Roles
    <2> QED BY <1>2, <1>4, <2>1, <2>2, RestartedStream
  <1>7. CASE n # r /\ n # i
    <2>1. config'[r] = config[r] /\ config'[i] = config[i]
      BY <1>3, <1>7, Roles
    <2> QED BY <1>2, <1>4, <1>7, <2>1, KeptStream
  <1> QED BY <1>5, <1>6, <1>7

\* The end of node n's run, seen from any other node.
LEMMA EndOthers ==
    ASSUME LinkTypes, NEW n \in Nodes, NEW to, End(n, to)
    PROVE  /\ \A m \in Nodes : m # n => config'[m] = config[m]
           /\ \A i \in Initiators : seq'[i] = IF i = n THEN 0 ELSE seq[i]
           /\ \A r \in Responders : r # n => lastFrom'[r] = lastFrom[r] /\ shared'[r] = shared[r]
           /\ \A r \in Responders : r = n => lastFrom'[r] = Anyone
  BY DEF End, LinkTypes, TypeOK

LEMMA StopStream ==
    ASSUME LinkTypes, LinkTypes', StreamInv, NEW n \in Nodes, Stop(n)
    PROVE  StreamInv'
  <1> SUFFICES ASSUME NEW r \in Responders, NEW i \in Initiators PROVE GoodStream(r, i)'
    BY Zenon DEF StreamInv
  <1>1. /\ \A m \in Nodes : m # n => config'[m] = config[m]
        /\ \A j \in Initiators : seq'[j] = IF j = n THEN 0 ELSE seq[j]
        /\ \A q \in Responders : q # n => lastFrom'[q] = lastFrom[q] /\ shared'[q] = shared[q]
        /\ \A q \in Responders : q = n => lastFrom'[q] = Anyone
        /\ UNCHANGED <<pool, missed>>
    BY EndOthers DEF Stop
  <1>2. CASE n = r
    BY <1>1, <1>2, Roles, IdleStream
  <1>3. CASE n = i
    BY <1>1, <1>3, Roles, RestartedStream
  <1>4. CASE n # r /\ n # i
    BY <1>1, <1>4, Roles, KeptStream
  <1> QED BY <1>2, <1>3, <1>4

LEMMA PowerLossStream ==
    ASSUME LinkTypes, LinkTypes', StreamInv, NEW n \in Nodes, PowerLoss(n)
    PROVE  StreamInv'
  <1> SUFFICES ASSUME NEW r \in Responders, NEW i \in Initiators PROVE GoodStream(r, i)'
    BY Zenon DEF StreamInv
  <1>1. /\ \A m \in Nodes : m # n => config'[m] = config[m]
        /\ \A j \in Initiators : seq'[j] = IF j = n THEN 0 ELSE seq[j]
        /\ \A q \in Responders : q # n => lastFrom'[q] = lastFrom[q] /\ shared'[q] = shared[q]
        /\ \A q \in Responders : q = n => lastFrom'[q] = Anyone
    BY EndOthers DEF PowerLoss
  <1>2. /\ \A m \in Nodes : pool'[m] = IF m = n THEN <<>> ELSE pool[m]
        /\ \A q \in Responders : q # n => missed'[q] = missed[q]
    BY DEF PowerLoss, LinkTypes, TypeOK
  <1>3. CASE n = r
    <2>1. pool'[r] = <<>> /\ (lastFrom'[r] = i) = FALSE
      BY <1>1, <1>2, <1>3, Roles
    <2>2. Good(<<>>, ControlFrame(i, r)', i, FALSE, shared'[r].lastSeq, config'[r].peer = Anyone)
      BY GoodEmpty, Zenon
    <2>3. Good(pool'[r], ControlFrame(i, r)', i, lastFrom'[r] = i, shared'[r].lastSeq,
               config'[r].peer = Anyone)
      BY <2>1, <2>2, Zenon
    <2> QED BY <2>3, Zenon DEF GoodStream
  <1>4. CASE n = i
    BY <1>1, <1>2, <1>4, Roles, RestartedStream
  <1>5. CASE n # r /\ n # i
    BY <1>1, <1>2, <1>5, Roles, KeptStream
  <1> QED BY <1>3, <1>4, <1>5

LEMMA SendStream ==
    ASSUME LinkTypes, LinkTypes', OriginInv, StreamInv,
           NEW i \in Initiators, NEW o, InitiatorSend(i, o)
    PROVE  StreamInv'
  <1> SUFFICES ASSUME NEW r \in Responders, NEW j \in Initiators PROVE GoodStream(r, j)'
    BY Zenon DEF StreamInv
  <1> DEFINE g == ControlFrame(i, r)
             u == ControlFrame(j, r)
             v == ControlFrame(j, r)'
             active == lastFrom[r] = j
             last == shared[r].lastSeq
             mode == config[r].peer = Anyone
  <1>1. pool'[r] = IF Lands(r, o) THEN Append(pool[r], g) ELSE pool[r]
    <2>1. pool' = [n \in Nodes |-> IF n \notin o.reached THEN pool[n]
                                  ELSE Take(pool[n], ControlFrame(i, n))]
      BY Zenon DEF InitiatorSend, ControlFrame
    <2> QED BY <2>1, Roles DEF Take, Lands
  <1>2. UNCHANGED <<config, shared, lastFrom>>
    BY DEF InitiatorSend, responder
  <1>3. /\ u.src = j /\ v.src = j /\ (v.magic <=> u.magic)
        /\ u.seq = seq[j] /\ v.seq = seq'[j] /\ u.lost = missed[r][j] /\ v.lost = missed'[r][j]
    BY <1>2 DEF ControlFrame
  <1>4. /\ g \in Frames /\ g.src = i /\ pool[r] \in Seq(Frames)
    BY Roles, ControlFrameType DEF InitiatorSend, Frames, ControlFrame, LinkTypes, TypeOK
  <1>5. Good(pool[r], u, j, active, last, mode)
    BY Zenon DEF StreamInv, GoodStream
  <1>6. /\ seq[j] \in 0 .. MaxLost + 1 /\ missed[r][j] \in 0 .. MaxLost /\ MaxLost \in Nat
        /\ last \in Int /\ last >= -1
    BY UpcomingFields, Bounds DEF LinkTypes, TypeOK
  <1>7. Good(pool'[r], v, j, active, last, mode)
    <2>1. CASE j # i
      <3>1. v = u
        <4>1. seq'[j] = seq[j] /\ missed'[r][j] = missed[r][j]
          BY <2>1 DEF InitiatorSend, Missed, LinkTypes, TypeOK
        <4> QED BY <1>2, <4>1, Zenon DEF ControlFrame
      <3>2. CASE Lands(r, o)
        <4> HIDE DEF g, u, v, active, last, mode
        <4> QED BY <1>1, <1>4, <1>5, <2>1, <3>1, <3>2, GoodBesides
      <3>3. CASE ~Lands(r, o)
        <4> HIDE DEF g, u, v, active, last, mode
        <4> QED BY <1>1, <1>5, <3>1, <3>3
      <3> QED BY <3>2, <3>3
    <2>2. CASE j = i
      <3>1. seq'[j] = IF o.sent THEN (IF seq[j] = MaxLost + 1 THEN 0 ELSE seq[j] + 1) ELSE seq[j]
        BY <1>6, <2>2, Bounds DEF InitiatorSend, LinkTypes, TypeOK
      <3>2. missed'[r][j] = IF Lands(r, o) THEN 0
                            ELSE IF o.sent /\ missed[r][j] < MaxLost THEN missed[r][j] + 1
                            ELSE missed[r][j]
        BY <2>2 DEF InitiatorSend, Missed, LinkTypes, TypeOK
      <3>3. u = g
        BY <2>2
      <3> HIDE DEF g, u, v, active, last, mode
      <3>4. CASE Lands(r, o)
        <4>1. v.lost = 0 /\ (v.seq = 0 \/ v.seq <= u.seq + 1)
          BY <1>3, <1>6, <3>1, <3>2, <3>4
        <4>2. Fits(u, v)
          <5>1. CASE v.seq = 0
            BY <4>1, <5>1 DEF Fits
          <5>2. CASE v.seq <= u.seq + 1
            BY <1>3, <1>6, <3>1, <4>1, <5>2 DEF Fits
          <5> QED BY <4>1, <5>1, <5>2
        <4>3. Good(Append(pool[r], u), v, j, active, last, mode)
          BY <1>3, <1>4, <1>5, <3>3, <4>2, GoodLands
        <4> QED BY <1>1, <3>3, <3>4, <4>3
      <3>5. CASE ~Lands(r, o)
        <4>1. \/ v.seq <= v.lost + 1
              \/ v.seq - u.seq <= v.lost - u.lost
          BY <1>3, <1>6, <3>1, <3>2, <3>5
        <4>2. \A a \in Frames : a.src = j /\ Fits(a, u) => Fits(a, v)
          <5> SUFFICES ASSUME NEW a \in Frames, a.src = j, Fits(a, u) PROVE Fits(a, v)
            OBVIOUS
          <5>0. a.seq \in Int
            BY FrameTypes
          <5>1. CASE v.seq <= v.lost + 1
            BY <5>1 DEF Fits
          <5>2. CASE v.seq - u.seq <= v.lost - u.lost
            BY <1>3, <1>6, <3>1, <3>2, <3>5, <5>0, <5>2 DEF Fits
          <5> QED BY <4>1, <5>1, <5>2
        <4>3. active => (Follows(last, mode, u) => Follows(last, mode, v))
          <5> SUFFICES ASSUME active, Follows(last, mode, u) PROVE Follows(last, mode, v)
            OBVIOUS
          <5>1. CASE v.seq <= v.lost + 1
            <6>1. last >= 0
              BY <1>6, Roles DEF OriginInv, active, last
            <6> QED BY <1>3, <1>6, <3>1, <3>2, <3>5, <5>1, <6>1 DEF Follows
          <5>2. CASE v.seq - u.seq <= v.lost - u.lost
            BY <1>3, <1>6, <3>1, <3>2, <3>5, <5>2 DEF Follows
          <5> QED BY <4>1, <5>1, <5>2
        <4> QED BY <1>1, <1>3, <1>4, <1>5, <3>5, <4>2, <4>3, GoodRetips
      <3> QED BY <3>4, <3>5
    <2> QED BY <2>1, <2>2
  <1>8. active' = active /\ last' = last /\ mode' = mode
    BY <1>2
  <1> QED BY <1>7, <1>8, Zenon DEF GoodStream

\* The first frame of the pool is handled, accepted or not.
LEMMA ReceiveStream ==
    ASSUME LinkTypes, LinkTypes', OriginInv, StreamInv, NEW q \in Responders, ResponderReceive(q)
    PROVE  StreamInv'
  <1> SUFFICES ASSUME NEW r \in Responders, NEW i \in Initiators PROVE GoodStream(r, i)'
    BY Zenon DEF StreamInv
  <1>1. /\ UNCHANGED <<config, seq, missed>> /\ pool[q] # <<>>
        /\ pool' = [pool EXCEPT ![q] = Tail(pool[q])]
    BY DEF ResponderReceive, initiator
  <1>2. /\ pool[q] \in Seq(Frames) /\ Head(pool[q]) \in Frames
        /\ pool'[q] = Tail(pool[q]) /\ (r # q => pool'[r] = pool[r])
    BY <1>1, Roles DEF LinkTypes, TypeOK
  <1>3. CASE r # q
    <2>1. lastFrom'[r] = lastFrom[r] /\ shared'[r] = shared[r]
      <3>1. CASE UNCHANGED responder
        BY <3>1 DEF responder
      <3>2. ASSUME NEW f \in Control, NEW b \in BOOLEAN, AcceptsControl(q, f), Ingest(q, f, b)
            PROVE  lastFrom'[r] = lastFrom[r] /\ shared'[r] = shared[r]
        <4>1. shared[q].connected => f.src = shared[q].mac
          BY <3>2 DEF AcceptsControl
        <4> QED BY <1>3, <3>2, <4>1, IngestOrigin
      <3> QED BY <3>1, <3>2, ReceiveCases
    <2> QED BY <1>1, <1>2, <1>3, <2>1, KeptStream
  <1>4. CASE r = q
    <2> DEFINE h == Head(pool[r])
               u == ControlFrame(i, r)
               active == lastFrom[r] = i
               last == shared[r].lastSeq
               mode == config[r].peer = Anyone
               active1 == lastFrom'[r] = i
               last1 == shared'[r].lastSeq
    <2>1. /\ ControlFrame(i, r)' = u /\ (config'[r].peer = Anyone) = mode
          /\ pool[r] \in Seq(Frames) /\ pool[r] # <<>> /\ h \in Frames /\ pool'[r] = Tail(pool[r])
      BY <1>1, <1>2, <1>4 DEF ControlFrame
    <2>2. Good(pool[r], u, i, active, last, mode)
      BY Zenon DEF StreamInv, GoodStream
    <2>3. \A b \in Frames \cup {u} : b.src = i => b.seq \in Int /\ b.lost \in Nat
      BY UpcomingFields, FrameTypes, Bounds DEF SeqNumbers
    <2>4. active1 => \/ active /\ last1 = last /\ h.src # i
                     \/ /\ h.src = i
                        /\ \A b \in Frames \cup {u} :
                             b.src = i /\ Fits(h, b) => Follows(last1, mode, b)
      <3>1. CASE ~AcceptsControl(r, h) /\ UNCHANGED responder
        <4>1. (active1 <=> active) /\ last1 = last
          BY <3>1 DEF responder
        <4>2. ASSUME active, h.src = i, NEW b \in Frames \cup {u}, b.src = i, Fits(h, b)
              PROVE  Follows(last1, mode, b)
          <5>1. h.kind = "control"
            BY <2>1, <4>2, FrameTypes DEF Control
          <5>2. shared[r].connected => h.src = shared[r].mac
            BY <4>2, Roles DEF OriginInv
          <5>3. ~(h.magic <=> mode)
            <6>1. h.magic # mode
              BY <3>1, <5>1, <5>2 DEF AcceptsControl
            <6>2. h.magic \in BOOLEAN
              BY <2>1, FrameTypes
            <6> QED BY <6>1, <6>2
          <5>4. last >= 0 /\ last \in Int
            BY <4>2, UpcomingFields, Roles DEF OriginInv
          <5> HIDE DEF h, u, active, last, mode, active1, last1
          <5>5. b.seq \in Int /\ b.lost \in Nat
            BY <2>3, <4>2
          <5>6. CASE b.seq <= b.lost + 1
            BY <4>1, <5>4, <5>5, <5>6 DEF Follows
          <5>7. CASE b.magic <=> h.magic
            BY <5>3, <5>7 DEF Follows
          <5> QED BY <4>2, <5>6, <5>7 DEF Fits
        <4> QED BY <4>1, <4>2
      <3>2. ASSUME NEW f \in Control, NEW b \in BOOLEAN, f = h, AcceptsControl(r, f), Ingest(r, f, b)
            PROVE  active1 => /\ h.src = i
                              /\ \A g \in Frames \cup {u} :
                                   g.src = i /\ Fits(h, g) => Follows(last1, mode, g)
        <4>1. shared[r].connected => f.src = shared[r].mac
          BY <3>2 DEF AcceptsControl
        <4>2. (active1 <=> h.src = i) /\ last1 = h.seq
          BY <3>2, <4>1, IngestOrigin
        <4>3. h.seq \in Int /\ h.seq >= 0
          BY <3>2, FrameTypes, Bounds DEF SeqNumbers
        <4> HIDE DEF h, u, active, last, mode, active1, last1
        <4>4. ASSUME NEW g \in Frames \cup {u}, g.src = i, Fits(h, g) PROVE Follows(last1, mode, g)
          <5>1. g.seq \in Int /\ g.lost \in Nat
            BY <2>3, <4>4
          <5>2. CASE g.seq <= g.lost + 1
            BY <4>2, <4>3, <5>1, <5>2 DEF Follows
          <5>3. CASE g.seq - h.seq <= g.lost + 1
            BY <4>2, <5>3 DEF Follows
          <5> QED BY <4>4, <5>2, <5>3 DEF Fits
        <4> QED BY <4>2, <4>4
      <3> QED BY <1>4, <3>1, <3>2, ReceiveCases
    <2> HIDE DEF h, u, active, last, mode, active1, last1
    <2>5. Good(Tail(pool[r]), u, i, active1, last1, mode)
      BY <2>1, <2>2, <2>4, GoodHandles DEF h
    <2> QED BY <2>1, <2>5, Zenon DEF GoodStream, active1, last1
  <1> QED BY <1>3, <1>4

LEMMA ReplyStream ==
    ASSUME LinkTypes, StreamInv, NEW q \in Responders, NEW o, ResponderReply(q, o)
    PROVE  StreamInv'
  <1> SUFFICES ASSUME NEW r \in Responders, NEW i \in Initiators PROVE GoodStream(r, i)'
    BY Zenon DEF StreamInv
  <1> DEFINE g == BeaconFrame(q)
  <1>1. /\ shared' = [shared EXCEPT ![q].pending = FALSE]
        /\ UNCHANGED <<config, seq, missed, lastFrom>>
    BY DEF ResponderReply, initiator
  <1>2. shared'[r].lastSeq = shared[r].lastSeq
    BY <1>1 DEF LinkTypes, TypeOK, SharedType
  <1>3. ControlFrame(i, r)' = ControlFrame(i, r)
    BY <1>1, Zenon DEF ControlFrame
  <1>4. g \in Frames /\ g.src # i /\ pool[r] \in Seq(Frames)
    BY BeaconFrameType, Roles DEF Frames, BeaconFrame, LinkTypes, TypeOK
  <1>5. pool'[r] = pool[r] \/ pool'[r] = Append(pool[r], g)
    <2>1. pool' = [n \in Nodes |-> IF n \notin o.reached THEN pool[n]
                                  ELSE Take(pool[n], BeaconFrame(q))]
      BY Zenon DEF ResponderReply, BeaconFrame
    <2> QED BY <2>1, Roles DEF Take
  <1> HIDE DEF g
  <1>6. Good(pool[r], ControlFrame(i, r), i, lastFrom[r] = i, shared[r].lastSeq, config[r].peer = Anyone)
    BY Zenon DEF StreamInv, GoodStream
  <1>7. Good(pool'[r], ControlFrame(i, r), i, lastFrom[r] = i, shared[r].lastSeq, config[r].peer = Anyone)
    BY <1>4, <1>5, <1>6, GoodBesides
  <1> QED BY <1>1, <1>2, <1>3, <1>7, Zenon DEF GoodStream

LEMMA StreamStep ==
    LinkTypes /\ LinkTypes' /\ TakeOverInv /\ OriginInv /\ StreamInv /\ [Next]_vars => StreamInv'
  <1> SUFFICES ASSUME LinkTypes, LinkTypes', TakeOverInv, OriginInv, StreamInv, [Next]_vars
               PROVE  StreamInv'
    OBVIOUS
  <1>1. ASSUME UNCHANGED <<config, seq, shared, lastFrom, missed>>,
               \A r \in Responders : pool'[r] = pool[r]
        PROVE  StreamInv'
    <2> SUFFICES ASSUME NEW r \in Responders, NEW i \in Initiators PROVE GoodStream(r, i)'
      BY Zenon DEF StreamInv
    <2> QED BY <1>1, KeptStream
  <1>2. ASSUME NEW i \in Initiators, InitiatorReceive(i) PROVE StreamInv'
    <2>1. /\ pool' = [pool EXCEPT ![i] = Tail(pool[i])]
          /\ UNCHANGED <<config, seq, shared, lastFrom, missed>>
      BY <1>2 DEF InitiatorReceive, responder
    <2>2. \A r \in Responders : pool'[r] = pool[r]
      BY <2>1, Roles DEF LinkTypes, TypeOK
    <2> QED BY <1>1, <2>1, <2>2
  <1>3. ASSUME UNCHANGED <<radio, config, pool, seq, known, shared, reporting, recent,
                           lastFrom, missed>>
        PROVE  StreamInv'
    BY <1>1, <1>3
  <1> QED BY <1>2, <1>3, StepCases, StartStream, StopStream, PowerLossStream, SendStream,
             ReceiveStream, ReplyStream, Zenon

LEMMA NumbersCorrect == LinkTypes /\ OriginInv /\ StreamInv => NoPhantomMisses
  <1> SUFFICES ASSUME LinkTypes, OriginInv, StreamInv, NEW r \in Responders,
                      pool[r] # <<>>, AcceptsControl(r, Head(pool[r])),
                      shared[r].connected \/ lastFrom[r] \in {Anyone, Head(pool[r]).src}
               PROVE  GapMisses(r, Head(pool[r])) <= Head(pool[r]).lost
    BY DEF NoPhantomMisses
  <1> DEFINE h == Head(pool[r])
             last == shared[r].lastSeq
             gap == h.seq - last
             i == h.src
             mode == config[r].peer = Anyone
  <1>1. pool[r] \in Seq(Frames) /\ h \in Frames
    BY Roles DEF LinkTypes, TypeOK
  <1>2. h \in Control /\ i \in Initiators /\ h.seq \in Int /\ h.lost \in Nat
    BY <1>1, FrameTypes DEF AcceptsControl
  <1>3. last \in Int
    BY <1>2, UpcomingFields
  <1>4. CASE ~(last >= 0)
    BY <1>2, <1>4 DEF GapMisses
  <1>5. CASE last >= 0
    <2>1. lastFrom[r] = i
      BY <1>3, <1>5 DEF OriginInv, AcceptsControl
    <2>2. Base(StreamOf(pool[r], ControlFrame(i, r)), Len(pool[r]) + 1, i, last, mode)
      <3>1. GoodStream(r, i)
        BY <1>2, Zenon DEF StreamInv
      <3> QED BY <2>1, <3>1 DEF GoodStream, Good
    <2>3. PICK n \in Nat : n = Len(pool[r]) /\ 1 \in 1 .. n
      BY <1>1
    <2>4. StreamOf(pool[r], ControlFrame(i, r))[1] = h
      <3>1. StreamOf(pool[r], ControlFrame(i, r))[1] = pool[r][1]
        BY <1>1, <2>3, StreamItems
      <3> QED BY <1>1, <3>1
    <2> HIDE DEF h, last, gap, i, mode
    <2>5. Follows(last, mode, h)
      <3>1. /\ 1 \in 1 .. n + 1
            /\ \A k \in 1 .. n + 1 : ~(k < 1)
        BY <2>3
      <3>2. h.src = i
        BY DEF i
      <3> QED BY <2>2, <2>3, <2>4, <3>1, <3>2 DEF Base
    <2>6. gap <= h.lost + 1
      <3>1. h.magic <=> mode
        BY DEF AcceptsControl, h, mode
      <3> QED BY <2>5, <3>1 DEF Follows, gap
    <2>7. GapMisses(r, h) = IF gap > 1 THEN gap - 1 ELSE 0
      BY <1>5 DEF GapMisses, gap, last
    <2>8. gap \in Int
      BY <1>2, <1>3 DEF gap
    <2>9. GapMisses(r, h) <= h.lost
      BY <1>2, <2>6, <2>7, <2>8
    <2> QED BY <2>9 DEF h
  <1> QED BY <1>3, <1>4, <1>5

-----------------------------------------------------------------------------
(* The theorems. *)

LinkInv == LinkTypes /\ TakeOverInv /\ OriginInv /\ StreamInv

LEMMA LinkInduction == Spec => []LinkInv
  <1>1. Init => LinkInv
    BY InitTypes, TakeOverInit, OriginInit, StreamInit DEF LinkInv
  <1>2. LinkInv /\ [Next]_vars => LinkInv'
    BY LinkTypesStep, TakeOverStep, OriginStep, StreamStep DEF LinkInv
  <1> QED BY <1>1, <1>2, PTL DEF Spec

\* Pools and peer tables stay within their bounds, numbers and the streak
\* counter within their widths (esp_now_pool.rs, initiator/esp_now.rs,
\* responder/esp_now.rs).
THEOREM TypeCorrect == Spec => []TypeOK
  <1>1. LinkInv => TypeOK
    BY DEF LinkInv, LinkTypes
  <1> QED BY <1>1, LinkInduction, PTL

\* For any interleaving of any number of initiators, a responder that heard
\* three silent control frames in a row has taken the reporting over
\* (ingest_control_packet).
THEOREM TakesOver == Spec => []TakesOverFromSilentInitiator
  <1>1. LinkInv => TakesOverFromSilentInitiator
    BY TakeOverCorrect DEF LinkInv
  <1> QED BY <1>1, LinkInduction, PTL

\* It takes over only then: no single frame, and no mixture of frames of
\* several initiators, flips it sooner.
THEOREM TakesOverOnlyThen == Spec => NeverTakesOverEarly
  <1>1. LinkInv /\ LinkInv' /\ [Next]_vars => [TakesOverThen]_vars
    BY TakeOverIsEarned DEF LinkInv
  <1>2. Spec => [][TakesOverThen]_vars
    BY <1>1, LinkInduction, PTL DEF Spec
  <1> QED BY <1>2, PTL DEF NeverTakesOverEarly, TakesOverThen

\* Through loss, repetition, wraps of the number, full pools, restarts and
\* power failures at either end, the gap that a responder computes between two
\* numbers of one initiator is never more than the frames its pool missed
\* (ingest_control_packet, RX_SEQUENCE_MISS_COUNT).
THEOREM MissesHappened == Spec => []NoPhantomMisses
  <1>1. LinkInv => NoPhantomMisses
    BY NumbersCorrect DEF LinkInv
  <1> QED BY <1>1, LinkInduction, PTL

=============================================================================
