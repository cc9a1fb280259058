--------------------------- MODULE NodeRun_proofs ---------------------------
(***************************************************************************)
(* Proofs about NodeRun, for every set of configurations and of gateways    *)
(* and every size of the DHCP server's socket.                              *)
(***************************************************************************)
EXTENDS NodeRun, TLAPS

USE ConfigsAssumption, GatewaysAssumption, ReplyRoomAssumption

-----------------------------------------------------------------------------
(* Types. *)

\* Where a run's futures begin.
LEMMA StartPoints ==
    ASSUME NEW c \in ConfigType
    PROVE  /\ MainStart(c) \in {"settle", "collected", "none", "serve"}
           /\ MainStart(c) = "settle" => c.role \in {"station", "ap"}
           /\ RateStart(c) \in {"rate", "none", "until_stop"}
           /\ LimitStart(c) \in {"none", "collect", "limit"}
  BY DEF MainStart, RateStart, LimitStart

LEMMA StartTypes ==
    ASSUME TypeOK, NEW c \in Configs, Start(c)
    PROVE  /\ TypeOK'
           /\ \A f \in Futures \ {"main", "rate", "limit"} : pc'[f] = "none"
           /\ pc'["main"] = MainStart(c)
           /\ \A f \in Futures : pc'[f] # "done"
  <1>1. c \in ConfigType
    OBVIOUS
  <1>2. config' = c /\ c.role \in Roles /\ c.rx \in BOOLEAN
    BY <1>1 DEF Start, ConfigType
  <1>3. \A f \in Futures :
          pc'[f] = CASE f = "main" -> MainStart(c)
                     [] f = "rate" -> RateStart(c)
                     [] f = "limit" -> LimitStart(c)
                     [] OTHER -> "none"
    BY DEF Start
  <1>4. /\ \A f \in Futures \ {"main", "rate", "limit"} : pc'[f] = "none"
        /\ pc'["main"] = MainStart(c)
        /\ pc'["rate"] = RateStart(c)
        /\ pc'["limit"] = LimitStart(c)
    BY <1>3 DEF Futures
  <1>5. \A f \in Futures : pc'[f] \in Points \ {"done"}
    BY <1>1, <1>4, StartPoints DEF Points, Guarded, Unguarded
  <1>6. pc' \in [Futures -> Points]
    BY <1>5 DEF Start
  <1>7. armed' \in BOOLEAN
    <2>1. armed \in BOOLEAN
      BY DEF TypeOK
    <2>2. armed' = CASE c.role = "station" -> c.rx
                     [] c.role = "ap" -> FALSE
                     [] OTHER -> armed \/ (c.rx /\ c.role # "emitter")
      BY DEF Start
    <2>3. CASE c.role = "station"
      BY <2>2, <2>3, <1>2
    <2>4. CASE c.role = "ap"
      BY <2>2, <2>4
    <2>5. CASE c.role \notin {"station", "ap"}
      BY <2>2, <2>5
    <2> QED
      BY <2>3, <2>4, <2>5
  <1>8. pc'["flood"] = "none"
    BY <1>4 DEF Futures
  <1>9. /\ stop' = stop /\ info' = info /\ link' = FALSE /\ pending' = FALSE
        /\ lease' = NoGateway /\ target' = NoGateway /\ published' = NoGateway
        /\ unsent' = 0
    BY DEF Start
  <1>10. stop' \in BOOLEAN /\ link' \in BOOLEAN /\ pending' \in BOOLEAN
    BY <1>9 DEF TypeOK
  <1>11. /\ {lease', info', target', published'} \subseteq Gateways \cup {NoGateway}
         /\ unsent' \in 0 .. ReplyRoom
    BY <1>9 DEF TypeOK
  <1> QED
    BY <1>1, <1>2, <1>4, <1>5, <1>6, <1>7, <1>8, <1>10, <1>11 DEF TypeOK

\* What a step of one future needs to preserve the types.
LEMMA MoveTypes ==
    ASSUME TypeOK, NEW f \in Futures, NEW to \in Points, to # "flooding",
           pc' = [pc EXCEPT ![f] = to], UNCHANGED config,
           stop' \in BOOLEAN, armed' \in BOOLEAN, UNCHANGED network
    PROVE  TypeOK'
  <1>1. pc' \in [Futures -> Points]
    BY DEF TypeOK
  <1>2. pc'["flood"] = "flooding" => pc["flood"] = "flooding"
    BY DEF TypeOK, Futures
  <1> QED
    BY <1>1, <1>2 DEF TypeOK, network

\* Nothing but the variables of the network changes.
LEMMA NetworkTypes ==
    ASSUME TypeOK, UNCHANGED <<config, stop, pc, target>>, armed' \in BOOLEAN,
           link' \in BOOLEAN, pending' \in BOOLEAN,
           {lease', info', published'} \subseteq Gateways \cup {NoGateway},
           unsent' \in 0 .. ReplyRoom
    PROVE  TypeOK'
  BY DEF TypeOK

LEMMA ArmedTypes ==
    ASSUME TypeOK
    PROVE  /\ MayDisarm => armed' \in BOOLEAN
           /\ \A wanted : SetCsi(wanted) \/ Rearm(wanted) => armed' \in BOOLEAN
           /\ UNCHANGED armed => armed' \in BOOLEAN
           /\ UNCHANGED stop => stop' \in BOOLEAN
  BY DEF TypeOK, MayDisarm, SetCsi, Rearm

LEMMA NextTypes == TypeOK /\ [Next]_vars => TypeOK'
  <1> SUFFICES ASSUME TypeOK, [Next]_vars PROVE TypeOK'
    OBVIOUS
  <1> USE DEF Points, Guarded, Unguarded, Futures
  <1>1. ASSUME NEW c \in Configs, Start(c) PROVE TypeOK'
    BY <1>1, StartTypes
  <1>2. CASE SendStop
    BY <1>2 DEF SendStop, TypeOK, network
  <1>3. CASE EndRun
    BY <1>3 DEF EndRun, TypeOK, network
  <1>4. ASSUME NEW f \in Futures, ObserveStop(f) PROVE TypeOK'
    BY <1>4, MoveTypes, ArmedTypes DEF ObserveStop
  <1>5. CASE TimeUp
    <2>1. /\ pc' = [pc EXCEPT !["limit"] = "done"]
          /\ stop' = TRUE /\ UNCHANGED <<config, armed, network>>
      BY <1>5 DEF TimeUp, Resume
    <2> QED
      BY <2>1, MoveTypes, ArmedTypes
  <1>6. CASE Settle \/ ConnectFails \/ Cycle \/ CycleEnds \/ Backoff
    <2>1. /\ \E to \in Points \ {"flooding"} : pc' = [pc EXCEPT !["main"] = to]
          /\ UNCHANGED <<config, stop, network>>
      BY <1>6 DEF Settle, ConnectFails, Cycle, CycleEnds, Backoff, Arm, Resume
    <2>2. armed' \in BOOLEAN
      BY <1>6, ArmedTypes DEF Settle, ConnectFails, Cycle, CycleEnds, Backoff
    <2> QED
      BY <2>1, <2>2, MoveTypes, ArmedTypes
  <1>7. CASE Disconnected \/ ReconnectFails \/ Retry
    <2>1. /\ \E to \in Points \ {"flooding"} : pc' = [pc EXCEPT !["connection"] = to]
          /\ UNCHANGED <<config, stop, network>>
      BY <1>7 DEF Disconnected, ReconnectFails, Retry, Arm
    <2>2. armed' \in BOOLEAN
      BY <1>7, ArmedTypes DEF Disconnected, ReconnectFails, Retry
    <2> QED
      BY <2>1, <2>2, MoveTypes, ArmedTypes
  <1>8. CASE LinkUp \/ LinkDown \/ DhcpRequest \/ Transmit \/ Transmitted \/ Collected
    <2>1. /\ \E f \in Futures, to \in Points \ {"flooding"} : pc' = [pc EXCEPT ![f] = to]
          /\ UNCHANGED <<config, stop, armed, network>>
      BY <1>8 DEF LinkUp, LinkDown, DhcpRequest, Transmit, Transmitted, Collected, Arm, Resume
    <2> QED
      BY <2>1, MoveTypes, ArmedTypes
  <1>9. CASE LinkLost \/ LeaseAcquired \/ LeaseExpires \/ ReplySent \/ StationAssociates
    <2>1. armed' \in BOOLEAN
      BY <1>9, ArmedTypes DEF LinkLost, LeaseAcquired, LeaseExpires, ReplySent, StationAssociates
    <2>2. unsent' \in 0 .. ReplyRoom
      BY <1>9 DEF LinkLost, LeaseAcquired, LeaseExpires, ReplySent, StationAssociates, TypeOK
    <2>3. {lease', info', published'} \subseteq Gateways \cup {NoGateway}
      BY <1>9 DEF LinkLost, LeaseAcquired, LeaseExpires, ReplySent, StationAssociates, TypeOK
    <2>4. link' \in BOOLEAN /\ pending' \in BOOLEAN
      BY <1>9 DEF LinkLost, LeaseAcquired, LeaseExpires, ReplySent, StationAssociates, TypeOK
    <2>5. UNCHANGED <<config, stop, pc, target>>
      BY <1>9 DEF LinkLost, LeaseAcquired, LeaseExpires, ReplySent, StationAssociates
    <2> QED
      BY <2>1, <2>2, <2>3, <2>4, <2>5, NetworkTypes
  <1>10. CASE Reconnected
    BY <1>10, ArmedTypes DEF Reconnected, Arm, TypeOK
  <1>11. CASE Publish
    BY <1>11 DEF Publish, Arm, TypeOK
  <1>12. ASSUME NEW from, TakeInfo(from) PROVE TypeOK'
    BY <1>12 DEF TakeInfo, Arm, TypeOK
  <1>13. CASE StationConnected
    BY <1>13, ArmedTypes DEF StationConnected, Arm, TypeOK
  <1>14. CASE DhcpReply
    BY <1>14 DEF DhcpReply, Resume, TypeOK
  <1>15. CASE Connected
    BY <1>15, ArmedTypes DEF Connected, TypeOK
  <1>16. CASE ApStarted
    BY <1>16, ArmedTypes DEF ApStarted, TypeOK, network
  <1>17. CASE UNCHANGED vars
    BY <1>17 DEF vars, network, TypeOK
  <1> QED
    BY <1>1, <1>2, <1>3, <1>4, <1>5, <1>6, <1>7, <1>8, <1>9, <1>10, <1>11, <1>12,
       <1>13, <1>14, <1>15, <1>16, <1>17
    DEF Next, Environment, Station, DhcpClient, FollowLease, AccessPoint

\* Type correctness; the flood, once it floods, has a gateway to flood.
THEOREM TypeCorrect == Spec => []TypeOK
  <1>1. Init => TypeOK
    <2> SUFFICES ASSUME Init PROVE TypeOK
      OBVIOUS
    <2>1. pc \in [Futures -> Points] /\ pc["flood"] # "flooding"
      BY DEF Init, Points, Futures
    <2>2. stop \in BOOLEAN /\ armed \in BOOLEAN /\ link \in BOOLEAN /\ pending \in BOOLEAN
      BY DEF Init
    <2>3. unsent \in 0 .. ReplyRoom
      BY DEF Init
    <2> QED
      BY <2>1, <2>2, <2>3 DEF Init, TypeOK
  <1> QED
    BY <1>1, NextTypes, PTL DEF Spec

-----------------------------------------------------------------------------
(* The stop signal. *)

\* A future ends only by an arm or a wait that the signal takes part in.
LEMMA NextStop == TypeOK /\ StopStaysRaised /\ [Next]_vars => StopStaysRaised'
  <1> SUFFICES ASSUME TypeOK, StopStaysRaised, [Next]_vars PROVE StopStaysRaised'
    OBVIOUS
  <1> USE DEF StopStaysRaised
  <1>1. ASSUME NEW c \in Configs, Start(c) PROVE StopStaysRaised'
    BY <1>1, StartTypes
  <1>2. CASE SendStop \/ TimeUp
    BY <1>2 DEF SendStop, TimeUp
  <1>3. CASE EndRun
    BY <1>3 DEF EndRun
  <1>4. ASSUME NEW f \in Futures, ObserveStop(f) PROVE StopStaysRaised'
    BY <1>4 DEF ObserveStop
  <1>5. ASSUME NEW f \in Futures, NEW to, to # "done", pc' = [pc EXCEPT ![f] = to], UNCHANGED stop
        PROVE  StopStaysRaised'
    BY <1>5 DEF TypeOK
  <1>6. CASE Settle \/ ConnectFails \/ Cycle \/ CycleEnds \/ Backoff
    BY <1>5, <1>6 DEF Settle, ConnectFails, Cycle, CycleEnds, Backoff, Arm, Resume, Futures
  <1>7. CASE Disconnected \/ Reconnected \/ ReconnectFails \/ Retry \/ LinkUp \/ Publish \/ LinkDown
    BY <1>5, <1>7
    DEF Disconnected, Reconnected, ReconnectFails, Retry, LinkUp, Publish, LinkDown, Arm, Futures
  <1>8. ASSUME NEW from, TakeInfo(from) PROVE StopStaysRaised'
    BY <1>5, <1>8 DEF TakeInfo, Arm, Futures
  <1>9. CASE StationConnected \/ DhcpRequest \/ DhcpReply \/ Transmit \/ Transmitted \/ Collected
    BY <1>5, <1>9
    DEF StationConnected, DhcpRequest, DhcpReply, Transmit, Transmitted, Collected, Arm, Resume, Futures
  <1>10. CASE Connected
    BY <1>10 DEF Connected, TypeOK
  <1>11. CASE ApStarted
    BY <1>11 DEF ApStarted, TypeOK
  <1>12. CASE \/ LinkLost \/ LeaseAcquired \/ LeaseExpires \/ ReplySent \/ StationAssociates
              \/ UNCHANGED vars
    BY <1>12 DEF LinkLost, LeaseAcquired, LeaseExpires, ReplySent, StationAssociates, vars
  <1> QED
    BY <1>1, <1>2, <1>3, <1>4, <1>6, <1>7, <1>8, <1>9, <1>10, <1>11, <1>12
    DEF Next, Environment, Station, DhcpClient, FollowLease, AccessPoint

\* Once a future has ended, the signal stays raised until the run is over:
\* whoever takes it raises it again, in every role.
THEOREM StopIsPassedOn == Spec => []StopStaysRaised
  <1>1. Init => StopStaysRaised
    BY DEF Init, StopStaysRaised
  <1> QED
    BY <1>1, TypeCorrect, NextStop, PTL DEF Spec

-----------------------------------------------------------------------------
(* The capture. *)

\* Which role's futures are under way: associations and disassociations
\* happen in the roles they belong to, and the station's monitor begins
\* only when its main task has ended.
RoleInv ==
    Running =>
        /\ pc["main"] \in {"connect", "disconnect", "cycle", "backoff"} =>
              config.role = "station" /\ pc["connection"] = "none"
        /\ pc["main"] = "settle" => config.role \in {"station", "ap"} /\ pc["connection"] = "none"
        /\ pc["connection"] # "none" => config.role = "station"
        /\ pc["monitor"] # "none" => config.role = "ap"
        /\ link => config.role = "station"

LEMMA NextRole == TypeOK /\ RoleInv /\ [Next]_vars => RoleInv'
  <1> SUFFICES ASSUME TypeOK, RoleInv, [Next]_vars PROVE RoleInv'
    OBVIOUS
  <1>1. ASSUME NEW c \in Configs, Start(c) PROVE RoleInv'
    <2>1. /\ config' = c /\ c \in ConfigType /\ pc'["main"] = MainStart(c) /\ link' = FALSE
          /\ pc'["connection"] = "none" /\ pc'["monitor"] = "none"
      BY <1>1, StartTypes DEF Start, Futures
    <2> QED
      BY <2>1, StartPoints DEF RoleInv
  <1>2. CASE EndRun
    BY <1>2 DEF EndRun, RoleInv, Running
  <1>3. ASSUME UNCHANGED <<config, pc, link>> PROVE RoleInv'
    BY <1>3 DEF RoleInv, Running
  <1>4. ASSUME NEW f \in Futures \ {"main", "connection", "monitor"}, NEW to,
               pc' = [pc EXCEPT ![f] = to], UNCHANGED <<config, link>>
        PROVE  RoleInv'
    BY <1>4 DEF RoleInv, Running, TypeOK, Futures
  <1>5. ASSUME NEW f \in Futures, ObserveStop(f) PROVE RoleInv'
    BY <1>5 DEF ObserveStop, RoleInv, Running, TypeOK, Futures, network, Guarded
  <1>6. CASE Settle \/ ConnectFails \/ Cycle \/ CycleEnds \/ Backoff \/ Transmit \/ Transmitted \/ Collected
    BY <1>6 DEF Settle, ConnectFails, Cycle, CycleEnds, Backoff, Transmit, Transmitted, Collected,
                Arm, Resume, network, RoleInv, Running, TypeOK, Futures
  <1>7. CASE Disconnected \/ Reconnected \/ ReconnectFails \/ Retry \/ StationConnected
    BY <1>7 DEF Disconnected, Reconnected, ReconnectFails, Retry, StationConnected,
                Arm, network, RoleInv, Running, TypeOK, Futures
  <1>8. CASE LinkUp \/ Publish \/ LinkDown \/ DhcpRequest \/ DhcpReply \/ FollowLease \/ TimeUp
    BY <1>4, <1>8 DEF LinkUp, Publish, LinkDown, DhcpRequest, DhcpReply, FollowLease, TakeInfo,
                      TimeUp, Arm, Resume, network, Futures
  <1>9. CASE Connected
    BY <1>9 DEF Connected, RoleInv, Running, TypeOK, Futures
  <1>10. CASE ApStarted
    BY <1>10 DEF ApStarted, network, RoleInv, Running, TypeOK, Futures
  <1>11. CASE LinkLost
    BY <1>11 DEF LinkLost, RoleInv, Running
  <1>12. CASE \/ SendStop \/ LeaseAcquired \/ LeaseExpires \/ ReplySent \/ StationAssociates
              \/ UNCHANGED vars
    BY <1>3, <1>12 DEF SendStop, LeaseAcquired, LeaseExpires, ReplySent, StationAssociates, vars, network
  <1> QED
    BY <1>1, <1>2, <1>5, <1>6, <1>7, <1>8, <1>9, <1>10, <1>11, <1>12
    DEF Next, Environment, Station, DhcpClient, AccessPoint

\* A step that does not disarm, and after which no more futures watch.
LEMMA StillArmed ==
    ASSUME TypeOK, ArmedWhenAssociated, armed => armed', UNCHANGED config,
           Running /\ config.role = "station" /\ link' /\ pc'["connection"] = "watch" =>
               armed' \/ (link /\ pc["connection"] = "watch"),
           Running /\ config.role = "ap" /\ ~pending' /\ pc'["monitor"] = "watch" =>
               armed' \/ (~pending /\ pc["monitor"] = "watch")
    PROVE  ArmedWhenAssociated'
  BY DEF ArmedWhenAssociated, Captures, Running

LEMMA NextArmed == TypeOK /\ RoleInv /\ ArmedWhenAssociated /\ [Next]_vars => ArmedWhenAssociated'
  <1> SUFFICES ASSUME TypeOK, RoleInv, ArmedWhenAssociated, [Next]_vars
               PROVE  ArmedWhenAssociated'
    OBVIOUS
  <1>1. ASSUME NEW c \in Configs, Start(c) PROVE ArmedWhenAssociated'
    <2>1. /\ config' = c /\ c \in ConfigType /\ link' = FALSE
          /\ pc'["connection"] = "none" /\ pc'["monitor"] = "none"
      BY <1>1, StartTypes DEF Start, Futures
    <2>2. c.role \notin {"station", "ap", "emitter"} /\ c.rx => armed'
      BY <1>1 DEF Start
    <2> QED
      BY <2>1, <2>2 DEF ArmedWhenAssociated, Captures, Running
  <1>2. CASE EndRun
    BY <1>2 DEF EndRun, ArmedWhenAssociated, Running
  <1>3. ASSUME UNCHANGED <<config, pc, armed, link, pending>> PROVE ArmedWhenAssociated'
    BY <1>3, StillArmed
  <1>4. ASSUME NEW f \in Futures, NEW to, to # "watch", pc' = [pc EXCEPT ![f] = to],
               armed => armed', UNCHANGED <<config, link, pending>>
        PROVE  ArmedWhenAssociated'
    BY <1>4, StillArmed DEF TypeOK, Futures
  <1>5. ASSUME NEW f \in Futures, ObserveStop(f) PROVE ArmedWhenAssociated'
    BY <1>4, <1>5 DEF ObserveStop, network
  <1>6. CASE Settle \/ Cycle \/ CycleEnds \/ Backoff \/ Transmit \/ Transmitted \/ Collected
    <2>1. /\ \E to : to # "watch" /\ pc' = [pc EXCEPT !["main"] = to]
          /\ UNCHANGED <<config, link, pending>>
      BY <1>6 DEF Settle, Cycle, CycleEnds, Backoff, Transmit, Transmitted, Collected,
                  Arm, Resume, network
    <2>2. armed => armed'
      BY <1>6 DEF Settle, Cycle, CycleEnds, Backoff, Transmit, Transmitted, Collected, SetCsi
    <2> QED
      BY <1>4, <2>1, <2>2 DEF Futures
  <1>7. CASE Disconnected \/ Retry \/ TimeUp \/ LinkUp \/ LinkDown \/ DhcpRequest
    BY <1>4, <1>7 DEF Disconnected, Retry, TimeUp, LinkUp, LinkDown, DhcpRequest,
                      Arm, Resume, network, Futures
  <1>8. CASE Publish \/ FollowLease \/ DhcpReply
    BY <1>4, <1>8 DEF Publish, FollowLease, TakeInfo, DhcpReply, Arm, Resume, Futures
  <1>9. CASE ConnectFails \/ ReconnectFails
    <2>1. Running => config.role = "station"
      BY <1>9 DEF ConnectFails, ReconnectFails, Arm, RoleInv
    <2>2. Running => pc'["connection"] # "watch"
      BY <1>9 DEF ConnectFails, ReconnectFails, Arm, RoleInv, TypeOK, Futures
    <2>3. UNCHANGED config
      BY <1>9 DEF ConnectFails, ReconnectFails, Arm
    <2> QED
      BY <2>1, <2>2, <2>3 DEF ArmedWhenAssociated, Running
  <1>10. CASE Connected \/ Reconnected
    <2>1. Running => config.role = "station"
      BY <1>10 DEF Connected, Reconnected, Arm, RoleInv
    <2>2. UNCHANGED config /\ Rearm(config.rx)
      BY <1>10 DEF Connected, Reconnected, Arm
    <2> QED
      BY <2>1, <2>2 DEF ArmedWhenAssociated, Running, Captures, Rearm
  <1>11. CASE LinkLost
    <2>1. UNCHANGED config /\ link' = FALSE /\ (Running => config.role = "station")
      BY <1>11 DEF LinkLost, RoleInv
    <2> QED
      BY <2>1 DEF ArmedWhenAssociated, Running
  <1>12. CASE ApStarted \/ StationConnected
    <2>1. Running => config.role = "ap"
      BY <1>12 DEF ApStarted, StationConnected, Arm, RoleInv
    <2>2. UNCHANGED config /\ SetCsi(config.rx)
      BY <1>12 DEF ApStarted, StationConnected, Arm
    <2> QED
      BY <2>1, <2>2 DEF ArmedWhenAssociated, Running, Captures, SetCsi
  <1>13. CASE StationAssociates
    BY <1>13 DEF StationAssociates, ArmedWhenAssociated, Running
  <1>14. CASE SendStop \/ LeaseAcquired \/ LeaseExpires \/ ReplySent \/ UNCHANGED vars
    BY <1>3, <1>14 DEF SendStop, LeaseAcquired, LeaseExpires, ReplySent, vars, network
  <1> QED
    BY <1>1, <1>2, <1>5, <1>6, <1>7, <1>8, <1>9, <1>10, <1>11, <1>12, <1>13, <1>14
    DEF Next, Environment, Station, DhcpClient, AccessPoint

\* A node that measures is armed on every association its futures watch,
\* and throughout the runs that have none, whatever the radio forgot.
THEOREM CaptureIsArmed == Spec => []ArmedWhenAssociated
  <1>1. Init => RoleInv /\ ArmedWhenAssociated
    BY DEF Init, RoleInv, ArmedWhenAssociated, Running
  <1> QED
    BY <1>1, TypeCorrect, NextRole, NextArmed, PTL DEF Spec
=============================================================================
