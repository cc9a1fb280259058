------------------------------ MODULE ApLeases ------------------------------
(***************************************************************************)
(* The access point's traffic (wifi/ap.rs, and the floods of wifi/sta.rs):  *)
(* the DHCP server that binds stations to the addresses of a pool, the      *)
(* registry of active leases, which outlives a run, and the flood that      *)
(* sounds the channel by sending a frame to each lease in turn              *)
(* (run_icmp_flood_multi) or to all of them in a burst                      *)
(* (run_icmp_flood_burst).                                                  *)
(*                                                                          *)
(* Stations join, leave, retry and renew as they please, and replies get    *)
(* lost.  Server and flood are futures of one task, so each handles a       *)
(* request or a wake-up in one step.  Pacing is left out: how many frames   *)
(* are due, and how many of them the transmit buffer takes, is open up to   *)
(* the burst limit.  The flood's target list is refreshed in a wake-up now  *)
(* and then (once per second).                                              *)
(***************************************************************************)
EXTENDS Naturals, Sequences, FiniteSets

CONSTANTS
    Stations,
    Addresses,
    NoAddress,
    NoConfig,       \* an access point that is not run
    Configs,        \* the configurations it is run with
    MaxClients,     \* MAX_DHCP_CLIENTS: 8 in the code
    MaxBurst        \* ICMP_FLOOD_CATCH_UP_BURST: 16 in the code

\* A WifiApConfig: its lease pool, whether it serves DHCP, whether it floods
\* in bursts.
ConfigType == [pool : Seq(Addresses) \ {<<>>}, dhcp : BOOLEAN, burst : BOOLEAN]

ASSUME ConfigsAssumption == Configs \subseteq ConfigType /\ NoConfig \notin Configs
ASSUME AddressAssumption == NoAddress \notin Addresses
ASSUME BoundsAssumption == MaxClients \in Nat \ {0} /\ MaxBurst \in Nat \ {0}

VARIABLES
    config,     \* the configuration of the run, if there is one
    clients,    \* clients[m]: the address the server bound to m in this run
    leases,     \* ACTIVE_LEASES, in the order of registration
    station,    \* station[m]: how far m is with DHCP
    address,    \* address[m]: the address m uses
    phase,      \* how far ap_ping_lease is
    targets,    \* the flood's destinations
    next,       \* dst_idx or burst_start: the place in targets that is next
    window      \* history: the last frames of this flood, since targets changed

server == <<clients, leases>>
air == <<station, address>>
flood == <<phase, targets, next, window>>
vars == <<config, server, air, flood>>

Elements(s) == {s[i] : i \in 1 .. Len(s)}

Running == config # NoConfig

Init ==
    /\ config = NoConfig
    /\ clients = [m \in Stations |-> NoAddress] /\ leases = <<>>
    /\ station = [m \in Stations |-> "away"]
    /\ address = [m \in Stations |-> NoAddress]
    /\ phase = "off" /\ targets = <<>> /\ next = 0 /\ window = <<>>

\* A run begins with an empty client table; the registry stays as it is.
Start(c) ==
    /\ ~Running
    /\ config' = c
    /\ clients' = [m \in Stations |-> NoAddress]
    /\ phase' = "delay" /\ targets' = <<>> /\ next' = 0 /\ window' = <<>>
    /\ UNCHANGED <<leases, air>>

\* The stop signal ends server and flood, and the stations lose the link.
Stop ==
    /\ Running
    /\ config' = NoConfig
    /\ phase' = "off" /\ targets' = <<>> /\ next' = 0 /\ window' = <<>>
    /\ station' = [m \in Stations |-> "away"]
    /\ address' = [m \in Stations |-> NoAddress]
    /\ UNCHANGED server

-----------------------------------------------------------------------------
(* Stations and the DHCP server. *)

Associate(m) ==
    /\ Running /\ station[m] = "away"
    /\ station' = [station EXCEPT ![m] = "associated"]
    /\ UNCHANGED <<config, server, address, flood>>

\* A station leaves without a word to the server.
Leave(m) ==
    /\ station[m] # "away"
    /\ station' = [station EXCEPT ![m] = "away"]
    /\ address' = [address EXCEPT ![m] = NoAddress]
    /\ UNCHANGED <<config, server, flood>>

\* Mutant: the first address of the pool is taken to be free.
AssignFirst(m) == IF clients[m] # NoAddress THEN clients[m] ELSE config.pool[1]

\* dhcp_assign_ip: what m is bound to already, else the first free address of
\* the pool, if the table has a free slot.
Assign(m) ==
    LET bound == {n \in Stations : clients[n] # NoAddress}
        free == {i \in 1 .. Len(config.pool) :
                    i <= MaxClients /\ config.pool[i] \notin {clients[n] : n \in bound}}
    IN IF clients[m] # NoAddress THEN clients[m]
       ELSE IF free = {} \/ Cardinality(bound) >= MaxClients THEN NoAddress
       ELSE config.pool[CHOOSE i \in free : \A j \in free : i <= j]

\* Mutant: the last slot stays unused.
RegisterShort(ip) ==
    IF ip \in Elements(leases) \/ Len(leases) >= MaxClients - 1 THEN leases
    ELSE Append(leases, ip)

\* ActiveLeaseRegistry::register: a full registry ignores a new address.
Register(ip) ==
    IF ip \in Elements(leases) \/ Len(leases) >= MaxClients THEN leases
    ELSE Append(leases, ip)

\* run_dhcp_server, for a Discover or a Request of m: the address is bound and
\* registered, whichever it is, and offered or acknowledged in a reply that m
\* may not receive.  A requested address is not looked at.
Serve(m, reply) ==
    /\ Running /\ config.dhcp /\ station[m] # "away"
    /\ Assign(m) # NoAddress
    /\ clients' = [clients EXCEPT ![m] = Assign(m)]
    /\ leases' = Register(Assign(m))
    /\ \/ UNCHANGED air
       \/ /\ reply = "offer" /\ station[m] # "bound"
          /\ station' = [station EXCEPT ![m] = "offered"]
          /\ UNCHANGED address
       \/ /\ reply = "ack"
          /\ station' = [station EXCEPT ![m] = "bound"]
          /\ address' = [address EXCEPT ![m] = Assign(m)]
    /\ UNCHANGED <<config, flood>>

-----------------------------------------------------------------------------
(* The flood: ap_ping_lease and the two loops. *)

\* One address and no burst: there is nothing to gather.
Single == ~config.burst /\ Len(config.pool) <= 1

\* The link is up and has settled.
Settle ==
    /\ phase = "delay"
    /\ phase' = IF Single THEN "flood" ELSE "gather"
    /\ targets' = IF Single THEN <<config.pool[1]>> ELSE <<>>
    /\ UNCHANGED <<config, server, air, next, window>>

\* The flood begins with the registered leases, for which it waits 60 s at
\* most; without any it begins with the whole pool.
Gather ==
    /\ phase = "gather"
    /\ phase' = "flood"
    /\ targets' = IF leases # <<>> THEN leases
                  ELSE SubSeq(config.pool, 1, IF Len(config.pool) < MaxClients
                                              THEN Len(config.pool) ELSE MaxClients)
    /\ UNCHANGED <<config, server, air, next, window>>

\* The destination that is i places after the next one.
At(i) == targets[((next + i) % Len(targets)) + 1]

\* The history keeps what the fairness of a burst is about.
Window(s) ==
    LET w == window \o s
        size == 2 * Len(targets) - 1
    IN IF Len(w) <= size THEN w ELSE SubSeq(w, Len(w) - size + 1, Len(w))

\* Mutant: only the places that both lists have are compared.
RefreshByPrefix(place, frames) ==
    IF \E i \in 1 .. Len(leases) : i <= Len(targets) /\ leases[i] # targets[i]
    THEN targets' = leases /\ next' = 0 /\ window' = <<>>
    ELSE UNCHANGED targets /\ next' = place /\ window' = Window(frames)

\* Mutant: the turn goes on in the new list.
RefreshKeepsPlace(place, frames) ==
    IF leases # <<>> /\ leases # targets
    THEN targets' = leases /\ next' = place /\ window' = <<>>
    ELSE UNCHANGED targets /\ next' = place /\ window' = Window(frames)

\* The list is replaced if the registry holds other leases, which starts the
\* turns anew; else the turn goes on at `place'.
Refresh(place, frames) ==
    IF leases # <<>> /\ leases # targets
    THEN targets' = leases /\ next' = 0 /\ window' = <<>>
    ELSE UNCHANGED targets /\ next' = place /\ window' = Window(frames)

Go(place, frames) == UNCHANGED targets /\ next' = place /\ window' = Window(frames)

\* run_icmp_flood_multi, one wake-up: `sent' of the frames that are due are
\* taken by the buffer.  The destination is chosen before the first of them,
\* and the index moves on with each.
MultiWake(sent, refresh) ==
    /\ phase = "flood" /\ ~Single /\ ~config.burst
    /\ LET place == (next + sent) % Len(targets)
           frames == [i \in 1 .. sent |-> At(0)]
       IN IF refresh THEN Refresh(place, frames) ELSE Go(place, frames)
    /\ UNCHANGED <<config, server, air, phase>>

\* Mutant: the start is not moved when the buffer fills.
BurstWakeFixed(sent, refresh) ==
    /\ phase = "flood" /\ config.burst /\ sent <= Len(targets)
    /\ LET frames == [i \in 1 .. sent |-> At(i - 1)]
       IN IF refresh THEN Refresh(next, frames) ELSE Go(next, frames)
    /\ UNCHANGED <<config, server, air, phase>>

\* run_icmp_flood_burst, one wake-up with a burst due: a frame to every target
\* from the start on, until the buffer is full.  The next burst starts with
\* the first that missed out, or at the beginning if none did.
BurstWake(sent, refresh) ==
    /\ phase = "flood" /\ config.burst /\ sent <= Len(targets)
    /\ LET place == IF sent = Len(targets) THEN 0 ELSE (next + sent) % Len(targets)
           frames == [i \in 1 .. sent |-> At(i - 1)]
       IN IF refresh THEN Refresh(place, frames) ELSE Go(place, frames)
    /\ UNCHANGED <<config, server, air, phase>>

-----------------------------------------------------------------------------
Wake(refresh) ==
    \/ \E sent \in 0 .. MaxBurst : MultiWake(sent, refresh)
    \/ \E sent \in 0 .. MaxClients : BurstWake(sent, refresh)

Next ==
    \/ \E c \in Configs : Start(c)
    \/ Stop
    \/ \E m \in Stations : Associate(m) \/ Leave(m)
    \/ \E m \in Stations, reply \in {"offer", "ack"} : Serve(m, reply)
    \/ Settle \/ Gather
    \/ \E refresh \in BOOLEAN : Wake(refresh)

\* The flood's timers fire, and once per second it looks at the registry.
\* Nothing obliges stations to come or to stay, or replies to arrive.
Fairness == WF_vars(Settle) /\ WF_vars(Gather) /\ WF_vars(Wake(TRUE))

Spec == Init /\ [][Next]_vars /\ Fairness

-----------------------------------------------------------------------------
(* What the access point promises. *)

TypeOK ==
    /\ config \in Configs \cup {NoConfig}
    /\ clients \in [Stations -> Addresses \cup {NoAddress}]
    /\ leases \in Seq(Addresses) /\ Len(leases) <= MaxClients
    /\ station \in [Stations -> {"away", "associated", "offered", "bound"}]
    /\ address \in [Stations -> Addresses \cup {NoAddress}]
    /\ phase \in {"off", "delay", "gather", "flood"}
    /\ targets \in Seq(Addresses) /\ Len(targets) <= MaxClients
    /\ phase = "flood" => next \in 0 .. Len(targets) - 1

\* No two stations use the same address, and all are of the pool in force:
\* the module comment, "hands associating stations distinct addresses",
\* however stations retry, renew, leave and return.
DistinctAddresses ==
    /\ \A m, n \in Stations : m # n /\ address[m] # NoAddress => address[m] # address[n]
    /\ \A m \in Stations : address[m] # NoAddress => address[m] \in Elements(config.pool)

\* The registry is full: MaxClients different addresses, those of runs that
\* are over among them, for nothing clears it (ACTIVE_LEASES).
RegistryFull == Cardinality(Elements(leases)) = MaxClients

\* Station m came too late: its address is not one of those.
CrowdedOut(m) == RegistryFull /\ address[m] \notin Elements(leases)

\* A station that uses an address is unknown to the flood for one reason only:
\* MaxClients other addresses were handed out before, in this run or in an
\* earlier one (ActiveLeaseRegistry::register).
LeasesAreRegistered ==
    \A m \in Stations :
        address[m] # NoAddress => address[m] \in Elements(leases) \/ CrowdedOut(m)

\* A station that stays and is not crowded out is flooded in the end, "without
\* restarting the flood task" (run_icmp_flood_multi), whatever the flood began
\* with and whatever addresses of earlier runs it floods besides.  Those docs
\* make no exception for a station that is crowded out, but the flood never
\* reaches it.
FloodReachesStations ==
    \A m \in Stations :
        <>[](Running /\ address[m] # NoAddress /\ ~CrowdedOut(m))
            => <>[](address[m] \in Elements(targets))

\* A full transmit buffer does not starve a receiver: among 2 N - 1 consecutive
\* frames of a burst flood to N targets each of them gets one, however often
\* the buffer fills (burst_start, "so coverage stays fair").
BurstsAreFair ==
    phase = "flood" /\ config.burst /\ Len(window) = 2 * Len(targets) - 1
        => Elements(window) = Elements(targets)

\* The docs of sync_burst: without it the flood advances one lease per tick.
OneLeasePerFrame ==
    phase = "flood" /\ ~config.burst /\ Cardinality(Elements(targets)) > 1 =>
        \A i \in 1 .. Len(window) - 1 : window[i] # window[i + 1]
=============================================================================
