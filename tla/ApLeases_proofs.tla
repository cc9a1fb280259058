-------------------------- MODULE ApLeases_proofs --------------------------
(***************************************************************************)
(* Proofs about ApLeases: for every set of stations, every pool and every   *)
(* size of the client table, stations get distinct addresses; an address in *)
(* use is missing from the registry only if MaxClients other addresses were *)
(* registered before it; and the bursts of the flood give every target its  *)
(* turn.                                                                    *)
(***************************************************************************)
EXTENDS ApLeases, SequenceTheorems, FiniteSetTheorems, WellFoundedInduction, TLAPS

USE ConfigsAssumption, AddressAssumption, BoundsAssumption

-----------------------------------------------------------------------------
(* The assignment of addresses. *)

LEMMA SmallestIndex ==
    ASSUME NEW T \in SUBSET Nat, T # {}
    PROVE  \E i \in T : \A j \in T : i <= j
  <1>1. PICK i \in T : \A j \in T : ~(<<j, i>> \in OpToRel(<, Nat))
    BY WFMin, NatLessThanWellFounded
  <1>2. \A j \in T : ~(j < i)
    BY <1>1 DEF OpToRel
  <1> QED
    BY <1>2

\* dhcp_assign_ip: a station keeps the address it is bound to, and gets one
\* of the pool that nobody else is bound to otherwise, if any.
LEMMA AssignProperties ==
    ASSUME Running, TypeOK, NEW m \in Stations
    PROVE  /\ Assign(m) \in Addresses \cup {NoAddress}
           /\ clients[m] # NoAddress => Assign(m) = clients[m]
           /\ clients[m] = NoAddress /\ Assign(m) # NoAddress =>
                 /\ Assign(m) \in Elements(config.pool)
                 /\ \A n \in Stations : clients[n] # Assign(m)
  <1> DEFINE bound == {n \in Stations : clients[n] # NoAddress}
             free == {i \in 1 .. Len(config.pool) :
                        i <= MaxClients /\ config.pool[i] \notin {clients[n] : n \in bound}}
             first == CHOOSE i \in free : \A j \in free : i <= j
  <1>1. Assign(m) = IF clients[m] # NoAddress THEN clients[m]
                    ELSE IF free = {} \/ Cardinality(bound) >= MaxClients THEN NoAddress
                    ELSE config.pool[first]
    BY DEF Assign
  <1>2. /\ config.pool \in Seq(Addresses) /\ Len(config.pool) \in Nat
        /\ clients[m] \in Addresses \cup {NoAddress}
    BY LenProperties DEF TypeOK, Running, ConfigType
  <1>3. CASE free # {} /\ clients[m] = NoAddress
    <2>1. free \in SUBSET Nat
      BY <1>2
    <2>2. first \in free
      <3> HIDE DEF free
      <3> QED
        BY <2>1, <1>3, SmallestIndex
    <2>3. config.pool[first] \in Addresses /\ config.pool[first] \in Elements(config.pool)
      BY <1>2, <2>2, ElementOfSeq DEF Elements
    <2>4. \A n \in Stations : clients[n] # config.pool[first]
      BY <2>2, <2>3
    <2> HIDE DEF free, bound, first
    <2> QED
      BY <1>1, <1>3, <2>3, <2>4
  <1>4. CASE ~(free # {} /\ clients[m] = NoAddress)
    <2> HIDE DEF free, bound, first
    <2> QED
      BY <1>1, <1>2, <1>4
  <1> QED
    BY <1>3, <1>4

\* ActiveLeaseRegistry::register: the registry keeps what it has, and its bound.
LEMMA RegisterProperties ==
    ASSUME TypeOK, NEW ip \in Addresses
    PROVE  /\ Register(ip) \in Seq(Addresses) /\ Len(Register(ip)) <= MaxClients
           /\ Register(ip) = leases \/ Register(ip) = Append(leases, ip)
  <1>1. leases \in Seq(Addresses) /\ Len(leases) <= MaxClients /\ Len(leases) \in Nat
    BY LenProperties DEF TypeOK
  <1>2. Append(leases, ip) \in Seq(Addresses) /\ Len(Append(leases, ip)) = Len(leases) + 1
    BY <1>1, AppendProperties
  <1> QED
    BY <1>1, <1>2 DEF Register

-----------------------------------------------------------------------------
(* Types. *)

\* A flood belongs to a run, and its turn begins at the first target.
Typed ==
    /\ TypeOK
    /\ phase # "off" => Running
    /\ phase # "flood" => next = 0

LEMMA WakeTypes ==
    ASSUME Typed, phase = "flood", NEW place \in 0 .. Len(targets) - 1, NEW frames,
           Refresh(place, frames) \/ Go(place, frames)
    PROVE  /\ targets' \in Seq(Addresses) /\ Len(targets') <= MaxClients
           /\ next' \in 0 .. Len(targets') - 1
  <1>1. /\ leases \in Seq(Addresses) /\ Len(leases) <= MaxClients /\ Len(leases) \in Nat
        /\ targets \in Seq(Addresses) /\ Len(targets) <= MaxClients /\ Len(targets) \in Nat
        /\ next \in 0 .. Len(targets) - 1
    BY LenProperties DEF Typed, TypeOK, Running
  <1>2. leases # <<>> => Len(leases) # 0
    BY <1>1, EmptySeq
  <1> QED
    BY <1>1, <1>2 DEF Refresh, Go

LEMMA NextTyped == Typed /\ [Next]_vars => Typed'
  <1> SUFFICES ASSUME Typed, [Next]_vars PROVE Typed'
    OBVIOUS
  <1>1. ASSUME NEW c \in Configs, Start(c) PROVE Typed'
    BY <1>1, EmptySeq DEF Start, air, Typed, TypeOK, Running
  <1>2. CASE Stop
    BY <1>2, EmptySeq DEF Stop, server, Typed, TypeOK, Running
  <1>3. ASSUME NEW m \in Stations, Associate(m) \/ Leave(m) PROVE Typed'
    BY <1>3 DEF Associate, Leave, server, flood, Typed, TypeOK, Running
  <1>4. ASSUME NEW m \in Stations, NEW reply \in {"offer", "ack"}, Serve(m, reply) PROVE Typed'
    <2>1. Assign(m) \in Addresses
      BY <1>4, AssignProperties DEF Serve, Typed
    <2>2. leases' \in Seq(Addresses) /\ Len(leases') <= MaxClients
      BY <1>4, <2>1, RegisterProperties DEF Serve, Typed
    <2>3. clients' \in [Stations -> Addresses \cup {NoAddress}]
      BY <1>4, <2>1 DEF Serve, Typed, TypeOK
    <2>4. /\ station' \in [Stations -> {"away", "associated", "offered", "bound"}]
          /\ address' \in [Stations -> Addresses \cup {NoAddress}]
      BY <1>4, <2>1 DEF Serve, air, Typed, TypeOK
    <2>5. UNCHANGED <<config, phase, targets, next>>
      BY <1>4 DEF Serve, flood
    <2> QED
      BY <2>2, <2>3, <2>4, <2>5 DEF Typed, TypeOK, Running
  <1>5. CASE Settle
    <2>1. /\ Running /\ config.pool \in Seq(Addresses) /\ config.pool # <<>>
          /\ config.pool[1] \in Addresses
      BY <1>5, EmptySeq, ElementOfSeq DEF Settle, Typed, TypeOK, Running, ConfigType
    <2>2. /\ <<config.pool[1]>> \in Seq(Addresses) /\ Len(<<config.pool[1]>>) = 1
          /\ <<>> \in Seq(Addresses) /\ Len(<<>>) = 0
      BY <2>1, EmptySeq
    <2>3. /\ next = 0 /\ UNCHANGED <<config, clients, leases, station, address, next>>
          /\ \/ phase' = "flood" /\ targets' = <<config.pool[1]>>
             \/ phase' = "gather" /\ targets' = <<>>
      BY <1>5 DEF Settle, server, air, Typed
    <2>4. /\ targets' \in Seq(Addresses) /\ Len(targets') <= MaxClients
          /\ phase' = "flood" => next' \in 0 .. Len(targets') - 1
      <3>1. CASE phase' = "flood" /\ targets' = <<config.pool[1]>>
        <4>1. targets' \in Seq(Addresses) /\ Len(targets') = 1
          BY <2>2, <3>1
        <4> QED
          BY <2>3, <4>1
      <3>2. CASE phase' = "gather" /\ targets' = <<>>
        <4>1. targets' \in Seq(Addresses) /\ Len(targets') = 0
          BY <2>2, <3>2
        <4> QED
          BY <3>2, <4>1
      <3> QED
        BY <2>3, <3>1, <3>2
    <2> QED
      BY <2>1, <2>3, <2>4 DEF Typed, TypeOK, Running
  <1>6. CASE Gather
    <2> DEFINE size == IF Len(config.pool) < MaxClients THEN Len(config.pool) ELSE MaxClients
    <2>1. /\ Running /\ config.pool \in Seq(Addresses) /\ Len(config.pool) \in Nat \ {0}
          /\ \A i \in 1 .. Len(config.pool) : config.pool[i] \in Addresses
      BY <1>6, EmptySeq, ElementOfSeq DEF Gather, Typed, TypeOK, Running, ConfigType
    <2>2. size \in 1 .. Len(config.pool) /\ size <= MaxClients
      BY <2>1
    <2>3. SubSeq(config.pool, 1, size) \in Seq(Addresses) /\ Len(SubSeq(config.pool, 1, size)) = size
      BY <2>1, <2>2, SubSeqProperties
    <2>4. leases \in Seq(Addresses) /\ Len(leases) <= MaxClients /\ (leases # <<>> => Len(leases) \in Nat \ {0})
      BY EmptySeq DEF Typed, TypeOK, Running
    <2>5. targets' = IF leases # <<>> THEN leases ELSE SubSeq(config.pool, 1, size)
      BY <1>6 DEF Gather
    <2>6. /\ next = 0 /\ phase' = "flood"
          /\ UNCHANGED <<config, clients, leases, station, address, next>>
      BY <1>6 DEF Gather, server, air, Typed
    <2> HIDE DEF size
    <2>7. targets' \in Seq(Addresses) /\ Len(targets') \in 1 .. MaxClients
      BY <2>1, <2>2, <2>3, <2>4, <2>5
    <2> QED
      BY <2>1, <2>6, <2>7 DEF Typed, TypeOK, Running
  <1>7. ASSUME NEW sent \in 0 .. MaxBurst, NEW refresh \in BOOLEAN, MultiWake(sent, refresh)
        PROVE  Typed'
    <2>1. /\ Len(targets) \in Nat \ {0} /\ next \in 0 .. Len(targets) - 1
      BY <1>7, LenProperties DEF MultiWake, Typed, TypeOK
    <2>2. (next + sent) % Len(targets) \in 0 .. Len(targets) - 1
      BY <2>1
    <2>3. PICK frames : \/ Refresh((next + sent) % Len(targets), frames)
                        \/ Go((next + sent) % Len(targets), frames)
      BY <1>7 DEF MultiWake
    <2>4. phase = "flood" /\ phase' = phase /\ UNCHANGED <<config, clients, leases, station, address>>
      BY <1>7 DEF MultiWake, server, air
    <2> QED
      BY <2>2, <2>3, <2>4, WakeTypes DEF Typed, TypeOK, Running
  <1>8. ASSUME NEW sent \in 0 .. MaxClients, NEW refresh \in BOOLEAN, BurstWake(sent, refresh)
        PROVE  Typed'
    <2> DEFINE place == IF sent = Len(targets) THEN 0 ELSE (next + sent) % Len(targets)
    <2>1. /\ Len(targets) \in Nat \ {0} /\ next \in 0 .. Len(targets) - 1
      BY <1>8, LenProperties DEF BurstWake, Typed, TypeOK
    <2>2. place \in 0 .. Len(targets) - 1
      BY <2>1
    <2>3. PICK frames : Refresh(place, frames) \/ Go(place, frames)
      BY <1>8 DEF BurstWake
    <2>4. phase = "flood" /\ phase' = phase /\ UNCHANGED <<config, clients, leases, station, address>>
      BY <1>8 DEF BurstWake, server, air
    <2> HIDE DEF place
    <2> QED
      BY <2>2, <2>3, <2>4, WakeTypes DEF Typed, TypeOK, Running
  <1>9. CASE UNCHANGED vars
    BY <1>9 DEF vars, server, air, flood, Typed, TypeOK, Running
  <1> QED
    BY <1>1, <1>2, <1>3, <1>4, <1>5, <1>6, <1>7, <1>8, <1>9 DEF Next, Wake

\* Type correctness, with the bounds of registry and target list, and a turn
\* that is always at a target.
THEOREM TypeCorrect == Spec => []TypeOK
  <1>1. Init => Typed
    BY EmptySeq DEF Init, Typed, TypeOK, Running
  <1>2. Typed => TypeOK
    BY DEF Typed
  <1> QED
    BY <1>1, <1>2, NextTyped, PTL DEF Spec

-----------------------------------------------------------------------------
(* Distinct addresses. *)

\* The server's table binds no address twice, and to addresses of the pool
\* only; what a station uses is what the table binds it to.
BoundInv ==
    /\ \A m, n \in Stations : m # n /\ clients[m] # NoAddress => clients[m] # clients[n]
    /\ \A m \in Stations :
          Running /\ clients[m] # NoAddress => clients[m] \in Elements(config.pool)
    /\ \A m \in Stations : address[m] # NoAddress => Running /\ address[m] = clients[m]

LEMMA NextBound == Typed /\ BoundInv /\ [Next]_vars => BoundInv'
  <1> SUFFICES ASSUME Typed, BoundInv, [Next]_vars PROVE BoundInv'
    OBVIOUS
  <1>1. ASSUME NEW c \in Configs, Start(c) PROVE BoundInv'
    BY <1>1 DEF Start, air, BoundInv
  <1>2. CASE Stop
    BY <1>2 DEF Stop, server, BoundInv, Running
  <1>3. ASSUME NEW m \in Stations, Associate(m) \/ Leave(m) PROVE BoundInv'
    BY <1>3 DEF Associate, Leave, server, BoundInv, Running, Typed, TypeOK
  <1>4. ASSUME NEW m \in Stations, NEW reply \in {"offer", "ack"}, Serve(m, reply) PROVE BoundInv'
    <2>1. /\ Running /\ UNCHANGED config /\ clients' = [clients EXCEPT ![m] = Assign(m)]
          /\ Assign(m) # NoAddress
      BY <1>4 DEF Serve
    <2>2. address' = address \/ address' = [address EXCEPT ![m] = Assign(m)]
      BY <1>4 DEF Serve, air
    <2>3. /\ clients[m] # NoAddress => Assign(m) = clients[m]
          /\ clients[m] = NoAddress =>
                /\ Assign(m) \in Elements(config.pool)
                /\ \A n \in Stations : clients[n] # Assign(m)
      BY <2>1, AssignProperties DEF Typed
    <2>4. clients \in [Stations -> Addresses \cup {NoAddress}]
          /\ address \in [Stations -> Addresses \cup {NoAddress}]
      BY DEF Typed, TypeOK
    <2> QED
      BY <2>1, <2>2, <2>3, <2>4 DEF BoundInv, Running
  <1>5. CASE Settle \/ Gather \/ (\E refresh \in BOOLEAN : Wake(refresh)) \/ UNCHANGED vars
    <2>1. UNCHANGED <<config, clients, address>>
      BY <1>5 DEF Settle, Gather, Wake, MultiWake, BurstWake, server, air, vars
    <2> QED
      BY <2>1 DEF BoundInv, Running
  <1> QED
    BY <1>1, <1>2, <1>3, <1>4, <1>5 DEF Next

\* No two stations use one address, however stations come and go, requests
\* are retried and replies are lost.
THEOREM AddressesAreDistinct == Spec => []DistinctAddresses
  <1>1. Init => Typed /\ BoundInv
    BY EmptySeq DEF Init, BoundInv, Running, Typed, TypeOK
  <1>2. BoundInv => DistinctAddresses
    BY DEF BoundInv, DistinctAddresses
  <1> QED
    BY <1>1, <1>2, NextTyped, NextBound, PTL DEF Spec

-----------------------------------------------------------------------------
(* The registry. *)

\* The registry holds no address twice, and all that the table has unless it
\* is full.
RegistryInv ==
    /\ IsFiniteSet(Elements(leases)) /\ Cardinality(Elements(leases)) = Len(leases)
    /\ \A m \in Stations :
          clients[m] # NoAddress => clients[m] \in Elements(leases) \/ Len(leases) = MaxClients

LEMMA AppendElements ==
    ASSUME NEW S, NEW s \in Seq(S), NEW x \in S
    PROVE  /\ Elements(Append(s, x)) = Elements(s) \cup {x}
           /\ Len(Append(s, x)) = Len(s) + 1
  <1>1. /\ Len(s) \in Nat
        /\ Len(Append(s, x)) = Len(s) + 1
        /\ \A i \in 1 .. Len(s) : Append(s, x)[i] = s[i]
        /\ Append(s, x)[Len(s) + 1] = x
    BY AppendProperties, LenProperties
  <1>2. 1 .. Len(s) + 1 = (1 .. Len(s)) \cup {Len(s) + 1}
    BY <1>1
  <1>3. \A y : y \in Elements(Append(s, x)) <=> y \in Elements(s) \cup {x}
    BY <1>1, <1>2 DEF Elements
  <1> QED
    BY <1>1, <1>3

\* A registration adds the address, finds it there, or finds the registry full.
LEMMA RegisterKeeps ==
    ASSUME TypeOK, RegistryInv, NEW ip \in Addresses
    PROVE  /\ IsFiniteSet(Elements(Register(ip)))
           /\ Cardinality(Elements(Register(ip))) = Len(Register(ip))
           /\ \/ Elements(Register(ip)) = Elements(leases) \cup {ip}
              \/ Register(ip) = leases /\ Len(leases) = MaxClients
           /\ Len(leases) = MaxClients => Register(ip) = leases
  <1>1. /\ leases \in Seq(Addresses) /\ Len(leases) \in Nat /\ Len(leases) <= MaxClients
        /\ Elements(leases) \subseteq Addresses
    BY LenProperties, ElementOfSeq DEF TypeOK, Elements
  <1>2. CASE ip \in Elements(leases) \/ Len(leases) = MaxClients
    <2>1. Register(ip) = leases
      BY <1>1, <1>2 DEF Register
    <2> QED
      BY <1>2, <2>1 DEF RegistryInv
  <1>3. CASE ip \notin Elements(leases) /\ Len(leases) # MaxClients
    <2>1. Register(ip) = Append(leases, ip)
      BY <1>1, <1>3 DEF Register
    <2>2. /\ Elements(Append(leases, ip)) = Elements(leases) \cup {ip}
          /\ Len(Append(leases, ip)) = Len(leases) + 1
      BY <1>1, AppendElements
    <2>3. /\ IsFiniteSet(Elements(leases) \cup {ip})
          /\ Cardinality(Elements(leases) \cup {ip}) = Cardinality(Elements(leases)) + 1
      BY <1>3, FS_AddElement DEF RegistryInv
    <2> QED
      BY <1>3, <2>1, <2>2, <2>3 DEF RegistryInv
  <1> QED
    BY <1>2, <1>3

LEMMA NextRegistry == Typed /\ RegistryInv /\ [Next]_vars => RegistryInv'
  <1> SUFFICES ASSUME Typed, RegistryInv, [Next]_vars PROVE RegistryInv'
    OBVIOUS
  <1>1. ASSUME NEW c \in Configs, Start(c) PROVE RegistryInv'
    BY <1>1 DEF Start, air, RegistryInv, Elements
  <1>2. ASSUME UNCHANGED <<clients, leases>> PROVE RegistryInv'
    BY <1>2 DEF RegistryInv, Elements
  <1>3. ASSUME NEW m \in Stations, NEW reply \in {"offer", "ack"}, Serve(m, reply) PROVE RegistryInv'
    <2>1. /\ clients' = [clients EXCEPT ![m] = Assign(m)] /\ leases' = Register(Assign(m))
          /\ Assign(m) \in Addresses
      BY <1>3, AssignProperties DEF Serve, Typed
    <2>2. /\ IsFiniteSet(Elements(leases')) /\ Cardinality(Elements(leases')) = Len(leases')
          /\ \/ Elements(leases') = Elements(leases) \cup {Assign(m)}
             \/ leases' = leases /\ Len(leases) = MaxClients
          /\ Len(leases) = MaxClients => leases' = leases
      BY <2>1, RegisterKeeps DEF Typed
    <2>3. clients \in [Stations -> Addresses \cup {NoAddress}]
      BY DEF Typed, TypeOK
    <2>4. ASSUME NEW n \in Stations, clients'[n] # NoAddress
          PROVE  clients'[n] \in Elements(leases') \/ Len(leases') = MaxClients
      BY <2>1, <2>2, <2>3, <2>4 DEF RegistryInv
    <2> QED
      BY <2>2, <2>4 DEF RegistryInv
  <1>4. CASE \/ Stop \/ Settle \/ Gather \/ (\E m \in Stations : Associate(m) \/ Leave(m))
             \/ (\E refresh \in BOOLEAN : Wake(refresh)) \/ UNCHANGED vars
    <2>1. UNCHANGED <<clients, leases>>
      BY <1>4 DEF Stop, Settle, Gather, Associate, Leave, Wake, MultiWake, BurstWake, server, vars
    <2> QED
      BY <1>2, <2>1
  <1> QED
    BY <1>1, <1>3, <1>4 DEF Next

\* The registry, which no run clears, misses an address in use for one reason
\* only: it is full of MaxClients other addresses, registered before it
\* (ActiveLeaseRegistry::register).
THEOREM RegistryKnowsEveryLease == Spec => []LeasesAreRegistered
  <1>1. Init => Typed /\ BoundInv /\ RegistryInv
    <2> SUFFICES ASSUME Init PROVE Typed /\ BoundInv /\ RegistryInv
      OBVIOUS
    <2>1. Typed /\ BoundInv
      BY EmptySeq DEF Init, BoundInv, Running, Typed, TypeOK
    <2>2. Len(leases) = 0 /\ leases = <<>>
      BY EmptySeq DEF Init
    <2>3. Elements(leases) = {}
      BY <2>2 DEF Elements
    <2>4. \A m \in Stations : clients[m] = NoAddress
      BY DEF Init
    <2> QED
      BY <2>1, <2>2, <2>3, <2>4, FS_EmptySet DEF RegistryInv
  <1>2. BoundInv /\ RegistryInv => LeasesAreRegistered
    BY DEF BoundInv, RegistryInv, LeasesAreRegistered, CrowdedOut, RegistryFull
  <1> QED
    BY <1>1, <1>2, NextRegistry, NextTyped, NextBound, PTL DEF Spec

-----------------------------------------------------------------------------
(* Bursts. *)

LEMMA SmallRemainder ==
    ASSUME NEW n \in Nat \ {0}, NEW x \in 0 .. 2 * n - 1
    PROVE  x % n = IF x < n THEN x ELSE x - n
  <1>1. PICK q \in Int, r \in Int : q = x \div n /\ r = x % n
    OBVIOUS
  <1>2. x = n * q + r /\ r \in 0 .. n - 1
    BY <1>1, SMT
  <1>3. q >= 0
    <2> SUFFICES ASSUME q <= -1 PROVE FALSE
      OBVIOUS
    <2>1. n * q <= n * (-1)
      OBVIOUS
    <2> QED BY <1>2, <2>1
  <1>4. q <= 1
    <2> SUFFICES ASSUME q >= 2 PROVE FALSE
      OBVIOUS
    <2>1. n * q >= n * 2
      OBVIOUS
    <2> QED BY <1>2, <2>1
  <1>5. q = 0 \/ q = 1
    BY <1>3, <1>4
  <1>6. CASE q = 0
    BY <1>1, <1>2, <1>6
  <1>7. CASE q = 1
    BY <1>1, <1>2, <1>7
  <1> QED BY <1>5, <1>6, <1>7

\* The place, of n, of the j-th frame before the one at the next place s.
Back(j, n, s) == IF j <= s THEN s - j + 1 ELSE s + n - j + 1

\* The frames a .. b of w are to all targets.
Covers(w, t, a, b) == \A q \in 1 .. Len(t) : \E k \in a .. b : w[k] = t[q]

\* The last r frames went in turn to the r targets before s, and before them
\* comes a full burst, or nothing, or what the window no longer needs.
Turns(w, t, s, r) ==
    /\ \A j \in 1 .. r : w[Len(w) + 1 - j] = t[Back(j, Len(t), s)]
    /\ \/ r = Len(w) \/ r = Len(t)
       \/ Len(w) - r < Len(t)
       \/ Covers(w, t, Len(w) - r - Len(t) + 1, Len(w) - r)

InTurn(w, t, s) ==
    /\ \A k \in 1 .. Len(w) : w[k] \in Elements(t)
    /\ \E r \in 0 .. Len(t) : r <= Len(w) /\ Turns(w, t, s, r)

Burst(t, s, m) == [i \in 1 .. m |-> t[((s + (i - 1)) % Len(t)) + 1]]

LEMMA BurstFrames ==
    ASSUME NEW t \in Seq(Addresses), NEW s \in 0 .. Len(t) - 1, NEW m \in 0 .. Len(t)
    PROVE  /\ Burst(t, s, m) \in Seq(Addresses) /\ Len(Burst(t, s, m)) = m
           /\ \A i \in 1 .. m : Burst(t, s, m)[i] = t[IF s + i <= Len(t) THEN s + i
                                                      ELSE s + i - Len(t)]
           /\ \A i \in 1 .. m : Burst(t, s, m)[i] \in Elements(t)
  <1>1. PICK n \in Nat : n = Len(t)
    BY LenProperties
  <1>2. n # 0
    BY <1>1
  <1>3. ASSUME NEW i \in 1 .. m
        PROVE  /\ ((s + (i - 1)) % n) + 1 = IF s + i <= n THEN s + i ELSE s + i - n
               /\ ((s + (i - 1)) % n) + 1 \in 1 .. n
    <2> DEFINE x == s + (i - 1)
    <2>1. x \in 0 .. 2 * n - 1
      BY <1>1, <1>2
    <2> HIDE DEF x
    <2>2. x % n = IF x < n THEN x ELSE x - n
      BY <1>2, <2>1, SmallRemainder
    <2> QED BY <1>1, <1>2, <2>1, <2>2 DEF x
  <1>4. \A i \in 1 .. m : t[((s + (i - 1)) % n) + 1] \in Addresses \cap Elements(t)
    BY <1>1, <1>3, ElementOfSeq DEF Elements
  <1> DEFINE f == Burst(t, s, m)
  <1>5. f \in [1 .. m -> Addresses]
    BY <1>1, <1>4 DEF Burst
  <1>6. f \in Seq(Addresses) /\ Len(f) = m
    BY <1>1, <1>5
  <1>7. \A i \in 1 .. m : f[i] = t[((s + (i - 1)) % n) + 1]
    BY <1>1 DEF Burst
  <1> HIDE DEF f
  <1>8. \A i \in 1 .. m : f[i] = t[IF s + i <= n THEN s + i ELSE s + i - n] /\ f[i] \in Elements(t)
    BY <1>3, <1>4, <1>7
  <1> QED BY <1>1, <1>6, <1>8 DEF f

\* A burst keeps the turns: the next one begins with the first that missed out,
\* or anew.
LEMMA BurstKeepsTurns ==
    ASSUME NEW t \in Seq(Addresses), NEW s \in 0 .. Len(t) - 1, NEW m \in 0 .. Len(t),
           NEW w \in Seq(Addresses), InTurn(w, t, s)
    PROVE  InTurn(w \o Burst(t, s, m), t, IF m = Len(t) THEN 0 ELSE (s + m) % Len(t))
  <1> DEFINE f == Burst(t, s, m)
             c == w \o f
             p == IF m = Len(t) THEN 0 ELSE (s + m) % Len(t)
  <1>1. PICK n \in Nat : n = Len(t)
    BY LenProperties
  <1>2. PICK l \in Nat : l = Len(w)
    BY LenProperties
  <1>0. n # 0 /\ s \in 0 .. n - 1 /\ m \in 0 .. n
    BY <1>1
  <1>3. /\ f \in Seq(Addresses) /\ Len(f) = m
        /\ \A i \in 1 .. m : f[i] = t[IF s + i <= n THEN s + i ELSE s + i - n]
        /\ \A i \in 1 .. m : f[i] \in Elements(t)
    BY <1>1, BurstFrames, Zenon
  <1> HIDE DEF f
  <1>4. /\ c \in Seq(Addresses) /\ Len(c) = l + m
        /\ \A k \in 1 .. l + m : c[k] = IF k <= l THEN w[k] ELSE f[k - l]
    <2>1. /\ w \o f \in Seq(Addresses) /\ Len(w \o f) = Len(w) + Len(f)
          /\ \A k \in 1 .. Len(w) + Len(f) :
               (w \o f)[k] = IF k <= Len(w) THEN w[k] ELSE f[k - Len(w)]
      BY <1>3, ConcatProperties, Zenon
    <2> QED BY <1>2, <1>3, <2>1
  <1> HIDE DEF c
  <1>5. \A k \in 1 .. Len(c) : c[k] \in Elements(t)
    <2> SUFFICES ASSUME NEW k \in 1 .. l + m PROVE c[k] \in Elements(t)
      BY <1>4
    <2>1. CASE k <= l
      BY <1>2, <1>4, <2>1 DEF InTurn
    <2>2. CASE k > l
      <3>1. k - l \in 1 .. m
        BY <2>2
      <3> QED BY <1>3, <1>4, <2>2, <3>1
    <2> QED BY <2>1, <2>2
  <1>6. CASE m = n
    <2>1. Covers(c, t, l + m - 0 - n + 1, l + m - 0)
      <3> SUFFICES ASSUME NEW q \in 1 .. n PROVE \E k \in l + 1 .. l + m : c[k] = t[q]
        BY <1>1, <1>6 DEF Covers
      <3> DEFINE i == IF q > s THEN q - s ELSE q + n - s
      <3>1. i \in 1 .. m /\ (IF s + i <= n THEN s + i ELSE s + i - n) = q
        BY <1>1, <1>6
      <3> HIDE DEF i
      <3>2. l + i \in l + 1 .. l + m /\ ~(l + i <= l) /\ (l + i) - l = i
        BY <3>1
      <3>3. f[i] = t[q]
        BY <1>3, <3>1
      <3>4. c[l + i] = f[i]
        BY <1>4, <3>1, <3>2
      <3> QED BY <3>2, <3>3, <3>4
    <2>2. Turns(c, t, p, 0)
      BY <1>1, <1>4, <2>1 DEF Turns
    <2>3. 0 \in 0 .. Len(t) /\ 0 <= Len(c)
      BY <1>1, <1>4
    <2> QED BY <1>5, <2>2, <2>3 DEF InTurn, c, f
  <1>7. CASE m < n
    <2>1. p = IF s + m < n THEN s + m ELSE s + m - n
      <3>1. s + m \in 0 .. 2 * n - 1
        BY <1>1, <1>7
      <3>2. PICK x \in Nat : x = s + m
        OBVIOUS
      <3>3. x % n = IF x < n THEN x ELSE x - n
        BY <1>0, <3>1, <3>2, SmallRemainder
      <3> QED BY <1>0, <1>1, <1>7, <3>2, <3>3
    <2> HIDE DEF p
    <2>2. PICK r \in 0 .. n : r <= l /\ Turns(w, t, s, r)
      BY <1>1, <1>2 DEF InTurn
    <2> DEFINE z == IF r + m <= n THEN r + m ELSE n
    <2>3. z \in 0 .. n /\ z <= l + m
      BY <1>7, <2>2
    <2>4. ASSUME NEW j \in 1 .. z PROVE c[l + m + 1 - j] = t[Back(j, n, p)]
      <3>1. CASE j <= m
        <4>1. /\ l + m + 1 - j \in 1 .. l + m /\ ~(l + m + 1 - j <= l)
              /\ (l + m + 1 - j) - l = m + 1 - j /\ m + 1 - j \in 1 .. m
          BY <3>1
        <4>2. c[l + m + 1 - j] = f[m + 1 - j]
          BY <1>4, <4>1
        <4>3. (IF s + (m + 1 - j) <= n THEN s + (m + 1 - j) ELSE s + (m + 1 - j) - n)
                = Back(j, n, p)
          BY <1>1, <1>7, <2>1, <3>1 DEF Back
        <4> QED BY <1>3, <4>1, <4>2, <4>3
      <3>2. CASE j > m
        <4>1. /\ j - m \in 1 .. r /\ l + m + 1 - j = l + 1 - (j - m)
              /\ l + m + 1 - j \in 1 .. l /\ l + m + 1 - j \in 1 .. l + m
          BY <2>2, <3>2
        <4>2. c[l + m + 1 - j] = w[l + 1 - (j - m)]
          BY <1>4, <4>1
        <4>3. w[l + 1 - (j - m)] = t[Back(j - m, n, s)]
          BY <1>1, <1>2, <2>2, <4>1 DEF Turns
        <4>4. Back(j - m, n, s) = Back(j, n, p)
          BY <1>1, <1>7, <2>1, <3>2 DEF Back
        <4> QED BY <4>2, <4>3, <4>4
      <3> QED BY <3>1, <3>2
    <2>5. \/ z = l + m \/ z = n \/ l + m - z < n
          \/ Covers(c, t, l + m - z - n + 1, l + m - z)
      <3>1. CASE r + m <= n /\ l - r >= n /\ Covers(w, t, l - r - n + 1, l - r)
        <4>1. l + m - z = l - r /\ l + m - z - n + 1 = l - r - n + 1
          BY <3>1
        <4>2. \A k \in l - r - n + 1 .. l - r : c[k] = w[k]
          <5> SUFFICES ASSUME NEW k \in l - r - n + 1 .. l - r PROVE c[k] = w[k]
            OBVIOUS
          <5>1. k \in 1 .. l + m /\ k <= l
            BY <3>1
          <5> QED BY <1>4, <5>1
        <4>3. Covers(c, t, l - r - n + 1, l - r)
          BY <3>1, <4>2 DEF Covers
        <4> QED BY <4>1, <4>3
      <3>2. CASE ~(r + m <= n /\ l - r >= n /\ Covers(w, t, l - r - n + 1, l - r))
        <4>1. r = l \/ r = n \/ l - r < n \/ Covers(w, t, l - r - n + 1, l - r)
          BY <1>1, <1>2, <2>2 DEF Turns
        <4>2. r + m > n \/ r = l \/ r = n \/ l - r < n
          BY <1>7, <2>2, <3>2, <4>1
        <4>3. z = l + m \/ z = n \/ l + m - z < n
          BY <1>7, <2>2, <4>2
        <4> QED BY <4>3
      <3> QED BY <3>1, <3>2
    <2> HIDE DEF z
    <2>6. Turns(c, t, p, z)
      <3>1. Len(c) = l + m /\ Len(t) = n
        BY <1>1, <1>4
      <3>2. \A j \in 1 .. z : c[Len(c) + 1 - j] = t[Back(j, Len(t), p)]
        BY <2>4, <3>1, Zenon
      <3>3. \/ z = Len(c) \/ z = Len(t) \/ Len(c) - z < Len(t)
            \/ Covers(c, t, Len(c) - z - Len(t) + 1, Len(c) - z)
        <4>1. Len(c) - z - Len(t) + 1 = l + m - z - n + 1 /\ Len(c) - z = l + m - z
          BY <2>3, <3>1
        <4> QED BY <2>5, <3>1, <4>1, Zenon
      <3> QED BY <3>2, <3>3, Zenon DEF Turns
    <2>7. InTurn(c, t, p)
      BY <1>1, <1>4, <1>5, <2>3, <2>6 DEF InTurn
    <2> QED BY <2>7 DEF c, f, p
  <1> QED BY <1>1, <1>6, <1>7

\* So does forgetting the frames before the last 2 n - 1.
LEMMA TrimKeepsTurns ==
    ASSUME NEW t \in Seq(Addresses), t # <<>>, NEW s \in 0 .. Len(t) - 1,
           NEW c \in Seq(Addresses), InTurn(c, t, s), Len(c) > 2 * Len(t) - 1
    PROVE  LET v == SubSeq(c, Len(c) - (2 * Len(t) - 1) + 1, Len(c))
           IN /\ v \in Seq(Addresses) /\ Len(v) = 2 * Len(t) - 1 /\ InTurn(v, t, s)
  <1>1. PICK n \in Nat : n = Len(t)
    BY LenProperties
  <1>2. PICK l \in Nat : l = Len(c)
    BY LenProperties
  <1>3. n # 0 /\ l > 2 * n - 1
    BY <1>1, <1>2
  <1> DEFINE h == 2 * n - 1
             d == l - h
  <1>4. h \in Nat /\ n <= h /\ d \in Nat /\ d = l - h
    BY <1>3
  <1> DEFINE v == SubSeq(c, d + 1, l)
  <1>5. v = SubSeq(c, Len(c) - (2 * Len(t) - 1) + 1, Len(c))
    BY <1>1, <1>2
  <1> HIDE DEF h, d
  <1>6. /\ v \in Seq(Addresses) /\ Len(v) = h /\ l = d + h /\ h \in Nat /\ d \in Nat /\ n <= h
        /\ \A k \in 1 .. h : v[k] = c[d + k]
    <2>1. d + 1 \in 1 .. l + 1 /\ l \in d .. l
      BY <1>4
    <2>0. \A i \in d + 1 .. l : c[i] \in Addresses
      <3> SUFFICES ASSUME NEW i \in d + 1 .. l PROVE c[i] \in Addresses
        OBVIOUS
      <3>1. i \in 1 .. Len(c)
        BY <1>2, <1>4
      <3> QED BY <3>1, ElementOfSeq
    <2>2. /\ v \in Seq(Addresses)
          /\ Len(v) = IF d + 1 <= l THEN l - (d + 1) + 1 ELSE 0
          /\ \A k \in 1 .. l - (d + 1) + 1 : v[k] = c[d + 1 + k - 1]
      BY <1>4, <2>0, SubSeqProperties DEF v
    <2> QED BY <1>4, <2>2
  <1> HIDE DEF v
  <1>7. \A k \in 1 .. Len(v) : v[k] \in Elements(t)
    <2> SUFFICES ASSUME NEW k \in 1 .. h PROVE v[k] \in Elements(t)
      BY <1>6
    <2>1. d + k \in 1 .. l
      BY <1>6
    <2> QED BY <1>2, <1>6, <2>1 DEF InTurn
  <1>8. PICK r \in 0 .. n : r <= l /\ Turns(c, t, s, r)
    BY <1>1, <1>2 DEF InTurn
  <1>9. r <= h
    BY <1>6
  <1>10. ASSUME NEW j \in 1 .. r PROVE v[h + 1 - j] = t[Back(j, n, s)]
    <2>1. h + 1 - j \in 1 .. h /\ d + (h + 1 - j) = l + 1 - j
      BY <1>6, <1>9
    <2>2. c[l + 1 - j] = t[Back(j, n, s)]
      BY <1>1, <1>2, <1>8 DEF Turns
    <2> QED BY <1>6, <2>1, <2>2
  <1>11. r = h \/ r = n \/ h - r < n \/ Covers(v, t, h - r - n + 1, h - r)
    <2>1. CASE h - r >= n /\ Covers(c, t, l - r - n + 1, l - r)
      <3> SUFFICES ASSUME NEW q \in 1 .. n
                   PROVE  \E k \in h - r - n + 1 .. h - r : v[k] = t[q]
        BY <1>1 DEF Covers
      <3>1. PICK k \in l - r - n + 1 .. l - r : c[k] = t[q]
        BY <1>1, <2>1 DEF Covers
      <3>2. k - d \in h - r - n + 1 .. h - r /\ k - d \in 1 .. h /\ d + (k - d) = k
        BY <1>6, <1>9, <2>1
      <3>3. v[k - d] = t[q]
        BY <1>6, <3>1, <3>2
      <3> QED BY <3>2, <3>3
    <2>2. CASE ~(h - r >= n /\ Covers(c, t, l - r - n + 1, l - r))
      <3>1. r = l \/ r = n \/ l - r < n \/ Covers(c, t, l - r - n + 1, l - r)
        BY <1>1, <1>2, <1>8 DEF Turns
      <3> QED BY <1>6, <1>9, <2>2, <3>1
    <2> QED BY <2>1, <2>2
  <1>12. Turns(v, t, s, r)
    BY <1>1, <1>6, <1>10, <1>11 DEF Turns
  <1>13. InTurn(v, t, s)
    BY <1>1, <1>6, <1>7, <1>9, <1>12 DEF InTurn
  <1>14. h = 2 * Len(t) - 1
    BY <1>1 DEF h
  <1> QED BY <1>5, <1>6, <1>13, <1>14

LEMMA FullWindowCovers ==
    ASSUME NEW t \in Seq(Addresses), t # <<>>, NEW s \in 0 .. Len(t) - 1,
           NEW w \in Seq(Addresses), InTurn(w, t, s), Len(w) = 2 * Len(t) - 1
    PROVE  Elements(w) = Elements(t)
  <1>1. PICK n \in Nat : n = Len(t)
    BY LenProperties
  <1>2. n # 0
    BY <1>1
  <1>3. PICK l \in Nat : l = Len(w) /\ l = 2 * n - 1
    BY <1>1, LenProperties
  <1>4. \A k \in 1 .. l : w[k] \in Elements(t)
    BY <1>3 DEF InTurn
  <1>5. PICK r \in 0 .. n : r <= l /\ Turns(w, t, s, r)
    BY <1>1, <1>3 DEF InTurn
  <1>6. ASSUME NEW q \in 1 .. n PROVE \E k \in 1 .. l : w[k] = t[q]
    <2>1. CASE r = n
      <3> DEFINE j == IF q <= s THEN s + 1 - q ELSE s + n + 1 - q
      <3>1. j \in 1 .. n /\ Back(j, n, s) = q
        BY <1>1 DEF Back
      <3> HIDE DEF j
      <3>2. w[l + 1 - j] = t[q]
        BY <1>1, <1>3, <1>5, <2>1, <3>1 DEF Turns
      <3>3. l + 1 - j \in 1 .. l
        BY <1>2, <1>3, <3>1
      <3> QED BY <3>2, <3>3
    <2>2. CASE r # n
      <3>1. r # l /\ ~(l - r < n)
        BY <1>2, <1>3, <2>2
      <3>2. Covers(w, t, l - r - n + 1, l - r)
        BY <1>1, <1>3, <1>5, <2>2, <3>1 DEF Turns
      <3>3. PICK k \in l - r - n + 1 .. l - r : w[k] = t[q]
        BY <1>1, <3>2 DEF Covers
      <3>4. k \in 1 .. l
        BY <3>1
      <3> QED BY <3>3, <3>4
    <2> QED BY <2>1, <2>2
  <1> QED BY <1>1, <1>3, <1>4, <1>6 DEF Elements

\* A flood begins with an empty window and, in bursts, keeps its turns.
TurnInv ==
    /\ phase # "flood" => window = <<>>
    /\ phase = "flood" /\ config.burst =>
          /\ window \in Seq(Addresses) /\ Len(window) <= 2 * Len(targets) - 1
          /\ InTurn(window, targets, next)

LEMMA EmptyInTurn ==
    ASSUME NEW t \in Seq(Addresses), t # <<>>, NEW s
    PROVE  /\ <<>> \in Seq(Addresses) /\ Len(<<>>) <= 2 * Len(t) - 1
           /\ InTurn(<<>>, t, s)
  <1>1. PICK n \in Nat : n = Len(t)
    BY LenProperties
  <1>2. n # 0 /\ Len(<<>>) = 0 /\ <<>> \in Seq(Addresses)
    BY <1>1, EmptySeq
  <1>3. Turns(<<>>, t, s, 0)
    BY <1>2 DEF Turns
  <1>4. 0 \in 0 .. Len(t) /\ 0 <= Len(<<>>) /\ Len(<<>>) <= 2 * Len(t) - 1
    BY <1>1, <1>2
  <1>5. \A k \in 1 .. Len(<<>>) : <<>>[k] \in Elements(t)
    BY <1>2
  <1> QED BY <1>2, <1>3, <1>4, <1>5 DEF InTurn

\* One wake-up with a burst due, and a refresh perhaps.
LEMMA BurstTurns ==
    ASSUME Typed, Typed', TurnInv, NEW m \in 0 .. MaxClients, NEW refresh \in BOOLEAN,
           BurstWake(m, refresh)
    PROVE  TurnInv'
  <1> DEFINE n == Len(targets)
             place == IF m = n THEN 0 ELSE (next + m) % n
             frames == [i \in 1 .. m |-> At(i - 1)]
  <1>1. /\ phase = "flood" /\ config.burst /\ m <= n /\ phase' = phase /\ config' = config
        /\ IF refresh THEN Refresh(place, frames) ELSE Go(place, frames)
    BY DEF BurstWake
  <1>2. /\ targets \in Seq(Addresses) /\ n \in Nat /\ next \in 0 .. n - 1
        /\ window \in Seq(Addresses) /\ Len(window) <= 2 * n - 1 /\ InTurn(window, targets, next)
    BY <1>1, LenProperties DEF Typed, TypeOK, TurnInv
  <1>3. frames = Burst(targets, next, m)
    BY DEF Burst, At
  <1>4. m \in 0 .. n /\ targets # <<>>
    BY <1>1, <1>2, EmptySeq
  <1> DEFINE w == window \o frames
  <1>5. w \in Seq(Addresses) /\ Len(w) \in Nat /\ InTurn(w, targets, place)
    <2>1. frames \in Seq(Addresses)
      <3>1. Burst(targets, next, m) \in Seq(Addresses)
        BY <1>2, <1>4, BurstFrames
      <3> QED BY <1>3, <3>1, Zenon
    <2>2. InTurn(w, targets, place)
      BY <1>2, <1>3, <1>4, BurstKeepsTurns
    <2> HIDE DEF frames
    <2> QED BY <1>2, <2>1, <2>2, ConcatProperties, LenProperties
  <1>6. CASE targets' = leases /\ leases # <<>> /\ window' = <<>>
    <2>1. targets' \in Seq(Addresses) /\ targets' # <<>>
      BY <1>6 DEF Typed, TypeOK
    <2> QED BY <1>1, <1>6, <2>1, EmptyInTurn DEF TurnInv
  <1>7. CASE targets' = targets /\ next' = place /\ window' = Window(frames)
    <2>1. next' \in 0 .. n - 1
      BY <1>1, <1>7 DEF Typed, TypeOK
    <2>2. Window(frames) = IF Len(w) <= 2 * n - 1 THEN w
                           ELSE SubSeq(w, Len(w) - (2 * n - 1) + 1, Len(w))
      BY DEF Window
    <2> HIDE DEF w, place, frames
    <2>3. CASE Len(w) <= 2 * n - 1
      BY <1>1, <1>5, <1>7, <2>2, <2>3 DEF TurnInv
    <2>4. CASE ~(Len(w) <= 2 * n - 1)
      <3>1. Len(w) > 2 * n - 1
        BY <1>2, <1>5, <2>4
      <3>2. place \in 0 .. n - 1
        BY <1>7, <2>1
      <3>3. /\ window' \in Seq(Addresses) /\ Len(window') = 2 * n - 1
            /\ InTurn(window', targets, place)
        BY <1>2, <1>4, <1>5, <1>7, <2>2, <2>4, <3>1, <3>2, TrimKeepsTurns
      <3>4. Len(window') <= 2 * n - 1
        BY <1>2, <3>3
      <3> QED BY <1>1, <1>7, <3>3, <3>4 DEF TurnInv
    <2> QED BY <2>3, <2>4
  <1> HIDE DEF place, frames
  <1> QED BY <1>1, <1>6, <1>7 DEF Refresh, Go

LEMMA NextTurns == Typed /\ Typed' /\ TurnInv /\ [Next]_vars => TurnInv'
  <1> SUFFICES ASSUME Typed, Typed', TurnInv, [Next]_vars PROVE TurnInv'
    OBVIOUS
  <1>1. ASSUME NEW c \in Configs, Start(c) PROVE TurnInv'
    BY <1>1 DEF Start, TurnInv
  <1>2. CASE Stop
    BY <1>2 DEF Stop, TurnInv
  <1>3. ASSUME UNCHANGED <<config, flood>> PROVE TurnInv'
    BY <1>3 DEF flood, TurnInv
  <1>4. CASE Settle \/ Gather
    <2>1. window' = <<>> /\ config' = config
      BY <1>4 DEF Settle, Gather, TurnInv
    <2>2. phase' = "flood" => targets' \in Seq(Addresses) /\ targets' # <<>>
      <3>1. phase' = "flood" => next' \in 0 .. Len(targets') - 1 /\ targets' \in Seq(Addresses)
        BY DEF Typed, TypeOK
      <3> QED BY <3>1, EmptySeq
    <2> QED BY <2>1, <2>2, EmptyInTurn DEF TurnInv
  <1>5. ASSUME NEW sent \in 0 .. MaxBurst, NEW refresh \in BOOLEAN, MultiWake(sent, refresh)
        PROVE  TurnInv'
    BY <1>5 DEF MultiWake, TurnInv
  <1>6. ASSUME NEW m \in Stations, Associate(m) \/ Leave(m) PROVE TurnInv'
    BY <1>3, <1>6 DEF Associate, Leave
  <1>7. ASSUME NEW m \in Stations, NEW reply \in {"offer", "ack"}, Serve(m, reply) PROVE TurnInv'
    BY <1>3, <1>7 DEF Serve
  <1>8. CASE UNCHANGED vars
    BY <1>3, <1>8 DEF vars
  <1> QED BY <1>1, <1>2, <1>4, <1>5, <1>6, <1>7, <1>8, BurstTurns DEF Next, Wake

\* Among 2 N - 1 consecutive frames of a burst flood each of N targets gets one,
\* for any number of targets, however often the buffer fills (burst_start).
THEOREM BurstsStayFair == Spec => []BurstsAreFair
  <1>1. Init => Typed /\ TurnInv
    <2>1. Init => Typed
      BY EmptySeq DEF Init, Typed, TypeOK, Running
    <2>2. Init => TurnInv
      BY DEF Init, TurnInv
    <2> QED BY <2>1, <2>2
  <1>2. ASSUME Typed, TurnInv PROVE BurstsAreFair
    <2> SUFFICES ASSUME phase = "flood", config.burst, Len(window) = 2 * Len(targets) - 1
                 PROVE  Elements(window) = Elements(targets)
      BY DEF BurstsAreFair
    <2>1. /\ targets \in Seq(Addresses) /\ next \in 0 .. Len(targets) - 1
          /\ window \in Seq(Addresses) /\ InTurn(window, targets, next)
      BY <1>2 DEF Typed, TypeOK, TurnInv
    <2>2. targets # <<>>
      BY <2>1, EmptySeq
    <2> QED BY <2>1, <2>2, FullWindowCovers
  <1>3. Typed /\ TurnInv /\ [Next]_vars => Typed' /\ TurnInv'
    BY NextTyped, NextTurns
  <1> QED BY <1>1, <1>2, <1>3, PTL DEF Spec
=============================================================================
