----------------------------- MODULE MCApLeases -----------------------------
(* Small instances of ApLeases for TLC. *)
EXTENDS ApLeases

CONSTANTS s1, s2, s3, a1, a2, a3, a4

MCStations == {s1, s2, s3}
MCAddresses == {a1, a2, a3, a4}

MCConfig(pool, dhcp, burst) == [pool |-> pool, dhcp |-> dhcp, burst |-> burst]

\* Overlapping pools and a pool of one address, with one address more than the
\* registry holds, so that a run finds it full of what earlier runs handed out;
\* every way to flood; an access point without DHCP.
MCConfigs ==
    {MCConfig(<<a1, a2>>, TRUE, b) : b \in BOOLEAN} \cup
    {MCConfig(<<a2, a3>>, TRUE, FALSE), MCConfig(<<a4>>, TRUE, FALSE),
     MCConfig(<<a4, a3, a1>>, FALSE, TRUE)}

\* Two leases, one at a time.
MCRoundRobin == {MCConfig(<<a1, a2>>, TRUE, FALSE)}
=============================================================================
