---------------------------- MODULE MCEspNowLink ----------------------------
(* Small instances of EspNowLink for TLC. *)
EXTENDS EspNowLink

CONSTANTS ini, res

MCInitiators == {ini}
MCOneResponder == {res}

MCConfig(peer, reports, tx) ==
    [peer |-> peer, reports |-> reports, rx |-> TRUE, tx |-> tx, unicast |-> FALSE]

\* The initiator reports or not, and is paired automatically, or is silent and
\* paired by hand; the responder does not report, and is paired automatically,
\* with or without the TX task, or by hand, without it.
MCConfigs ==
    [n \in {ini, res} |->
        IF n = ini
        THEN {MCConfig(Anyone, b, TRUE) : b \in BOOLEAN} \cup {MCConfig(res, FALSE, TRUE)}
        ELSE {MCConfig(Anyone, FALSE, b) : b \in BOOLEAN} \cup {MCConfig(ini, FALSE, FALSE)}]

\* Automatic pairing with every I/O task.
MCAutomatic == [n \in {ini, res} |-> {MCConfig(Anyone, TRUE, TRUE)}]
=============================================================================
