--------------------------- MODULE MCCsiDelivery ---------------------------
(* Small instances of CsiDelivery for TLC. *)
EXTENDS CsiDelivery

CONSTANT cb1

MCCallbacks == {cb1}

\* Every call, except selecting the mode `callback' by hand.
MCAppCalls == ApiCalls \ {[fn |-> "set_csi_delivery_mode", arg |-> "callback"]}

\* A user callback that hands later frames to another path, or moves an input
\* of the gate: with set_csi_output_enabled or set_reporting.
MCCallbackCalls ==
    [fn : {"set_csi_delivery_mode"}, arg : {"async"}]
    \cup [fn : {"set_csi_output_enabled"}, arg : {FALSE}]
    \cup [fn : {"set_runtime_reporting"}, arg : {"none"}]
=============================================================================
