----------------------------- MODULE MCCsiQueue -----------------------------
(* A small instance of CsiQueue for TLC. *)
EXTENDS CsiQueue

CONSTANT wifi

\* The Wi-Fi callback alone.
MCOneProducer == {wifi}
=============================================================================
