----------------------------- MODULE WireLayout -----------------------------
(***************************************************************************)
(* What a measured buffer means: the classification of wire/layout.rs, the  *)
(* receive metadata csi/esp.rs fills in beside it, and the header digest of *)
(* wire/mod.rs.  A training field's subcarriers are a set of indices; their *)
(* order in the buffer, and the fields that are only copied, are left out.  *)
(*                                                                          *)
(* The machine reads one buffer and one header after the other.             *)
(***************************************************************************)
EXTENDS Integers, Sequences, FiniteSets

CONSTANTS
    Lengths,      \* the buffer lengths tried
    HeaderLengths \* the header lengths tried

ASSUME LengthsAssumption == Lengths \subseteq Nat
ASSUME HeaderLengthsAssumption == HeaderLengths \subseteq Nat

MaxCsiBytes == 612

Chips == {"classic", "c5", "c6"}
Sides == {"none", "above", "below"}

VARIABLES
    heardInfo,  \* what the radio reports with the buffer
    builtFrame, \* what frame_from_esp makes of it
    macHeader,  \* the MAC header: its length and frame control
    digest      \* what HeaderDigest::parse makes of it

layoutVars == <<heardInfo, builtFrame, macHeader, digest>>

-----------------------------------------------------------------------------
(* The tables: the training fields of each layout. *)

Unknown == [mac |-> "unknown", side |-> "none", kind |-> "unknown"]

Layout(mac, side, kind) == [mac |-> mac, side |-> side, kind |-> kind]

\* The legacy field covers the primary 20 MHz.
ClassicLltf(side) ==
    CASE side = "none"  -> -32 .. 31
      [] side = "below" -> 0 .. 63
      [] side = "above" -> -64 .. -1

\* With STBC the HT fields of a 20 MHz PPDU on a 40 MHz channel are shorter.
ClassicStbc(side) ==
    CASE side = "none"  -> -32 .. 31
      [] side = "below" -> 0 .. 62
      [] side = "above" -> -62 .. -1

ClassicSegments(side, kind) ==
    LET lltf == ClassicLltf(side)
    IN CASE kind = "nonht"    -> <<lltf>>
         [] kind = "ht20"     -> <<lltf, lltf>>
         [] kind = "ht20stbc" -> <<lltf, ClassicStbc(side), ClassicStbc(side)>>
         [] kind = "ht40"     -> <<lltf, -64 .. 63>>
         [] kind = "ht40stbc" -> <<lltf, -60 .. 60, -60 .. 60>>

\* The C5 reports one field, twice with STBC.
C5Segments(side, kind) ==
    LET lltf == CASE side = "none"  -> -26 .. 26
                  [] side = "below" -> 0 .. 52
                  [] side = "above" -> -53 .. -1
        ht20 == CASE side = "none"  -> -28 .. 28
                  [] side = "below" -> 0 .. 56
                  [] side = "above" -> -57 .. -1
    IN CASE kind = "lltf"     -> <<lltf>>
         [] kind = "ht20"     -> <<ht20>>
         [] kind = "ht20stbc" -> <<ht20, ht20>>
         [] kind = "ht40"     -> <<-58 .. 58>>
         [] kind = "ht40stbc" -> <<-58 .. 58, -58 .. 58>>
         [] kind = "he20"     -> <<-122 .. 122>>

Segments(id) ==
    CASE id.mac = "classic" -> ClassicSegments(id.side, id.kind)
      [] id.mac = "c5"      -> C5Segments(id.side, id.kind)
      [] OTHER              -> <<>>

\* Two bytes a subcarrier; no layout has more than three fields.
ByteLen(id) ==
    LET fields == Segments(id)
        Width(k) == IF k <= Len(fields) THEN Cardinality(fields[k]) ELSE 0
    IN 2 * (Width(1) + Width(2) + Width(3))

Checked(id, len) == IF id # Unknown /\ ByteLen(id) = len THEN id ELSE Unknown

-----------------------------------------------------------------------------
(* The classification, and the metadata beside it. *)

\* Mutant: the codes of the secondary channel are swapped.
ClassifyClassicSwapped(i) ==
    LET side == CASE i.side = "none" -> "none" [] i.side = "above" -> "below"
                  [] i.side = "below" -> "above"
    IN IF i.sigMode = 0 THEN Checked(Layout("classic", side, "nonht"), i.len)
       ELSE IF i.sigMode # 1 \/ (i.forty /\ side = "none") THEN Unknown
       ELSE Checked(Layout("classic", side,
                CASE ~i.forty /\ ~i.stbc -> "ht20"
                  [] ~i.forty /\ i.stbc  -> "ht20stbc"
                  [] i.forty /\ ~i.stbc  -> "ht40"
                  [] i.forty /\ i.stbc   -> "ht40stbc"), i.len)

\* classify_classic: a 40 MHz PPDU needs a secondary channel.
ClassifyClassic(i) ==
    IF i.sigMode = 0 THEN Checked(Layout("classic", i.side, "nonht"), i.len)
    ELSE IF i.sigMode # 1 \/ (i.forty /\ i.side = "none") THEN Unknown
    ELSE Checked(Layout("classic", i.side,
             CASE ~i.forty /\ ~i.stbc -> "ht20"
               [] ~i.forty /\ i.stbc  -> "ht20stbc"
               [] i.forty /\ ~i.stbc  -> "ht40"
               [] i.forty /\ i.stbc   -> "ht40stbc"), i.len)

\* classify_c5: the length tells bandwidth and STBC.  HT40 has one layout
\* whichever side the secondary channel is.
ClassifyC5(i) ==
    LET ht == i.bb = 2 \/ (i.bb = 3 /\ i.side = "none")
    IN CASE i.len = 106 -> Layout("c5", i.side, "lltf")
         [] i.len = 114 /\ ht -> Layout("c5", i.side, "ht20")
         [] i.len = 228 /\ ht -> Layout("c5", i.side, "ht20stbc")
         [] i.len = 234 /\ i.bb = 2 /\ i.side # "none" -> Layout("c5", "none", "ht40")
         [] i.len = 468 /\ i.bb = 2 /\ i.side # "none" -> Layout("c5", "none", "ht40stbc")
         [] i.len = 490 /\ i.bb = 4 /\ i.side = "none" -> Layout("c5", "none", "he20")
         [] OTHER -> Unknown

ClassicMeta(i) ==
    LET ppdu == CASE i.sigMode = 0 -> IF i.rate < 8 THEN "dsss" ELSE "nonht"
                  [] i.sigMode = 1 -> "ht"
                  [] i.sigMode = 3 -> "vht"
                  [] OTHER -> "unknown"
    IN [layout    |-> ClassifyClassic(i),
        ppdu      |-> ppdu,
        bandwidth |-> IF i.forty THEN 40 ELSE 20,
        stbc      |-> IF i.stbc THEN "yes" ELSE "no"]

\* The newer MAC reports neither: both follow from the layout, where it is known.
\* 0 and "?" stand for None.
HeWidth(layout, ppdu, side) ==
    LET kind == layout.kind
    IN CASE kind = "ht40"     -> <<40, "no">>
         [] kind = "ht40stbc" -> <<40, "yes">>
         [] kind = "ht20stbc" -> <<20, "yes">>
         [] kind = "lltf"     -> <<20, "?">>
         [] kind = "unknown"  -> IF ppdu = "he" \/ side = "none" THEN <<20, "?">> ELSE <<0, "?">>
         [] OTHER -> <<20, "no">>

HeMeta(i) ==
    LET ppdu == CASE i.bb = 0 -> "dsss"
                  [] i.bb = 1 -> "nonht"
                  [] i.bb = 2 -> "ht"
                  [] i.bb \in {3, 11} -> "vht"
                  [] i.bb \in 4 .. 7 -> "he"
                  [] OTHER -> "unknown"
        layout == IF i.chip = "c5" THEN ClassifyC5(i) ELSE Unknown
        width == HeWidth(layout, ppdu, i.side)
    IN [layout |-> layout, ppdu |-> ppdu, bandwidth |-> width[1], stbc |-> width[2]]

NoMeta == [layout |-> Unknown, ppdu |-> "none", bandwidth |-> 0, stbc |-> "?"]

\* A buffer longer than a packet carries makes no frame.
FrameFromEsp(i) ==
    IF i.len > MaxCsiBytes THEN NoMeta
    ELSE IF i.chip = "classic" THEN ClassicMeta(i) ELSE HeMeta(i)

-----------------------------------------------------------------------------
(* The header digest. *)

\* The frame control field of a type, subtype and retry bit.
FrameControl(type, subtype, retry, ds) ==
    4 * type + 16 * subtype + 256 * ds + (IF retry THEN 2048 ELSE 0)

NoDigest == [type |-> 9, subtype |-> 0, retry |-> FALSE]

\* HeaderDigest::parse: a short header, an ACK and a CTS have no digest.
ParseHeader(h) ==
    LET parsed == [type    |-> (h.control \div 4) % 4,
                   subtype |-> (h.control \div 16) % 16,
                   retry   |-> (h.control \div 2048) % 2 = 1]
    IN IF h.len < 24 \/ (parsed.type = 1 /\ parsed.subtype \in {12, 13}) THEN NoDigest ELSE parsed

-----------------------------------------------------------------------------
(* The machine. *)

ClassicInfos ==
    [chip : {"classic"}, side : Sides, sigMode : 0 .. 3, forty : BOOLEAN, stbc : BOOLEAN,
     rate : {0, 8}, bb : {0}, len : Lengths]

HeInfos ==
    [chip : {"c5", "c6"}, side : Sides, sigMode : {0}, forty : {FALSE}, stbc : {FALSE},
     rate : {0}, bb : 0 .. 8 \cup {11}, len : Lengths]

Headers == [type : 0 .. 3, subtype : 0 .. 15, retry : BOOLEAN, ds : 0 .. 3, len : HeaderLengths]

NoInfo == [chip |-> "c6", side |-> "none", sigMode |-> 0, forty |-> FALSE, stbc |-> FALSE,
           rate |-> 0, bb |-> 0, len |-> 0]
NoHeader == [sent |-> NoDigest, control |-> 0, len |-> 0]

LayoutInit ==
    /\ heardInfo = NoInfo /\ builtFrame = NoMeta
    /\ macHeader = NoHeader /\ digest = NoDigest

\* One buffer or one header is read: they do not depend on each other.
Unread == heardInfo = NoInfo /\ macHeader = NoHeader

ReadBuffer(i) ==
    /\ Unread
    /\ heardInfo' = i
    /\ builtFrame' = FrameFromEsp(i)
    /\ UNCHANGED <<macHeader, digest>>

ReadHeader(h) ==
    /\ Unread
    /\ macHeader' = [sent    |-> [type |-> h.type, subtype |-> h.subtype, retry |-> h.retry],
                     control |-> FrameControl(h.type, h.subtype, h.retry, h.ds),
                     len     |-> h.len]
    /\ digest' = ParseHeader(macHeader')
    /\ UNCHANGED <<heardInfo, builtFrame>>

LayoutNext ==
    \/ \E i \in ClassicInfos \cup HeInfos : ReadBuffer(i)
    \/ \E h \in Headers : ReadHeader(h)

LayoutSpec == LayoutInit /\ [][LayoutNext]_layoutVars

-----------------------------------------------------------------------------
(* Types and properties. *)

LayoutTypeOK ==
    /\ heardInfo \in ClassicInfos \cup HeInfos \cup {NoInfo}
    /\ builtFrame.layout.side \in Sides
    /\ builtFrame.bandwidth \in {0, 20, 40} /\ builtFrame.stbc \in {"yes", "no", "?"}
    /\ digest \in [type : 0 .. 3, subtype : 0 .. 15, retry : BOOLEAN] \cup {NoDigest}

\* "shorter buffer ... classifies as Unknown rather than being mapped wrongly"
\* (wire/layout.rs:15): a classified buffer holds exactly the pairs of its
\* layout's subcarriers, and its legacy field, on a 40 MHz channel, lies on the
\* side away from the secondary channel that was reported.
LayoutsMatchBuffers ==
    LET id == builtFrame.layout
        first == Segments(id)[1]
    IN id # Unknown =>
          /\ ByteLen(id) = heardInfo.len
          /\ heardInfo.len <= MaxCsiBytes
          /\ id.kind \in {"nonht", "ht20", "ht20stbc", "lltf"} =>
                /\ heardInfo.side = "above" => \A k \in first : k < 0
                /\ heardInfo.side = "below" => \A k \in first : k >= 0
                /\ heardInfo.side = "none"  => \E k \in first : k < 0

\* What the metadata states of bandwidth and STBC is what the layout says; where
\* a legacy field, or nothing, is known of the PPDU, the newer MAC states no STBC
\* (csi/esp.rs:166): "an absent value is None rather than a guess".
MetadataAgrees ==
    LET kind == builtFrame.layout.kind
    IN /\ kind \in {"ht40", "ht40stbc"} => builtFrame.bandwidth = 40
       /\ kind \in {"ht20", "ht20stbc", "he20"} => builtFrame.bandwidth = 20
       /\ kind \in {"ht20stbc", "ht40stbc"} => builtFrame.stbc = "yes"
       /\ kind \in {"ht20", "ht40"} => builtFrame.stbc = "no"
       /\ (kind \in {"lltf", "unknown"} /\ heardInfo.chip # "classic") => builtFrame.stbc = "?"

\* A digest repeats the type, subtype and retry bit that were sent, and none is
\* made of a frame without a transmitter (HeaderDigest, wire/mod.rs:344).
DigestsAreTrue ==
    digest # NoDigest =>
        /\ digest = macHeader.sent
        /\ ~(digest.type = 1 /\ digest.subtype \in {12, 13})

\* Whatever the radio reports and however short a header is, what is stated of
\* a measurement is what was measured, or is left out (frame_from_esp,
\* csi/esp.rs:40; HeaderDigest::parse, wire/mod.rs:344).
BuffersAreReadRight == LayoutsMatchBuffers /\ MetadataAgrees /\ DigestsAreTrue
=============================================================================
