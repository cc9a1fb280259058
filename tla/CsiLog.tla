------------------------------- MODULE CsiLog -------------------------------
(***************************************************************************)
(* The logging back end of logging/logging.rs: what becomes of the CSI      *)
(* packets and of the text messages on the one link they share.             *)
(*                                                                          *)
(* The asynchronous back end queues both and one task, logger_backend,      *)
(* writes them.  The inline back end writes packets in the CSI callback,    *)
(* which preempts the tasks, and text where it is logged.  set_log_mode()   *)
(* may change the format at any time.  In the serialized format the host    *)
(* splits the stream at a delimiter, and a packet merged with other bytes   *)
(* is lost to it.  What a row says, and the drop counters, are left out.    *)
(***************************************************************************)
EXTENDS Naturals

CONSTANTS
    CsiCapacity, \* CSI_LOG_CHANNEL_CAPACITY (32)
    TextCapacity \* TEXT_LOG_CHANNEL_CAPACITY (64)

ASSUME CsiCapacityAssumption == CsiCapacity \in Nat \ {0}
ASSUME TextCapacityAssumption == TextCapacity \in Nat \ {0}

LogModes == {"text", "serialized", "array", "tool"}

VARIABLES
    asyncActive,   \* ASYNC_LOG_ACTIVE
    logMode,       \* LOG_MODE
    headerPrinted, \* ESP_CSI_TOOL_HEADER_PRINTED
    csiChannel,    \* packets in CSI_CHANNEL
    textChannel,   \* messages in LOG_CHANNEL
    waiting,       \* the place in LOG_CHANNEL of a message watched, 0 for none
    drainPc,       \* where logger_backend is, or the format it writes a packet in
    writePc,       \* the CSI callback: idle, or the format it writes a packet in
    linePc,        \* log_line, inline: idle, text or close
    setPc,         \* set_log_mode: idle, or between its two stores
    unread,        \* what follows the link's last delimiter
    format,        \* the format of the link's last packet or header
    headless,      \* history: a CSI-tool row came without the header of its kind
    raced,         \* history: the callback ran between set_log_mode's stores
    spoiled        \* history: a packet was merged with a text message

linkVars == <<unread, format, headless, spoiled>>
queueVars == <<csiChannel, textChannel, waiting>>
logPcs == <<drainPc, writePc, linePc, setPc>>
logVars == <<asyncActive, logMode, headerPrinted, queueVars, logPcs, linkVars, raced>>

-----------------------------------------------------------------------------
(* The link. *)

\* A row of a text format.
PutRow(f) ==
    /\ unread' = "rows"
    /\ format' = f
    /\ headless' = (headless \/ (f = "tool" /\ format # "tool"))
    /\ UNCHANGED spoiled

\* A packet's frames end in a delimiter each; the first takes along what is unread.
PutPacket ==
    /\ unread' = "nothing"
    /\ format' = "serialized"
    /\ spoiled' = (spoiled \/ unread = "message")
    /\ UNCHANGED headless

PutHeader ==
    /\ unread' = "rows"
    /\ format' = "tool"
    /\ UNCHANGED <<headless, spoiled>>

\* Text outside the serialized format is like any row to the host.
PutText ==
    /\ unread' = IF logMode = "serialized" THEN "message" ELSE "rows"
    /\ UNCHANGED <<format, headless, spoiled>>

-----------------------------------------------------------------------------
(* init_logger() and set_log_mode(). *)

\* What init_logger leaves, in whichever back end the transport asks for.
LogInit ==
    /\ asyncActive \in BOOLEAN
    /\ logMode \in LogModes
    /\ headerPrinted = FALSE
    /\ csiChannel = 0 /\ textChannel = 0 /\ waiting = 0
    /\ drainPc = "select" /\ writePc = "idle" /\ linePc = "idle" /\ setPc = "idle"
    /\ unread = "nothing" /\ format = "none"
    /\ headless = FALSE /\ raced = FALSE /\ spoiled = FALSE

\* Mutant: the header is announced once and for all.
SetLogModeKeepsHeader(mode) ==
    /\ asyncActive
    /\ logMode' = mode
    /\ UNCHANGED <<asyncActive, headerPrinted, queueVars, logPcs, linkVars, raced>>

\* Asynchronous: logger_backend runs on the same executor, so nothing comes
\* between the two stores.
SetLogMode(mode) ==
    /\ asyncActive
    /\ logMode' = mode
    /\ headerPrinted' = FALSE
    /\ UNCHANGED <<asyncActive, queueVars, logPcs, linkVars, raced>>

\* Inline: the callback may.
StoreLogMode(mode) ==
    /\ ~asyncActive
    /\ setPc = "idle" /\ linePc = "idle"
    /\ logMode' = mode
    /\ setPc' = "header"
    /\ raced' = (raced \/ writePc # "idle")
    /\ UNCHANGED <<asyncActive, headerPrinted, queueVars, drainPc, writePc, linePc, linkVars>>

ForgetHeader ==
    /\ setPc = "header"
    /\ headerPrinted' = FALSE
    /\ setPc' = "idle"
    /\ UNCHANGED <<asyncActive, logMode, queueVars, drainPc, writePc, linePc, linkVars, raced>>

-----------------------------------------------------------------------------
(* log_csi(), in the CSI callback. *)

callbackRest == <<asyncActive, logMode, drainPc, linePc, setPc, textChannel, waiting>>

\* Asynchronous: the packet is queued, or dropped and counted.
QueueCsi ==
    /\ asyncActive
    /\ csiChannel' = IF csiChannel < CsiCapacity THEN csiChannel + 1 ELSE csiChannel
    /\ UNCHANGED <<callbackRest, headerPrinted, writePc, linkVars, raced>>

\* Inline: the format is loaded.
BeginInline ==
    /\ ~asyncActive
    /\ writePc = "idle"
    /\ writePc' = logMode
    /\ raced' = (raced \/ setPc # "idle")
    /\ UNCHANGED <<callbackRest, headerPrinted, csiChannel, linkVars>>

InlineSerialized ==
    /\ writePc = "serialized"
    /\ PutPacket
    /\ writePc' = "idle"
    /\ UNCHANGED <<callbackRest, headerPrinted, csiChannel, raced>>

\* A line too long for its buffer is refused, and counted.
InlineArray ==
    /\ writePc = "array"
    /\ UNCHANGED linkVars \/ PutRow("array")
    /\ writePc' = "idle"
    /\ UNCHANGED <<callbackRest, headerPrinted, csiChannel, raced>>

InlineText ==
    /\ writePc = "text"
    /\ PutRow("text")
    /\ writePc' = "idle"
    /\ UNCHANGED <<callbackRest, headerPrinted, csiChannel, raced>>

\* The header first, once.
InlineToolHeader ==
    /\ writePc = "tool"
    /\ headerPrinted' = TRUE
    /\ IF headerPrinted THEN UNCHANGED linkVars ELSE PutHeader
    /\ writePc' = "tool_row"
    /\ UNCHANGED <<callbackRest, csiChannel, raced>>

InlineToolRow ==
    /\ writePc = "tool_row"
    /\ PutRow("tool")
    /\ writePc' = "idle"
    /\ UNCHANGED <<callbackRest, headerPrinted, csiChannel, raced>>

-----------------------------------------------------------------------------
(* log_ln!() and log_line(), in a task: the callback preempts the inline ones. *)

taskRest == <<asyncActive, logMode, headerPrinted, csiChannel, drainPc, writePc, setPc, raced>>

\* Asynchronous: the message is queued, or dropped.  Any message may be watched.
QueueText ==
    /\ asyncActive
    /\ textChannel < TextCapacity
    /\ textChannel' = textChannel + 1
    /\ waiting' \in {waiting, IF waiting = 0 THEN textChannel + 1 ELSE waiting}
    /\ UNCHANGED <<taskRest, linePc, linkVars>>

CalledInline == ~asyncActive /\ writePc = "idle" /\ setPc = "idle"

\* log_ln!: the line goes out as it is, whatever the format.
PrintLine ==
    /\ CalledInline /\ linePc = "idle"
    /\ PutText
    /\ UNCHANGED <<taskRest, queueVars, linePc>>

\* log_line in the serialized format: delimiter, text, delimiter.
OpenLine ==
    /\ CalledInline /\ linePc = "idle"
    /\ logMode = "serialized"
    /\ unread' = "nothing"
    /\ linePc' = "text"
    /\ UNCHANGED <<taskRest, queueVars, format, headless, spoiled>>

LineText ==
    /\ CalledInline /\ linePc = "text"
    /\ PutText
    /\ linePc' = "close"
    /\ UNCHANGED <<taskRest, queueVars>>

CloseLine ==
    /\ CalledInline /\ linePc = "close"
    /\ unread' = "nothing"
    /\ linePc' = "idle"
    /\ UNCHANGED <<taskRest, queueVars, format, headless, spoiled>>

-----------------------------------------------------------------------------
(* logger_backend(): packets first, and every queued message after each.     *)

drainRest == <<asyncActive, logMode, writePc, linePc, setPc, raced>>

\* A packet is ready: it is taken, and the format loaded.
TakePacket ==
    /\ drainPc = "select" /\ csiChannel > 0
    /\ csiChannel' = csiChannel - 1
    /\ drainPc' = logMode
    /\ UNCHANGED <<drainRest, headerPrinted, textChannel, waiting, linkVars>>

DrainSerialized ==
    /\ drainPc = "serialized"
    /\ PutPacket
    /\ drainPc' = "texts"
    /\ UNCHANGED <<drainRest, headerPrinted, queueVars>>

DrainArray ==
    /\ drainPc = "array"
    /\ UNCHANGED linkVars \/ PutRow("array")
    /\ drainPc' = "texts"
    /\ UNCHANGED <<drainRest, headerPrinted, queueVars>>

DrainText ==
    /\ drainPc = "text"
    /\ PutRow("text")
    /\ drainPc' = "texts"
    /\ UNCHANGED <<drainRest, headerPrinted, queueVars>>

DrainToolHeader ==
    /\ drainPc = "tool"
    /\ headerPrinted' = TRUE
    /\ IF headerPrinted THEN UNCHANGED linkVars ELSE PutHeader
    /\ drainPc' = "tool_row"
    /\ UNCHANGED <<drainRest, queueVars>>

DrainToolRow ==
    /\ drainPc = "tool_row"
    /\ PutRow("tool")
    /\ drainPc' = "texts"
    /\ UNCHANGED <<drainRest, headerPrinted, queueVars>>

\* Mutant: the delimiter after a message is left out.
WriteTextFramedOpen ==
    IF logMode = "serialized"
    THEN unread' = "message" /\ UNCHANGED <<format, headless, spoiled>>
    ELSE PutText

\* write_text_framed: in the serialized format the text is a frame of its own.
WriteTextFramed ==
    IF logMode = "serialized"
    THEN unread' = "nothing" /\ UNCHANGED <<format, headless, spoiled>>
    ELSE PutText

TakeText ==
    /\ textChannel > 0
    /\ textChannel' = textChannel - 1
    /\ waiting' = IF waiting = 0 THEN 0 ELSE waiting - 1
    /\ WriteTextFramed
    /\ UNCHANGED <<drainRest, headerPrinted, csiChannel>>

\* No packet is ready, a message is.
SelectText ==
    /\ drainPc = "select" /\ csiChannel = 0
    /\ TakeText
    /\ UNCHANGED drainPc

\* Mutant: the task goes back for the next packet at once.
DrainTextsNone ==
    /\ drainPc = "texts"
    /\ drainPc' = "select"
    /\ UNCHANGED <<drainRest, headerPrinted, queueVars, linkVars>>

\* After a packet: the messages queued, until there are none.
DrainTexts ==
    /\ drainPc = "texts"
    /\ \/ TakeText /\ UNCHANGED drainPc
       \/ /\ textChannel = 0
          /\ drainPc' = "select"
          /\ UNCHANGED <<drainRest, headerPrinted, queueVars, linkVars>>

LoggerBackend ==
    \/ TakePacket \/ SelectText
    \/ DrainSerialized \/ DrainArray \/ DrainText \/ DrainToolHeader \/ DrainToolRow
    \/ DrainTexts

LogNext ==
    \/ \E mode \in LogModes : StoreLogMode(mode)
    \/ \E mode \in LogModes : SetLogMode(mode)
    \/ ForgetHeader
    \/ QueueCsi \/ BeginInline
    \/ InlineSerialized \/ InlineArray \/ InlineText \/ InlineToolHeader \/ InlineToolRow
    \/ QueueText \/ PrintLine \/ OpenLine \/ LineText \/ CloseLine
    \/ LoggerBackend

\* The executor polls its ready tasks in turn; nothing is said of the radio, of
\* those who log, or of set_log_mode's callers.
LogFairness == WF_logVars(LoggerBackend)

LogSpec == LogInit /\ [][LogNext]_logVars /\ LogFairness

-----------------------------------------------------------------------------
(* Types and properties. *)

LogTypeOK ==
    /\ {asyncActive, headerPrinted, headless, raced, spoiled} \subseteq BOOLEAN
    /\ logMode \in LogModes
    /\ csiChannel \in 0 .. CsiCapacity
    /\ textChannel \in 0 .. TextCapacity /\ waiting \in 0 .. textChannel
    /\ drainPc \in LogModes \cup {"select", "tool_row", "texts"}
    /\ writePc \in LogModes \cup {"idle", "tool_row"}
    /\ linePc \in {"idle", "text", "close"} /\ setPc \in {"idle", "header"}
    /\ unread \in {"nothing", "rows", "message"}
    /\ format \in LogModes \cup {"none"}

\* With the asynchronous back end a message written in the serialized format
\* never costs a packet, whenever the format changes (write_text_framed,
\* logging.rs:1875).
TextStaysOutOfPackets == asyncActive => ~spoiled

\* CSI-tool rows follow a header whenever another format, or nothing, came
\* before them, unless the inline callback ran between set_log_mode's stores
\* (logging.rs:868, :869): then the second of two captures in that format has
\* none, although the docs promise the header to each (logging.rs:1153).
HeaderBeforeRows == ~raced => ~headless

\* A queued message is written however fast packets arrive: "drain pending text
\* messages after each CSI write to prevent starvation" (logging.rs:1845).
TextIsNotStarved == waiting > 0 ~> waiting = 0
=============================================================================
