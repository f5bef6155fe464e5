----------------------------- MODULE FrameCodec -----------------------------
(***************************************************************************)
(* The binary frames of y-websocket as the server reads and writes them    *)
(* (protocol.py).  A frame is a sequence of bytes, which sender and        *)
(* receiver cut into numbers and length-prefixed payloads; there is no     *)
(* other structure, so that a number of the wrong width moves every cut    *)
(* behind it.                                                              *)
(*                                                                         *)
(* The byte is a parameter: it holds a digit below Half and a flag, Half,  *)
(* that another digit follows.  The code has Half = 128, MaxVarBytes = 8   *)
(* and MaxSafe = 2^53 - 1.  Which bytes are UTF-8 and JSON is left to the  *)
(* constants; the texts of errors are left out.                            *)
(***************************************************************************)
EXTENDS Integers, Sequences, FiniteSetsExt

CONSTANTS
    Half,           \* 128
    MaxVarBytes,    \* 8
    MaxSafe,        \* MAX_SAFE_INTEGER
    MaxSize,        \* MAX_MESSAGE_SIZE
    MaxEntries,     \* MAX_AWARENESS_ENTRIES
    Utf8,           \* the byte sequences that are UTF-8
    Json,           \* those of them that are JSON texts
    Messages,       \* BOUND: what the encoders are given
    MaxTyped        \* BOUND: frames up to this length are tried exhaustively

ASSUME CodecAssumption ==
    /\ Half \in Nat \ {0, 1}
    /\ MaxVarBytes \in Nat \ {0}
    /\ MaxSafe \in Nat /\ MaxSize \in 0 .. MaxSafe /\ MaxEntries \in 0 .. MaxSafe
    /\ 5 <= MaxSafe         \* the types of messages are numbers

Byte == 0 .. (2 * Half - 1)

(* What a message is, apart from the custom events, which only go out.     *)
Sync(t, p) == [kind |-> "sync", subtype |-> t, payload |-> p]
AwarenessOf(es) == [kind |-> "awareness", entries |-> es]
Query == [kind |-> "query"]
Auth(t, p) == [kind |-> "auth", subtype |-> t, reason |-> p]
Custom(type, p) == [kind |-> "custom", type |-> type, payload |-> p]
ProtocolError == [kind |-> "error"]

MESSAGE_SYNC == 0
MESSAGE_AWARENESS == 1
MESSAGE_AUTH == 2
MESSAGE_QUERY_AWARENESS == 3
CustomTypes == {4, 5}       \* document status, execution event
SyncSubtypes == {0, 1, 2}   \* step 1, step 2, update
AUTH_PERMISSION_DENIED == 0

-----------------------------------------------------------------------------
(***************************************************************************)
(* Encoding                                                                *)
(***************************************************************************)

(* Up to Half in one byte, flag and all.                                   *)
Mut_encode_var_uint(value) ==
    LET encode[v \in Nat] ==
            IF v > Half THEN <<Half + (v % Half)>> \o encode[v \div Half] ELSE <<v>>
    IN encode[value]

encode_var_uint(value) ==
    LET encode[v \in Nat] ==
            IF v >= Half THEN <<Half + (v % Half)>> \o encode[v \div Half] ELSE <<v>>
    IN encode[value]

encode_var_bytes(value) == encode_var_uint(Len(value)) \o value

EncodeEntry(entry) ==
    encode_var_uint(entry.client_id) \o encode_var_uint(entry.clock)
        \o encode_var_bytes(entry.state)

encode_sync_message(subtype, payload) ==
    encode_var_uint(MESSAGE_SYNC) \o encode_var_uint(subtype)
        \o encode_var_bytes(payload)

encode_awareness_message(entries) ==
    LET payload[i \in 0 .. Len(entries)] ==
            IF i = 0 THEN encode_var_uint(Len(entries))
            ELSE payload[i - 1] \o EncodeEntry(entries[i])
    IN encode_var_uint(MESSAGE_AWARENESS) \o encode_var_bytes(payload[Len(entries)])

encode_permission_denied(reason) ==
    encode_var_uint(MESSAGE_AUTH) \o encode_var_uint(AUTH_PERMISSION_DENIED)
        \o encode_var_bytes(reason)

(* encode_document_saved, encode_execution_event.                          *)
EncodeCustom(type, payload) == encode_var_uint(type) \o encode_var_bytes(payload)

Encode(m) ==
    CASE m.kind = "sync" -> encode_sync_message(m.subtype, m.payload)
      [] m.kind = "awareness" -> encode_awareness_message(m.entries)
      [] m.kind = "query" -> encode_var_uint(MESSAGE_QUERY_AWARENESS)
      [] m.kind = "auth" -> encode_permission_denied(m.reason)
      [] m.kind = "custom" -> EncodeCustom(m.type, m.payload)

(* The greatest number fits into the bytes that a number may have.         *)
ASSUME RangeAssumption == Len(encode_var_uint(MaxSafe)) <= MaxVarBytes

(* What the encoders are given: numbers in their range, known subtypes,    *)
(* texts encoded as UTF-8; and the frame is not too large.                 *)
Number == 0 .. MaxSafe
Entry == [client_id : Number, clock : Number, state : Seq(Byte) \cap Utf8 \cap Json]

Message ==
    [kind : {"sync"}, subtype : SyncSubtypes, payload : Seq(Byte)]
        \cup {m \in [kind : {"awareness"}, entries : Seq(Entry)] :
                 Len(m.entries) <= MaxEntries}
        \cup {Query}
        \cup [kind : {"auth"}, subtype : {AUTH_PERMISSION_DENIED},
              reason : Seq(Byte) \cap Utf8]
        \cup [kind : {"custom"}, type : CustomTypes, payload : Seq(Byte)]

WellFormed(m) == m \in Message /\ Len(Encode(m)) <= MaxSize

ASSUME MessagesAssumption == \A m \in Messages : WellFormed(m)

-----------------------------------------------------------------------------
(***************************************************************************)
(* Decoding: a value and the offset behind it.  A ProtocolError is an      *)
(* offset of -1, which ends all that was to follow.                        *)
(***************************************************************************)
Failed == [value |-> 0, next |-> -1]
Read(value, next) == [value |-> value, next |-> next]
Then(r, Step(_, _)) == IF r.next < 0 THEN Failed ELSE Step(r.value, r.next)

(* The number that digits stand for, the least significant first.          *)
VarValue(bytes) ==
    LET loop[i \in 0 .. Len(bytes)] ==
            IF i = 0 THEN [value |-> 0, multiplier |-> 1]
            ELSE [value |-> loop[i - 1].value + (bytes[i] % Half) * loop[i - 1].multiplier,
                  multiplier |-> loop[i - 1].multiplier * Half]
    IN loop[Len(bytes)].value

(* Without the check of the range.                                         *)
Mut_InRange(r) == r

InRange(r) == IF r.value > MaxSafe THEN Failed ELSE r

(* The first byte without the flag ends the number.                        *)
decode_var_uint(data, offset) ==
    LET widths == {n \in 1 .. MaxVarBytes :
                       offset + n <= Len(data) /\ data[offset + n] < Half}
    IN  IF widths = {} THEN Failed
        ELSE LET end == offset + Min(widths)
             IN  InRange(Read(VarValue(SubSeq(data, offset + 1, end)), end))

decode_var_bytes(data, offset) ==
    Then(decode_var_uint(data, offset), LAMBDA length, next :
        IF next + length > Len(data) THEN Failed
        ELSE Read(SubSeq(data, next + 1, next + length), next + length))

DecodeVarString(data, offset) ==
    Then(decode_var_bytes(data, offset), LAMBDA encoded, next :
        IF encoded \in Utf8 THEN Read(encoded, next) ELSE Failed)

DecodeEntry(payload, offset) ==
    Then(decode_var_uint(payload, offset), LAMBDA client, at :
    Then(decode_var_uint(payload, at), LAMBDA clock, after :
    Then(DecodeVarString(payload, after), LAMBDA state, next :
        IF state \in Json
           THEN Read([client_id |-> client, clock |-> clock, state |-> state], next)
           ELSE Failed)))

(* A payload may be followed by anything.                                  *)
Mut_Finished(data, r) == r

(* _ensure_finished                                                        *)
Finished(data, r) == IF r.next = Len(data) THEN r ELSE Failed

DecodeEntries(payload) ==
    Then(decode_var_uint(payload, 0), LAMBDA count, start :
        LET entries[i \in 0 .. count] ==
                IF i = 0 THEN Read(<<>>, start)
                ELSE Then(entries[i - 1], LAMBDA before, at :
                     Then(DecodeEntry(payload, at), LAMBDA entry, next :
                         Read(Append(before, entry), next)))
        IN  IF count > MaxEntries THEN Failed ELSE Finished(payload, entries[count]))

ParseSync(frame, offset) ==
    Then(decode_var_uint(frame, offset), LAMBDA subtype, at :
        IF subtype \notin SyncSubtypes THEN Failed
        ELSE Then(Finished(frame, decode_var_bytes(frame, at)), LAMBDA payload, next :
                 Read(Sync(subtype, payload), next)))

ParseAwareness(frame, offset) ==
    Then(Finished(frame, decode_var_bytes(frame, offset)), LAMBDA payload, next :
        Then(DecodeEntries(payload), LAMBDA entries, end :
            Read(AwarenessOf(entries), next)))

ParseAuth(frame, offset) ==
    Then(decode_var_uint(frame, offset), LAMBDA subtype, at :
        IF subtype # AUTH_PERMISSION_DENIED THEN Failed
        ELSE Then(Finished(frame, DecodeVarString(frame, at)), LAMBDA reason, next :
                 Read(Auth(subtype, reason), next)))

Parsed(frame) ==
    Then(decode_var_uint(frame, 0), LAMBDA type, at :
        CASE type = MESSAGE_SYNC -> ParseSync(frame, at)
          [] type = MESSAGE_AWARENESS -> ParseAwareness(frame, at)
          [] type = MESSAGE_QUERY_AWARENESS -> Finished(frame, Read(Query, at))
          [] type = MESSAGE_AUTH -> ParseAuth(frame, at)
          [] OTHER -> Failed)

parse_message(frame) ==
    IF Len(frame) \in 1 .. MaxSize /\ Parsed(frame).next >= 0
       THEN Parsed(frame).value ELSE ProtocolError

-----------------------------------------------------------------------------
(***************************************************************************)
(* A receiver, and the frames it may be sent: those of the encoders, these *)
(* damaged in one place, and all short sequences of bytes.                 *)
(***************************************************************************)
VARIABLES
    frame,
    sent        \* the message that frame encodes, or ProtocolError

codecVars == <<frame, sent>>

CodecInit == frame = <<>> /\ sent = ProtocolError

Send(m) ==
    /\ frame' = Encode(m)
    /\ sent' = m

TypeByte(b) ==
    /\ sent = ProtocolError
    /\ Len(frame) < MaxTyped
    /\ frame' = Append(frame, b)
    /\ UNCHANGED sent

DamageByte(i, b) ==
    /\ sent # ProtocolError
    /\ frame' = [frame EXCEPT ![i] = b]
    /\ sent' = ProtocolError

Truncate(n) ==
    /\ sent # ProtocolError
    /\ frame' = SubSeq(frame, 1, n)
    /\ sent' = ProtocolError

CodecNext ==
    \/ \E m \in Messages : Send(m)
    \/ \E b \in Byte : TypeByte(b)
    \/ \E i \in DOMAIN frame, b \in Byte : DamageByte(i, b)
    \/ \E n \in 0 .. (Len(frame) - 1) : Truncate(n)

CodecSpec == CodecInit /\ [][CodecNext]_codecVars

-----------------------------------------------------------------------------
(***************************************************************************)
(* Properties                                                              *)
(***************************************************************************)
Accepted(f) == parse_message(f) # ProtocolError

(* What the encoders write is read back as it was, at every width of every *)
(* number in it; the custom events, which only the server sends, are       *)
(* refused (parse_message and the encoders).                               *)
RoundTrip ==
    sent # ProtocolError =>
        parse_message(frame) = IF sent.kind = "custom" THEN ProtocolError ELSE sent

(* The numbers of an awareness state, which encode_var_uint must accept.   *)
Numbers(m) ==
    IF m.kind = "awareness"
       THEN {m.entries[i].client_id : i \in DOMAIN m.entries}
               \cup {m.entries[i].clock : i \in DOMAIN m.entries}
       ELSE {}

(* Frames are not unique, but every accepted one can be sent on, and means *)
(* what the shorter one means that is sent in its place: the server        *)
(* re-encodes each update and awareness state it relays (parse_message;    *)
(* websocket._handle_binary_message, _broadcast_awareness).                *)
RelayKeepsMeaning ==
    Accepted(frame) =>
        LET relayed == Encode(parse_message(frame)) IN
        /\ Numbers(parse_message(frame)) \subseteq 0 .. MaxSafe
        /\ Len(relayed) <= Len(frame)
        /\ parse_message(relayed) = parse_message(frame)

(* An accepted frame is accepted in one way only, at its full length: none *)
(* of its beginnings is a frame (_ensure_finished, decode_var_bytes).      *)
PrefixFree ==
    Accepted(frame) =>
        \A n \in 0 .. (Len(frame) - 1) : ~Accepted(SubSeq(frame, 1, n))
=============================================================================
