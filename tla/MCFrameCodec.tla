---------------------------- MODULE MCFrameCodec ----------------------------
(* FrameCodec with bytes of two bits.  A byte of 3 is not UTF-8; a JSON    *)
(* text is a single digit.                                                 *)
EXTENDS FrameCodec

Small == {0, 1, 2}

MCUtf8 == UNION {[1 .. n -> Small] : n \in 0 .. 6}
MCJson == [1 .. 1 -> {0, 1}]

Payloads == UNION {[1 .. n -> Byte] : n \in 0 .. 2} \cup {<<3, 3, 3, 0, 1>>}
Entries == [client_id : {0, 22}, clock : {1, 2}, state : MCJson]

MCMessages ==
    {Sync(t, p) : t \in SyncSubtypes, p \in Payloads}
        \cup {AwarenessOf(es) : es \in UNION {[1 .. n -> Entries] : n \in 0 .. 1}}
        \cup {AwarenessOf(<<e, [e EXCEPT !.client_id = 3]>>) : e \in {x \in Entries : x.clock = 1}}
        \cup {Query}
        \cup {Auth(AUTH_PERMISSION_DENIED, p) : p \in Payloads \cap MCUtf8}
        \cup {Custom(t, p) : t \in CustomTypes, p \in Payloads}
=============================================================================
