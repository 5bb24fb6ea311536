--------------------------- MODULE MCRecordCodec ---------------------------
(* An instance of RecordCodec for TLC: strings at the limits of their       *)
(* length; a byte cut off, a key added, keys exchanged, and a null where    *)
(* the zero value takes one byte too.                                       *)
EXTENDS RecordCodec, TLC

MCPrevious == {Null, Bytes(32, "p")}
MCPayloads == {Bytes(n, "a") : n \in {0, 1, 65536, 65537}} \cup {Bytes(1, "b")}
MCReferences == {Bytes(n, "k") : n \in {0, 512, 513}} \cup {Bytes(512, "control")}
MCSignatures == {Bytes(n, "s") : n \in {7, 8, 72, 73}}
MCUnprintable == {"control"}
MCForged == {Bytes(32, <<"forged", 1>>), Bytes(31, <<"short", 1>>)}
MCSizeChange ==
    "malformed" :> -1 @@ "wrong keys" :> 1 @@ "reordered" :> 0 @@ "null field" :> 0
=============================================================================
