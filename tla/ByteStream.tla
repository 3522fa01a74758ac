----------------------------- MODULE ByteStream -----------------------------
(***************************************************************************)
(* What a pipe promises: a stream of at most Cap bytes in flight, read in  *)
(* the order they were written.  A new pipe starts with an empty stream.   *)
(***************************************************************************)
EXTENDS Naturals, Sequences

CONSTANTS Bytes, Cap

VARIABLE stream

Init == stream = <<>>

Put == Len(stream) < Cap /\ \E b \in Bytes : stream' = Append(stream, b)

Get == stream # <<>> /\ stream' = Tail(stream)

Restart == stream' = <<>>

Next == Put \/ Get \/ Restart

Spec == Init /\ [][Next]_stream
=============================================================================
