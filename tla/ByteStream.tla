----------------------------- MODULE ByteStream -----------------------------
(***************************************************************************)
(* What a stream source promises: whatever buffers, threads and queues lie *)
(* between the application that sends a stream and the demuxer that reads  *)
(* it, the demuxer gets the bytes that were sent, each once and in order,  *)
(* in pieces of its own choosing, and the end only after the last of them. *)
(* Bytes are numbered in the order they are sent.                          *)
(***************************************************************************)
EXTENDS Naturals, Sequences

VARIABLES
  sent,       \* how many bytes the application has sent
  ended,      \* it has sent the end of the stream
  received,   \* the bytes the demuxer got, in the order it got them
  receivedEos \* the demuxer was told that the stream is over

streamVars == <<sent, ended, received, receivedEos>>

Empty == sent = 0 /\ ~ended /\ received = <<>> /\ ~receivedEos

Send == /\ ~ended
        /\ sent' \in Nat /\ sent' > sent
        /\ UNCHANGED <<ended, received, receivedEos>>

End == ~ended /\ ended' = TRUE /\ UNCHANGED <<sent, received, receivedEos>>

Receive ==
  \E n \in 1 .. (sent - Len(received)) :
    /\ received' = received \o [i \in 1 .. n |-> Len(received) + i]
    /\ UNCHANGED <<sent, ended, receivedEos>>

ReceiveEos ==
  /\ ended /\ Len(received) = sent /\ ~receivedEos
  /\ receivedEos' = TRUE
  /\ UNCHANGED <<sent, ended, received>>

\* A new source starts from nothing.
Open == Empty'

Spec == Empty /\ [][Send \/ End \/ Receive \/ ReceiveEos \/ Open]_streamVars
=============================================================================
