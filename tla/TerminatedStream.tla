-------------------------- MODULE TerminatedStream --------------------------
(***************************************************************************)
(* What everyone who reads a session's events relies on: events are only   *)
(* ever added at the end, exactly one of them is terminal, and it is the   *)
(* last (ProviderSessionHandle.events, docs/protocol-v1.md).               *)
(* ProviderRun promises it of the channel of a provider run, EventStream   *)
(* of the envelopes the daemon makes of that channel.                      *)
(***************************************************************************)
EXTENDS Naturals, Sequences

CONSTANT Terminal       \* the types of event that end a stream

VARIABLES
    stream,             \* the types of the events so far
    over                \* no more will come

Init == stream = <<>> /\ over = FALSE

Extended ==
    /\ ~over
    /\ Len(stream) <= Len(stream')
    /\ \A i \in 1..Len(stream) : stream'[i] = stream[i]

Emit ==
    /\ Extended
    /\ \A i \in Len(stream) + 1 .. Len(stream') : stream'[i] \notin Terminal
    /\ over' = FALSE

End ==
    /\ Extended
    /\ Len(stream) < Len(stream')
    /\ \A i \in Len(stream) + 1 .. Len(stream') :
          stream'[i] \in Terminal <=> i = Len(stream')
    /\ over' = TRUE

Next == Emit \/ End

Spec == Init /\ [][Next]_<<stream, over>>
=============================================================================
