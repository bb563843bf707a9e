----------------------------- MODULE FifoQueue -----------------------------
(***************************************************************************)
(* What MyQueue promises: a first-in first-out queue, as std::queue is.    *)
(* "ret" is what the last call returned, with the name of the call.        *)
(***************************************************************************)
EXTENDS Integers, Sequences

CONSTANT T                                \* the values that are queued

VARIABLES q, ret

Void == <<"void">>

Init == q = <<>> /\ ret = Void

Push(v) == q' = Append(q, v) /\ ret' = Void
Pop     == q # <<>> /\ q' = Tail(q) /\ ret' = Void
Front   == q # <<>> /\ ret' = <<"front", q[1]>> /\ UNCHANGED q
Back    == q # <<>> /\ ret' = <<"back", q[Len(q)]>> /\ UNCHANGED q
Empty   == ret' = <<"empty", q = <<>>>> /\ UNCHANGED q
Size    == ret' = <<"size", Len(q)>> /\ UNCHANGED q

Next == (\E v \in T : Push(v)) \/ Pop \/ Front \/ Back \/ Empty \/ Size

Spec == Init /\ [][Next]_<<q, ret>>
=============================================================================
