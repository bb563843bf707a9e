------------------------------ MODULE MCMyQueue ------------------------------
(***************************************************************************)
(* The queue with bytes for values, and Base64 over what it holds: every   *)
(* sequence of the bytes up to MaxSize, in every way that the two stacks   *)
(* share it.                                                               *)
(***************************************************************************)
EXTENDS MyQueue, Base64

Bytes == {0, 107, 254}

(* Whatever the queue holds survives being encoded and decoded.            *)
Base64RoundTrip == Queue # <<>> => RoundTrips(Queue)
=============================================================================
