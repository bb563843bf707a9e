------------------------------ MODULE MyQueue ------------------------------
(***************************************************************************)
(* stack_queue.cpp: class MyQueue, a queue made of two stacks. Values are  *)
(* pushed on second_stack and popped from first_stack; move turns one over *)
(* onto the other when that one is empty. The top of a stack is the end of *)
(* its sequence.                                                           *)
(***************************************************************************)
EXTENDS Integers, Sequences

CONSTANTS
    T,           \* the values that are queued
    MaxSize      \* bound: values in the queue at once

ASSUME QueueAssumption == MaxSize \in Nat

VARIABLES first_stack, second_stack,
          ret    \* what the last call returned, with the name of the call

queueVars == <<first_stack, second_stack, ret>>

Void == <<"void">>
Top(stack) == stack[Len(stack)]
Popped(stack) == SubSeq(stack, 1, Len(stack) - 1)
TurnedOver(stack) == [k \in 1 .. Len(stack) |-> stack[Len(stack) - k + 1]]

QueueInit ==
    /\ first_stack = <<>>
    /\ second_stack = <<>>
    /\ ret = Void

size == Len(first_stack) + Len(second_stack)

(* A mutation: move without its test for an empty destination.             *)
move_Always(src, dst) == [src |-> <<>>, dst |-> dst \o TurnedOver(src)]
(* move(src, dst): both stacks after it.                                   *)
move(src, dst) ==
    IF dst = <<>> THEN [src |-> <<>>, dst |-> TurnedOver(src)]
                  ELSE [src |-> src, dst |-> dst]

push(v) ==
    /\ size < MaxSize
    /\ second_stack' = Append(second_stack, v)
    /\ ret' = Void
    /\ UNCHANGED first_stack

(* The callers of pop, front and back leave an empty queue alone: top and  *)
(* pop of an empty std::stack are undefined.                               *)
pop ==
    /\ size > 0
    /\ LET m == move(second_stack, first_stack) IN
         /\ second_stack' = m.src
         /\ first_stack' = Popped(m.dst)
    /\ ret' = Void

front ==
    /\ size > 0
    /\ LET m == move(second_stack, first_stack) IN
         /\ second_stack' = m.src
         /\ first_stack' = m.dst
         /\ ret' = <<"front", Top(m.dst)>>

back ==
    /\ size > 0
    /\ LET m == move(first_stack, second_stack) IN
         /\ first_stack' = m.src
         /\ second_stack' = m.dst
         /\ ret' = <<"back", Top(m.dst)>>

empty == ret' = <<"empty", size = 0>> /\ UNCHANGED <<first_stack, second_stack>>

Size == ret' = <<"size", size>> /\ UNCHANGED <<first_stack, second_stack>>

QueueNext == (\E v \in T : push(v)) \/ pop \/ front \/ back \/ empty \/ Size

QueueSpec == QueueInit /\ [][QueueNext]_queueVars

-----------------------------------------------------------------------------
QueueTypeOK ==
    /\ first_stack \in Seq(T)
    /\ second_stack \in Seq(T)
    /\ size <= MaxSize

(* The queue that the two stacks stand for.                                *)
Queue == TurnedOver(first_stack) \o second_stack

Fifo == INSTANCE FifoQueue WITH q <- Queue

(* Whatever the order of the calls, which turn the stacks over in either   *)
(* direction, each returns what it would of a queue.                       *)
ImplementsFifoQueue == Fifo!Spec
=============================================================================
