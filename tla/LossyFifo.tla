-------------------------------- MODULE LossyFifo --------------------------------
(***************************************************************************)
(* What the event queue towards Python promises: a bounded buffer that may *)
(* discard its oldest message but never reorders, duplicates or invents    *)
(* one.  Messages are numbered in the order in which they enter.           *)
(***************************************************************************)
EXTENDS Naturals, Sequences

CONSTANT Capacity

VARIABLES entered,    \* how many messages have entered the buffer
          buffer,     \* the messages waiting
          taken       \* the messages handed out, in order

vars == <<entered, buffer, taken>>

Init == entered = 0 /\ buffer = <<>> /\ taken = <<>>

Enter ==
    /\ Len(buffer) < Capacity
    /\ entered' = entered + 1
    /\ buffer' = Append(buffer, entered')
    /\ UNCHANGED taken

Discard ==
    /\ buffer # <<>>
    /\ buffer' = Tail(buffer)
    /\ UNCHANGED <<entered, taken>>

Take ==
    /\ buffer # <<>>
    /\ buffer' = Tail(buffer)
    /\ taken' = Append(taken, Head(buffer))
    /\ UNCHANGED entered

Next == Enter \/ Discard \/ Take

Spec == Init /\ [][Next]_vars
================================================================================
