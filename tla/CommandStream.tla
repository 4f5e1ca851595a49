---------------------------- MODULE CommandStream ----------------------------
(***************************************************************************)
(* What a device that is commanded in several frames promises to those who *)
(* command it: the commands are carried out one after the other, in the    *)
(* order given, each once; a command is spoilt only if a frame was lost    *)
(* while it was sent, and spoils no other.                                 *)
(***************************************************************************)
EXTENDS Naturals, Sequences

VARIABLES
    accepted,   \* number of commands taken over
    outcomes,   \* how each command ended so far, in the order given
    hit         \* a frame of the command being sent was lost

streamVars == <<accepted, outcomes, hit>>

StreamInit == accepted = 0 /\ outcomes = <<>> /\ hit = FALSE

\* A command is taken over.
Accept == accepted' = accepted + 1 /\ UNCHANGED <<outcomes, hit>>

\* A frame of the oldest command is lost.
Lose == Len(outcomes) < accepted /\ hit' = TRUE /\ UNCHANGED <<accepted, outcomes>>

\* The oldest command has been sent.
Finish ==
    /\ Len(outcomes) < accepted
    /\ outcomes' = Append(outcomes, IF hit THEN "spoilt" ELSE "whole")
    /\ hit' = FALSE
    /\ UNCHANGED accepted

StreamNext == Accept \/ Lose \/ Finish

\* The order of commands, and that each is sent at last.
StreamSafety == StreamInit /\ [][StreamNext]_streamVars
StreamFairness == WF_streamVars(Finish)
=============================================================================
