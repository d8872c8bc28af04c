---------------------------- MODULE MessagePipe ----------------------------
(***************************************************************************)
(* What a Connection (packages/transport/src/connection/mod.rs) promises   *)
(* in each of its directions: messages come out whole, in the order in     *)
(* which they went in, each once.                                          *)
(***************************************************************************)
EXTENDS Naturals, Sequences

VARIABLES
  sent,  \* the messages that went in
  got    \* the messages that came out

PipeInit == sent = <<>> /\ got = <<>>

Put == /\ Len(sent') = Len(sent) + 1 /\ SubSeq(sent', 1, Len(sent)) = sent
       /\ UNCHANGED got

Get == /\ Len(got) < Len(sent) /\ got' = Append(got, sent[Len(got) + 1])
       /\ UNCHANGED sent

PipeSpec == PipeInit /\ [][Put \/ Get]_<<sent, got>>
=============================================================================
