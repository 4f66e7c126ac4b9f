----------------------------- MODULE MCSequencer ------------------------------
(* Blocks for Sequencer: a chain of three, or of two.                       *)
EXTENDS SequencerSafety

First  == [number |-> 1, parent |-> Genesis]
Second == [number |-> 2, parent |-> First]
Third  == [number |-> 3, parent |-> Second]

Decided == {First, Second, Third}
Pair    == {First, Second}

OnlyFirst == {First}
Anytime   == Step
=============================================================================
