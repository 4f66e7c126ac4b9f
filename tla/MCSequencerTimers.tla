-------------------------- MODULE MCSequencerTimers ---------------------------
EXTENDS SequencerTimersSafety, TLC

TwoRounds == 0 :> 1 @@ 1 :> 1
===============================================================================
