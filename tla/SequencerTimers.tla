--------------------------- MODULE SequencerTimers ----------------------------
(***************************************************************************)
(* The clocks of strato-sequencer: the round timer, one alarm clock shared *)
(* by all rounds, and the view timer, an alarm clock per view, which tells *)
(* that a proposer is dead.  The event loop arms them; each clock's thread *)
(* reads what the event loop writes, step by step, and puts the views that *)
(* ran out of time into the channel the event loop reads.                  *)
(*                                                                         *)
(* view,      of the engine's context after the last event it handled; the *)
(*  proposal  latter is whether it holds a proposal                        *)
(* cell       latestViewAndProposal, what the threads know of the context  *)
(* armed      armedRoundTimer: the view it is for, when it is due          *)
(* slot       armedViewTimer: the same                                     *)
(* alarm      when each clock will ring, None if it is not set             *)
(* act        where each clock's thread is, and what it has read           *)
(* loop       where the event loop is: resets are ResetTimers to serve,    *)
(*            sending is whether blockstanbulSend' has yet to end          *)
(* timeouts   blockstanbulTimeouts: the views in the channel               *)
(*                                                                         *)
(* Views are numbered in their order; Height is their sequence number.     *)
(* Times are what is left until them, 0 once they have passed.             *)
(***************************************************************************)
EXTENDS Integers, Sequences

CONSTANTS
    MaxView,       \* bound: the last view the engine gets to
    Height,        \* the height of each view
    Watching,      \* views in which the node votes and does not propose
    RoundPeriod, ProposalWait, CommitSlack, Refire, \* how long the code waits
    MaxTaken,      \* bound: how long a proposal may take
    MaxResets,     \* bound: views passed while one event is handled
    None           \* Haskell's Nothing

View       == 0 .. MaxView
RoundClock == -1
Clock      == View \cup {RoundClock}
Time       == 0 .. RoundPeriod + ProposalWait + CommitSlack + Refire + MaxTaken

ASSUME TimersAssumption ==
    /\ MaxView \in Nat /\ MaxTaken \in Nat /\ MaxResets \in Nat
    /\ Watching \subseteq View
    /\ None \notin Int /\ None \notin [view : Int, due : Int]
    /\ {RoundPeriod, ProposalWait, CommitSlack, Refire} \subseteq Nat \ {0}
    /\ Height \in [View -> Nat] /\ \A v, w \in View : v <= w => Height[v] <= Height[w]

VARIABLES view, proposal, cell, armed, slot, alarm, act, loop, timeouts
engineVars == <<view, proposal>>
sharedVars == <<cell, armed, slot>>
vars == <<view, proposal, cell, armed, slot, alarm, act, loop, timeouts>>

Absent == [at |-> "absent", view |-> 0, due |-> 0, rearmed |-> FALSE]
Asleep == [Absent EXCEPT !.at = "asleep"]
Idle   == [at |-> "idle", resets |-> <<>>, sending |-> FALSE, timer |-> FALSE,
           view |-> 0, due |-> 0]

\* createFirstTimer is about to arm the round timer for the checkpoint's view.
Init ==
    /\ view = 0 /\ proposal = FALSE
    /\ cell = [view |-> 0, proposal |-> FALSE]
    /\ armed = None /\ slot = None
    /\ alarm = [c \in Clock |-> None]
    /\ act = [c \in Clock |-> IF c = RoundClock THEN Asleep ELSE Absent]
    /\ loop = [Idle EXCEPT !.at = "arm"]
    /\ timeouts = {}

(* Alarm clocks (the alarmclock library) *)

\* setAlarm only moves a pending alarm earlier.
SetAlarm(c, due) ==
    alarm' = [alarm EXCEPT ![c] = IF @ # None /\ @ < due THEN @ ELSE due]

\* A thread runs its action once the alarm has rung, and is not woken meanwhile.
WakeUp(c) ==
    /\ alarm[c] = 0 /\ act[c].at = "asleep"
    /\ alarm' = [alarm EXCEPT ![c] = None]
    /\ act' = [act EXCEPT ![c].at = "woken"]
    /\ UNCHANGED <<engineVars, sharedVars, loop, timeouts>>

GoTo(c, at) == act' = [act EXCEPT ![c].at = at]
Sleeps(c)   == act' = [act EXCEPT ![c] = Asleep]

\* The action ends by setting its own clock.
SleepOn(c) ==
    /\ act[c].at = "set"
    /\ SetAlarm(c, act[c].due) /\ Sleeps(c)
    /\ UNCHANGED <<engineVars, sharedVars, loop, timeouts>>

\* The view is written to the channel.
Fire(c) ==
    /\ act[c].at = "fire"
    /\ timeouts' = timeouts \cup {act[c].view}
    /\ GoTo(c, IF c = RoundClock THEN "look" ELSE "push")
    /\ UNCHANGED <<engineVars, sharedVars, alarm, loop>>

Less(t) == IF t > 0 THEN t - 1 ELSE 0
Sooner(timer) == IF timer = None THEN None ELSE [timer EXCEPT !.due = Less(@)]

\* Time passes, for everyone.
Tick ==
    /\ alarm' = [c \in Clock |-> IF alarm[c] = None THEN None ELSE Less(alarm[c])]
    /\ armed' = Sooner(armed) /\ slot' = Sooner(slot)
    /\ act' = [c \in Clock |-> Sooner(act[c])]
    /\ loop' = Sooner(loop)
    /\ UNCHANGED <<engineVars, cell, timeouts>>

(* The round clock's thread: act of createNewTimer *)

ReadArmed ==
    /\ act[RoundClock].at = "woken" /\ armed # None
    /\ act' = [act EXCEPT ![RoundClock] =
                  [at |-> IF armed.due > 0 THEN "set" ELSE "fire",
                   view |-> armed.view, due |-> armed.due, rearmed |-> FALSE]]
    /\ UNCHANGED <<engineVars, sharedVars, alarm, loop, timeouts>>

\* Variant: it fires only while its view is ahead of the node's.
LookAtViewOnce ==
    /\ act[RoundClock].at = "look"
    /\ IF cell.view >= act[RoundClock].view THEN Sleeps(RoundClock) ELSE GoTo(RoundClock, "rearm")
    /\ UNCHANGED <<engineVars, sharedVars, alarm, loop, timeouts>>

\* It keeps firing until the view has moved past the one it is armed for.
LookAtView ==
    /\ act[RoundClock].at = "look"
    /\ IF cell.view > act[RoundClock].view THEN Sleeps(RoundClock) ELSE GoTo(RoundClock, "rearm")
    /\ UNCHANGED <<engineVars, sharedVars, alarm, loop, timeouts>>

\* Variant: it overwrites a concurrent re-arm.
RearmAnyway ==
    /\ act[RoundClock].at = "rearm"
    /\ armed' = [view |-> act[RoundClock].view, due |-> RoundPeriod]
    /\ act' = [act EXCEPT ![RoundClock].at = "set", ![RoundClock].due = RoundPeriod]
    /\ UNCHANGED <<engineVars, cell, slot, alarm, loop, timeouts>>

\* Variant: the stored time is moved, the clock is not.
RearmUnset ==
    /\ act[RoundClock].at = "rearm"
    /\ Sleeps(RoundClock)
    /\ armed' = IF act[RoundClock].rearmed THEN armed ELSE [armed EXCEPT !.due = RoundPeriod]
    /\ UNCHANGED <<engineVars, cell, slot, alarm, loop, timeouts>>

\* It yields to a concurrent re-arm.
Rearm ==
    /\ act[RoundClock].at = "rearm"
    /\ IF act[RoundClock].rearmed
       THEN Sleeps(RoundClock) /\ UNCHANGED armed
       ELSE /\ armed' = [armed EXCEPT !.due = RoundPeriod]
            /\ act' = [act EXCEPT ![RoundClock].at = "set", ![RoundClock].due = RoundPeriod]
    /\ UNCHANGED <<engineVars, cell, slot, alarm, loop, timeouts>>

(* The thread of a view's clock: act of createNewViewTimer *)

ReadCell(v) ==
    /\ act[v].at = "woken"
    /\ act' = [act EXCEPT ![v].at = "check", ![v].view = cell.view]
    /\ UNCHANGED <<engineVars, sharedVars, alarm, loop, timeouts>>

HoldsSlot(v) == slot # None /\ slot.view = v

\* Variant: a wakeup before the due time gives up the slot.
CheckSlotGivesUp(v) ==
    /\ act[v].at = "check"
    /\ act' = [act EXCEPT ![v] =
                  IF HoldsSlot(v) /\ v >= @.view /\ slot.due = 0
                  THEN [@ EXCEPT !.at = "fire", !.due = Refire] ELSE [@ EXCEPT !.at = "release"]]
    /\ UNCHANGED <<engineVars, sharedVars, alarm, loop, timeouts>>

CheckSlot(v) ==
    /\ act[v].at = "check"
    /\ act' = [act EXCEPT ![v] =
                  IF ~ (HoldsSlot(v) /\ v >= @.view) THEN [@ EXCEPT !.at = "release"]
                  ELSE IF slot.due > 0 THEN [@ EXCEPT !.at = "set", !.due = slot.due]
                  ELSE [@ EXCEPT !.at = "fire", !.due = Refire]]
    /\ UNCHANGED <<engineVars, sharedVars, alarm, loop, timeouts>>

\* Variant: it fires once.
PushSlotOnly(v) ==
    /\ act[v].at = "push"
    /\ slot' = IF HoldsSlot(v) THEN [slot EXCEPT !.due = act[v].due] ELSE slot
    /\ Sleeps(v)
    /\ UNCHANGED <<engineVars, cell, armed, alarm, loop, timeouts>>

\* Having fired, it asks to be woken again soon.
PushSlot(v) ==
    /\ act[v].at = "push"
    /\ slot' = IF HoldsSlot(v) THEN [slot EXCEPT !.due = act[v].due] ELSE slot
    /\ GoTo(v, "set")
    /\ UNCHANGED <<engineVars, cell, armed, alarm, loop, timeouts>>

\* Superseded by a later view: the slot is given up.
Release(v) ==
    /\ act[v].at = "release"
    /\ slot' = IF HoldsSlot(v) THEN None ELSE slot
    /\ Sleeps(v)
    /\ UNCHANGED <<engineVars, cell, armed, alarm, loop, timeouts>>

(* The event loop: blockstanbulSend' *)

\* What comes after a call: the next ResetTimer, updateViewTimer at the end of
\* blockstanbulSend', or the next event.
Goes(l) ==
    IF l.resets # <<>> THEN [Idle EXCEPT !.at = "reset", !.resets = l.resets, !.sending = TRUE]
    ELSE IF l.sending THEN [Idle EXCEPT !.at = "update"]
    ELSE Idle

\* The engine handles an event.  It may pass into later views, and asks for a
\* timer for each; a proposal may be accepted in the last.
Event(passed) ==
    /\ loop.at = "idle"
    /\ \A i \in 1 .. Len(passed) : passed[i] > view /\ \A j \in 1 .. i - 1 : passed[i] > passed[j]
    /\ view' = IF passed = <<>> THEN view ELSE passed[Len(passed)]
    /\ proposal' \in IF passed = <<>> THEN {proposal, TRUE} ELSE BOOLEAN
    /\ loop' = Goes([Idle EXCEPT !.resets = passed, !.sending = TRUE])
    /\ UNCHANGED <<sharedVars, alarm, act, timeouts>>

\* A TimerFire is taken from the channel; the engine may leave it at that.
TakeTimeout(v) ==
    /\ loop.at = "idle" /\ v \in timeouts
    /\ timeouts' = timeouts \ {v}
    /\ loop' = Goes([Idle EXCEPT !.sending = TRUE])
    /\ UNCHANGED <<engineVars, sharedVars, alarm, act>>

\* A transaction not seen before calls createNewViewTimer.
NewTransactions ==
    /\ loop.at = "idle" /\ view \in Watching
    /\ loop' = [Idle EXCEPT !.at = "update", !.timer = TRUE]
    /\ UNCHANGED <<engineVars, sharedVars, alarm, act, timeouts>>

\* createNewTimer: the view first, then what is armed, then the alarm.
RaiseView ==
    /\ loop.at = "reset"
    /\ LET v == Head(loop.resets) IN
        /\ cell' = [cell EXCEPT !.view = IF v > @ THEN v ELSE @]
        /\ loop' = [loop EXCEPT !.at = "arm", !.view = v, !.resets = Tail(@)]
    /\ UNCHANGED <<engineVars, armed, slot, alarm, act, timeouts>>

\* Variant: armed for the round that is to come.
ArmNextRound ==
    /\ loop.at = "arm"
    /\ armed' = [view |-> loop.view + 1, due |-> RoundPeriod]
    /\ act' = [act EXCEPT ![RoundClock].rearmed = TRUE]
    /\ loop' = [loop EXCEPT !.at = "alarm", !.due = RoundPeriod]
    /\ UNCHANGED <<engineVars, cell, slot, alarm, timeouts>>

ArmRound ==
    /\ loop.at = "arm"
    /\ armed' = [view |-> loop.view, due |-> RoundPeriod]
    /\ act' = [act EXCEPT ![RoundClock].rearmed = TRUE]
    /\ loop' = [loop EXCEPT !.at = "alarm", !.due = RoundPeriod]
    /\ UNCHANGED <<engineVars, cell, slot, alarm, timeouts>>

StartRound ==
    /\ loop.at = "alarm"
    /\ SetAlarm(RoundClock, loop.due)
    /\ loop' = [loop EXCEPT !.at = "carry", !.due = 0]
    /\ UNCHANGED <<engineVars, sharedVars, act, timeouts>>

\* A timer armed for an earlier round of the height.
Pending(v) == slot # None /\ slot.view < v /\ Height[slot.view] = Height[v]

\* carryViewTimer, and createNewViewTimer up to its updateViewTimer.
CarryViewTimer ==
    /\ loop.at = "carry"
    /\ loop' = IF Pending(loop.view) /\ view \in Watching
               THEN [loop EXCEPT !.at = "update", !.timer = TRUE, !.view = 0]
               ELSE Goes(loop)
    /\ UNCHANGED <<engineVars, sharedVars, alarm, act, timeouts>>

\* updateViewTimer is over.
Updated(l) == IF l.timer THEN [l EXCEPT !.at = "timer", !.due = 0] ELSE Goes(l)

UpdateCell ==
    /\ loop.at = "update"
    /\ cell' = [view |-> view, proposal |-> proposal]
    /\ loop' = IF proposal /\ (~ cell.proposal \/ cell.view # view)
               THEN [loop EXCEPT !.at = "landed"]
               ELSE Updated(loop)
    /\ UNCHANGED <<engineVars, armed, slot, alarm, act, timeouts>>

\* The proposal just landed: commitSlack and the time it took, to commit it.
PushBack ==
    /\ loop.at = "landed"
    /\ IF slot # None /\ slot.view >= view
       THEN \E taken \in 0 .. MaxTaken :
              /\ slot' = [slot EXCEPT !.due = CommitSlack + taken]
              /\ loop' = [loop EXCEPT !.at = "pushed", !.view = slot.view, !.due = CommitSlack + taken]
       ELSE loop' = Updated(loop) /\ UNCHANGED slot
    /\ UNCHANGED <<engineVars, cell, armed, alarm, act, timeouts>>

PushAlarm ==
    /\ loop.at = "pushed"
    /\ SetAlarm(loop.view, loop.due)
    /\ loop' = Updated(loop)
    /\ UNCHANGED <<engineVars, sharedVars, act, timeouts>>

\* Variant: a clock for every call.
ArmViewAlways ==
    /\ loop.at = "timer"
    /\ LET due == IF cell.proposal THEN CommitSlack ELSE ProposalWait IN
          /\ slot' = [view |-> cell.view, due |-> due]
          /\ loop' = [loop EXCEPT !.at = "start", !.view = cell.view, !.due = due]
    /\ UNCHANGED <<engineVars, cell, armed, alarm, act, timeouts>>

\* The rest of createNewViewTimer: at most one live clock per view.
ArmView ==
    /\ loop.at = "timer"
    /\ IF HoldsSlot(cell.view)
       THEN loop' = Goes(loop) /\ UNCHANGED slot
       ELSE LET due == IF cell.proposal THEN CommitSlack ELSE ProposalWait IN
              /\ slot' = [view |-> cell.view, due |-> due]
              /\ loop' = [loop EXCEPT !.at = "start", !.view = cell.view, !.due = due]
    /\ UNCHANGED <<engineVars, cell, armed, alarm, act, timeouts>>

StartView ==
    /\ loop.at = "start"
    /\ act' = [act EXCEPT ![loop.view] = Asleep]
    /\ SetAlarm(loop.view, loop.due)
    /\ loop' = Goes(loop)
    /\ UNCHANGED <<engineVars, sharedVars, timeouts>>

LoopStep == \/ RaiseView \/ ArmRound \/ StartRound \/ CarryViewTimer \/ UpdateCell
            \/ PushBack \/ PushAlarm \/ ArmView \/ StartView
RoundStep == ReadArmed \/ LookAtView \/ Rearm \/ Fire(RoundClock) \/ SleepOn(RoundClock)
ViewStep(v) == ReadCell(v) \/ CheckSlot(v) \/ PushSlot(v) \/ Release(v) \/ Fire(v) \/ SleepOn(v)
Events == \/ \E n \in 0 .. MaxResets : \E passed \in [1 .. n -> View] : Event(passed)
          \/ \E v \in View : TakeTimeout(v)
          \/ NewTransactions

Next ==
    \/ Tick
    \/ Events
    \/ LoopStep
    \/ RoundStep
    \/ \E v \in View : ViewStep(v)
    \/ \E c \in Clock : WakeUp(c)

Spec == Init /\ [][Next]_vars

\* Threads and the event loop's calls go on, and so does time.
FairSpec ==
    /\ Spec
    /\ WF_vars(Tick) /\ WF_vars(LoopStep) /\ WF_vars(RoundStep)
    /\ \A c \in Clock : WF_vars(WakeUp(c))
    /\ \A v \in View : WF_vars(ViewStep(v))
===============================================================================
