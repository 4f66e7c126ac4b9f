------------------------ MODULE SequencerTimersProofs -------------------------
(***************************************************************************)
(* The clocks of strato-sequencer, for any number of views, any heights,   *)
(* any periods and any interleaving of the event loop with the threads of  *)
(* the clocks: the round timer is never lost, a view has one clock, and no *)
(* timeout is for a view that is yet to come.                              *)
(***************************************************************************)
EXTENDS SequencerTimersSafety, TLAPS

LEMMA ClockFacts ==
    /\ RoundClock \notin View /\ RoundClock \in Clock /\ View \subseteq Clock
    /\ View \subseteq Nat /\ 0 \in View /\ 0 \in Time /\ Time \subseteq Nat
    /\ \A c \in Clock : c # RoundClock => c \in View
  BY TimersAssumption DEF View, Clock, RoundClock, Time

\* Views are numbers, so the provers may compare them.
LEMMA ViewFacts == \A v \in View : v \in Int /\ 0 <= v
  BY TimersAssumption DEF View

LEMMA PeriodFacts ==
    /\ RoundPeriod \in Time /\ ProposalWait \in Time /\ CommitSlack \in Time /\ Refire \in Time
    /\ \A taken \in 0 .. MaxTaken : CommitSlack + taken \in Time
    /\ \A t \in Time : Less(t) \in Time
    /\ None \notin Time /\ None \notin View
  BY TimersAssumption DEF Time, View, Less

\* None is no record: a timer that is not None has a view and a due time.
LEMMA NoneIsNoTimer == None \notin Timer
<1> SUFFICES ASSUME None \in Timer PROVE FALSE
  OBVIOUS
<1>1. View \subseteq Int /\ Time \subseteq Int
  BY ClockFacts
<1>2. None \in [view : Int, due : Int]
  BY <1>1 DEF Timer
<1> QED BY <1>2, TimersAssumption

LEMMA IdleFacts == Idle \in Looping /\ Idle.resets = <<>> /\ <<>> \in Seq(View)
<1>1. <<>> \in Seq(View)
  OBVIOUS
<1> QED BY <1>1, ClockFacts DEF Idle, Looping, LoopPlaces

LEMMA GoesFacts ==
    ASSUME NEW l \in Looping
    PROVE  /\ Goes(l) \in Looping /\ Goes(l).view = 0 /\ Goes(l).resets = l.resets
           /\ l.resets # <<>> => Goes(l).at = "reset"
           /\ l.resets = <<>> => Goes(l).at \in {"update", "idle"}
<1> USE ClockFacts DEF Idle, Looping, LoopPlaces
<1>1. Idle \in Looping /\ <<>> \in Seq(View)
  OBVIOUS
<1>2. CASE l.resets # <<>>
  BY <1>2 DEF Goes
<1>3. CASE l.resets = <<>> /\ l.sending
  <2>1. Goes(l) = [Idle EXCEPT !.at = "update"]
    BY <1>3 DEF Goes
  <2> QED BY <2>1, <1>1, <1>3
<1>4. CASE l.resets = <<>> /\ ~ l.sending
  BY <1>1, <1>4 DEF Goes
<1> QED BY <1>2, <1>3, <1>4

(* Steps of one thread *)

LEMMA Did ==
    ASSUME act \in [Clock -> Acting], NEW c \in Clock, NEW a \in Acting,
           act' = [act EXCEPT ![c] = a]
    PROVE  /\ act' \in [Clock -> Acting] /\ act'[c] = a
           /\ \A d \in Clock : d # c => act'[d] = act[d]
  OBVIOUS

LEMMA Moved ==
    ASSUME act \in [Clock -> Acting], NEW c \in Clock, NEW at \in RoundPlaces \cup ViewPlaces,
           GoTo(c, at)
    PROVE  /\ act' \in [Clock -> Acting] /\ act'[c].at = at
           /\ act'[c].view = act[c].view /\ act'[c].due = act[c].due
           /\ act'[c].rearmed = act[c].rearmed
           /\ \A d \in Clock : d # c => act'[d] = act[d]
<1>1. act[c] \in Acting /\ act' = [act EXCEPT ![c] = [act[c] EXCEPT !.at = at]]
  BY DEF GoTo
<1>2. /\ [act[c] EXCEPT !.at = at] \in Acting
      /\ [act[c] EXCEPT !.at = at].at = at /\ [act[c] EXCEPT !.at = at].view = act[c].view
      /\ [act[c] EXCEPT !.at = at].due = act[c].due
      /\ [act[c] EXCEPT !.at = at].rearmed = act[c].rearmed
  BY <1>1 DEF Acting
<1> QED BY <1>1, <1>2

LEMMA AsleepFacts ==
    /\ Asleep \in Acting /\ Asleep.at = "asleep" /\ Asleep.view = 0 /\ Asleep.due = 0
    /\ Asleep.rearmed = FALSE
  BY ClockFacts DEF Asleep, Absent, Acting, RoundPlaces, ViewPlaces

LEMMA Slept ==
    ASSUME act \in [Clock -> Acting], NEW c \in Clock, Sleeps(c)
    PROVE  /\ act' \in [Clock -> Acting] /\ act'[c] = Asleep
           /\ \A d \in Clock : d # c => act'[d] = act[d]
  BY AsleepFacts DEF Sleeps

LEMMA AlarmSet ==
    ASSUME alarm \in [Clock -> Time \cup {None}], NEW c \in Clock, NEW due \in Time, SetAlarm(c, due)
    PROVE  /\ alarm' \in [Clock -> Time \cup {None}] /\ alarm'[c] # None
           /\ \A d \in Clock : d # c => alarm'[d] = alarm[d]
  BY PeriodFacts DEF SetAlarm

\* Where the threads may be.
ThreadsOK ==
    /\ act \in [Clock -> Acting]
    /\ At(RoundClock, RoundPlaces) /\ \A v \in View : At(v, ViewPlaces)

\* A thread that goes to a place of its own leaves all threads at theirs.
LEMMA ThreadsStay ==
    ASSUME ThreadsOK, act' \in [Clock -> Acting], NEW c \in Clock,
           \A d \in Clock : d # c => act'[d] = act[d],
           c = RoundClock => act'[c].at \in RoundPlaces,
           c \in View => act'[c].at \in ViewPlaces
    PROVE  ThreadsOK'
<1>1. At(RoundClock, RoundPlaces)'
  BY ClockFacts DEF ThreadsOK, At
<1>2. \A v \in View : At(v, ViewPlaces)'
  BY ClockFacts DEF ThreadsOK, At
<1> QED BY <1>1, <1>2 DEF ThreadsOK

LEMMA ThreadStep ==
    ASSUME TimersTypeOK, TimerComes, [Next]_vars
    PROVE  ThreadsOK'
<1>0. ThreadsOK /\ act \in [Clock -> Acting] /\ \A c \in Clock : act[c] \in Acting
  BY DEF ThreadsOK, TimersTypeOK
<1> USE DEF RoundPlaces, ViewPlaces
<1>2. ASSUME NEW c \in Clock, WakeUp(c) PROVE ThreadsOK'
  <2>1. GoTo(c, "woken")
    BY <1>2 DEF WakeUp, GoTo
  <2> QED BY <1>0, <2>1, Moved, ThreadsStay
<1>3. ASSUME NEW c \in Clock, SleepOn(c) PROVE ThreadsOK'
  BY <1>0, <1>3, Slept, AsleepFacts, ThreadsStay DEF SleepOn
<1>4. ASSUME NEW c \in Clock, Fire(c) PROVE ThreadsOK'
  <2>1. CASE c = RoundClock
    <3>1. GoTo(c, "look")
      BY <1>4, <2>1 DEF Fire
    <3> QED BY <1>0, <2>1, <3>1, Moved, ThreadsStay, ClockFacts
  <2>2. CASE c # RoundClock
    <3>1. GoTo(c, "push")
      BY <1>4, <2>2 DEF Fire
    <3> QED BY <1>0, <2>2, <3>1, Moved, ThreadsStay
  <2> QED BY <2>1, <2>2
<1>5. CASE Tick
  <2>1. \A c \in Clock : /\ Sooner(act[c]) \in Acting
                         /\ Sooner(act[c]).at = act[c].at
    <3> SUFFICES ASSUME NEW c \in Clock
                 PROVE  Sooner(act[c]) \in Acting /\ Sooner(act[c]).at = act[c].at
      OBVIOUS
    <3>1. act[c] \in Acting /\ act[c].due \in Time
      BY <1>0 DEF Acting
    <3>2. Sooner(act[c]) = act[c] \/ Sooner(act[c]) = [act[c] EXCEPT !.due = Less(act[c].due)]
      BY DEF Sooner
    <3>3. Less(act[c].due) \in Time
      BY <3>1, PeriodFacts
    <3> QED BY <3>1, <3>2, <3>3 DEF Acting
  <2>2. act' \in [Clock -> Acting] /\ \A c \in Clock : act'[c].at = act[c].at
    BY <1>5, <2>1 DEF Tick
  <2> QED BY <1>0, <2>2, ClockFacts DEF ThreadsOK, At
<1>6. CASE RoundStep
  <2>1. CASE ReadArmed
    <3> DEFINE a == [at |-> IF armed.due > 0 THEN "set" ELSE "fire",
                     view |-> armed.view, due |-> armed.due, rearmed |-> FALSE]
    <3>1. armed \in Timer
      BY <2>1 DEF ReadArmed, TimersTypeOK
    <3>2. a \in Acting /\ a.at \in RoundPlaces
      BY <3>1 DEF Acting, Timer
    <3>3. act' = [act EXCEPT ![RoundClock] = a]
      BY <2>1 DEF ReadArmed
    <3> HIDE DEF a
    <3> QED BY <1>0, <3>2, <3>3, Did, ThreadsStay, ClockFacts
  <2>2. CASE LookAtView
    <3>1. Sleeps(RoundClock) \/ GoTo(RoundClock, "rearm")
      BY <2>2 DEF LookAtView
    <3> QED BY <1>0, <3>1, Slept, Moved, AsleepFacts, ThreadsStay, ClockFacts
  <2>3. CASE Rearm
    <3>1. CASE Sleeps(RoundClock)
      BY <1>0, <3>1, Slept, AsleepFacts, ThreadsStay, ClockFacts
    <3>2. CASE ~ act[RoundClock].rearmed
      <4> DEFINE a == [act[RoundClock] EXCEPT !.at = "set", !.due = RoundPeriod]
      <4>1. act[RoundClock] \in Acting
        BY <1>0, ClockFacts
      <4>2. a \in Acting /\ a.at = "set"
        BY <4>1, PeriodFacts DEF Acting
      <4>3. act' = [act EXCEPT ![RoundClock] = a]
        BY <2>3, <3>2, <1>0, ClockFacts DEF Rearm
      <4> HIDE DEF a
      <4> QED BY <1>0, <4>2, <4>3, Did, ThreadsStay, ClockFacts
    <3> QED BY <2>3, <3>1, <3>2 DEF Rearm
  <2> QED BY <1>3, <1>4, <1>6, <2>1, <2>2, <2>3, ClockFacts DEF RoundStep
<1>7. ASSUME NEW v \in View, ViewStep(v) PROVE ThreadsOK'
  <2>0. v \in Clock /\ v # RoundClock /\ act[v] \in Acting
    BY <1>0, ClockFacts
  <2>1. CASE ReadCell(v)
    <3> DEFINE a == [act[v] EXCEPT !.at = "check", !.view = cell.view]
    <3>1. a \in Acting /\ a.at = "check"
      BY <2>0 DEF Acting, TimersTypeOK
    <3>2. act' = [act EXCEPT ![v] = a]
      BY <2>0, <2>1, <1>0 DEF ReadCell
    <3> HIDE DEF a
    <3> QED BY <1>0, <2>0, <3>1, <3>2, Did, ThreadsStay
  <2>2. CASE CheckSlot(v)
    <3> DEFINE a == IF ~ (HoldsSlot(v) /\ v >= act[v].view) THEN [act[v] EXCEPT !.at = "release"]
                    ELSE IF slot.due > 0 THEN [act[v] EXCEPT !.at = "set", !.due = slot.due]
                    ELSE [act[v] EXCEPT !.at = "fire", !.due = Refire]
    <3>1. HoldsSlot(v) => slot.due \in Time
      BY DEF HoldsSlot, TimersTypeOK, Timer
    <3>2. a \in Acting /\ a.at \in ViewPlaces
      BY <2>0, <3>1, PeriodFacts DEF Acting
    <3>3. act' = [act EXCEPT ![v] = a]
      BY <2>0, <2>2, <1>0 DEF CheckSlot
    <3> HIDE DEF a
    <3> QED BY <1>0, <2>0, <3>2, <3>3, Did, ThreadsStay
  <2>3. CASE PushSlot(v)
    BY <1>0, <2>0, <2>3, Moved, ThreadsStay DEF PushSlot
  <2>4. CASE Release(v)
    BY <1>0, <2>0, <2>4, Slept, AsleepFacts, ThreadsStay DEF Release
  <2> QED BY <1>3, <1>4, <1>7, <2>0, <2>1, <2>2, <2>3, <2>4 DEF ViewStep
<1>8. CASE Events \/ RaiseView \/ StartRound \/ CarryViewTimer \/ UpdateCell \/ PushBack
           \/ PushAlarm \/ ArmView \/ UNCHANGED vars
  <2>1. act' = act
    BY <1>8 DEF Events, Event, TakeTimeout, NewTransactions, RaiseView, StartRound, CarryViewTimer,
                UpdateCell, PushBack, PushAlarm, ArmView, vars
  <2> QED BY <1>0, <2>1 DEF ThreadsOK, At
<1>9. CASE ArmRound
  <2> DEFINE a == [act[RoundClock] EXCEPT !.rearmed = TRUE]
  <2>1. act[RoundClock] \in Acting /\ act[RoundClock].at \in RoundPlaces
    BY <1>0, ClockFacts DEF ThreadsOK, At
  <2>2. a \in Acting /\ a.at \in RoundPlaces
    BY <2>1 DEF Acting
  <2>3. act' = [act EXCEPT ![RoundClock] = a]
    BY <1>9, <1>0, ClockFacts DEF ArmRound
  <2> HIDE DEF a
  <2> QED BY <1>0, <2>2, <2>3, Did, ThreadsStay, ClockFacts
<1>10. CASE StartView
  <2>1. loop.view \in View
    BY DEF TimersTypeOK, Looping
  <2>2. Sleeps(loop.view)
    BY <1>10 DEF StartView, Sleeps
  <2> QED BY <1>0, <2>1, <2>2, Slept, AsleepFacts, ThreadsStay, ClockFacts
<1> QED BY <1>2, <1>5, <1>6, <1>7, <1>8, <1>9, <1>10 DEF Next, LoopStep

(* Types *)

LEMMA AlarmStep ==
    ASSUME TimersTypeOK, [Next]_vars
    PROVE  alarm' \in [Clock -> Time \cup {None}]
<1>1. /\ alarm \in [Clock -> Time \cup {None}] /\ loop.due \in Time /\ loop.view \in View
      /\ \A c \in Clock : act[c].due \in Time
  BY DEF TimersTypeOK, Looping, Acting
<1>2. ASSUME NEW c \in Clock, SleepOn(c) PROVE alarm' \in [Clock -> Time \cup {None}]
  BY <1>1, <1>2, AlarmSet DEF SleepOn
<1>3. CASE Tick
  BY <1>1, <1>3, PeriodFacts DEF Tick
<1>4. ASSUME NEW c \in Clock, WakeUp(c) PROVE alarm' \in [Clock -> Time \cup {None}]
  BY <1>1, <1>4 DEF WakeUp
<1>5. CASE StartRound \/ PushAlarm \/ StartView
  BY <1>1, <1>5, AlarmSet, ClockFacts DEF StartRound, PushAlarm, StartView
<1>6. CASE \/ Events \/ RaiseView \/ ArmRound \/ CarryViewTimer \/ UpdateCell \/ PushBack \/ ArmView
           \/ ReadArmed \/ LookAtView \/ Rearm \/ Fire(RoundClock)
           \/ \E v \in View : ReadCell(v) \/ CheckSlot(v) \/ PushSlot(v) \/ Release(v) \/ Fire(v)
           \/ UNCHANGED vars
  BY <1>1, <1>6 DEF Events, Event, TakeTimeout, NewTransactions, RaiseView, ArmRound, CarryViewTimer,
      UpdateCell, PushBack, ArmView, ReadArmed, LookAtView, Rearm, Fire, ReadCell, CheckSlot,
      PushSlot, Release, vars
<1> QED BY <1>2, <1>3, <1>4, <1>5, <1>6, ClockFacts DEF Next, LoopStep, RoundStep, ViewStep

LEMMA SoonerFacts ==
    ASSUME NEW timer \in Timer \cup {None}
    PROVE  /\ Sooner(timer) \in Timer \cup {None}
           /\ Sooner(timer) = None <=> timer = None
           /\ timer # None => Sooner(timer).view = timer.view
<1>1. CASE timer = None
  BY <1>1 DEF Sooner
<1>2. CASE timer \in Timer
  <2>1. timer # None /\ Sooner(timer) = [timer EXCEPT !.due = Less(timer.due)]
    BY <1>2, NoneIsNoTimer DEF Sooner
  <2>2. Sooner(timer) \in Timer /\ Sooner(timer).view = timer.view
    BY <1>2, <2>1, PeriodFacts DEF Timer
  <2> QED BY <2>1, <2>2, NoneIsNoTimer
<1> QED BY <1>1, <1>2

\* The round timer: armed, moved or brought nearer.
LEMMA ArmedStep ==
    ASSUME TimersTypeOK, TimerComes, [Next]_vars
    PROVE  /\ armed' \in Timer \cup {None}
           /\ ~ ArmRound => /\ armed' = None <=> armed = None
                            /\ armed # None => armed'.view = armed.view
<1>1. armed \in Timer \cup {None} /\ loop.view \in View
  BY DEF TimersTypeOK, Looping
<1>2. CASE Tick
  BY <1>1, <1>2, SoonerFacts DEF Tick
<1>3. CASE ArmRound
  BY <1>1, <1>3, PeriodFacts DEF ArmRound, Timer
<1>4. CASE Rearm
  <2>1. armed \in Timer /\ armed # None
    BY <1>1, <1>4 DEF Rearm, TimerComes, At
  <2>2. armed' = armed \/ armed' = [armed EXCEPT !.due = RoundPeriod]
    BY <1>4 DEF Rearm
  <2>3. armed' \in Timer /\ armed'.view = armed.view
    BY <2>1, <2>2, PeriodFacts DEF Timer
  <2> QED BY <2>1, <2>3, NoneIsNoTimer
<1>5. CASE \/ Events \/ RaiseView \/ StartRound \/ CarryViewTimer \/ UpdateCell \/ PushBack
           \/ PushAlarm \/ ArmView \/ StartView
           \/ ReadArmed \/ LookAtView \/ (\E c \in Clock : Fire(c) \/ SleepOn(c) \/ WakeUp(c))
           \/ \E v \in View : ReadCell(v) \/ CheckSlot(v) \/ PushSlot(v) \/ Release(v)
           \/ UNCHANGED vars
  <2>1. armed' = armed
    BY <1>5 DEF Events, Event, TakeTimeout, NewTransactions, RaiseView, StartRound, CarryViewTimer,
      UpdateCell, PushBack, PushAlarm, ArmView, StartView, ReadArmed, LookAtView, Fire, SleepOn, WakeUp,
      ReadCell, CheckSlot, PushSlot, Release, vars, sharedVars
  <2> QED BY <1>1, <2>1
<1> QED BY <1>2, <1>3, <1>4, <1>5, ClockFacts DEF Next, LoopStep, RoundStep, ViewStep

\* The view timer: only ArmView gives the slot to another view, and only the thread
\* that holds it gives it up.
LEMMA SlotStep ==
    ASSUME TimersTypeOK, [Next]_vars
    PROVE  /\ slot' \in Timer \cup {None}
           /\ ~ ArmView => \A v \in View : HoldsSlot(v)' => HoldsSlot(v)
           /\ ~ ArmView => \A v \in View : HoldsSlot(v) => HoldsSlot(v)' \/ Release(v)
<1>1. /\ slot \in Timer \cup {None} /\ loop.view \in View /\ cell.view \in View
      /\ \A c \in Clock : act[c].due \in Time
  BY DEF TimersTypeOK, Looping, Acting
<1> DEFINE Goal == /\ slot' \in Timer \cup {None}
                   /\ ~ ArmView => \A v \in View : HoldsSlot(v)' => HoldsSlot(v)
                   /\ ~ ArmView => \A v \in View : HoldsSlot(v) => HoldsSlot(v)' \/ Release(v)
<1>2. CASE Tick
  BY <1>1, <1>2, SoonerFacts DEF Tick, HoldsSlot
<1>3. CASE ArmView
  BY <1>1, <1>3, PeriodFacts DEF ArmView, Timer, HoldsSlot
<1>m. ASSUME slot \in Timer, NEW due \in Time, slot' = [slot EXCEPT !.due = due]
      PROVE  Goal
  <2>1. slot' \in Timer /\ slot'.view = slot.view
    BY <1>m DEF Timer
  <2> QED BY <2>1, <1>m, NoneIsNoTimer DEF HoldsSlot
<1>4. CASE PushBack
  <2>1. CASE slot' = slot
    BY <1>1, <2>1 DEF HoldsSlot
  <2>2. CASE slot' # slot
    <3>1. slot \in Timer /\ \E due \in Time : slot' = [slot EXCEPT !.due = due]
      BY <1>1, <1>4, <2>2, PeriodFacts DEF PushBack
    <3> QED BY <3>1, <1>m
  <2> QED BY <2>1, <2>2
<1>5. ASSUME NEW v \in View, PushSlot(v) PROVE Goal
  <2>1. CASE slot' = slot
    BY <1>1, <2>1 DEF HoldsSlot
  <2>2. CASE slot' # slot
    <3>1. slot \in Timer /\ slot' = [slot EXCEPT !.due = act[v].due] /\ act[v].due \in Time
      BY <1>1, <1>5, <2>2, ClockFacts DEF PushSlot, HoldsSlot
    <3> QED BY <3>1, <1>m
  <2> QED BY <2>1, <2>2
<1>6. ASSUME NEW v \in View, Release(v) PROVE Goal
  <2>1. slot' = slot \/ (HoldsSlot(v) /\ slot' = None)
    BY <1>6 DEF Release
  <2> QED BY <1>1, <1>6, <2>1 DEF HoldsSlot
<1>7. CASE \/ Events \/ RaiseView \/ ArmRound \/ StartRound \/ CarryViewTimer \/ UpdateCell
           \/ PushAlarm \/ StartView
           \/ ReadArmed \/ LookAtView \/ Rearm \/ (\E c \in Clock : Fire(c) \/ SleepOn(c) \/ WakeUp(c))
           \/ \E v \in View : ReadCell(v) \/ CheckSlot(v)
           \/ UNCHANGED vars
  <2>1. slot' = slot
    BY <1>7 DEF Events, Event, TakeTimeout, NewTransactions, RaiseView, ArmRound, StartRound,
      CarryViewTimer, UpdateCell, PushAlarm, StartView, ReadArmed, LookAtView, Rearm, Fire, SleepOn,
      WakeUp, ReadCell, CheckSlot, vars, sharedVars
  <2> QED BY <1>1, <2>1 DEF HoldsSlot
<1> QED BY <1>2, <1>3, <1>4, <1>5, <1>6, <1>7, ClockFacts DEF Next, LoopStep, RoundStep, ViewStep

\* Steps of the threads and of time leave the loop where it is.
Elsewhere == Tick \/ RoundStep \/ (\E v \in View : ViewStep(v)) \/ (\E c \in Clock : WakeUp(c))
             \/ UNCHANGED vars

LEMMA LoopStays ==
    ASSUME TimersTypeOK, Elsewhere
    PROVE  /\ loop' \in Looping /\ loop'.at = loop.at /\ loop'.resets = loop.resets
           /\ loop'.view = loop.view /\ view' = view /\ proposal' = proposal /\ cell' = cell
<1>0. loop \in Looping
  BY DEF TimersTypeOK
<1>1. CASE Tick
  <2>1. Less(loop.due) \in Time
    BY <1>0, PeriodFacts DEF Looping
  <2>2. loop' = loop \/ loop' = [loop EXCEPT !.due = Less(loop.due)]
    BY <1>1 DEF Tick, Sooner
  <2> QED BY <1>0, <1>1, <2>1, <2>2 DEF Tick, engineVars, Looping
<1>2. CASE ~ Tick
  <2>1. UNCHANGED <<view, proposal, cell, loop>>
    BY <1>2 DEF Elsewhere, RoundStep, ViewStep, ReadArmed, LookAtView, Rearm, Fire, SleepOn, WakeUp,
      ReadCell, CheckSlot, PushSlot, Release, engineVars, sharedVars, vars
  <2> QED BY <1>0, <2>1
<1> QED BY <1>1, <1>2

LEMMA UpdatedFacts ==
    ASSUME NEW l \in Looping, NEW r, r = Updated(l)
    PROVE  /\ r \in Looping /\ r.resets = l.resets /\ r.at # "start"
           /\ r.at \notin {"arm", "alarm"} /\ (r.at = "reset" => l.resets # <<>>)
           /\ r.at = "idle" => l.resets = <<>>
           /\ r.view = l.view \/ r.view = 0
<1>1. CASE l.timer
  <2>1. r = [l EXCEPT !.at = "timer", !.due = 0]
    BY <1>1 DEF Updated
  <2> QED BY <2>1, ClockFacts DEF Looping, LoopPlaces
<1>2. CASE ~ l.timer
  BY <1>2, GoesFacts DEF Updated
<1> QED BY <1>1, <1>2

\* The loop's own steps: what they leave to do.
LEMMA LoopGoes ==
    ASSUME TimersTypeOK, TimerComes, Events \/ LoopStep
    PROVE  /\ loop' \in Looping /\ view' \in View /\ proposal' \in BOOLEAN
           /\ cell' \in [view : View, proposal : BOOLEAN]
           /\ ~ Events => view' = view
           /\ ~ Events /\ ~ RaiseView => loop'.resets = loop.resets
           /\ loop'.at = "start" => ArmView
           /\ loop'.at = "arm" => RaiseView
           /\ loop'.at = "alarm" => ArmRound
           /\ loop'.at = "reset" => loop'.resets # <<>>
           /\ loop'.at = "idle" => loop'.resets = <<>>
<1>0. /\ loop \in Looping /\ view \in View /\ cell \in [view : View, proposal : BOOLEAN]
      /\ armed \in Timer \cup {None} /\ slot \in Timer \cup {None} /\ proposal \in BOOLEAN
  BY DEF TimersTypeOK
<1> DEFINE Goal == /\ loop' \in Looping /\ view' \in View /\ proposal' \in BOOLEAN
                   /\ cell' \in [view : View, proposal : BOOLEAN]
                   /\ ~ Events => view' = view
                   /\ ~ Events /\ ~ RaiseView => loop'.resets = loop.resets
                   /\ loop'.at = "start" => ArmView
                   /\ loop'.at = "arm" => RaiseView
                   /\ loop'.at = "alarm" => ArmRound
                   /\ loop'.at = "reset" => loop'.resets # <<>>
                   /\ loop'.at = "idle" => loop'.resets = <<>>
<1>1. CASE Events
  <2>0. cell' = cell
    BY <1>1 DEF Events, Event, TakeTimeout, NewTransactions, sharedVars
  <2>1. ASSUME NEW n \in 0 .. MaxResets, NEW passed \in [1 .. n -> View], Event(passed)
        PROVE  Goal
    <3>1. passed \in Seq(View)
      BY TimersAssumption
    <3> DEFINE l == [Idle EXCEPT !.resets = passed, !.sending = TRUE]
    <3>2. l \in Looping /\ loop' = Goes(l)
      BY <2>1, <3>1, IdleFacts DEF Looping, Event
    <3> HIDE DEF l
    <3>3. /\ loop' \in Looping /\ loop'.at \in {"reset", "update", "idle"}
          /\ loop'.at = "reset" => loop'.resets # <<>>
          /\ loop'.at = "idle" => loop'.resets = <<>>
      BY <3>2, GoesFacts
    <3>4. view' \in View /\ proposal' \in BOOLEAN
      <4>1. passed # <<>> => passed[Len(passed)] \in View
        BY <3>1
      <4> QED BY <1>0, <2>1, <4>1 DEF Event
    <3> QED BY <1>0, <1>1, <2>0, <3>3, <3>4
  <2>2. ASSUME NEW v \in View, TakeTimeout(v) PROVE Goal
    <3>1. [Idle EXCEPT !.sending = TRUE] \in Looping
      BY IdleFacts DEF Looping
    <3>2. /\ loop' \in Looping
          /\ loop'.at \in {"reset", "update", "idle"} /\ (loop'.at = "reset" => loop'.resets # <<>>)
          /\ loop'.at = "idle" => loop'.resets = <<>>
      BY <2>2, <3>1, GoesFacts DEF TakeTimeout
    <3>3. view' = view /\ proposal' = proposal
      BY <2>2 DEF TakeTimeout, engineVars
    <3> QED BY <1>0, <1>1, <2>0, <3>2, <3>3
  <2>3. CASE NewTransactions
    <3>1. loop' \in Looping /\ loop'.at = "update"
      BY <2>3, IdleFacts DEF NewTransactions, Looping, LoopPlaces
    <3>2. view' = view /\ proposal' = proposal
      BY <2>3 DEF NewTransactions, engineVars
    <3> QED BY <1>0, <1>1, <2>0, <3>1, <3>2
  <2> QED BY <1>1, <2>1, <2>2, <2>3 DEF Events
<1>2. CASE RaiseView
  <2>1. loop.resets # <<>> /\ Head(loop.resets) \in View /\ Tail(loop.resets) \in Seq(View)
    BY <1>0, <1>2 DEF RaiseView, TimerComes, Looping
  <2>2. loop' = [loop EXCEPT !.at = "arm", !.view = Head(loop.resets), !.resets = Tail(loop.resets)]
    BY <1>2 DEF RaiseView
  <2>3. loop' \in Looping /\ loop'.at = "arm"
    BY <1>0, <2>1, <2>2 DEF Looping, LoopPlaces
  <2>4. cell' \in [view : View, proposal : BOOLEAN]
    BY <1>0, <1>2, <2>1 DEF RaiseView
  <2> QED BY <1>0, <1>2, <2>3, <2>4 DEF RaiseView, engineVars
<1>3. CASE ArmRound
  <2>1. loop' = [loop EXCEPT !.at = "alarm", !.due = RoundPeriod]
    BY <1>3 DEF ArmRound
  <2>2. loop' \in Looping /\ loop'.at = "alarm" /\ loop'.resets = loop.resets
    BY <1>0, <2>1, PeriodFacts DEF Looping, LoopPlaces
  <2> QED BY <1>0, <1>3, <2>2 DEF ArmRound, engineVars
<1>4. CASE StartRound
  <2>1. loop' = [loop EXCEPT !.at = "carry", !.due = 0]
    BY <1>4 DEF StartRound
  <2>2. loop' \in Looping /\ loop'.at = "carry" /\ loop'.resets = loop.resets
    BY <1>0, <2>1, ClockFacts DEF Looping, LoopPlaces
  <2> QED BY <1>0, <1>4, <2>2 DEF StartRound, engineVars, sharedVars
<1>5. CASE CarryViewTimer
  <2>1. loop' = Goes(loop) \/ loop' = [loop EXCEPT !.at = "update", !.timer = TRUE, !.view = 0]
    BY <1>5 DEF CarryViewTimer
  <2>2. /\ loop' \in Looping /\ loop'.resets = loop.resets /\ loop'.at \in {"reset", "update", "idle"}
        /\ loop'.at = "reset" => loop'.resets # <<>>
        /\ loop'.at = "idle" => loop'.resets = <<>>
    <3>1. CASE loop' = Goes(loop)
      BY <1>0, <3>1, GoesFacts
    <3>2. CASE loop' = [loop EXCEPT !.at = "update", !.timer = TRUE, !.view = 0]
      BY <1>0, <3>2, ClockFacts DEF Looping, LoopPlaces
    <3> QED BY <2>1, <3>1, <3>2
  <2> QED BY <1>0, <1>5, <2>2 DEF CarryViewTimer, engineVars, sharedVars
<1>6. CASE UpdateCell
  <2>1. loop' = Updated(loop) \/ loop' = [loop EXCEPT !.at = "landed"]
    BY <1>6 DEF UpdateCell
  <2>2. /\ loop' \in Looping /\ loop'.resets = loop.resets /\ loop'.at \notin {"start", "arm", "alarm"}
        /\ loop'.at = "reset" => loop'.resets # <<>>
        /\ loop'.at = "idle" => loop'.resets = <<>>
    <3>1. CASE loop' = Updated(loop)
      BY <1>0, <3>1, UpdatedFacts
    <3>2. CASE loop' = [loop EXCEPT !.at = "landed"]
      BY <1>0, <3>2 DEF Looping, LoopPlaces
    <3> QED BY <2>1, <3>1, <3>2
  <2> QED BY <1>0, <1>6, <2>2 DEF UpdateCell, engineVars
<1>7. CASE PushBack
  <2>1. /\ loop' \in Looping /\ loop'.resets = loop.resets /\ loop'.at \notin {"start", "arm", "alarm"}
        /\ loop'.at = "reset" => loop'.resets # <<>>
        /\ loop'.at = "idle" => loop'.resets = <<>>
    <3>1. CASE loop' = Updated(loop)
      BY <1>0, <3>1, UpdatedFacts
    <3>2. ASSUME slot # None, NEW due \in Time,
                 loop' = [loop EXCEPT !.at = "pushed", !.view = slot.view, !.due = due]
          PROVE  loop' \in Looping /\ loop'.resets = loop.resets /\ loop'.at = "pushed"
      <4>1. slot.view \in View
        BY <1>0, <3>2 DEF Timer
      <4> QED BY <1>0, <3>2, <4>1 DEF Looping, LoopPlaces
    <3> QED BY <1>7, <3>1, <3>2, PeriodFacts DEF PushBack
  <2> QED BY <1>0, <1>7, <2>1 DEF PushBack, engineVars
<1>8. CASE PushAlarm
  <2>1. loop' = Updated(loop)
    BY <1>8 DEF PushAlarm
  <2> QED BY <1>0, <1>8, <2>1, UpdatedFacts DEF PushAlarm, engineVars, sharedVars
<1>9. CASE ArmView
  <2>1. /\ loop' \in Looping /\ loop'.resets = loop.resets /\ loop'.at \notin {"arm", "alarm"}
        /\ loop'.at = "reset" => loop'.resets # <<>>
        /\ loop'.at = "idle" => loop'.resets = <<>>
    <3>1. CASE loop' = Goes(loop)
      BY <1>0, <3>1, GoesFacts
    <3>2. ASSUME NEW due \in Time,
                 loop' = [loop EXCEPT !.at = "start", !.view = cell.view, !.due = due]
          PROVE  loop' \in Looping /\ loop'.resets = loop.resets /\ loop'.at = "start"
      BY <1>0, <3>2 DEF Looping, LoopPlaces
    <3> QED BY <1>9, <3>1, <3>2, PeriodFacts DEF ArmView
  <2> QED BY <1>0, <1>9, <2>1 DEF ArmView, engineVars
<1>10. CASE StartView
  <2>1. loop' = Goes(loop)
    BY <1>10 DEF StartView
  <2> QED BY <1>0, <1>10, <2>1, GoesFacts DEF StartView, engineVars, sharedVars
<1> QED BY <1>1, <1>2, <1>3, <1>4, <1>5, <1>6, <1>7, <1>8, <1>9, <1>10 DEF LoopStep

LEMMA Steps ==
    ASSUME [Next]_vars
    PROVE  Elsewhere \/ Events \/ LoopStep
  BY DEF Next, Elsewhere

LEMMA ChannelStep ==
    ASSUME TimersTypeOK, [Next]_vars
    PROVE  /\ timeouts' \in SUBSET View
           /\ timeouts' \subseteq timeouts \/ \E c \in Clock : timeouts' = timeouts \cup {act[c].view}
<1>1. timeouts \in SUBSET View /\ \A c \in Clock : act[c].view \in View
  BY DEF TimersTypeOK, Acting
<1>2. ASSUME NEW c \in Clock, Fire(c) PROVE timeouts' = timeouts \cup {act[c].view}
  BY <1>2 DEF Fire
<1>3. ASSUME ~ \E c \in Clock : Fire(c) PROVE timeouts' \subseteq timeouts
  BY <1>3, ClockFacts DEF Next, Events, LoopStep, RoundStep, ViewStep, Tick, Event, TakeTimeout, NewTransactions, RaiseView, ArmRound, StartRound,
     CarryViewTimer, UpdateCell, PushBack, PushAlarm, ArmView, StartView, ReadArmed, LookAtView, Rearm,
     SleepOn, WakeUp, ReadCell, CheckSlot, PushSlot, Release, vars
<1> QED BY <1>1, <1>2, <1>3

LEMMA TypeStep ==
    ASSUME TimersTypeOK, TimerComes, [Next]_vars
    PROVE  TimersTypeOK'
<1>1. CASE Elsewhere
  BY <1>1, LoopStays, ThreadStep, AlarmStep, ArmedStep, SlotStep, ChannelStep DEF TimersTypeOK, ThreadsOK
<1>2. CASE Events \/ LoopStep
  BY <1>2, LoopGoes, ThreadStep, AlarmStep, ArmedStep, SlotStep, ChannelStep DEF TimersTypeOK, ThreadsOK
<1> QED BY <1>1, <1>2, Steps

(* Nothing is ahead of the node's view *)

\* What the engine passes into is later than where it was, and the last is where it is.
LEMMA EventFacts ==
    ASSUME TimersTypeOK, TimerComes, Events
    PROVE  /\ view' \in View /\ view' >= view
           /\ \A i \in 1 .. Len(loop'.resets) : loop'.resets[i] <= view'
           /\ loop'.view = 0
           /\ loop'.resets # <<>> => loop'.resets[Len(loop'.resets)] = view'
           /\ loop'.resets = <<>> => view' = view
           /\ loop.at = "idle" /\ loop.resets = <<>>
<1>0. view \in View /\ view \in Int
  BY ViewFacts DEF TimersTypeOK
<1>1. ASSUME NEW n \in 0 .. MaxResets, NEW passed \in [1 .. n -> View], Event(passed)
      PROVE  /\ view' \in View /\ view' >= view /\ loop'.resets = passed /\ loop'.view = 0
             /\ \A i \in 1 .. Len(passed) : passed[i] <= view'
             /\ passed # <<>> => passed[Len(passed)] = view'
             /\ passed = <<>> => view' = view
  <2>1. passed \in Seq(View)
    BY TimersAssumption
  <2> DEFINE l == [Idle EXCEPT !.resets = passed, !.sending = TRUE]
  <2>2. l \in Looping /\ loop' = Goes(l) /\ l.resets = passed
    BY <1>1, <2>1, IdleFacts DEF Looping, Event
  <2> HIDE DEF l
  <2>3. loop'.resets = passed /\ loop'.view = 0
    BY <2>2, GoesFacts
  <2>4. CASE passed = <<>>
    BY <1>0, <1>1, <2>3, <2>4 DEF Event
  <2>5. CASE passed # <<>>
    <3>1. view' = passed[Len(passed)] /\ Len(passed) \in 1 .. Len(passed)
      BY <1>1, <2>1, <2>5 DEF Event
    <3>2. \A i \in 1 .. Len(passed) : passed[i] \in View /\ passed[i] \in Int
      BY <2>1, ViewFacts
    <3>3. \A i \in 1 .. Len(passed) : passed[i] <= passed[Len(passed)] /\ passed[i] > view
      BY <1>1, <2>1, <3>2 DEF Event
    <3>4. view' \in View /\ view' >= view
      BY <3>1, <3>3, <3>2, <1>0
    <3>5. \A i \in 1 .. Len(passed) : passed[i] <= view'
      BY <3>1, <3>3
    <3> QED BY <2>3, <2>5, <3>1, <3>4, <3>5
  <2> QED BY <2>4, <2>5
<1>2. ASSUME NEW v \in View, TakeTimeout(v)
      PROVE  view' = view /\ loop'.resets = <<>> /\ loop'.view = 0
  <2> DEFINE l == [Idle EXCEPT !.sending = TRUE]
  <2>1. l \in Looping /\ loop' = Goes(l) /\ l.resets = <<>>
    BY <1>2, IdleFacts DEF Looping, TakeTimeout
  <2> HIDE DEF l
  <2> QED BY <1>2, <2>1, GoesFacts DEF TakeTimeout, engineVars
<1>3. ASSUME NewTransactions PROVE view' = view /\ loop'.resets = <<>> /\ loop'.view = 0
  BY <1>3 DEF NewTransactions, Idle, engineVars
<1>4. loop.at = "idle" /\ loop.resets = <<>>
  BY DEF Events, Event, TakeTimeout, NewTransactions, TimerComes
<1>5. CASE \E n \in 0 .. MaxResets : \E passed \in [1 .. n -> View] : Event(passed)
  <2>1. PICK n \in 0 .. MaxResets : \E passed \in [1 .. n -> View] : Event(passed)
    BY <1>5
  <2>2. PICK passed \in [1 .. n -> View] : Event(passed)
    BY <2>1
  <2> QED BY <2>2, <1>1, <1>4
<1>6. CASE NewTransactions \/ \E v \in View : TakeTimeout(v)
  <2>1. view' = view /\ loop'.resets = <<>> /\ loop'.view = 0
    BY <1>2, <1>3, <1>6
  <2> QED BY <1>0, <2>1, <1>4
<1> QED BY <1>5, <1>6 DEF Events

LEMMA ActViews ==
    ASSUME TimersTypeOK, NothingAhead, [Next]_vars
    PROVE  \A c \in Clock : act'[c].view <= view
<1>0. /\ act \in [Clock -> Acting] /\ view \in View /\ 0 <= view
      /\ \A c \in Clock : act[c].view <= view
  BY ClockFacts DEF TimersTypeOK, NothingAhead
<1> USE DEF RoundPlaces, ViewPlaces
<1>1. ASSUME NEW c \in Clock, NEW a \in Acting, act' = [act EXCEPT ![c] = a], a.view <= view
      PROVE  \A d \in Clock : act'[d].view <= view
  BY <1>0, <1>1, Did
<1>2. ASSUME NEW c \in Clock, NEW at \in RoundPlaces \cup ViewPlaces, GoTo(c, at)
      PROVE  \A d \in Clock : act'[d].view <= view
  <2>1. act'[c].view = act[c].view /\ \A d \in Clock : d # c => act'[d] = act[d]
    BY <1>0, <1>2, Moved
  <2> QED BY <1>0, <2>1
<1>3. ASSUME NEW c \in Clock, Sleeps(c) PROVE \A d \in Clock : act'[d].view <= view
  <2>1. act'[c].view = 0 /\ \A d \in Clock : d # c => act'[d] = act[d]
    BY <1>0, <1>3, Slept, AsleepFacts
  <2> QED BY <1>0, <2>1
<1>4. ASSUME act' = act PROVE \A d \in Clock : act'[d].view <= view
  BY <1>0, <1>4
<1>5. CASE Tick
  <2>1. \A c \in Clock : act'[c].view = act[c].view
    <3> SUFFICES ASSUME NEW c \in Clock PROVE Sooner(act[c]).view = act[c].view
      BY <1>5 DEF Tick
    <3>1. act[c] \in Acting
      BY <1>0
    <3>2. Sooner(act[c]) = act[c] \/ Sooner(act[c]) = [act[c] EXCEPT !.due = Less(act[c].due)]
      BY DEF Sooner
    <3> QED BY <3>1, <3>2 DEF Acting
  <2> QED BY <1>0, <2>1
<1>6. ASSUME NEW c \in Clock, WakeUp(c) \/ SleepOn(c) \/ Fire(c)
      PROVE  \A d \in Clock : act'[d].view <= view
  <2>1. Sleeps(c) \/ GoTo(c, "woken") \/ GoTo(c, "look") \/ GoTo(c, "push")
    BY <1>6 DEF WakeUp, SleepOn, Fire, GoTo
  <2> QED BY <2>1, <1>2, <1>3
<1>7. CASE ReadArmed
  <2> DEFINE a == [at |-> IF armed.due > 0 THEN "set" ELSE "fire",
                   view |-> armed.view, due |-> armed.due, rearmed |-> FALSE]
  <2>1. armed \in Timer /\ armed.view <= view
    BY <1>7 DEF ReadArmed, TimersTypeOK, NothingAhead
  <2>2. a \in Acting /\ a.view <= view
    BY <2>1 DEF Acting, Timer
  <2>3. act' = [act EXCEPT ![RoundClock] = a]
    BY <1>7 DEF ReadArmed
  <2> HIDE DEF a
  <2> QED BY <2>2, <2>3, <1>1, ClockFacts
<1>8. CASE LookAtView
  BY <1>8, <1>2, <1>3, ClockFacts DEF LookAtView
<1>9. CASE Rearm
  <2>1. CASE Sleeps(RoundClock)
    BY <2>1, <1>3, ClockFacts
  <2>2. CASE ~ act[RoundClock].rearmed
    <3> DEFINE a == [act[RoundClock] EXCEPT !.at = "set", !.due = RoundPeriod]
    <3>1. act[RoundClock] \in Acting /\ act[RoundClock].view <= view
      BY <1>0, ClockFacts
    <3>2. a \in Acting /\ a.view <= view
      BY <3>1, PeriodFacts DEF Acting
    <3>3. act' = [act EXCEPT ![RoundClock] = a]
      BY <1>9, <2>2, <1>0, ClockFacts DEF Rearm
    <3> HIDE DEF a
    <3> QED BY <3>2, <3>3, <1>1, ClockFacts
  <2> QED BY <1>9, <2>1, <2>2 DEF Rearm
<1>10. ASSUME NEW v \in View, ReadCell(v) PROVE \A d \in Clock : act'[d].view <= view
  <2> DEFINE a == [act[v] EXCEPT !.at = "check", !.view = cell.view]
  <2>1. act[v] \in Acting /\ cell.view \in View /\ cell.view <= view /\ v \in Clock
    BY <1>0, ClockFacts DEF TimersTypeOK, NothingAhead
  <2>2. a \in Acting /\ a.view <= view
    BY <2>1 DEF Acting
  <2>3. act' = [act EXCEPT ![v] = a]
    BY <1>10, <1>0, <2>1 DEF ReadCell
  <2> HIDE DEF a
  <2> QED BY <2>1, <2>2, <2>3, <1>1
<1>11. ASSUME NEW v \in View, CheckSlot(v) PROVE \A d \in Clock : act'[d].view <= view
  <2> DEFINE a == IF ~ (HoldsSlot(v) /\ v >= act[v].view) THEN [act[v] EXCEPT !.at = "release"]
                  ELSE IF slot.due > 0 THEN [act[v] EXCEPT !.at = "set", !.due = slot.due]
                  ELSE [act[v] EXCEPT !.at = "fire", !.due = Refire]
  <2>1. act[v] \in Acting /\ v \in Clock /\ (HoldsSlot(v) => slot.due \in Time)
    BY <1>0, ClockFacts DEF HoldsSlot, TimersTypeOK, Timer
  <2>2. a \in Acting /\ a.view = act[v].view
    BY <2>1, PeriodFacts DEF Acting
  <2>3. act' = [act EXCEPT ![v] = a]
    BY <1>11, <1>0, <2>1 DEF CheckSlot
  <2> HIDE DEF a
  <2> QED BY <2>1, <2>2, <2>3, <1>0, <1>1
<1>12. ASSUME NEW v \in View, PushSlot(v) \/ Release(v) PROVE \A d \in Clock : act'[d].view <= view
  <2>1. GoTo(v, "set") \/ Sleeps(v)
    BY <1>12 DEF PushSlot, Release
  <2> QED BY <2>1, <1>2, <1>3, ClockFacts
<1>13. CASE ArmRound
  <2> DEFINE a == [act[RoundClock] EXCEPT !.rearmed = TRUE]
  <2>1. act[RoundClock] \in Acting /\ act[RoundClock].view <= view
    BY <1>0, ClockFacts
  <2>2. a \in Acting /\ a.view <= view
    BY <2>1 DEF Acting
  <2>3. act' = [act EXCEPT ![RoundClock] = a]
    BY <1>13, <1>0, ClockFacts DEF ArmRound
  <2> HIDE DEF a
  <2> QED BY <2>2, <2>3, <1>1, ClockFacts
<1>14. CASE StartView
  <2>1. Sleeps(loop.view) /\ loop.view \in Clock
    BY <1>14, ClockFacts DEF StartView, Sleeps, TimersTypeOK, Looping
  <2> QED BY <2>1, <1>3
<1>15. CASE Events \/ RaiseView \/ StartRound \/ CarryViewTimer \/ UpdateCell \/ PushBack
           \/ PushAlarm \/ ArmView \/ UNCHANGED vars
  BY <1>15, <1>4 DEF Events, Event, TakeTimeout, NewTransactions, RaiseView, StartRound,
     CarryViewTimer, UpdateCell, PushBack, PushAlarm, ArmView, vars
<1> QED BY <1>5, <1>6, <1>7, <1>8, <1>9, <1>10, <1>11, <1>12, <1>13, <1>14, <1>15, ClockFacts
        DEF Next, LoopStep, RoundStep, ViewStep

\* What the loop's own steps write into the shared cell and into its own record.
LEMMA LoopViews ==
    ASSUME TimersTypeOK, TimerComes, NothingAhead, LoopStep
    PROVE  /\ cell'.view >= cell.view /\ cell'.view <= view /\ loop'.view <= view
           /\ \A i \in 1 .. Len(loop'.resets) : loop'.resets[i] <= view
<1>0. /\ loop \in Looping /\ loop.view \in View /\ view \in View /\ cell.view \in View
      /\ cell.view <= view /\ loop.view <= view /\ 0 <= view
      /\ view \in Int /\ cell.view \in Int
      /\ \A i \in 1 .. Len(loop.resets) : loop.resets[i] <= view
  BY ViewFacts DEF TimersTypeOK, NothingAhead, Looping
<1>1. CASE RaiseView
  <2>1. /\ loop.resets \in Seq(View) /\ loop.resets # <<>>
    BY <1>0, <1>1 DEF RaiseView, TimerComes, Looping
  <2>2. /\ Head(loop.resets) = loop.resets[1] /\ 1 \in 1 .. Len(loop.resets)
        /\ Len(Tail(loop.resets)) = Len(loop.resets) - 1
        /\ \A i \in 1 .. Len(loop.resets) - 1 :
              Tail(loop.resets)[i] = loop.resets[i + 1] /\ i + 1 \in 1 .. Len(loop.resets)
    BY <2>1
  <2>3. /\ loop' = [loop EXCEPT !.at = "arm", !.view = Head(loop.resets), !.resets = Tail(loop.resets)]
        /\ cell' = [cell EXCEPT !.view = IF Head(loop.resets) > @ THEN Head(loop.resets) ELSE @]
    BY <1>1 DEF RaiseView
  <2>4. loop'.view = Head(loop.resets) /\ loop'.resets = Tail(loop.resets)
    BY <1>0, <2>3 DEF Looping
  <2>5. cell'.view = IF Head(loop.resets) > cell.view THEN Head(loop.resets) ELSE cell.view
    BY <2>3 DEF TimersTypeOK
  <2>6. Head(loop.resets) \in View /\ Head(loop.resets) <= view
    BY <1>0, <2>1, <2>2
  <2>7. Head(loop.resets) \in Int
    BY <2>6, ViewFacts
  <2>8. cell'.view >= cell.view /\ cell'.view <= view
    BY <1>0, <2>5, <2>6, <2>7
  <2> QED BY <1>0, <2>2, <2>4, <2>6, <2>8
<1>2. ASSUME loop'.view \in {loop.view, 0, view} \cup {v \in View : v <= view}, loop'.resets = loop.resets,
             cell'.view = cell.view \/ cell'.view = view
      PROVE  /\ cell'.view >= cell.view /\ cell'.view <= view /\ loop'.view <= view
             /\ \A i \in 1 .. Len(loop'.resets) : loop'.resets[i] <= view
  <2>1. cell'.view >= cell.view /\ cell'.view <= view
    BY <1>0, <1>2
  <2> QED BY <1>0, <1>2, <2>1
<1>3. CASE ArmRound \/ StartRound \/ CarryViewTimer \/ PushAlarm \/ StartView
  <2>1. cell' = cell
    BY <1>3 DEF ArmRound, StartRound, CarryViewTimer, PushAlarm, StartView, sharedVars
  <2>2. \/ loop' = Goes(loop) \/ loop' = Updated(loop)
        \/ loop' = [loop EXCEPT !.at = "alarm", !.due = RoundPeriod]
        \/ loop' = [loop EXCEPT !.at = "carry", !.due = 0]
        \/ loop' = [loop EXCEPT !.at = "update", !.timer = TRUE, !.view = 0]
    BY <1>3 DEF ArmRound, StartRound, CarryViewTimer, PushAlarm, StartView
  <2>3. loop'.view \in {loop.view, 0} /\ loop'.resets = loop.resets
    BY <1>0, <2>2, GoesFacts, UpdatedFacts DEF Looping
  <2> QED BY <2>1, <2>3, <1>2
<1>4. CASE UpdateCell
  <2>1. loop' = Updated(loop) \/ loop' = [loop EXCEPT !.at = "landed"]
    BY <1>4 DEF UpdateCell
  <2>2. loop'.view \in {loop.view, 0} /\ loop'.resets = loop.resets
    BY <1>0, <2>1, UpdatedFacts DEF Looping
  <2>3. cell'.view = view
    BY <1>4 DEF UpdateCell
  <2> QED BY <2>2, <2>3, <1>2
<1>5. CASE PushBack
  <2>1. cell' = cell
    BY <1>5 DEF PushBack
  <2>2. CASE loop' = Updated(loop)
    BY <1>0, <2>1, <2>2, <1>2, UpdatedFacts
  <2>3. ASSUME slot # None, NEW due,
               loop' = [loop EXCEPT !.at = "pushed", !.view = slot.view, !.due = due]
        PROVE  loop'.view \in {v \in View : v <= view} /\ loop'.resets = loop.resets
    BY <1>0, <2>3 DEF Looping, TimersTypeOK, Timer, NothingAhead
  <2> QED BY <1>5, <2>1, <2>2, <2>3, <1>2 DEF PushBack
<1>6. CASE ArmView
  <2>1. cell' = cell
    BY <1>6 DEF ArmView
  <2>2. CASE loop' = Goes(loop)
    BY <1>0, <2>1, <2>2, <1>2, GoesFacts
  <2>3. ASSUME NEW due, loop' = [loop EXCEPT !.at = "start", !.view = cell.view, !.due = due]
        PROVE  loop'.view \in {v \in View : v <= view} /\ loop'.resets = loop.resets
    BY <1>0, <2>3 DEF Looping
  <2> QED BY <1>6, <2>1, <2>2, <2>3, <1>2 DEF ArmView
<1> QED BY <1>1, <1>3, <1>4, <1>5, <1>6 DEF LoopStep

LEMMA AheadStep ==
    ASSUME TimersTypeOK, TimerComes, NothingAhead, [Next]_vars
    PROVE  NothingAhead' /\ view' >= view /\ cell'.view >= cell.view
<1>0. /\ view \in View /\ cell.view \in View /\ view \in Int /\ cell.view \in Int
      /\ cell.view <= view /\ loop.view <= view /\ loop.view \in Int
      /\ \A i \in 1 .. Len(loop.resets) : loop.resets[i] <= view
  BY ViewFacts DEF TimersTypeOK, NothingAhead, Looping
<1>t. TimersTypeOK'
  BY TypeStep
<1>1. view' \in Int /\ view' >= view
  <2>1. CASE Elsewhere \/ LoopStep
    <3>1. view' = view
      BY <2>1, LoopStays DEF LoopStep, RaiseView, ArmRound, StartRound, CarryViewTimer, UpdateCell,
       PushBack, PushAlarm, ArmView, StartView, engineVars
    <3> QED BY <1>0, <3>1
  <2>2. CASE Events
    BY <2>2, EventFacts, ViewFacts
  <2> QED BY <2>1, <2>2, Steps
<1>2. /\ cell'.view >= cell.view /\ cell'.view <= view' /\ loop'.view <= view'
      /\ \A i \in 1 .. Len(loop'.resets) : loop'.resets[i] <= view'
  <2>1. CASE Elsewhere
    <3>1. view' = view /\ cell' = cell /\ loop'.view = loop.view /\ loop'.resets = loop.resets
      BY <2>1, LoopStays
    <3> QED BY <1>0, <3>1
  <2>2. CASE LoopStep
    <3>1. view' = view
      BY <2>2 DEF LoopStep, RaiseView, ArmRound, StartRound, CarryViewTimer, UpdateCell,
       PushBack, PushAlarm, ArmView, StartView, engineVars
    <3> QED BY <2>2, <3>1, LoopViews
  <2>3. CASE Events
    <3>1. cell' = cell
      BY <2>3 DEF Events, Event, TakeTimeout, NewTransactions, sharedVars
    <3>2. cell.view <= view' /\ 0 <= view'
      BY <1>0, <1>1, <1>t, ViewFacts DEF NothingAhead, TimersTypeOK
    <3> QED BY <1>0, <2>3, <3>1, <3>2, EventFacts
  <2> QED BY <2>1, <2>2, <2>3, Steps
<1>3. armed' # None => armed'.view <= view'
  <2>1. CASE ArmRound
    <3>1. armed'.view = loop.view /\ view' = view
      BY <2>1 DEF ArmRound, engineVars
    <3> QED BY <1>0, <3>1
  <2>2. CASE ~ ArmRound
    <3>1. armed' # None => armed # None /\ armed'.view = armed.view /\ armed.view <= view /\ armed.view \in View
      BY <2>2, ArmedStep DEF NothingAhead, TimersTypeOK, Timer
    <3>2. ASSUME armed' # None PROVE armed'.view <= view'
      <4>1. armed'.view \in Int /\ armed'.view <= view
        BY <3>1, <3>2, ViewFacts
      <4> QED BY <1>0, <1>1, <4>1
    <3> QED BY <3>2
  <2> QED BY <2>1, <2>2
<1>4. slot' # None => slot'.view <= view'
  <2>1. CASE ArmView
    <3>1. (slot' = slot \/ slot'.view = cell.view) /\ view' = view
      BY <2>1 DEF ArmView, engineVars
    <3> QED BY <1>0, <3>1 DEF NothingAhead
  <2>2. CASE ~ ArmView
    <3>1. ASSUME slot' # None PROVE slot'.view <= view'
      <4>1. slot'.view \in View
        BY <3>1, <1>t DEF TimersTypeOK, Timer
      <4>2. slot # None /\ slot.view = slot'.view
        BY <2>2, <3>1, <4>1, SlotStep DEF HoldsSlot
      <4>3. slot'.view <= view /\ slot'.view \in Int
        BY <4>1, <4>2, ViewFacts DEF NothingAhead
      <4> QED BY <1>0, <1>1, <4>3
    <3> QED BY <3>1
  <2> QED BY <2>1, <2>2
<1>5. \A c \in Clock : act'[c].view <= view'
  <2>1. \A c \in Clock : act'[c].view \in Int /\ act'[c].view <= view
    BY <1>t, ActViews, ViewFacts DEF TimersTypeOK, Acting
  <2> QED BY <1>0, <1>1, <2>1
<1>6. NoTimeLoop'
  <2>1. \A v \in timeouts' : v \in View /\ v <= view
    BY <1>t, ChannelStep DEF NothingAhead, NoTimeLoop, TimersTypeOK
  <2>2. \A v \in timeouts' : v \in Int /\ v <= view
    BY <2>1, ViewFacts
  <2>3. \A v \in timeouts' : v <= view'
    BY <1>0, <1>1, <2>2
  <2> QED BY <2>3 DEF NoTimeLoop
<1> QED BY <1>1, <1>2, <1>3, <1>4, <1>5, <1>6 DEF NothingAhead

(* The round timer is on its way *)

\* A round clock that has no timer yet to read goes no further than waking up.
LEMMA BeforeTheFirst ==
    ASSUME TimersTypeOK, Elsewhere, armed = None, At(RoundClock, {"asleep", "woken"})
    PROVE  At(RoundClock, {"asleep", "woken"})'
<1>0. act \in [Clock -> Acting] /\ act[RoundClock].at \in {"asleep", "woken"} /\ RoundClock \in Clock
      /\ act[RoundClock] \in Acting
  BY ClockFacts DEF TimersTypeOK, At
<1> USE DEF RoundPlaces, ViewPlaces
<1>1. CASE Tick
  <2>1. Sooner(act[RoundClock]) = act[RoundClock]
          \/ Sooner(act[RoundClock]) = [act[RoundClock] EXCEPT !.due = Less(act[RoundClock].due)]
    BY DEF Sooner
  <2>2. Sooner(act[RoundClock]).at = act[RoundClock].at
    BY <1>0, <2>1 DEF Acting
  <2> QED BY <1>0, <1>1, <2>2 DEF Tick, At
<1>2. ASSUME NEW c \in Clock, WakeUp(c) PROVE At(RoundClock, {"asleep", "woken"})'
  <2>1. GoTo(c, "woken")
    BY <1>2 DEF WakeUp, GoTo
  <2> QED BY <1>0, <2>1, Moved DEF At
<1>3. ~ RoundStep
  BY <1>0 DEF RoundStep, ReadArmed, LookAtView, Rearm, Fire, SleepOn
<1>4. ASSUME NEW v \in View, ViewStep(v) PROVE At(RoundClock, {"asleep", "woken"})'
  <2>1. v # RoundClock /\ v \in Clock
    BY ClockFacts
  <2>2. act'[RoundClock] = act[RoundClock]
    BY <1>0, <1>4, <2>1 DEF ViewStep, ReadCell, CheckSlot, PushSlot, Release, Fire, SleepOn, GoTo, Sleeps
  <2> QED BY <1>0, <2>2 DEF At
<1>5. CASE UNCHANGED vars
  BY <1>0, <1>5 DEF vars, At
<1> QED BY <1>1, <1>2, <1>3, <1>4, <1>5 DEF Elsewhere

LEMMA ComesStep ==
    ASSUME TimersTypeOK, TimerComes, [Next]_vars
    PROVE  TimerComes'
<1>1. /\ loop'.at = "reset" => loop'.resets # <<>>
      /\ loop'.at = "idle" => loop'.resets = <<>>
  <2>1. CASE Elsewhere
    BY <2>1, LoopStays DEF TimerComes
  <2>2. CASE Events \/ LoopStep
    BY <2>2, LoopGoes
  <2> QED BY <2>1, <2>2, Steps
<1>2. armed' = None => loop'.at = "arm" /\ At(RoundClock, {"asleep", "woken"})'
  <2>1. SUFFICES ASSUME armed' = None
                 PROVE  loop'.at = "arm" /\ At(RoundClock, {"asleep", "woken"})'
    OBVIOUS
  <2>2. ~ ArmRound
    <3>1. loop.view \in View /\ RoundPeriod \in Time
      BY PeriodFacts DEF TimersTypeOK, Looping
    <3>2. [view |-> loop.view, due |-> RoundPeriod] # None
      BY <3>1, NoneIsNoTimer DEF Timer
    <3> QED BY <2>1, <3>2 DEF ArmRound
  <2>3. armed = None /\ loop.at = "arm" /\ At(RoundClock, {"asleep", "woken"})
    BY <2>1, <2>2, ArmedStep DEF TimerComes
  <2>4. ~ Events /\ ~ LoopStep
    BY <2>2, <2>3 DEF Events, Event, TakeTimeout, NewTransactions, LoopStep, RaiseView, StartRound,
       CarryViewTimer, UpdateCell, PushBack, PushAlarm, ArmView, StartView
  <2> QED BY <2>3, <2>4, Steps, BeforeTheFirst, LoopStays
<1>3. IF loop'.resets # <<>> THEN loop'.resets[Len(loop'.resets)] = view'
      ELSE IF loop'.at = "arm" THEN loop'.view = view' ELSE armed' # None /\ armed'.view = view'
  <2>1. CASE Elsewhere
    <3>1. ~ ArmRound \/ UNCHANGED armed
      <4>1. ArmRound => loop.at = "arm" /\ loop'.at = "alarm"
        BY DEF ArmRound, TimersTypeOK, Looping
      <4> QED BY <2>1, <4>1, LoopStays
    <3> QED BY <2>1, <3>1, LoopStays, ArmedStep DEF TimerComes
  <2>2. CASE Events
    <3>1. ~ ArmRound /\ ~ RaiseView
      BY <2>2, EventFacts DEF ArmRound, RaiseView
    <3> QED BY <2>2, <3>1, EventFacts, LoopGoes, ArmedStep DEF TimerComes
  <2>3. CASE RaiseView
    <3>1. loop.resets \in Seq(View) /\ loop.resets # <<>> /\ loop \in Looping
          /\ loop.resets[Len(loop.resets)] = view
      BY <2>3 DEF RaiseView, TimerComes, TimersTypeOK, Looping
    <3>2. loop' = [loop EXCEPT !.at = "arm", !.view = Head(loop.resets), !.resets = Tail(loop.resets)]
          /\ view' = view
      BY <2>3 DEF RaiseView, engineVars
    <3>3. loop'.at = "arm" /\ loop'.view = Head(loop.resets) /\ loop'.resets = Tail(loop.resets)
      BY <3>1, <3>2 DEF Looping
    <3>4. CASE Tail(loop.resets) = <<>>
      <4>0. Len(Tail(loop.resets)) = Len(loop.resets) - 1 /\ Len(loop.resets) \in Nat
        BY <3>1
      <4>3. Len(<<>>) = 0
        OBVIOUS
      <4>4. Len(Tail(loop.resets)) = 0
        BY <3>4, <4>3, Zenon
      <4>1. Len(loop.resets) = 1
        BY <4>0, <4>4
      <4>2. Head(loop.resets) = loop.resets[Len(loop.resets)]
        BY <3>1, <4>1
      <4> QED BY <3>1, <3>2, <3>3, <3>4, <4>2
    <3>5. CASE Tail(loop.resets) # <<>>
      <4>1. Tail(loop.resets)[Len(Tail(loop.resets))] = loop.resets[Len(loop.resets)]
        BY <3>1, <3>5
      <4> QED BY <3>1, <3>2, <3>3, <3>5, <4>1
    <3> QED BY <3>4, <3>5
  <2>4. CASE ArmRound
    <3>1. loop'.resets = loop.resets /\ view' = view /\ loop.at = "arm" /\ armed'.view = loop.view
          /\ loop'.at = "alarm"
      BY <2>4 DEF ArmRound, engineVars, TimersTypeOK, Looping
    <3>2. armed' # None /\ view' = view
      BY <1>2, <3>1
    <3>3. loop.resets = <<>> => armed'.view = view
      BY <3>1 DEF TimerComes
    <3>4. loop.resets # <<>> => loop.resets[Len(loop.resets)] = view
      BY DEF TimerComes
    <3> QED BY <3>1, <3>2, <3>3, <3>4
  <2>5. CASE LoopStep /\ ~ RaiseView /\ ~ ArmRound
    <3>1. loop.at # "arm" /\ ~ Events
      BY <2>5 DEF LoopStep, StartRound, CarryViewTimer, UpdateCell, PushBack, PushAlarm, ArmView, StartView,
         Events, Event, TakeTimeout, NewTransactions
    <3>2. view' = view /\ loop'.resets = loop.resets /\ loop'.at # "arm"
      BY <2>5, <3>1, LoopGoes
    <3> QED BY <2>5, <3>1, <3>2, ArmedStep DEF TimerComes
  <2> QED BY <2>1, <2>2, <2>3, <2>4, <2>5, Steps
<1> QED BY <1>1, <1>2, <1>3 DEF TimerComes

(* The round clock *)

\* A step that leaves the round clock alone, and what the loop owes it.
LEMMA RoundSame ==
    ASSUME RoundClockRuns,
           act'[RoundClock].at = act[RoundClock].at, act'[RoundClock].view = act[RoundClock].view,
           act'[RoundClock].rearmed = act[RoundClock].rearmed,
           alarm'[RoundClock] = None <=> alarm[RoundClock] = None,
           armed' = None <=> armed = None, armed # None => armed'.view = armed.view,
           loop.at \in {"arm", "alarm"} \/ loop.resets # <<>> =>
              loop'.at \in {"arm", "alarm"} \/ loop'.resets # <<>>,
           loop.at = "alarm" => loop'.at = "alarm"
    PROVE  RoundClockRuns'
  BY DEF RoundClockRuns, Quiet, At

\* The other threads, time and a wakeup.
LEMMA RoundElsewhere ==
    ASSUME TimersTypeOK, TimerComes, NothingAhead, RoundClockRuns,
           Tick \/ UNCHANGED vars \/ (\E v \in View : ViewStep(v)) \/ \E c \in Clock : WakeUp(c)
    PROVE  RoundClockRuns'
<1>0. /\ act \in [Clock -> Acting] /\ RoundClock \in Clock /\ act[RoundClock] \in Acting
      /\ alarm \in [Clock -> Time \cup {None}] /\ None \notin Time /\ \A c \in Clock : act[c].due \in Time
  BY ClockFacts, PeriodFacts DEF TimersTypeOK, Acting
<1>l. loop'.at = loop.at /\ loop'.resets = loop.resets
  BY LoopStays DEF Elsewhere
<1>a. /\ armed' = None <=> armed = None
      /\ armed # None => armed'.view = armed.view
  <2>1. ~ ArmRound
    <3>1. ArmRound => loop.at = "arm" /\ loop'.at = "alarm"
      BY DEF ArmRound, TimersTypeOK, Looping
    <3> QED BY <1>l, <3>1
  <2>2. [Next]_vars
    BY DEF Next
  <2> QED BY <2>1, <2>2, ArmedStep
<1>1. CASE Tick
  <2>1. Sooner(act[RoundClock]) = act[RoundClock]
          \/ Sooner(act[RoundClock]) = [act[RoundClock] EXCEPT !.due = Less(act[RoundClock].due)]
    BY DEF Sooner
  <2>2. act'[RoundClock] = Sooner(act[RoundClock])
    BY <1>0, <1>1 DEF Tick
  <2>3. /\ act'[RoundClock].at = act[RoundClock].at /\ act'[RoundClock].view = act[RoundClock].view
        /\ act'[RoundClock].rearmed = act[RoundClock].rearmed
    BY <1>0, <2>1, <2>2 DEF Acting
  <2>4. alarm'[RoundClock] = None <=> alarm[RoundClock] = None
    BY <1>0, <1>1, PeriodFacts DEF Tick
  <2> QED BY <1>l, <1>a, <2>3, <2>4, RoundSame
<1>2. CASE UNCHANGED vars
  BY <1>l, <1>a, <1>2, RoundSame DEF vars
<1>3. ASSUME NEW v \in View, ViewStep(v) PROVE RoundClockRuns'
  <2>1. v # RoundClock /\ v \in Clock
    BY ClockFacts
  <2>2. act'[RoundClock] = act[RoundClock]
    BY <1>0, <1>3, <2>1 DEF ViewStep, ReadCell, CheckSlot, PushSlot, Release, Fire, SleepOn, GoTo, Sleeps
  <2>3. alarm'[RoundClock] = alarm[RoundClock]
    BY <1>0, <1>3, <2>1 DEF ViewStep, ReadCell, CheckSlot, PushSlot, Release, Fire, SleepOn, SetAlarm
  <2> QED BY <1>l, <1>a, <2>2, <2>3, RoundSame
<1>4. ASSUME NEW c \in Clock, WakeUp(c) PROVE RoundClockRuns'
  <2>1. CASE c = RoundClock
    <3>1. GoTo(RoundClock, "woken")
      BY <1>4, <2>1 DEF WakeUp, GoTo
    <3>2. act'[RoundClock].at = "woken"
      BY <1>0, <3>1, Moved DEF RoundPlaces
    <3> QED BY <3>2 DEF RoundClockRuns, Quiet, At
  <2>2. CASE c # RoundClock
    <3>1. act'[RoundClock] = act[RoundClock] /\ alarm'[RoundClock] = alarm[RoundClock]
      BY <1>0, <1>4, <2>2 DEF WakeUp
    <3> QED BY <1>l, <1>a, <3>1, RoundSame
  <2> QED BY <2>1, <2>2
<1> QED BY <1>1, <1>2, <1>3, <1>4

\* The clock's own thread.
LEMMA RoundThread ==
    ASSUME TimersTypeOK, TimerComes, NothingAhead, RoundClockRuns, RoundStep
    PROVE  RoundClockRuns'
<1>0. /\ act \in [Clock -> Acting] /\ RoundClock \in Clock /\ act[RoundClock] \in Acting
      /\ alarm \in [Clock -> Time \cup {None}] /\ act[RoundClock].due \in Time
      /\ armed \in Timer \cup {None}
  BY ClockFacts DEF TimersTypeOK, Acting
<1>l. loop'.at = loop.at /\ loop'.resets = loop.resets
  BY LoopStays DEF Elsewhere
<1> USE DEF RoundPlaces, ViewPlaces
<1>1. CASE ReadArmed
  <2> DEFINE a == [at |-> IF armed.due > 0 THEN "set" ELSE "fire",
                   view |-> armed.view, due |-> armed.due, rearmed |-> FALSE]
  <2>1. armed \in Timer /\ armed # None /\ armed' = armed
    BY <1>0, <1>1 DEF ReadArmed, sharedVars
  <2>2. a \in Acting /\ a.at \in {"set", "fire"} /\ a.view = armed.view /\ a.rearmed = FALSE
    BY <2>1 DEF Acting, Timer
  <2>3. act' = [act EXCEPT ![RoundClock] = a]
    BY <1>1 DEF ReadArmed
  <2> HIDE DEF a
  <2>4. act'[RoundClock] = a
    BY <1>0, <2>2, <2>3, Did
  <2> QED BY <2>1, <2>2, <2>4 DEF RoundClockRuns, Quiet, At
<1>2. CASE Fire(RoundClock)
  <2>1. GoTo(RoundClock, "look") /\ act[RoundClock].at = "fire" /\ alarm' = alarm /\ armed' = armed
    BY <1>2 DEF Fire, sharedVars
  <2>2. /\ act'[RoundClock].at = "look" /\ act'[RoundClock].view = act[RoundClock].view
        /\ act'[RoundClock].rearmed = act[RoundClock].rearmed
    BY <1>0, <2>1, Moved
  <2> QED BY <1>l, <2>1, <2>2 DEF RoundClockRuns, Quiet, At
<1>3. CASE LookAtView
  <2>1. act[RoundClock].at = "look" /\ alarm' = alarm /\ armed' = armed
    BY <1>3 DEF LookAtView, sharedVars
  <2>2. CASE GoTo(RoundClock, "rearm")
    <3>1. /\ act'[RoundClock].at = "rearm" /\ act'[RoundClock].view = act[RoundClock].view
          /\ act'[RoundClock].rearmed = act[RoundClock].rearmed
      BY <1>0, <2>2, Moved
    <3> QED BY <1>l, <2>1, <3>1 DEF RoundClockRuns, Quiet, At
  <2>3. CASE Sleeps(RoundClock) /\ cell.view > act[RoundClock].view
    <3>1. act'[RoundClock].at = "asleep" /\ act'[RoundClock].rearmed = FALSE
      BY <1>0, <2>3, Slept, AsleepFacts
    <3>2. alarm[RoundClock] = None => loop.at \in {"arm", "alarm"} \/ loop.resets # <<>>
      <4>1. CASE act[RoundClock].rearmed
        BY <2>1, <4>1 DEF RoundClockRuns, At
      <4>2. CASE ~ act[RoundClock].rearmed
        <5>1. armed # None /\ armed.view = act[RoundClock].view
          BY <2>1, <4>2 DEF RoundClockRuns, At
        <5>2. view \in Int /\ cell.view \in Int /\ act[RoundClock].view \in Int /\ cell.view <= view
          BY <1>0, ViewFacts DEF TimersTypeOK, NothingAhead, Acting
        <5>3. armed.view # view
          BY <2>3, <5>1, <5>2
        <5> QED BY <5>3 DEF TimerComes
      <4> QED BY <4>1, <4>2
    <3> QED BY <1>l, <2>1, <3>1, <3>2 DEF RoundClockRuns, Quiet, At
  <2> QED BY <1>3, <2>2, <2>3 DEF LookAtView
<1>4. CASE Rearm
  <2>1. act[RoundClock].at = "rearm" /\ alarm' = alarm
    BY <1>4 DEF Rearm
  <2>2. CASE act[RoundClock].rearmed
    <3>1. Sleeps(RoundClock)
      BY <1>4, <2>2 DEF Rearm
    <3>2. act'[RoundClock].at = "asleep" /\ act'[RoundClock].rearmed = FALSE
      BY <1>0, <3>1, Slept, AsleepFacts
    <3> QED BY <1>l, <2>1, <2>2, <3>2 DEF RoundClockRuns, Quiet, At
  <2>3. CASE ~ act[RoundClock].rearmed
    <3> DEFINE a == [act[RoundClock] EXCEPT !.at = "set", !.due = RoundPeriod]
    <3>1. a \in Acting /\ a.at = "set" /\ a.rearmed = FALSE
      BY <1>0, <2>3, PeriodFacts DEF Acting
    <3>2. act' = [act EXCEPT ![RoundClock] = a]
      BY <1>4, <2>3, <1>0 DEF Rearm
    <3> HIDE DEF a
    <3>3. act'[RoundClock] = a
      BY <1>0, <3>1, <3>2, Did
    <3> QED BY <3>1, <3>3 DEF RoundClockRuns, Quiet, At
  <2> QED BY <2>2, <2>3
<1>5. CASE SleepOn(RoundClock)
  <2>1. SetAlarm(RoundClock, act[RoundClock].due) /\ Sleeps(RoundClock)
    BY <1>5 DEF SleepOn
  <2>2. alarm'[RoundClock] # None /\ act'[RoundClock].at = "asleep" /\ act'[RoundClock].rearmed = FALSE
    BY <1>0, <2>1, AlarmSet, Slept, AsleepFacts
  <2> QED BY <2>2 DEF RoundClockRuns, Quiet, At
<1> QED BY <1>1, <1>2, <1>3, <1>4, <1>5 DEF RoundStep

LEMMA RoundStepKeeps ==
    ASSUME TimersTypeOK, TimerComes, NothingAhead, RoundClockRuns, [Next]_vars
    PROVE  RoundClockRuns'
<1>0. /\ act \in [Clock -> Acting] /\ RoundClock \in Clock /\ act[RoundClock] \in Acting
      /\ alarm \in [Clock -> Time \cup {None}] /\ loop \in Looping /\ loop.view \in View
      /\ loop.view # RoundClock /\ loop.view \in Clock /\ loop.due \in Time
  BY ClockFacts DEF TimersTypeOK, Looping
<1>1. CASE Elsewhere
  BY <1>1, RoundElsewhere, RoundThread DEF Elsewhere
<1>2. CASE Events
  <2>1. act' = act /\ alarm' = alarm /\ armed' = armed
    BY <1>2 DEF Events, Event, TakeTimeout, NewTransactions, sharedVars
  <2>2. loop.at = "idle" /\ loop.resets = <<>>
    BY <1>2, EventFacts
  <2> QED BY <2>1, <2>2, RoundSame
<1>3. CASE RaiseView
  <2>1. act' = act /\ alarm' = alarm /\ armed' = armed /\ loop.at = "reset"
    BY <1>3 DEF RaiseView
  <2>2. loop'.at = "arm"
    BY <1>0, <1>3 DEF RaiseView, Looping
  <2> QED BY <2>1, <2>2, RoundSame
<1>4. CASE ArmRound
  <2> DEFINE a == [act[RoundClock] EXCEPT !.rearmed = TRUE]
  <2>1. a \in Acting /\ a.rearmed = TRUE
    BY <1>0 DEF Acting
  <2>2. act' = [act EXCEPT ![RoundClock] = a]
    BY <1>4, <1>0 DEF ArmRound
  <2> HIDE DEF a
  <2>3. act'[RoundClock].rearmed = TRUE
    BY <1>0, <2>1, <2>2, Did
  <2>4. loop'.at = "alarm"
    BY <1>0, <1>4 DEF ArmRound, Looping
  <2> QED BY <2>3, <2>4 DEF RoundClockRuns, Quiet, At
<1>5. CASE StartRound
  <2>1. act' = act /\ armed' = armed /\ SetAlarm(RoundClock, loop.due)
    BY <1>5 DEF StartRound, sharedVars
  <2>2. alarm'[RoundClock] # None
    BY <1>0, <2>1, AlarmSet
  <2> QED BY <2>1, <2>2 DEF RoundClockRuns, Quiet, At
<1>6. CASE CarryViewTimer \/ UpdateCell \/ PushBack \/ PushAlarm \/ ArmView \/ StartView
  <2>1. act'[RoundClock] = act[RoundClock] /\ armed' = armed /\ loop.at \notin {"arm", "alarm", "idle", "reset"}
    BY <1>0, <1>6 DEF CarryViewTimer, UpdateCell, PushBack, PushAlarm, ArmView, StartView, sharedVars
  <2>2. alarm'[RoundClock] = alarm[RoundClock]
    <3>1. CASE PushAlarm \/ StartView
      BY <1>0, <3>1, AlarmSet DEF PushAlarm, StartView
    <3>2. CASE CarryViewTimer \/ UpdateCell \/ PushBack \/ ArmView
      BY <3>2 DEF CarryViewTimer, UpdateCell, PushBack, ArmView
    <3> QED BY <1>6, <3>1, <3>2
  <2>3. ~ Events /\ ~ RaiseView
    BY <2>1 DEF Events, Event, TakeTimeout, NewTransactions, RaiseView
  <2>4. loop'.resets = loop.resets
    BY <1>6, <2>3, LoopGoes DEF LoopStep
  <2> QED BY <2>1, <2>2, <2>4, RoundSame
<1> QED BY <1>1, <1>2, <1>3, <1>4, <1>5, <1>6, Steps DEF LoopStep

(* The clocks of the views *)

\* What the view clocks keep.
ClocksKept == SlotIsKept /\ OneClockPerView /\ WatchIsKept

\* A step that leaves the view clocks and the slot alone.
LEMMA ViewsAlone ==
    ASSUME TimersTypeOK, cell'.view \in View, ClocksKept, cell'.view >= cell.view,
           \A v \in View : /\ act'[v].at = act[v].at /\ act'[v].view = act[v].view
                           /\ alarm'[v] = None => alarm[v] = None
                           /\ HoldsSlot(v)' <=> HoldsSlot(v),
           loop'.at = "start" <=> loop.at = "start",
           loop.at = "start" => loop'.view = loop.view /\ cell'.view = cell.view
    PROVE  ClocksKept'
<1>0. /\ cell.view \in View /\ loop.view \in View /\ \A v \in View : v \in Int
      /\ \A v \in View : act[v].view \in Int /\ HoldsSlot(v)' = HoldsSlot(v)
      /\ cell.view \in Int /\ cell'.view \in Int
  BY ViewFacts, ClockFacts DEF TimersTypeOK, Looping, Acting, HoldsSlot
<1>1. /\ \A v \in View : ~ At(v, {"absent"})' => v <= cell'.view /\ (v = cell'.view => HoldsSlot(v)')
      /\ \A v \in View : At(v, {"check"})' => act'[v].view <= cell'.view
      /\ \A v \in View : At(v, {"release"})' => v < cell'.view
  BY <1>0 DEF ClocksKept, SlotIsKept, At
<1>2. loop'.at = "start" => HoldsSlot(loop.view)' /\ loop'.view = loop.view /\ loop'.view = cell'.view
                            /\ At(loop.view, {"absent"})'
  BY <1>0 DEF ClocksKept, SlotIsKept, OneClockPerView, At
<1>3. loop'.at = "start" => HoldsSlot(loop.view)' = (slot # None /\ slot.view = loop.view)'
  BY <1>2 DEF HoldsSlot
<1>4. SlotIsKept' /\ OneClockPerView'
  BY <1>1, <1>2, <1>3 DEF SlotIsKept, OneClockPerView, HoldsSlot, At
<1>5. WatchIsKept'
  BY <1>0, <1>2 DEF ClocksKept, WatchIsKept, Quiet, At
<1> QED BY <1>4, <1>5 DEF ClocksKept

\* A step of one view clock's thread.
LEMMA ViewThread ==
    ASSUME TimersTypeOK, ClocksKept, NEW v \in View, ~ At(v, {"absent"}),
           loop' = loop, cell' = cell,
           \A d \in View : d # v => /\ act'[d] = act[d] /\ alarm'[d] = alarm[d]
                                    /\ HoldsSlot(d)' <=> HoldsSlot(d),
           act'[v].at # "absent",
           act'[v].at = "check" => act'[v].view = cell.view,
           act'[v].at = "release" => v < cell.view,
           v = cell.view => HoldsSlot(v)',
           HoldsSlot(v)' => ~ Quiet(v)'
    PROVE  ClocksKept'
<1>0. /\ cell.view \in View /\ loop.view \in View /\ cell.view \in Int
      /\ \A d \in View : d \in Int /\ act[d].view \in Int
  BY ViewFacts, ClockFacts DEF TimersTypeOK, Looping, Acting
<1>1. loop.at = "start" => loop.view # v
  BY DEF ClocksKept, OneClockPerView
<1>2. /\ \A d \in View : ~ At(d, {"absent"})' => d <= cell'.view /\ (d = cell'.view => HoldsSlot(d)')
      /\ \A d \in View : At(d, {"check"})' => act'[d].view <= cell'.view
      /\ \A d \in View : At(d, {"release"})' => d < cell'.view
  <2> SUFFICES ASSUME NEW d \in View
               PROVE  /\ ~ At(d, {"absent"})' => d <= cell'.view /\ (d = cell'.view => HoldsSlot(d)')
                      /\ At(d, {"check"})' => act'[d].view <= cell'.view
                      /\ At(d, {"release"})' => d < cell'.view
    OBVIOUS
  <2>1. CASE d # v
    BY <1>0, <2>1 DEF ClocksKept, SlotIsKept, At
  <2>2. CASE d = v
    BY <1>0, <2>2 DEF ClocksKept, SlotIsKept, At
  <2> QED BY <2>1, <2>2
<1>3. loop'.at = "start" => HoldsSlot(loop.view)' /\ loop'.view = cell'.view /\ At(loop.view, {"absent"})'
  BY <1>0, <1>1 DEF ClocksKept, SlotIsKept, OneClockPerView, At
<1>4. SlotIsKept' /\ OneClockPerView'
  BY <1>2, <1>3 DEF SlotIsKept, OneClockPerView, HoldsSlot, At
<1>5. WatchIsKept'
  <2> SUFFICES ASSUME NEW d \in View, HoldsSlot(d)'
               PROVE  ~ (Quiet(d)' \/ At(d, {"absent"})') \/ (loop'.at = "start" /\ loop'.view = d)
    BY DEF WatchIsKept
  <2>1. CASE d # v
    BY <2>1 DEF ClocksKept, WatchIsKept, Quiet, At
  <2>2. CASE d = v
    BY <2>2 DEF At
  <2> QED BY <2>1, <2>2
<1> QED BY <1>4, <1>5 DEF ClocksKept

LEMMA WokenView ==
    ASSUME TimersTypeOK, ClocksKept, NEW v \in View, WakeUp(v)
    PROVE  ClocksKept'
<1>1. v \in Clock /\ act \in [Clock -> Acting] /\ View \subseteq Clock
  BY ClockFacts DEF TimersTypeOK
<1>2. GoTo(v, "woken") /\ act[v].at = "asleep" /\ loop' = loop /\ cell' = cell /\ slot' = slot
  BY DEF WakeUp, GoTo, sharedVars
<1>3. act'[v].at = "woken" /\ \A d \in View : d # v => act'[d] = act[d]
  BY <1>1, <1>2, Moved DEF ViewPlaces
<1>4. \A d \in View : d # v => alarm'[d] = alarm[d]
  BY <1>1 DEF WakeUp, TimersTypeOK
<1>5. v = cell.view => HoldsSlot(v)
  BY <1>2 DEF ClocksKept, SlotIsKept, At
<1> QED BY <1>2, <1>3, <1>4, <1>5, ViewThread DEF At, Quiet, HoldsSlot

LEMMA ThreadOfView ==
    ASSUME TimersTypeOK, ClocksKept, NEW v \in View, ViewStep(v)
    PROVE  ClocksKept'
<1>0. /\ v \in Clock /\ act \in [Clock -> Acting] /\ View \subseteq Clock /\ act[v] \in Acting
      /\ alarm \in [Clock -> Time \cup {None}] /\ act[v].due \in Time /\ act[v].view \in View
      /\ cell.view \in View /\ slot \in Timer \cup {None} /\ v # RoundClock
  BY ClockFacts DEF TimersTypeOK, Acting
<1>c. loop' = loop /\ cell' = cell /\ act[v].at # "absent"
  BY DEF ViewStep, ReadCell, CheckSlot, PushSlot, Release, Fire, SleepOn, sharedVars
<1>i. v <= cell.view /\ (v = cell.view => HoldsSlot(v))
  BY <1>c DEF ClocksKept, SlotIsKept, At
<1>n. v \in Int /\ cell.view \in Int /\ act[v].view \in Int
  BY <1>0, ViewFacts
<1> USE DEF ViewPlaces, RoundPlaces
<1>s. ASSUME slot' = slot, alarm' = alarm, \A d \in View : d # v => act'[d] = act[d],
             act'[v].at \notin {"absent", "asleep"}, act'[v].at = "check" => act'[v].view = cell.view,
             act'[v].at = "release" => v < cell.view
      PROVE  ClocksKept'
  BY <1>c, <1>i, <1>s, ViewThread DEF At, Quiet, HoldsSlot
<1>1. CASE ReadCell(v)
  <2> DEFINE a == [act[v] EXCEPT !.at = "check", !.view = cell.view]
  <2>1. a \in Acting /\ a.at = "check" /\ a.view = cell.view
    BY <1>0 DEF Acting
  <2>2. act' = [act EXCEPT ![v] = a]
    BY <1>0, <1>1 DEF ReadCell
  <2> HIDE DEF a
  <2>3. act'[v] = a /\ \A d \in View : d # v => act'[d] = act[d]
    BY <1>0, <2>1, <2>2, Did
  <2> QED BY <1>1, <2>1, <2>3, <1>s DEF ReadCell, sharedVars
<1>2. CASE CheckSlot(v)
  <2> DEFINE a == IF ~ (HoldsSlot(v) /\ v >= act[v].view) THEN [act[v] EXCEPT !.at = "release"]
                  ELSE IF slot.due > 0 THEN [act[v] EXCEPT !.at = "set", !.due = slot.due]
                  ELSE [act[v] EXCEPT !.at = "fire", !.due = Refire]
  <2>1. HoldsSlot(v) => slot.due \in Time
    BY <1>0 DEF HoldsSlot, Timer
  <2>2. /\ a \in Acting /\ a.at \in {"release", "set", "fire"}
        /\ a.at = "release" => ~ (HoldsSlot(v) /\ v >= act[v].view)
    BY <1>0, <2>1, PeriodFacts DEF Acting
  <2>3. act' = [act EXCEPT ![v] = a]
    BY <1>2, <1>0 DEF CheckSlot
  <2> HIDE DEF a
  <2>4. act'[v] = a /\ \A d \in View : d # v => act'[d] = act[d]
    BY <1>0, <2>2, <2>3, Did
  <2>5. act[v].view <= cell.view
    BY <1>2 DEF CheckSlot, ClocksKept, SlotIsKept, At
  <2>6. a.at = "release" => v < cell.view
    BY <1>i, <1>n, <2>2, <2>5
  <2> QED BY <1>2, <2>2, <2>4, <2>6, <1>s DEF CheckSlot, sharedVars
<1>3. CASE Fire(v)
  <2>1. GoTo(v, "push") /\ slot' = slot /\ alarm' = alarm
    BY <1>0, <1>3 DEF Fire, sharedVars
  <2>2. act'[v].at = "push" /\ \A d \in View : d # v => act'[d] = act[d]
    BY <1>0, <2>1, Moved
  <2> QED BY <2>1, <2>2, <1>s
<1>4. CASE PushSlot(v)
  <2>1. GoTo(v, "set") /\ alarm' = alarm
    BY <1>4 DEF PushSlot
  <2>2. act'[v].at = "set" /\ \A d \in View : d # v => act'[d] = act[d]
    BY <1>0, <2>1, Moved
  <2>3. \A d \in View : HoldsSlot(d)' <=> HoldsSlot(d)
    <3>1. slot' = slot \/ (slot # None /\ slot' = [slot EXCEPT !.due = act[v].due])
      BY <1>4 DEF PushSlot, HoldsSlot
    <3>2. slot # None /\ slot' = [slot EXCEPT !.due = act[v].due] =>
             slot' \in Timer /\ slot'.view = slot.view
      BY <1>0 DEF Timer
    <3> QED BY <3>1, <3>2, NoneIsNoTimer DEF HoldsSlot
  <2> QED BY <1>c, <1>i, <2>1, <2>2, <2>3, ViewThread DEF At, Quiet
<1>5. CASE Release(v)
  <2>1. Sleeps(v) /\ alarm' = alarm /\ v < cell.view
    BY <1>5 DEF Release, ClocksKept, SlotIsKept, At
  <2>2. act'[v].at = "asleep" /\ \A d \in View : d # v => act'[d] = act[d]
    BY <1>0, <2>1, Slept, AsleepFacts
  <2>3. ~ HoldsSlot(v)' /\ \A d \in View : d # v => (HoldsSlot(d)' <=> HoldsSlot(d))
    BY <1>5 DEF Release, HoldsSlot
  <2>4. v # cell.view
    BY <1>n, <2>1
  <2> QED BY <1>c, <2>1, <2>2, <2>3, <2>4, ViewThread DEF At
<1>6. CASE SleepOn(v)
  <2>1. Sleeps(v) /\ SetAlarm(v, act[v].due) /\ slot' = slot
    BY <1>6 DEF SleepOn, sharedVars
  <2>2. act'[v].at = "asleep" /\ \A d \in View : d # v => act'[d] = act[d]
    BY <1>0, <2>1, Slept, AsleepFacts
  <2>3. alarm'[v] # None /\ \A d \in View : d # v => alarm'[d] = alarm[d]
    BY <1>0, <2>1, AlarmSet
  <2>4. \A d \in View : HoldsSlot(d)' <=> HoldsSlot(d)
    BY <2>1 DEF HoldsSlot
  <2> QED BY <1>c, <1>i, <2>2, <2>3, <2>4, ViewThread DEF At, Quiet
<1> QED BY <1>1, <1>2, <1>3, <1>4, <1>5, <1>6 DEF ViewStep

\* The loop gives the slot to the view the node is in only if that view has no clock.
LEMMA SlotGiven ==
    ASSUME TimersTypeOK, ClocksKept, ArmView
    PROVE  ClocksKept'
<1>0. /\ loop \in Looping /\ cell.view \in View /\ \A v \in View : v \in Int
      /\ act' = act /\ alarm' = alarm /\ cell' = cell /\ loop.at = "timer"
  BY ViewFacts DEF ArmView, TimersTypeOK
<1>1. CASE HoldsSlot(cell.view)
  <2>1. loop' = Goes(loop) /\ slot' = slot
    BY <1>1 DEF ArmView
  <2>2. loop'.at # "start"
    BY <1>0, <2>1, GoesFacts
  <2> QED BY <1>0, <2>1, <2>2, ViewsAlone DEF HoldsSlot
<1>2. CASE ~ HoldsSlot(cell.view)
  <2>1. PICK due \in Time : /\ slot' = [view |-> cell.view, due |-> due]
                            /\ loop' = [loop EXCEPT !.at = "start", !.view = cell.view, !.due = due]
    BY <1>2, PeriodFacts DEF ArmView
  <2>2. loop'.at = "start" /\ loop'.view = cell.view
    BY <1>0, <2>1 DEF Looping
  <2>3. slot' # None /\ slot'.view = cell.view
    BY <1>0, <2>1, NoneIsNoTimer DEF Timer
  <2>4. At(cell.view, {"absent"})
    BY <1>0, <1>2 DEF ClocksKept, SlotIsKept
  <2>5. SlotIsKept'
    <3>1. \A v \in View : ~ At(v, {"absent"})' => v <= cell'.view /\ (v = cell'.view => HoldsSlot(v)')
      BY <1>0, <2>4 DEF ClocksKept, SlotIsKept, At
    <3>2. /\ \A v \in View : At(v, {"check"})' => act'[v].view <= cell'.view
          /\ \A v \in View : At(v, {"release"})' => v < cell'.view
      BY <1>0 DEF ClocksKept, SlotIsKept, At
    <3> QED BY <1>0, <3>1, <3>2, <2>2, <2>3 DEF SlotIsKept, HoldsSlot, At
  <2>6. OneClockPerView'
    BY <1>0, <2>2, <2>4 DEF OneClockPerView, At
  <2>7. WatchIsKept'
    BY <2>2, <2>3 DEF WatchIsKept, HoldsSlot
  <2> QED BY <2>5, <2>6, <2>7 DEF ClocksKept
<1> QED BY <1>1, <1>2

LEMMA ClockStarted ==
    ASSUME TimersTypeOK, ClocksKept, StartView
    PROVE  ClocksKept'
<1>0. /\ loop \in Looping /\ loop.view \in View /\ loop.view \in Clock /\ View \subseteq Clock
      /\ \A v \in View : v \in Int
      /\ act \in [Clock -> Acting] /\ alarm \in [Clock -> Time \cup {None}] /\ loop.due \in Time
  BY ViewFacts, ClockFacts DEF TimersTypeOK, Looping
<1>1. /\ Sleeps(loop.view) /\ SetAlarm(loop.view, loop.due) /\ cell' = cell /\ slot' = slot
      /\ loop.at = "start" /\ loop' = Goes(loop)
  BY DEF StartView, Sleeps, sharedVars
<1>2. act'[loop.view].at = "asleep" /\ \A v \in View : v # loop.view => act'[v] = act[v]
  BY <1>0, <1>1, Slept, AsleepFacts
<1>3. alarm'[loop.view] # None /\ \A v \in View : v # loop.view => alarm'[v] = alarm[v]
  BY <1>0, <1>1, AlarmSet
<1>4. HoldsSlot(loop.view) /\ loop.view = cell.view
  BY <1>1 DEF ClocksKept, SlotIsKept
<1>5. loop'.at # "start"
  BY <1>0, <1>1, GoesFacts
<1>6. SlotIsKept'
  <2> SUFFICES ASSUME NEW v \in View
               PROVE  /\ ~ At(v, {"absent"})' => v <= cell'.view /\ (v = cell'.view => HoldsSlot(v)')
                      /\ At(v, {"check"})' => act'[v].view <= cell'.view
                      /\ At(v, {"release"})' => v < cell'.view
    BY <1>5 DEF SlotIsKept
  <2>1. CASE v # loop.view
    BY <1>1, <1>2, <2>1 DEF ClocksKept, SlotIsKept, HoldsSlot, At
  <2>2. CASE v = loop.view
    BY <1>0, <1>1, <1>2, <1>4, <2>2 DEF HoldsSlot, At
  <2> QED BY <2>1, <2>2
<1>7. OneClockPerView'
  BY <1>5 DEF OneClockPerView
<1>8. WatchIsKept'
  <2> SUFFICES ASSUME NEW v \in View, HoldsSlot(v)'
               PROVE  ~ (Quiet(v)' \/ At(v, {"absent"})')
    BY DEF WatchIsKept
  <2>1. v = loop.view
    BY <1>1, <1>4 DEF HoldsSlot
  <2> QED BY <1>2, <1>3, <2>1 DEF Quiet, At
<1> QED BY <1>6, <1>7, <1>8 DEF ClocksKept

LEMMA ClocksStep ==
    ASSUME TimersTypeOK, TimerComes, NothingAhead, ClocksKept, [Next]_vars
    PROVE  ClocksKept'
<1>0. /\ act \in [Clock -> Acting] /\ RoundClock \in Clock /\ View \subseteq Clock /\ RoundClock \notin View
      /\ alarm \in [Clock -> Time \cup {None}] /\ loop.view \in View /\ loop.due \in Time
      /\ \A c \in Clock : act[c] \in Acting /\ act[c].due \in Time
  BY ClockFacts DEF TimersTypeOK, Looping, Acting
<1>m. cell'.view \in View /\ cell'.view >= cell.view
  BY AheadStep, TypeStep DEF TimersTypeOK
<1>h. ASSUME ~ ArmView, ~ \E v \in View : Release(v)
      PROVE  \A v \in View : HoldsSlot(v)' <=> HoldsSlot(v)
  BY <1>h, SlotStep
<1>1. CASE Elsewhere /\ ~ (\E v \in View : ViewStep(v) \/ WakeUp(v))
  <2>0. loop'.at = loop.at /\ loop'.view = loop.view /\ cell' = cell
    BY <1>1, LoopStays
  <2>1. ~ ArmView /\ ~ \E v \in View : Release(v)
    <3>1. ArmView => loop.at = "timer" /\ loop'.at # "timer"
      BY GoesFacts DEF ArmView, TimersTypeOK, Looping
    <3> QED BY <1>1, <2>0, <3>1 DEF ViewStep
  <2>2. \A v \in View : act'[v].at = act[v].at /\ act'[v].view = act[v].view
                        /\ (alarm'[v] = None => alarm[v] = None)
    <3>1. CASE Tick
      <4> SUFFICES ASSUME NEW v \in View
                   PROVE  act'[v].at = act[v].at /\ act'[v].view = act[v].view
                          /\ (alarm'[v] = None => alarm[v] = None)
        OBVIOUS
      <4>1. Sooner(act[v]) = act[v] \/ Sooner(act[v]) = [act[v] EXCEPT !.due = Less(act[v].due)]
        BY DEF Sooner
      <4>2. act'[v] = Sooner(act[v]) /\ act[v] \in Acting
        BY <1>0, <3>1 DEF Tick
      <4>3. act'[v].at = act[v].at /\ act'[v].view = act[v].view
        BY <4>1, <4>2 DEF Acting
      <4>4. alarm'[v] = None => alarm[v] = None
        BY <1>0, <3>1, PeriodFacts DEF Tick
      <4> QED BY <4>3, <4>4
    <3>2. CASE RoundStep
      BY <1>0, <3>2 DEF RoundStep, ReadArmed, LookAtView, Rearm, Fire, SleepOn, SetAlarm, GoTo, Sleeps
    <3>3. CASE WakeUp(RoundClock)
      BY <1>0, <3>3 DEF WakeUp
    <3>4. CASE UNCHANGED vars
      BY <3>4 DEF vars
    <3> QED BY <1>1, <3>1, <3>2, <3>3, <3>4, ClockFacts DEF Elsewhere
  <2> QED BY <1>m, <1>h, <2>0, <2>1, <2>2, ViewsAlone
<1>2. CASE Events \/ (LoopStep /\ ~ ArmView /\ ~ StartView)
  <2>1. loop.at # "start"
    BY <1>2 DEF Events, Event, TakeTimeout, NewTransactions, LoopStep, RaiseView, ArmRound, StartRound,
       CarryViewTimer, UpdateCell, PushBack, PushAlarm
  <2>2. ~ ArmView
    BY <1>2 DEF ArmView, Events, Event, TakeTimeout, NewTransactions
  <2>3. loop'.at # "start"
    BY <1>2, <2>2, LoopGoes
  <2>4. \A v \in View : act'[v] = act[v]
    <3>1. CASE ArmRound
      BY <1>0, <3>1 DEF ArmRound
    <3>2. CASE ~ ArmRound
      BY <1>2, <3>2 DEF Events, Event, TakeTimeout, NewTransactions, LoopStep, RaiseView, StartRound,
         CarryViewTimer, UpdateCell, PushBack, PushAlarm, sharedVars
    <3> QED BY <3>1, <3>2
  <2>5. \A v \in View : alarm'[v] = None => alarm[v] = None
    <3>1. CASE StartRound \/ PushAlarm
      BY <1>0, <3>1, AlarmSet DEF StartRound, PushAlarm
    <3>2. CASE ~ StartRound /\ ~ PushAlarm
      BY <1>2, <3>2 DEF Events, Event, TakeTimeout, NewTransactions, LoopStep, RaiseView, ArmRound,
         CarryViewTimer, UpdateCell, PushBack
    <3> QED BY <3>1, <3>2
  <2>6. ~ \E v \in View : Release(v)
    <3>1. ASSUME NEW v \in View, Release(v) PROVE FALSE
      <4>1. act[v].at = "release" /\ act'[v].at = "asleep"
        BY <1>0, <3>1, Slept, AsleepFacts DEF Release
      <4> QED BY <2>4, <4>1
    <3> QED BY <3>1
  <2> QED BY <1>m, <1>h, <2>1, <2>2, <2>3, <2>4, <2>5, <2>6, ViewsAlone
<1> QED BY <1>1, <1>2, Steps, WokenView, ThreadOfView, SlotGiven, ClockStarted DEF LoopStep

(* The theorems *)

\* Every reachable state satisfies the inductive invariant.
THEOREM TimersInductive == Spec => []TimersInv
<1>1. Init => TimersInv
  <2> SUFFICES ASSUME Init PROVE TimersInv
    OBVIOUS
  <2>0. /\ Absent \in Acting /\ Absent.at = "absent" /\ Absent.view = 0
    BY ClockFacts DEF Absent, Acting, ViewPlaces, RoundPlaces
  <2>1. /\ act \in [Clock -> Acting] /\ act[RoundClock] = Asleep /\ \A v \in View : act[v] = Absent
        /\ \A c \in Clock : act[c].view = 0
    BY <2>0, AsleepFacts, ClockFacts DEF Init
  <2>2. loop = [Idle EXCEPT !.at = "arm"]
    BY DEF Init
  <2>3. loop \in Looping /\ loop.at = "arm" /\ loop.view = 0 /\ loop.resets = <<>>
    BY <2>2, IdleFacts DEF Looping, LoopPlaces, Idle
  <2>4. TimersTypeOK
    <3>1. At(RoundClock, RoundPlaces) /\ \A v \in View : At(v, ViewPlaces)
      BY <2>0, <2>1, AsleepFacts DEF At, RoundPlaces, ViewPlaces
    <3>2. alarm \in [Clock -> Time \cup {None}] /\ view \in View /\ proposal \in BOOLEAN
          /\ cell \in [view : View, proposal : BOOLEAN]
          /\ armed \in Timer \cup {None} /\ slot \in Timer \cup {None} /\ timeouts \in SUBSET View
      BY ClockFacts DEF Init
    <3> QED BY <2>1, <2>3, <3>1, <3>2 DEF TimersTypeOK
  <2>5. view = 0 /\ cell.view = 0 /\ armed = None /\ slot = None /\ timeouts = {}
    BY DEF Init
  <2>l. Len(loop.resets) = 0
    BY <2>3
  <2>6. NothingAhead
    BY <2>1, <2>3, <2>5, <2>l DEF NothingAhead, NoTimeLoop
  <2>7. TimerComes
    BY <2>1, <2>3, <2>5, AsleepFacts DEF TimerComes, At
  <2>8. RoundClockRuns
    BY <2>1, <2>3, AsleepFacts DEF RoundClockRuns, Quiet, At
  <2>9. SlotIsKept /\ OneClockPerView /\ WatchIsKept
    BY <2>0, <2>1, <2>3, <2>5 DEF SlotIsKept, OneClockPerView, WatchIsKept, HoldsSlot, At
  <2> QED BY <2>4, <2>6, <2>7, <2>8, <2>9 DEF TimersInv
<1>2. TimersInv /\ [Next]_vars => TimersInv'
  BY TypeStep, AheadStep, ComesStep, RoundStepKeeps, ClocksStep DEF TimersInv, ClocksKept
<1> QED BY <1>1, <1>2, PTL DEF Spec

\* "We're in a time loop" (EventLoop.hs 559) is never reached through the clocks: no
\* timeout in the channel is for a view the node has yet to reach.
THEOREM TimesAreFromThePast == Spec => []NoTimeLoop
<1>1. TimersInv => NoTimeLoop
  BY DEF TimersInv, NothingAhead
<1> QED BY <1>1, TimersInductive, PTL

\* createNewViewTimer never starts a second clock for a view.
THEOREM ViewHasOneClock == Spec => []OneClockPerView
<1>1. TimersInv => OneClockPerView
  BY DEF TimersInv
<1> QED BY <1>1, TimersInductive, PTL

\* When the event loop waits, the round timer is for the node's view and will ring,
\* whatever the thread that re-arms it was doing meanwhile.
THEOREM RoundTimerIsNeverLost == Spec => []RoundIsTimed
<1>1. TimersInv => RoundIsTimed
  BY DEF TimersInv, RoundIsTimed, TimerComes, RoundClockRuns
<1> QED BY <1>1, TimersInductive, PTL

\* A view that holds the slot of the view timer has a clock that is set or running.
THEOREM ViewTimerIsNeverLost == Spec => []WatchIsKept
<1>1. TimersInv => WatchIsKept
  BY DEF TimersInv
<1> QED BY <1>1, TimersInductive, PTL
===============================================================================
