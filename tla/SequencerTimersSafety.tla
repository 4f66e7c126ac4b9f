------------------------ MODULE SequencerTimersSafety -------------------------
(***************************************************************************)
(* What the clocks of strato-sequencer promise: no view is without a round *)
(* timer, no view has two view clocks, and no timeout is for a view the    *)
(* engine has not reached.                                                 *)
(***************************************************************************)
EXTENDS SequencerTimers

At(c, places) == act[c].at \in places
Quiet(c)      == alarm[c] = None /\ At(c, {"asleep"})

RoundPlaces == {"asleep", "woken", "fire", "look", "rearm", "set"}
ViewPlaces  == {"absent", "asleep", "woken", "check", "fire", "push", "set", "release"}
LoopPlaces  == {"idle", "reset", "arm", "alarm", "carry", "update", "landed", "pushed", "timer", "start"}
Timer       == [view : View, due : Time]
Acting      == [at : RoundPlaces \cup ViewPlaces, view : View, due : Time, rearmed : BOOLEAN]
Looping     == [at : LoopPlaces, resets : Seq(View), sending : BOOLEAN, timer : BOOLEAN,
                view : View, due : Time]

\* Types of the variables, and the places a clock's thread may be in.
TimersTypeOK ==
    /\ view \in View /\ proposal \in BOOLEAN
    /\ cell \in [view : View, proposal : BOOLEAN]
    /\ armed \in Timer \cup {None} /\ slot \in Timer \cup {None}
    /\ alarm \in [Clock -> Time \cup {None}]
    /\ act \in [Clock -> Acting] /\ loop \in Looping
    /\ timeouts \in SUBSET View
    /\ At(RoundClock, RoundPlaces) /\ \A v \in View : At(v, ViewPlaces)

\* "We're in a time loop" (EventLoop.hs 559): a timeout for a round the node has
\* not reached ends the process.  Threads read views without a lock and their
\* timeouts wait in a channel, yet none is for a later view than the node's.
NoTimeLoop == \A v \in timeouts : v <= view

\* createNewViewTimer starts a clock only for a view that has none, although the
\* clocks give up the slot that says so ("At most one live clock per view").
OneClockPerView == loop.at = "start" => At(loop.view, {"absent"})

\* Whenever the event loop waits for its next event, the round timer is armed for
\* the node's view and its one clock will ring: no interleaving of the thread that
\* re-arms it with the loop that arms it loses the alarm ("it keeps re-firing").
RoundIsTimed ==
    loop.at = "idle" => /\ armed # None /\ armed.view = view
                        /\ ~ Quiet(RoundClock)

\* As long as a view holds the slot its clock will ring or is about to be set.
WatchIsKept ==
    \A v \in View : HoldsSlot(v) =>
        ~ (Quiet(v) \/ At(v, {"absent"})) \/ (loop.at = "start" /\ loop.view = v)

\* A view that is not left times out again and again: a lost ROUNDCHANGE is not the
\* last thing the timer does (Monad.hs 303).
RoundKeepsFiring ==
    \A v \in View : <>[](view = v) => []<>(At(RoundClock, {"look"}) /\ act[RoundClock].view = v)

\* A dead proposer is noticed: a view with a view timer is left or times out.
WatchedViewTimesOut ==
    \A v \in View : HoldsSlot(v) ~> (view > v \/ At(v, {"push"}))

(* The invariant the proofs rest on *)

\* Nothing the threads and the loop hold is ahead of the node's view.
NothingAhead ==
    /\ cell.view <= view /\ loop.view <= view
    /\ armed # None => armed.view <= view
    /\ slot # None => slot.view <= view
    /\ \A c \in Clock : act[c].view <= view
    /\ \A i \in 1 .. Len(loop.resets) : loop.resets[i] <= view
    /\ NoTimeLoop

\* The last view passed has its round timer, or the loop is on its way to arm it.
TimerComes ==
    /\ (loop.at = "reset" => loop.resets # <<>>) /\ (loop.at = "idle" => loop.resets = <<>>)
    /\ armed = None => loop.at = "arm" /\ At(RoundClock, {"asleep", "woken"})
    /\ IF loop.resets # <<>> THEN loop.resets[Len(loop.resets)] = view
       ELSE IF loop.at = "arm" THEN loop.view = view
       ELSE armed # None /\ armed.view = view

\* The round clock stops only when the loop is about to start it again; what its
\* thread has read still holds unless the loop re-armed, and then set the alarm.
RoundClockRuns ==
    /\ Quiet(RoundClock) => loop.at \in {"arm", "alarm"} \/ loop.resets # <<>>
    /\ ~ At(RoundClock, {"asleep", "woken"}) /\ act[RoundClock].rearmed =>
          loop.at = "alarm" \/ alarm[RoundClock] # None
    /\ At(RoundClock, {"fire", "look", "rearm"}) /\ ~ act[RoundClock].rearmed =>
          armed # None /\ armed.view = act[RoundClock].view

\* A view that has had a clock holds the slot until the node is past it.
SlotIsKept ==
    /\ \A v \in View : ~ At(v, {"absent"}) => v <= cell.view /\ (v = cell.view => HoldsSlot(v))
    /\ \A v \in View : At(v, {"check"}) => act[v].view <= cell.view
    /\ \A v \in View : At(v, {"release"}) => v < cell.view
    /\ loop.at = "start" => HoldsSlot(loop.view) /\ loop.view = cell.view

\* The inductive invariant.
TimersInv ==
    /\ TimersTypeOK /\ NothingAhead /\ TimerComes /\ RoundClockRuns
    /\ SlotIsKept /\ OneClockPerView /\ WatchIsKept
===============================================================================
