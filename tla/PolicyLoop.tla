----------------------------- MODULE PolicyLoop -----------------------------
(***************************************************************************)
(* What the controller plugin promises to the rest of Nav2, without its    *)
(* threads, its queue, its mutex and its buffers: a loop that, for a plan, *)
(* senses, aims and acts.  Sensing is atomic: it takes the latest reading  *)
(* there is at one instant, and whatever is delivered later waits for the  *)
(* next turn of the loop.  RLController implements this module.            *)
(***************************************************************************)
EXTENDS Integers, Sequences

CONSTANTS
  Reading,      \* what the sensor delivers
  NoReading,    \* what there is before it delivers anything
  Features(_),  \* what the policy sees of a reading
  Plan,         \* sequences of waypoints, possibly empty
  Action,       \* what the policy may decide
  Rest,         \* its decision before the first turn
  WINDOW        \* how many readings back the policy sees

VARIABLES
  reading,   \* the latest one delivered
  window,    \* the features of the last WINDOW sensed readings, newest first
  route,     \* the plan in force
  progress,  \* how far along it the loop has got
  action,    \* the last decision
  phase      \* of the turn in progress

vars == <<reading, window, route, progress, action, phase>>

Init ==
  /\ reading = NoReading
  /\ window = << >>
  /\ route = << >>
  /\ progress = 1
  /\ action = Rest
  /\ phase = "idle"

\* Readings are delivered at any time, also in the middle of a turn.
Deliver(m) ==
  /\ reading' = m
  /\ UNCHANGED <<window, route, progress, action, phase>>

\* A plan is replaced between two turns, and its pursuit starts over.
NewPlan(p) ==
  /\ phase = "idle"
  /\ route' = p
  /\ progress' = 1
  /\ UNCHANGED <<reading, window, action, phase>>

\* The window before the first turn counts as full of the first reading.
Slide(x) ==
  IF window = << >> THEN [n \in 1 .. WINDOW |-> x]
  ELSE [n \in 1 .. WINDOW |-> IF n = 1 THEN x ELSE window[n - 1]]

Sense ==
  /\ phase = "idle" /\ route # << >>
  /\ phase' = "sensed"
  /\ window' = Slide(Features(reading))
  /\ UNCHANGED <<reading, route, progress, action>>

\* Progress along a plan is never lost.
Aim ==
  /\ phase = "sensed"
  /\ phase' = "aimed"
  /\ progress' \in progress .. Len(route)
  /\ UNCHANGED <<reading, window, route, action>>

Decide ==
  /\ phase = "aimed"
  /\ phase' = "idle"
  /\ action' \in Action
  /\ UNCHANGED <<reading, window, route, progress>>

\* A turn may fail, and then decides nothing.
Fail ==
  /\ phase = "aimed"
  /\ phase' = "idle"
  /\ UNCHANGED <<reading, window, route, progress, action>>

\* The loop is taken down and set up again.
Renew ==
  /\ phase = "idle"
  /\ Init'

Next ==
  \/ \E m \in Reading : Deliver(m)
  \/ \E p \in Plan : NewPlan(p)
  \/ Sense \/ Aim \/ Decide \/ Fail
  \/ Renew

Spec == Init /\ [][Next]_vars

\* A turn that was started ends.
Fairness == WF_vars(Aim) /\ WF_vars(Decide \/ Fail)

FairSpec == Spec /\ Fairness
=============================================================================
