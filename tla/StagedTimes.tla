---------------------------- MODULE StagedTimes ----------------------------
(***************************************************************************)
(* The time a PATCH asks for against the moment its activation runs.       *)
(* NodeApiPrivate::Stage() turns the request into a key of the activator's *)
(* queue with ConvertTaiStringToTimePoint() (an absolute TAI time) or      *)
(* AddTaiStringToTimePoint() (a duration from now); Activator::Wait() turns*)
(* the key back into an instant of the system clock.  One activation at a  *)
(* time, so that only these conversions decide when it runs.               *)
(***************************************************************************)
EXTENDS Activator

CONSTANT Delays   \* bound: the durations of relative activations

VARIABLE due   \* when the queued activation was asked to run, in UTC

timeVars == <<vars, due>>

Idle == Pending = {} /\ \A t \in Threads : pc[t] = "exited"

TimesInit == Init /\ due = 0

StageAbsolute(r, k) ==
  /\ Idle
  /\ AddActivation(k, r)
  /\ due' = k - LeapSeconds

StageRelative(r, d) ==
  /\ Idle
  /\ now + d <= Horizon
  /\ AddActivation(now + d - LeapSeconds, r)
  /\ due' = now + d

Serve ==
  /\ (\E t \in Threads : ThreadStep(t)) \/ Destroy \/ Joined \/ Tick
  /\ UNCHANGED due

TimesNext ==
  \/ \E r \in Resources, k \in Tai : StageAbsolute(r, k)
  \/ \E r \in Resources, d \in Delays : StageRelative(r, d)
  \/ Serve

TimesSpec == TimesInit /\ [][TimesNext]_timeVars

(***************************************************************************)
(* Stage() says of a relative activation that it will "sleep for the given *)
(* time period": no activation runs before the instant it was asked for.   *)
(***************************************************************************)
NotBeforeDue == itEvent # None => now >= due
=============================================================================
