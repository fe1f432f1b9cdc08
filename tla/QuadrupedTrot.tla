--------------------------- MODULE QuadrupedTrot ---------------------------
(***************************************************************************)
(* The walking gait of the quadruped (mech/quadruped_trot.cc), which       *)
(* DoControl_Walk runs once per control cycle.  The four legs form two     *)
(* virtual legs, diagonal pairs, that swing in turn.                       *)
(*                                                                         *)
(* Time is counted in control periods.  Foot positions are not kept: how   *)
(* far a leg can travel, whether one is about to leave its valid region    *)
(* and when the body passes over the balance line are choices, made where  *)
(* the code computes them.                                                 *)
(***************************************************************************)
EXTENDS Integers

CONSTANTS
  MaxSwing,       \* walk.max_swing_time_s
  MinSwing,       \* walk.min_swing_time_s
  MaxTwoVleg,     \* walk.max_twovleg_time_s
  MaxFlight,      \* walk.max_flight_time_s
  MaxStance,      \* walk.max_stance_s
  MinInvalid,     \* walk.min_invalid_time_s
  FullStance,     \* a leg's stance of 1.0
  InitialStance,  \* walk.initial_stance
  StanceRestore,  \* walk.stance_restore, per period
  TopSpeed,       \* the speeds at which max_speed leaves a command alone
  Distances,      \* what travel_ratio * travel_distance may be
  Commands        \* what clients ask for while walking

VlegIds == {0, 1}
Other(v) == (v + 1) % 2
Least(a, b) == IF a < b THEN a ELSE b
Greatest(a, b) == IF a < b THEN b ELSE a

WalkCommand == [speed: Nat, turn: Nat, maximize_flight: BOOLEAN]

ASSUME GaitTimes ==
  /\ {MaxSwing, MinSwing, MaxTwoVleg, MaxFlight, MaxStance, MinInvalid} \subseteq Nat
  /\ MinSwing <= MaxSwing /\ 2 * MaxFlight < MinSwing /\ MinInvalid > 0
ASSUME StanceLevels ==
  /\ {FullStance, InitialStance, StanceRestore} \subseteq Nat \ {0}
  /\ InitialStance <= FullStance
ASSUME WalkInputs ==
  /\ Distances \subseteq Nat \ {0}
  /\ TopSpeed \in Nat
  /\ Commands \subseteq WalkCommand

VARIABLES
  command,        \* v_R, w_R and walk of current_command_
  speed,          \* the norm of desired_R.v
  turn,           \* the norm of desired_R.w
  vlegs,          \* walk.vlegs: mode and times
  stance,         \* stance of the legs of each virtual leg
  stance_elapsed, \* walk.stance_elapsed_s
  next_step_vleg, \* walk.next_step_vleg
  idle_count,     \* walk.idle_count, counted up to 2
  trot            \* walk.trot

vars == <<command, speed, turn, vlegs, stance, stance_elapsed,
          next_step_vleg, idle_count, trot>>

VLeg == [mode: {"kStance", "kSwing"}, swing_elapsed: Nat, stance_elapsed: Nat,
         phase: Nat]
Trot == [swing_time: Nat, onevleg_time: Nat, twovleg_time: Nat,
         flight_time: Nat, max_speed: Nat]

TypeOK ==
  /\ command \in WalkCommand
  /\ speed \in Nat
  /\ turn \in Nat
  /\ vlegs \in [VlegIds -> VLeg]
  /\ stance \in [VlegIds -> 0..FullStance]
  /\ stance_elapsed \in Nat
  /\ next_step_vleg \in VlegIds
  /\ idle_count \in 0..2
  /\ trot \in Trot

Still == [speed |-> 0, turn |-> 0, maximize_flight |-> FALSE]

\* kWalk is entered standing, with the walk state at its defaults.
Init ==
  /\ command \in Commands
  /\ speed = 0 /\ turn = 0
  /\ vlegs = [v \in VlegIds |-> [mode |-> "kStance", swing_elapsed |-> 0,
                                 stance_elapsed |-> 0, phase |-> 0]]
  /\ stance = [v \in VlegIds |-> FullStance]
  /\ stance_elapsed = 0
  /\ next_step_vleg = 0
  /\ idle_count = 0
  /\ trot = [swing_time |-> 0, onevleg_time |-> 0, twovleg_time |-> 0,
             flight_time |-> 0, max_speed |-> 0]

-----------------------------------------------------------------------------
(* CalculateTrot: the gait for a speed.  dist / speed is a time; where the *)
(* code divides, the result is rounded down to whole periods.              *)

CalculateTrot(maximize_flight, dist, v) ==
  LET Gait(swing, two, flight) ==
        [swing_time |-> swing, twovleg_time |-> two, flight_time |-> flight,
         onevleg_time |-> swing - 2 * flight,
         max_speed |-> dist \div (MinSwing - 2 * MaxFlight)]
      Below(time) == v * time < dist   \* v < dist / time
  IN CASE ~maximize_flight /\ Below(2 * MaxTwoVleg + MaxSwing) ->
            Gait(MaxSwing, MaxTwoVleg, 0)
       [] ~maximize_flight /\ ~Below(2 * MaxTwoVleg + MaxSwing)
            /\ Below(MaxSwing) ->
            Gait(MaxSwing, (dist - v * MaxSwing) \div (2 * v), 0)
       [] ~maximize_flight /\ ~Below(MaxSwing)
            /\ Below(MaxSwing - 2 * MaxFlight) ->
            Gait(MaxSwing, 0, (v * MaxSwing - dist) \div (2 * v))
       [] /\ maximize_flight \/ ~Below(MaxSwing - 2 * MaxFlight)
          /\ Below(MinSwing - 2 * MaxFlight) ->
            Gait(IF v = 0 THEN MaxSwing
                 ELSE Least(MaxSwing, dist \div v + 2 * MaxFlight),
                 0, MaxFlight)
       [] OTHER -> Gait(MinSwing, 0, MaxFlight)

-----------------------------------------------------------------------------
(* The steps of WalkContext::Run, each a function of the state that the    *)
(* ones before it have made.                                               *)

Swinging(legs) == {v \in VlegIds : legs[v].mode = "kSwing"}
Standing(legs) == VlegIds \ Swinging(legs)

\* Mutant: a dead band leaves the body one step short of what is asked.
FilterCommandDeadBand(current, desired) ==
  IF current < desired THEN current + 1
  ELSE IF current > desired + 1 THEN current - 1 ELSE current

\* FilterCommand: at most one step of acceleration per period.
FilterCommand(current, desired) ==
  IF current < desired THEN current + 1
  ELSE IF current > desired THEN current - 1 ELSE current

\* UpdateGlobal, its first half: the body accelerates only from the ground.
UpdateCommandedR ==
  IF Standing(vlegs) = {} THEN UNCHANGED <<speed, turn>>
  ELSE /\ speed' = Least(FilterCommand(speed, command.speed),
                         Greatest(TopSpeed, trot.max_speed))
       /\ turn' = FilterCommand(turn, command.turn)

\* UpdateGlobal, its second half.
UpdateStanceTime ==
  stance_elapsed' = IF Swinging(vlegs) = {} THEN stance_elapsed + 1 ELSE 0

UpdateTrot(dist) ==
  trot' = CalculateTrot(command.maximize_flight, dist, speed')

\* Mutant: the correction has the wrong sign.
FlightDueSign(v) ==
  2 * vlegs[v].stance_elapsed
    + (trot'.swing_time - vlegs[Other(v)].phase - trot'.flight_time)
  >= 2 * trot'.onevleg_time

\* With a flight phase, a virtual leg lifts when it has stood for
\* onevleg_time, corrected by half the phase error of the other one.
FlightDue(v) ==
  2 * vlegs[v].stance_elapsed
    - (trot'.swing_time - vlegs[Other(v)].phase - trot'.flight_time)
  >= 2 * trot'.onevleg_time

\* Mutant: the loop does not skip a virtual leg that is in the air.
DueAnyMode == {v \in VlegIds : FlightDue(v)}

Due == {v \in Standing(vlegs) : FlightDue(v)}

\* Mutant: the stance is timed before this period is added.
MaxStanceExceededBefore == stance_elapsed > MaxStance

MaxStanceExceeded == stance_elapsed' > MaxStance

\* Whether legs may be about to leave their valid regions.  TimeToLeave_G is
\* infinite for a foot that is inside and has not moved, and a foot is put
\* down inside: after two landings at rest no foot is outside.
MayBecomeInvalid == speed # 0 \/ turn # 0 \/ idle_count < 2

\* What vleg_to_lift may return: a virtual leg, -1 for the next one, or none
\* (2).  A leg that is about to become invalid may force a lift, when the
\* gait has a two leg phase.  Without flight the balance line decides when
\* the body moves, and the length of the stance when it does not.
None == 2
VlegToLift ==
  LET forced == IF trot'.twovleg_time >= MinInvalid /\ MayBecomeInvalid
                THEN {-1} \cup Standing(vlegs) ELSE {}
  IN forced \cup
     CASE MaxStanceExceeded -> {-1}
       [] ~MaxStanceExceeded /\ trot'.flight_time = 0 ->
            (IF speed' # 0 \/ turn' # 0 THEN {-1, None} ELSE {})
              \cup {IF stance_elapsed' >= trot'.twovleg_time THEN -1 ELSE None}
       [] OTHER -> {IF Due = {} THEN None
                    ELSE CHOOSE v \in Due : \A w \in Due : v <= w}

LiftVleg(v) ==
  [vlegs EXCEPT ![v].mode = "kSwing", ![v].swing_elapsed = 0,
                ![Other(v)].stance_elapsed = 0]

\* Who is next once v has been lifted.
StepAfter(v) == Other(v)

\* MaybeLift.  lifted are the virtual legs after it.
MaybeLift(lifted) ==
  \/ /\ Standing(vlegs) = {} \/ (Swinging(vlegs) # {} /\ trot'.flight_time = 0)
     /\ lifted = vlegs
     /\ UNCHANGED next_step_vleg
  \/ /\ Standing(vlegs) # {}
     /\ Swinging(vlegs) = {} \/ trot'.flight_time > 0
     /\ \E choice \in VlegToLift :
          \/ /\ choice = None
             /\ lifted = vlegs
             /\ UNCHANGED next_step_vleg
          \/ /\ choice # None
             /\ LET v == IF choice = -1 THEN next_step_vleg ELSE choice
                IN lifted = LiftVleg(v) /\ next_step_vleg' = StepAfter(v)

-----------------------------------------------------------------------------
\* PropagateStance, as far as the weight on a leg goes.
PropagateStance(level) == Least(FullStance, level + StanceRestore)

\* PropagateLegs for one virtual leg: a period passes.
Advance(leg) ==
  IF leg.mode = "kSwing"
  THEN [leg EXCEPT !.swing_elapsed = @ + 1, !.stance_elapsed = 0,
                   !.phase = leg.swing_elapsed + 1]
  ELSE [leg EXCEPT !.stance_elapsed = @ + 1, !.swing_elapsed = 0,
                   !.phase = trot'.swing_time + leg.stance_elapsed + 1]

Lands(leg) == leg.swing_elapsed > trot'.swing_time

Land(leg) == [leg EXCEPT !.mode = "kStance", !.swing_elapsed = 0]

\* PropagateLegs: both virtual legs advance, those that have swung for
\* swing_time land, and each landing counts or clears idle_count.
PropagateLegs(lifted) ==
  LET moved == [v \in VlegIds |-> Advance(lifted[v])]
      landed == {v \in VlegIds : Lands(moved[v])}
  IN /\ vlegs' = [v \in VlegIds |->
                    IF v \in landed THEN Land(moved[v]) ELSE moved[v]]
     /\ stance' = [v \in VlegIds |->
                     IF v \in landed THEN InitialStance
                     ELSE IF moved[v].mode = "kSwing" THEN 0
                     ELSE PropagateStance(stance[v])]
     /\ idle_count' =
          IF landed = {} THEN idle_count
          ELSE IF speed' # 0 \/ turn' # 0 THEN 0
          ELSE Least(2, idle_count + IF landed = VlegIds THEN 2 ELSE 1)

Run ==
  \E dist \in Distances, lifted \in {vlegs, LiftVleg(0), LiftVleg(1)} :
    /\ UpdateCommandedR
    /\ UpdateStanceTime
    /\ UpdateTrot(dist)
    /\ MaybeLift(lifted)
    /\ PropagateLegs(lifted)
    /\ UNCHANGED command

\* A client sends another command between two cycles.
SetCommand(c) ==
  /\ command' = c
  /\ UNCHANGED <<speed, turn, vlegs, stance, stance_elapsed,
                 next_step_vleg, idle_count, trot>>

\* Fault, a stop, a stand up and a walk once more: the robot stands still,
\* but Fault has not reset the walk state, as leaving kWalk otherwise does.
WalkAfterFault ==
  /\ speed' = 0 /\ turn' = 0
  /\ stance' = [v \in VlegIds |-> FullStance]
  /\ UNCHANGED <<command, vlegs, stance_elapsed, next_step_vleg, idle_count,
                 trot>>

Next == Run \/ WalkAfterFault \/ \E c \in Commands : SetCommand(c)

Spec == Init /\ [][Next]_vars

\* The control cycle runs again and again.
FairSpec == Spec /\ WF_vars(Run)

-----------------------------------------------------------------------------
(* Properties.                                                             *)

\* A swing that has begun is never begun again in the air.
SwingNotRestarted ==
  [][\A v \in VlegIds :
       vlegs[v].mode = "kSwing" /\ vlegs'[v].mode = "kSwing" =>
         vlegs'[v].swing_elapsed >= vlegs[v].swing_elapsed]_vars

\* max_stance_s is the maximum time in stance: the period after it lifts.
StanceBounded == stance_elapsed <= MaxStance + 1

\* However the gait changes under way, the time both virtual legs are in the
\* air is bounded: with its correction one lifts when the other has swung for
\* swing_time - 5/3 flight_time, and none swings for longer than MaxSwing.
AirborneBounded ==
  Swinging(vlegs) = VlegIds =>
    \E v \in VlegIds : 3 * vlegs[v].swing_elapsed
                         <= 3 * (MaxSwing - MinSwing) + 5 * MaxFlight

\* When it is asked to stand still for long enough, the walk gets to a state
\* that MaybeChangeMode lets it leave from.
Settled == idle_count = 2 /\ \A v \in VlegIds : stance[v] = FullStance
WalkCanEnd == <>[](command = Still) => <>Settled
=============================================================================
