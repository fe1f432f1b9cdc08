----------------------------- MODULE TrotProofs -----------------------------
(***************************************************************************)
(* Proofs about QuadrupedTrot, for any configuration of the gait that its  *)
(* assumptions allow, any commands and any distances a leg may travel.     *)
(***************************************************************************)
EXTENDS QuadrupedTrot, TLAPS

USE DEF VlegIds

\* What every gait has: a swing within its limits, of which the flight before and
\* after leaves some time on one virtual leg, and no flight beside a two leg phase.
GaitOK(t) ==
  /\ t \in Trot
  /\ MinSwing <= t.swing_time /\ t.swing_time <= MaxSwing
  /\ t.flight_time <= MaxFlight
  /\ t.onevleg_time = t.swing_time - 2 * t.flight_time
  /\ t.twovleg_time > 0 => t.flight_time = 0

-----------------------------------------------------------------------------
(* CalculateTrot.                                                          *)

\* Division rounds down.
LEMMA Quotient ==
  ASSUME NEW a \in Nat, NEW b \in Nat, b > 0
  PROVE  /\ a \div b \in Nat /\ b * (a \div b) <= a /\ a < b * (a \div b) + b
  OBVIOUS

\* A product of naturals with a positive factor grows with the other.
LEMMA Grows ==
  ASSUME NEW a \in Int, NEW b \in Int, NEW v \in Nat, v > 0, v * a < v * b
  PROVE  a < b
  OBVIOUS

\* A product that is positive has positive factors.
LEMMA Factor ==
  ASSUME NEW a \in Nat, NEW v \in Nat, v * a > 0 PROVE v > 0
  OBVIOUS

\* The gait for any speed and distance is as GaitOK says.
LEMMA TrotCalculated ==
  ASSUME NEW maximize \in BOOLEAN, NEW dist \in Nat \ {0}, NEW v \in Nat
  PROVE  GaitOK(CalculateTrot(maximize, dist, v))
<1> DEFINE Gait(swing, two, flight) ==
             [swing_time |-> swing, twovleg_time |-> two, flight_time |-> flight,
              onevleg_time |-> swing - 2 * flight,
              max_speed |-> dist \div (MinSwing - 2 * MaxFlight)]
           Below(time) == v * time < dist
           result == CalculateTrot(maximize, dist, v)
<1>1. /\ MaxSwing \in Nat /\ MinSwing \in Nat /\ MaxTwoVleg \in Nat /\ MaxFlight \in Nat
      /\ MinSwing <= MaxSwing /\ 2 * MaxFlight < MinSwing
  BY GaitTimes
<1>2. ASSUME NEW swing \in Nat, NEW two \in Nat, NEW flight \in Nat,
             MinSwing <= swing, swing <= MaxSwing, flight <= MaxFlight, two > 0 => flight = 0
      PROVE  GaitOK(Gait(swing, two, flight))
  <2>1. dist \div (MinSwing - 2 * MaxFlight) \in Nat
    BY <1>1, Quotient
  <2>2. swing - 2 * flight \in Nat
    BY <1>1, <1>2
  <2>3. Gait(swing, two, flight) \in Trot
    BY <2>1, <2>2 DEF Trot
  <2>4. QED
    BY <1>2, <2>3 DEF GaitOK
<1>3. /\ Below(2 * MaxTwoVleg + MaxSwing) => Below(MaxSwing)
      /\ Below(MaxSwing) => Below(MaxSwing - 2 * MaxFlight)
  <2>1. /\ v * MaxSwing <= v * (2 * MaxTwoVleg + MaxSwing)
        /\ v * (MaxSwing - 2 * MaxFlight) <= v * MaxSwing
    BY <1>1
  <2>2. /\ v * MaxSwing \in Int /\ v * (2 * MaxTwoVleg + MaxSwing) \in Int
        /\ v * (MaxSwing - 2 * MaxFlight) \in Int
    BY <1>1
  <2>3. QED
    BY <2>1, <2>2
<1>4. CASE ~maximize /\ Below(2 * MaxTwoVleg + MaxSwing)
  <2>1. result = Gait(MaxSwing, MaxTwoVleg, 0)
    BY <1>3, <1>4 DEF CalculateTrot
  <2>2. QED
    BY <1>1, <1>2, <2>1
<1>5. CASE ~maximize /\ ~Below(2 * MaxTwoVleg + MaxSwing) /\ Below(MaxSwing)
  <2>1. result = Gait(MaxSwing, (dist - v * MaxSwing) \div (2 * v), 0)
    BY <1>3, <1>5 DEF CalculateTrot
  <2>2. v * (2 * MaxTwoVleg + MaxSwing) > 0
    BY <1>1, <1>5
  <2>3. v > 0
    BY <1>1, <2>2, Factor
  <2>4. dist - v * MaxSwing \in Nat
    BY <1>1, <1>5
  <2>5. (dist - v * MaxSwing) \div (2 * v) \in Nat
    BY <2>3, <2>4, Quotient
  <2>6. QED
    BY <1>1, <1>2, <2>1, <2>5
<1>6. CASE ~maximize /\ ~Below(MaxSwing) /\ Below(MaxSwing - 2 * MaxFlight)
  <2> DEFINE over == v * MaxSwing - dist
             flight == over \div (2 * v)
  <2>1. result = Gait(MaxSwing, 0, flight)
    BY <1>3, <1>6 DEF CalculateTrot
  <2>2. v > 0
    BY <1>1, <1>6, Factor
  <2>3. over \in Nat /\ over < v * (2 * MaxFlight)
    <3>1. v * (MaxSwing - 2 * MaxFlight) = v * MaxSwing - v * (2 * MaxFlight)
      BY <1>1
    <3>2. QED
      BY <1>1, <1>6, <3>1
  <2>4. flight \in Nat /\ (2 * v) * flight <= over
    BY <2>2, <2>3, Quotient
  <2> HIDE DEF over, flight
  <2>5. v * (2 * flight) < v * (2 * MaxFlight)
    BY <1>1, <2>3, <2>4
  <2>6. flight <= MaxFlight
    BY <1>1, <2>2, <2>4, <2>5, Grows
  <2>7. QED
    BY <1>1, <1>2, <2>1, <2>4, <2>6
<1>7. CASE /\ ~(~maximize /\ Below(2 * MaxTwoVleg + MaxSwing))
           /\ ~(~maximize /\ ~Below(2 * MaxTwoVleg + MaxSwing) /\ Below(MaxSwing))
           /\ ~(~maximize /\ ~Below(MaxSwing) /\ Below(MaxSwing - 2 * MaxFlight))
           /\ maximize \/ ~Below(MaxSwing - 2 * MaxFlight)
           /\ Below(MinSwing - 2 * MaxFlight)
  <2> DEFINE swing == IF v = 0 THEN MaxSwing ELSE Least(MaxSwing, dist \div v + 2 * MaxFlight)
  <2>1. result = Gait(swing, 0, MaxFlight)
    BY <1>7 DEF CalculateTrot
  <2>2. swing \in Nat /\ MinSwing <= swing /\ swing <= MaxSwing
    <3>1. CASE v = 0
      BY <1>1, <3>1
    <3>2. CASE v > 0
      <4>1. dist \div v \in Nat /\ dist < v * (dist \div v) + v
        BY <3>2, Quotient
      <4>2. v * (MinSwing - 2 * MaxFlight) < v * (dist \div v + 1)
        BY <1>1, <1>7, <4>1
      <4>3. MinSwing - 2 * MaxFlight < dist \div v + 1
        BY <1>1, <3>2, <4>1, <4>2, Grows
      <4>4. QED
        BY <1>1, <3>2, <4>1, <4>3 DEF Least
    <3>3. QED
      BY <3>1, <3>2
  <2> HIDE DEF swing
  <2>3. QED
    BY <1>1, <1>2, <2>1, <2>2
<1>8. CASE /\ ~(~maximize /\ Below(2 * MaxTwoVleg + MaxSwing))
           /\ ~(~maximize /\ ~Below(2 * MaxTwoVleg + MaxSwing) /\ Below(MaxSwing))
           /\ ~(~maximize /\ ~Below(MaxSwing) /\ Below(MaxSwing - 2 * MaxFlight))
           /\ ~(/\ maximize \/ ~Below(MaxSwing - 2 * MaxFlight)
                /\ Below(MinSwing - 2 * MaxFlight))
  <2>1. result = Gait(MinSwing, 0, MaxFlight)
    BY <1>8 DEF CalculateTrot
  <2>2. QED
    BY <1>1, <1>2, <2>1
<1>9. QED
  BY <1>4, <1>5, <1>6, <1>7, <1>8

-----------------------------------------------------------------------------
(* The virtual legs over one period.                                       *)

\* What PropagateLegs makes of one virtual leg.
Moved(leg) == IF Lands(Advance(leg)) THEN Land(Advance(leg)) ELSE Advance(leg)

\* One that stands, stands on; one that swings does so until swing_time is over.
LEMMA LegMoved ==
  ASSUME GaitOK(trot'), NEW leg \in VLeg
  PROVE  /\ Moved(leg) \in VLeg
         /\ leg.mode = "kStance" => /\ Moved(leg).mode = "kStance"
                                    /\ Moved(leg).stance_elapsed = leg.stance_elapsed + 1
         /\ leg.mode = "kSwing" /\ leg.swing_elapsed >= trot'.swing_time =>
              Moved(leg).mode = "kStance" /\ Moved(leg).stance_elapsed = 0
         /\ leg.mode = "kSwing" /\ leg.swing_elapsed < trot'.swing_time =>
              /\ Moved(leg).mode = "kSwing"
              /\ Moved(leg).swing_elapsed = leg.swing_elapsed + 1
              /\ Moved(leg).phase = leg.swing_elapsed + 1
<1>1. trot'.swing_time \in Nat
  BY DEF GaitOK, Trot
<1>2. CASE leg.mode = "kStance"
  <2>1. Advance(leg) = [leg EXCEPT !.stance_elapsed = @ + 1, !.swing_elapsed = 0,
                                   !.phase = trot'.swing_time + leg.stance_elapsed + 1]
    BY <1>2 DEF Advance
  <2>2. Advance(leg) = [mode |-> "kStance", swing_elapsed |-> 0,
                        stance_elapsed |-> leg.stance_elapsed + 1,
                        phase |-> trot'.swing_time + leg.stance_elapsed + 1]
    BY <1>1, <1>2, <2>1 DEF VLeg
  <2>3. /\ Advance(leg) \in VLeg /\ Advance(leg).mode = "kStance"
        /\ Advance(leg).swing_elapsed = 0 /\ Advance(leg).stance_elapsed = leg.stance_elapsed + 1
    BY <1>1, <2>2 DEF VLeg
  <2>4. ~Lands(Advance(leg))
    BY <1>1, <2>3 DEF Lands
  <2>5. QED
    BY <1>2, <2>3, <2>4 DEF Moved
<1>3. CASE leg.mode = "kSwing"
  <2>1. Advance(leg) = [leg EXCEPT !.swing_elapsed = @ + 1, !.stance_elapsed = 0,
                                   !.phase = leg.swing_elapsed + 1]
    BY <1>3 DEF Advance
  <2>2. Advance(leg) = [mode |-> "kSwing", swing_elapsed |-> leg.swing_elapsed + 1,
                        stance_elapsed |-> 0, phase |-> leg.swing_elapsed + 1]
    BY <1>3, <2>1 DEF VLeg
  <2>3. /\ Advance(leg) \in VLeg /\ Advance(leg).mode = "kSwing"
        /\ Advance(leg).swing_elapsed = leg.swing_elapsed + 1
        /\ Advance(leg).stance_elapsed = 0 /\ Advance(leg).phase = leg.swing_elapsed + 1
    BY <2>2 DEF VLeg
  <2>4. leg.swing_elapsed \in Nat
    BY DEF VLeg
  <2>5. CASE leg.swing_elapsed < trot'.swing_time
    <3>1. ~Lands(Advance(leg))
      BY <1>1, <2>3, <2>4, <2>5 DEF Lands
    <3>2. QED
      BY <1>1, <1>3, <2>3, <2>4, <2>5, <3>1 DEF Moved
  <2>6. CASE leg.swing_elapsed >= trot'.swing_time
    <3>1. Lands(Advance(leg))
      BY <1>1, <2>3, <2>4, <2>6 DEF Lands
    <3>2. Moved(leg) = [Advance(leg) EXCEPT !.mode = "kStance", !.swing_elapsed = 0]
      BY <3>1 DEF Moved, Land
    <3>3. Moved(leg) \in VLeg /\ Moved(leg).mode = "kStance" /\ Moved(leg).stance_elapsed = 0
      BY <2>3, <3>2 DEF VLeg
    <3>4. QED
      BY <1>1, <1>3, <2>4, <2>6, <3>3
  <2>7. QED
    BY <1>1, <2>4, <2>5, <2>6
<1>4. QED
  BY <1>2, <1>3 DEF VLeg

\* A leg that is lifted begins its swing, and the other its time alone.
LEMMA LegLifted ==
  ASSUME vlegs \in [VlegIds -> VLeg], NEW v \in VlegIds
  PROVE  /\ LiftVleg(v) \in [VlegIds -> VLeg]
         /\ LiftVleg(v)[v].mode = "kSwing" /\ LiftVleg(v)[v].swing_elapsed = 0
         /\ LiftVleg(v)[Other(v)].mode = vlegs[Other(v)].mode
         /\ LiftVleg(v)[Other(v)].swing_elapsed = vlegs[Other(v)].swing_elapsed
         /\ LiftVleg(v)[Other(v)].stance_elapsed = 0
         /\ Other(v) \in VlegIds /\ Other(v) # v /\ Other(Other(v)) = v
<1> DEFINE w == Other(v)
           up == LiftVleg(v)
<1>1. w \in VlegIds /\ w # v /\ Other(w) = v /\ VlegIds = {v, w}
  BY DEF Other
<1> HIDE DEF w, VlegIds
<1>2. vlegs[v] \in VLeg /\ vlegs[w] \in VLeg
  BY <1>1
<1>3. up = [vlegs EXCEPT ![v].mode = "kSwing", ![v].swing_elapsed = 0,
                         ![w].stance_elapsed = 0]
  BY DEF LiftVleg, w
<1> HIDE DEF up
<1>4. /\ up[v] = [vlegs[v] EXCEPT !.mode = "kSwing", !.swing_elapsed = 0]
      /\ up[w] = [vlegs[w] EXCEPT !.stance_elapsed = 0]
      /\ up = [x \in VlegIds |-> up[x]]
  BY <1>1, <1>3
<1>5. /\ up[v] = [mode |-> "kSwing", swing_elapsed |-> 0,
                  stance_elapsed |-> vlegs[v].stance_elapsed, phase |-> vlegs[v].phase]
      /\ up[w] = [mode |-> vlegs[w].mode, swing_elapsed |-> vlegs[w].swing_elapsed,
                  stance_elapsed |-> 0, phase |-> vlegs[w].phase]
  BY <1>2, <1>4 DEF VLeg
<1>6. up[v] \in VLeg /\ up[w] \in VLeg
  BY <1>2, <1>5 DEF VLeg
<1>7. up \in [VlegIds -> VLeg]
  BY <1>1, <1>4, <1>6
<1>8. QED
  BY <1>1, <1>5, <1>7 DEF up, w

-----------------------------------------------------------------------------
(* The invariant.                                                          *)

\* While a virtual leg swings its phase is the time it has swung, which is no longer
\* than MaxSwing, and the other has stood no longer than that, if it stands.  If it
\* swings too, one was lifted late in the swing of the other.
LiftedLate(legs, v) ==
  3 * (legs[Other(v)].swing_elapsed - legs[v].swing_elapsed) >= 3 * MinSwing - 5 * MaxFlight

\* What holds of the virtual legs, one by one and of both.
SwingsOK(legs) ==
  /\ \A v \in VlegIds : legs[v].mode = "kSwing" =>
       /\ legs[v].swing_elapsed <= MaxSwing
       /\ \/ legs[Other(v)].mode = "kSwing"
          \/ legs[Other(v)].stance_elapsed <= legs[v].swing_elapsed
  /\ (\A v \in VlegIds : legs[v].mode = "kSwing") => \E v \in VlegIds : LiftedLate(legs, v)

\* The same of the state, in which the phase is the swing's time.
SwingInv ==
  /\ SwingsOK(vlegs)
  /\ \A v \in VlegIds : vlegs[v].mode = "kSwing" => vlegs[v].phase = vlegs[v].swing_elapsed

\* When MaxStance is exceeded a leg has been lifted.
StanceInv == StanceBounded /\ (Swinging(vlegs) = {} => stance_elapsed <= MaxStance)

\* The first virtual leg that is due.
LEMMA LeastDue == Due # {} => (CHOOSE v \in Due : \A w \in Due : v <= w) \in Due
<1>1. Due \subseteq {0, 1}
  BY DEF Due, Standing
<1>2. CASE 0 \in Due
  <2>1. \A w \in Due : 0 <= w
    BY <1>1
  <2>2. \E v \in Due : \A w \in Due : v <= w
    BY <1>2, <2>1
  <2>3. QED
    BY <2>2
<1>3. CASE 0 \notin Due /\ Due # {}
  <2>1. Due = {1}
    BY <1>1, <1>3
  <2>2. QED
    BY <2>1
<1>4. QED
  BY <1>2, <1>3

\* What MaybeLift does, when it is called with a gait as GaitOK says: a leg that swings
\* is never lifted; one is lifted beside another that swings only when FlightDue says
\* so; and one is lifted when MaxStance is exceeded.
LEMMA LiftChosen ==
  ASSUME TypeOK, GaitOK(trot'), UpdateStanceTime, NEW lifted, MaybeLift(lifted)
  PROVE  /\ next_step_vleg' \in VlegIds
         /\ \/ lifted = vlegs /\ (Swinging(vlegs) = {} => stance_elapsed' <= MaxStance)
            \/ \E v \in Standing(vlegs) :
                 /\ lifted = LiftVleg(v)
                 /\ Swinging(vlegs) = {} \/ FlightDue(v)
<1>1. MaxStance \in Nat /\ MinInvalid \in Nat /\ MinInvalid > 0
  BY GaitTimes
<1>2. stance_elapsed' \in Nat /\ (Swinging(vlegs) # {} => stance_elapsed' = 0)
  BY DEF UpdateStanceTime, TypeOK
<1>3. CASE Standing(vlegs) = {} \/ (Swinging(vlegs) # {} /\ trot'.flight_time = 0)
  <2>1. lifted = vlegs /\ next_step_vleg' = next_step_vleg
    BY <1>3 DEF MaybeLift, GaitOK, Trot
  <2>2. Swinging(vlegs) # {}
    BY <1>3 DEF Standing
  <2>3. QED
    BY <2>1, <2>2 DEF TypeOK
<1>4. CASE Standing(vlegs) # {} /\ (Swinging(vlegs) = {} \/ trot'.flight_time # 0)
  <2>1. PICK choice \in VlegToLift :
          \/ choice = None /\ lifted = vlegs /\ UNCHANGED next_step_vleg
          \/ /\ choice # None
             /\ LET v == IF choice = -1 THEN next_step_vleg ELSE choice
                IN lifted = LiftVleg(v) /\ next_step_vleg' = StepAfter(v)
    BY <1>4 DEF MaybeLift
  <2>2. trot'.twovleg_time \in Nat /\ trot'.flight_time \in Nat
    BY DEF GaitOK, Trot
  <2>3. CASE Swinging(vlegs) = {}
    <3>1. Standing(vlegs) = VlegIds
      BY <2>3 DEF Standing
    <3>2. Due # {} => (CHOOSE v \in Due : \A w \in Due : v <= w) \in VlegIds
      BY LeastDue DEF Standing, Due
    <3>3. choice \in {-1, None, 0, 1}
      BY <2>1, <3>1, <3>2 DEF VlegToLift
    <3>4. choice = None => stance_elapsed' <= MaxStance
      <4> SUFFICES ASSUME MaxStanceExceeded PROVE choice # None
        BY <1>1, <1>2 DEF MaxStanceExceeded
      <4>1. choice \in {-1} \cup Standing(vlegs)
        BY <2>1 DEF VlegToLift
      <4>2. QED
        BY <4>1 DEF None, Standing
    <3>5. choice # None => (IF choice = -1 THEN next_step_vleg ELSE choice) \in VlegIds
      BY <3>3 DEF TypeOK
    <3>6. \A v \in VlegIds : StepAfter(v) \in VlegIds
      BY DEF StepAfter, Other
    <3>7. QED
      BY <2>1, <2>3, <3>1, <3>4, <3>5, <3>6 DEF TypeOK
  <2>4. CASE Swinging(vlegs) # {}
    <3>1. trot'.flight_time # 0 /\ ~(trot'.twovleg_time >= MinInvalid) /\ ~MaxStanceExceeded
      BY <1>1, <1>2, <1>4, <2>2, <2>4 DEF GaitOK, MaxStanceExceeded
    <3>2. choice = IF Due = {} THEN None ELSE CHOOSE v \in Due : \A w \in Due : v <= w
      BY <2>1, <3>1 DEF VlegToLift
    <3>3. CASE Due = {}
      BY <2>1, <2>4, <3>2, <3>3 DEF TypeOK
    <3>4. CASE Due # {}
      <4>3. choice \in Due
        BY <3>2, <3>4, LeastDue
      <4>4. choice \in {0, 1} /\ choice # None /\ choice # -1
        BY <4>3 DEF None, Due, Standing
      <4>5. lifted = LiftVleg(choice) /\ next_step_vleg' = StepAfter(choice)
        BY <2>1, <4>4
      <4>6. choice \in Standing(vlegs) /\ FlightDue(choice)
        BY <4>3 DEF Due
      <4>7. QED
        BY <4>4, <4>5, <4>6 DEF StepAfter, Other
    <3>5. QED
      BY <3>3, <3>4
  <2>5. QED
    BY <2>3, <2>4
<1>5. QED
  BY <1>3, <1>4

\* The other virtual leg, and the two of them.
LEMMA Others ==
  ASSUME NEW v \in VlegIds
  PROVE  /\ Other(v) \in VlegIds /\ Other(v) # v /\ Other(Other(v)) = v
         /\ VlegIds = {v, Other(v)}
  BY DEF Other

\* A leg that FlightDue lifts while the other swings is lifted late in its swing: at the
\* least 3 swing_time - 5 flight_time thirds of a period after the other was.
LEMMA LiftKeeps ==
  ASSUME TypeOK, SwingInv, GaitOK(trot'), NEW v \in Standing(vlegs),
         Swinging(vlegs) = {} \/ FlightDue(v)
  PROVE  SwingsOK(LiftVleg(v))
<1> DEFINE w == Other(v)
           up == LiftVleg(v)
<1>1. v \in VlegIds /\ vlegs[v].mode = "kStance" /\ vlegs \in [VlegIds -> VLeg]
  BY DEF Standing, Swinging, TypeOK, VLeg
<1>2. w \in VlegIds /\ w # v /\ Other(w) = v /\ VlegIds = {v, w}
  BY <1>1, Others
<1>3. /\ up[v].mode = "kSwing" /\ up[v].swing_elapsed = 0
      /\ up[w].mode = vlegs[w].mode /\ up[w].swing_elapsed = vlegs[w].swing_elapsed
      /\ up[w].stance_elapsed = 0
  BY <1>1, LegLifted
<1>4. /\ MaxSwing \in Nat /\ MinSwing \in Nat /\ MaxFlight \in Nat
  BY GaitTimes
<1>5. /\ vlegs[w].swing_elapsed \in Nat /\ vlegs[v].stance_elapsed \in Nat
      /\ vlegs[w].phase \in Nat
  BY <1>1, <1>2 DEF VLeg
<1> HIDE DEF w, up, VlegIds
<1>6. ASSUME vlegs[w].mode = "kSwing" PROVE LiftedLate(up, v)
  <2>1. FlightDue(v)
    BY <1>2, <1>6 DEF Swinging
  <2>2. vlegs[v].stance_elapsed <= vlegs[w].swing_elapsed /\ vlegs[w].phase = vlegs[w].swing_elapsed
    BY <1>1, <1>2, <1>6 DEF SwingInv, SwingsOK
  <2> DEFINE T == trot'.swing_time
             F == trot'.flight_time
             s == vlegs[v].stance_elapsed
             e == vlegs[w].swing_elapsed
  <2>3. T \in Nat /\ F \in Nat /\ MinSwing <= T /\ F <= MaxFlight /\ trot'.onevleg_time = T - 2 * F
    BY DEF GaitOK, Trot
  <2>4. 2 * s - (T - e - F) >= 2 * (T - 2 * F)
    BY <2>1, <2>2, <2>3 DEF FlightDue, w
  <2>5. s \in Nat /\ e \in Nat /\ s <= e
    BY <1>5, <2>2
  <2> HIDE DEF T, F, s, e
  <2>6. 3 * e >= 3 * T - 5 * F
    BY <2>3, <2>4, <2>5
  <2>7. 3 * (e - 0) >= 3 * MinSwing - 5 * MaxFlight
    BY <1>4, <2>3, <2>5, <2>6
  <2>8. QED
    BY <1>3, <2>7 DEF LiftedLate, w, e
<1>7. up[v].swing_elapsed <= MaxSwing
      /\ (up[w].mode = "kSwing" \/ up[w].stance_elapsed <= up[v].swing_elapsed)
  BY <1>3, <1>4
<1>8. vlegs[w].mode = "kSwing" => up[w].swing_elapsed <= MaxSwing
  BY <1>2, <1>3 DEF SwingInv, SwingsOK
<1>9. \A x \in VlegIds : up[x].mode = "kSwing" =>
        /\ up[x].swing_elapsed <= MaxSwing
        /\ \/ up[Other(x)].mode = "kSwing"
           \/ up[Other(x)].stance_elapsed <= up[x].swing_elapsed
  <2> SUFFICES ASSUME NEW x \in VlegIds, up[x].mode = "kSwing"
               PROVE  /\ up[x].swing_elapsed <= MaxSwing
                      /\ \/ up[Other(x)].mode = "kSwing"
                         \/ up[Other(x)].stance_elapsed <= up[x].swing_elapsed
    OBVIOUS
  <2>1. CASE x = v
    BY <1>7, <2>1 DEF w
  <2>2. CASE x = w
    BY <1>2, <1>3, <1>8, <2>2
  <2>3. QED
    BY <1>2, <2>1, <2>2
<1>10. SwingsOK(up)
  BY <1>1, <1>2, <1>3, <1>6, <1>9 DEF SwingsOK
<1>11. QED
  BY <1>10 DEF up

\* A period passes: swings advance together, until swing_time is over.
LEMMA MoveKeeps ==
  ASSUME GaitOK(trot'), NEW lifted \in [VlegIds -> VLeg], SwingsOK(lifted),
         vlegs' = [v \in VlegIds |-> Moved(lifted[v])]
  PROVE  SwingInv'
<1>1. /\ MaxSwing \in Nat /\ MinSwing \in Nat /\ MaxFlight \in Nat
      /\ trot'.swing_time \in Nat /\ trot'.swing_time <= MaxSwing
  BY GaitTimes DEF GaitOK, Trot
<1>2. ASSUME NEW v \in VlegIds
      PROVE  /\ vlegs'[v] = Moved(lifted[v]) /\ lifted[v] \in VLeg
             /\ lifted[v].swing_elapsed \in Nat /\ lifted[v].stance_elapsed \in Nat
             /\ vlegs'[v] \in VLeg
             /\ lifted[v].mode \in {"kStance", "kSwing"}
  <2>1. lifted[v] \in VLeg /\ vlegs'[v] = Moved(lifted[v])
    OBVIOUS
  <2>2. vlegs'[v] \in VLeg
    BY <2>1, LegMoved
  <2>3. QED
    BY <2>1, <2>2 DEF VLeg
<1>3. ASSUME NEW v \in VlegIds, vlegs'[v].mode = "kSwing"
      PROVE  /\ lifted[v].mode = "kSwing" /\ lifted[v].swing_elapsed < trot'.swing_time
             /\ vlegs'[v].swing_elapsed = lifted[v].swing_elapsed + 1
             /\ vlegs'[v].phase = lifted[v].swing_elapsed + 1
  BY <1>1, <1>2, <1>3, LegMoved
<1>4. ASSUME NEW v \in VlegIds, vlegs'[v].mode # "kSwing"
      PROVE  \/ lifted[v].mode # "kSwing"
                  /\ vlegs'[v].stance_elapsed = lifted[v].stance_elapsed + 1
             \/ vlegs'[v].stance_elapsed = 0
  BY <1>1, <1>2, <1>4, LegMoved
<1>5. ASSUME NEW v \in VlegIds, vlegs'[v].mode = "kSwing"
      PROVE  /\ vlegs'[v].phase = vlegs'[v].swing_elapsed
             /\ vlegs'[v].swing_elapsed <= MaxSwing
             /\ \/ vlegs'[Other(v)].mode = "kSwing"
                \/ vlegs'[Other(v)].stance_elapsed <= vlegs'[v].swing_elapsed
  <2>1. Other(v) \in VlegIds
    BY Others
  <2>2. /\ lifted[v].mode = "kSwing" /\ lifted[v].swing_elapsed < trot'.swing_time
        /\ vlegs'[v].swing_elapsed = lifted[v].swing_elapsed + 1
        /\ vlegs'[v].phase = lifted[v].swing_elapsed + 1
    BY <1>3, <1>5
  <2>3. lifted[v].swing_elapsed \in Nat /\ lifted[Other(v)].stance_elapsed \in Nat
    BY <1>2, <2>1
  <2>4. CASE vlegs'[Other(v)].mode # "kSwing"
    <3>1. CASE lifted[Other(v)].mode # "kSwing"
      <4>1. lifted[Other(v)].stance_elapsed <= lifted[v].swing_elapsed
        BY <2>2, <3>1 DEF SwingsOK
      <4>2. vlegs'[Other(v)].stance_elapsed \in {0, lifted[Other(v)].stance_elapsed + 1}
        BY <1>4, <2>1, <2>4
      <4>3. vlegs'[Other(v)].stance_elapsed <= vlegs'[v].swing_elapsed
        BY <2>2, <2>3, <4>1, <4>2
      <4>4. QED
        BY <1>1, <2>2, <2>3, <4>3
    <3>2. CASE lifted[Other(v)].mode = "kSwing"
      BY <1>1, <1>4, <2>1, <2>2, <2>3, <2>4, <3>2
    <3>3. QED
      BY <3>1, <3>2
  <2>5. CASE vlegs'[Other(v)].mode = "kSwing"
    BY <1>1, <2>2, <2>3, <2>5
  <2>6. QED
    BY <2>4, <2>5
<1>6. ASSUME \A v \in VlegIds : vlegs'[v].mode = "kSwing"
      PROVE  \E v \in VlegIds : LiftedLate(vlegs', v)
  <2>1. PICK v \in VlegIds : LiftedLate(lifted, v)
    BY <1>3, <1>6 DEF SwingsOK
  <2>2. Other(v) \in VlegIds
    BY Others
  <2>3. /\ vlegs'[v].swing_elapsed = lifted[v].swing_elapsed + 1
        /\ vlegs'[Other(v)].swing_elapsed = lifted[Other(v)].swing_elapsed + 1
    BY <1>3, <1>6, <2>2
  <2>4. lifted[v].swing_elapsed \in Nat /\ lifted[Other(v)].swing_elapsed \in Nat
    BY <1>2, <2>2
  <2>5. LiftedLate(vlegs', v)
    BY <1>1, <2>1, <2>3, <2>4 DEF LiftedLate
  <2>6. QED
    BY <2>5
<1>7. SwingsOK(vlegs')
  BY <1>5, <1>6 DEF SwingsOK
<1>8. QED
  BY <1>5, <1>7 DEF SwingInv

\* UpdateGlobal and UpdateTrot, with any distance that a leg may travel.
LEMMA GlobalUpdated ==
  ASSUME TypeOK, UpdateCommandedR, UpdateStanceTime, NEW dist \in Distances, UpdateTrot(dist)
  PROVE  /\ speed' \in Nat /\ turn' \in Nat /\ stance_elapsed' \in Nat /\ GaitOK(trot')
<1>1. /\ speed \in Nat /\ turn \in Nat /\ command.speed \in Nat /\ command.turn \in Nat
      /\ command.maximize_flight \in BOOLEAN /\ trot.max_speed \in Nat /\ TopSpeed \in Nat
      /\ stance_elapsed \in Nat
  BY WalkInputs DEF TypeOK, WalkCommand, Trot
<1>2. \A a, b \in Nat : /\ FilterCommand(a, b) \in Nat
                        /\ Least(a, b) \in Nat /\ Greatest(a, b) \in Nat
  BY DEF FilterCommand, Least, Greatest
<1>3. speed' \in Nat /\ turn' \in Nat
  <2>1. /\ FilterCommand(speed, command.speed) \in Nat /\ FilterCommand(turn, command.turn) \in Nat
        /\ Greatest(TopSpeed, trot.max_speed) \in Nat
    BY <1>1, <1>2
  <2>2. Least(FilterCommand(speed, command.speed), Greatest(TopSpeed, trot.max_speed)) \in Nat
    BY <1>2, <2>1
  <2>3. QED
    BY <1>1, <2>1, <2>2 DEF UpdateCommandedR
<1>4. stance_elapsed' \in Nat
  BY <1>1 DEF UpdateStanceTime
<1>5. dist \in Nat \ {0}
  BY WalkInputs
<1>6. GaitOK(CalculateTrot(command.maximize_flight, dist, speed'))
  BY <1>1, <1>3, <1>5, TrotCalculated
<1>7. QED
  BY <1>3, <1>4, <1>6 DEF UpdateTrot

\* What PropagateLegs does to the three variables it changes.
LEMMA LegsPropagated ==
  ASSUME TypeOK, GaitOK(trot'), NEW lifted \in [VlegIds -> VLeg], PropagateLegs(lifted)
  PROVE  /\ vlegs' = [v \in VlegIds |-> Moved(lifted[v])]
         /\ vlegs' \in [VlegIds -> VLeg]
         /\ stance' \in [VlegIds -> 0..FullStance]
         /\ idle_count' \in 0..2
<1> DEFINE moved == [v \in VlegIds |-> Advance(lifted[v])]
           landed == {v \in VlegIds : Lands(moved[v])}
<1>1. \A v \in VlegIds : (v \in landed) <=> Lands(Advance(lifted[v]))
  OBVIOUS
<1>2. vlegs' = [v \in VlegIds |-> IF v \in landed THEN Land(moved[v]) ELSE moved[v]]
  BY DEF PropagateLegs
<1>3. vlegs' = [v \in VlegIds |-> Moved(lifted[v])]
  BY <1>1, <1>2 DEF Moved
<1>4. vlegs' \in [VlegIds -> VLeg]
  BY <1>3, LegMoved
<1>5. stance' = [v \in VlegIds |-> IF v \in landed THEN InitialStance
                                   ELSE IF moved[v].mode = "kSwing" THEN 0
                                   ELSE PropagateStance(stance[v])]
  BY DEF PropagateLegs
<1>6. /\ FullStance \in Nat /\ InitialStance \in 0..FullStance
      /\ \A v \in VlegIds : PropagateStance(stance[v]) \in 0..FullStance
  <2>1. /\ FullStance \in Nat /\ InitialStance \in 0..FullStance /\ StanceRestore \in Nat
    BY StanceLevels
  <2>2. \A level \in 0..FullStance : PropagateStance(level) \in 0..FullStance
    BY <2>1 DEF PropagateStance, Least
  <2>3. \A v \in VlegIds : stance[v] \in 0..FullStance
    BY DEF TypeOK
  <2>4. QED
    BY <2>1, <2>2, <2>3
<1>7. idle_count' = IF landed = {} THEN idle_count
                    ELSE IF speed' # 0 \/ turn' # 0 THEN 0
                    ELSE Least(2, idle_count + IF landed = VlegIds THEN 2 ELSE 1)
  BY DEF PropagateLegs
<1> HIDE DEF moved, landed
<1>8. stance' \in [VlegIds -> 0..FullStance]
  BY <1>5, <1>6
<1>9. idle_count' \in 0..2
  BY <1>7 DEF Least, TypeOK
<1>10. QED
  BY <1>3, <1>4, <1>8, <1>9

\* The inductive invariant of the gait.
TrotInv == TypeOK /\ SwingInv /\ StanceInv

\* A leg that swings before and after a period has swung one period longer.
SwungOn ==
  \A v \in VlegIds :
    vlegs[v].mode = "kSwing" /\ vlegs'[v].mode = "kSwing" =>
      vlegs'[v].swing_elapsed >= vlegs[v].swing_elapsed

\* A control cycle keeps the invariant.
LEMMA RunKeeps == ASSUME TrotInv, Run PROVE TrotInv' /\ SwungOn
<1> USE DEF TrotInv
<1>1. PICK dist \in Distances, lifted \in {vlegs, LiftVleg(0), LiftVleg(1)} :
        /\ UpdateCommandedR /\ UpdateStanceTime /\ UpdateTrot(dist)
        /\ MaybeLift(lifted) /\ PropagateLegs(lifted) /\ UNCHANGED command
  BY DEF Run
<1>2. speed' \in Nat /\ turn' \in Nat /\ stance_elapsed' \in Nat /\ GaitOK(trot')
  BY <1>1, GlobalUpdated
<1>3. /\ next_step_vleg' \in VlegIds
      /\ \/ lifted = vlegs /\ (Swinging(vlegs) = {} => stance_elapsed' <= MaxStance)
         \/ \E v \in Standing(vlegs) :
              /\ lifted = LiftVleg(v)
              /\ Swinging(vlegs) = {} \/ FlightDue(v)
  BY <1>1, <1>2, LiftChosen
<1>4. vlegs \in [VlegIds -> VLeg] /\ stance_elapsed \in Nat
  BY DEF TypeOK
<1>5. lifted \in [VlegIds -> VLeg]
  BY <1>3, <1>4, LegLifted DEF Standing
<1>6. /\ vlegs' = [v \in VlegIds |-> Moved(lifted[v])]
      /\ vlegs' \in [VlegIds -> VLeg]
      /\ stance' \in [VlegIds -> 0..FullStance] /\ idle_count' \in 0..2
  BY <1>1, <1>2, <1>5, LegsPropagated
<1>7. TypeOK'
  <2>1. command' \in WalkCommand
    BY <1>1 DEF TypeOK
  <2>2. trot' \in Trot
    BY <1>2 DEF GaitOK
  <2>3. QED
    BY <1>2, <1>3, <1>6, <2>1, <2>2 DEF TypeOK
<1>8. SwingInv'
  <2>1. SwingsOK(lifted)
    BY <1>2, <1>3, LiftKeeps DEF SwingInv
  <2>2. QED
    BY <1>2, <1>5, <1>6, <2>1, MoveKeeps
<1>9. StanceInv'
  <2>1. MaxStance \in Nat /\ stance_elapsed <= MaxStance + 1
    BY GaitTimes DEF StanceInv, StanceBounded
  <2>2. CASE Swinging(vlegs) # {}
    <3>1. stance_elapsed' = 0
      BY <1>1, <2>2 DEF UpdateStanceTime
    <3>2. QED
      BY <2>1, <3>1 DEF StanceInv, StanceBounded
  <2>3. CASE Swinging(vlegs) = {}
    <3>1. stance_elapsed <= MaxStance /\ stance_elapsed' = stance_elapsed + 1
      BY <1>1, <2>3 DEF UpdateStanceTime, StanceInv
    <3>2. CASE stance_elapsed' <= MaxStance
      BY <1>2, <2>1, <3>2 DEF StanceInv, StanceBounded
    <3>3. CASE ~(stance_elapsed' <= MaxStance)
      <4>1. PICK v \in Standing(vlegs) : lifted = LiftVleg(v)
        BY <1>3, <2>3, <3>3
      <4>2. v \in VlegIds /\ lifted[v].mode = "kSwing" /\ lifted[v].swing_elapsed = 0
        BY <1>4, <4>1, LegLifted DEF Standing
      <4>3. 0 < trot'.swing_time
        BY <1>2, GaitTimes DEF GaitOK, Trot
      <4>4. vlegs'[v].mode = "kSwing"
        BY <1>2, <1>5, <1>6, <4>2, <4>3, LegMoved
      <4>5. Swinging(vlegs)' # {}
        BY <4>2, <4>4 DEF Swinging
      <4>6. QED
        BY <1>4, <2>1, <3>1, <4>5 DEF StanceInv, StanceBounded
    <3>4. QED
      BY <3>2, <3>3
  <2>4. QED
    BY <2>2, <2>3
<1>10. SwungOn
  <2> SUFFICES ASSUME NEW v \in VlegIds, vlegs[v].mode = "kSwing", vlegs'[v].mode = "kSwing"
               PROVE  vlegs'[v].swing_elapsed >= vlegs[v].swing_elapsed
    BY DEF SwungOn
  <2>1. lifted[v].mode = "kSwing" /\ lifted[v].swing_elapsed = vlegs[v].swing_elapsed
    <3>1. CASE lifted = vlegs
      BY <3>1
    <3>2. ASSUME NEW u \in Standing(vlegs), lifted = LiftVleg(u)
          PROVE  lifted[v].mode = "kSwing" /\ lifted[v].swing_elapsed = vlegs[v].swing_elapsed
      <4>1. u \in VlegIds /\ u # v
        BY DEF Standing, Swinging
      <4>2. v = Other(u)
        BY <4>1 DEF Other
      <4>3. QED
        BY <1>4, <3>2, <4>1, <4>2, LegLifted
    <3>3. QED
      BY <1>3, <3>1, <3>2
  <2>2. lifted[v] \in VLeg /\ vlegs'[v] = Moved(lifted[v]) /\ lifted[v].swing_elapsed \in Nat
    BY <1>5, <1>6 DEF VLeg
  <2>3. trot'.swing_time \in Nat
    BY <1>2 DEF GaitOK, Trot
  <2>4. vlegs'[v].swing_elapsed = lifted[v].swing_elapsed + 1
    BY <1>2, <2>1, <2>2, <2>3, LegMoved
  <2>5. QED
    BY <2>1, <2>2, <2>4
<1>11. QED
  BY <1>7, <1>8, <1>9, <1>10

\* So does what happens between two cycles.
LEMMA BetweenKeeps ==
  ASSUME TrotInv, WalkAfterFault \/ (\E c \in Commands : SetCommand(c)) \/ UNCHANGED vars
  PROVE  TrotInv' /\ SwungOn
<1> USE DEF TrotInv
<1>1. UNCHANGED <<vlegs, stance_elapsed>>
  BY DEF WalkAfterFault, SetCommand, vars
<1>2. SwingInv' /\ StanceInv'
  BY <1>1 DEF SwingInv, StanceInv, StanceBounded
<1>3. TypeOK'
  <2>1. FullStance \in 0..FullStance
    BY StanceLevels
  <2>2. command' \in WalkCommand
    BY WalkInputs DEF TypeOK, WalkAfterFault, SetCommand, vars
  <2>3. stance' \in [VlegIds -> 0..FullStance]
    BY <2>1 DEF TypeOK, WalkAfterFault, SetCommand, vars
  <2>4. QED
    BY <1>1, <2>2, <2>3 DEF TypeOK, WalkAfterFault, SetCommand, vars
<1>4. SwungOn
  <2>1. \A v \in VlegIds : vlegs[v].swing_elapsed \in Nat
    BY DEF TypeOK, VLeg
  <2>2. QED
    BY <1>1, <2>1 DEF SwungOn
<1>5. QED
  BY <1>2, <1>3, <1>4

\* The invariant holds throughout.
LEMMA TrotInvariant == Spec => []TrotInv
<1>1. Init => TrotInv
  <2> SUFFICES ASSUME Init PROVE TrotInv
    OBVIOUS
  <2>1. \A v \in VlegIds : vlegs[v].mode = "kStance"
    BY DEF Init
  <2>2. SwingInv
    BY <2>1 DEF SwingInv, SwingsOK
  <2>3. StanceInv
    BY GaitTimes DEF Init, StanceInv, StanceBounded
  <2>4. vlegs \in [VlegIds -> VLeg]
    BY DEF Init, VLeg
  <2>5. FullStance \in 0..FullStance
    BY StanceLevels
  <2>6. trot \in Trot
    BY DEF Init, Trot
  <2>7. QED
    BY <2>2, <2>3, <2>4, <2>5, <2>6, WalkInputs DEF TrotInv, TypeOK, Init
<1>2. TrotInv /\ [Next]_vars => TrotInv'
  BY RunKeeps, BetweenKeeps DEF Next
<1>3. QED
  BY <1>1, <1>2, PTL DEF Spec

-----------------------------------------------------------------------------
(* What the invariant gives.                                               *)

\* The gait's state keeps its types: no time is negative, whatever CalculateTrot
\* divides by.
THEOREM TrotTypeCorrect == Spec => []TypeOK
<1>1. TrotInv => TypeOK
  BY DEF TrotInv
<1>2. QED
  BY <1>1, TrotInvariant, PTL

\* All legs stand for no longer than max_stance_s and the period in which it is
\* exceeded.
THEOREM StanceBoundedAlways == Spec => []StanceBounded
<1>1. TrotInv => StanceBounded
  BY DEF TrotInv, StanceInv
<1>2. QED
  BY <1>1, TrotInvariant, PTL

\* The time that both virtual legs are in the air is bounded, by limits of the
\* configuration alone, however the gait changes during a swing.
THEOREM AirborneBoundedAlways == Spec => []AirborneBounded
<1>1. TrotInv => AirborneBounded
  <2> SUFFICES ASSUME TrotInv, Swinging(vlegs) = VlegIds
               PROVE  \E v \in VlegIds : 3 * vlegs[v].swing_elapsed
                                           <= 3 * (MaxSwing - MinSwing) + 5 * MaxFlight
    BY DEF AirborneBounded
  <2>1. \A v \in VlegIds : vlegs[v].mode = "kSwing"
    BY DEF Swinging
  <2>2. PICK v \in VlegIds : LiftedLate(vlegs, v)
    BY <2>1 DEF TrotInv, SwingInv, SwingsOK
  <2>3. Other(v) \in VlegIds
    BY Others
  <2>4. vlegs[Other(v)].swing_elapsed <= MaxSwing
    BY <2>1, <2>3 DEF TrotInv, SwingInv, SwingsOK
  <2>5. /\ vlegs[v].swing_elapsed \in Nat /\ vlegs[Other(v)].swing_elapsed \in Nat
        /\ MaxSwing \in Nat /\ MinSwing \in Nat /\ MaxFlight \in Nat
    BY <2>3, GaitTimes DEF TrotInv, TypeOK, VLeg
  <2>6. QED
    BY <2>2, <2>4, <2>5 DEF LiftedLate
<1>2. QED
  BY <1>1, TrotInvariant, PTL

\* A swing that has begun is never begun again in the air.
THEOREM SwingNotRestartedAlways == Spec => SwingNotRestarted
<1>1. TrotInv /\ [Next]_vars => [SwungOn]_vars
  BY RunKeeps, BetweenKeeps DEF Next
<1>2. QED
  BY <1>1, TrotInvariant, PTL DEF Spec, SwingNotRestarted, SwungOn
=============================================================================
