---------------------------- MODULE BoardsProofs ----------------------------
(***************************************************************************)
(* The three boards: the buffers hold what is received, the foot works its *)
(* stream table as StreamTable says, the I2C master moves bytes only in a  *)
(* transaction, and the shield's motors stop by themselves.  MCBoards only *)
(* sets the boards side by side: each part of the invariant is kept by the *)
(* steps of one board.                                                     *)
(***************************************************************************)
EXTENDS MCBoards, StreamTableProofs, SequenceTheorems, WellFoundedInduction, TLAPS

\* The order of the natural numbers, as a relation that is well founded.
LEMMA NatLess ==
  \E R : IsWellFoundedOn(R, Nat) /\ \A x, y \in Nat : <<x, y>> \in R <=> x < y
<1> DEFINE R == {p \in Nat \X Nat : p[1] < p[2]}
<1>1. R = OpToRel(<, Nat)
  BY DEF OpToRel
<1>2. IsWellFoundedOn(R, Nat)
  BY <1>1, NatLessThanWellFounded
<1>3. \A x, y \in Nat : <<x, y>> \in R <=> x < y
  OBVIOUS
<1>4. QED
  BY <1>2, <1>3

\* A set of natural numbers that is not empty has a least element.
LEMMA NatLeast ==
  ASSUME NEW T \in SUBSET Nat, T # {}
  PROVE  \E x \in T : \A y \in T : x <= y
<1>1. PICK R : IsWellFoundedOn(R, Nat) /\ \A x, y \in Nat : <<x, y>> \in R <=> x < y
  BY NatLess
<1>2. T \subseteq Nat
  OBVIOUS
<1>3. PICK x \in T : \A y \in T : ~(<<y, x>> \in R)
  <2>1. \A RR, SS : IsWellFoundedOn(RR, SS) => \A TT : TT \subseteq SS /\ TT # {} => \E x \in TT : \A y \in TT : ~ (<<y, x>> \in RR)
    BY WFMin, Zenon
  <2>2. IsWellFoundedOn(R, Nat)
    BY <1>1, Zenon
  <2>3. T \subseteq Nat /\ T # {} => \E x \in T : \A y \in T : ~ (<<y, x>> \in R)
    BY <2>1, <2>2, Zenon
  <2>4. QED
    BY <1>2, <2>3
<1>4. \A y \in T : x <= y
  <2> TAKE y \in T
  <2>1. ~(y < x)
    BY <1>1, <1>2, <1>3, Zenon
  <2>2. QED
    BY <1>2, <2>1
<1>5. QED
  BY <1>4

\* Induction on the naturals, for a set.
LEMMA Induction ==
  ASSUME NEW n \in Nat, NEW T, 0 \in T, \A k \in 0..n - 1 : k \in T => k + 1 \in T
  PROVE  \A k \in 0..n : k \in T
<1> DEFINE M == {k \in 0..n : k \notin T}
<1> SUFFICES ASSUME M # {} PROVE FALSE
  OBVIOUS
<1>1. M \in SUBSET Nat
  OBVIOUS
<1>2. PICK k \in M : \A y \in M : k <= y
  <2> HIDE DEF M
  <2> QED BY <1>1, NatLeast
<1>3. k \in 1..n /\ k - 1 \notin M
  BY <1>2
<1>4. k - 1 \in 0..n - 1 /\ k - 1 \in T
  BY <1>3
<1>5. (k - 1) + 1 \in T
  BY <1>4
<1>6. QED
  BY <1>2, <1>3, <1>5

\* The recursive function of Written is one.
LEMMA WriteDefined ==
  ASSUME NEW w \in Writes, NEW n \in Nat
  PROVE  \E g : g = [k \in 0..n |->
           IF k = 0 THEN regs ELSE WriteReg(g[k - 1], w.addr + k - 1, w.vals[k])]
<1> DEFINE Is(m, g) == g = [k \in 0..m |->
             IF k = 0 THEN regs ELSE WriteReg(g[k - 1], w.addr + k - 1, w.vals[k])]
           T == {m \in Nat : \E g : Is(m, g)}
<1>0. w.addr \in Nat
  BY OdroidAssumption
<1>1. 0 \in T
  <2> DEFINE g0 == [k \in 0..0 |-> regs]
  <2>1. g0 = [k \in 0..0 |->
             IF k = 0 THEN regs ELSE WriteReg(g0[k - 1], w.addr + k - 1, w.vals[k])]
    OBVIOUS
  <2>2. Is(0, g0)
    BY <2>1
  <2>3. QED
    BY <2>2
<1>2. ASSUME NEW m \in 0..n - 1, m \in T PROVE m + 1 \in T
  <2>1. PICK g : Is(m, g)
    BY <1>2
  <2> DEFINE h == [k \in 0..m + 1 |->
                     IF k <= m THEN g[k] ELSE WriteReg(g[m], w.addr + k - 1, w.vals[k])]
  <2>2. \A k \in 0..m + 1 :
          h[k] = IF k = 0 THEN regs ELSE WriteReg(h[k - 1], w.addr + k - 1, w.vals[k])
    <3> TAKE k \in 0..m + 1
    <3>1. CASE k = 0
      BY <2>1, <3>1
    <3>2. CASE k \in 1..m
      <4>1. h[k] = g[k] /\ h[k - 1] = g[k - 1]
        BY <3>2
      <4>2. g[k] = WriteReg(g[k - 1], w.addr + k - 1, w.vals[k])
        BY <2>1, <3>2
      <4>3. QED
        BY <3>2, <4>1, <4>2
    <3>3. CASE k = m + 1
      <4>1. h[k] = WriteReg(g[m], w.addr + k - 1, w.vals[k]) /\ h[k - 1] = g[m]
        BY <3>3
      <4>2. QED
        BY <3>3, <4>1
    <3>4. QED
      BY <3>1, <3>2, <3>3
  <2>3. Is(m + 1, h)
    <3>1. h = [k \in 0..m + 1 |-> h[k]]
      OBVIOUS
    <3>2. QED
      <4> HIDE DEF h
      <4> QED BY <2>2, <3>1
  <2>4. QED
    <3> HIDE DEF h, Is
    <3> m + 1 \in Nat
      OBVIOUS
    <3> QED BY <2>3
<1>3. n \in T
  <2> HIDE DEF T
  <2>1. \A k \in 0..n : k \in T
    BY <1>1, <1>2, Induction
  <2>2. QED
    BY <2>1
<1>4. QED
  BY <1>3

\* What a write makes of the registers, step by step.
LEMMA WriteSteps ==
  ASSUME NEW w \in Writes
  PROVE  \E g : /\ g[0] = regs /\ Written(w) = g[Len(w.vals)]
                /\ \A k \in 1..Len(w.vals) :
                     g[k] = WriteReg(g[k - 1], w.addr + k - 1, w.vals[k])
<1> DEFINE Is(g) == g = [k \in 0..Len(w.vals) |->
             IF k = 0 THEN regs ELSE WriteReg(g[k - 1], w.addr + k - 1, w.vals[k])]
           g == CHOOSE f : Is(f)
<1>1. w.addr \in Nat /\ Len(w.vals) \in Nat
  BY OdroidAssumption
<1>2. \E f : Is(f)
  BY <1>1, WriteDefined
<1>3. Is(g)
  <2> HIDE DEF Is
  <2> QED BY <1>2
<1>4. Written(w) = g[Len(w.vals)]
  BY Zenon DEF Written
<1> HIDE DEF g
<1>5. g[0] = regs
  BY <1>1, <1>3
<1>6. ASSUME NEW k \in 1..Len(w.vals)
      PROVE  g[k] = WriteReg(g[k - 1], w.addr + k - 1, w.vals[k])
  <2>1. k \in 0..Len(w.vals) /\ k # 0
    BY <1>1
  <2>2. QED
    BY <1>3, <2>1, Zenon
<1>7. QED
  BY <1>4, <1>5, <1>6

\* The registers of the shield; a fire time is never longer than MaxFire.
RegTypes == [err: BOOLEAN, moving: BOOLEAN, leds: Nat, leds_timeout: 0..LedTicks,
             fire_time: 0..MaxFire, fire_pwm: Nat, agitator_pwm: Nat]

\* What writes of other registers leave alone.
FireKept(q, r) == q.fire_time = r.fire_time /\ q.fire_pwm = r.fire_pwm
LedsKept(q, r) == q.leds_timeout = r.leds_timeout

\* A register's write handler keeps the types, and the motor registers that
\* are not its own.
LEMMA RegWritten ==
  ASSUME NEW r \in RegTypes, NEW addr \in Nat, NEW val \in Nat, addr = 80 => val <= MaxFire
  PROVE  /\ WriteReg(r, addr, val) \in RegTypes
         /\ addr \notin {80, 81} => FireKept(WriteReg(r, addr, val), r)
         /\ addr \notin {53, 83} => LedsKept(WriteReg(r, addr, val), r)
<1> DEFINE w == CASE addr = 80 -> [r EXCEPT !.fire_time = val]
             [] addr = 81 -> [r EXCEPT !.fire_pwm = val]
             [] addr = 82 -> [r EXCEPT !.agitator_pwm = val]
             [] addr \in {53, 83} -> [r EXCEPT !.leds = val, !.leds_timeout = LedTicks]
             [] addr = 43 -> [r EXCEPT !.err = val # 0]
             [] addr = 44 -> [r EXCEPT !.moving = val # 0]
             [] addr = 84 -> [r EXCEPT !.err = TRUE]
             [] OTHER -> r
           e == [w EXCEPT !.moving = @ \/ (addr # 84 /\ w.fire_pwm # 0 /\ w.fire_time # 0)]
<1>1. w \in RegTypes /\ (addr \notin {80, 81} => FireKept(w, r))
                    /\ (addr \notin {53, 83} => LedsKept(w, r))
  <2>0. MaxFire \in Nat /\ LedTicks \in Nat
    BY OdroidAssumption
  <2>1. CASE addr = 80
    BY <2>0, <2>1 DEF RegTypes, FireKept, LedsKept
  <2>2. CASE addr = 81
    BY <2>2 DEF RegTypes, FireKept, LedsKept
  <2>3. CASE addr = 82
    BY <2>3 DEF RegTypes, FireKept, LedsKept
  <2>4. CASE addr \in {53, 83}
    <3>1. w = [r EXCEPT !.leds = val, !.leds_timeout = LedTicks]
      BY <2>4
    <3>2. QED
      <4>1. w = [err |-> r.err, moving |-> r.moving, leds |-> val, leds_timeout |-> LedTicks,
               fire_time |-> r.fire_time, fire_pwm |-> r.fire_pwm, agitator_pwm |-> r.agitator_pwm]
        <5> HIDE DEF w
        <5> QED BY <3>1 DEF RegTypes
      <4> HIDE DEF w
      <4> QED BY <2>0, <2>4, <4>1 DEF RegTypes, FireKept, LedsKept
  <2>5. CASE addr = 43
    <3>1. w = [r EXCEPT !.err = val # 0]
      BY <2>5
    <3>2. QED
      <4> HIDE DEF w
      <4> QED BY <3>1 DEF RegTypes, FireKept, LedsKept
  <2>6. CASE addr = 44
    <3>1. w = [r EXCEPT !.moving = val # 0]
      BY <2>6
    <3>2. QED
      <4> HIDE DEF w
      <4> QED BY <3>1 DEF RegTypes, FireKept, LedsKept
  <2>7. CASE addr = 84
    <3>1. w = [r EXCEPT !.err = TRUE]
      BY <2>7
    <3>2. QED
      <4> HIDE DEF w
      <4> QED BY <3>1 DEF RegTypes, FireKept, LedsKept
  <2>8. CASE addr \notin {43, 44, 53, 80, 81, 82, 83, 84}
    <3>1. w = r
      BY <2>8
    <3>2. QED
      <4> HIDE DEF w
      <4> QED BY <3>1 DEF RegTypes, FireKept, LedsKept
  <2>9. QED
    BY <2>1, <2>2, <2>3, <2>4, <2>5, <2>6, <2>7, <2>8
<1>2. WriteReg(r, addr, val) = e
  BY Zenon DEF WriteReg
<1>3. e \in RegTypes /\ FireKept(e, w) /\ LedsKept(e, w)
  <2> HIDE DEF w
  <2> QED BY <1>1 DEF RegTypes, FireKept, LedsKept
<1>4. QED
  <2> HIDE DEF w, e
  <2> QED BY <1>1, <1>2, <1>3 DEF FireKept, LedsKept

\* So does a whole write, from its first register to its last.
LEMMA WriteKeeps ==
  ASSUME regs \in RegTypes, NEW w \in Writes
  PROVE  /\ Written(w) \in RegTypes
         /\ WrittenTo(w) \cap {80, 81} = {} => FireKept(Written(w), regs)
         /\ WrittenTo(w) \cap {53, 83} = {} => LedsKept(Written(w), regs)
<1> DEFINE Ok(q) == /\ q \in RegTypes
                    /\ WrittenTo(w) \cap {80, 81} = {} => FireKept(q, regs)
                    /\ WrittenTo(w) \cap {53, 83} = {} => LedsKept(q, regs)
<1>1. PICK g : /\ g[0] = regs /\ Written(w) = g[Len(w.vals)]
               /\ \A k \in 1..Len(w.vals) :
                     g[k] = WriteReg(g[k - 1], w.addr + k - 1, w.vals[k])
  BY WriteSteps
<1>2. w.addr \in Nat /\ w.vals \in Seq(Nat) /\ Len(w.vals) \in Nat
  BY OdroidAssumption
<1> DEFINE T == {k \in 0..Len(w.vals) : Ok(g[k])}
<1>3. 0 \in T
  BY <1>1, <1>2 DEF FireKept, LedsKept
<1>4. ASSUME NEW k \in 0..Len(w.vals) - 1, k \in T PROVE k + 1 \in T
  <2> DEFINE a == w.addr + k
  <2>0. k \in Nat /\ k + 1 \in 1..Len(w.vals) /\ (k + 1) - 1 = k
    BY <1>2
  <2>1. g[k + 1] = WriteReg(g[k], w.addr + (k + 1) - 1, w.vals[k + 1])
    BY <1>1, <2>0
  <2>2. w.addr + (k + 1) - 1 = a /\ a \in Nat
    BY <1>2, <2>0
  <2>3. w.vals[k + 1] \in Nat /\ (a = 80 => w.vals[k + 1] <= MaxFire)
    <3>1. w.vals[k + 1] \in Nat
      BY <1>2, <2>0
    <3>2. w.addr + (k + 1) - 1 = 80 => w.vals[k + 1] <= MaxFire
      BY OdroidAssumption, <2>0
    <3>3. QED
      BY <2>2, <3>1, <3>2
  <2>4. a \in WrittenTo(w)
    BY <2>0, <2>2 DEF WrittenTo
  <2>5. g[k] \in RegTypes
    BY <1>4
  <2>6. /\ g[k + 1] \in RegTypes
        /\ a \notin {80, 81} => FireKept(g[k + 1], g[k])
        /\ a \notin {53, 83} => LedsKept(g[k + 1], g[k])
    <3> HIDE DEF a
    <3> QED BY <2>1, <2>2, <2>3, <2>5, RegWritten
  <2>7. Ok(g[k + 1])
    BY <1>4, <2>4, <2>6 DEF FireKept, LedsKept
  <2>8. QED
    BY <2>0, <2>7
<1>5. \A k \in 0..Len(w.vals) : k \in T
  <2> HIDE DEF T
  <2> QED BY <1>2, <1>3, <1>4, Induction
<1>6. Ok(g[Len(w.vals)])
  BY <1>2, <1>5
<1>7. QED
  BY <1>1, <1>6

\* What the motors have left to run, as the registers say.
FireDue == regs.fire_pwm # 0 => o_since.fire + regs.fire_time <= MaxFire
LedsDue == regs.leds_timeout # 0 => o_since.leds + regs.leds_timeout <= LedTicks

\* The registers and the time since they were last written.
OdroidTypes == /\ regs \in RegTypes
               /\ o_since \in [fire: 0..SinceMax, leds: 0..SinceMax]

\* What the receiver counts; while it receives, it has not gone past its buffer.
RxTypes == rx_len \in Nat /\ rx_size \in Nat /\ (rx_status = RX => rx_len <= RxSize)

\* What is kept about the motors, and about the packet that is being received.
MotorInv  == OdroidTypes /\ FireDue /\ LedsDue /\ MotorsExpire
PacketInv == RxTypes /\ ReadyPacketFits

\* The timer expires both motors.
LEMMA TickKeepsMotors == ASSUME MotorInv, HandleTick PROVE MotorInv'
<1>0. MaxFire \in Nat /\ LedTicks \in Nat /\ SinceMax = LedTicks + MaxFire + 3
  BY OdroidAssumption DEF SinceMax
<1> DEFINE e == ExpireLeds(regs)
<1>1. /\ e \in RegTypes /\ FireKept(e, regs)
      /\ e.leds_timeout = IF regs.leds_timeout # 0 THEN regs.leds_timeout - 1 ELSE 0
      /\ e.agitator_pwm # 0 => regs.leds_timeout # 0
  <2>1. regs \in RegTypes
    BY DEF MotorInv, OdroidTypes
  <2>2. CASE regs.leds_timeout # 0
    <3>1. e = [regs EXCEPT !.leds_timeout = @ - 1]
      BY <2>2 DEF ExpireLeds
    <3> HIDE DEF e
    <3>2. QED
      BY <1>0, <2>1, <2>2, <3>1 DEF RegTypes, FireKept
  <2>3. CASE regs.leds_timeout = 0
    <3>1. e = [err |-> regs.err, moving |-> regs.moving, leds |-> 0, leds_timeout |-> regs.leds_timeout,
               fire_time |-> regs.fire_time, fire_pwm |-> regs.fire_pwm, agitator_pwm |-> 0]
      BY <2>1, <2>3 DEF ExpireLeds, RegTypes
    <3> HIDE DEF e
    <3>2. QED
      BY <1>0, <2>1, <2>3, <3>1 DEF RegTypes, FireKept
  <2>4. QED
    BY <2>2, <2>3
<1>2. regs' = ExpireFire(e) /\ outputs'.fire = e.fire_pwm /\ outputs'.agitator = e.agitator_pwm
  BY DEF HandleTick, Applied
<1>3. /\ ExpireFire(e) \in RegTypes /\ ExpireFire(e).leds_timeout = e.leds_timeout
      /\ ExpireFire(e).fire_time = IF e.fire_time # 0 THEN e.fire_time - 1 ELSE 0
      /\ ExpireFire(e).fire_pwm # 0 => e.fire_pwm # 0 /\ e.fire_time # 0
  <2> HIDE DEF e
  <2>1. CASE e.fire_time # 0
    BY <1>0, <1>1, <2>1 DEF RegTypes, ExpireFire
  <2>2. CASE e.fire_time = 0
    <3>1. ExpireFire(e) = [err |-> e.err, moving |-> FALSE, leds |-> e.leds, leds_timeout |-> e.leds_timeout,
               fire_time |-> e.fire_time, fire_pwm |-> 0, agitator_pwm |-> e.agitator_pwm]
      BY <1>1, <2>2 DEF ExpireFire, RegTypes
    <3>2. QED
      BY <1>0, <1>1, <2>2, <3>1 DEF RegTypes
  <2>3. QED
    BY <2>1, <2>2
<1>4. /\ o_since' \in [fire: 0..SinceMax, leds: 0..SinceMax]
      /\ o_since'.fire <= o_since.fire + 1 /\ o_since'.leds <= o_since.leds + 1
  BY <1>0 DEF MotorInv, OdroidTypes, HandleTick
<1> HIDE DEF e
<1> DEFINE q == ExpireFire(e)
<1>5. regs' = q /\ q \in RegTypes
  BY <1>2, <1>3
<1> HIDE DEF q
<1>6. /\ q.leds_timeout = e.leds_timeout
      /\ q.fire_time = IF e.fire_time # 0 THEN e.fire_time - 1 ELSE 0
      /\ q.fire_pwm # 0 => e.fire_pwm # 0 /\ e.fire_time # 0
  BY <1>3 DEF q
<1>7. FireDue' /\ (outputs'.fire # 0 => o_since'.fire <= MaxFire + 1)
  BY <1>0, <1>1, <1>2, <1>4, <1>5, <1>6 DEF MotorInv, OdroidTypes, FireDue, RegTypes, FireKept
<1>8. LedsDue' /\ (outputs'.agitator # 0 => o_since'.leds <= LedTicks)
  BY <1>0, <1>1, <1>2, <1>4, <1>5, <1>6 DEF MotorInv, OdroidTypes, LedsDue, RegTypes
<1>9. QED
  BY <1>4, <1>5, <1>7, <1>8 DEF MotorInv, OdroidTypes, MotorsExpire

\* A packet that writes the fire time or the LEDs starts their time anew.
LEMMA PacketKeepsMotors == ASSUME MotorInv, HandlePacket PROVE MotorInv'
<1>0. MaxFire \in Nat /\ LedTicks \in Nat /\ SinceMax = LedTicks + MaxFire + 3
  BY OdroidAssumption DEF SinceMax
<1>1. ASSUME NEW w \in Writes, handle_RAMWRITE_cmd(w) PROVE MotorInv'
  <2>1. regs' = Written(w) /\ UNCHANGED outputs
        /\ o_since' = [fire |-> IF WrittenTo(w) \cap {80, 81} # {} THEN 0 ELSE o_since.fire,
                       leds |-> IF WrittenTo(w) \cap {53, 83} # {} THEN 0 ELSE o_since.leds]
    BY <1>1 DEF handle_RAMWRITE_cmd
  <2>2. /\ regs' \in RegTypes
        /\ WrittenTo(w) \cap {80, 81} = {} => FireKept(regs', regs)
        /\ WrittenTo(w) \cap {53, 83} = {} => LedsKept(regs', regs)
    BY <2>1, WriteKeeps DEF MotorInv, OdroidTypes
  <2>3. OdroidTypes'
    BY <1>0, <2>1, <2>2 DEF MotorInv, OdroidTypes
  <2>4. FireDue' /\ (outputs'.fire # 0 => o_since'.fire <= MaxFire + 1)
    <3>1. CASE WrittenTo(w) \cap {80, 81} # {}
      <4>1. o_since'.fire = 0 /\ regs'.fire_time \in 0..MaxFire
        BY <2>1, <2>2, <3>1 DEF RegTypes
      <4>2. QED
        BY <1>0, <4>1 DEF FireDue
    <3>2. CASE WrittenTo(w) \cap {80, 81} = {}
      <4>1. o_since'.fire = o_since.fire /\ FireKept(regs', regs)
        BY <2>1, <2>2, <3>2
      <4>2. QED
        BY <2>1, <4>1 DEF MotorInv, FireDue, FireKept, MotorsExpire
    <3>3. QED
      BY <3>1, <3>2
  <2>5. LedsDue' /\ (outputs'.agitator # 0 => o_since'.leds <= LedTicks)
    <3>1. CASE WrittenTo(w) \cap {53, 83} # {}
      <4>1. o_since'.leds = 0 /\ regs'.leds_timeout \in 0..LedTicks
        BY <2>1, <2>2, <3>1 DEF RegTypes
      <4>2. QED
        BY <1>0, <4>1 DEF LedsDue
    <3>2. CASE WrittenTo(w) \cap {53, 83} = {}
      <4>1. o_since'.leds = o_since.leds /\ LedsKept(regs', regs)
        BY <2>1, <2>2, <3>2
      <4>2. QED
        BY <2>1, <4>1 DEF MotorInv, LedsDue, LedsKept, MotorsExpire
    <3>3. QED
      BY <3>1, <3>2
  <2>6. QED
    BY <2>3, <2>4, <2>5 DEF MotorInv, MotorsExpire
<1>2. ASSUME NEW size, Answer(size) PROVE MotorInv'
  BY <1>2 DEF Answer, MotorInv, OdroidTypes, FireDue, LedsDue, MotorsExpire
<1>3. CASE Reboot
  <2>1. regs' = [NoRegs EXCEPT !.leds_timeout = regs.leds_timeout] /\ UNCHANGED o_since
        /\ outputs'.fire = 0 /\ outputs'.agitator = 0
    BY <1>3 DEF Reboot
  <2>2. regs.leds_timeout \in 0..LedTicks
    BY DEF MotorInv, OdroidTypes, RegTypes
  <2>3. regs' \in RegTypes /\ regs'.fire_pwm = 0 /\ LedsKept(regs', regs)
    <3>1. regs' = [err |-> FALSE, moving |-> FALSE, leds |-> 0, leds_timeout |-> regs.leds_timeout,
                   fire_time |-> 0, fire_pwm |-> 0, agitator_pwm |-> 0]
      BY <2>1 DEF NoRegs
    <3>2. QED
      BY <1>0, <2>2, <3>1 DEF RegTypes, LedsKept
  <2>4. QED
    BY <2>1, <2>3 DEF MotorInv, OdroidTypes, FireDue, LedsDue, MotorsExpire, LedsKept
<1>4. ASSUME NEW bad \in BOOLEAN, Rejected(bad) PROVE MotorInv'
  <2>1. regs' \in RegTypes /\ FireKept(regs', regs) /\ LedsKept(regs', regs)
    BY <1>4 DEF Rejected, RegTypes, MotorInv, OdroidTypes, FireKept, LedsKept
  <2>2. QED
    BY <1>4, <2>1 DEF Rejected, MotorInv, OdroidTypes, FireDue, LedsDue, MotorsExpire,
                      FireKept, LedsKept
<1>5. QED
  BY <1>1, <1>2, <1>3, <1>4
     DEF HandlePacket, handle_STAT_command, handle_RAMREAD_cmd

\* Every step of the shield keeps what holds of the motors.
LEMMA MotorsKept == MotorInv /\ [OdroidNext]_odroidVars => MotorInv'
<1> SUFFICES ASSUME MotorInv, [OdroidNext]_odroidVars PROVE MotorInv'
  OBVIOUS
<1>1. CASE UNCHANGED <<regs, outputs, o_since>>
  BY <1>1 DEF MotorInv, OdroidTypes, FireDue, LedsDue, MotorsExpire
<1>2. QED
  BY <1>1, TickKeepsMotors, PacketKeepsMotors DEF OdroidNext, odroidVars, HWUART_RX, OdroidTimer

\* Every byte received, checked and handled leaves a ready packet in its buffer.
LEMMA PacketKept == PacketInv /\ [OdroidNext]_odroidVars => PacketInv'
<1> SUFFICES ASSUME PacketInv, [OdroidNext]_odroidVars PROVE PacketInv'
  OBVIOUS
<1>0. RxSize \in Nat /\ RxSize >= 9 /\ Bytes \subseteq Nat /\ DataSize = RxSize - 5
  BY OdroidAssumption DEF DataSize
<1> DEFINE Rest == UNCHANGED <<rx_status, rx_len, rx_size>>
<1>1. CASE Rest
  BY <1>1 DEF PacketInv, RxTypes, ReadyPacketFits
<1>2. ASSUME NEW c \in Bytes, NEW ff, Frame(c, ff) PROVE PacketInv'
  <2>1. c \in Nat
    BY <1>0
  <2>2. QED
    BY <1>0, <1>2, <2>1
       DEF Frame, PacketInv, RxTypes, ReadyPacketFits, Overflows, READY, RX, BAD
<1>3. CASE HandlePacket
  <2>1. rx_status' = BAD /\ UNCHANGED rx_len
    BY <1>3 DEF HandlePacket
  <2>2. rx_size' \in Nat
    <3>1. ASSUME NEW count \in ReadCounts, handle_RAMREAD_cmd(count) PROVE rx_size' \in Nat
      BY <1>0, <3>1, OdroidAssumption DEF handle_RAMREAD_cmd, Answer
    <3>2. QED
      BY <1>3, <3>1 DEF HandlePacket, handle_RAMWRITE_cmd, handle_STAT_command, Answer,
                        Reboot, Rejected, PacketInv, RxTypes
  <2>3. QED
    BY <2>1, <2>2 DEF PacketInv, RxTypes, ReadyPacketFits, READY, RX, BAD
<1>4. QED
  BY <1>1, <1>2, <1>3 DEF OdroidNext, odroidVars, HWUART_RX, HandleTick, OdroidTimer

-----------------------------------------------------------------------------
\* A transaction that is open is open on the bus, in the direction of the last
\* transfer, and bytes are only left to move in one.
OnBus == /\ i2c_state = Active
         /\ bus = [dir |-> IF last_read THEN "read" ELSE "write", nacked |-> FALSE]
Runs  == i_running /\ i_err = "none"

\* The inductive invariant of the master: its flags, where the bus is, what is left
\* to move, and the room of the answer.
I2cFlags == /\ i_running \in BOOLEAN /\ in_transaction \in BOOLEAN
            /\ last_read \in BOOLEAN /\ i_nack \in BOOLEAN
I2cInv ==
  /\ resp_len \in Nat /\ i_left \in Nat
  /\ I2cFlags
  /\ Runs /\ in_transaction => OnBus
  /\ Runs /\ i_left > 0 => in_transaction
  /\ I2cResponseFits

\* It holds when the board starts.
LEMMA I2cInitially == I2cInit => I2cInv
<1> SUFFICES ASSUME I2cInit PROVE I2cInv
  OBVIOUS
<1>1. I2cFlags
  BY Zenon DEF I2cInit, I2cFlags
<1>2. resp_len = 0 /\ i_left = 0 /\ ~in_transaction /\ 0 < RespSize
  BY I2cAssumption DEF I2cInit
<1>3. QED
  BY <1>1, <1>2 DEF I2cInv, I2cResponseFits

\* An operation that opens a transfer keeps it, however the start and the address end.
LEMMA TransferKeeps ==
  ASSUME I2cInv, NEW o \in I2cOps, NEW op \in {"r", "n", "w"},
         NEW read \in BOOLEAN, NEW nack \in BOOLEAN, OpTransfer(o, op, read, nack)
  PROVE  I2cInv'
<1>0. o.n \in Nat /\ i_running /\ i_err = "none" /\ UNCHANGED i_running
  BY I2cAssumption DEF OpTransfer, Takes
<1>1. ASSUME NEW err, err # "none", Fails(err) PROVE I2cInv'
  BY <1>0, <1>1 DEF Fails, locals, I2cInv, I2cFlags, Runs, I2cResponseFits
<1>2. CASE i_addr # "good"
  BY <1>1, <1>2 DEF OpTransfer
<1>3. CASE i_addr = "good"
  <2> DEFINE same == in_transaction /\ last_read = read
  <2>1. PICK out \in IF same THEN {"none"} ELSE StartOutcomes :
            /\ LET starts == ~same /\ out # "busy"
               IN  /\ i2c_state' = IF starts THEN Active ELSE i2c_state
                   /\ bus' = IF ~starts THEN bus
                             ELSE [dir |-> IF out # "none" THEN "none"
                                           ELSE IF read THEN "read" ELSE "write",
                                   nacked |-> FALSE]
            /\ IF out # "none" THEN Fails(out)
               ELSE /\ in_transaction' = (o.n > 0 \/ ~nack) /\ last_read' = read
                    /\ i_left' = o.n /\ i_nack' = nack
                    /\ UNCHANGED <<i_err, i_addr, last_nack, resp_len>>
    BY <1>3 DEF OpTransfer
  <2>2. CASE out # "none"
    BY <1>1, <2>1, <2>2
  <2>3. CASE out = "none"
    <3>1. /\ in_transaction' = (o.n > 0 \/ ~nack) /\ last_read' = read
          /\ i_left' = o.n /\ i_nack' = nack /\ UNCHANGED <<i_err, resp_len>>
      BY <2>1, <2>3
    <3>2. OnBus'
      <4>1. CASE same
        <5>1. UNCHANGED <<i2c_state, bus>> /\ last_read' = last_read
          BY <2>1, <2>3, <3>1, <4>1
        <5>2. QED
          BY <1>0, <4>1, <5>1 DEF I2cInv, Runs, OnBus
      <4>2. CASE ~same
        <5>1. i2c_state' = Active
              /\ bus' = [dir |-> IF read THEN "read" ELSE "write", nacked |-> FALSE]
          BY <2>1, <2>3, <4>2
        <5>2. QED
          BY <3>1, <5>1 DEF OnBus
      <4>3. QED
        BY <4>1, <4>2
    <3>3. I2cFlags'
      BY <1>0, <3>1, Zenon DEF I2cInv, I2cFlags
    <3>4. QED
      BY <1>0, <3>1, <3>2, <3>3 DEF I2cInv, Runs, I2cResponseFits
  <2>4. QED
    BY <2>2, <2>3
<1>4. QED
  BY <1>2, <1>3

\* Reading a byte keeps it, with or without the last byte's NACK.
LEMMA ReadKeeps == ASSUME I2cInv, ReadByte PROVE I2cInv'
<1> DEFINE nack == i_nack /\ i_left = 1
<1>1. PICK out \in {"none"} \cup (IF nack THEN {"coll"} ELSE {}) :
           /\ last_nack' = nack
           /\ resp_len' = IF out = "none" THEN resp_len + 1 ELSE resp_len
           /\ i_err' = IF out = "none" /\ RespFull(resp_len') THEN "full" ELSE out
           /\ bus' = [bus EXCEPT !.nacked = nack]
           /\ i_left' = i_left - 1
           /\ in_transaction' = (in_transaction /\ Continues(nack))
  BY DEF ReadByte
<1>2. Runs /\ i_left > 0 /\ last_read /\ UNCHANGED <<i2c_state, i_running, last_read, i_nack>>
  BY DEF ReadByte, Runs
<1>3. in_transaction /\ OnBus /\ resp_len < RespSize
  BY <1>2 DEF I2cInv, I2cResponseFits, Runs
<1>4. resp_len' \in Nat /\ i_left' \in Nat /\ I2cResponseFits'
  BY <1>1, <1>2, <1>3, I2cAssumption DEF I2cInv, I2cResponseFits, RespFull, Runs
<1>5. I2cFlags'
  BY <1>1, <1>2, <1>3, Zenon DEF I2cInv, I2cFlags, Continues
<1>6. Runs' /\ in_transaction' => OnBus'
  <2> SUFFICES ASSUME ~nack PROVE OnBus'
    BY <1>1, Zenon DEF Continues
  <2>1. bus' = [bus EXCEPT !.nacked = FALSE]
    BY <1>1
  <2>2. QED
    BY <1>2, <1>3, <2>1 DEF OnBus
<1>7. Runs' /\ i_left' > 0 => in_transaction'
  <2>1. i_left' > 0 => i_left # 1
    BY <1>1 DEF I2cInv
  <2>2. QED
    BY <1>1, <1>3, <2>1, Zenon DEF Continues
<1>8. QED
  BY <1>4, <1>5, <1>6, <1>7 DEF I2cInv

\* So does every other step of the master.
LEMMA I2cKept == I2cInv /\ [I2cNext]_i2cVars => I2cInv'
<1> SUFFICES ASSUME I2cInv, [I2cNext]_i2cVars PROVE I2cInv'
  OBVIOUS
<1> USE DEF I2cInv
<1>1. CASE i2c_command
  <2>1. I2cFlags'
    BY <1>1, Zenon DEF i2c_command, I2cFlags
  <2>2. resp_len' = 0 /\ i_left' = 0 /\ ~in_transaction' /\ 0 < RespSize
    BY <1>1, I2cAssumption DEF i2c_command
  <2>3. QED
    BY <2>1, <2>2 DEF I2cResponseFits
<1>2. ASSUME NEW o \in I2cOps, OpAddress(o) PROVE I2cInv'
  BY <1>2 DEF OpAddress, locals, I2cFlags, Runs, OnBus, I2cResponseFits
<1>3. ASSUME NEW o \in I2cOps, OpRead(o) \/ OpReadN(o) \/ OpWrite(o) PROVE I2cInv'
  <2> HIDE DEF I2cInv
  <2> QED BY <1>3, TransferKeeps DEF OpRead, OpReadN, OpWrite
<1>4. ASSUME NEW o \in I2cOps, OpPoll(o) PROVE I2cInv'
  BY <1>4 DEF OpPoll, Takes, locals, I2cFlags, Runs, OnBus, I2cResponseFits
<1>5. ASSUME NEW o \in I2cOps, OpStop(o) PROVE I2cInv'
  <2>1. I2cFlags'
    BY <1>5, Zenon DEF OpStop, I2cFlags
  <2>2. i_left = 0 /\ ~in_transaction' /\ UNCHANGED <<i_running, i_err, resp_len, i_left>>
    BY <1>5 DEF OpStop, Takes
  <2>3. QED
    BY <2>1, <2>2 DEF I2cResponseFits
<1>6. ASSUME NEW o \in I2cOps, OpBad(o) PROVE I2cInv'
  BY <1>6 DEF OpBad, Fails, locals, I2cFlags, Runs, I2cResponseFits
<1>7. CASE WriteByte
  BY <1>7 DEF WriteByte, I2cFlags, Runs, OnBus, I2cResponseFits
<1>8. CASE I2cEnd
  BY <1>8 DEF I2cEnd, locals, I2cFlags, Runs, I2cResponseFits
<1>9. CASE UNCHANGED i2cVars
  BY <1>9 DEF i2cVars, I2cFlags, Runs, OnBus, I2cResponseFits
<1>10. QED
  <2> HIDE DEF I2cInv
  <2> QED BY <1>1, <1>2, <1>3, <1>4, <1>5, <1>6, <1>7, <1>8, <1>9, ReadKeeps DEF I2cNext

-----------------------------------------------------------------------------
\* What a line can hold, and what is kept about the foot: its flags, its input, the
\* place of its main loop, and the room in its line.
Chars == FootTexts \cup {Overrun}

FootFlags == f_tifr \in BOOLEAN /\ barometer \in BOOLEAN /\ f_dropped \in BOOLEAN
FootInput == /\ f_rbuf \in Seq(FootTexts \cup {Eol}) /\ Len(f_rbuf) < RbufSize
             /\ f_line \in Seq(Chars)
FootPlace == f_pc \in {"serial", "timer", "poll", "hang"}
FootInv   == FootFlags /\ FootInput /\ FootPlace /\ FootLineFits

\* A command of a line is an operation of the stream table, or none.
LEMMA CommandIsStep ==
  ASSUME NEW text \in Chars, fw_command(text)
  PROVE  [StreamNext]_streamVars /\ f_pc' \in {"timer", "hang"}
         /\ (barometer \in BOOLEAN => barometer' \in BOOLEAN)
<1>1. /\ text.op \in {"STB", "STE"} => text.id \in Ids /\ text.code \in Codes
      /\ text.op = "STB" => text.rate \in Rates /\ text.extra \in BOOLEAN
      /\ text.op = "GPC" => text.value \in BOOLEAN
  BY FootAssumption DEF Chars, Overrun
<1>2. CASE cmd_gpc(text) \/ cmd_rst(text) \/ cmd_query(text)
  <2>1. UNCHANGED streamVars /\ f_pc' \in {"timer", "hang"}
    BY <1>2 DEF cmd_gpc, cmd_rst, cmd_query
  <2>2. barometer \in BOOLEAN => barometer' \in BOOLEAN
    BY <1>1, <1>2, Zenon DEF cmd_gpc, cmd_rst, cmd_query
  <2>3. QED
    BY <2>1, <2>2
<1>3. CASE run_stream_cmd(text)
  <2>1. f_pc' = "timer" /\ barometer' = barometer
    BY <1>3 DEF run_stream_cmd
  <2>2. CASE text.op = "STB" /\ cmd_stb(text.id, text.rate, text.code, text.extra)
    BY <1>1, <2>1, <2>2 DEF StreamNext
  <2>3. CASE text.op = "STE" /\ cmd_ste(text.id, text.code)
    BY <1>1, <2>1, <2>3 DEF StreamNext
  <2>4. QED
    BY <1>3, <2>2, <2>3 DEF run_stream_cmd
<1>4. QED
  BY <1>2, <1>3 DEF fw_command

\* The line that is handled is a command, the overrun included.
LEMMA LineIsCommand ==
  ASSUME FootInput, handle_line
  PROVE  \E text \in Chars : fw_command(text)
<1> DEFINE t == IF Len(f_line) = 1 THEN f_line[1] ELSE Overrun
<1>1. t \in Chars
  <2>1. f_line \in Seq(Chars) /\ Overrun \in Chars
    BY DEF FootInput, Chars
  <2>2. ASSUME Len(f_line) = 1 PROVE f_line[1] \in Chars
    <3>1. 1 \in 1..Len(f_line)
      BY <2>2
    <3>2. QED
      BY <2>1, <3>1, ElementOfSeq
  <2>3. QED
    BY <2>1, <2>2
<1>2. fw_command(t)
  BY DEF handle_line
<1>3. QED
  <2> HIDE DEF t
  <2> QED BY <1>1, <1>2

\* Every step of the foot is a step of its stream table, or leaves it alone.
LEMMA FootIsStreamStep ==
  ASSUME FootInput, [FootNext]_footVars
  PROVE  [StreamNext]_streamVars
<1>1. CASE FootSerial
  <2>1. CASE handle_line
    BY <2>1, LineIsCommand, CommandIsStep
  <2>2. QED
    BY <1>1, <2>1 DEF FootSerial
<1>2. CASE FootTimer
  BY <1>2 DEF FootTimer, StreamNext
<1>3. CASE FootPoll
  BY <1>3 DEF FootPoll, StreamNext
<1>4. CASE Watchdog
  BY <1>4 DEF Watchdog, FootReset, StreamNext
<1>5. QED
  BY <1>1, <1>2, <1>3, <1>4 DEF FootNext, FootReceive, TimerMatch, footVars

\* A character is kept while it and the terminator fit, and otherwise marks the
\* line, which then is at least one character long.
LEMMA PutCharFits ==
  ASSUME FootInv, NEW c \in FootTexts, PutChar(c)
  PROVE  f_line' \in Seq(Chars) /\ f_dropped' \in BOOLEAN /\ FootLineFits'
<1> DEFINE l == Append(f_line, c)
<1>0. f_line \in Seq(Chars) /\ c \in Chars /\ Overrun \in Chars /\ LineSize \in Nat /\ LineSize >= 3
  BY FootAssumption DEF FootInv, FootInput, Chars
<1>1. l \in Seq(Chars) /\ Len(l) = Len(f_line) + 1 /\ Len(f_line) \in Nat
      /\ \A k \in 1..Len(f_line) : l[k] = f_line[k]
  BY <1>0
<1>2. CASE Full(Len(l))
  <2> DEFINE s == SubSeq(l, 1, Len(l) - 1)
  <2>1. Len(f_line) >= 1
    BY <1>0, <1>1, <1>2 DEF Full
  <2>2. s \in Seq(Chars) /\ Len(s) = Len(f_line)
    <3> HIDE DEF l
    <3> QED BY <1>1, <2>1
  <2>3. f_line' = [s EXCEPT ![1] = Overrun] /\ f_dropped' = TRUE
    BY <1>2 DEF PutChar
  <2>4. f_line' \in Seq(Chars) /\ Len(f_line') = Len(f_line) /\ f_line'[1] = Overrun
    <3> HIDE DEF s
    <3> QED BY <1>0, <2>1, <2>2, <2>3
  <2>5. f_line' # <<>>
    BY <1>1, <2>1, <2>4
  <2>6. QED
    BY <2>3, <2>4, <2>5 DEF FootInv, FootLineFits
<1>3. CASE ~Full(Len(l))
  <2>1. f_line' = l /\ UNCHANGED f_dropped
    BY <1>3 DEF PutChar
  <2>2. Len(f_line') + 1 < LineSize
    <3> HIDE DEF l
    <3> QED BY <1>0, <1>1, <1>3, <2>1 DEF Full
  <2>3. f_dropped => f_line' # <<>> /\ f_line'[1] = Overrun
    <3> SUFFICES ASSUME f_dropped PROVE f_line' # <<>> /\ f_line'[1] = Overrun
      OBVIOUS
    <3>1. f_line # <<>> /\ f_line[1] = Overrun
      BY DEF FootInv, FootLineFits
    <3>2. 1 \in 1..Len(f_line)
      BY <1>0, <3>1
    <3> HIDE DEF l
    <3>3. l[1] = f_line[1] /\ l # <<>>
      BY <1>1, <3>2
    <3>4. QED
      BY <2>1, <3>1, <3>3
  <2>4. QED
    BY <1>1, <2>1, <2>2, <2>3 DEF FootInv, FootFlags, FootLineFits
<1>4. QED
  BY <1>2, <1>3

\* Every step of the foot keeps what holds of it.
LEMMA FootKept == FootInv /\ [FootNext]_footVars => FootInv'
<1> SUFFICES ASSUME FootInv, [FootNext]_footVars PROVE FootInv'
  OBVIOUS
<1>0. /\ <<>> \in Seq(FootTexts \cup {Eol}) /\ <<>> \in Seq(Chars) /\ Len(<<>>) = 0
      /\ RbufSize \in Nat /\ RbufSize >= 2 /\ LineSize \in Nat /\ LineSize >= 3
  BY FootAssumption
<1>1. ASSUME NEW c \in FootTexts \cup {Eol}, FootReceive(c) PROVE FootInv'
  <2>1. f_rbuf' \in Seq(FootTexts \cup {Eol}) /\ Len(f_rbuf') < RbufSize
    BY <1>0, <1>1 DEF FootReceive, FootInv, FootInput
  <2>2. QED
    BY <1>1, <2>1 DEF FootReceive, FootInv, FootFlags, FootInput, FootPlace, FootLineFits
<1>2. CASE FootSerial
  <2>1. CASE f_rbuf = <<>>
    BY <1>2, <2>1 DEF FootSerial, FootInv, FootFlags, FootInput, FootPlace, FootLineFits
  <2>2. CASE f_rbuf # <<>>
    <3>1. /\ f_rbuf' = Tail(f_rbuf) /\ UNCHANGED f_tifr
          /\ IF Head(f_rbuf) = Eol
             THEN handle_line /\ f_line' = <<>> /\ f_dropped' = FALSE
             ELSE /\ PutChar(Head(f_rbuf))
                  /\ f_pc' = "timer" /\ UNCHANGED <<streamVars, barometer>>
      BY <1>2, <2>2 DEF FootSerial
    <3>2. /\ f_rbuf' \in Seq(FootTexts \cup {Eol}) /\ Len(f_rbuf') < RbufSize
          /\ Head(f_rbuf) \in FootTexts \cup {Eol}
      BY <1>0, <2>2, <3>1 DEF FootInv, FootInput
    <3>3. CASE Head(f_rbuf) = Eol
      <4>1. f_pc' \in {"timer", "hang"} /\ barometer' \in BOOLEAN
        BY <3>1, <3>3, LineIsCommand, CommandIsStep DEF FootInv, FootFlags
      <4>2. FootFlags'
        BY <3>1, <3>3, <4>1, Zenon DEF FootInv, FootFlags
      <4>3. f_line' = <<>> /\ f_dropped' = FALSE
        BY <3>1, <3>3
      <4>4. FootLineFits'
        BY <1>0, <4>3 DEF FootLineFits
      <4>5. FootInput' /\ FootPlace'
        BY <1>0, <3>2, <4>1, <4>3 DEF FootInput, FootPlace
      <4>6. QED
        BY <4>2, <4>4, <4>5 DEF FootInv
    <3>4. CASE Head(f_rbuf) # Eol
      <4>1. f_line' \in Seq(Chars) /\ f_dropped' \in BOOLEAN /\ FootLineFits'
        BY <3>1, <3>2, <3>4, PutCharFits
      <4>2. QED
        BY <3>1, <3>2, <3>4, <4>1 DEF FootInv, FootFlags, FootInput, FootPlace
    <3>5. QED
      BY <3>3, <3>4
  <2>3. QED
    BY <2>1, <2>2
<1>3. CASE FootTimer \/ FootPoll \/ TimerMatch
  <2>1. UNCHANGED <<f_rbuf, f_line, f_dropped>> /\ UNCHANGED barometer
    BY <1>3 DEF FootTimer, FootPoll, TimerMatch
  <2>2. FootFlags'
    BY <1>3, <2>1, Zenon DEF FootTimer, FootPoll, TimerMatch, FootInv, FootFlags
  <2>3. FootPlace'
    BY <1>3 DEF FootTimer, FootPoll, TimerMatch, FootInv, FootPlace
  <2>4. QED
    BY <2>1, <2>2, <2>3 DEF FootInv, FootInput, FootLineFits
<1>4. CASE Watchdog
  <2>1. f_pc' = "serial" /\ f_rbuf' = <<>> /\ f_line' = <<>> /\ f_dropped' = FALSE
        /\ f_tifr' = FALSE /\ barometer' = TRUE
    BY <1>4 DEF Watchdog, FootReset
  <2>2. FootFlags'
    BY <2>1, Zenon DEF FootFlags
  <2>3. FootInput' /\ FootPlace'
    BY <1>0, <2>1 DEF FootInput, FootPlace
  <2>4. FootLineFits'
    BY <1>0, <2>1 DEF FootLineFits
  <2>5. QED
    BY <2>2, <2>3, <2>4 DEF FootInv
<1>5. CASE UNCHANGED footVars
  BY <1>5 DEF footVars, footOwn, FootInv, FootFlags, FootInput, FootPlace, FootLineFits
<1>6. QED
  BY <1>1, <1>2, <1>3, <1>4, <1>5 DEF FootNext

-----------------------------------------------------------------------------
\* What holds of the boards.
BoardsInv == FootInv /\ StreamInv /\ I2cInv /\ MotorInv /\ PacketInv

\* All of it holds when the boards start.
LEMMA BoardsInitially == Init => BoardsInv
<1> SUFFICES ASSUME Init PROVE BoardsInv
  OBVIOUS
<1>1. FootInit /\ I2cInit /\ OdroidInit
  BY DEF Init
<1>2. FootInv
  <2>1. FootFlags
    BY <1>1, Zenon DEF FootInit, FootFlags
  <2>2. /\ <<>> \in Seq(FootTexts \cup {Eol}) /\ <<>> \in Seq(Chars) /\ Len(<<>>) = 0
        /\ RbufSize \in Nat /\ RbufSize >= 2 /\ LineSize \in Nat /\ LineSize >= 3
    BY FootAssumption
  <2>3. FootInput /\ FootPlace /\ FootLineFits
    BY <1>1, <2>2 DEF FootInit, FootInput, FootPlace, FootLineFits
  <2>4. QED
    BY <2>1, <2>3 DEF FootInv
<1>3. StreamInv
  BY <1>1, StreamInitially DEF FootInit
<1>4. I2cInv
  BY <1>1, I2cInitially
<1>5. MotorInv
  <2>1. MaxFire \in Nat /\ LedTicks \in Nat /\ SinceMax = LedTicks + MaxFire + 3
    BY OdroidAssumption DEF SinceMax
  <2>2. regs \in RegTypes /\ regs.fire_pwm = 0 /\ regs.leds_timeout = 0
    BY <1>1, <2>1 DEF OdroidInit, NoRegs, RegTypes
  <2>3. o_since \in [fire: 0..SinceMax, leds: 0..SinceMax]
    BY <1>1, <2>1 DEF OdroidInit
  <2>4. outputs.fire = 0 /\ outputs.agitator = 0
    BY <1>1 DEF OdroidInit
  <2>5. QED
    BY <2>2, <2>3, <2>4 DEF MotorInv, OdroidTypes, FireDue, LedsDue, MotorsExpire
<1>6. PacketInv
  BY <1>1 DEF OdroidInit, PacketInv, RxTypes, ReadyPacketFits, READY, RX, BAD
<1>7. QED
  BY <1>2, <1>3, <1>4, <1>5, <1>6 DEF BoardsInv

\* In a step at most one board moves.
LEMMA OneBoardMoves ==
  ASSUME [Next]_vars
  PROVE  [FootNext]_footVars /\ [I2cNext]_i2cVars /\ [OdroidNext]_odroidVars
  BY DEF Next, vars

\* A step of one board keeps its part, and leaves the others' alone.
LEMMA BoardsKept == BoardsInv /\ [Next]_vars => BoardsInv'
<1> SUFFICES ASSUME BoardsInv, [Next]_vars PROVE BoardsInv'
  OBVIOUS
<1>1. FootInv /\ StreamInv /\ I2cInv /\ MotorInv /\ PacketInv /\ FootInput
  BY DEF BoardsInv, FootInv
<1>2. [StreamNext]_streamVars
  BY <1>1, OneBoardMoves, FootIsStreamStep
<1>3. QED
  BY <1>1, <1>2, OneBoardMoves, FootKept, StreamPreserved, I2cKept, MotorsKept, PacketKept
     DEF BoardsInv

\* So it holds of every state that is reached.
LEMMA BoardsInvariant == Spec => []BoardsInv
  BY BoardsInitially, BoardsKept, PTL DEF Spec

\* Every variable of the foot stays in its type, for every buffer size and table: the
\* ring keeps one place free, and the line holds texts and at most an overrun.
THEOREM FootTypeCorrect == Spec => []FootTypeOK
<1>1. BoardsInv => FootTypeOK
  BY DEF BoardsInv, FootInv, StreamInv, FootTypeOK, FootFlags, FootInput, FootPlace, Chars
<1>2. QED
  BY <1>1, BoardsInvariant, PTL

\* No firmware writes past the end of a buffer it fills from what it receives: the foot's
\* line, the answer of the I2C master, and the packet of the shield.
THEOREM BuffersFitAlways == Spec => []BuffersFit
<1>1. BoardsInv => BuffersFit
  BY DEF BoardsInv, FootInv, I2cInv, PacketInv, BuffersFit
<1>2. QED
  BY <1>1, BoardsInvariant, PTL

\* The foot's main loop works its stream table as StreamTable says, whatever it is sent:
\* all that StreamTableProofs shows holds of the foot.
THEOREM FootImplementsStreams == Spec => FootStreams
<1>1. Init => StreamInit
  BY DEF Init, FootInit
<1>2. BoardsInv /\ [Next]_vars => [StreamNext]_streamVars
  BY OneBoardMoves, FootIsStreamStep DEF BoardsInv, FootInv
<1>3. QED
  BY <1>1, <1>2, BoardsInvariant, PTL DEF Spec, FootStreams, StreamSpec

\* The master moves a byte only in a transaction that is open on the bus, in the
\* direction it was opened in and with no NACK, whatever operations a line has and
\* wherever one of them failed.
THEOREM BytesInTransactionAlways == Spec => []I2cBytesInTransaction
<1>1. BoardsInv => I2cBytesInTransaction
  BY DEF BoardsInv, I2cInv, I2cBytesInTransaction, Runs, OnBus
<1>2. QED
  BY <1>1, BoardsInvariant, PTL

\* A motor stops when its time is over since the last write that started it, for every
\* sequence of writes and ticks: the host may die with the motor on.
THEOREM MotorsExpireAlways == Spec => []MotorsExpire
<1>1. BoardsInv => MotorsExpire
  BY DEF BoardsInv, MotorInv
<1>2. QED
  BY <1>1, BoardsInvariant, PTL
=============================================================================
