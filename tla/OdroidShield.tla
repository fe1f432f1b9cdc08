---------------------------- MODULE OdroidShield ----------------------------
(***************************************************************************)
(* The odroid shield's firmware                                            *)
(* (hw/odroid_shield_v2/firmware/avr_odroid.c), a servo of the herkulex    *)
(* bus that drives the fire and agitator motors.  The UART interrupt       *)
(* frames packets byte by byte in one buffer, which the main loop owns     *)
(* while it is ready and answers in; a 10 ms timer expires the motors.     *)
(* What a packet says is a choice made when it is handled: of its bytes    *)
(* the framing only looks at the first two.                                *)
(***************************************************************************)
EXTENDS Naturals, Sequences

CONSTANTS
  RxSize,     \* sizeof(rx.rawdata): 16
  FfWrap,     \* rx_ff_count is a uint8_t: 256
  Bytes,      \* the bytes that come in
  Writes,     \* RAM writes: a first address and the values that follow
  ReadCounts, \* how many registers a RAM read asks for
  LedTicks,   \* servo_leds_timeout after a write of the LEDs: 200
  MaxFire     \* bound: the largest fire time the host writes

ASSUME OdroidAssumption ==
  /\ RxSize \in Nat /\ RxSize >= 9 /\ FfWrap \in Nat /\ FfWrap > 2
  /\ Bytes \subseteq 0..255 /\ LedTicks \in Nat /\ MaxFire \in Nat
  /\ ReadCounts \subseteq Nat
  /\ \A w \in Writes :
       /\ w.addr \in Nat /\ w.vals \in Seq(Nat)
       /\ \A k \in 1..Len(w.vals) : w.addr + k - 1 = 80 => w.vals[k] <= MaxFire

VARIABLES
  rx_status, rx_len, rx_ff_count,
  rx_size,     \* rx.val.size
  regs,        \* the servo_* registers that writes, reads and timers share
  outputs,     \* OCR1B, OCR1A and MC33926_EN
  o_tick,      \* OCF0A of TIFR0: the 10 ms timer has matched
  o_since      \* history: ticks since the fire registers, and the LEDs, were written

odroidVars == <<rx_status, rx_len, rx_ff_count, rx_size, regs, outputs,
                o_tick, o_since>>

READY == "RXS_READY"
RX    == "RXS_RX"
BAD   == "RXS_BAD"

SYNC       == 255
SERVO_ADDR == 99
BROADCAST  == 254

DataSize == RxSize - 5  \* sizeof(rx.val.data)

NoRegs == [err |-> FALSE, moving |-> FALSE, leds |-> 0, leds_timeout |-> 0,
           fire_time |-> 0, fire_pwm |-> 0, agitator_pwm |-> 0]

\* The history stops counting once it is past everything the properties ask for.
SinceMax == LedTicks + MaxFire + 3

OdroidTypeOK ==
  /\ rx_status \in {READY, RX, BAD} /\ rx_len \in 0..255
  /\ rx_ff_count \in 0..FfWrap - 1 /\ rx_size \in 0..255
  /\ regs \in [err: BOOLEAN, moving: BOOLEAN, leds: Nat, leds_timeout: 0..LedTicks,
               fire_time: 0..MaxFire, fire_pwm: Nat, agitator_pwm: Nat]
  /\ outputs \in [fire: Nat, agitator: Nat, enabled: BOOLEAN]
  /\ o_tick \in BOOLEAN /\ o_since \in [fire: 0..SinceMax, leds: 0..SinceMax]

\* main, up to sei(): the H-bridge is enabled, both motors off.
OdroidInit ==
  /\ rx_status = BAD /\ rx_len = 7 /\ rx_ff_count = 0 /\ rx_size = 0
  /\ regs = NoRegs
  /\ outputs = [fire |-> 0, agitator |-> 0, enabled |-> TRUE]
  /\ o_tick = FALSE /\ o_since = [fire |-> SinceMax, leds |-> SinceMax]

-----------------------------------------------------------------------------
Overflows(len) == len >= RxSize

\* The UART's receive interrupt.
Frame(c, ff) ==
  IF c = SYNC /\ ff >= 2
  THEN rx_len' = 0 /\ rx_status' = RX /\ UNCHANGED rx_size
  ELSE IF rx_status # RX THEN UNCHANGED <<rx_status, rx_len, rx_size>>
  ELSE IF Overflows(rx_len)
  THEN rx_status' = BAD /\ UNCHANGED <<rx_len, rx_size>>
  ELSE /\ rx_len' = rx_len + 1
       /\ rx_size' = IF rx_len = 0 THEN c ELSE rx_size
       /\ rx_status' = IF rx_len' = 2 /\ c \notin {SERVO_ADDR, BROADCAST} THEN BAD
                       ELSE IF rx_len' >= 5 /\ rx_len' + 2 = rx_size' THEN READY
                       ELSE RX

HWUART_RX(c) ==
  /\ IF rx_status = READY THEN UNCHANGED <<rx_status, rx_len, rx_size, rx_ff_count>>
     ELSE LET ff == IF c = SYNC THEN (rx_ff_count + 1) % FfWrap ELSE 0
          IN  rx_ff_count' = ff /\ Frame(c, ff)
  /\ UNCHANGED <<regs, outputs, o_tick, o_since>>

-----------------------------------------------------------------------------
\* handle_ram_write.
WriteReg(r, addr, val) ==
  LET w == CASE addr = 80 -> [r EXCEPT !.fire_time = val]
             [] addr = 81 -> [r EXCEPT !.fire_pwm = val]
             [] addr = 82 -> [r EXCEPT !.agitator_pwm = val]
             [] addr \in {53, 83} -> [r EXCEPT !.leds = val, !.leds_timeout = LedTicks]
             [] addr = 43 -> [r EXCEPT !.err = val # 0]
             [] addr = 44 -> [r EXCEPT !.moving = val # 0]
             [] addr = 84 -> [r EXCEPT !.err = TRUE]
             [] OTHER -> r
  IN  [w EXCEPT !.moving = @ \/ (addr # 84 /\ w.fire_pwm # 0 /\ w.fire_time # 0)]

WrittenTo(w) == {w.addr + k - 1 : k \in 1..Len(w.vals)}

\* The registers after a write; after[k] is what its first k values make of them.
Written(w) ==
  LET after[k \in 0..Len(w.vals)] ==
        IF k = 0 THEN regs ELSE WriteReg(after[k - 1], w.addr + k - 1, w.vals[k])
  IN  after[Len(w.vals)]

\* handle_RAMWRITE_cmd; the values are data[2] and on.
handle_RAMWRITE_cmd(w) ==
  /\ rx_size - 7 >= 2 + Len(w.vals)
  /\ regs' = Written(w)
  /\ o_since' = [fire |-> IF WrittenTo(w) \cap {80, 81} # {} THEN 0 ELSE o_since.fire,
                 leds |-> IF WrittenTo(w) \cap {53, 83} # {} THEN 0 ELSE o_since.leds]
  /\ UNCHANGED <<rx_size, outputs>>

\* The answers are put together in the receive buffer.
\* send_rx_buffer sends the size less two bytes of it.
Answer(size) == /\ rx_size' = size
                /\ UNCHANGED <<regs, outputs, o_since>>

handle_STAT_command == Answer(9)

\* handle_RAMREAD_cmd: a count that does not fit is cut.
handle_RAMREAD_cmd(count) ==
  /\ rx_size = 9
  /\ Answer(11 + IF count + 2 > DataSize THEN DataSize - 2 ELSE count)

\* Reboot clears the registers, not the LED timeout.
Reboot ==
  /\ regs' = [NoRegs EXCEPT !.leds_timeout = regs.leds_timeout]
  /\ outputs' = [fire |-> 0, agitator |-> 0, enabled |-> FALSE]
  /\ UNCHANGED <<rx_size, o_since>>

\* A bad checksum, or a command that is not known, is noted in the status; jogs
\* and rollback are ignored.
Rejected(bad) == /\ regs' = [regs EXCEPT !.err = @ \/ bad]
                 /\ UNCHANGED <<rx_size, outputs, o_since>>

\* The main loop, with a packet; the interrupt leaves the buffer alone meanwhile.
HandlePacket ==
  /\ rx_status = READY
  /\ \/ \E w \in Writes : handle_RAMWRITE_cmd(w)
     \/ handle_STAT_command
     \/ \E count \in ReadCounts : handle_RAMREAD_cmd(count)
     \/ Reboot
     \/ \E bad \in BOOLEAN : Rejected(bad)
  /\ rx_status' = BAD
  /\ UNCHANGED <<rx_len, rx_ff_count, o_tick>>

\* apply_servo_values
Applied(r) == [fire |-> r.fire_pwm, agitator |-> r.agitator_pwm,
               enabled |-> r.fire_pwm # 0 \/ r.agitator_pwm # 0]

ExpireLeds(r) == IF r.leds_timeout # 0 THEN [r EXCEPT !.leds_timeout = @ - 1]
                 ELSE [r EXCEPT !.leds = 0, !.agitator_pwm = 0]

\* Mutant: the flag goes, the motor's value stays.
ExpireFire_FlagOnly(r) == IF r.fire_time # 0 THEN [r EXCEPT !.fire_time = @ - 1]
                          ELSE [r EXCEPT !.moving = FALSE]

ExpireFire(r) == IF r.fire_time # 0 THEN [r EXCEPT !.fire_time = @ - 1]
                 ELSE [r EXCEPT !.fire_pwm = 0, !.moving = FALSE]

\* The main loop, with the timer: the outputs are set between the two expiries.
\* A packet may have become ready since the loop looked.
HandleTick ==
  /\ o_tick /\ o_tick' = FALSE
  /\ outputs' = Applied(ExpireLeds(regs))
  /\ regs' = ExpireFire(ExpireLeds(regs))
  /\ o_since' = [k \in DOMAIN o_since |->
                   IF o_since[k] < SinceMax THEN o_since[k] + 1 ELSE SinceMax]
  /\ UNCHANGED <<rx_status, rx_len, rx_ff_count, rx_size>>

\* The timer's hardware.
OdroidTimer == ~o_tick /\ o_tick' = TRUE
               /\ UNCHANGED <<rx_status, rx_len, rx_ff_count, rx_size, regs, outputs, o_since>>

OdroidNext == (\E c \in Bytes : HWUART_RX(c)) \/ HandlePacket \/ HandleTick \/ OdroidTimer

-----------------------------------------------------------------------------
\* A packet that is ready fits the buffer it was received in, its length says
\* so, and calculate_cs1 and handle_RAMWRITE_cmd stay inside data[].
ReadyPacketFits ==
  rx_status = READY => /\ rx_size = rx_len + 2 /\ rx_len <= RxSize
                       /\ rx_size - 7 \in 0..DataSize

\* A motor that is not commanded again stops: the fire motor at the latest one
\* tick after its time, the agitator with the LEDs' timeout, whatever else the
\* bus carries.
MotorsExpire ==
  /\ outputs.fire # 0 => o_since.fire <= MaxFire + 1
  /\ outputs.agitator # 0 => o_since.leds <= LedTicks
=============================================================================
