----------------------------- MODULE I2cMaster ------------------------------
(***************************************************************************)
(* The bit-banged I2C master of the pressure foot                          *)
(* (hw/pressure_foot/firmware/i2c.c): the I2C command is a small program   *)
(* of address, read, write, poll and stop operations, run on a bus whose   *)
(* lines and acknowledgements the master can only observe.  One step is an *)
(* operation or one byte on the bus; bits are not told apart.              *)
(***************************************************************************)
EXTENDS Naturals

CONSTANTS
  I2cOps,   \* the operations programs are made of
  RespSize  \* sizeof(data_out): 10

ASSUME I2cAssumption ==
  /\ RespSize \in Nat \ {0}
  /\ \A o \in I2cOps :
       /\ o.op = "s" => o.addr \in {"good", "bad"}
       /\ o.op \in {"r", "n", "w"} => o.n \in Nat

VARIABLES
  i2c_state,       \* g_i2c_state
  i_running,       \* i2c_command is under way
  i_err,           \* err, "none" while run_command goes on
  i_addr,          \* addr: "none", "good" or "bad" (above 0x7f)
  in_transaction, last_read, last_nack,
  resp_len,
  i_left,          \* bytes left of the present read or write
  i_nack,          \* final_nack of the present read
  bus              \* history: what the bus has seen since the last START

i2cVars == <<i2c_state, i_running, i_err, i_addr, in_transaction,
             last_read, last_nack, resp_len, i_left, i_nack, bus>>

I2cErrors == {"none", "done", "coll", "full", "badcmd", "timeout", "busy", "badaddr",
              "addr_nack", "data_nack", "0xfe", "0xff"}
Idle   == "idle"
Active == "active"
NoBus  == [dir |-> "none", nacked |-> FALSE]

I2cTypeOK ==
  /\ i2c_state \in {Idle, Active} /\ i_err \in I2cErrors
  /\ i_addr \in {"none", "good", "bad"}
  /\ {i_running, in_transaction, last_read, last_nack, i_nack} \subseteq BOOLEAN
  /\ resp_len \in 0..RespSize /\ i_left \in Nat
  /\ bus \in [dir: {"none", "read", "write"}, nacked: BOOLEAN]

I2cInit ==
  /\ i2c_state = Idle /\ i_running = FALSE /\ i_err = "none"
  /\ i_addr = "none" /\ in_transaction = FALSE /\ last_read = FALSE
  /\ last_nack = FALSE /\ resp_len = 0 /\ i_left = 0 /\ i_nack = FALSE
  /\ bus = NoBus

\* i2c_command is called: the locals of run_command start afresh.
i2c_command ==
  /\ ~i_running
  /\ i_running' = TRUE /\ i_err' = "none" /\ i_addr' = "none"
  /\ in_transaction' = FALSE /\ last_read' = FALSE /\ last_nack' = FALSE
  /\ resp_len' = 0 /\ i_left' = 0
  /\ UNCHANGED <<i2c_state, i_nack, bus>>

-----------------------------------------------------------------------------
\* The next operation of the program is o, whatever it is.
Takes(o, op) == i_running /\ i_err = "none" /\ i_left = 0 /\ o.op = op

locals == <<in_transaction, last_read, last_nack, resp_len, i_left, i_nack>>

Fails(err) == i_err' = err /\ UNCHANGED <<locals, i_addr>>

OpAddress(o) ==
  /\ Takes(o, "s") /\ i_addr' = o.addr
  /\ UNCHANGED <<i2c_state, i_running, i_err, locals, bus>>

\* i2c_start and the address byte.  Only a first START looks at the lines; the
\* lines, a collision and the acknowledgement are the bus's choice.
StartOutcomes ==
  (IF i2c_state = Idle THEN {"busy"} ELSE {}) \cup {"coll", "addr_nack", "none"}

\* A read or a write of some bytes: START and address unless the transaction is
\* one of the same direction.
OpTransfer(o, op, read, nack) ==
  /\ Takes(o, op)
  /\ IF i_addr # "good" THEN Fails("badaddr") /\ UNCHANGED <<i2c_state, bus>>
     ELSE \E out \in IF in_transaction /\ last_read = read THEN {"none"}
                     ELSE StartOutcomes :
            /\ LET starts == ~(in_transaction /\ last_read = read) /\ out # "busy"
               IN  /\ i2c_state' = IF starts THEN Active ELSE i2c_state
                   /\ bus' = IF ~starts THEN bus
                             ELSE [dir |-> IF out # "none" THEN "none"
                                           ELSE IF read THEN "read" ELSE "write",
                                   nacked |-> FALSE]
            /\ IF out # "none" THEN Fails(out)
               ELSE /\ in_transaction' = (o.n > 0 \/ ~nack) /\ last_read' = read
                    /\ i_left' = o.n /\ i_nack' = nack
                    /\ UNCHANGED <<i_err, i_addr, last_nack, resp_len>>
  /\ UNCHANGED i_running

\* 'r' ends with a NACK, 'n' does not; 'w' is followed by the bytes.
OpRead(o)  == OpTransfer(o, "r", TRUE, TRUE)
OpReadN(o) == OpTransfer(o, "n", TRUE, FALSE)
OpWrite(o) == OpTransfer(o, "w", FALSE, FALSE)

\* The response is checked after a byte is stored: the tenth byte is kept and
\* ends the command.
RespFull(len) == len >= RespSize

\* Mutant: a read that ended with a NACK can be continued.
Continues_Always(nack) == TRUE

\* The transaction is over once a byte was not acknowledged.
Continues(nack) == ~nack

\* i2c_read_byte.  The last byte of an 'r' is not acknowledged, which is a bit
\* written high, and may collide.
ReadByte ==
  /\ i_running /\ i_err = "none" /\ i_left > 0 /\ last_read
  /\ LET nack == i_nack /\ i_left = 1
     IN  \E out \in {"none"} \cup (IF nack THEN {"coll"} ELSE {}) :
           /\ last_nack' = nack
           /\ resp_len' = IF out = "none" THEN resp_len + 1 ELSE resp_len
           /\ i_err' = IF out = "none" /\ RespFull(resp_len') THEN "full" ELSE out
           /\ bus' = [bus EXCEPT !.nacked = nack]
           /\ i_left' = i_left - 1
           /\ in_transaction' = (in_transaction /\ Continues(nack))
  /\ UNCHANGED <<i2c_state, i_running, i_addr, last_read, i_nack>>

\* i2c_write_byte, with the bytes of a 'w'.
WriteByte ==
  /\ i_running /\ i_err = "none" /\ i_left > 0 /\ ~last_read
  /\ i_err' \in {"none", "coll", "data_nack"}
  /\ i_left' = i_left - 1
  /\ UNCHANGED <<i2c_state, i_running, i_addr, in_transaction, last_read,
                 last_nack, resp_len, i_nack, bus>>

\* 'p' compares the last byte read; what it is, the device decides.
OpPoll(o) ==
  /\ Takes(o, "p")
  /\ \/ resp_len = 0 /\ i_err' = "badcmd"
     \/ resp_len > 0 /\ i_err' \in {"none", IF last_nack THEN "0xff" ELSE "0xfe"}
  /\ UNCHANGED <<i2c_state, i_running, i_addr, locals, bus>>

\* i2c_stop: the state stays active when a line is held low.
i2c_stop ==
  \/ i2c_state' = Idle /\ bus' = NoBus
  \/ i2c_state = Active /\ UNCHANGED i2c_state /\ bus' = NoBus

\* ';' stops, and does not look at what i2c_stop returns.
OpStop(o) ==
  /\ Takes(o, ";") /\ i2c_stop /\ in_transaction' = FALSE
  /\ UNCHANGED <<i_running, i_err, i_addr, last_read, last_nack, resp_len, i_left, i_nack>>

\* Anything else is an error, and so is a number that does not parse: the 1 of
\* parse_hex2 is then taken for I2C_ERR_TIMEOUT.
OpBad(o) ==
  /\ \/ Takes(o, "bad") /\ Fails("badcmd")
     \/ Takes(o, "hex") /\ Fails("timeout")
  /\ UNCHANGED <<i2c_state, i_running, bus>>

\* The end of i2c_command, after the program or an error.
I2cEnd ==
  /\ i_running /\ (i_err # "none" \/ i_left = 0)
  /\ i_running' = FALSE
  /\ i_err' = IF i_err = "none" THEN "done" ELSE i_err
  /\ i2c_stop
  /\ UNCHANGED <<i_addr, locals>>

I2cNext ==
  \/ i2c_command
  \/ \E o \in I2cOps : \/ OpAddress(o) \/ OpRead(o) \/ OpReadN(o) \/ OpWrite(o)
                       \/ OpPoll(o) \/ OpStop(o) \/ OpBad(o)
  \/ ReadByte \/ WriteByte
  \/ I2cEnd

-----------------------------------------------------------------------------
\* Every byte moves between a START with the address in its direction and the
\* STOP, and none is read after the one that was not acknowledged; in_transaction
\* and last_read, which decide on a START, agree with the bus.
I2cBytesInTransaction ==
  i_running /\ i_err = "none" /\ i_left > 0 =>
    /\ i2c_state = Active
    /\ bus = [dir |-> IF last_read THEN "read" ELSE "write", nacked |-> FALSE]

\* A byte is only read while there is room for it in the response.
I2cResponseFits == i_running /\ i_err = "none" => resp_len < RespSize
=============================================================================
