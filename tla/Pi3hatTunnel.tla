---------------------------- MODULE Pi3hatTunnel ----------------------------
(***************************************************************************)
(* A tunnel of the pi3hat (class Tunnel of mech/pi3hat_wrapper.cc): a byte *)
(* stream to a servo.  The caller lives on the parent's executor; a read   *)
(* is posted to the child's context, polls there, and comes back as data   *)
(* or is tried again after a timer.  The caller's buffers are filled by    *)
(* the child thread.                                                       *)
(***************************************************************************)
EXTENDS Naturals, Sequences, FiniteSets

CONSTANTS
  TunnelFrames,  \* the frames on the bus: [mine, size], mine for this tunnel
  BufferSize,    \* of the caller's buffers
  MaxBus         \* bound: frames that lie around

ASSUME TunnelAssumption ==
  /\ BufferSize \in Nat \ {0} /\ MaxBus \in Nat
  /\ TunnelFrames \subseteq [mine: BOOLEAN, size: Nat]

VARIABLES
  k_reading,  \* the caller waits for a handler of async_read_some
  k_writing,  \* and for one of async_write_some
  k_child,    \* what is posted to the child's context
  k_timer,    \* timer_ is waited for
  k_parent,   \* what is posted to the parent's executor
  k_bus,      \* the frames that lie around
  k_got,      \* what the last read's handler was told
  k_filled    \* history: the bytes of the tunnel the child has taken for this read

tunnelVars == <<k_reading, k_writing, k_child, k_timer, k_parent, k_bus, k_got, k_filled>>

Job(op, bytes) == [op |-> op, bytes |-> bytes]

TunnelTypeOK ==
  /\ k_reading \in BOOLEAN /\ k_writing \in BOOLEAN /\ k_timer \in BOOLEAN
  /\ k_child \in Seq({"read", "write"})
  /\ \A i \in DOMAIN k_parent : k_parent[i].op \in {"read", "poll", "aborted", "write"}
  /\ k_bus \in Seq(TunnelFrames) /\ k_got \in Nat /\ k_filled \in Nat

TunnelInit ==
  /\ k_reading = FALSE /\ k_writing = FALSE /\ k_child = <<>> /\ k_timer = FALSE
  /\ k_parent = <<>> /\ k_bus = <<>> /\ k_got = 0 /\ k_filled = 0

-----------------------------------------------------------------------------
\* async_read_some and async_write_some; a caller has one of each under way.
TunnelRead ==
  /\ ~k_reading /\ k_reading' = TRUE /\ k_child' = Append(k_child, "read")
  /\ k_filled' = 0
  /\ UNCHANGED <<k_writing, k_timer, k_parent, k_bus, k_got>>

TunnelWrite ==
  /\ ~k_writing /\ k_writing' = TRUE /\ k_child' = Append(k_child, "write")
  /\ UNCHANGED <<k_reading, k_timer, k_parent, k_bus, k_got, k_filled>>

\* CHILD_ParseTunnelPoll: frames of other servos or channels are passed over; each of
\* the others is copied to the start of the buffers, and the sizes are added up.
Copied(frame) == IF ~frame.mine THEN 0
                 ELSE IF frame.size < BufferSize THEN frame.size ELSE BufferSize

ParseTunnelPoll(frames) ==
  LET result[i \in 0..Len(frames)] == IF i = 0 THEN 0 ELSE result[i - 1] + Copied(frames[i])
  IN  result[Len(frames)]

\* The job "read" of the child: CHILD_TunnelPoll takes what lies around and, when that
\* is nothing, polls the servo.  With bytes the handler is posted, without the timer
\* is armed.
ChildRead ==
  /\ k_child # <<>> /\ Head(k_child) = "read" /\ k_child' = Tail(k_child)
  /\ \E answer \in {<<>>} \cup (IF k_bus = <<>> THEN {<<f>> : f \in TunnelFrames} ELSE {}) :
       LET bytes == ParseTunnelPoll(k_bus \o answer)
       IN  /\ k_filled' = k_filled + bytes
           /\ k_timer' = (bytes = 0)
           /\ k_parent' = IF bytes > 0 THEN Append(k_parent, Job("read", bytes)) ELSE k_parent
  /\ k_bus' = <<>>
  /\ UNCHANGED <<k_reading, k_writing, k_got>>

\* The job "write": CHILD_TunnelWrite, whose cycle receives nothing.
ChildWrite ==
  /\ k_child # <<>> /\ Head(k_child) = "write" /\ k_child' = Tail(k_child)
  /\ k_parent' = Append(k_parent, Job("write", 0))
  /\ UNCHANGED <<k_reading, k_writing, k_timer, k_bus, k_got, k_filled>>

\* The timer expires; its handler is queued and can no longer be cancelled.
TimerExpires ==
  /\ k_timer /\ k_timer' = FALSE /\ k_parent' = Append(k_parent, Job("poll", 0))
  /\ UNCHANGED <<k_reading, k_writing, k_child, k_bus, k_got, k_filled>>

\* cancel: it reaches a read only while that waits for the timer.
Cancel_Anyway ==
  /\ k_reading
  /\ k_timer' = FALSE /\ k_parent' = Append(k_parent, Job("aborted", 0))

Cancel ==
  /\ k_timer
  /\ k_timer' = FALSE /\ k_parent' = Append(k_parent, Job("aborted", 0))

TunnelCancel == Cancel /\ UNCHANGED <<k_reading, k_writing, k_child, k_bus, k_got, k_filled>>

\* The parent's executor runs a handler: of a read, of HandlePoll (which reads again,
\* or with an error ends the read), or of a write.
ParentRuns ==
  /\ k_parent # <<>> /\ k_parent' = Tail(k_parent)
  /\ LET job == Head(k_parent)
     IN  /\ k_reading' = (k_reading /\ job.op \notin {"read", "aborted"})
         /\ k_writing' = (k_writing /\ job.op # "write")
         /\ k_child' = IF job.op = "poll" THEN Append(k_child, "read") ELSE k_child
         /\ k_got' = IF job.op \in {"read", "aborted"} THEN job.bytes ELSE k_got
  /\ UNCHANGED <<k_timer, k_bus, k_filled>>

\* A cycle of the control loop runs on the child in between: it takes every frame, and
\* FinishCAN has no use for a tunnel's.
ChildCycle ==
  /\ k_bus # <<>> /\ k_bus' = <<>>
  /\ UNCHANGED <<k_reading, k_writing, k_child, k_timer, k_parent, k_got, k_filled>>

\* A frame arrives that nobody asked for.
FrameArrives(frame) ==
  /\ Len(k_bus) < MaxBus /\ k_bus' = Append(k_bus, frame)
  /\ UNCHANGED <<k_reading, k_writing, k_child, k_timer, k_parent, k_got, k_filled>>

TunnelNext == \/ TunnelRead \/ TunnelWrite \/ ChildRead \/ ChildWrite
              \/ TimerExpires \/ TunnelCancel \/ ParentRuns
              \/ ChildCycle
              \/ \E f \in TunnelFrames : FrameArrives(f)

-----------------------------------------------------------------------------
\* What can still touch the buffers of a read or call its handler.
Continuations ==
  Cardinality({i \in DOMAIN k_child : k_child[i] = "read"}) + (IF k_timer THEN 1 ELSE 0) +
  Cardinality({i \in DOMAIN k_parent : k_parent[i].op \in {"read", "poll", "aborted"}})

\* The child thread fills the caller's buffers only while the caller still waits, the
\* handler runs once, and no byte taken from the bus is lost to a cancel: a read that
\* was not answered has exactly one continuation, one that was answered has none and
\* was told of all the child took.
TunnelBufferHeld ==
  /\ Continuations = (IF k_reading THEN 1 ELSE 0)
  /\ ~k_reading => k_got = k_filled
=============================================================================
