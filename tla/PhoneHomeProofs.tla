--------------------------- MODULE PhoneHomeProofs ---------------------------
(***************************************************************************)
(* TLAPS proofs about PhoneHome, for any set of jobs and any bounds.       *)
(***************************************************************************)
EXTENDS PhoneHome, TLAPS

-----------------------------------------------------------------------------
(* Sequences: the shapes the channel, the parked slot and the wire take.   *)

\* A channel that is not empty yields a message and a shorter channel.
LEMMA HeadTail ==
  ASSUME NEW S, NEW s \in Seq(S), s # <<>>
  PROVE  /\ Head(s) \in S /\ Head(s) = s[1]
         /\ Tail(s) \in Seq(S) /\ Len(Tail(s)) = Len(s) - 1 /\ Len(s) >= 1
         /\ \A i \in 1 .. Len(s) - 1 : Tail(s)[i] = s[i + 1]
  OBVIOUS

\* Sending appends one message.
LEMMA AppendOne ==
  ASSUME NEW S, NEW s \in Seq(S), NEW e \in S
  PROVE  /\ Append(s, e) \in Seq(S) /\ Len(Append(s, e)) = Len(s) + 1
         /\ Append(s, e)[Len(s) + 1] = e
         /\ \A i \in 1 .. Len(s) : Append(s, e)[i] = s[i]
  OBVIOUS

\* A parked frame is a sequence of one.
LEMMA One ==
  ASSUME NEW S, NEW e \in S
  PROVE  <<e>> \in Seq(S) /\ Len(<<e>>) = 1 /\ <<e>>[1] = e
  OBVIOUS

\* A slot that holds at most one frame and is not empty holds one.
LEMMA OneParked ==
  ASSUME NEW S, NEW s \in Seq(S), s # <<>>, Len(s) <= 1
  PROVE  Len(s) = 1
<1>1. ASSUME NEW n \in Nat, n <= 1, n >= 1 PROVE n = 1
  BY <1>1
<1>2. Len(s) \in Nat /\ Len(s) >= 1
  BY HeadTail
<1>3. QED
  BY <1>1, <1>2

\* A prefix of what was sent is a sequence of the same messages.
LEMMA Prefix ==
  ASSUME NEW S, NEW s \in Seq(S), NEW n \in 0 .. Len(s)
  PROVE  SubSeq(s, 1, n) \in Seq(S)
  OBVIOUS

-----------------------------------------------------------------------------
\* A report is a frame: its number is natural, its job the task's job.
LEMMA ReportType ==
  ASSUME TypeOK, NEW r, NEW from, NEW to \in {"shell", "finished"},
         NEW state \in Status, Report(r, from, to, state)
  PROVE  TypeOK'
<1>1. r \in 1 .. Len(tasks) /\ tasks[r] \in Task
  BY DEF Report, TypeOK
<1>2. [seq |-> emitted + 1, job |-> tasks[r].job, state |-> state] \in Frame
  BY <1>1 DEF TypeOK, Task, Frame
<1>3. queue' \in Seq(Frame)
  BY <1>2 DEF Report, TypeOK
<1>4. [tasks[r] EXCEPT !.pc = to] \in Task
  BY <1>1 DEF Task
<1>5. tasks' \in Seq(Task)
  BY <1>1, <1>4 DEF Report, TypeOK
<1>6. QED
  BY <1>3, <1>5 DEF Report, TypeOK, netVars, backendVars

\* Type correctness of the phone-home loop.
THEOREM TypeCorrect == Spec => []TypeOK
<1>1. Init => TypeOK
  BY DEF Init, TypeOK
<1>2. TypeOK /\ [Next]_vars => TypeOK'
  <2> SUFFICES ASSUME TypeOK, [Next]_vars PROVE TypeOK'
    OBVIOUS
  <2> USE DEF agentVars, netVars, backendVars, history
  <2>1. CASE Connection
    <3>1. CASE ConnectOk
      BY <3>1 DEF ConnectOk, TypeOK
    <3>2. CASE ConnectErr \/ Retry
      BY <3>2 DEF ConnectErr, Retry, TypeOK
    <3>3. QED
      BY <2>1, <3>1, <3>2 DEF Connection
  <2>2. CASE FlushNothing
    BY <2>2 DEF FlushNothing, TypeOK
  <2>3. CASE FlushOk
    <3>1. Head(pending) \in Frame
      BY <2>3, HeadTail DEF FlushOk, TypeOK
    <3>2. Append(wire, Head(pending)) \in Seq(Frame)
      BY <3>1, AppendOne DEF TypeOK
    <3>3. QED
      BY <2>3, <3>1, <3>2 DEF FlushOk, WriteOk, TypeOK, Frame
  <2>4. CASE FlushErr
    <3>1. Head(pending) \in Frame
      BY <2>4, HeadTail DEF FlushErr, TypeOK
    <3>2. Append(wire, Head(pending)) \in Seq(Frame)
      BY <3>1, AppendOne DEF TypeOK
    <3>3. wire' \in Seq(Frame) /\ link' \in {"up", "gone", "closed"}
      BY <2>4, <3>2 DEF FlushErr, WriteErr, TypeOK
    <3>4. pending' \in Seq(Frame) /\ Len(pending') <= 1
      BY <2>4, <3>1, One DEF FlushErr, Park
    <3>5. QED
      BY <2>4, <3>3, <3>4 DEF FlushErr, WriteErr, Park, TypeOK
  <2>5. CASE SendOk
    <3>1. Head(queue) \in Frame /\ Tail(queue) \in Seq(Frame)
      BY <2>5, HeadTail DEF SendOk, TypeOK
    <3>2. Append(wire, Head(queue)) \in Seq(Frame)
      BY <3>1, AppendOne DEF TypeOK
    <3>3. QED
      BY <2>5, <3>1, <3>2 DEF SendOk, WriteOk, TypeOK, Frame
  <2>6. CASE SendErr
    <3>1. Head(queue) \in Frame /\ Tail(queue) \in Seq(Frame)
      BY <2>6, HeadTail DEF SendErr, TypeOK
    <3>2. Append(wire, Head(queue)) \in Seq(Frame)
      BY <3>1, AppendOne DEF TypeOK
    <3>3. wire' \in Seq(Frame) /\ link' \in {"up", "gone", "closed"}
      BY <2>6, <3>2 DEF SendErr, WriteErr, TypeOK
    <3>4. pending' \in Seq(Frame) /\ Len(pending') <= 1
      BY <2>6, <3>1, One DEF SendErr, Park
    <3>5. QED
      BY <2>6, <3>1, <3>3, <3>4 DEF SendErr, WriteErr, Park, TypeOK
  <2>7. CASE PingErr
    BY <2>7 DEF PingErr, TypeOK
  <2>8. CASE Read
    <3>1. CASE ReadCommand
      <4>1. [job |-> Head(inbound), pc |-> "queued"] \in Task
        BY <3>1 DEF ReadCommand, Task
      <4>2. tasks' \in Seq(Task) /\ inbound' \in Seq(Jobs \cup Control)
        BY <3>1, <4>1, AppendOne, HeadTail DEF ReadCommand, TypeOK
      <4>3. QED
        BY <3>1, <4>2 DEF ReadCommand, TypeOK
    <3>2. CASE ReadNoise \/ ReadClose \/ ReadSuperseded \/ ReadEnd
      BY <3>2, HeadTail DEF ReadNoise, ReadClose, ReadSuperseded, ReadEnd, TypeOK
    <3>3. QED
      BY <2>8, <3>1, <3>2 DEF Read
  <2>9. ASSUME NEW r \in DOMAIN tasks, RunTask(r) \/ EndTask(r)
        PROVE  TypeOK'
    <3>1. CASE Begin(r)
      <4>1. tasks[r] \in Task
        BY DEF TypeOK
      <4>2. [tasks[r] EXCEPT !.pc = "dispatching"] \in Task
        BY <4>1 DEF Task
      <4>3. tasks' \in Seq(Task)
        BY <3>1, <4>2 DEF Begin, TypeOK
      <4>4. QED
        BY <3>1, <4>3 DEF Begin, TypeOK
    <3>2. CASE Reject(r) \/ Start(r) \/ EndTask(r)
      BY <3>2, ReportType
         DEF Reject, Start, EndTask, ShellDone, ShellFail, Status, Terminal
    <3>3. QED
      BY <2>9, <3>1, <3>2 DEF RunTask
  <2>10. CASE Crash
    <3>1. ASSUME NEW r \in DOMAIN tasks
          PROVE  [tasks[r] EXCEPT
                    !.pc = IF @ = "finished" THEN @ ELSE "killed"] \in Task
      <4>1. tasks[r] \in Task
        BY DEF TypeOK
      <4>2. QED
        BY <4>1 DEF Task
    <3>2. DOMAIN tasks = 1 .. Len(tasks) /\ Len(tasks) \in Nat
      BY DEF TypeOK
    <3>3. tasks' \in Seq(Task)
      <4> DEFINE killed == [r \in 1 .. Len(tasks) |->
                   [tasks[r] EXCEPT !.pc = IF @ = "finished" THEN @ ELSE "killed"]]
      <4>1. killed \in [1 .. Len(tasks) -> Task]
        BY <3>1, <3>2
      <4>2. killed \in Seq(Task)
        BY <4>1, <3>2
      <4>3. QED
        BY <2>10, <4>2, <3>2 DEF Crash
    <3>4. QED
      BY <2>10, <3>3 DEF Crash, TypeOK
  <2>11. CASE Restart
    BY <2>11 DEF Restart, TypeOK
  <2>12. CASE Cut
    BY <2>12, Prefix DEF Cut, TypeOK
  <2>13. CASE LoseWire
    BY <2>13 DEF LoseWire, TypeOK
  <2>14. CASE Deliver
    <3>1. Head(wire) \in Frame /\ Tail(wire) \in Seq(Frame)
      BY <2>14, HeadTail DEF Deliver, TypeOK
    <3>2. QED
      BY <2>14, <3>1 DEF Deliver, TypeOK, Frame
  <2>15. CASE Backend
    <3>1. ASSUME NEW e \in Jobs \cup Control
          PROVE  Append(inbound, e) \in Seq(Jobs \cup Control)
      BY AppendOne DEF TypeOK
    <3>2. ASSUME NEW j \in Jobs, BackendCommand(j) PROVE TypeOK'
      BY <3>1, <3>2 DEF BackendCommand, TypeOK
    <3>3. CASE BackendNoise
      BY <3>1, <3>3 DEF BackendNoise, TypeOK, Control
    <3>4. ASSUME NEW c \in {"close", "superseded"}, BackendClose(c)
          PROVE  TypeOK'
      BY <3>1, <3>4 DEF BackendClose, TypeOK, Control
    <3>5. QED
      BY <2>15, <3>2, <3>3, <3>4 DEF Backend
  <2>16. CASE UNCHANGED vars
    BY <2>16 DEF vars, TypeOK
  <2>17. QED
    BY <2>1, <2>2, <2>3, <2>4, <2>5, <2>6, <2>7, <2>8, <2>9, <2>10, <2>11,
       <2>12, <2>13, <2>14, <2>15, <2>16 DEF Next, Outbound, Process, Network
<1>3. QED
  BY <1>1, <1>2, PTL DEF Spec

-----------------------------------------------------------------------------
(* The order of frames.  OwedInOrder speaks of the concatenation of the    *)
(* parked slot and the channel; its two parts are what the steps preserve. *)

OwedParts ==
  /\ emitted = settled + Len(pending) + Len(queue)
  /\ \A i \in 1 .. Len(pending) : pending[i].seq = settled + i
  /\ \A i \in 1 .. Len(queue) : queue[i].seq = settled + Len(pending) + i

\* The parts imply the whole.
LEMMA OwedWhole == TypeOK /\ OwedParts => OwedInOrder
<1> SUFFICES ASSUME TypeOK, OwedParts PROVE OwedInOrder
  OBVIOUS
<1>1. /\ pending \in Seq(Frame) /\ queue \in Seq(Frame)
      /\ Len(pending) \in Nat /\ Len(queue) \in Nat /\ settled \in Nat
  BY DEF TypeOK
<1>2. Len(Owed) = Len(pending) + Len(queue)
      /\ DOMAIN Owed = 1 .. Len(pending) + Len(queue)
  BY <1>1 DEF Owed
<1>3. ASSUME NEW i \in 1 .. Len(pending) + Len(queue)
      PROVE  Owed[i].seq = settled + i
  <2>1. CASE i <= Len(pending)
    <3>1. Owed[i] = pending[i]
      BY <1>1, <2>1 DEF Owed
    <3>2. QED
      BY <1>1, <2>1, <3>1 DEF OwedParts
  <2>2. CASE i > Len(pending)
    <3>1. Owed[i] = queue[i - Len(pending)]
      BY <1>1, <2>2 DEF Owed
    <3>2. i - Len(pending) \in 1 .. Len(queue)
      BY <1>1, <2>2
    <3>3. queue[i - Len(pending)].seq
            = settled + Len(pending) + (i - Len(pending))
      BY <3>2 DEF OwedParts
    <3>4. QED
      BY <1>1, <3>1, <3>3
  <2>3. QED
    BY <1>1, <2>1, <2>2
<1>4. QED
  BY <1>1, <1>2, <1>3 DEF OwedInOrder, OwedParts

\* The inductive invariant: what is owed, and what is in flight, in one order.
\* The select loop takes from the channel only with the slot empty; without
\* that a frame of the channel could overtake the parked one.
SlotFlushed == phase = "serving" => pending = <<>>

FrameOrder == OwedParts /\ InFlightInOrder /\ SlotFlushed

\* One step of any actor keeps the order.
LEMMA FrameOrderStep ==
  TypeOK /\ TypeOK' /\ FrameOrder /\ [Next]_vars => FrameOrder'
<1> SUFFICES ASSUME TypeOK, TypeOK', FrameOrder, [Next]_vars
             PROVE  FrameOrder'
  OBVIOUS
<1> USE DEF agentVars, netVars, backendVars, history
<1>a. /\ pending \in Seq(Frame) /\ queue \in Seq(Frame) /\ wire \in Seq(Frame)
      /\ Len(pending) \in Nat /\ Len(queue) \in Nat /\ Len(wire) \in Nat
      /\ Len(pending) <= 1
      /\ settled \in Nat /\ emitted \in Nat /\ last \in Nat
      /\ \A i \in 1 .. Len(wire) : wire[i].seq \in Nat
      /\ DOMAIN wire = 1 .. Len(wire)
  <2>1. /\ pending \in Seq(Frame) /\ queue \in Seq(Frame) /\ wire \in Seq(Frame)
        /\ Len(pending) <= 1
        /\ settled \in Nat /\ emitted \in Nat /\ last \in Nat
    BY DEF TypeOK
  <2>2. \A i \in 1 .. Len(wire) : wire[i] \in Frame
    BY <2>1
  <2>3. \A i \in 1 .. Len(wire) : wire[i].seq \in Nat
    BY <2>2 DEF Frame
  <2>4. QED
    BY <2>1, <2>3
<1>b. /\ UNCHANGED <<pending, queue, wire, emitted, settled, last>>
      /\ phase' = "serving" => pending = <<>>
      => FrameOrder'
  BY DEF FrameOrder, OwedParts, InFlightInOrder, SlotFlushed
\* Emptying the wire keeps what is owed.
<1>c. /\ wire' = <<>>
      /\ UNCHANGED <<pending, queue, emitted, settled, last>>
      /\ phase' = "serving" => phase = "serving"
      => FrameOrder'
  <2> SUFFICES ASSUME wire' = <<>>,
                      UNCHANGED <<pending, queue, emitted, settled, last>>,
                      phase' = "serving" => phase = "serving"
               PROVE  FrameOrder'
    OBVIOUS
  <2>1. OwedParts' /\ SlotFlushed'
    BY DEF FrameOrder, OwedParts, SlotFlushed
  <2>2. DOMAIN wire' = {}
    OBVIOUS
  <2>3. last <= settled + Len(pending)
    BY DEF FrameOrder, InFlightInOrder
  <2>4. InFlightInOrder'
    BY <2>2, <2>3 DEF InFlightInOrder
  <2>5. QED
    BY <2>1, <2>4 DEF FrameOrder
\* A frame one past the last settled one may follow the frames in flight.
<1>d. ASSUME NEW m \in Frame, m.seq = settled + 1,
             wire' = Append(wire, m) \/ wire' = wire
      PROVE  /\ \A i, j \in DOMAIN wire' : i <= j => wire'[i].seq <= wire'[j].seq
             /\ \A i \in DOMAIN wire' : last <= wire'[i].seq
             /\ \A i \in DOMAIN wire' : wire'[i].seq <= settled + 1
             /\ last <= settled + 1
  <2>1. /\ \A i, j \in 1 .. Len(wire) : i <= j => wire[i].seq <= wire[j].seq
        /\ \A i \in 1 .. Len(wire) : last <= wire[i].seq
                                     /\ wire[i].seq <= settled + 1
        /\ last <= settled + 1
    BY <1>a DEF FrameOrder, InFlightInOrder
  <2>2. CASE wire' = wire
    BY <1>a, <2>1, <2>2
  <2>3. CASE wire' = Append(wire, m)
    <3>1. /\ Append(wire, m)[Len(wire) + 1] = m
          /\ \A i \in 1 .. Len(wire) : Append(wire, m)[i] = wire[i]
          /\ DOMAIN Append(wire, m) = 1 .. Len(wire) + 1
      BY <1>a, AppendOne
    <3>2. \A i \in 1 .. Len(wire) + 1 : i \in 1 .. Len(wire) \/ i = Len(wire) + 1
      BY <1>a
    <3>3. QED
      BY <1>a, <1>d, <2>1, <2>3, <3>1, <3>2
  <2>4. QED
    BY <1>d, <2>2, <2>3
<1>1. CASE ConnectOk
  BY <1>1, <1>c DEF ConnectOk
<1>2. CASE ConnectErr \/ Retry \/ FlushNothing \/ PingErr
  BY <1>2, <1>b DEF ConnectErr, Retry, FlushNothing, PingErr
<1>3. CASE FlushOk \/ FlushErr
  <2>1. /\ Head(pending) \in Frame /\ Head(pending) = pending[1]
        /\ Len(pending) = 1
    <3>1. pending # <<>>
      BY <1>3 DEF FlushOk, FlushErr
    <3>2. /\ Head(pending) \in Frame /\ Head(pending) = pending[1]
          /\ Len(pending) >= 1
      BY <1>a, <3>1, HeadTail
    <3>3. Len(pending) = 1
      BY <1>a, <3>1, OneParked
    <3>4. QED
      BY <3>2, <3>3, Zenon
  <2>2. Head(pending).seq = settled + 1
    BY <2>1 DEF FrameOrder, OwedParts
  <2>3. wire' = Append(wire, Head(pending)) \/ wire' = wire
    BY <1>3 DEF FlushOk, FlushErr, WriteOk, WriteErr
  <2>4. CASE FlushOk
    <3>1. settled' = settled + 1 /\ Len(pending') = 0
      BY <2>2, <2>4 DEF FlushOk, WriteOk
    <3>2. OwedParts'
      <4>1. queue' = queue /\ emitted' = emitted
        BY <2>4 DEF FlushOk
      <4>2. /\ emitted = settled + 1 + Len(queue)
            /\ \A i \in 1 .. Len(queue) : queue[i].seq = settled + 1 + i
        BY <2>1 DEF FrameOrder, OwedParts
      <4>3. QED
        BY <1>a, <3>1, <4>1, <4>2 DEF OwedParts
    <3>3. InFlightInOrder'
      BY <1>a, <1>d, <2>1, <2>2, <2>3, <2>4, <3>1 DEF FlushOk, InFlightInOrder
    <3>4. QED
      BY <2>4, <3>2, <3>3 DEF FlushOk, FrameOrder, SlotFlushed
  <2>5. CASE FlushErr
    <3>1. settled' = settled /\ Len(pending') = 1 /\ pending'[1] = Head(pending)
      BY <2>1, <2>5, One DEF FlushErr, WriteErr, Park
    <3>2. OwedParts'
      <4>1. queue' = queue /\ emitted' = emitted
        BY <2>5 DEF FlushErr
      <4>2. /\ emitted = settled + 1 + Len(queue)
            /\ \A i \in 1 .. Len(queue) : queue[i].seq = settled + 1 + i
        BY <2>1 DEF FrameOrder, OwedParts
      <4>3. QED
        <5>1. emitted' = settled' + Len(pending') + Len(queue')
          BY <3>1, <4>1, <4>2
        <5>2. \A i \in 1 .. Len(pending') : pending'[i].seq = settled' + i
          <6>1. \A i \in 1 .. 1 : i = 1
            OBVIOUS
          <6>2. QED
            BY <2>2, <3>1, <6>1
        <5>3. \A i \in 1 .. Len(queue') :
                queue'[i].seq = settled' + Len(pending') + i
          BY <3>1, <4>1, <4>2
        <5>4. QED
          BY <5>1, <5>2, <5>3 DEF OwedParts
    <3>3. InFlightInOrder'
      BY <1>a, <1>d, <2>1, <2>2, <2>3, <2>5, <3>1 DEF FlushErr, InFlightInOrder
    <3>4. QED
      BY <2>5, <3>2, <3>3 DEF FlushErr, Park, FrameOrder, SlotFlushed
  <2>6. QED
    BY <1>3, <2>4, <2>5
<1>4. CASE SendOk \/ SendErr
  <2>1. pending = <<>> /\ Len(pending) = 0
    BY <1>4 DEF SendOk, SendErr, FrameOrder, SlotFlushed
  <2>2. /\ Head(queue) \in Frame /\ Head(queue) = queue[1]
        /\ Len(queue) >= 1 /\ Len(queue') = Len(queue) - 1
        /\ \A i \in 1 .. Len(queue) - 1 : queue'[i] = queue[i + 1]
    BY <1>a, <1>4, HeadTail DEF SendOk, SendErr
  <2>3. Head(queue).seq = settled + 1
    BY <1>a, <2>1, <2>2 DEF FrameOrder, OwedParts
  <2>4. wire' = Append(wire, Head(queue)) \/ wire' = wire
    BY <1>4 DEF SendOk, SendErr, WriteOk, WriteErr
  <2>5. \A i \in 1 .. Len(queue) - 1 : queue'[i].seq = settled + 1 + i
    <3>1. \A i \in 1 .. Len(queue) - 1 : i + 1 \in 1 .. Len(queue)
      BY <1>a
    <3>2. \A i \in 1 .. Len(queue) - 1 : queue[i + 1].seq = settled + (i + 1)
      <4>1. \A k \in 1 .. Len(queue) : queue[k].seq = settled + 0 + k
        BY <2>1 DEF FrameOrder, OwedParts
      <4>2. \A k \in 1 .. Len(queue) : queue[k].seq = settled + k
        BY <1>a, <4>1
      <4>3. QED
        BY <3>1, <4>2
    <3>3. ASSUME NEW i \in 1 .. Len(queue) - 1
          PROVE  queue'[i].seq = settled + 1 + i
      <4>1. queue'[i].seq = settled + (i + 1)
        BY <2>2, <3>2
      <4>2. i \in Nat
        BY <1>a
      <4>3. QED
        BY <1>a, <4>1, <4>2
    <3>4. QED
      BY <3>3
  <2>6. CASE SendOk
    <3>1. settled' = settled + 1 /\ pending' = <<>> /\ Len(pending') = 0
      BY <2>1, <2>3, <2>6 DEF SendOk, WriteOk
    <3>2. OwedParts'
      BY <1>a, <2>1, <2>2, <2>5, <2>6, <3>1 DEF SendOk, FrameOrder, OwedParts
    <3>3. InFlightInOrder'
      BY <1>a, <1>d, <2>2, <2>3, <2>4, <2>6, <3>1 DEF SendOk, InFlightInOrder
    <3>4. QED
      BY <3>1, <3>2, <3>3 DEF FrameOrder, SlotFlushed
  <2>7. CASE SendErr
    <3>1. settled' = settled /\ Len(pending') = 1 /\ pending'[1] = Head(queue)
      BY <2>2, <2>7, One DEF SendErr, WriteErr, Park
    <3>2. OwedParts'
      BY <1>a, <2>1, <2>2, <2>3, <2>5, <2>7, <3>1
         DEF SendErr, FrameOrder, OwedParts
    <3>3. InFlightInOrder'
      BY <1>a, <1>d, <2>2, <2>3, <2>4, <2>7, <3>1 DEF SendErr, InFlightInOrder
    <3>4. QED
      BY <2>7, <3>2, <3>3 DEF SendErr, Park, FrameOrder, SlotFlushed
  <2>8. QED
    BY <1>4, <2>6, <2>7
<1>5. CASE Read
  BY <1>5, <1>b DEF Read, ReadCommand, ReadNoise, ReadClose, ReadSuperseded,
                    ReadEnd, FrameOrder, SlotFlushed
<1>6. ASSUME NEW r, NEW from, NEW to, NEW state, Report(r, from, to, state)
      PROVE  FrameOrder'
  <2>1. /\ UNCHANGED <<pending, wire, last, settled, phase>>
        /\ emitted' = emitted + 1
        /\ queue' = Append(queue, [seq |-> emitted + 1, job |-> tasks[r].job,
                                   state |-> state])
    BY <1>6 DEF Report
  <2>2. queue' \in Seq(Frame)
    BY DEF TypeOK
  <2>3. /\ Len(queue') = Len(queue) + 1
        /\ queue'[Len(queue) + 1].seq = emitted + 1
        /\ \A i \in 1 .. Len(queue) : queue'[i] = queue[i]
    BY <1>a, <2>1
  <2>4. \A i \in 1 .. Len(queue) + 1 : i \in 1 .. Len(queue) \/ i = Len(queue) + 1
    BY <1>a
  <2>5. OwedParts'
    <3>1. /\ emitted = settled + Len(pending) + Len(queue)
          /\ \A i \in 1 .. Len(pending) : pending[i].seq = settled + i
          /\ \A i \in 1 .. Len(queue) :
               queue[i].seq = settled + Len(pending) + i
      BY DEF FrameOrder, OwedParts
    <3>2. \A i \in 1 .. Len(queue) + 1 :
            queue'[i].seq = settled + Len(pending) + i
      <4>1. ASSUME NEW i \in 1 .. Len(queue)
            PROVE  queue'[i].seq = settled + Len(pending) + i
        BY <2>3, <3>1
      <4>2. queue'[Len(queue) + 1].seq = settled + Len(pending) + (Len(queue) + 1)
        BY <1>a, <2>3, <3>1
      <4>3. QED
        BY <2>4, <4>1, <4>2
    <3>3. QED
      <4>1. emitted' = settled' + Len(pending') + Len(queue')
        BY <1>a, <2>1, <2>3, <3>1
      <4>2. \A i \in 1 .. Len(pending') : pending'[i].seq = settled' + i
        BY <2>1, <3>1
      <4>3. \A i \in 1 .. Len(queue') :
              queue'[i].seq = settled' + Len(pending') + i
        BY <2>1, <2>3, <3>2
      <4>4. QED
        BY <4>1, <4>2, <4>3 DEF OwedParts
  <2>6. QED
    BY <2>1, <2>5 DEF FrameOrder, InFlightInOrder, SlotFlushed
<1>7. ASSUME NEW r \in DOMAIN tasks, RunTask(r) \/ EndTask(r)
      PROVE  FrameOrder'
  <2>1. CASE Begin(r)
    BY <2>1, <1>b DEF Begin, FrameOrder, SlotFlushed
  <2>2. CASE Reject(r) \/ Start(r) \/ EndTask(r)
    BY <2>2, <1>6 DEF Reject, Start, EndTask, ShellDone, ShellFail
  <2>3. QED
    BY <1>7, <2>1, <2>2 DEF RunTask
<1>8. CASE Crash
  <2>1. /\ Len(pending') = 0 /\ Len(queue') = 0 /\ settled' = emitted
        /\ emitted' = emitted /\ wire' = wire /\ last' = last /\ phase' = "down"
    BY <1>8 DEF Crash
  <2>2. settled + Len(pending) <= emitted
    BY <1>a DEF FrameOrder, OwedParts
  <2>3. OwedParts'
    BY <1>a, <2>1 DEF OwedParts
  <2>4. InFlightInOrder'
    BY <1>a, <2>1, <2>2 DEF FrameOrder, InFlightInOrder
  <2>5. QED
    BY <2>1, <2>3, <2>4 DEF FrameOrder, SlotFlushed
<1>9. CASE Restart \/ Cut
  BY <1>9, <1>b DEF Restart, Cut, FrameOrder, SlotFlushed
<1>10. CASE LoseWire \/ \E c \in {"close", "superseded"} : BackendClose(c)
  BY <1>10, <1>c DEF LoseWire, BackendClose
<1>11. CASE Deliver
  <2>1. /\ Head(wire) = wire[1] /\ Len(wire) >= 1
        /\ wire' \in Seq(Frame) /\ Len(wire') = Len(wire) - 1
        /\ \A i \in 1 .. Len(wire) - 1 : wire'[i] = wire[i + 1]
        /\ DOMAIN wire' = 1 .. Len(wire) - 1
    BY <1>a, <1>11, HeadTail DEF Deliver
  <2>2. \A i \in 1 .. Len(wire) - 1 : i + 1 \in 1 .. Len(wire)
    BY <1>a
  <2>3. last' = wire[1].seq /\ 1 \in 1 .. Len(wire)
    BY <1>11, <1>a, <2>1 DEF Deliver
  <2>4. UNCHANGED <<pending, queue, settled, emitted, phase>>
    BY <1>11 DEF Deliver
  <2>5. InFlightInOrder'
    <3>1. /\ \A i, j \in 1 .. Len(wire) : i <= j => wire[i].seq <= wire[j].seq
          /\ \A i \in 1 .. Len(wire) : wire[i].seq <= settled + Len(pending)
      BY <1>a DEF FrameOrder, InFlightInOrder
    <3>2. \A i, j \in 1 .. Len(wire) - 1 :
            i <= j => wire[i + 1].seq <= wire[j + 1].seq
      BY <1>a, <2>2, <3>1
    <3>3. \A i \in 1 .. Len(wire) - 1 :
            /\ wire[1].seq <= wire[i + 1].seq
            /\ wire[i + 1].seq <= settled + Len(pending)
      BY <1>a, <2>2, <2>3, <3>1
    <3>4. wire[1].seq <= settled + Len(pending)
      BY <2>3, <3>1
    <3>5. QED
      BY <2>1, <2>3, <2>4, <3>2, <3>3, <3>4 DEF InFlightInOrder
  <2>6. QED
    BY <2>4, <2>5 DEF FrameOrder, OwedParts, SlotFlushed
<1>12. CASE BackendNoise \/ \E j \in Jobs : BackendCommand(j)
  BY <1>12, <1>b DEF BackendNoise, BackendCommand, FrameOrder, SlotFlushed
<1>13. CASE UNCHANGED vars
  BY <1>13, <1>b DEF vars, FrameOrder, SlotFlushed
<1>14. QED
  BY <1>1, <1>2, <1>3, <1>4, <1>5, <1>7, <1>8, <1>9, <1>10, <1>11, <1>12, <1>13
     DEF Next, Connection, Outbound, Process, Network, Backend

\* The order holds in every reachable state.
LEMMA FrameOrderHolds == Spec => []FrameOrder
<1>1. Init => FrameOrder
  BY DEF Init, FrameOrder, OwedParts, InFlightInOrder, SlotFlushed
<1>2. QED
  BY <1>1, FrameOrderStep, TypeCorrect, PTL DEF Spec

\* The agent loses no frame and reorders none between a handler's report and
\* a successful write, whatever fails in between.
THEOREM OwedFramesInOrder == Spec => []OwedInOrder
<1>1. TypeOK /\ FrameOrder => OwedInOrder
  BY OwedWhole DEF FrameOrder
<1>2. QED
  BY <1>1, TypeCorrect, FrameOrderHolds, PTL

\* No frame in flight overtakes another.
THEOREM FramesInFlightInOrder == Spec => []InFlightInOrder
<1>1. FrameOrder => InFlightInOrder
  BY DEF FrameOrder
<1>2. QED
  BY <1>1, FrameOrderHolds, PTL

\* The backend receives frames in the order they were emitted.
THEOREM BackendReceivesInOrder == Spec => InOrder
<1>1. TypeOK /\ FrameOrder /\ [Next]_vars => [last' >= last]_last
  <2> SUFFICES ASSUME TypeOK, FrameOrder, [Next]_vars, last' # last
               PROVE  last' >= last
    OBVIOUS
  <2> USE DEF agentVars, netVars, backendVars, history
  <2>1. Deliver
    BY DEF Next, vars, Connection, Outbound, Read, RunTask, EndTask, Process,
           Network, Backend, ConnectOk, ConnectErr, Retry, FlushNothing, FlushOk,
           FlushErr, SendOk, SendErr, PingErr, ReadCommand, ReadNoise, ReadClose,
           ReadSuperseded, ReadEnd, Begin, Reject, Start, ShellDone, ShellFail,
           Report, Crash, Restart, Cut, LoseWire, BackendCommand, BackendNoise,
           BackendClose
  <2>2. last' = wire[1].seq /\ 1 \in DOMAIN wire
    BY <2>1, HeadTail DEF Deliver, TypeOK
  <2>3. wire[1].seq \in Nat /\ last \in Nat
    <3>1. wire[1] \in Frame
      BY <2>2 DEF TypeOK
    <3>2. QED
      BY <3>1 DEF TypeOK, Frame
  <2>4. QED
    BY <2>2, <2>3 DEF FrameOrder, InFlightInOrder
<1>2. QED
  BY <1>1, TypeCorrect, FrameOrderHolds, PTL DEF Spec, InOrder
=============================================================================
