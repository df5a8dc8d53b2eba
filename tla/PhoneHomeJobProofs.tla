-------------------------- MODULE PhoneHomeJobProofs --------------------------
(***************************************************************************)
(* What the backend believes of a job, proved for any number of jobs,      *)
(* pool threads, deliveries and crashes: it never sees a job concluded     *)
(* whose handler did not end on the agent; and, if every command is sent   *)
(* once, what it sees of a job is the feed that module ResultFeed states.  *)
(***************************************************************************)
EXTENDS PhoneHomeProofs

Finished(j) == \E r \in DOMAIN tasks : tasks[r].job = j /\ tasks[r].pc = "finished"

\* A frame that says its job is concluded says the truth.
Truthful(m) == m.state \in Terminal => Finished(m.job)

\* The inductive invariant: the frames on their way say the truth as well, in
\* whichever of their three places they are.
OnTheWay == {pending[i] : i \in 1 .. Len(pending)}
            \cup {queue[i] : i \in 1 .. Len(queue)}
            \cup {wire[i] : i \in 1 .. Len(wire)}

FramesTruthful == (\A m \in OnTheWay : Truthful(m)) /\ ConcludedJobsFinished

-----------------------------------------------------------------------------
\* A handler that has ended has ended for good: neither a command read, nor a
\* step of another handler, nor the death of the process takes it back.
LEMMA FinishedStays ==
  ASSUME TypeOK, [Next]_vars, NEW j, Finished(j)
  PROVE  Finished(j)'
<1> USE DEF agentVars, netVars, backendVars, history
<1>1. PICK r \in DOMAIN tasks : tasks[r].job = j /\ tasks[r].pc = "finished"
  BY DEF Finished
<1>2. /\ tasks \in Seq(Task) /\ DOMAIN tasks = 1 .. Len(tasks)
      /\ Len(tasks) \in Nat /\ tasks[r] \in Task
  BY <1>1 DEF TypeOK
<1>3. ASSUME r \in DOMAIN tasks', tasks'[r] = tasks[r] PROVE Finished(j)'
  BY <1>1, <1>3 DEF Finished
<1>4. CASE UNCHANGED tasks
  BY <1>1, <1>4, <1>3
<1>5. CASE ReadCommand
  <2>1. [job |-> Head(inbound), pc |-> "queued"] \in Task
    BY <1>5 DEF ReadCommand, Task
  <2>2. r \in DOMAIN tasks' /\ tasks'[r] = tasks[r]
    BY <1>1, <1>2, <1>5, <2>1, AppendOne DEF ReadCommand
  <2>3. QED
    BY <2>2, <1>3
<1>6. ASSUME NEW q \in DOMAIN tasks, RunTask(q) \/ EndTask(q)
      PROVE  Finished(j)'
  <2>1. PICK to : /\ tasks[q].pc # "finished"
                  /\ tasks' = [tasks EXCEPT ![q].pc = to]
    <3>1. CASE Begin(q)
      BY <3>1 DEF Begin
    <3>2. CASE Reject(q)
      BY <3>2 DEF Reject, Report
    <3>3. CASE Start(q)
      BY <3>3 DEF Start, Report
    <3>4. CASE EndTask(q)
      BY <3>4 DEF EndTask, ShellDone, ShellFail, Report
    <3>5. QED
      BY <1>6, <3>1, <3>2, <3>3, <3>4 DEF RunTask
  <2>2. q # r
    BY <1>1, <2>1
  <2>3. r \in DOMAIN tasks' /\ tasks'[r] = tasks[r]
    BY <1>1, <1>2, <2>1, <2>2
  <2>4. QED
    BY <2>3, <1>3
<1>7. CASE Crash
  <2>1. tasks' = [q \in DOMAIN tasks |->
                   [tasks[q] EXCEPT !.pc = IF @ = "finished" THEN @ ELSE "killed"]]
    BY <1>7 DEF Crash
  <2>2. tasks'[r] = [tasks[r] EXCEPT !.pc = IF @ = "finished" THEN @ ELSE "killed"]
        /\ r \in DOMAIN tasks'
    BY <1>1, <2>1
  <2>3. tasks'[r].job = j /\ tasks'[r].pc = "finished"
    BY <1>1, <1>2, <2>2 DEF Task
  <2>4. QED
    BY <2>2, <2>3 DEF Finished
<1>8. CASE Connection \/ Outbound
  BY <1>8, <1>4 DEF Connection, Outbound, ConnectOk, ConnectErr, Retry,
     FlushNothing, FlushOk, FlushErr, SendOk, SendErr, PingErr
<1>9. CASE ReadNoise \/ ReadClose \/ ReadSuperseded \/ ReadEnd
  BY <1>9, <1>4 DEF ReadNoise, ReadClose, ReadSuperseded, ReadEnd
<1>10. CASE Restart \/ Network \/ Backend
  BY <1>10, <1>4 DEF Restart, Network, Cut, LoseWire, Deliver, Backend,
     BackendCommand, BackendNoise, BackendClose
<1>11. CASE UNCHANGED vars
  BY <1>11, <1>4 DEF vars
<1>12. QED
  BY <1>5, <1>6, <1>7, <1>8, <1>9, <1>10, <1>11 DEF Next, Read, Process

\* What was true of a frame stays true.
LEMMA TruthStays ==
  ASSUME TypeOK, [Next]_vars, NEW m, Truthful(m)
  PROVE  m.state \in Terminal => Finished(m.job)'
BY FinishedStays DEF Truthful

-----------------------------------------------------------------------------
\* A report puts one frame on its way, numbered after all the others.
LEMMA ReportAdds ==
  ASSUME TypeOK, NEW r, NEW from, NEW to, NEW state \in Status,
         Report(r, from, to, state)
  PROVE  \E m \in Frame : /\ m.job = tasks[r].job /\ m.state = state
                          /\ m.seq = emitted + 1
                          /\ OnTheWay' \subseteq OnTheWay \cup {m}
<1>1. r \in 1 .. Len(tasks) /\ tasks[r] \in Task /\ tasks \in Seq(Task)
  BY DEF Report, TypeOK
<1>2. PICK m \in Frame : /\ m.job = tasks[r].job /\ m.state = state
                         /\ m.seq = emitted + 1
                         /\ queue' = Append(queue, m)
  <2>1. [seq |-> emitted + 1, job |-> tasks[r].job, state |-> state] \in Frame
    BY <1>1 DEF TypeOK, Task, Frame
  <2>2. QED
    BY <2>1 DEF Report
<1>3. queue \in Seq(Frame) /\ UNCHANGED <<pending, wire>>
  BY DEF Report, netVars, TypeOK
<1>4. ASSUME NEW i \in 1 .. Len(queue')
      PROVE  queue'[i] \in OnTheWay \cup {m}
  <2>1. Len(queue') = Len(queue) + 1 /\ Len(queue) \in Nat
    BY <1>2, <1>3, AppendOne
  <2>2. CASE i = Len(queue) + 1
    BY <1>2, <1>3, <2>2, AppendOne
  <2>3. CASE i \in 1 .. Len(queue)
    <3>1. queue'[i] = queue[i]
      BY <1>2, <1>3, <2>3, AppendOne
    <3>2. QED
      BY <2>3, <3>1 DEF OnTheWay
  <2>4. QED
    BY <2>1, <2>2, <2>3
<1>5. OnTheWay' \subseteq OnTheWay \cup {m}
  BY <1>3, <1>4 DEF OnTheWay
<1>6. QED
  BY <1>2, <1>5

\* A report: the new frame says "done" or "error" only as its handler ends.
LEMMA ReportTruthful ==
  ASSUME TypeOK, FramesTruthful, [Next]_vars, NEW r, NEW from,
         NEW to \in {"shell", "finished"}, NEW state \in Status,
         Report(r, from, to, state), state \in Terminal => to = "finished"
  PROVE  FramesTruthful'
<1>1. r \in 1 .. Len(tasks) /\ tasks[r] \in Task /\ tasks \in Seq(Task)
  BY DEF Report, TypeOK
<1>2. PICK m \in Frame : /\ m.job = tasks[r].job /\ m.state = state
                         /\ OnTheWay' \subseteq OnTheWay \cup {m}
  BY ReportAdds
<1>3. UNCHANGED view
  BY DEF Report, backendVars
<1>4. ASSUME m.state \in Terminal PROVE Finished(m.job)'
  <2>1. tasks' = [tasks EXCEPT ![r].pc = "finished"]
    BY <1>2, <1>4 DEF Report
  <2>2. /\ r \in DOMAIN tasks'
        /\ tasks'[r] = [tasks[r] EXCEPT !.pc = "finished"]
    BY <1>1, <2>1
  <2>3. tasks'[r].job = m.job /\ tasks'[r].pc = "finished"
    BY <1>1, <1>2, <2>2 DEF Task
  <2>4. QED
    BY <2>2, <2>3 DEF Finished
<1>5. ASSUME NEW n \in OnTheWay' PROVE Truthful(n)'
  <2>1. CASE n = m
    <3>1. m.state \in Terminal => Finished(m.job)'
      BY <1>4
    <3>2. QED
      BY <2>1, <3>1 DEF Truthful
  <2>2. CASE n \in OnTheWay
    BY <2>2, TruthStays DEF FramesTruthful, Truthful
  <2>3. QED
    BY <1>2, <2>1, <2>2
<1>6. ASSUME NEW j \in Jobs, view'[j] \in Terminal PROVE Finished(j)'
  <2>1. Finished(j)
    BY <1>3, <1>6 DEF FramesTruthful, ConcludedJobsFinished, Finished
  <2>2. QED
    BY <2>1, FinishedStays
<1>7. QED
  BY <1>5, <1>6 DEF FramesTruthful, ConcludedJobsFinished, Finished

\* A step that puts no new frame on its way and tells the backend nothing.
LEMMA NothingNew ==
  ASSUME TypeOK, FramesTruthful, [Next]_vars,
         OnTheWay' \subseteq OnTheWay, UNCHANGED view
  PROVE  FramesTruthful'
<1>1. ASSUME NEW n \in OnTheWay' PROVE Truthful(n)'
  <2>1. n \in OnTheWay
    OBVIOUS
  <2>2. QED
    BY <2>1, TruthStays DEF FramesTruthful, Truthful
<1>2. ASSUME NEW j \in Jobs, view'[j] \in Terminal PROVE Finished(j)'
  <2>1. Finished(j)
    BY <1>2 DEF FramesTruthful, ConcludedJobsFinished, Finished
  <2>2. QED
    BY <2>1, FinishedStays
<1>3. QED
  BY <1>1, <1>2 DEF FramesTruthful, ConcludedJobsFinished, Finished

\* Writing a frame, or failing to, moves it between its places.
LEMMA WriteKeeps ==
  ASSUME TypeOK, FlushOk \/ FlushErr \/ SendOk \/ SendErr
  PROVE  OnTheWay' \subseteq OnTheWay
<1>1. /\ pending \in Seq(Frame) /\ queue \in Seq(Frame) /\ wire \in Seq(Frame)
      /\ Len(pending) \in Nat /\ Len(queue) \in Nat /\ Len(wire) \in Nat
  BY DEF TypeOK
<1>2. PICK m \in Frame : /\ m \in OnTheWay
                         /\ wire' = wire \/ wire' = Append(wire, m)
                         /\ pending' = pending \/ pending' = <<>> \/ pending' = <<m>>
                         /\ queue' = queue \/ (queue # <<>> /\ queue' = Tail(queue))
  <2>1. CASE FlushOk \/ FlushErr
    <3>1. /\ Head(pending) \in Frame /\ Head(pending) = pending[1]
          /\ Len(pending) >= 1
      BY <1>1, <2>1, HeadTail DEF FlushOk, FlushErr
    <3>2. Head(pending) \in OnTheWay
      BY <1>1, <3>1 DEF OnTheWay
    <3>3. QED
      BY <2>1, <3>1, <3>2 DEF FlushOk, FlushErr, WriteOk, WriteErr, Park
  <2>2. CASE SendOk \/ SendErr
    <3>1. /\ Head(queue) \in Frame /\ Head(queue) = queue[1]
          /\ Len(queue) >= 1
      BY <1>1, <2>2, HeadTail DEF SendOk, SendErr
    <3>2. Head(queue) \in OnTheWay
      BY <1>1, <3>1 DEF OnTheWay
    <3>3. QED
      BY <2>2, <3>1, <3>2 DEF SendOk, SendErr, WriteOk, WriteErr, Park
  <2>3. QED
    BY <2>1, <2>2
<1>3. ASSUME NEW i \in 1 .. Len(wire') PROVE wire'[i] \in OnTheWay
  <2>1. CASE wire' = wire
    BY <2>1 DEF OnTheWay
  <2>2. CASE wire' = Append(wire, m)
    <3>1. Len(wire') = Len(wire) + 1
      BY <1>1, <2>2, AppendOne
    <3>2. CASE i = Len(wire) + 1
      BY <1>1, <1>2, <2>2, <3>2, AppendOne
    <3>3. CASE i \in 1 .. Len(wire)
      <4>1. wire'[i] = wire[i]
        BY <1>1, <2>2, <3>3, AppendOne
      <4>2. QED
        BY <3>3, <4>1 DEF OnTheWay
    <3>4. QED
      BY <1>1, <3>1, <3>2, <3>3
  <2>3. QED
    BY <1>2, <2>1, <2>2
<1>4. ASSUME NEW i \in 1 .. Len(pending') PROVE pending'[i] \in OnTheWay
  <2>1. CASE pending' = pending
    BY <2>1 DEF OnTheWay
  <2>2. CASE pending' = <<>>
    BY <2>2
  <2>3. CASE pending' = <<m>>
    <3>1. i = 1 /\ pending'[i] = m
      BY <2>3, One
    <3>2. QED
      BY <1>2, <3>1
  <2>4. QED
    BY <1>2, <2>1, <2>2, <2>3
<1>5. ASSUME NEW i \in 1 .. Len(queue') PROVE queue'[i] \in OnTheWay
  <2>1. CASE queue' = queue
    BY <2>1 DEF OnTheWay
  <2>2. CASE queue # <<>> /\ queue' = Tail(queue)
    <3>1. /\ Len(queue') = Len(queue) - 1
          /\ \A k \in 1 .. Len(queue) - 1 : queue'[k] = queue[k + 1]
      BY <1>1, <2>2, HeadTail
    <3>2. i + 1 \in 1 .. Len(queue) /\ queue'[i] = queue[i + 1]
      BY <1>1, <3>1
    <3>3. QED
      BY <3>2 DEF OnTheWay
  <2>3. QED
    BY <1>2, <2>1, <2>2
<1>6. QED
  BY <1>3, <1>4, <1>5 DEF OnTheWay

\* One step of any actor keeps the frames truthful.
LEMMA FramesTruthfulStep ==
  TypeOK /\ FramesTruthful /\ [Next]_vars => FramesTruthful'
<1> SUFFICES ASSUME TypeOK, FramesTruthful, [Next]_vars
             PROVE  FramesTruthful'
  OBVIOUS
<1> USE DEF agentVars, netVars, backendVars, history
<1>a. /\ pending \in Seq(Frame) /\ queue \in Seq(Frame) /\ wire \in Seq(Frame)
      /\ Len(wire) \in Nat
  BY DEF TypeOK
<1>b. ASSUME UNCHANGED <<pending, queue, view>>, wire' = wire \/ wire' = <<>>
      PROVE  FramesTruthful'
  <2>1. OnTheWay' \subseteq OnTheWay
    BY <1>b DEF OnTheWay
  <2>2. QED
    BY <1>b, <2>1, NothingNew
<1>1. CASE Connection
  BY <1>1, <1>b DEF Connection, ConnectOk, ConnectErr, Retry
<1>2. CASE FlushNothing \/ PingErr
  BY <1>2, <1>b DEF FlushNothing, PingErr
<1>3. CASE FlushOk \/ FlushErr \/ SendOk \/ SendErr
  <2>1. UNCHANGED view
    BY <1>3 DEF FlushOk, FlushErr, SendOk, SendErr
  <2>2. QED
    BY <1>3, <2>1, WriteKeeps, NothingNew
<1>4. CASE Read
  BY <1>4, <1>b DEF Read, ReadCommand, ReadNoise, ReadClose, ReadSuperseded,
                    ReadEnd
<1>5. ASSUME NEW r \in DOMAIN tasks, RunTask(r) \/ EndTask(r)
      PROVE  FramesTruthful'
  <2>1. CASE Begin(r)
    BY <2>1, <1>b DEF Begin
  <2>2. CASE Reject(r)
    BY <2>2, ReportTruthful DEF Reject, Status, Terminal
  <2>3. CASE Start(r)
    BY <2>3, ReportTruthful DEF Start, Status, Terminal
  <2>4. CASE ShellDone(r)
    BY <2>4, ReportTruthful DEF ShellDone, Status, Terminal
  <2>5. CASE ShellFail(r)
    BY <2>5, ReportTruthful DEF ShellFail, Status, Terminal
  <2>6. QED
    BY <1>5, <2>1, <2>2, <2>3, <2>4, <2>5 DEF RunTask, EndTask
<1>6. CASE Crash
  <2>1. pending' = <<>> /\ queue' = <<>> /\ wire' = wire /\ view' = view
    BY <1>6 DEF Crash
  <2>2. OnTheWay' \subseteq OnTheWay
    BY <2>1 DEF OnTheWay
  <2>3. QED
    BY <2>1, <2>2, NothingNew
<1>7. CASE Restart \/ Cut \/ LoseWire
  BY <1>7, <1>b DEF Restart, Cut, LoseWire
<1>8. CASE Deliver
  <2>1. /\ Head(wire) \in Frame /\ Head(wire) = wire[1] /\ Len(wire) >= 1
        /\ Len(wire') = Len(wire) - 1
        /\ \A i \in 1 .. Len(wire) - 1 : wire'[i] = wire[i + 1]
    BY <1>8, <1>a, HeadTail DEF Deliver
  <2>a. PICK m \in Frame : m = Head(wire) /\ m \in OnTheWay
    BY <1>a, <2>1 DEF OnTheWay
  <2>2. \A i \in 1 .. Len(wire) - 1 : wire'[i] \in OnTheWay
    <3>1. \A i \in 1 .. Len(wire) - 1 : i + 1 \in 1 .. Len(wire)
      BY <1>a
    <3>2. QED
      BY <2>1, <3>1 DEF OnTheWay
  <2>3. ASSUME NEW n \in OnTheWay' PROVE Truthful(n)'
    <3>1. n \in OnTheWay
      BY <1>8, <2>1, <2>2 DEF Deliver, OnTheWay
    <3>2. QED
      BY <3>1, TruthStays DEF FramesTruthful, Truthful
  <2>4. ASSUME NEW j \in Jobs, view'[j] \in Terminal PROVE Finished(j)'
    <3>1. CASE j = m.job
      <4>1. view'[j] = m.state
        BY <1>8, <2>a, <3>1 DEF Deliver, TypeOK
      <4>2. Truthful(m)
        BY <2>a DEF FramesTruthful
      <4>3. m.state \in Terminal => Finished(m.job)'
        BY <4>2, TruthStays
      <4>4. QED
        BY <2>4, <3>1, <4>1, <4>3
    <3>2. CASE j # m.job
      <4>1. view'[j] = view[j]
        BY <1>8, <2>a, <3>2 DEF Deliver, TypeOK
      <4>2. Finished(j)
        BY <2>4, <4>1 DEF FramesTruthful, ConcludedJobsFinished, Finished
      <4>3. QED
        BY <4>2, FinishedStays
    <3>3. QED
      BY <3>1, <3>2
  <2>5. QED
    BY <2>3, <2>4 DEF FramesTruthful, ConcludedJobsFinished, Finished
<1>9. CASE Backend
  BY <1>9, <1>b DEF Backend, BackendCommand, BackendNoise, BackendClose
<1>10. CASE UNCHANGED vars
  BY <1>10, <1>b DEF vars
<1>11. QED
  BY <1>1, <1>2, <1>3, <1>4, <1>5, <1>6, <1>7, <1>8, <1>9, <1>10
     DEF Next, Outbound, Process, Network

\* The frames of a job say the truth in every reachable state.
LEMMA FramesTruthfulHolds == Spec => []FramesTruthful
<1>1. Init => FramesTruthful
  BY DEF Init, FramesTruthful, OnTheWay, ConcludedJobsFinished, Terminal
<1>2. QED
  BY <1>1, FramesTruthfulStep, TypeCorrect, PTL DEF Spec

\* A job the backend sees concluded is one whose handler ended on the agent,
\* however often its command is delivered, whatever dies or is lost on the way.
THEOREM ConcludedJobsDidFinish == Spec => []ConcludedJobsFinished
<1>1. FramesTruthful => ConcludedJobsFinished
  BY DEF FramesTruthful
<1>2. QED
  BY <1>1, FramesTruthfulHolds, PTL

-----------------------------------------------------------------------------
(* The feed of a job whose command is sent once: module ResultFeed.        *)

\* A job has one task at most, and none while its command is unread or unsent.
OneEach ==
  /\ \A j \in Jobs : dispatched[j] = 0 =>
       /\ \A i \in 1 .. Len(inbound) : inbound[i] # j
       /\ \A r \in 1 .. Len(tasks) : tasks[r].job # j
  /\ \A i, k \in 1 .. Len(inbound) : inbound[i] \in Jobs /\ inbound[i] = inbound[k] => i = k
  /\ \A i \in 1 .. Len(inbound), r \in 1 .. Len(tasks) : tasks[r].job # inbound[i]
  /\ \A q, r \in 1 .. Len(tasks) : tasks[q].job = tasks[r].job => q = r

\* A step that reads no command and sends none: nothing enters the inbound
\* frames but what is no command, and the tasks stay those of their jobs.
LEMMA NoCommand ==
  ASSUME TypeOK, OneEach, UNCHANGED dispatched,
         Len(tasks') = Len(tasks),
         \A r \in 1 .. Len(tasks) : tasks'[r].job = tasks[r].job,
         NEW d \in Nat,
         \A i \in 1 .. Len(inbound') : inbound'[i] \in Jobs =>
           i + d \in 1 .. Len(inbound) /\ inbound'[i] = inbound[i + d]
  PROVE  OneEach'
<1>1. Len(tasks) \in Nat /\ \A r \in 1 .. Len(tasks) : tasks[r].job \in Jobs
  <2>1. tasks \in Seq(Task)
    BY DEF TypeOK
  <2>2. \A r \in 1 .. Len(tasks) : tasks[r] \in Task
    BY <2>1
  <2>3. QED
    BY <2>1, <2>2 DEF Task
<1>2. ASSUME NEW j \in Jobs, dispatched[j] = 0
      PROVE  /\ \A i \in 1 .. Len(inbound') : inbound'[i] # j
             /\ \A r \in 1 .. Len(tasks') : tasks'[r].job # j
  BY <1>2 DEF OneEach
<1>3. ASSUME NEW i \in 1 .. Len(inbound'), NEW k \in 1 .. Len(inbound'),
             inbound'[i] \in Jobs, inbound'[i] = inbound'[k]
      PROVE  i = k
  <2>1. /\ i + d \in 1 .. Len(inbound) /\ k + d \in 1 .. Len(inbound)
        /\ inbound[i + d] \in Jobs /\ inbound[i + d] = inbound[k + d]
    BY <1>3
  <2>2. i + d = k + d
    BY <2>1 DEF OneEach
  <2>3. QED
    BY <2>2
<1>4. ASSUME NEW i \in 1 .. Len(inbound'), NEW r \in 1 .. Len(tasks')
      PROVE  tasks'[r].job # inbound'[i]
  BY <1>1 DEF OneEach
<1>5. ASSUME NEW q \in 1 .. Len(tasks'), NEW r \in 1 .. Len(tasks'),
             tasks'[q].job = tasks'[r].job
      PROVE  q = r
  BY <1>5 DEF OneEach
<1>6. QED
  BY <1>2, <1>3, <1>4, <1>5 DEF OneEach

\* Every step keeps it, when the backend sends each command once.
LEMMA OneEachStep ==
  ASSUME MaxDispatch = 1
  PROVE  TypeOK /\ OneEach /\ [Next]_vars => OneEach'
<1> SUFFICES ASSUME TypeOK, OneEach, [Next]_vars PROVE OneEach'
  OBVIOUS
<1> USE DEF agentVars, netVars, backendVars, history
<1>a. /\ inbound \in Seq(Jobs \cup Control) /\ Len(inbound) \in Nat
      /\ tasks \in Seq(Task) /\ Len(tasks) \in Nat /\ DOMAIN tasks = 1 .. Len(tasks)
  BY DEF TypeOK
<1>b. \A c \in Control : c \notin Jobs
  BY ConstantsAssumption
<1>c. ASSUME UNCHANGED <<inbound, tasks, dispatched>> PROVE OneEach'
  BY <1>c DEF OneEach
<1>d. ASSUME UNCHANGED <<tasks, dispatched>>, inbound # <<>>, inbound' = Tail(inbound)
      PROVE  OneEach'
  <2>1. /\ Len(inbound') = Len(inbound) - 1
        /\ \A i \in 1 .. Len(inbound) - 1 : inbound'[i] = inbound[i + 1]
    BY <1>a, <1>d, HeadTail
  <2>2. \A i \in 1 .. Len(inbound') : i + 1 \in 1 .. Len(inbound) /\ inbound'[i] = inbound[i + 1]
    BY <1>a, <2>1
  <2>3. 1 \in Nat
    OBVIOUS
  <2>4. QED
    BY <1>d, <2>2, <2>3, NoCommand
<1>e. ASSUME UNCHANGED <<tasks, dispatched>>, NEW c \in Control, inbound' = Append(inbound, c)
      PROVE  OneEach'
  <2>1. /\ Len(inbound') = Len(inbound) + 1
        /\ inbound'[Len(inbound) + 1] = c
        /\ \A i \in 1 .. Len(inbound) : inbound'[i] = inbound[i]
    BY <1>a, <1>e, AppendOne
  <2>2. \A i \in 1 .. Len(inbound') : inbound'[i] \in Jobs =>
          i + 0 \in 1 .. Len(inbound) /\ inbound'[i] = inbound[i + 0]
    BY <1>a, <1>b, <2>1
  <2>3. 0 \in Nat
    OBVIOUS
  <2>4. QED
    BY <1>e, <2>2, <2>3, NoCommand
<1>f. ASSUME UNCHANGED dispatched,
             \A i \in 1 .. Len(inbound') : i \in 1 .. Len(inbound) /\ inbound'[i] = inbound[i],
             Len(tasks') = Len(tasks), \A r \in 1 .. Len(tasks) : tasks'[r].job = tasks[r].job
      PROVE  OneEach'
  <2>1. \A i \in 1 .. Len(inbound') : inbound'[i] \in Jobs =>
          i + 0 \in 1 .. Len(inbound) /\ inbound'[i] = inbound[i + 0]
    BY <1>f
  <2>2. 0 \in Nat
    OBVIOUS
  <2>3. QED
    BY <1>f, <2>1, <2>2, NoCommand
<1>1. CASE Connection
  <2>1. CASE ConnectOk
    <3>1. /\ UNCHANGED <<dispatched, tasks>> /\ Len(inbound') = 0
      BY <2>1 DEF ConnectOk
    <3>2. QED
      BY <3>1, <1>f
  <2>2. CASE ConnectErr \/ Retry
    BY <2>2, <1>c DEF ConnectErr, Retry
  <2>3. QED
    BY <1>1, <2>1, <2>2 DEF Connection
<1>2. CASE Outbound
  BY <1>2, <1>c DEF Outbound, FlushNothing, FlushOk, FlushErr, SendOk, SendErr,
     PingErr, WriteOk, WriteErr
<1>3. CASE ReadNoise \/ ReadClose \/ ReadSuperseded
  BY <1>3, <1>d DEF ReadNoise, ReadClose, ReadSuperseded
<1>4. CASE ReadEnd
  BY <1>4, <1>c DEF ReadEnd
<1>5. CASE ReadCommand
  <2> DEFINE t == [job |-> Head(inbound), pc |-> "queued"]
  <2>1. /\ Head(inbound) = inbound[1] /\ Head(inbound) \in Jobs /\ 1 \in 1 .. Len(inbound)
        /\ Len(inbound') = Len(inbound) - 1
        /\ \A i \in 1 .. Len(inbound) - 1 : inbound'[i] = inbound[i + 1]
    BY <1>a, <1>5, HeadTail DEF ReadCommand
  <2>2. \A i \in 1 .. Len(inbound') : i + 1 \in 1 .. Len(inbound) /\ inbound'[i] = inbound[i + 1]
    BY <1>a, <2>1
  <2>3. t \in Task
    BY <2>1 DEF Task
  <2>4. /\ Len(tasks') = Len(tasks) + 1
        /\ tasks'[Len(tasks) + 1].job = inbound[1]
        /\ \A r \in 1 .. Len(tasks) : tasks'[r] = tasks[r]
    BY <1>a, <1>5, <2>1, <2>3, AppendOne DEF ReadCommand
  <2>5. \A r \in 1 .. Len(tasks') :
          \/ r \in 1 .. Len(tasks) /\ tasks'[r].job = tasks[r].job
          \/ r = Len(tasks) + 1 /\ tasks'[r].job = inbound[1]
    BY <1>a, <2>4
  <2>6. UNCHANGED dispatched
    BY <1>5 DEF ReadCommand
  <2>7. ASSUME NEW j \in Jobs, dispatched[j] = 0
        PROVE  /\ \A i \in 1 .. Len(inbound') : inbound'[i] # j
               /\ \A r \in 1 .. Len(tasks') : tasks'[r].job # j
    <3>1. /\ \A i \in 1 .. Len(inbound) : inbound[i] # j
          /\ \A r \in 1 .. Len(tasks) : tasks[r].job # j
      BY <2>7 DEF OneEach
    <3>2. QED
      BY <2>1, <2>2, <2>5, <3>1
  <2>8. ASSUME NEW i \in 1 .. Len(inbound'), NEW k \in 1 .. Len(inbound'),
               inbound'[i] \in Jobs, inbound'[i] = inbound'[k]
        PROVE  i = k
    <3>1. i + 1 = k + 1
      BY <2>2, <2>8 DEF OneEach
    <3>2. QED
      BY <3>1
  <2>9. ASSUME NEW i \in 1 .. Len(inbound'), NEW r \in 1 .. Len(tasks')
        PROVE  tasks'[r].job # inbound'[i]
    <3>1. i + 1 \in 1 .. Len(inbound) /\ inbound'[i] = inbound[i + 1] /\ i + 1 # 1
      BY <2>2
    <3>2. inbound[1] # inbound[i + 1]
      BY <2>1, <3>1 DEF OneEach
    <3>3. \A q \in 1 .. Len(tasks) : tasks[q].job # inbound[i + 1]
      BY <3>1 DEF OneEach
    <3>4. QED
      BY <2>5, <3>1, <3>2, <3>3
  <2>10. ASSUME NEW q \in 1 .. Len(tasks'), NEW r \in 1 .. Len(tasks'),
                tasks'[q].job = tasks'[r].job
         PROVE  q = r
    <3>1. \A s \in 1 .. Len(tasks) : tasks[s].job # inbound[1]
      BY <2>1 DEF OneEach
    <3>2. CASE q \in 1 .. Len(tasks) /\ r \in 1 .. Len(tasks)
      BY <2>4, <2>10, <3>2 DEF OneEach
    <3>3. CASE ~(q \in 1 .. Len(tasks) /\ r \in 1 .. Len(tasks))
      BY <2>5, <2>10, <3>1, <3>3
    <3>4. QED
      BY <3>2, <3>3
  <2>11. QED
    BY <2>6, <2>7, <2>8, <2>9, <2>10 DEF OneEach
<1>6. ASSUME NEW r \in DOMAIN tasks, RunTask(r) \/ EndTask(r) PROVE OneEach'
  <2>1. /\ UNCHANGED <<inbound, dispatched>>
        /\ \E to : tasks' = [tasks EXCEPT ![r].pc = to]
    BY <1>6 DEF RunTask, EndTask, Begin, Reject, Start, ShellDone, ShellFail, Report
  <2>2. PICK to : tasks' = [tasks EXCEPT ![r].pc = to]
    BY <2>1
  <2>3. Len(tasks') = Len(tasks) /\ \A q \in 1 .. Len(tasks) : tasks'[q].job = tasks[q].job
    <3>1. \A q \in 1 .. Len(tasks) : tasks[q] \in Task
      BY <1>a
    <3>2. QED
      BY <1>a, <2>2, <3>1 DEF Task
  <2>4. \A i \in 1 .. Len(inbound') : i \in 1 .. Len(inbound) /\ inbound'[i] = inbound[i]
    BY <2>1
  <2>5. QED
    BY <1>f, <2>1, <2>3, <2>4
<1>7. CASE Crash
  <2>1. /\ tasks' = [r \in DOMAIN tasks |->
                       [tasks[r] EXCEPT !.pc = IF @ = "finished" THEN @ ELSE "killed"]]
        /\ Len(inbound') = 0 /\ UNCHANGED dispatched
    BY <1>7 DEF Crash
  <2>2. Len(tasks') = Len(tasks) /\ \A q \in 1 .. Len(tasks) : tasks'[q].job = tasks[q].job
    <3>1. \A q \in 1 .. Len(tasks) : tasks[q] \in Task
      BY <1>a
    <3>2. QED
      BY <1>a, <2>1, <3>1 DEF Task
  <2>3. QED
    BY <1>f, <2>1, <2>2
<1>8. CASE Restart \/ LoseWire \/ Deliver
  BY <1>8, <1>c DEF Restart, LoseWire, Deliver
<1>9. CASE Cut
  <2>1. PICK n \in 0 .. Len(inbound) : inbound' = SubSeq(inbound, 1, n)
    BY <1>9 DEF Cut
  <2>2. \A i \in 1 .. Len(inbound') : i \in 1 .. Len(inbound) /\ inbound'[i] = inbound[i]
    BY <1>a, <2>1
  <2>3. QED
    BY <1>9, <1>f, <2>2 DEF Cut
<1>10. ASSUME NEW j \in Jobs, BackendCommand(j) PROVE OneEach'
  <2>1. dispatched \in [Jobs -> Nat] /\ dispatched[j] < 1
    BY <1>10 DEF BackendCommand, TypeOK
  <2>2. dispatched[j] = 0
    BY <2>1
  <2>3. dispatched' = [dispatched EXCEPT ![j] = dispatched[j] + 1] /\ UNCHANGED tasks
    BY <1>10 DEF BackendCommand
  <2>4. \A k \in Jobs : dispatched'[k] = 0 => k # j /\ dispatched[k] = 0
    BY <2>1, <2>2, <2>3
  <2>5. /\ \A i \in 1 .. Len(inbound) : inbound[i] # j
        /\ \A r \in 1 .. Len(tasks) : tasks[r].job # j
    BY <2>2 DEF OneEach
  <2>6. /\ Len(inbound') = Len(inbound) + 1
        /\ inbound'[Len(inbound) + 1] = j
        /\ \A i \in 1 .. Len(inbound) : inbound'[i] = inbound[i]
    BY <1>a, <1>10, AppendOne DEF BackendCommand
  <2>7. \A i \in 1 .. Len(inbound') : \/ i \in 1 .. Len(inbound) /\ inbound'[i] = inbound[i]
                                      \/ i = Len(inbound) + 1 /\ inbound'[i] = j
    BY <1>a, <2>6
  <2>8. QED
    BY <2>3, <2>4, <2>5, <2>7 DEF OneEach
<1>11. CASE BackendNoise
  BY <1>11, <1>e DEF BackendNoise, Control
<1>12. ASSUME NEW c \in {"close", "superseded"}, BackendClose(c) PROVE OneEach'
  BY <1>12, <1>e DEF BackendClose, Control
<1>13. CASE UNCHANGED vars
  BY <1>13, <1>c DEF vars
<1>14. QED
  BY <1>1, <1>2, <1>3, <1>4, <1>5, <1>6, <1>7, <1>8, <1>9, <1>10, <1>11, <1>12, <1>13
     DEF Next, Read, Process, Network, Backend

-----------------------------------------------------------------------------
\* The handler of this job has got as far as reporting something.
Begun(j) == \E r \in 1 .. Len(tasks) : /\ tasks[r].job = j
                                       /\ tasks[r].pc \notin {"queued", "dispatching"}

\* There is no frame, and nothing seen, of a job that has not.
AllBegun == /\ \A m \in OnTheWay : Begun(m.job)
            /\ \A j \in Jobs : view[j] # "none" => Begun(j)

\* A conclusion on its way is the last frame of its job.
ConclusionLast ==
  \A m, n \in OnTheWay : m.job = n.job /\ m.state \in Terminal => n.seq < m.seq \/ n = m

\* What is still on its way of a job seen concluded says the same again.
ConclusionStands ==
  \A j \in Jobs : view[j] \in Terminal => \A n \in OnTheWay : n.job = j => n.state = view[j]

\* The inductive invariant, with the order of frames and their truth.
FeedInv == OneEach /\ AllBegun /\ ConclusionLast /\ ConclusionStands

\* Whoever has reported has reported for good.
LEMMA BegunStays ==
  ASSUME TypeOK, [Next]_vars, NEW j, Begun(j)
  PROVE  Begun(j)'
<1> USE DEF agentVars, netVars, backendVars, history
<1>1. PICK r \in 1 .. Len(tasks) : /\ tasks[r].job = j
                                   /\ tasks[r].pc \notin {"queued", "dispatching"}
  BY DEF Begun
<1>2. /\ tasks \in Seq(Task) /\ DOMAIN tasks = 1 .. Len(tasks)
      /\ Len(tasks) \in Nat /\ tasks[r] \in Task
  BY <1>1 DEF TypeOK
<1>3. ASSUME Len(tasks') >= Len(tasks), Len(tasks') \in Nat, tasks'[r] = tasks[r]
      PROVE  Begun(j)'
  BY <1>1, <1>2, <1>3 DEF Begun
<1>4. CASE UNCHANGED tasks
  BY <1>2, <1>3, <1>4
<1>5. CASE ReadCommand
  <2>1. [job |-> Head(inbound), pc |-> "queued"] \in Task
    BY <1>5 DEF ReadCommand, Task
  <2>2. Len(tasks') = Len(tasks) + 1 /\ tasks'[r] = tasks[r]
    BY <1>1, <1>2, <1>5, <2>1, AppendOne DEF ReadCommand
  <2>3. QED
    BY <1>2, <1>3, <2>2
<1>6. ASSUME NEW q \in DOMAIN tasks, RunTask(q) \/ EndTask(q)
      PROVE  Begun(j)'
  <2>1. PICK to : /\ tasks[q].pc \in {"queued", "dispatching"} \/ to = "finished"
                  /\ tasks' = [tasks EXCEPT ![q].pc = to]
    <3>1. CASE Begin(q)
      BY <3>1 DEF Begin
    <3>2. CASE Reject(q)
      BY <3>2 DEF Reject, Report
    <3>3. CASE Start(q)
      BY <3>3 DEF Start, Report
    <3>4. CASE EndTask(q)
      BY <3>4 DEF EndTask, ShellDone, ShellFail, Report
    <3>5. QED
      BY <1>6, <3>1, <3>2, <3>3, <3>4 DEF RunTask
  <2>2. CASE q # r
    BY <1>1, <1>2, <1>3, <2>1, <2>2
  <2>3. CASE q = r
    <3>1. to = "finished" /\ tasks'[r] = [tasks[r] EXCEPT !.pc = to] /\ Len(tasks') = Len(tasks)
      BY <1>1, <1>2, <2>1, <2>3
    <3>2. tasks'[r].job = j /\ tasks'[r].pc = "finished"
      BY <1>1, <1>2, <3>1 DEF Task
    <3>3. QED
      BY <3>1, <3>2 DEF Begun
  <2>4. QED
    BY <2>2, <2>3
<1>7. CASE Crash
  <2>1. tasks' = [q \in DOMAIN tasks |->
                   [tasks[q] EXCEPT !.pc = IF @ = "finished" THEN @ ELSE "killed"]]
    BY <1>7 DEF Crash
  <2>2. tasks'[r] = [tasks[r] EXCEPT !.pc = IF @ = "finished" THEN @ ELSE "killed"]
        /\ Len(tasks') = Len(tasks)
    BY <1>1, <1>2, <2>1
  <2>3. tasks'[r].job = j /\ tasks'[r].pc \notin {"queued", "dispatching"}
    BY <1>1, <1>2, <2>2 DEF Task
  <2>4. QED
    BY <2>2, <2>3 DEF Begun
<1>8. CASE Connection \/ Outbound
  BY <1>8, <1>4 DEF Connection, Outbound, ConnectOk, ConnectErr, Retry,
     FlushNothing, FlushOk, FlushErr, SendOk, SendErr, PingErr
<1>9. CASE ReadNoise \/ ReadClose \/ ReadSuperseded \/ ReadEnd
  BY <1>9, <1>4 DEF ReadNoise, ReadClose, ReadSuperseded, ReadEnd
<1>10. CASE Restart \/ Network \/ Backend
  BY <1>10, <1>4 DEF Restart, Network, Cut, LoseWire, Deliver, Backend,
     BackendCommand, BackendNoise, BackendClose
<1>11. CASE UNCHANGED vars
  BY <1>11, <1>4 DEF vars
<1>12. QED
  BY <1>5, <1>6, <1>7, <1>8, <1>9, <1>10, <1>11 DEF Next, Read, Process

\* No frame on its way is newer than the last one emitted.
LEMMA NoneNewer ==
  ASSUME TypeOK, FrameOrder, NEW m \in OnTheWay
  PROVE  m \in Frame /\ m.seq <= emitted
<1>1. /\ pending \in Seq(Frame) /\ queue \in Seq(Frame) /\ wire \in Seq(Frame)
      /\ Len(pending) \in Nat /\ Len(queue) \in Nat /\ Len(wire) \in Nat
      /\ settled \in Nat /\ emitted \in Nat
  BY DEF TypeOK
<1>2. emitted = settled + Len(pending) + Len(queue)
  BY DEF FrameOrder, OwedParts
<1>3. CASE \E i \in 1 .. Len(pending) : m = pending[i]
  <2>1. PICK i \in 1 .. Len(pending) : m = pending[i]
    BY <1>3
  <2>2. m.seq = settled + i /\ m \in Frame
    BY <1>1, <2>1 DEF FrameOrder, OwedParts
  <2>3. QED
    BY <1>1, <1>2, <2>2
<1>4. CASE \E i \in 1 .. Len(queue) : m = queue[i]
  <2>1. PICK i \in 1 .. Len(queue) : m = queue[i]
    BY <1>4
  <2>2. m.seq = settled + Len(pending) + i /\ m \in Frame
    BY <1>1, <2>1 DEF FrameOrder, OwedParts
  <2>3. QED
    BY <1>1, <1>2, <2>2
<1>5. CASE \E i \in 1 .. Len(wire) : m = wire[i]
  <2>1. PICK i \in 1 .. Len(wire) : m = wire[i]
    BY <1>5
  <2>2. m.seq <= settled + Len(pending) /\ m \in Frame
    BY <1>1, <2>1 DEF FrameOrder, InFlightInOrder
  <2>3. m.seq \in Nat
    BY <2>2 DEF Frame
  <2>4. QED
    BY <1>1, <1>2, <2>2, <2>3
<1>6. QED
  BY <1>3, <1>4, <1>5 DEF OnTheWay

\* A step that puts no new frame on its way and tells the backend nothing.
LEMMA FeedNothingNew ==
  ASSUME TypeOK, AllBegun, ConclusionLast, ConclusionStands, [Next]_vars,
         OnTheWay' \subseteq OnTheWay, UNCHANGED view
  PROVE  (AllBegun /\ ConclusionLast /\ ConclusionStands)'
<1>1. AllBegun'
  <2>1. ASSUME NEW m \in OnTheWay' PROVE Begun(m.job)'
    <3>1. Begun(m.job)
      BY DEF AllBegun
    <3>2. QED
      BY <3>1, BegunStays
  <2>2. ASSUME NEW j \in Jobs, view'[j] # "none" PROVE Begun(j)'
    <3>1. Begun(j)
      BY <2>2 DEF AllBegun
    <3>2. QED
      BY <3>1, BegunStays
  <2>3. QED
    BY <2>1, <2>2 DEF AllBegun
<1>2. ConclusionLast'
  BY DEF ConclusionLast
<1>3. ConclusionStands'
  BY DEF ConclusionStands
<1>4. QED
  BY <1>1, <1>2, <1>3

\* A report is its job's first frame, or concludes what was not concluded.
LEMMA FeedReport ==
  ASSUME TypeOK, FrameOrder, FramesTruthful, FeedInv, [Next]_vars,
         NEW r, NEW from, NEW to, NEW state \in Status,
         Report(r, from, to, state), to \notin {"queued", "dispatching"},
         ~(from = "shell" /\ state \in Terminal) => from = "dispatching"
  PROVE  (AllBegun /\ ConclusionLast /\ ConclusionStands)'
<1> USE DEF FeedInv
<1>1. /\ r \in 1 .. Len(tasks) /\ tasks[r] \in Task /\ tasks[r].pc = from
      /\ tasks \in Seq(Task) /\ Len(tasks) \in Nat /\ emitted \in Nat
      /\ DOMAIN tasks = 1 .. Len(tasks)
  BY DEF Report, TypeOK
<1>2. PICK m \in Frame : /\ m.job = tasks[r].job /\ m.state = state
                         /\ m.seq = emitted + 1
                         /\ OnTheWay' \subseteq OnTheWay \cup {m}
  BY ReportAdds
<1>3. UNCHANGED view /\ m.job \in Jobs
  BY <1>2 DEF Report, backendVars, Frame
<1>4. \A q \in 1 .. Len(tasks) : tasks[q].job = m.job => q = r
  BY <1>1, <1>2 DEF OneEach
<1>5. /\ \A n \in OnTheWay : n.job = m.job => n.state \notin Terminal /\ m.state \in Terminal
      /\ view[m.job] \notin Terminal
  <2>1. CASE from = "dispatching"
    <3>1. ~Begun(m.job)
      BY <1>1, <1>4, <2>1 DEF Begun
    <3>2. QED
      BY <1>3, <3>1 DEF AllBegun, Terminal
  <2>2. CASE from = "shell" /\ state \in Terminal
    <3>1. ~Finished(m.job)
      BY <1>1, <1>4, <2>2 DEF Finished
    <3>2. \A n \in OnTheWay : n.job = m.job => n.state \notin Terminal
      BY <3>1 DEF FramesTruthful, Truthful
    <3>3. view[m.job] \notin Terminal
      BY <1>3, <3>1 DEF FramesTruthful, ConcludedJobsFinished, Finished
    <3>4. QED
      BY <1>2, <2>2, <3>2, <3>3
  <2>3. QED
    BY <2>1, <2>2
<1>6. AllBegun'
  <2>1. Begun(m.job)'
    <3>1. tasks' = [tasks EXCEPT ![r].pc = to]
      BY DEF Report
    <3>2. /\ Len(tasks') = Len(tasks)
          /\ tasks'[r] = [tasks[r] EXCEPT !.pc = to]
      BY <1>1, <3>1
    <3>3. tasks'[r].job = m.job /\ tasks'[r].pc \notin {"queued", "dispatching"}
      BY <1>1, <1>2, <3>2 DEF Task
    <3>4. QED
      BY <1>1, <3>2, <3>3 DEF Begun
  <2>2. ASSUME NEW n \in OnTheWay' PROVE Begun(n.job)'
    <3>1. CASE n = m
      BY <2>1, <3>1
    <3>2. CASE n \in OnTheWay
      <4>1. Begun(n.job)
        BY <3>2 DEF AllBegun
      <4>2. QED
        BY <4>1, BegunStays
    <3>3. QED
      BY <1>2, <3>1, <3>2
  <2>3. ASSUME NEW j \in Jobs, view'[j] # "none" PROVE Begun(j)'
    <3>1. Begun(j)
      BY <1>3, <2>3 DEF AllBegun
    <3>2. QED
      BY <3>1, BegunStays
  <2>4. QED
    BY <2>2, <2>3 DEF AllBegun
<1>7. ConclusionLast'
  <2> SUFFICES ASSUME NEW k \in OnTheWay', NEW n \in OnTheWay',
                      k.job = n.job, k.state \in Terminal
               PROVE  n.seq < k.seq \/ n = k
    BY DEF ConclusionLast
  <2>1. CASE k = m /\ n \in OnTheWay
    <3>1. n.seq <= emitted /\ n \in Frame
      BY <2>1, NoneNewer
    <3>2. n.seq \in Nat
      BY <3>1 DEF Frame
    <3>3. QED
      BY <1>1, <1>2, <2>1, <3>1, <3>2
  <2>2. CASE k \in OnTheWay /\ n = m
    BY <1>5, <2>2
  <2>3. CASE k \in OnTheWay /\ n \in OnTheWay
    BY <2>3 DEF ConclusionLast
  <2>4. QED
    BY <1>2, <2>1, <2>2, <2>3
<1>8. ConclusionStands'
  BY <1>2, <1>3, <1>5 DEF ConclusionStands
<1>9. QED
  BY <1>6, <1>7, <1>8

\* The first report of a command, whatever it says.
LEMMA FirstReport ==
  ASSUME TypeOK, FrameOrder, FramesTruthful, FeedInv, [Next]_vars,
         NEW r, NEW state \in Status, Report(r, "dispatching", "shell", state)
  PROVE  (AllBegun /\ ConclusionLast /\ ConclusionStands)'
BY FeedReport

\* What the backend receives is of a job that has not concluded, or says again
\* how it did; and a conclusion leaves nothing of its job behind it.
LEMMA FeedDeliver ==
  ASSUME TypeOK, FrameOrder, FeedInv, [Next]_vars, Deliver
  PROVE  /\ (AllBegun /\ ConclusionLast /\ ConclusionStands)'
         /\ \E j \in Jobs, s \in Status :
              /\ view' = [view EXCEPT ![j] = s]
              /\ view[j] \in Terminal => s = view[j]
<1> USE DEF FeedInv, agentVars, netVars, backendVars, history
<1>a. /\ pending \in Seq(Frame) /\ queue \in Seq(Frame) /\ wire \in Seq(Frame)
      /\ Len(pending) \in Nat /\ Len(queue) \in Nat /\ Len(wire) \in Nat
      /\ Len(pending) <= 1 /\ settled \in Nat
      /\ view \in [Jobs -> {"none"} \cup Status]
  BY DEF TypeOK
<1>1. /\ Head(wire) \in Frame /\ Head(wire) = wire[1] /\ Len(wire) >= 1
      /\ Len(wire') = Len(wire) - 1
      /\ \A i \in 1 .. Len(wire) - 1 : wire'[i] = wire[i + 1]
  BY <1>a, HeadTail DEF Deliver
<1>2. PICK m \in Frame : m = wire[1] /\ m \in OnTheWay
  BY <1>a, <1>1 DEF OnTheWay
<1>3. /\ view' = [view EXCEPT ![m.job] = m.state]
      /\ UNCHANGED <<pending, queue>> /\ m.job \in Jobs /\ m.state \in Status
      /\ m.seq \in Nat
  BY <1>1, <1>2 DEF Deliver, Frame
<1>4. \A i \in 1 .. Len(wire') : i + 1 \in 1 .. Len(wire) /\ wire'[i] = wire[i + 1]
  BY <1>a, <1>1
<1>5. OnTheWay' \subseteq OnTheWay
  BY <1>3, <1>4 DEF OnTheWay
<1>6. \A n \in OnTheWay' : n.seq >= m.seq
  <2>1. m.seq <= settled + Len(pending)
    BY <1>a, <1>1, <1>2 DEF FrameOrder, InFlightInOrder
  <2>2. ASSUME NEW i \in 1 .. Len(pending) PROVE pending[i].seq >= m.seq
    <3>1. pending[i].seq = settled + i /\ i = Len(pending)
      BY <1>a DEF FrameOrder, OwedParts
    <3>2. QED
      BY <2>1, <3>1
  <2>3. ASSUME NEW i \in 1 .. Len(queue) PROVE queue[i].seq >= m.seq
    <3>1. queue[i].seq = settled + Len(pending) + i
      BY DEF FrameOrder, OwedParts
    <3>2. QED
      BY <1>a, <1>3, <2>1, <3>1
  <2>4. ASSUME NEW i \in 1 .. Len(wire') PROVE wire'[i].seq >= m.seq
    <3>1. i + 1 \in 1 .. Len(wire) /\ 1 \in 1 .. Len(wire) /\ 1 <= i + 1
      BY <1>a, <1>1, <1>4
    <3>2. wire[1].seq <= wire[i + 1].seq
      BY <1>a, <3>1 DEF FrameOrder, InFlightInOrder
    <3>3. wire[i + 1] \in Frame
      BY <1>a, <3>1
    <3>4. QED
      BY <1>2, <1>3, <1>4, <3>2, <3>3 DEF Frame
  <2>5. QED
    BY <1>3, <2>2, <2>3, <2>4 DEF OnTheWay
<1>7. AllBegun'
  <2>1. ASSUME NEW n \in OnTheWay' PROVE Begun(n.job)'
    <3>1. Begun(n.job)
      BY <1>5 DEF AllBegun
    <3>2. QED
      BY <3>1, BegunStays
  <2>2. ASSUME NEW j \in Jobs, view'[j] # "none" PROVE Begun(j)'
    <3>1. Begun(j)
      <4>1. CASE j = m.job
        BY <1>2, <4>1 DEF AllBegun
      <4>2. CASE j # m.job
        BY <1>3, <1>a, <2>2, <4>2 DEF AllBegun
      <4>3. QED
        BY <4>1, <4>2
    <3>2. QED
      BY <3>1, BegunStays
  <2>3. QED
    BY <2>1, <2>2 DEF AllBegun
<1>8. ConclusionLast'
  BY <1>5 DEF ConclusionLast
<1>9. ConclusionStands'
  <2> SUFFICES ASSUME NEW j \in Jobs, view'[j] \in Terminal,
                      NEW n \in OnTheWay', n.job = j
               PROVE  n.state = view'[j]
    BY DEF ConclusionStands
  <2>1. n \in OnTheWay /\ n.seq >= m.seq
    BY <1>5, <1>6
  <2>2. CASE j = m.job
    <3>1. view'[j] = m.state
      BY <1>3, <1>a, <2>2
    <3>2. n.seq < m.seq \/ n = m
      BY <1>2, <2>1, <2>2, <3>1 DEF ConclusionLast
    <3>3. n \in Frame
      BY <2>1, NoneNewer
    <3>4. ~(n.seq < m.seq)
      BY <1>3, <2>1, <3>3 DEF Frame
    <3>5. QED
      BY <3>1, <3>2, <3>4
  <2>3. CASE j # m.job
    <3>1. view'[j] = view[j]
      BY <1>3, <1>a, <2>3
    <3>2. QED
      BY <2>1, <3>1 DEF ConclusionStands
  <2>4. QED
    BY <2>2, <2>3
<1>10. view[m.job] \in Terminal => m.state = view[m.job]
  BY <1>2, <1>3 DEF ConclusionStands
<1>11. QED
  BY <1>3, <1>7, <1>8, <1>9, <1>10

\* One step of any actor keeps the invariant.
LEMMA FeedInvStep ==
  ASSUME MaxDispatch = 1
  PROVE  TypeOK /\ FrameOrder /\ FramesTruthful /\ FeedInv /\ [Next]_vars => FeedInv'
<1> SUFFICES ASSUME TypeOK, FrameOrder, FramesTruthful, FeedInv, [Next]_vars
             PROVE  FeedInv'
  OBVIOUS
<1> USE DEF agentVars, netVars, backendVars, history
<1>a. OneEach'
  BY OneEachStep DEF FeedInv
<1>b. ASSUME UNCHANGED <<pending, queue, view>>, wire' = wire \/ wire' = <<>>
      PROVE  FeedInv'
  <2>1. OnTheWay' \subseteq OnTheWay
    BY <1>b DEF OnTheWay
  <2>2. QED
    BY <1>a, <1>b, <2>1, FeedNothingNew DEF FeedInv
<1>1. CASE Connection
  BY <1>1, <1>b DEF Connection, ConnectOk, ConnectErr, Retry
<1>2. CASE FlushNothing \/ PingErr
  BY <1>2, <1>b DEF FlushNothing, PingErr
<1>3. CASE FlushOk \/ FlushErr \/ SendOk \/ SendErr
  <2>1. UNCHANGED view
    BY <1>3 DEF FlushOk, FlushErr, SendOk, SendErr
  <2>2. OnTheWay' \subseteq OnTheWay
    BY <1>3, WriteKeeps
  <2>3. QED
    BY <1>a, <2>1, <2>2, FeedNothingNew DEF FeedInv
<1>4. CASE Read
  BY <1>4, <1>b DEF Read, ReadCommand, ReadNoise, ReadClose, ReadSuperseded,
                    ReadEnd
<1>5. ASSUME NEW r \in DOMAIN tasks, RunTask(r) \/ EndTask(r)
      PROVE  FeedInv'
  <2>1. CASE Begin(r)
    BY <2>1, <1>b DEF Begin
  <2>2. CASE Reject(r)
    BY <1>a, <2>2, FeedReport DEF Reject, Status, Terminal, FeedInv
  <2>3. CASE Start(r)
    <3>1. Report(r, "dispatching", "shell", "running")
      BY <2>3 DEF Start
    <3>2. PICK state \in Status : Report(r, "dispatching", "shell", state)
      BY <3>1 DEF Status
    <3>3. (AllBegun /\ ConclusionLast /\ ConclusionStands)'
      BY <3>2, FirstReport
    <3>4. QED
      BY <1>a, <3>3 DEF FeedInv
  <2>4. CASE ShellDone(r)
    BY <1>a, <2>4, FeedReport DEF ShellDone, Status, Terminal, FeedInv
  <2>5. CASE ShellFail(r)
    BY <1>a, <2>5, FeedReport DEF ShellFail, Status, Terminal, FeedInv
  <2>6. QED
    BY <1>5, <2>1, <2>2, <2>3, <2>4, <2>5 DEF RunTask, EndTask
<1>6. CASE Crash
  <2>1. pending' = <<>> /\ queue' = <<>> /\ wire' = wire /\ view' = view
    BY <1>6 DEF Crash
  <2>2. OnTheWay' \subseteq OnTheWay
    BY <2>1 DEF OnTheWay
  <2>3. QED
    BY <1>a, <2>1, <2>2, FeedNothingNew DEF FeedInv
<1>7. CASE Restart \/ Cut \/ LoseWire
  BY <1>7, <1>b DEF Restart, Cut, LoseWire
<1>8. CASE Deliver
  BY <1>8, <1>a, FeedDeliver DEF FeedInv
<1>9. CASE Backend
  BY <1>9, <1>b DEF Backend, BackendCommand, BackendNoise, BackendClose
<1>10. CASE UNCHANGED vars
  BY <1>10, <1>b DEF vars
<1>11. QED
  BY <1>1, <1>2, <1>3, <1>4, <1>5, <1>6, <1>7, <1>8, <1>9, <1>10
     DEF Next, Outbound, Process, Network

\* Only what the backend receives changes what its subscribers see, and that
\* moves a feed as the abstract specification allows.
LEMMA FeedMoves ==
  TypeOK /\ FrameOrder /\ FeedInv /\ [Next]_vars => [Feed!Next]_view
<1> SUFFICES ASSUME TypeOK, FrameOrder, FeedInv, [Next]_vars, view' # view
             PROVE  Feed!Next
  OBVIOUS
<1> USE DEF agentVars, netVars, backendVars, history
<1>1. Deliver
  BY DEF Next, vars, Connection, Outbound, Read, RunTask, EndTask, Process,
         Network, Backend, ConnectOk, ConnectErr, Retry, FlushNothing, FlushOk,
         FlushErr, SendOk, SendErr, PingErr, ReadCommand, ReadNoise, ReadClose,
         ReadSuperseded, ReadEnd, Begin, Reject, Start, ShellDone, ShellFail,
         Report, Crash, Restart, Cut, LoseWire, BackendCommand, BackendNoise,
         BackendClose
<1>2. PICK j \in Jobs, s \in Status : /\ view' = [view EXCEPT ![j] = s]
                                      /\ view[j] \in Terminal => s = view[j]
  BY <1>1, FeedDeliver
<1>3. view \in [Jobs -> {"none"} \cup Status]
  BY DEF TypeOK
<1>4. s # view[j]
  BY <1>2, <1>3
<1>5. CASE s = "running"
  <2>1. view[j] = "none"
    BY <1>2, <1>3, <1>4, <1>5 DEF Status, Terminal
  <2>2. Feed!Progress(j)
    BY <1>2, <1>5, <2>1 DEF Feed!Progress
  <2>3. QED
    BY <2>2 DEF Feed!Next
<1>6. CASE s \in {"done", "error"}
  <2>1. view[j] \in {"none", "running"}
    BY <1>2, <1>3, <1>4 DEF Status, Terminal
  <2>2. Feed!Conclude(j)
    BY <1>2, <1>6, <2>1 DEF Feed!Conclude
  <2>3. QED
    BY <2>2 DEF Feed!Next
<1>7. QED
  BY <1>5, <1>6 DEF Status, Terminal

\* The agent, its channel, its sockets and the backend's reading of them
\* implement the feed a job's subscriber was promised, for any number of jobs and
\* threads, broken connections, failed and repeated writes, and deaths of the
\* process, if the backend sends each command once.  Sent twice, a job is run
\* twice, and seen running after it was concluded.
THEOREM PhoneHomeImplementsFeed ==
  ASSUME MaxDispatch = 1
  PROVE  Spec => FeedSpec
<1>1. Init => Feed!Init
  BY DEF Init, Feed!Init
<1>2. Init => FeedInv
  <2> SUFFICES ASSUME Init PROVE FeedInv
    OBVIOUS
  <2>1. /\ Len(inbound) = 0 /\ Len(tasks) = 0 /\ OnTheWay = {}
        /\ \A j \in Jobs : view[j] = "none"
    BY DEF Init, OnTheWay
  <2>2. QED
    BY <2>1 DEF FeedInv, OneEach, AllBegun, ConclusionLast, ConclusionStands, Terminal
<1>3. Spec => []FeedInv
  BY <1>2, FeedInvStep, TypeCorrect, FrameOrderHolds, FramesTruthfulHolds, PTL DEF Spec
<1>4. QED
  BY <1>1, <1>3, FeedMoves, TypeCorrect, FrameOrderHolds, PTL DEF Spec, FeedSpec, Feed!Spec

=============================================================================
