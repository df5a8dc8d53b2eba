------------------------------ MODULE PhoneHome ------------------------------
(***************************************************************************)
(* The phone-home loop of the agent (src/src/phonehome.rs): one outbound   *)
(* WebSocket to the backend, commands read from it and run on the blocking *)
(* thread pool, progress frames that outlive the socket.  A frame goes     *)
(* handler -> unbounded channel (queue) -> socket (wire) -> backend, with  *)
(* the one-slot `pending` between the channel and the socket for a frame   *)
(* whose write failed.                                                     *)
(*                                                                         *)
(* Every frame carries the number of its emission (seq).  The number is    *)
(* not in the code; it is how the properties name a frame.  Reconnect      *)
(* delays are the subject of module Reconnect, the checks a handler makes  *)
(* before it starts of module Dispatch.                                    *)
(***************************************************************************)
EXTENDS Integers, Sequences, FiniteSets

CONSTANTS
  Jobs,         \* job ids the backend tags its commands with
  PoolSizes,    \* threads of tokio's blocking pool (512 in the default runtime)
  MaxDispatch,  \* bound: how often the backend sends the command of one job
  MaxInbound,   \* bound: frames of the backend not yet read by the agent
  MaxCrashes    \* bound: how often the agent process dies

\* What the backend can send besides a command: a frame the loop skips
\* (malformed text, ping, binary), a plain close, the takeover close 4409.
Control == {"noise", "close", "superseded"}

ASSUME ConstantsAssumption ==
  /\ Jobs \cap Control = {}
  /\ PoolSizes \subseteq Nat \ {0}
  /\ MaxDispatch \in Nat /\ MaxInbound \in Nat /\ MaxCrashes \in Nat

VARIABLES
  phase,       \* where run_forever / connect_once stands
  link,        \* the current socket: "up", "gone" (unnoticed), "closed" (Close read)
  inbound,     \* frames of the backend the agent has not read
  wire,        \* frames written to the socket, not yet received by the backend
  pending,     \* Option<OutboundProgress>: <<>> or <<frame>>
  queue,       \* the mpsc channel between handlers and connect_once
  tasks,       \* every command read so far: its job and how far it got
  emitted,     \* history: number of frames put on the channel
  settled,     \* history: number of the last frame the agent no longer owes
  last,        \* backend: number of the last frame it received
  view,        \* backend: the last state it received for each job
  dispatched,  \* backend: how often it sent each job's command
  crashes,     \* how often the agent process died
  pool         \* the number of pool threads of this agent, never changed

agentVars   == <<phase, pending, queue, tasks>>
netVars     == <<link, inbound, wire>>
backendVars == <<last, view, dispatched>>
history     == <<emitted, settled, crashes, pool>>
vars        == <<agentVars, netVars, backendVars, history>>

Terminal == {"done", "error"}
Status   == {"running"} \cup Terminal
Frame    == [seq : Nat, job : Jobs, state : Status]
Task     == [job : Jobs,
             pc : {"queued", "dispatching", "shell", "finished", "killed"}]

TypeOK ==
  /\ phase \in {"connecting", "flushing", "serving", "waiting", "down"}
  /\ link \in {"up", "gone", "closed"}
  /\ inbound \in Seq(Jobs \cup Control)
  /\ wire \in Seq(Frame)
  /\ pending \in Seq(Frame) /\ Len(pending) <= 1
  /\ queue \in Seq(Frame)
  /\ tasks \in Seq(Task)
  /\ emitted \in Nat /\ settled \in Nat /\ last \in Nat
  /\ view \in [Jobs -> {"none"} \cup Status]
  /\ dispatched \in [Jobs -> Nat]
  /\ crashes \in Nat /\ pool \in PoolSizes

Init ==
  /\ phase = "connecting" /\ link = "gone"
  /\ inbound = <<>> /\ wire = <<>> /\ pending = <<>> /\ queue = <<>>
  /\ tasks = <<>>
  /\ emitted = 0 /\ settled = 0 /\ last = 0 /\ crashes = 0
  /\ pool \in PoolSizes
  /\ view = [j \in Jobs |-> "none"]
  /\ dispatched = [j \in Jobs |-> 0]

-----------------------------------------------------------------------------
(* Writing one frame: send_progress.                                       *)

\* The write returned Ok.  On a socket whose peer is gone the kernel still
\* takes the bytes, and the frame goes nowhere.
WriteOk(m) ==
  /\ link # "closed"
  /\ wire' = IF link = "up" THEN Append(wire, m) ELSE wire
  /\ settled' = m.seq
  /\ UNCHANGED <<link, inbound>>

\* The write returned an error.  The frame may have reached the peer all the
\* same: the error can belong to the flush or to a pong behind it.
WriteErr(m) ==
  /\ \/ link # "up" /\ UNCHANGED wire
     \/ link = "up" /\ wire' \in {wire, Append(wire, m)}
  /\ link' = IF link = "up" THEN "gone" ELSE link
  /\ UNCHANGED <<inbound, settled>>

\* Variants: the frame is lost with the write; it is parked behind another.
ParkNothing(m) == pending' = <<>> /\ phase' = "waiting"
ParkBehind(m)  == pending' = Append(pending, m) /\ phase' = "waiting"

\* A failed write parks the frame in `pending` and ends the connection.
Park(m) == pending' = <<m>> /\ phase' = "waiting"

-----------------------------------------------------------------------------
(* run_forever and connect_once.                                           *)

\* The handshake succeeds: a fresh socket.  The backend follows only the
\* newest connection of a vm_id, so what was in flight on the old one is lost.
ConnectOk ==
  /\ phase = "connecting"
  /\ phase' = "flushing"
  /\ link' = "up" /\ inbound' = <<>> /\ wire' = <<>>
  /\ UNCHANGED <<pending, queue, tasks, backendVars, history>>

ConnectErr ==
  /\ phase = "connecting"
  /\ phase' = "waiting"
  /\ UNCHANGED <<pending, queue, tasks, netVars, backendVars, history>>

\* Variant: the loop reconnects only while it has nothing parked.
RetryWhenIdle ==
  /\ phase = "waiting"
  /\ phase' = IF pending = <<>> THEN "connecting" ELSE phase
  /\ UNCHANGED <<pending, queue, tasks, netVars, backendVars, history>>

\* The reconnect delay is over.
Retry ==
  /\ phase = "waiting"
  /\ phase' = "connecting"
  /\ UNCHANGED <<pending, queue, tasks, netVars, backendVars, history>>

\* Variant: the select loop starts with a frame still parked.
ServeBeforeFlush ==
  /\ phase = "flushing"
  /\ phase' = "serving"
  /\ UNCHANGED <<pending, queue, tasks, netVars, backendVars, history>>

\* pending.take() found nothing: on to the select loop.
FlushNothing ==
  /\ phase = "flushing" /\ pending = <<>>
  /\ phase' = "serving"
  /\ UNCHANGED <<pending, queue, tasks, netVars, backendVars, history>>

FlushOk ==
  /\ phase = "flushing" /\ pending # <<>>
  /\ WriteOk(Head(pending))
  /\ pending' = <<>> /\ phase' = "serving"
  /\ UNCHANGED <<queue, tasks, backendVars, emitted, crashes, pool>>

FlushErr ==
  /\ phase = "flushing" /\ pending # <<>>
  /\ WriteErr(Head(pending))
  /\ Park(Head(pending))
  /\ UNCHANGED <<queue, tasks, backendVars, emitted, crashes, pool>>

\* The rx branch of the select loop.
SendOk ==
  /\ phase = "serving" /\ queue # <<>>
  /\ WriteOk(Head(queue))
  /\ queue' = Tail(queue)
  /\ UNCHANGED <<phase, pending, tasks, backendVars, emitted, crashes, pool>>

\* Variant: the frame goes back to the end of the channel.
SendErrRequeues ==
  /\ phase = "serving" /\ queue # <<>>
  /\ WriteErr(Head(queue))
  /\ queue' = Append(Tail(queue), Head(queue))
  /\ phase' = "waiting"
  /\ UNCHANGED <<pending, tasks, backendVars, emitted, crashes, pool>>

SendErr ==
  /\ phase = "serving" /\ queue # <<>>
  /\ WriteErr(Head(queue))
  /\ Park(Head(queue))
  /\ queue' = Tail(queue)
  /\ UNCHANGED <<tasks, backendVars, emitted, crashes, pool>>

\* The ping branch: the keepalive cannot be written.  (A ping that can be
\* written changes nothing.)
PingErr ==
  /\ phase = "serving" /\ link # "up"
  /\ phase' = "waiting"
  /\ UNCHANGED <<pending, queue, tasks, netVars, backendVars, history>>

\* The read branch.  A command becomes a task of the blocking pool; nothing
\* compares its job with the jobs already read.
ReadCommand ==
  /\ phase = "serving" /\ inbound # <<>> /\ Head(inbound) \in Jobs
  /\ inbound' = Tail(inbound)
  /\ tasks' = Append(tasks, [job |-> Head(inbound), pc |-> "queued"])
  /\ UNCHANGED <<phase, pending, queue, link, wire, backendVars, history>>

ReadNoise ==
  /\ phase = "serving" /\ inbound # <<>> /\ Head(inbound) = "noise"
  /\ inbound' = Tail(inbound)
  /\ UNCHANGED <<agentVars, link, wire, backendVars, history>>

\* A close without the takeover code: the loop continues, and from here on
\* the WebSocket refuses writes.
ReadClose ==
  /\ phase = "serving" /\ inbound # <<>> /\ Head(inbound) = "close"
  /\ inbound' = Tail(inbound)
  /\ link' = "closed"
  /\ UNCHANGED <<agentVars, wire, backendVars, history>>

ReadSuperseded ==
  /\ phase = "serving" /\ inbound # <<>> /\ Head(inbound) = "superseded"
  /\ inbound' = Tail(inbound)
  /\ link' = "closed"
  /\ phase' = "waiting"
  /\ UNCHANGED <<pending, queue, tasks, wire, backendVars, history>>

\* read.next() yields None or an error: nothing is left to read.
ReadEnd ==
  /\ phase = "serving" /\ inbound = <<>> /\ link # "up"
  /\ phase' = "waiting"
  /\ UNCHANGED <<pending, queue, tasks, netVars, backendVars, history>>

-----------------------------------------------------------------------------
(* handle_command on the blocking pool.                                    *)

Active == {r \in DOMAIN tasks : tasks[r].pc \in {"dispatching", "shell"}}

\* Variant: tasks are started by the connection, not by the pool.
BeginWhileServing(r) ==
  /\ phase = "serving"
  /\ r \in DOMAIN tasks /\ tasks[r].pc = "queued"
  /\ \A q \in DOMAIN tasks : tasks[q].pc = "queued" => r <= q
  /\ tasks' = [tasks EXCEPT ![r].pc = "dispatching"]
  /\ UNCHANGED <<phase, pending, queue, netVars, backendVars, history>>

\* A free pool thread takes the oldest queued task.
Begin(r) ==
  /\ r \in DOMAIN tasks /\ tasks[r].pc = "queued"
  /\ \A q \in DOMAIN tasks : tasks[q].pc = "queued" => r <= q
  /\ Cardinality(Active) < pool
  /\ tasks' = [tasks EXCEPT ![r].pc = "dispatching"]
  /\ UNCHANGED <<phase, pending, queue, netVars, backendVars, history>>

\* A task moves on and reports a state through its TaggedProgressSink.
Report(r, from, to, state) ==
  /\ r \in DOMAIN tasks /\ tasks[r].pc = from
  /\ tasks' = [tasks EXCEPT ![r].pc = to]
  /\ emitted' = emitted + 1
  /\ queue' = Append(queue, [seq |-> emitted + 1, job |-> tasks[r].job,
                             state |-> state])
  /\ UNCHANGED <<phase, pending, netVars, backendVars, settled, crashes, pool>>

\* dispatch fails before the handler reports anything (unknown command,
\* forbidden role, parameter refused): handle_command sends the error.
Reject(r) == Report(r, "dispatching", "finished", "error")

\* Variants: "done" is reported before the script has run; a handler reports
\* "done" and goes on.
StartAsDone(r)  == Report(r, "dispatching", "shell", "done")
DoneAndGoOn(r)  == /\ Len(queue) < 2
                   /\ Report(r, "shell", "shell", "done")

\* The handler reports "running" and starts its script.
Start(r) == Report(r, "dispatching", "shell", "running")

\* The script exits: the handler reports "done", or returns an error that
\* handle_command reports.
ShellDone(r) == Report(r, "shell", "finished", "done")
ShellFail(r) == Report(r, "shell", "finished", "error")

-----------------------------------------------------------------------------
(* The process itself, the network and the backend.                        *)

\* The process dies (stop, kill, reboot): all its memory is gone.
Crash ==
  /\ phase # "down" /\ crashes < MaxCrashes
  /\ crashes' = crashes + 1
  /\ phase' = "down"
  /\ pending' = <<>> /\ queue' = <<>> /\ settled' = emitted
  /\ tasks' = [r \in DOMAIN tasks |->
                 [tasks[r] EXCEPT !.pc = IF @ = "finished" THEN @ ELSE "killed"]]
  /\ link' = "gone" /\ inbound' = <<>>
  /\ UNCHANGED <<wire, backendVars, emitted, pool>>

\* The service manager starts it again.
Restart ==
  /\ phase = "down"
  /\ phase' = "connecting"
  /\ UNCHANGED <<pending, queue, tasks, netVars, backendVars, history>>

\* The connection breaks without either end being told; part of what the
\* backend sent may have arrived before.
Cut ==
  /\ link # "closed"
  /\ link' = "gone"
  /\ \E n \in 0 .. Len(inbound) : inbound' = SubSeq(inbound, 1, n)
  /\ UNCHANGED <<agentVars, wire, backendVars, history>>

\* What was in flight on a broken connection is lost.
LoseWire ==
  /\ link # "up" /\ wire # <<>>
  /\ wire' = <<>>
  /\ UNCHANGED <<agentVars, link, inbound, backendVars, history>>

Deliver ==
  /\ wire # <<>>
  /\ wire' = Tail(wire)
  /\ last' = Head(wire).seq
  /\ view' = [view EXCEPT ![Head(wire).job] = Head(wire).state]
  /\ UNCHANGED <<agentVars, link, inbound, dispatched, history>>

BackendCommand(j) ==
  /\ link = "up" /\ Len(inbound) < MaxInbound /\ dispatched[j] < MaxDispatch
  /\ dispatched' = [dispatched EXCEPT ![j] = @ + 1]
  /\ inbound' = Append(inbound, j)
  /\ UNCHANGED <<agentVars, link, wire, last, view, history>>

BackendNoise ==
  /\ link = "up" /\ Len(inbound) < MaxInbound
  /\ inbound' = Append(inbound, "noise")
  /\ UNCHANGED <<agentVars, link, wire, backendVars, history>>

\* The backend closes the connection and reads no more from it.
BackendClose(c) ==
  /\ link = "up" /\ Len(inbound) < MaxInbound
  /\ link' = "gone"
  /\ inbound' = Append(inbound, c)
  /\ wire' = <<>>
  /\ UNCHANGED <<agentVars, backendVars, history>>

-----------------------------------------------------------------------------
Connection == ConnectOk \/ ConnectErr \/ Retry
Outbound   == FlushNothing \/ FlushOk \/ FlushErr \/ SendOk \/ SendErr \/ PingErr
Read       == ReadCommand \/ ReadNoise \/ ReadClose \/ ReadSuperseded \/ ReadEnd
RunTask(r) == Begin(r) \/ Reject(r) \/ Start(r)
EndTask(r) == ShellDone(r) \/ ShellFail(r)
Process    == Crash \/ Restart
Network    == Cut \/ LoseWire \/ Deliver
Backend    == \/ \E j \in Jobs : BackendCommand(j)
              \/ BackendNoise
              \/ \E c \in {"close", "superseded"} : BackendClose(c)

Next ==
  \/ Connection \/ Outbound \/ Read
  \/ \E r \in DOMAIN tasks : RunTask(r) \/ EndTask(r)
  \/ Process \/ Network \/ Backend

Spec == Init /\ [][Next]_vars

MaxTasks == Cardinality(Jobs) * MaxDispatch

\* The loop and the pool keep being scheduled; the backend is reachable again
\* and again, and select! picks a ready branch at random, so a branch that is
\* ready again and again is taken.  A script exits: nothing in the code makes
\* it (the configured script_timeout_secs is not read).
Fairness ==
  /\ WF_vars(Retry) /\ WF_vars(Restart)
  /\ WF_vars(ConnectOk \/ ConnectErr) /\ SF_vars(ConnectOk)
  /\ WF_vars(FlushNothing) /\ SF_vars(FlushOk) /\ SF_vars(SendOk)
  /\ SF_vars(Read) /\ WF_vars(PingErr)
  /\ \A r \in 1 .. MaxTasks : WF_vars(RunTask(r)) /\ WF_vars(EndTask(r))

FairSpec == Spec /\ Fairness

-----------------------------------------------------------------------------
(* Properties.                                                             *)

Owed == pending \o queue

\* What the agent still owes the backend is exactly the frames emitted since
\* the last one a socket took: none missing, none twice, in emission order,
\* the parked frame first (phonehome.rs: send_progress, pending.take, rx).
OwedInOrder ==
  /\ emitted = settled + Len(Owed)
  /\ \A i \in DOMAIN Owed : Owed[i].seq = settled + i

\* In flight: frames never overtake one another, none is older than what the
\* backend has, none newer than the first frame the agent still owes.
InFlightInOrder ==
  /\ \A i, j \in DOMAIN wire : i <= j => wire[i].seq <= wire[j].seq
  /\ \A i \in DOMAIN wire : last <= wire[i].seq
                            /\ wire[i].seq <= settled + Len(pending)
  /\ last <= settled + Len(pending)

\* The backend receives frames in the order the handlers emitted them, over
\* any number of sockets, failed writes and restarts; a frame can only be
\* repeated, never followed by an older one.
InOrder == [][last' >= last]_last

\* A job the backend sees concluded is one whose handler ended here.  In
\* particular a job whose process died under it is never reported as done.
ConcludedJobsFinished ==
  \A j \in Jobs : view[j] \in Terminal =>
    \E r \in DOMAIN tasks : tasks[r].job = j /\ tasks[r].pc = "finished"

\* What a job's subscriber at the backend sees (abstract specification).
\* Holds when the backend sends a job's command once: a second run of the
\* same job would report "running" after "done".
Feed == INSTANCE ResultFeed
FeedSpec == Feed!Spec

\* Whatever the agent owes is taken by a socket at some point (or dies with
\* the process): channel and parked slot drain again and again.
Drains == (Owed # <<>>) ~> (Owed = <<>>)

Ended(r) == tasks[r].pc \in {"finished", "killed"}

\* Every command read comes to an end.  (That its end is one terminal frame:
\* FeedSpec.)
TasksConclude == (\E r \in DOMAIN tasks : ~Ended(r)) ~> (\A r \in DOMAIN tasks : Ended(r))

\* "a long command's terminal result must survive the socket it started on":
\* the terminal frame of a finished task is at the backend, or on its way.
ResultsSurvive ==
  \A r \in DOMAIN tasks : tasks[r].pc = "finished" =>
    \/ view[tasks[r].job] \in Terminal
    \/ \E m \in {(wire \o Owed)[i] : i \in DOMAIN (wire \o Owed)} :
         m.job = tasks[r].job /\ m.state \in Terminal

=============================================================================
