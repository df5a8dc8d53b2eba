------------------------------- MODULE Service -------------------------------
(***************************************************************************)
(* The processes of one machine that want to phone home: the Windows       *)
(* service (src/src/service/scm.rs) and `connect` runs (src/src/cli.rs),   *)
(* which share run_loop and its single-instance lock                       *)
(* (src/src/service/console.rs).  What the loop does once it runs is the   *)
(* subject of modules PhoneHome and Reconnect.                             *)
(***************************************************************************)
CONSTANTS
  Services,  \* processes the SCM launches: `service run`, one alive at a time
  Connects,  \* processes started as `connect`, by hand or by systemd
  NoOne      \* nobody holds the lock

Procs == Services \cup Connects

ASSUME ProcsAssumption == Services \cap Connects = {} /\ NoOne \notin Procs

VARIABLES
  main,     \* the main thread of each process
  loop,     \* run_loop: on a thread of its own (service), on main (connect)
  holder,   \* who holds agent.lock
  reported, \* the state the service last reported to the SCM
  signal    \* shutdown_tx has sent to this process

vars == <<main, loop, holder, reported, signal>>

TypeOK ==
  /\ main \in [Procs -> {"absent", "loading", "waiting", "looping", "returned"}]
  /\ loop \in [Procs -> {"none", "locking", "serving", "ended"}]
  /\ holder \in Procs \cup {NoOne}
  /\ reported \in {"stopped", "running"}
  /\ signal \subseteq Services

Init ==
  /\ main = [p \in Procs |-> "absent"]
  /\ loop = [p \in Procs |-> "none"]
  /\ holder = NoOne /\ reported = "stopped" /\ signal = {}

-----------------------------------------------------------------------------
\* The process is gone: the OS closes its lock file, and the SCM marks a
\* service that vanished as stopped.
Exit(p) ==
  /\ main' = [main EXCEPT ![p] = "absent"]
  /\ loop' = [loop EXCEPT ![p] = "none"]
  /\ holder' = IF holder = p THEN NoOne ELSE holder
  /\ reported' = IF p \in Services THEN "stopped" ELSE reported
  /\ signal' = signal \ {p}

\* run_service: the handler is registered and Running reported before the
\* config is read.
StartService(p) ==
  /\ p \in Services /\ reported = "stopped"
  /\ \A q \in Services : main[q] = "absent"
  /\ main' = [main EXCEPT ![p] = "loading"]
  /\ reported' = "running"
  /\ UNCHANGED <<loop, holder, signal>>

StartConnect(p) ==
  /\ p \in Connects /\ main[p] = "absent"
  /\ main' = [main EXCEPT ![p] = "loading"]
  /\ UNCHANGED <<loop, holder, reported, signal>>

\* The config is read, and run_loop begins.
LoadOk(p) ==
  /\ main[p] = "loading"
  /\ main' = [main EXCEPT ![p] = IF p \in Services THEN "waiting" ELSE "looping"]
  /\ loop' = [loop EXCEPT ![p] = "locking"]
  /\ UNCHANGED <<holder, reported, signal>>

\* The config is missing or malformed.  `connect` exits with the error;
\* service_main only logs it and returns, with Running reported.
LoadErr(p) ==
  /\ main[p] = "loading"
  /\ IF p \in Connects
       THEN Exit(p)
       ELSE /\ main' = [main EXCEPT ![p] = "returned"]
            /\ UNCHANGED <<loop, holder, reported, signal>>

\* Variant: the lock file is not closed when a service's loop ends.
LoopErrKeepsLock(p) ==
  /\ loop' = [loop EXCEPT ![p] = "ended"]
  /\ UNCHANGED <<main, holder, reported, signal>>

\* run_loop returned an error.  A `connect` process ends with it; the thread
\* of a service logs it and ends alone.  `_instance_lock` is dropped.
LoopErr(p) ==
  IF p \in Connects
    THEN Exit(p)
    ELSE /\ loop' = [loop EXCEPT ![p] = "ended"]
         /\ holder' = IF holder = p THEN NoOne ELSE holder
         /\ UNCHANGED <<main, reported, signal>>

\* Variant: the handle is dropped at the end of the statement that took it.
LockDropped(p) ==
  /\ loop[p] = "locking" /\ holder = NoOne
  /\ loop' = [loop EXCEPT ![p] = "serving"]
  /\ UNCHANGED <<main, holder, reported, signal>>

\* acquire_instance_lock
LockOk(p) ==
  /\ loop[p] = "locking" /\ holder = NoOne
  /\ holder' = p
  /\ loop' = [loop EXCEPT ![p] = "serving"]
  /\ UNCHANGED <<main, reported, signal>>

\* Another process holds it, or the lock file cannot be opened.
LockErr(p) == loop[p] = "locking" /\ LoopErr(p)

\* The runtime cannot be built, or run_forever finds the config unusable.
RunErr(p) == loop[p] = "serving" /\ LoopErr(p)

\* Variant: every process takes controls.
StopAnyone(p) ==
  /\ main[p] # "absent"
  /\ signal' = signal \cup {p}
  /\ UNCHANGED <<main, loop, holder, reported>>

\* The SCM delivers Stop or Shutdown: the handler sends on shutdown_tx.  The
\* main thread is behind it only while it waits.
Stop(p) ==
  /\ p \in Services /\ main[p] # "absent"
  /\ signal' = signal \cup {p}
  /\ UNCHANGED <<main, loop, holder, reported>>

\* Variant: the main thread joins the loop before it reports Stopped.
StoppedAfterLoop(p) ==
  main[p] = "waiting" /\ p \in signal /\ loop[p] = "ended" /\ Exit(p)

\* shutdown_rx.recv() returns: Stopped is reported and the process exits.
Stopped(p) == main[p] = "waiting" /\ p \in signal /\ Exit(p)

\* The process is killed, or the machine takes it down.
Kill(p) == main[p] # "absent" /\ Exit(p)

Lock(p) == LockOk(p) \/ LockErr(p)
Load(p) == LoadOk(p) \/ LoadErr(p)

Next == \E p \in Procs :
  \/ StartService(p) \/ StartConnect(p) \/ Load(p) \/ Lock(p)
  \/ RunErr(p) \/ Stop(p) \/ Stopped(p) \/ Kill(p)

Spec == Init /\ [][Next]_vars

\* A thread that can go on does.
FairSpec == Spec /\ \A p \in Procs : WF_vars(Load(p)) /\ WF_vars(Lock(p))
                                     /\ WF_vars(Stopped(p))

-----------------------------------------------------------------------------
(* Properties.                                                             *)

\* One phone-home loop per machine, whoever starts, ends, is stopped or is
\* killed in whatever order (console.rs: the lock bound to a named local).
OneLoop ==
  \A p, q \in Procs : loop[p] = "serving" /\ loop[q] = "serving" => p = q

\* The lock never outlives its loop: nobody is refused because of a process
\* that is gone or whose loop has ended.
LockImpliesLoop == holder # NoOne => loop[holder] = "serving"

\* A service that the SCM has told to stop, once its main thread waits,
\* stops, with its loop still running, already ended or never started.
StopObeyed ==
  \A p \in Services :
    (p \in signal /\ main[p] = "waiting") ~> (main[p] = "absent")

\* "a second agent (e.g. the service plus a manual `connect` run) fails
\* fast": a service that finds the lock held ends, or serves after all.
ServiceFailsFast ==
  \A p \in Services :
    (loop[p] = "locking" /\ holder # NoOne) ~>
      (loop[p] = "serving" \/ main[p] = "absent")

=============================================================================
