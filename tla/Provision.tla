------------------------------ MODULE Provision ------------------------------
(***************************************************************************)
(* The commands of module Scripts run on one Windows machine.  The backend *)
(* delivers the commands of a plan, and delivers one again when it likes:  *)
(* the agent keeps no record of what it ran and starts every delivery on a *)
(* pool thread of its own (module PhoneHome), so two runs may overlap, of  *)
(* one command or of two.  Steps fail, before or after their effect, the   *)
(* machine reboots in the middle of a script, and the scheduled task of    *)
(* ca.install_cert goes its own way.  (When only the agent's process dies, *)
(* its scripts run on: what follows is an overlapping delivery.)           *)
(***************************************************************************)
EXTENDS Scripts, FiniteSets

CONSTANTS
  Plans,        \* sets of commands that a backend runs on the machine
  Slots,        \* 1 .. n: how many scripts run at once
  MaxFaults,    \* bound: failing steps and reboots
  MaxOverlaps   \* bound: deliveries while a script is running

ASSUME ProvisionAssumption ==
  /\ \A p \in Plans : p \subseteq Commands
  /\ Slots \subseteq Nat /\ IsFiniteSet(Slots)
  /\ MaxFaults \in Nat /\ MaxOverlaps \in Nat

VARIABLES
  plan,      \* the commands of this machine
  machine,   \* what each resource holds: a set of values
  up,        \* the certificate service runs
  live,      \* the configuration the service read when it started
  run,       \* per slot: the script that runs there
  orphans,   \* instances of the scheduled task whose script gave them up
  leftover,  \* tasks still registered after their script ended
  outcome,   \* per command: how its last run to end ended
  done,      \* history: commands that were reported done
  faults,    \* history: failing steps and reboots
  overlaps,  \* history: deliveries while a script was running
  spoiled    \* history: a reboot, or a task that could not be unregistered

service == <<up, live>>
history == <<outcome, done, faults, overlaps, spoiled>>
vars    == <<plan, machine, service, run, orphans, leftover, history>>

Steps(c)     == {Script(c)[i] : i \in DOMAIN Script(c)}
Targets(c)   == {st.res : st \in Steps(c)} \ {"certsvc"}
Resources    == UNION {Targets(c) : c \in plan}
Configuration == {Settings[i] : i \in DOMAIN Settings} \cup {Urls[1], Urls[2]}

\* What the service reads when it starts.
Registry(m) == [r \in DOMAIN m \cap Configuration |-> m[r]]

Idle == [cmd |-> "idle", pc |-> 0, seen |-> {}, failed |-> FALSE, task |-> "none"]
Busy == {s \in Slots : run[s] # Idle}

Values == {"old", "planned", "computer1", "computer2", "name1", "name2"}

TypeOK ==
  /\ plan \subseteq Commands
  /\ DOMAIN machine = Resources
  /\ \A r \in Resources : machine[r] \subseteq Values
  /\ up \in BOOLEAN
  /\ \A s \in Slots :
       /\ run[s].cmd \in plan \cup {"idle"}
       /\ run[s].pc \in 0 .. 15
       /\ run[s].seen \subseteq Values
       /\ run[s].failed \in BOOLEAN
       /\ run[s].task \in {"none", "registered", "running", "ok", "bad"}
  /\ orphans \in Nat /\ leftover \in Nat /\ faults \in Nat /\ overlaps \in Nat
  /\ outcome \in [plan -> {"none", "done", "failed"}]
  /\ done \subseteq plan
  /\ spoiled \in BOOLEAN

\* What the plan finds.  What is only ever overwritten holds something old;
\* a name in DNS may hold other records than the planned one, or more.
Contested == {r \in Resources : \E c \in plan : \E st \in Steps(c) :
                                   st.res = r /\ st.op # "put"}
Found(r)  == IF r \in {"PTR", "A", "CNAME"}
               THEN {{}, {"planned"}, {"old"}, {"planned", "old"}}
               ELSE IF r = "caCert" THEN {{}} ELSE {{}, {"old"}}

Init ==
  /\ plan \in Plans
  /\ \E found \in [Contested -> SUBSET {"old", "planned"}] :
       /\ \A r \in Contested : found[r] \in Found(r)
       /\ machine = [r \in Resources |-> IF r \in Contested THEN found[r] ELSE {"old"}]
  /\ up = ("ca.install_cert" \notin plan)
  /\ live = Registry(machine)
  /\ run = [s \in Slots |-> Idle]
  /\ orphans = 0 /\ leftover = 0 /\ faults = 0 /\ overlaps = 0
  /\ outcome = [c \in plan |-> "none"] /\ done = {}
  /\ spoiled = FALSE

-----------------------------------------------------------------------------
(* What one step does to its resource, and when it is refused.             *)

\* What the resource holds after the step, if it held `has` and the script
\* had seen `seen` when it looked.
After(st, seen, has) ==
  CASE st.op \in {"put", "create"} -> {st.val}
    [] st.op = "ensure"            -> IF has = {} THEN {st.val} ELSE has
    [] st.op \in {"ifAbsent", "claim"} -> IF seen = {} THEN has \cup {st.val} ELSE has
    [] st.op = "drop"              -> has \ seen
    [] st.op = "merge"             -> seen \cup {st.val}
    [] OTHER                       -> has

\* Variant: a resource that is already there is an error everywhere.
AlreadyIsError(st, seen, has) ==
  \/ st.op \in {"create", "ensure"} /\ has # {}
  \/ st.op = "ifAbsent" /\ seen = {} /\ has # {}
  \/ st.op = "claim" /\ (seen \notin {{}, {st.val}} \/ (seen = {} /\ st.val \in has))
  \/ st.op = "drop" /\ ~(seen \subseteq has)
  \/ st.op = "check" /\ has = {}

\* The machine refuses the step, or the script throws: it is there already; a
\* conflicting DNS record was seen; what was seen is gone.
Refused(st, seen, has) ==
  \/ st.op = "create" /\ has # {}
  \/ st.op = "ifAbsent" /\ seen = {} /\ has # {}
  \/ st.op = "claim" /\ (seen \notin {{}, {st.val}} \/ (seen = {} /\ st.val \in has))
  \/ st.op = "drop" /\ ~(seen \subseteq has)
  \/ st.op = "check" /\ has = {}

-----------------------------------------------------------------------------
Deliver(s, c) ==
  /\ c \in plan /\ run[s] = Idle
  /\ \A t \in Slots : t < s => run[t] # Idle
  /\ Busy = {} \/ overlaps < MaxOverlaps
  /\ overlaps' = IF Busy = {} THEN overlaps ELSE overlaps + 1
  /\ run' = [run EXCEPT ![s] = [Idle EXCEPT !.cmd = c, !.pc = 1]]
  /\ UNCHANGED <<plan, machine, service, orphans, leftover, outcome, done, faults,
                 spoiled>>

Length(s)  == Len(Script(run[s].cmd))
Current(s) == Script(run[s].cmd)[run[s].pc]
At(s, ops) == run[s] # Idle /\ run[s].pc <= Length(s) /\ Current(s).op \in ops
Special    == {"stop", "start", "register", "launch", "poll", "unregister"}
Plain(s)   == run[s] # Idle /\ run[s].pc <= Length(s) /\ Current(s).op \notin Special

\* Variants: an error does not end the script; the finally block is missing.
ErrorPassedOver(s, task) == [run[s] EXCEPT !.pc = @ + 1, !.task = task]
ErrorWithoutFinally(s, task) ==
  IF Current(s).strict THEN [run[s] EXCEPT !.failed = TRUE, !.pc = Length(s) + 1, !.task = task]
                       ELSE [run[s] EXCEPT !.pc = @ + 1, !.task = task]

\* $ErrorActionPreference = 'Stop': an error ends the script, through the
\* finally block if it is inside its try; elsewhere it is passed over.
Error(s, task) ==
  LET ahead == {i \in run[s].pc .. Length(s) : Script(run[s].cmd)[i].op = "unregister"}
      stop  == IF ahead = {} THEN Length(s) + 1 ELSE CHOOSE i \in ahead : TRUE
  IN IF Current(s).strict
       THEN [run[s] EXCEPT !.failed = TRUE, !.pc = stop, !.task = task]
       ELSE [run[s] EXCEPT !.pc = @ + 1, !.task = task]

Fault == faults < MaxFaults /\ faults' = faults + 1

StepOk(s) ==
  LET st == Current(s) IN
  /\ Plain(s) /\ ~Refused(st, run[s].seen, machine[st.res])
  /\ machine' = [machine EXCEPT ![st.res] = After(st, run[s].seen, @)]
  /\ run' = [run EXCEPT ![s].pc = @ + 1,
                        ![s].seen = IF st.op = "look" THEN machine[st.res] ELSE @]
  /\ UNCHANGED <<plan, service, orphans, leftover, history>>

StepRefused(s) ==
  /\ Plain(s) /\ Refused(Current(s), run[s].seen, machine[Current(s).res])
  /\ run' = [run EXCEPT ![s] = Error(s, "none")]
  /\ UNCHANGED <<plan, machine, service, orphans, leftover, history>>

\* The step fails, before or after it took effect.
StepFails(s) ==
  LET st == Current(s) IN
  /\ Plain(s) /\ Fault
  /\ machine' \in {machine} \cup
       {[machine EXCEPT ![st.res] = After(st, run[s].seen, @)] :
          x \in IF Refused(st, run[s].seen, machine[st.res]) THEN {} ELSE {1}}
  /\ run' = [run EXCEPT ![s] = Error(s, "none")]
  /\ UNCHANGED <<plan, service, orphans, leftover, outcome, done, overlaps, spoiled>>

\* Restart-Service is the two in a row; Start-Service does nothing to a
\* service that runs.
StopService(s) ==
  /\ At(s, {"stop"})
  /\ up' = FALSE
  /\ run' = [run EXCEPT ![s].pc = @ + 1]
  /\ UNCHANGED <<plan, machine, live, orphans, leftover, history>>

StartService(s) ==
  /\ At(s, {"start"})
  /\ up' = TRUE
  /\ live' = IF up THEN live ELSE Registry(machine)
  /\ run' = [run EXCEPT ![s].pc = @ + 1]
  /\ UNCHANGED <<plan, machine, orphans, leftover, history>>

\* The service control manager reports an error, with the service up or down.
ServiceFails(s) ==
  /\ At(s, {"stop", "start"}) /\ Fault
  /\ up' \in BOOLEAN
  /\ live' = IF up \/ ~up' THEN live ELSE Registry(machine)
  /\ run' = [run EXCEPT ![s] = Error(s, "none")]
  /\ UNCHANGED <<plan, machine, orphans, leftover, outcome, done, overlaps, spoiled>>

-----------------------------------------------------------------------------
(* ca.install_cert: certutil in a scheduled task.                          *)

TaskStep(s, op, task) ==
  /\ At(s, {op})
  /\ run' = [run EXCEPT ![s].pc = @ + 1, ![s].task = task]
  /\ UNCHANGED <<plan, machine, service, leftover, history>>

Register(s) == TaskStep(s, "register", "registered") /\ UNCHANGED orphans
Launch(s)   == TaskStep(s, "launch", "running") /\ UNCHANGED orphans

\* The task's result is 0.
PollOk(s) == run[s].task = "ok" /\ TaskStep(s, "poll", "ok") /\ UNCHANGED orphans

PollBad(s) ==
  /\ At(s, {"poll"}) /\ run[s].task = "bad"
  /\ run' = [run EXCEPT ![s] = Error(s, "bad")]
  /\ UNCHANGED <<plan, machine, service, orphans, leftover, history>>

\* Removing the task does not end the instance that runs; a script that has
\* failed goes no further than its finally block.
Unregister(s) ==
  /\ At(s, {"unregister"})
  /\ run' = [run EXCEPT ![s].task = "none",
                        ![s].pc = IF run[s].failed THEN Length(s) + 1 ELSE @ + 1]
  /\ orphans' = IF run[s].task = "running" THEN orphans + 1 ELSE orphans
  /\ UNCHANGED <<plan, machine, service, leftover, history>>

\* A call fails, before or after its effect; or the poll ends with certutil
\* still running (the deadline) or not yet started (the task was queued, and
\* only 'Running' is waited for).
TaskStepFails(s) ==
  /\ At(s, {"register", "launch", "poll"}) /\ Fault
  /\ \E task \in {run[s].task} \cup
                   CASE At(s, {"register"}) -> {"registered"}
                     [] At(s, {"launch"})   -> {"running"}
                     [] OTHER               -> {} :
       run' = [run EXCEPT ![s] = Error(s, task)]
  /\ UNCHANGED <<plan, machine, service, orphans, leftover, outcome, done, overlaps,
                 spoiled>>

\* -ErrorAction SilentlyContinue: the task stays.
UnregisterFails(s) ==
  /\ At(s, {"unregister"}) /\ Fault
  /\ run' = [run EXCEPT ![s].pc = IF run[s].failed THEN Length(s) + 1 ELSE @ + 1]
  /\ spoiled' = TRUE
  /\ UNCHANGED <<plan, machine, service, orphans, leftover, outcome, done, overlaps>>

TaskOk(s) ==
  /\ run[s].task = "running"
  /\ run' = [run EXCEPT ![s].task = "ok"]
  /\ machine' = [machine EXCEPT !["caCert"] = {"planned"}]
  /\ UNCHANGED <<plan, service, orphans, leftover, history>>

TaskBad(s) ==
  /\ run[s].task = "running"
  /\ run' = [run EXCEPT ![s].task = "bad"]
  /\ UNCHANGED <<plan, machine, service, orphans, leftover, history>>

\* Variant: it ends once more.
OrphanEndsAgain ==
  /\ orphans' = orphans - 1
  /\ machine' \in {machine, [machine EXCEPT !["caCert"] = {"planned"}]}
  /\ UNCHANGED <<plan, service, run, leftover, history>>

OrphanEnds ==
  /\ orphans > 0
  /\ orphans' = orphans - 1
  /\ machine' \in {machine, [machine EXCEPT !["caCert"] = {"planned"}]}
  /\ UNCHANGED <<plan, service, run, leftover, history>>

-----------------------------------------------------------------------------
Abandoned(ss) == Cardinality({s \in ss : run[s].task # "none"})

\* The shell exits; the handler reports "done" if it exits with 0.
End(s) ==
  /\ run[s] # Idle /\ run[s].pc = Length(s) + 1
  /\ run' = [run EXCEPT ![s] = Idle]
  /\ leftover' = leftover + Abandoned({s})
  /\ outcome' = [outcome EXCEPT ![run[s].cmd] = IF run[s].failed THEN "failed" ELSE "done"]
  /\ done' = IF run[s].failed THEN done ELSE done \cup {run[s].cmd}
  /\ UNCHANGED <<plan, machine, service, orphans, faults, overlaps, spoiled>>

\* Scripts and tasks die; the service, once it has its certificate, starts
\* with the machine.
Reboot ==
  /\ Fault
  /\ run' = [s \in Slots |-> Idle]
  /\ leftover' = leftover + Abandoned(Slots)
  /\ orphans' = 0
  /\ outcome' = [c \in plan |-> IF \E s \in Slots : run[s].cmd = c
                                  THEN "failed" ELSE outcome[c]]
  /\ up' = ("caCert" \in DOMAIN machine => machine["caCert"] # {})
  /\ live' = Registry(machine)
  /\ spoiled' = TRUE
  /\ UNCHANGED <<plan, machine, done, overlaps>>

ScriptStep(s) ==
  \/ StepOk(s) \/ StepRefused(s) \/ StopService(s) \/ StartService(s)
  \/ Register(s) \/ Launch(s) \/ PollOk(s) \/ PollBad(s) \/ Unregister(s) \/ End(s)
Faulty(s) == StepFails(s) \/ ServiceFails(s) \/ TaskStepFails(s) \/ UnregisterFails(s)

Next ==
  \/ \E s \in Slots, c \in plan : Deliver(s, c)
  \/ \E s \in Slots : ScriptStep(s) \/ Faulty(s) \/ TaskOk(s) \/ TaskBad(s)
  \/ OrphanEnds \/ Reboot

Spec == Init /\ [][Next]_vars

\* Scripts, their reports and the certutil given up keep running; as long as
\* some command was not reported done, one such is delivered again; certutil
\* does not fail every time.  That faults and overlapping deliveries come to
\* an end is in their bounds.
Fairness ==
  /\ \A s \in Slots : /\ WF_vars(ScriptStep(s))
                      /\ WF_vars(TaskOk(s) \/ TaskBad(s)) /\ SF_vars(TaskOk(s))
  /\ WF_vars(OrphanEnds)
  /\ SF_vars(\E s \in Slots, c \in plan \ done : Deliver(s, c))

FairSpec == Spec /\ Fairness

-----------------------------------------------------------------------------
(* Properties.                                                             *)

\* The step's result, as far as the script insists on it.
Holds(st) ==
  CASE st.op \in {"put", "create", "claim"} ->
         /\ machine[st.res] = {"planned"}
         /\ st.res \in Configuration /\ up => live[st.res] = {"planned"}
    [] st.op \in {"ensure", "ifAbsent", "check"} -> machine[st.res] # {}
    [] st.op = "merge" -> st.val \in machine[st.res]
    [] st.op = "poll"  -> machine[st.res] = {"planned"}
    [] OTHER -> TRUE

\* What the command is for is there.
Applied(c) == \A st \in Steps(c) : st.strict => Holds(st)

\* No step of the command takes away what another run of it has made.
Additive(c) == \A st \in Steps(c) : st.op \notin {"drop", "merge"}

\* A command reported done stays applied, whatever is delivered after it:
\* the same command again, another one beside it, runs that fail half-way or
\* end with the machine.  A setting written to the registry is also the one
\* the service runs with, although two restarts may cross.
RerunHarmless == \A c \in done : Additive(c) => Applied(c)

\* While deliveries do not overlap, every command (those that remove before
\* they add, or write back what they read, too) is applied if its last run
\* was reported done; one that failed says nothing about the one before.
LastRunDecides ==
  overlaps = 0 =>
    \A c \in plan : outcome[c] = "done" /\ (\A s \in Slots : run[s].cmd # c)
                     => Applied(c)

\* dns.apply_resources never touches a name that holds anything but the
\* planned record, also when two runs look before either writes.
ConflictStands ==
  [][\A r \in DOMAIN machine \cap {"PTR", "A", "CNAME"} :
       ~(machine[r] \subseteq {"planned"}) => machine'[r] = machine[r]]_vars

\* However ca.install_cert ends, it leaves no task with the domain admin's
\* credentials behind, unless the machine went down or removing it failed.
TasksCleaned == ~spoiled => leftover = 0

\* Without faults, the certificate service runs whenever no script does: two
\* restarts that overlap do not leave it stopped, and after ca.install_cert
\* was done it was started.
ServiceComesBack ==
  faults = 0 /\ Busy = {} /\ ("ca.install_cert" \in plan => "ca.install_cert" \in done)
    => up

\* Redelivery cannot help: there is something the script will not replace.
Stuck(c) ==
  \/ \E r \in Targets(c) : /\ machine[r] # {}
                           /\ \E st \in Steps(c) : st.res = r /\ st.op = "create"
                           /\ \A st \in Steps(c) : st.res = r => st.op # "drop"
  \/ \E st \in Steps(c) : st.op = "claim" /\ ~(machine[st.res] \subseteq {"planned"})

\* Delivering a command again until it is done gets there from every state
\* that failed steps, reboots and overlapping runs leave behind, except where
\* what it would create exists.
Converges == <>(\A c \in plan : c \in done \/ Stuck(c))

=============================================================================
