--------------------------- MODULE DispatchProofs ----------------------------
(***************************************************************************)
(* Theorems about one dispatch, for every request there is: any number of  *)
(* wrong, missing or unexpected parameters (MaxFaults only bounds the      *)
(* requests TLC enumerates).                                               *)
(***************************************************************************)
EXTENDS Dispatch, SequenceTheorems, WellFoundedInduction, TLAPS

-----------------------------------------------------------------------------
(* How a dispatch gets from one stage to the next.                         *)

\* Nothing has happened to a request that was only received.
NotStarted == stage = "received" => ~ran /\ frames = <<>> /\ outcome = "none"

\* A request that is running passed every check and has no outcome yet.
Cleared == stage = "running" => Refusal = "none" /\ outcome = "none"

\* A shell only ever ran for a request that nothing refuses.
RanWasCleared == ran => Refusal = "none"

IInv == /\ stage \in {"received", "running", "finished"}
        /\ NotStarted /\ Cleared /\ RanWasCleared /\ RefusedMeansUntouched

\* The initial states satisfy the invariant: handle_command and run_once
\* start from a request and nothing else.
LEMMA InitIInv == Init => IInv
  BY DEF Init, IInv, NotStarted, Cleared, RanWasCleared, RefusedMeansUntouched, Errors

\* No step touches the request or the platform, so what the registry, the
\* gate and the checks say of it does not change under way.
LEMMA RefusalStays ==
  ASSUME UNCHANGED <<platform, request>>  PROVE Refusal' = Refusal
  BY DEF Refusal, handlers, handler

\* Every step of dispatch preserves the invariant.
LEMMA StepIInv == IInv /\ [Next]_vars => IInv'
  <1> SUFFICES ASSUME IInv, [Next]_vars  PROVE IInv'
    OBVIOUS
  <1>0. UNCHANGED <<platform, request>>
    BY DEF Next, Refuse, Start, ReadLocally, SpawnErr, ScriptErr, OutputErr,
           ScriptOk, ReturnErr, ReturnOk, vars
  <1>1. Refusal' = Refusal
    BY <1>0, RefusalStays
  <1> USE <1>0, <1>1 DEF IInv, NotStarted, Cleared, RanWasCleared,
                         RefusedMeansUntouched, Errors
  <1>2. CASE Refuse
    <2>1. frames' \in {<<>>, <<"error">>}
      BY <1>2 DEF Refuse, ReturnErr
    <2> QED
      BY <1>2, <2>1 DEF Refuse, ReturnErr
  <1>3. CASE Start
    BY <1>3 DEF Start
  <1>4. CASE ReadLocally
    BY <1>4 DEF ReadLocally, ReturnOk
  <1>5. CASE SpawnErr
    BY <1>5 DEF SpawnErr, ReturnErr
  <1>6. CASE ScriptErr
    BY <1>6 DEF ScriptErr, ReturnErr
  <1>7. CASE OutputErr
    \* Only the two handlers the property excepts answer InvalidParam here.
    <2>1. Misread(request.cmd) = "Shell" \/ request.cmd \in {"file.read", "ca.sign_request"}
      BY <1>7 DEF OutputErr, Misread
    <2> QED
      BY <1>7, <2>1 DEF OutputErr, ReturnErr
  <1>8. CASE ScriptOk
    BY <1>8 DEF ScriptOk, ReturnOk
  <1>9. CASE UNCHANGED vars
    BY <1>9 DEF vars
  <1> QED
    BY <1>2, <1>3, <1>4, <1>5, <1>6, <1>7, <1>8, <1>9 DEF Next

\* The stages of dispatch follow the handler's order: checks, then the
\* "running" frame, then the shell.
LEMMA DispatchInvariant == Spec => []IInv
  BY InitIInv, StepIInv, PTL DEF Spec

-----------------------------------------------------------------------------
\* A request answered with a refusal started nothing and sent no other frame,
\* for every request and every order of the handler's checks.
THEOREM RefusalsTouchNothing == Spec => []RefusedMeansUntouched
  <1>1. IInv => RefusedMeansUntouched
    BY DEF IInv
  <1> QED
    BY <1>1, DispatchInvariant, PTL

-----------------------------------------------------------------------------
(* The registry.                                                           *)

\* What linux.rs registers; nothing else is replaced on unix.
LEMMA LinuxNames ==
  /\ DOMAIN LinuxRelayHandlers = {"file.read", "file.write"}
  /\ DOMAIN LinuxHostHandlers =
       {"hostname.read", "system.identity", "system.reboot", "system.boot_info"}
  /\ DOMAIN LinuxHandlers = DOMAIN LinuxRelayHandlers \cup DOMAIN LinuxHostHandlers
  <1>1. DOMAIN LinuxRelayHandlers = {"file.read", "file.write"}
    BY SMT DEF LinuxRelayHandlers, @@, :>
  <1>2. DOMAIN LinuxHostHandlers =
       {"hostname.read", "system.identity", "system.reboot", "system.boot_info"}
    BY SMT DEF LinuxHostHandlers, @@, :>
  <1>3. DOMAIN LinuxHandlers = DOMAIN LinuxRelayHandlers \cup DOMAIN LinuxHostHandlers
    BY DEF LinuxHandlers, @@
  <1> QED
    BY <1>1, <1>2, <1>3

\* The commands no guest may run are registered once, on either platform.
LEMMA AdminEntries ==
  ASSUME NEW p, NEW cmd \in {"hostname.rename", "ip.write", "powershell.exec_arbitrary"}
  PROVE  Registry(platform, p)[cmd].cap \in {"vm:update", "vm:exec-arbitrary"}
  <1>1. /\ cmd \in DOMAIN AdminHandlers
        /\ AdminHandlers[cmd].cap \in {"vm:update", "vm:exec-arbitrary"}
    BY SMT DEF AdminHandlers, @@, :>, Handler, UpdateCap
  <1>2. /\ cmd \in DOMAIN DefaultHandlers(p)
        /\ DefaultHandlers(p)[cmd] = AdminHandlers[cmd]
    BY <1>1 DEF DefaultHandlers, @@
  <1>3. cmd \notin DOMAIN LinuxHandlers
    BY LinuxNames
  <1>4. (LinuxHandlers @@ DefaultHandlers(p))[cmd] = DefaultHandlers(p)[cmd]
    BY <1>2, <1>3 DEF @@
  <1> QED
    BY <1>1, <1>2, <1>4 DEF Registry

\* Where file.read and file.write may go on this platform.
Allowlist == IF platform = "unix" THEN {"posixProduct"} ELSE {"winRelay"}

\* The path first, and for file.write the content after it.
LEMMA RelayChecks ==
  ASSUME NEW ok,
         NEW checks \in {<<Required("path", ok)>>,
                         <<Required("path", ok)>> \o <<Required("contentB64", Good)>>}
  PROVE  /\ DOMAIN checks \in {1 .. 1, 1 .. 2}
         /\ checks[1] = Required("path", ok)
         /\ \A i \in DOMAIN checks : checks[i].absent = "MissingParam"
  <1>1. CASE checks = <<Required("path", ok)>>
    BY <1>1 DEF Required
  <1>2. CASE checks = <<Required("path", ok)>> \o <<Required("contentB64", Good)>>
    <2> DEFINE path == <<Required("path", ok)>>
               content == <<Required("contentB64", Good)>>
               S == {Required("path", ok), Required("contentB64", Good)}
    <2>1. /\ path \in Seq(S) /\ Len(path) = 1 /\ path[1] = Required("path", ok)
          /\ content \in Seq(S) /\ Len(content) = 1
      OBVIOUS
    <2>2. checks = path \o content
      BY <1>2
    <2> HIDE DEF path, content
    <2>3. /\ checks \in Seq(S) /\ Len(checks) = 2
          /\ checks[1] = path[1]
      BY <2>1, <2>2, ConcatProperties
    <2>4. DOMAIN checks = 1 .. 2 /\ \A i \in DOMAIN checks : checks[i] \in S
      BY <2>3
    <2> QED
      BY <2>1, <2>3, <2>4 DEF Required
  <1> QED
    BY <1>1, <1>2

\* Whatever the platform, their first check is the platform's own allowlist.
LEMMA RelayEntries ==
  ASSUME NEW p, NEW cmd \in {"file.read", "file.write"}
  PROVE  LET checks == Registry(platform, p)[cmd].checks
         IN  /\ DOMAIN checks \in {1 .. 1, 1 .. 2}
             /\ checks[1] = Required("path", Allowlist)
             /\ \A i \in DOMAIN checks : checks[i].absent = "MissingParam"
  <1>1. CASE platform = "unix"
    <2>1. LinuxRelayHandlers[cmd].checks =
            IF cmd = "file.read" THEN LinuxFileRead ELSE LinuxFileWrite
      BY SMT DEF LinuxRelayHandlers, @@, :>, Handler
    <2>2. LinuxHandlers[cmd] = LinuxRelayHandlers[cmd]
      BY LinuxNames DEF LinuxHandlers, @@
    <2>3. Registry(platform, p)[cmd] = LinuxHandlers[cmd]
      BY <1>1, LinuxNames DEF Registry, @@
    <2>4. Registry(platform, p)[cmd].checks \in
            {<<Required("path", Allowlist)>>,
             <<Required("path", Allowlist)>> \o <<Required("contentB64", Good)>>}
      BY <1>1, <2>1, <2>2, <2>3 DEF LinuxFileRead, LinuxFileWrite, Allowlist
    <2> QED
      BY <2>4, RelayChecks
  <1>2. CASE platform # "unix"
    <2>1. /\ cmd \in DOMAIN RelayHandlers
          /\ RelayHandlers[cmd].checks =
               IF cmd = "file.read" THEN FileRead ELSE FileWrite
      BY SMT DEF RelayHandlers, @@, :>, Handler
    <2>2. cmd \notin DOMAIN AdminHandlers
      BY SMT DEF AdminHandlers, @@, :>
    <2>3. Registry(platform, p)[cmd] = RelayHandlers[cmd]
      BY <1>2, <2>1, <2>2 DEF Registry, DefaultHandlers, @@
    <2>4. Registry(platform, p)[cmd].checks \in
            {<<Required("path", Allowlist)>>,
             <<Required("path", Allowlist)>> \o <<Required("contentB64", Good)>>}
      BY <1>2, <2>1, <2>3 DEF FileRead, FileWrite, Allowlist
    <2> QED
      BY <2>4, RelayChecks
  <1> QED
    BY <1>1, <1>2

-----------------------------------------------------------------------------
\* No guest gets to run what the README reserves, under any request and on
\* either platform: the capability of each is outside the guest's set.
THEOREM GuestsStayOut == Spec => []GuestStaysOut
  <1>1. IInv => GuestStaysOut
    <2> SUFFICES ASSUME IInv, request.role = "guest", ran,
                        request.cmd \in {"hostname.rename", "ip.write",
                                         "powershell.exec_arbitrary"}
                 PROVE  FALSE
      BY DEF GuestStaysOut
    <2>1. Refusal = "none"
      BY DEF IInv, RanWasCleared
    <2>2. Has("guest", handler.cap)
      BY <2>1 DEF Refusal
    <2>3. handler.cap \in {"vm:update", "vm:exec-arbitrary"}
      BY AdminEntries DEF handler, handlers
    <2> QED
      BY <2>2, <2>3 DEF Has, Capabilities
  <1> QED
    BY <1>1, DispatchInvariant, PTL

\* A request the checks let through passes the first of its checks.
LEMMA FirstCheckHolds ==
  ASSUME NEW checks, NEW p, DOMAIN checks \in {1 .. 1, 1 .. 2},
         \A i \in DOMAIN checks : checks[i].absent = "MissingParam",
         FirstFault(checks, p) = "none"
  PROVE  ~Fails(checks[1], p)
  <1> DEFINE failing == {i \in DOMAIN checks : Fails(checks[i], p)}
  <1> SUFFICES ASSUME Fails(checks[1], p)  PROVE FALSE
    OBVIOUS
  <1>1. 1 \in failing /\ \A j \in failing : 1 <= j
    OBVIOUS
  <1> DEFINE first == CHOOSE i \in failing : \A j \in failing : i <= j
  <1>2. first \in failing
    BY <1>1
  <1>3. FaultKind(checks[first], p) \in {"InvalidParam", "MissingParam"}
    BY <1>2 DEF FaultKind
  <1> QED
    BY <1>1, <1>3 DEF FirstFault

\* The relay never leaves the allowlist of the platform it runs on, whatever
\* path it is given and whatever else is registered.
THEOREM RelayStaysConfined == Spec => []RelayConfined
  <1>1. IInv => RelayConfined
    <2> SUFFICES ASSUME IInv, ran, request.cmd \in {"file.read", "file.write"}
                 PROVE  request.params["path"] \in Allowlist
      BY DEF RelayConfined, Allowlist
    <2>1. Refusal = "none"
      BY DEF IInv, RanWasCleared
    <2>2. FirstFault(handler.checks, request.params) = "none"
      BY <2>1 DEF Refusal
    <2>3. /\ DOMAIN handler.checks \in {1 .. 1, 1 .. 2}
          /\ handler.checks[1] = Required("path", Allowlist)
          /\ \A i \in DOMAIN handler.checks : handler.checks[i].absent = "MissingParam"
      BY RelayEntries DEF handler, handlers
    <2>4. ~Fails(handler.checks[1], request.params)
      BY <2>2, <2>3, FirstCheckHolds
    <2> QED
      BY <2>3, <2>4 DEF Fails, Required
  <1> QED
    BY <1>1, DispatchInvariant, PTL

-----------------------------------------------------------------------------
(* What a subscriber of the job sees: module ResultFeed.                   *)

\* What went out by the time the handler starts, and while it runs.
FramesOfStage == /\ stage \in {"received", "running", "finished"}
                 /\ stage = "received" => frames = <<>>
                 /\ stage = "running" => frames = <<"running">>

\* The last frame that went out.
Shown == IF frames = <<>> THEN "none" ELSE frames[Len(frames)]

\* Only a handler that is let through reports "running", and once.
LEMMA FramesInvariant == Spec => []FramesOfStage
  <1>1. Init => FramesOfStage
    BY DEF Init, FramesOfStage
  <1>2. FramesOfStage /\ [Next]_vars => FramesOfStage'
    <2> SUFFICES ASSUME FramesOfStage, [Next]_vars  PROVE FramesOfStage'
      OBVIOUS
    <2>1. CASE Refuse \/ ReadLocally \/ SpawnErr \/ ScriptErr \/ OutputErr \/ ScriptOk
      <3>1. stage' = "finished"
        BY <2>1 DEF Refuse, ReadLocally, SpawnErr, ScriptErr, OutputErr, ScriptOk,
                    ReturnErr, ReturnOk
      <3> QED
        BY <3>1 DEF FramesOfStage
    <2>2. CASE Start
      <3>1. frames = <<>> /\ frames' = Append(frames, "running") /\ stage' = "running"
        BY <2>2 DEF FramesOfStage, Start
      <3>2. frames' = <<"running">>
        BY <3>1
      <3> QED
        BY <3>1, <3>2 DEF FramesOfStage
    <2>3. CASE UNCHANGED vars
      BY <2>3 DEF FramesOfStage, vars
    <2> QED
      BY <2>1, <2>2, <2>3 DEF Next
  <1> QED
    BY <1>1, <1>2, PTL DEF Spec

\* A step shows the subscriber nothing new, or "running" first, or a
\* conclusion of what was not yet concluded.
LEMMA ShownMoves ==
  ASSUME FramesOfStage, [Next]_vars
  PROVE  \/ Shown' = Shown
         \/ Shown = "none" /\ Shown' = "running"
         \/ Shown \in {"none", "running"} /\ Shown' \in {"done", "error"}
  <1>1. CASE Refuse
    BY <1>1 DEF FramesOfStage, Shown, Refuse, ReturnErr
  <1>2. CASE Start
    BY <1>2 DEF FramesOfStage, Shown, Start
  <1>3. CASE ReadLocally \/ ScriptOk
    BY <1>3 DEF FramesOfStage, Shown, ReadLocally, ScriptOk, ReturnOk
  <1>4. CASE SpawnErr \/ ScriptErr \/ OutputErr
    BY <1>4 DEF FramesOfStage, Shown, SpawnErr, ScriptErr, OutputErr, ReturnErr
  <1>5. CASE UNCHANGED vars
    BY <1>5 DEF Shown, vars
  <1> QED
    BY <1>1, <1>2, <1>3, <1>4, <1>5 DEF Next

\* One dispatch implements the feed its job's subscriber was promised: for
\* every command, either caller and whatever the script does.
THEOREM DispatchImplementsFeed == Spec => ReportsConclude
  <1> DEFINE seen == ("this" :> IF frames = <<>> THEN "none" ELSE frames[Len(frames)])
  <1>1. seen = [j \in {"this"} |-> Shown]
    BY DEF :>, Shown
  <1>2. Init => Feed!Init
    BY DEF Init, Feed!Init, :>
  <1>3. FramesOfStage /\ [Next]_vars => [Feed!Next]_seen
    <2> SUFFICES ASSUME FramesOfStage, [Next]_vars
                 PROVE  seen' = seen \/ Feed!Next
      OBVIOUS
    <2>1. seen = [j \in {"this"} |-> Shown] /\ seen' = [j \in {"this"} |-> Shown']
      BY DEF :>, Shown
    <2>2. CASE Shown' = Shown
      BY <2>1, <2>2
    <2>3. CASE Shown = "none" /\ Shown' = "running"
      <3>1. Feed!Progress("this")
        BY <2>1, <2>3 DEF Feed!Progress
      <3> QED
        BY <3>1 DEF Feed!Next
    <2>4. CASE Shown \in {"none", "running"} /\ Shown' \in {"done", "error"}
      <3>1. Feed!Conclude("this")
        BY <2>1, <2>4 DEF Feed!Conclude
      <3> QED
        BY <3>1 DEF Feed!Next
    <2> QED
      BY <2>2, <2>3, <2>4, ShownMoves
  <1> QED
    BY <1>2, <1>3, FramesInvariant, PTL DEF Spec, ReportsConclude, Feed!Spec

-----------------------------------------------------------------------------
(* What a list of checks refuses.                                         *)

\* What the functions of util.rs build.
LEMMA Built ==
  ASSUME NEW k, NEW ok
  PROVE  /\ Required(k, ok).key = k /\ Required(k, ok).ok = ok
         /\ Required(k, ok).absent = "MissingParam"
         /\ Optional(k, ok).key = k /\ Optional(k, ok).ok = ok
         /\ Optional(k, ok).absent = "ok"
         /\ Present(k).key = k /\ Present(k).absent = "MissingParam"
  BY DEF Required, Optional, Present

\* What a check that fails says of a parameter that is not there.
Absences == {"ok", "MissingParam", "InvalidParam"}

\* Whatever w looks at, c looks at as well and refuses a bad value of it, but
\* for the parameters in free.
Checked(w, c, free) ==
  /\ \E S : w \in Seq(S) /\ c \in Seq(S)
  /\ \A i \in DOMAIN c : c[i].absent \in Absences
  /\ \A i \in DOMAIN w : \/ w[i].key \in free \cup {Nothing}
                         \/ \E j \in DOMAIN c : c[j].key = w[i].key /\ "bad" \notin c[j].ok

\* Two sequences, one behind the other.
Joins(x, w, v, S) == w \in Seq(S) /\ v \in Seq(S) /\ x = w \o v

\* What is in a sequence put together from two.
LEMMA Behind ==
  ASSUME NEW S, NEW w, NEW v, NEW x, Joins(x, w, v, S)
  PROVE  /\ x \in Seq(S)
         /\ \A i \in DOMAIN w : i \in DOMAIN x /\ x[i] = w[i]
         /\ \A j \in DOMAIN v : \E i \in DOMAIN x : x[i] = v[j]
         /\ \A i \in DOMAIN x : \/ \E j \in DOMAIN w : x[i] = w[j]
                                \/ \E j \in DOMAIN v : x[i] = v[j]
<1>0. w \in Seq(S) /\ v \in Seq(S) /\ x = w \o v
  BY DEF Joins
<1>1. /\ x \in Seq(S) /\ Len(x) = Len(w) + Len(v)
      /\ \A i \in 1 .. Len(x) : x[i] = IF i <= Len(w) THEN w[i] ELSE v[i - Len(w)]
  BY <1>0, ConcatProperties
<1>2. /\ DOMAIN w = 1 .. Len(w) /\ DOMAIN v = 1 .. Len(v) /\ DOMAIN x = 1 .. Len(x)
      /\ Len(w) \in Nat /\ Len(v) \in Nat
  BY <1>0, <1>1
<1>3. \A i \in DOMAIN w : i \in DOMAIN x /\ x[i] = w[i]
  BY <1>1, <1>2
<1>4. ASSUME NEW j \in DOMAIN v PROVE \E i \in DOMAIN x : x[i] = v[j]
  <2>1. j \in 1 .. Len(v)
    BY <1>2
  <2>2. /\ Len(w) + j \in 1 .. Len(x) /\ ~(Len(w) + j <= Len(w))
        /\ (Len(w) + j) - Len(w) = j
    BY <1>1, <1>2, <2>1
  <2>3. Len(w) + j \in DOMAIN x /\ x[Len(w) + j] = v[j]
    BY <1>1, <1>2, <2>2
  <2>4. QED
    BY <2>3
<1>5. ASSUME NEW i \in DOMAIN x
      PROVE  \/ \E j \in DOMAIN w : x[i] = w[j]
             \/ \E j \in DOMAIN v : x[i] = v[j]
  <2>1. CASE i <= Len(w)
    <3>1. i \in DOMAIN w /\ x[i] = w[i]
      BY <1>1, <1>2, <2>1
    <3>2. QED
      BY <3>1
  <2>2. CASE ~(i <= Len(w))
    <3>1. i - Len(w) \in DOMAIN v /\ x[i] = v[i - Len(w)]
      BY <1>1, <1>2, <2>2
    <3>2. QED
      BY <3>1
  <2>3. QED
    BY <2>1, <2>2
<1>6. QED
  BY <1>1, <1>3, <1>4, <1>5

\* Checks are put together as the handlers put them together.
LEMMA CheckedConcat ==
  ASSUME NEW free, NEW w, NEW c, NEW v, NEW d, Checked(w, c, free), Checked(v, d, free)
  PROVE  Checked(w \o v, c \o d, free)
<1>1. PICK S : w \in Seq(S) /\ c \in Seq(S)
  BY DEF Checked
<1>2. PICK T : v \in Seq(T) /\ d \in Seq(T)
  BY DEF Checked
<1> DEFINE U == S \cup T
<1>3. w \in Seq(U) /\ c \in Seq(U) /\ v \in Seq(U) /\ d \in Seq(U)
  BY <1>1, <1>2
<1> HIDE DEF U
<1>4. PICK x, y : x = w \o v /\ y = c \o d
  OBVIOUS
<1>J. Joins(x, w, v, U) /\ Joins(y, c, d, U)
  BY <1>3, <1>4 DEF Joins
<1>5. /\ x \in Seq(U)
      /\ \A i \in DOMAIN x : \/ \E j \in DOMAIN w : x[i] = w[j]
                             \/ \E j \in DOMAIN v : x[i] = v[j]
  BY <1>J, Behind
<1>6. /\ y \in Seq(U)
      /\ \A i \in DOMAIN c : i \in DOMAIN y /\ y[i] = c[i]
      /\ \A j \in DOMAIN d : \E i \in DOMAIN y : y[i] = d[j]
      /\ \A i \in DOMAIN y : \/ \E j \in DOMAIN c : y[i] = c[j]
                             \/ \E j \in DOMAIN d : y[i] = d[j]
  BY <1>J, Behind
<1>7. \A i \in DOMAIN y : y[i].absent \in Absences
  BY <1>6 DEF Checked
<1>8. ASSUME NEW i \in DOMAIN x
      PROVE  \/ x[i].key \in free \cup {Nothing}
             \/ \E j \in DOMAIN y : y[j].key = x[i].key /\ "bad" \notin y[j].ok
  <2>1. CASE \E j \in DOMAIN w : x[i] = w[j]
    BY <1>6, <2>1 DEF Checked
  <2>2. CASE \E j \in DOMAIN v : x[i] = v[j]
    <3>1. \/ x[i].key \in free \cup {Nothing}
          \/ \E j \in DOMAIN d : d[j].key = x[i].key /\ "bad" \notin d[j].ok
      BY <2>2 DEF Checked
    <3>2. QED
      BY <1>6, <3>1
  <2>3. QED
    BY <1>5, <2>1, <2>2
<1>9. Checked(x, y, free)
  BY <1>5, <1>6, <1>7, <1>8 DEF Checked
<1>10. QED
  BY <1>4, <1>9

\* One that refuses bad values by itself.
LEMMA CheckedAlone ==
  ASSUME NEW free, NEW S, NEW c \in Seq(S), \A i \in DOMAIN c : c[i].absent \in Absences,
         \A i \in DOMAIN c : c[i].key \in free \cup {Nothing} \/ "bad" \notin c[i].ok
  PROVE  Checked(c, c, free)
  BY DEF Checked

\* required() before a check of the same parameters says nothing of its own.
LEMMA CheckedTwice ==
  ASSUME NEW free, NEW S, NEW b \in Seq(S), NEW c, Checked(c, c, free),
         \A i \in DOMAIN b : b[i].absent \in Absences,
         \A i \in DOMAIN b : \E j \in DOMAIN c : c[j].key = b[i].key /\ "bad" \notin c[j].ok
  PROVE  Checked(b \o c, b \o c, free)
<1>1. PICK T : c \in Seq(T)
  BY DEF Checked
<1> DEFINE U == S \cup T
<1>2. b \in Seq(U) /\ c \in Seq(U)
  BY <1>1
<1> HIDE DEF U
<1>3. PICK x : x = b \o c
  OBVIOUS
<1>J. Joins(x, b, c, U)
  BY <1>2, <1>3 DEF Joins
<1>4. /\ x \in Seq(U)
      /\ \A j \in DOMAIN c : \E i \in DOMAIN x : x[i] = c[j]
      /\ \A i \in DOMAIN x : \/ \E j \in DOMAIN b : x[i] = b[j]
                             \/ \E j \in DOMAIN c : x[i] = c[j]
  BY <1>J, Behind
<1>5. \A i \in DOMAIN x : x[i].absent \in Absences
  BY <1>4 DEF Checked
<1>6. ASSUME NEW i \in DOMAIN x
      PROVE  \/ x[i].key \in free \cup {Nothing}
             \/ \E j \in DOMAIN x : x[j].key = x[i].key /\ "bad" \notin x[j].ok
  <2>1. \/ x[i].key \in free \cup {Nothing}
        \/ \E j \in DOMAIN c : c[j].key = x[i].key /\ "bad" \notin c[j].ok
    BY <1>4 DEF Checked
  <2>2. QED
    BY <1>4, <2>1
<1>7. Checked(x, x, free)
  BY <1>4, <1>5, <1>6 DEF Checked
<1>8. QED
  BY <1>3, <1>7

\* A list, of whatever.
IsList(ks) == \E S : ks \in Seq(S)

\* The lists of names that handlers write down.
LEMMA NamesAreLists ==
  /\ \A a, b : IsList(<<a, b>>)
  /\ \A a, b, c : IsList(<<a, b, c>>)
  /\ \A a, b, c, d : IsList(<<a, b, c, d>>)
<1>1. \A a, b : <<a, b>> \in Seq({a, b})
  OBVIOUS
<1>2. \A a, b, c : <<a, b, c>> \in Seq({a, b, c})
  OBVIOUS
<1>3. \A a, b, c, d : <<a, b, c, d>> \in Seq({a, b, c, d})
  OBVIOUS
<1>4. QED
  BY <1>1, <1>2, <1>3, Zenon DEF IsList

\* RequiredAll and its like.
LEMMA ListsOfChecks ==
  ASSUME NEW free, NEW ks, IsList(ks), NEW ok, "bad" \notin ok
  PROVE  /\ Checked(RequiredAll(ks), RequiredAll(ks), free)
         /\ Checked(OptionalAll(ks, ok), OptionalAll(ks, ok), free)
<1>1. DOMAIN ks = 1 .. Len(ks) /\ Len(ks) \in Nat
  BY DEF IsList
<1>2. "bad" \notin Good
  BY DEF Good
<1>3. Checked(RequiredAll(ks), RequiredAll(ks), free)
  <2> DEFINE c == RequiredAll(ks)
  <2>1. DOMAIN c = 1 .. Len(ks) /\ \A i \in DOMAIN c : c[i] = Required(ks[i], Good)
    BY <1>1 DEF RequiredAll
  <2>2. c \in Seq({c[i] : i \in 1 .. Len(ks)})
    BY <1>1, <2>1 DEF RequiredAll
  <2> HIDE DEF c
  <2>3. \A i \in DOMAIN c : c[i].absent \in Absences /\ "bad" \notin c[i].ok
    BY <1>2, <2>1, Built DEF Absences
  <2>4. Checked(c, c, free)
    BY <2>2, <2>3, CheckedAlone
  <2>5. QED
    BY <2>4 DEF c
<1>4. Checked(OptionalAll(ks, ok), OptionalAll(ks, ok), free)
  <2> DEFINE c == OptionalAll(ks, ok)
  <2>1. DOMAIN c = 1 .. Len(ks) /\ \A i \in DOMAIN c : c[i] = Optional(ks[i], ok)
    BY <1>1 DEF OptionalAll
  <2>2. c \in Seq({c[i] : i \in 1 .. Len(ks)})
    BY <1>1, <2>1 DEF OptionalAll
  <2> HIDE DEF c
  <2>3. \A i \in DOMAIN c : c[i].absent \in Absences /\ "bad" \notin c[i].ok
    BY <2>1, Built DEF Absences
  <2>4. Checked(c, c, free)
    BY <2>2, <2>3, CheckedAlone
  <2>5. QED
    BY <2>4 DEF c
<1>5. QED
  BY <1>3, <1>4

\* A check that refuses a bad value of what it looks at, if that is not free.
Refuses(r, free) == /\ r.absent \in Absences
                    /\ r.key \in free \cup {Nothing} \/ "bad" \notin r.ok

\* What required() and a validator, or a validator alone, refuse.
LEMMA Refusing ==
  ASSUME NEW free, NEW k, NEW ok, k \in free \/ "bad" \notin ok
  PROVE  Refuses(Required(k, ok), free) /\ Refuses(Optional(k, ok), free)
  BY Built DEF Refuses, Absences

\* The short lists of checks that handlers write down one by one.
LEMMA ShortLists ==
  ASSUME NEW free
  PROVE  /\ Checked(<<>>, <<>>, free)
         /\ \A a : Refuses(a, free) => Checked(<<a>>, <<a>>, free)
         /\ \A a, b : Refuses(a, free) /\ Refuses(b, free)
                        => Checked(<<a, b>>, <<a, b>>, free)
         /\ \A a, b, c : Refuses(a, free) /\ Refuses(b, free) /\ Refuses(c, free)
                           => Checked(<<a, b, c>>, <<a, b, c>>, free)
<1>1. PICK none : none = <<>>
  OBVIOUS
<1>2. Checked(<<>>, <<>>, free)
  <2>1. none \in Seq({}) /\ DOMAIN none = {}
    BY <1>1
  <2>2. Checked(none, none, free)
    BY <2>1, CheckedAlone
  <2>3. QED
    BY <1>1, <2>2
<1>3. ASSUME NEW a, Refuses(a, free) PROVE Checked(<<a>>, <<a>>, free)
  <2>1. PICK x : x = <<a>>
    OBVIOUS
  <2>2. x \in Seq({a}) /\ \A i \in DOMAIN x : x[i] = a
    BY <2>1
  <2>3. Checked(x, x, free)
    BY <1>3, <2>2, CheckedAlone DEF Refuses
  <2>4. QED
    BY <2>1, <2>3
<1>4. ASSUME NEW a, NEW b, Refuses(a, free), Refuses(b, free)
      PROVE  Checked(<<a, b>>, <<a, b>>, free)
  <2>1. PICK x : x = <<a, b>>
    OBVIOUS
  <2>2. x \in Seq({a, b}) /\ \A i \in DOMAIN x : x[i] \in {a, b}
    BY <2>1
  <2>3. Checked(x, x, free)
    BY <1>4, <2>2, CheckedAlone DEF Refuses
  <2>4. QED
    BY <2>1, <2>3
<1>5. ASSUME NEW a, NEW b, NEW c, Refuses(a, free), Refuses(b, free), Refuses(c, free)
      PROVE  Checked(<<a, b, c>>, <<a, b, c>>, free)
  <2>1. PICK x : x = <<a, b, c>>
    OBVIOUS
  <2>2. x \in Seq({a, b, c}) /\ \A i \in DOMAIN x : x[i] \in {a, b, c}
    BY <2>1
  <2>3. Checked(x, x, free)
    BY <1>5, <2>2, CheckedAlone DEF Refuses
  <2>4. QED
    BY <2>1, <2>3
<1>6. QED
  BY <1>2, <1>3, <1>4, <1>5

\* ... and the longer ones.
LEMMA LongerLists ==
  ASSUME NEW free, NEW a, NEW b, NEW c, NEW d,
         Refuses(a, free), Refuses(b, free), Refuses(c, free), Refuses(d, free)
  PROVE  /\ Checked(<<a, b, c, d>>, <<a, b, c, d>>, free)
         /\ \A e : Refuses(e, free) => Checked(<<a, b, c, d, e>>, <<a, b, c, d, e>>, free)
<1>1. Checked(<<a, b, c, d>>, <<a, b, c, d>>, free)
  <2>1. PICK x : x = <<a, b, c, d>>
    OBVIOUS
  <2>2. x \in Seq({a, b, c, d}) /\ \A i \in DOMAIN x : x[i] \in {a, b, c, d}
    BY <2>1
  <2>3. Checked(x, x, free)
    BY <2>2, CheckedAlone DEF Refuses
  <2>4. QED
    BY <2>1, <2>3
<1>2. ASSUME NEW e, Refuses(e, free)
      PROVE  Checked(<<a, b, c, d, e>>, <<a, b, c, d, e>>, free)
  <2>1. PICK x : x = <<a, b, c, d, e>>
    OBVIOUS
  <2>2. x \in Seq({a, b, c, d, e}) /\ \A i \in DOMAIN x : x[i] \in {a, b, c, d, e}
    BY <2>1
  <2>3. Checked(x, x, free)
    BY <1>2, <2>2, CheckedAlone DEF Refuses
  <2>4. QED
    BY <2>1, <2>3
<1>3. QED
  BY <1>1, <1>2

\* A handler that asks whether the parameters are there before it validates them.
LEMMA PresentFirst ==
  ASSUME NEW free, NEW ks, IsList(ks), NEW c, Checked(c, c, free),
         \A i \in DOMAIN ks : \E j \in DOMAIN c : c[j].key = ks[i] /\ "bad" \notin c[j].ok
  PROVE  Checked(PresentAll(ks) \o c, PresentAll(ks) \o c, free)
<1> DEFINE b == PresentAll(ks)
<1>1. DOMAIN ks = 1 .. Len(ks) /\ Len(ks) \in Nat
  BY DEF IsList
<1>2. DOMAIN b = DOMAIN ks /\ \A i \in DOMAIN b : b[i] = Present(ks[i])
  BY DEF PresentAll
<1>3. b \in Seq({b[i] : i \in 1 .. Len(ks)})
  BY <1>1, <1>2 DEF PresentAll
<1> HIDE DEF b
<1>4. \A i \in DOMAIN b : b[i].absent \in Absences /\ b[i].key = ks[i]
  BY <1>2, Built DEF Absences
<1>5. \A i \in DOMAIN b : b[i].absent \in Absences
  BY <1>4
<1>6. \A i \in DOMAIN b : \E j \in DOMAIN c : c[j].key = b[i].key /\ "bad" \notin c[j].ok
  BY <1>2, <1>4
<1>7. Checked(b \o c, b \o c, free)
  BY <1>3, <1>5, <1>6, CheckedTwice
<1>8. QED
  BY <1>7 DEF b

\* What a branch that is not taken leaves unread.
LEMMA LeftUnread ==
  ASSUME NEW free, NEW r, r.key \in free
  PROVE  Checked(<<r>>, <<>>, free)
<1>1. PICK x, y : x = <<r>> /\ y = <<>>
  OBVIOUS
<1>2. /\ x \in Seq({r}) /\ y \in Seq({r}) /\ DOMAIN y = {}
      /\ \A i \in DOMAIN x : x[i] = r
  BY <1>1
<1>3. Checked(x, y, free)
  BY <1>2 DEF Checked
<1>4. QED
  BY <1>1, <1>3

\* Either way, one of several asks for no value of any of them.
LEMMA OneOfSeveral ==
  ASSUME NEW free, NEW p, NEW q, NEW ks
  PROVE  Checked(NeedOne(q, ks), NeedOne(p, ks), free)
<1> DEFINE r == Required(Nothing, {})
<1>1. r.key = Nothing /\ r.absent \in Absences
  BY Built DEF Absences
<1> HIDE DEF r
<1>2. PICK x, y : x = NeedOne(q, ks) /\ y = NeedOne(p, ks)
  OBVIOUS
<1>3. x \in {<<>>, <<r>>} /\ y \in {<<>>, <<r>>}
  BY <1>2 DEF NeedOne, r
<1>4. ASSUME NEW z \in {<<>>, <<r>>}
      PROVE  z \in Seq({r}) /\ \A i \in DOMAIN z : z[i] = r
  <2>1. CASE z = <<>>
    BY <2>1
  <2>2. CASE z = <<r>>
    BY <2>2
  <2>3. QED
    BY <2>1, <2>2
<1>5. Checked(x, y, free)
  BY <1>1, <1>3, <1>4 DEF Checked
<1>6. QED
  BY <1>2, <1>5

-----------------------------------------------------------------------------
(* The handlers.                                                           *)

\* What no validator of theirs lets pass.
LEMMA BadIsBad ==
  /\ "bad" \notin Good /\ "bad" \notin OrEmpty /\ "bad" \notin WinPath
  /\ "bad" \notin WinPath \cup {"empty"} /\ "bad" \notin ProductPath
  /\ "bad" \notin {"winRelay"} /\ "bad" \notin {"posixProduct"}
  /\ "bad" \notin {"good", "web"} /\ "bad" \notin {"good", "true"}
  /\ "bad" \notin {"RSA", "ECDSA", "ML-DSA-87"} /\ "bad" \notin {"Root", "Issuing"}
  BY DEF Good, OrEmpty, WinPath, ProductPath

\* What every handler may hand on as it is.
Unvalidated == {"script", "interface"}

\* Commands for the host itself.
LEMMA HostChecks ==
  ASSUME NEW free, Unvalidated \subseteq free
  PROVE  \A c \in {HostnameRename, HostnameRead, IpRead, IpWrite, ExecArbitrary,
                   SystemIdentity, SystemReboot, SystemBootInfo, FileRead, FileWrite} :
           Checked(c, c, free)
<1>1. Checked(HostnameRename, HostnameRename, free)
  BY BadIsBad, Refusing, ShortLists DEF HostnameRename
<1>2. Checked(<<>>, <<>>, free)
  BY ShortLists
<1>3. Checked(IpWrite, IpWrite, free)
  <2>1. /\ Refuses(Required("address", Good), free)
        /\ Refuses(Optional("prefixLength", Good), free)
        /\ Refuses(Optional("gateway", OrEmpty), free)
    BY BadIsBad, Refusing
  <2>2. Refuses(Optional("interface", AnyValue), free)
    BY Refusing DEF Unvalidated
  <2>3. QED
    BY <2>1, <2>2, LongerLists DEF IpWrite
<1>4. Checked(ExecArbitrary, ExecArbitrary, free)
  <2>1. Refuses(Required("script", AnyValue), free)
    BY Refusing DEF Unvalidated
  <2>2. QED
    BY <2>1, ShortLists DEF ExecArbitrary, Present
<1>5. Checked(SystemReboot, SystemReboot, free)
  BY BadIsBad, Refusing, ShortLists DEF SystemReboot
<1>6. Checked(FileRead, FileRead, free)
  BY BadIsBad, Refusing, ShortLists DEF FileRead
<1>7. Checked(FileWrite, FileWrite, free)
  <2>1. Checked(<<Required("contentB64", Good)>>, <<Required("contentB64", Good)>>, free)
    BY BadIsBad, Refusing, ShortLists
  <2>2. QED
    BY <1>6, <2>1, CheckedConcat DEF FileWrite
<1>8. QED
  BY <1>1, <1>2, <1>3, <1>4, <1>5, <1>6, <1>7
     DEF HostnameRead, IpRead, SystemIdentity, SystemBootInfo

\* Those of linux.rs.
LEMMA LinuxChecks ==
  ASSUME NEW free
  PROVE  \A c \in {LinuxHostnameRead, LinuxSystemIdentity, LinuxSystemReboot,
                   LinuxSystemBootInfo, LinuxFileRead, LinuxFileWrite} :
           Checked(c, c, free)
<1>1. Checked(<<>>, <<>>, free)
  BY ShortLists
<1>2. Checked(LinuxSystemReboot, LinuxSystemReboot, free)
  BY BadIsBad, Refusing, ShortLists DEF LinuxSystemReboot
<1>3. Checked(LinuxFileRead, LinuxFileRead, free)
  BY BadIsBad, Refusing, ShortLists DEF LinuxFileRead
<1>4. Checked(LinuxFileWrite, LinuxFileWrite, free)
  <2>1. Checked(<<Required("contentB64", Good)>>, <<Required("contentB64", Good)>>, free)
    BY BadIsBad, Refusing, ShortLists
  <2>2. QED
    BY <1>3, <2>1, CheckedConcat DEF LinuxFileWrite
<1>5. QED
  BY <1>1, <1>2, <1>3, <1>4
     DEF LinuxHostnameRead, LinuxSystemIdentity, LinuxSystemBootInfo

\* username and password.
LEMMA CredentialChecks ==
  ASSUME NEW free
  PROVE  Checked(Credential, Credential, free)
  BY ListsOfChecks, NamesAreLists, BadIsBad DEF Credential

\* Certificates, templates and the web server.
LEMMA CertChecks ==
  ASSUME NEW free
  PROVE  \A c \in {CertEnroll, CertVerify, CertAddStore, CertDsPublish,
                   TemplateGrantAccess} : Checked(c, c, free)
<1>1. Checked(CertEnroll, CertEnroll, free)
  BY BadIsBad, Refusing, ShortLists DEF CertEnroll
<1>2. Checked(CertVerify, CertVerify, free)
  <2> DEFINE paths == OptionalAll(<<"path", "rootPath", "issuingPath">>,
                                  WinPath \cup {"empty"})
  <2>1. Checked(paths, paths, free)
    BY ListsOfChecks, NamesAreLists, BadIsBad
  <2>2. Checked(<<Present("path")>> \o paths, <<Present("path")>> \o paths, free)
    <3>1. PICK b : b = <<Present("path")>>
      OBVIOUS
    <3>2. /\ b \in Seq({Present("path")}) /\ \A i \in DOMAIN b : b[i] = Present("path")
      BY <3>1
    <3>3. 1 \in DOMAIN paths /\ paths[1] = Optional("path", WinPath \cup {"empty"})
      BY DEF OptionalAll
    <3> HIDE DEF paths
    <3>4. \A i \in DOMAIN b : b[i].absent \in Absences
      BY <3>2, Built DEF Absences
    <3>5. \A i \in DOMAIN b : \E j \in DOMAIN paths :
            paths[j].key = b[i].key /\ "bad" \notin paths[j].ok
      BY <3>2, <3>3, Built, BadIsBad
    <3>6. Checked(b \o paths, b \o paths, free)
      BY <2>1, <3>2, <3>4, <3>5, CheckedTwice
    <3>7. QED
      BY <3>1, <3>6
  <2>3. Checked(<<Optional("expectedSignatureOid", Good)>>,
                <<Optional("expectedSignatureOid", Good)>>, free)
    BY BadIsBad, Refusing, ShortLists
  <2>4. QED
    BY <2>2, <2>3, CheckedConcat DEF CertVerify
<1>3. Checked(CertAddStore, CertAddStore, free)
  BY BadIsBad, Refusing, ShortLists DEF CertAddStore
<1>4. Checked(CertDsPublish, CertDsPublish, free)
  BY BadIsBad, Refusing, ShortLists DEF CertDsPublish
<1>5. Checked(TemplateGrantAccess, TemplateGrantAccess, free)
  <2>1. Checked(RequiredAll(<<"template", "computer">>),
                RequiredAll(<<"template", "computer">>), free)
    BY ListsOfChecks, NamesAreLists, BadIsBad
  <2>2. QED
    BY <2>1, CredentialChecks, CheckedConcat DEF TemplateGrantAccess
<1>6. QED
  BY <1>1, <1>2, <1>3, <1>4, <1>5

\* Domain controllers, members and DNS.
LEMMA DomainChecks ==
  ASSUME NEW free, Unvalidated \subseteq free
  PROVE  \A c \in {DomainJoin, DomainVerify, DcInstallForest, DcVerify, DnsSetClient,
                   DnsCreateRecord, DnsApplyResources} : Checked(c, c, free)
<1>1. Checked(DomainJoin, DomainJoin, free)
  <2>1. Checked(<<Required("domainName", Good)>>, <<Required("domainName", Good)>>, free)
    BY BadIsBad, Refusing, ShortLists
  <2>2. QED
    BY <2>1, CredentialChecks, CheckedConcat DEF DomainJoin
<1>2. Checked(<<>>, <<>>, free)
  BY ShortLists
<1>3. Checked(DcInstallForest, DcInstallForest, free)
  <2> DEFINE rest == <<Optional("forestMode", Good), Required("safeModePassword", Good)>>
  <2>1. Checked(RequiredAll(<<"domainName", "netbiosName">>),
                RequiredAll(<<"domainName", "netbiosName">>), free)
    BY ListsOfChecks, NamesAreLists, BadIsBad
  <2>2. Checked(rest, rest, free)
    BY BadIsBad, Refusing, ShortLists
  <2>3. QED
    BY <2>1, <2>2, CheckedConcat DEF DcInstallForest
<1>4. Checked(DnsSetClient, DnsSetClient, free)
  <2>1. Refuses(Required("servers", Good), free)
    BY BadIsBad, Refusing
  <2>2. Refuses(Optional("interface", AnyValue), free)
    BY Refusing DEF Unvalidated
  <2>3. QED
    BY <2>1, <2>2, ShortLists DEF DnsSetClient
<1>5. Checked(DnsCreateRecord, DnsCreateRecord, free)
  BY ListsOfChecks, NamesAreLists, BadIsBad DEF DnsCreateRecord
<1>6. Checked(DnsApplyResources, DnsApplyResources, free)
  BY BadIsBad, Refusing, ShortLists DEF DnsApplyResources, PlannedRecords
<1>7. QED
  BY <1>1, <1>2, <1>3, <1>4, <1>5, <1>6 DEF DomainVerify, DcVerify

\* OCSP and the end-to-end check of the hierarchy.
LEMMA OcspChecks ==
  ASSUME NEW free
  PROVE  \A c \in {OcspInstall, OcspConfigureRevocation, OcspVerify, PkiVerify} :
           Checked(c, c, free)
<1>1. Checked(<<>>, <<>>, free)
  BY ShortLists
<1>2. Checked(OcspConfigureRevocation, OcspConfigureRevocation, free)
  <2> DEFINE rest == <<Required("caCertPath", WinPath), Optional("template", Good),
                       Optional("refreshMinutes", Good), Required("baseCrlUrls", Good),
                       Optional("deltaCrlUrls", OrEmpty)>>
  <2>1. Checked(RequiredAll(<<"name", "caConfig">>),
                RequiredAll(<<"name", "caConfig">>), free)
    BY ListsOfChecks, NamesAreLists, BadIsBad
  <2>2. /\ Refuses(Required("caCertPath", WinPath), free)
        /\ Refuses(Optional("template", Good), free)
        /\ Refuses(Optional("refreshMinutes", Good), free)
        /\ Refuses(Required("baseCrlUrls", Good), free)
        /\ Refuses(Optional("deltaCrlUrls", OrEmpty), free)
    BY BadIsBad, Refusing
  <2>3. Checked(rest, rest, free)
    BY <2>2, LongerLists
  <2>4. QED
    BY <2>1, <2>3, CheckedConcat DEF OcspConfigureRevocation
<1>3. Checked(PkiVerify, PkiVerify, free)
  <2> DEFINE names == <<"rootCaCommonName", "issuingCaCommonName">>
             all == <<"rootCaCommonName", "issuingCaCommonName", "templates", "httpUrls">>
             c == RequiredAll(all)
  <2>1. Checked(c, c, free)
    BY ListsOfChecks, NamesAreLists, BadIsBad
  <2>2. /\ 1 \in DOMAIN c /\ c[1] = Required("rootCaCommonName", Good)
        /\ 2 \in DOMAIN c /\ c[2] = Required("issuingCaCommonName", Good)
    BY DEF RequiredAll
  <2>3. IsList(names)
    BY NamesAreLists
  <2>4. \A i \in DOMAIN names : names[i] \in {"rootCaCommonName", "issuingCaCommonName"}
    OBVIOUS
  <2> HIDE DEF c, names
  <2>5. \A i \in DOMAIN names : \E j \in DOMAIN c : c[j].key = names[i] /\ "bad" \notin c[j].ok
    BY <2>2, <2>4, Built, BadIsBad
  <2>6. Checked(PresentAll(names) \o c, PresentAll(names) \o c, free)
    BY <2>1, <2>3, <2>5, PresentFirst
  <2>7. QED
    BY <2>6 DEF PkiVerify, names, c
<1>4. QED
  BY <1>1, <1>2, <1>3 DEF OcspInstall, OcspVerify

\* Paths of the product are asked for before either is validated.
LEMMA ProductPathChecks ==
  ASSUME NEW free
  PROVE  Checked(ProductPaths, ProductPaths, free)
<1> DEFINE names == <<"certPath", "keyPath">>
           c == <<Required("certPath", ProductPath), Required("keyPath", ProductPath)>>
<1>1. Checked(c, c, free)
  BY BadIsBad, Refusing, ShortLists
<1>2. /\ 1 \in DOMAIN c /\ c[1] = Required("certPath", ProductPath)
      /\ 2 \in DOMAIN c /\ c[2] = Required("keyPath", ProductPath)
  OBVIOUS
<1>3. IsList(names)
  BY NamesAreLists
<1>4. \A i \in DOMAIN names : names[i] \in {"certPath", "keyPath"}
  OBVIOUS
<1> HIDE DEF c, names
<1>5. \A i \in DOMAIN names : \E j \in DOMAIN c : c[j].key = names[i] /\ "bad" \notin c[j].ok
  BY <1>2, <1>4, Built, BadIsBad
<1>6. Checked(PresentAll(names) \o c, PresentAll(names) \o c, free)
  BY <1>1, <1>3, <1>5, PresentFirst
<1>7. QED
  BY <1>6 DEF ProductPaths, names, c

\* The appliance.
LEMMA ProductChecks ==
  ASSUME NEW free
  PROVE  \A c \in {AptRefresh, CertSecureWriteHosts, CertSecureMakeCert,
                   CertSecureInstall, CertSecureVerify, CertSecureHarden} :
           Checked(c, c, free)
<1>1. Checked(<<>>, <<>>, free)
  BY ShortLists
<1>2. Checked(CertSecureWriteHosts, CertSecureWriteHosts, free)
  BY BadIsBad, Refusing, ShortLists DEF CertSecureWriteHosts
<1>3. Checked(CertSecureMakeCert, CertSecureMakeCert, free)
  <2> DEFINE names == <<Required("names", Good), Optional("ip", OrEmpty)>>
             days == <<Optional("days", Good)>>
  <2>1. Checked(names, names, free) /\ Checked(days, days, free)
    BY BadIsBad, Refusing, ShortLists
  <2> HIDE DEF names, days
  <2>2. Checked(names \o ProductPaths, names \o ProductPaths, free)
    BY <2>1, ProductPathChecks, CheckedConcat
  <2>3. Checked(names \o ProductPaths \o days, names \o ProductPaths \o days, free)
    BY <2>1, <2>2, CheckedConcat
  <2>4. QED
    BY <2>3 DEF CertSecureMakeCert, names, days
<1>4. Checked(CertSecureInstall, CertSecureInstall, free)
  <2> DEFINE hosts == <<"frontendHost", "backendHost", "keycloakHost">>
             c == RequiredAll(hosts)
             realm == <<Required("keycloakRealm", Good)>>
  <2>1. Checked(c, c, free) /\ IsList(hosts)
    BY ListsOfChecks, NamesAreLists, BadIsBad
  <2>2. DOMAIN c = DOMAIN hosts /\ \A i \in DOMAIN hosts : c[i] = Required(hosts[i], Good)
    BY DEF RequiredAll
  <2>3. Checked(realm, realm, free)
    BY BadIsBad, Refusing, ShortLists
  <2> HIDE DEF c, hosts, realm
  <2>4. \A i \in DOMAIN hosts : \E j \in DOMAIN c : c[j].key = hosts[i] /\ "bad" \notin c[j].ok
    BY <2>2, Built, BadIsBad
  <2>5. Checked(PresentAll(hosts) \o c, PresentAll(hosts) \o c, free)
    BY <2>1, <2>4, PresentFirst
  <2>6. Checked(PresentAll(hosts) \o c \o realm, PresentAll(hosts) \o c \o realm, free)
    BY <2>3, <2>5, CheckedConcat
  <2>7. Checked(PresentAll(hosts) \o c \o realm \o ProductPaths,
                PresentAll(hosts) \o c \o realm \o ProductPaths, free)
    BY <2>6, ProductPathChecks, CheckedConcat
  <2>8. QED
    BY <2>7 DEF CertSecureInstall, hosts, c, realm
<1>5. Checked(CertSecureVerify, CertSecureVerify, free)
  <2>1. PICK x : x = CertSecureVerify
    OBVIOUS
  <2> DEFINE S == {Present("frontendUrl"), Optional("frontendUrl", OrEmpty),
                   Optional("keycloakUrl", OrEmpty)}
  <2>2. /\ x \in Seq(S) /\ \A i \in DOMAIN x : x[i] \in S
        /\ 2 \in DOMAIN x /\ x[2] = Optional("frontendUrl", OrEmpty)
    BY <2>1 DEF CertSecureVerify
  <2>3. \A i \in DOMAIN x : x[i].absent \in Absences
    BY <2>2, Built DEF Absences
  <2>4. \A i \in DOMAIN x : \E j \in DOMAIN x : x[j].key = x[i].key /\ "bad" \notin x[j].ok
    BY <2>2, Built, BadIsBad
  <2>5. Checked(x, x, free)
    <3> HIDE DEF S
    <3>1. QED
      BY <2>2, <2>3, <2>4 DEF Checked
  <2>6. QED
    BY <2>1, <2>5
<1>6. QED
  BY <1>1, <1>2, <1>3, <1>4, <1>5 DEF AptRefresh, CertSecureHarden

\* What opens every branch.
LEMMA WidestOpens ==
  /\ ParamOr(Widest, "caType", "Root") = "Issuing"
  /\ ParamOr(Widest, "keyAlgorithm", "RSA") = "RSA"
  /\ ParamOr(Widest, "scope", "good") = "good"
  /\ ParamOr(Widest, "requireAdSrv", "good") = "true"
  BY DEF ParamOr, Widest

\* Whatever is left unread is not needed in that branch of ca.install.
LEMMA InstallChecks ==
  ASSUME NEW p
  PROVE  Checked(CaInstall(Widest), CaInstall(p), Unchecked("ca.install", p))
<1> DEFINE free == Unchecked("ca.install", p)
           alg == <<Optional("keyAlgorithm", {"RSA", "ECDSA", "ML-DSA-87"})>>
           len == <<Optional("keyLength", Good)>>
           hash == <<Optional("hashAlgorithm", Good)>>
           ofLen(q) == IF ParamOr(q, "keyAlgorithm", "RSA") = "RSA" THEN len ELSE <<>>
           ofHash(q) == IF ParamOr(q, "keyAlgorithm", "RSA") = "ML-DSA-87" THEN <<>> ELSE hash
           name == <<Optional("caType", {"Root", "Issuing"}), Required("commonName", Good)>>
           years == <<Optional("validityYears", Good)>>
           ofType(q) == IF ParamOr(q, "caType", "Root") = "Issuing"
                        THEN ExecuteIssuing ELSE <<>>
<1>1. Checked(<<>>, <<>>, free)
  BY ShortLists
<1>2. Checked(alg, alg, free) /\ Checked(name, name, free) /\ Checked(years, years, free)
  BY BadIsBad, Refusing, ShortLists
<1>3. Checked(ofLen(Widest), ofLen(p), free)
  <2>1. Checked(len, len, free)
    BY BadIsBad, Refusing, ShortLists
  <2>2. CASE ParamOr(p, "keyAlgorithm", "RSA") = "RSA"
    BY <2>1, <2>2, WidestOpens
  <2>3. CASE ParamOr(p, "keyAlgorithm", "RSA") # "RSA"
    <3>1. "keyLength" \in free
      BY <2>3 DEF Unchecked
    <3>2. Checked(len, <<>>, free)
      BY <3>1, Built, LeftUnread
    <3>3. QED
      BY <2>3, <3>2, WidestOpens
  <2>4. QED
    BY <2>2, <2>3
<1>4. Checked(ofHash(Widest), ofHash(p), free)
  <2>1. Checked(hash, hash, free) /\ "RSA" # "ML-DSA-87"
    BY BadIsBad, Refusing, ShortLists
  <2>2. CASE ParamOr(p, "keyAlgorithm", "RSA") # "ML-DSA-87"
    BY <2>1, <2>2, WidestOpens
  <2>3. CASE ParamOr(p, "keyAlgorithm", "RSA") = "ML-DSA-87"
    <3>1. "hashAlgorithm" \in free
      BY <2>3 DEF Unchecked
    <3>2. Checked(hash, <<>>, free)
      BY <3>1, Built, LeftUnread
    <3>3. QED
      BY <2>1, <2>3, <3>2, WidestOpens
  <2>4. QED
    BY <2>2, <2>3
<1>5. Checked(ofType(Widest), ofType(p), free)
  <2> DEFINE urls == <<Optional("cpsUrl", OrEmpty), Optional("cpsOid", Good),
                       Optional("csrPath", WinPath)>>
  <2>1. ExecuteIssuing = urls \o Credential
    BY DEF ExecuteIssuing
  <2>2. Checked(urls, urls, free)
    BY BadIsBad, Refusing, ShortLists
  <2>3. Checked(ExecuteIssuing, ExecuteIssuing, free)
    BY <2>1, <2>2, CredentialChecks, CheckedConcat
  <2>4. CASE ParamOr(p, "caType", "Root") = "Issuing"
    BY <2>3, <2>4, WidestOpens
  <2>5. CASE ParamOr(p, "caType", "Root") # "Issuing"
    <3>1. {"cpsUrl", "cpsOid", "csrPath", "username", "password"} \subseteq free
      BY <2>5 DEF Unchecked
    <3>2. PICK x, y : x = ExecuteIssuing /\ y = <<>>
      OBVIOUS
    <3>3. DOMAIN y = {} /\ \A T : y \in Seq(T)
      BY <3>2
    <3>4. \E T : x \in Seq(T)
      BY <2>3, <3>2 DEF Checked
    <3>5. \A i \in DOMAIN x : x[i].key \in {"cpsUrl", "cpsOid", "csrPath", "username", "password"}
      <4> DEFINE T == {Optional("cpsUrl", OrEmpty), Optional("cpsOid", Good),
                       Optional("csrPath", WinPath), Required("username", Good),
                       Required("password", Good)}
      <4>1. urls \in Seq(T)
        OBVIOUS
      <4>2. Credential \in Seq(T)
        <5>1. Credential = <<Required("username", Good), Required("password", Good)>>
          BY DEF Credential, RequiredAll
        <5>2. QED
          BY <5>1
      <4> HIDE DEF urls, T
      <4>3. x \in Seq(T)
        BY <2>1, <3>2, <4>1, <4>2, ConcatProperties
      <4>4. \A i \in DOMAIN x : x[i] \in T
        BY <4>3
      <4>5. QED
        BY <4>4, Built DEF T
    <3>6. Checked(x, y, free)
      BY <3>1, <3>3, <3>4, <3>5 DEF Checked
    <3>7. QED
      BY <2>5, <3>2, <3>6, WidestOpens
  <2>6. QED
    BY <2>4, <2>5
<1>6. ASSUME NEW q PROVE CaInstall(q) = name \o (alg \o ofLen(q) \o ofHash(q)) \o years \o ofType(q)
  BY DEF CaInstall, CryptoParams
<1> HIDE DEF free, alg, ofLen, ofHash, name, years, ofType
<1>7. Checked(alg \o ofLen(Widest), alg \o ofLen(p), free)
  BY <1>2, <1>3, CheckedConcat
<1>8. Checked(alg \o ofLen(Widest) \o ofHash(Widest), alg \o ofLen(p) \o ofHash(p), free)
  BY <1>4, <1>7, CheckedConcat
<1>9. Checked(name \o (alg \o ofLen(Widest) \o ofHash(Widest)),
              name \o (alg \o ofLen(p) \o ofHash(p)), free)
  BY <1>2, <1>8, CheckedConcat
<1>10. Checked(name \o (alg \o ofLen(Widest) \o ofHash(Widest)) \o years,
               name \o (alg \o ofLen(p) \o ofHash(p)) \o years, free)
  BY <1>2, <1>9, CheckedConcat
<1>11. Checked(CaInstall(Widest), CaInstall(p), free)
  BY <1>5, <1>6, <1>10, CheckedConcat
<1>12. QED
  BY <1>11 DEF free

\* The other commands for the authorities.
LEMMA CaChecks ==
  ASSUME NEW free, NEW p
  PROVE  /\ \A c \in {CaPublishCrl, CaSignRequest, CaInstallCert, CaPublishTemplate,
                      CaVerify} : Checked(c, c, free)
         /\ Checked(CaConfigureSettings(Widest), CaConfigureSettings(p), free)
         /\ Checked(CaConfigureCdpAia(Widest), CaConfigureCdpAia(p), free)
<1>1. Checked(CaPublishCrl, CaPublishCrl, free)
  BY BadIsBad, Refusing, ShortLists DEF CaPublishCrl
<1>2. Checked(CaSignRequest, CaSignRequest, free)
  BY BadIsBad, Refusing, ShortLists DEF CaSignRequest
<1>3. Checked(CaInstallCert, CaInstallCert, free)
  <2>1. Checked(<<Required("certPath", WinPath)>>, <<Required("certPath", WinPath)>>, free)
    BY BadIsBad, Refusing, ShortLists
  <2>2. QED
    BY <2>1, CredentialChecks, CheckedConcat DEF CaInstallCert
<1>4. Checked(CaPublishTemplate, CaPublishTemplate, free)
  BY BadIsBad, Refusing, ShortLists DEF CaPublishTemplate
<1>5. Checked(<<>>, <<>>, free)
  BY ShortLists
<1>6. Checked(CaConfigureSettings(Widest), CaConfigureSettings(p), free)
  <2> DEFINE ks == {Settings[i] : i \in DOMAIN Settings}
  <2>1. IsList(Settings)
    <3>1. Settings \in Seq({"dsConfigDn", "crlPeriodUnits", "crlDeltaPeriodUnits",
                            "crlOverlapUnits", "validityPeriodUnits", "auditFilter",
                            "crlPeriod", "crlDeltaPeriod", "crlOverlapPeriod",
                            "validityPeriod"})
      BY DEF Settings
    <3>2. QED
      BY <3>1, Zenon DEF IsList
  <2>2. Checked(OptionalAll(Settings, OrEmpty), OptionalAll(Settings, OrEmpty), free)
    BY <2>1, ListsOfChecks, BadIsBad
  <2>3. Checked(NeedOne(Widest, ks), NeedOne(p, ks), free)
    BY OneOfSeveral
  <2> HIDE DEF ks
  <2>4. Checked(OptionalAll(Settings, OrEmpty) \o NeedOne(Widest, ks),
                OptionalAll(Settings, OrEmpty) \o NeedOne(p, ks), free)
    BY <2>2, <2>3, CheckedConcat
  <2>5. QED
    BY <2>4 DEF CaConfigureSettings, ks
<1>7. Checked(CaConfigureCdpAia(Widest), CaConfigureCdpAia(p), free)
  <2> DEFINE ks == {"aiaUrls", "cdpUrls"}
             urls == OptionalAll(<<"aiaUrls", "cdpUrls">>, OrEmpty)
  <2>1. Checked(urls, urls, free)
    BY ListsOfChecks, NamesAreLists, BadIsBad
  <2>2. Checked(NeedOne(Widest, ks), NeedOne(p, ks), free)
    BY OneOfSeveral
  <2> HIDE DEF ks, urls
  <2>3. Checked(NeedOne(Widest, ks) \o urls, NeedOne(p, ks) \o urls, free)
    BY <2>1, <2>2, CheckedConcat
  <2>4. QED
    BY <2>3 DEF CaConfigureCdpAia, ks, urls
<1>8. QED
  BY <1>1, <1>2, <1>3, <1>4, <1>5, <1>6, <1>7 DEF CaVerify

\* The web server: netbiosName names an account only in one of the scopes.
LEMMA WebServerChecks ==
  ASSUME NEW p
  PROVE  Checked(IisSetupCertEnroll(Widest), IisSetupCertEnroll(p),
                 Unchecked("iis.setup_certenroll", p))
<1> DEFINE free == Unchecked("iis.setup_certenroll", p)
           where == <<Optional("path", WinPath), Optional("scope", {"good", "web"})>>
           name == <<Required("netbiosName", Good)>>
           ofScope(q) == IF ParamOr(q, "scope", "good") = "web" THEN <<>> ELSE name
<1>1. Checked(where, where, free) /\ Checked(name, name, free)
  BY BadIsBad, Refusing, ShortLists
<1>2. Checked(ofScope(Widest), ofScope(p), free)
  <2>1. ofScope(Widest) = name
    BY WidestOpens
  <2>2. CASE ParamOr(p, "scope", "good") = "web"
    <3>1. "netbiosName" \in free
      BY <2>2 DEF Unchecked
    <3>2. Checked(name, <<>>, free)
      BY <3>1, Built, LeftUnread
    <3>3. QED
      BY <2>1, <2>2, <3>2
  <2>3. QED
    BY <1>1, <2>1, <2>2
<1>3. \A q : IisSetupCertEnroll(q) = where \o ofScope(q)
  BY DEF IisSetupCertEnroll
<1> HIDE DEF free, where, ofScope
<1>4. Checked(IisSetupCertEnroll(Widest), IisSetupCertEnroll(p), free)
  BY <1>1, <1>2, <1>3, CheckedConcat
<1>5. QED
  BY <1>4 DEF free

\* The DNS checks: the domain only matters when its records are asked for.
LEMMA RecordChecks ==
  ASSUME NEW p
  PROVE  Checked(DnsVerify(Widest), DnsVerify(p), Unchecked("dns.verify", p))
<1> DEFINE free == Unchecked("dns.verify", p)
           server == <<Required("server", Good), Optional("requireAdSrv", {"good", "true"})>>
           strict == [key |-> "domain", absent |-> "InvalidParam", ok |-> Good]
           loose == Optional("domain", AnyValue)
           ofDomain(q) == IF ParamOr(q, "requireAdSrv", "good") = "true"
                          THEN <<strict>> ELSE <<loose>>
           url == <<Optional("httpUrl", OrEmpty)>>
<1>1. /\ Checked(PlannedRecords, PlannedRecords, free)
      /\ Checked(server, server, free) /\ Checked(url, url, free)
  BY BadIsBad, Refusing, ShortLists DEF PlannedRecords
<1>2. Checked(ofDomain(Widest), ofDomain(p), free)
  <2>1. ofDomain(Widest) = <<strict>>
    BY WidestOpens
  <2>2. CASE ParamOr(p, "requireAdSrv", "good") = "true"
    <3>1. Refuses(strict, free)
      BY BadIsBad DEF Refuses, Absences
    <3>2. Checked(<<strict>>, <<strict>>, free)
      BY <3>1, ShortLists
    <3>3. QED
      BY <2>1, <2>2, <3>2
  <2>3. CASE ParamOr(p, "requireAdSrv", "good") # "true"
    <3>1. "domain" \in free
      BY <2>3 DEF Unchecked
    <3>2. loose.absent \in Absences
      BY Built DEF Absences
    <3>3. PICK x, y : x = <<strict>> /\ y = <<loose>>
      OBVIOUS
    <3>4. /\ x \in Seq({strict, loose}) /\ y \in Seq({strict, loose})
          /\ \A i \in DOMAIN x : x[i] = strict
          /\ \A i \in DOMAIN y : y[i] = loose
      BY <3>3
    <3>5. strict.key = "domain"
      OBVIOUS
    <3> HIDE DEF strict, loose, free
    <3>6. Checked(x, y, free)
      BY <3>1, <3>2, <3>4, <3>5 DEF Checked
    <3>7. QED
      BY <2>1, <2>3, <3>3, <3>6
  <2>4. QED
    BY <2>2, <2>3
<1>3. \A q : DnsVerify(q) = PlannedRecords \o server \o ofDomain(q) \o url
  BY DEF DnsVerify
<1> HIDE DEF free, server, ofDomain, url
<1>4. Checked(PlannedRecords \o server, PlannedRecords \o server, free)
  BY <1>1, CheckedConcat
<1>5. Checked(PlannedRecords \o server \o ofDomain(Widest),
              PlannedRecords \o server \o ofDomain(p), free)
  BY <1>2, <1>4, CheckedConcat
<1>6. Checked(DnsVerify(Widest), DnsVerify(p), free)
  BY <1>1, <1>3, <1>5, CheckedConcat
<1>7. QED
  BY <1>6 DEF free

-----------------------------------------------------------------------------
(* ... in the registry.                                                    *)

\* Whatever handler f names reads with Widest, that of g refuses, with p, to
\* take a bad value of.
Covers(f, g, p) ==
  /\ DOMAIN f = DOMAIN g
  /\ \A cmd \in DOMAIN g : Checked(f[cmd].checks, g[cmd].checks, Unchecked(cmd, p))

\* One registration.
LEMMA CoversOne ==
  ASSUME NEW cmd, NEW cap, NEW w, NEW c, NEW p, Checked(w, c, Unchecked(cmd, p))
  PROVE  Covers(cmd :> Handler(cap, w), cmd :> Handler(cap, c), p)
  BY DEF Covers, :>, Handler

\* One map of them looked in before another.
LEMMA CoversOver ==
  ASSUME NEW f, NEW g, NEW h, NEW k, NEW p, Covers(f, g, p), Covers(h, k, p)
  PROVE  Covers(f @@ h, g @@ k, p)
<1> DEFINE w == f @@ h
           c == g @@ k
<1>1. /\ DOMAIN w = DOMAIN f \cup DOMAIN h
      /\ \A x \in DOMAIN w : w[x] = IF x \in DOMAIN f THEN f[x] ELSE h[x]
  BY DEF @@
<1>2. /\ DOMAIN c = DOMAIN g \cup DOMAIN k
      /\ \A x \in DOMAIN c : c[x] = IF x \in DOMAIN g THEN g[x] ELSE k[x]
  BY DEF @@
<1> HIDE DEF w, c
<1>3. Covers(w, c, p)
  BY <1>1, <1>2 DEF Covers
<1>4. QED
  BY <1>3 DEF w, c

\* Each handler hands on unchecked what Unchecked says, at least.
LEMMA AnyHandler ==
  ASSUME NEW cmd, NEW p
  PROVE  Unvalidated \subseteq Unchecked(cmd, p)
  BY DEF Unvalidated, Unchecked

\* The groups of mod.rs, one after the other: what is kept from guests,
LEMMA AdminCovered == ASSUME NEW p PROVE Covers(AdminHandlers, AdminHandlers, p)
  BY AnyHandler, HostChecks, CoversOne, CoversOver DEF AdminHandlers

\* the relay,
LEMMA RelayCovered == ASSUME NEW p PROVE Covers(RelayHandlers, RelayHandlers, p)
  BY AnyHandler, HostChecks, CoversOne, CoversOver DEF RelayHandlers

\* the host,
LEMMA HostCovered == ASSUME NEW p PROVE Covers(HostHandlers, HostHandlers, p)
  BY AnyHandler, HostChecks, CoversOne, CoversOver DEF HostHandlers

\* the handlers of linux.rs that the unix build puts over those,
LEMMA LinuxCovered == ASSUME NEW p PROVE Covers(LinuxHandlers, LinuxHandlers, p)
<1>1. Covers(LinuxRelayHandlers, LinuxRelayHandlers, p)
  BY LinuxChecks, CoversOne, CoversOver DEF LinuxRelayHandlers
<1>2. Covers(LinuxHostHandlers, LinuxHostHandlers, p)
  BY LinuxChecks, CoversOne, CoversOver DEF LinuxHostHandlers
<1>3. QED
  BY <1>1, <1>2, CoversOver DEF LinuxHandlers

\* the appliance,
LEMMA ProductCovered == ASSUME NEW p PROVE Covers(ProductHandlers, ProductHandlers, p)
  BY ProductChecks, CoversOne, CoversOver DEF ProductHandlers

\* the authorities,
LEMMA CaCovered == ASSUME NEW p PROVE Covers(CaHandlers(Widest), CaHandlers(p), p)
  BY InstallChecks, CaChecks, CoversOne, CoversOver DEF CaHandlers

\* domains and DNS,
LEMMA DomainCovered == ASSUME NEW p PROVE Covers(DomainHandlers(Widest), DomainHandlers(p), p)
  BY AnyHandler, DomainChecks, RecordChecks, CoversOne, CoversOver DEF DomainHandlers

\* certificates, the web server and the responder.
LEMMA CertCovered == ASSUME NEW p PROVE Covers(CertHandlers(Widest), CertHandlers(p), p)
  BY CertChecks, WebServerChecks, OcspChecks, CoversOne, CoversOver DEF CertHandlers

\* Every handler of either platform.
LEMMA RegistryCovered ==
  ASSUME NEW p
  PROVE  Covers(Registry(platform, Widest), Registry(platform, p), p)
<1>1. Covers(ProvisioningHandlers(Widest), ProvisioningHandlers(p), p)
  BY HostCovered, CaCovered, DomainCovered, CertCovered, ProductCovered, CoversOver
     DEF ProvisioningHandlers
<1>2. Covers(DefaultHandlers(Widest), DefaultHandlers(p), p)
  BY <1>1, AdminCovered, RelayCovered, CoversOver DEF DefaultHandlers
<1>3. Covers(LinuxHandlers @@ DefaultHandlers(Widest), LinuxHandlers @@ DefaultHandlers(p), p)
  BY <1>2, LinuxCovered, CoversOver
<1>4. QED
  BY <1>2, <1>3 DEF Registry

-----------------------------------------------------------------------------
(* What a handler's checks let through.                                    *)

\* Of the checks that fail there is a first one.
LEMMA FirstOfSome ==
  ASSUME NEW F \in SUBSET Nat, F # {}
  PROVE  \E i \in F : \A j \in F : i <= j
<1> DEFINE Less == OpToRel(<, Nat)
<1>1. PICK m \in F : \A n \in F : <<n, m>> \notin Less
  <2> HIDE DEF Less
  <2>1. IsWellFoundedOn(Less, Nat)
    BY NatLessThanWellFounded DEF Less
  <2>2. QED
    BY <2>1, WFMin
<1>2. ASSUME NEW n \in F PROVE m <= n
  <2>1. ~(n < m)
    BY <1>1 DEF OpToRel
  <2>2. QED
    BY <2>1
<1>3. QED
  BY <1>2

\* A fault is a missing or a wrong parameter, and without one no check fails.
LEMMA FaultsAreFaults ==
  ASSUME NEW w, NEW c, NEW free, NEW p, Checked(w, c, free)
  PROVE  /\ FirstFault(c, p) \in {"none", "MissingParam", "InvalidParam"}
         /\ FirstFault(c, p) = "none" => \A i \in DOMAIN c : ~Fails(c[i], p)
<1> DEFINE failing == {i \in DOMAIN c : Fails(c[i], p)}
           first == CHOOSE i \in failing : \A j \in failing : i <= j
<1>1. failing \in SUBSET Nat
  BY DEF Checked
<1>2. FirstFault(c, p) = IF failing = {} THEN "none" ELSE FaultKind(c[first], p)
  BY DEF FirstFault
<1>3. CASE failing = {}
  BY <1>2, <1>3
<1>4. CASE failing # {}
  <2>1. first \in failing
    <3> HIDE DEF failing
    <3>1. \E i \in failing : \A j \in failing : i <= j
      BY <1>1, <1>4, FirstOfSome
    <3>2. QED
      BY <3>1
  <2>2. c[first].absent \in Absences /\ Fails(c[first], p)
    BY <2>1 DEF Checked
  <2> HIDE DEF first
  <2>3. FaultKind(c[first], p) \in {"MissingParam", "InvalidParam"}
    BY <2>2 DEF FaultKind, Fails, Absences
  <2>4. QED
    BY <1>2, <1>4, <2>3
<1>5. QED
  BY <1>3, <1>4

\* Parameters nobody reads are not looked at: what request.params may name.
ParamsRead == DOMAIN request.params \subseteq Keys(platform, request.cmd)

\* The commands of the registry are the same on either platform.
LEMMA NamesCovered == Commands \subseteq DOMAIN Registry(platform, Widest)
  BY DEF Commands, Registry, @@

\* A handler that lets a request through has seen each of its parameters.
LEMMA LetThrough ==
  ASSUME ParamsRead, Refusal = "none",
         NEW k \in DOMAIN request.params \ Unchecked(request.cmd, request.params)
  PROVE  request.params[k] # "bad"
<1> DEFINE p == request.params
           cmd == request.cmd
           free == Unchecked(cmd, p)
           w == Registry(platform, Widest)[cmd].checks
           c == handler.checks
<1>1. cmd \in Commands /\ k \in {w[i].key : i \in DOMAIN w} /\ k # Nothing
  BY DEF ParamsRead, Keys
<1>2. cmd \in DOMAIN Registry(platform, p)
  BY DEF Refusal, handlers
<1>3. Checked(w, c, free)
  BY <1>2, RegistryCovered DEF Covers, handler, handlers
<1>4. FirstFault(c, p) = "none"
  BY DEF Refusal
<1>5. k \notin free
  OBVIOUS
<1> HIDE DEF w, c, free
<1>6. PICK j \in DOMAIN c : c[j].key = k /\ "bad" \notin c[j].ok
  BY <1>1, <1>3, <1>5 DEF Checked
<1>7. ~Fails(c[j], p)
  BY <1>3, <1>4, FaultsAreFaults
<1>8. QED
  BY <1>6, <1>7 DEF Fails

\* What is tried names only parameters that some branch of the handler reads.
LEMMA ChoicesRead ==
  ASSUME NEW keys, NEW p \in ParamChoices(keys)
  PROVE  DOMAIN p \subseteq keys
<1>1. \E style \in {"none", "windows", "linux"},
         D \in {S \in SUBSET keys : Cardinality(S) <= MaxFaults} :
      p \in Around(keys, style, D)
  BY DEF ParamChoices
<1>2. PICK style, D : D \in SUBSET keys /\ p \in Around(keys, style, D)
  BY <1>1
<1>3. PICK base, f, E : base \subseteq keys /\ E \subseteq keys /\ p = Params(style, base, f, E)
  BY <1>2 DEF Around
<1>4. DOMAIN p = base \cup E
  BY <1>3 DEF Params
<1>5. QED
  BY <1>3, <1>4

\* ... and they never change.
LEMMA ParamsReadInvariant == Spec => []ParamsRead
<1>1. Init => ParamsRead
  BY ChoicesRead DEF Init, ParamsRead
<1>2. ParamsRead /\ [Next]_vars => ParamsRead'
  <2> SUFFICES ASSUME ParamsRead, [Next]_vars PROVE ParamsRead'
    OBVIOUS
  <2>1. UNCHANGED <<platform, request>>
    BY DEF Next, Refuse, Start, ReadLocally, SpawnErr, ScriptErr, OutputErr,
           ScriptOk, ReturnErr, ReturnOk, vars
  <2>2. Keys(platform, request.cmd)' = Keys(platform, request.cmd)
    BY <2>1 DEF Keys
  <2>3. QED
    BY <2>1, <2>2 DEF ParamsRead
<1>3. QED
  BY <1>1, <1>2, PTL DEF Spec

\* No value that its validator would refuse is behind a running script: of any
\* request, to any handler of either platform, in any branch of it, whatever
\* else is wrong with the request.  This is what a handler's author who adds a
\* branch, or a parameter to one, has to keep.
THEOREM NoBadValueReachesAScript == Spec => []NoBadValueRuns
<1>1. IInv /\ ParamsRead => NoBadValueRuns
  BY LetThrough DEF IInv, RanWasCleared, NoBadValueRuns
<1>2. QED
  BY <1>1, DispatchInvariant, ParamsReadInvariant, PTL

\* dispatch ends with Ok or with one of its errors, for every handler there is.
THEOREM DispatchTypeCorrect == Spec => []TypeOK
<1>1. Init => TypeOK
  <2> SUFFICES ASSUME Init PROVE TypeOK
    OBVIOUS
  <2>1. /\ request.cmd \in Commands \cup {"no.such.command"}
        /\ request.role \in {"operator", "guest"} /\ request.via \in {"phonehome", "cli"}
    BY DEF Init
  <2>2. frames \in Seq({"running", "done", "error"})
    BY DEF Init
  <2>3. QED
    BY <2>1, <2>2 DEF Init, TypeOK
<1>2. TypeOK /\ [Next]_vars => TypeOK'
  <2> SUFFICES ASSUME TypeOK, [Next]_vars PROVE TypeOK'
    OBVIOUS
  <2>1. UNCHANGED <<platform, request>>
    BY DEF Next, Refuse, Start, ReadLocally, SpawnErr, ScriptErr, OutputErr,
           ScriptOk, ReturnErr, ReturnOk, vars
  <2>2. CASE Refuse
    <3>1. Refusal \in {"none"} \cup Errors
      <4> DEFINE free == Unchecked(request.cmd, request.params)
                 w == Registry(platform, Widest)[request.cmd].checks
      <4>1. CASE request.cmd \notin DOMAIN handlers
        BY <4>1 DEF Refusal, Errors
      <4>2. CASE request.cmd \in DOMAIN handlers
        <5>1. Checked(w, handler.checks, free)
          BY <4>2, RegistryCovered DEF Covers, handler, handlers
        <5>2. FirstFault(handler.checks, request.params)
                \in {"none", "MissingParam", "InvalidParam"}
          BY <5>1, FaultsAreFaults
        <5>3. QED
          BY <5>2 DEF Refusal, Errors
      <4>3. QED
        BY <4>1, <4>2
    <3>2. QED
      BY <2>1, <2>2, <3>1 DEF TypeOK, Refuse, ReturnErr
  <2>3. CASE Start
    BY <2>1, <2>3 DEF TypeOK, Start
  <2>4. CASE ReadLocally
    BY <2>1, <2>4 DEF TypeOK, ReadLocally, ReturnOk
  <2>5. CASE SpawnErr
    BY <2>1, <2>5 DEF TypeOK, SpawnErr, ReturnErr, Errors
  <2>6. CASE ScriptErr
    BY <2>1, <2>6 DEF TypeOK, ScriptErr, ReturnErr, Errors
  <2>7. CASE OutputErr
    <3>1. Misread(request.cmd) \in Errors \cup {"none"}
      BY DEF Misread, Errors
    <3>2. QED
      BY <2>1, <2>7, <3>1 DEF TypeOK, OutputErr, ReturnErr
  <2>8. CASE ScriptOk
    BY <2>1, <2>8 DEF TypeOK, ScriptOk, ReturnOk
  <2>9. CASE UNCHANGED vars
    BY <2>9 DEF TypeOK, vars
  <2>10. QED
    BY <2>2, <2>3, <2>4, <2>5, <2>6, <2>7, <2>8, <2>9 DEF Next
<1>3. QED
  BY <1>1, <1>2, PTL DEF Spec

=============================================================================
