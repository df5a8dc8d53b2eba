---------------------------- MODULE ProvisionProofs ----------------------------
(***************************************************************************)
(* TLAPS proofs about Provision, for any set of plans, any number of       *)
(* scripts at once, and any bounds on faults and overlapping deliveries.   *)
(***************************************************************************)
EXTENDS Provision, FiniteSetTheorems, TLAPS

-----------------------------------------------------------------------------
(* The scripts: what the proofs need to know of them.                      *)

Names == {"PTR", "A", "CNAME"}

\* A step of a script that neither handles the scheduled task nor touches a
\* name of the plan's records.
Ordinary(st) ==
  /\ st.op \in {"put", "create", "ensure", "look", "ifAbsent", "drop", "check",
                "merge", "issue", "stop", "start"}
  /\ st.res \notin Names /\ st.val \in Values
  /\ st.op = "look" => st.res # "certsvc"

OrdinaryScript(script) ==
  /\ Len(script) \in 1 .. 14
  /\ \A i \in 1 .. Len(script) : Ordinary(script[i])

\* A setting written to the registry is an ordinary step.
LEMMA PutOrdinary ==
  ASSUME NEW r, r \notin Names
  PROVE  Ordinary(Put(r))
BY DEF Ordinary, Values, Names, Step, Put

\* Two ordinary parts make an ordinary script.
LEMMA OrdinaryConcat ==
  ASSUME NEW S, NEW a \in Seq(S), NEW b \in Seq(S),
         OrdinaryScript(a), OrdinaryScript(b), Len(a) + Len(b) <= 14
  PROVE  OrdinaryScript(a \o b)
<1>1. /\ Len(a \o b) = Len(a) + Len(b) /\ Len(a) \in Nat /\ Len(b) \in Nat
      /\ \A i \in 1 .. Len(a) : (a \o b)[i] = a[i]
      /\ \A i \in 1 .. Len(a) + Len(b) : i > Len(a) => (a \o b)[i] = b[i - Len(a)]
  OBVIOUS
<1>2. ASSUME NEW i \in 1 .. Len(a) + Len(b) PROVE Ordinary((a \o b)[i])
  <2>1. CASE i <= Len(a)
    BY <1>1, <2>1 DEF OrdinaryScript
  <2>2. CASE i > Len(a)
    <3>1. i - Len(a) \in 1 .. Len(b) /\ (a \o b)[i] = b[i - Len(a)]
      BY <1>1, <2>2
    <3>2. QED
      BY <3>1 DEF OrdinaryScript
  <2>3. QED
    BY <1>1, <2>1, <2>2
<1>3. Len(a \o b) \in 1 .. 14
  <2>1. Len(a) \in 1 .. 14 /\ Len(b) \in 1 .. 14
    BY Zenon DEF OrdinaryScript
  <2>a. \A x, y \in 1 .. 14 : x + y <= 14 => x + y \in 1 .. 14
    OBVIOUS
  <2>2. Len(a) + Len(b) \in 1 .. 14
    BY <2>1, <2>a, Zenon
  <2>3. QED
    BY <1>1, <2>2, Zenon
<1>4. QED
  BY <1>1, <1>2, <1>3 DEF OrdinaryScript

LEMMA ConfigureSettingsOrdinary == OrdinaryScript(ConfigureSettingsSteps)
<1>1. PICK puts : puts = [i \in 1 .. Len(Settings) |-> Put(Settings[i])]
  OBVIOUS
<1>2. PICK rest : rest = <<Lenient(Put("auditpol")), Service("stop"), Service("start")>>
  OBVIOUS
<1>3. PICK S : S = {puts[i] : i \in 1 .. 10} \cup {rest[i] : i \in 1 .. 3}
  OBVIOUS
<1>4. Len(Settings) = 10 /\ \A i \in 1 .. 10 : Settings[i] \notin Names
  BY DEF Settings, Names
<1>5. puts \in Seq(S) /\ Len(puts) = 10
  BY <1>1, <1>3, <1>4
<1>6. OrdinaryScript(puts)
  <2>1. \A i \in 1 .. 10 : puts[i] = Put(Settings[i])
    BY <1>1, <1>4
  <2>2. QED
    BY <1>4, <1>5, <2>1, PutOrdinary DEF OrdinaryScript
<1>7. rest \in Seq(S)
  BY <1>2, <1>3
<1>8. OrdinaryScript(rest)
  BY <1>2 DEF OrdinaryScript, Ordinary, Names, Values, Step, Put, Lenient, Service
<1>9. OrdinaryScript(puts \o rest)
  <2>1. Len(rest) = 3
    BY <1>2
  <2>2. Len(puts) + Len(rest) <= 14
    BY <1>5, <2>1
  <2>3. QED
    BY <1>5, <1>6, <1>7, <1>8, <2>2, OrdinaryConcat, Zenon
<1>10. QED
  BY <1>1, <1>2, <1>9, Zenon DEF ConfigureSettingsSteps

LEMMA ProvisioningOrdinary ==
  /\ OrdinaryScript(InstallSteps) /\ OrdinaryScript(ConfigureCdpAiaSteps)
  /\ OrdinaryScript(PublishCrlSteps) /\ OrdinaryScript(SignRequestSteps)
  /\ OrdinaryScript(PublishTemplateSteps) /\ OrdinaryScript(SetupCertEnrollSteps)
<1>1. OrdinaryScript(InstallSteps)
  BY DEF OrdinaryScript, Ordinary, Names, Values, Step, InstallSteps, Put, Create
<1>2. OrdinaryScript(ConfigureCdpAiaSteps)
  BY DEF OrdinaryScript, Ordinary, Names, Values, Step, ConfigureCdpAiaSteps, Urls, Put, Service
<1>3. OrdinaryScript(PublishCrlSteps) /\ OrdinaryScript(SignRequestSteps)
  BY DEF OrdinaryScript, Ordinary, Names, Values, Step, PublishCrlSteps, SignRequestSteps, Put, Check
<1>4. OrdinaryScript(PublishTemplateSteps)
  BY DEF OrdinaryScript, Ordinary, Names, Values, Step, PublishTemplateSteps, Ensure
<1>5. OrdinaryScript(SetupCertEnrollSteps)
  BY DEF OrdinaryScript, Ordinary, Names, Values, Step, SetupCertEnrollSteps, Put, Look, IfAbsent
<1>6. QED
  BY <1>1, <1>2, <1>3, <1>4, <1>5

LEMMA NetworkOrdinary ==
  /\ OrdinaryScript(DnsSetClientSteps) /\ OrdinaryScript(CreateRecordSteps)
  /\ OrdinaryScript(IpWriteSteps) /\ OrdinaryScript(OcspInstallSteps)
  /\ \A v \in Values : OrdinaryScript(GrantAccessSteps(v)) /\ OrdinaryScript(ConfigureRevocationSteps(v))
<1>1. OrdinaryScript(DnsSetClientSteps) /\ OrdinaryScript(CreateRecordSteps)
  BY DEF OrdinaryScript, Ordinary, Names, Values, Step, DnsSetClientSteps, CreateRecordSteps,
         Put, Check, Look, Drop, Create
<1>2. OrdinaryScript(IpWriteSteps)
  BY DEF OrdinaryScript, Ordinary, Names, Values, Step, IpWriteSteps, Put, Look, Drop, Create,
         Lenient
<1>3. OrdinaryScript(OcspInstallSteps)
  BY DEF OrdinaryScript, Ordinary, Names, Values, Step, OcspInstallSteps, Put, Ensure
<1>4. ASSUME NEW v \in Values
      PROVE  OrdinaryScript(GrantAccessSteps(v)) /\ OrdinaryScript(ConfigureRevocationSteps(v))
  BY DEF OrdinaryScript, Ordinary, Names, Values, Step, GrantAccessSteps,
         ConfigureRevocationSteps, Look, Merge
<1>5. QED
  BY <1>1, <1>2, <1>3, <1>4

LEMMA ShortOrdinary ==
  /\ OrdinaryScript(HostnameRenameSteps) /\ OrdinaryScript(AddStoreSteps)
  /\ OrdinaryScript(DsPublishSteps) /\ OrdinaryScript(EnrollSteps)
  /\ OrdinaryScript(DomainJoinSteps) /\ OrdinaryScript(InstallForestSteps)
  /\ OrdinaryScript(WindowsFileWriteSteps)
<1>1. /\ OrdinaryScript(HostnameRenameSteps) /\ OrdinaryScript(AddStoreSteps)
      /\ OrdinaryScript(DsPublishSteps) /\ OrdinaryScript(DomainJoinSteps)
  BY DEF OrdinaryScript, Ordinary, Names, Values, Step, HostnameRenameSteps, AddStoreSteps,
         DsPublishSteps, DomainJoinSteps, Put, Create
<1>2. /\ OrdinaryScript(EnrollSteps) /\ OrdinaryScript(InstallForestSteps)
      /\ OrdinaryScript(WindowsFileWriteSteps)
  BY DEF OrdinaryScript, Ordinary, Names, Values, Step, EnrollSteps, InstallForestSteps,
         WindowsFileWriteSteps, Put, Create
<1>3. QED
  BY <1>1, <1>2

\* Only two commands have a script that is not ordinary.
LEMMA MostOrdinary ==
  \A c \in Commands \ {"ca.install_cert", "dns.apply_resources"} :
    OrdinaryScript(Script(c))
BY ConfigureSettingsOrdinary, ProvisioningOrdinary, NetworkOrdinary, ShortOrdinary
   DEF Commands, Script, Values

\* ca.install_cert registers, launches and waits for a task, removes it in
\* its finally block, and starts the service.
LEMMA InstallCertScript ==
  LET s == Script("ca.install_cert") IN
  /\ Len(s) = 5
  /\ s[1].op = "register" /\ s[2].op = "launch" /\ s[3].op = "poll"
  /\ s[4].op = "unregister" /\ s[5].op = "start"
  /\ s[1].strict /\ s[2].strict /\ s[3].strict
  /\ \A i \in 1 .. 5 : s[i].res \notin Names /\ s[i].val = "planned"
BY DEF Script, InstallCertSteps, Task, Service, Lenient, Step, Names

\* dns.apply_resources looks at each name of the plan before it claims it.
LEMMA ApplyResourcesScript ==
  LET s == Script("dns.apply_resources") IN
  /\ Len(s) = 8
  /\ \A i \in 1 .. 8 : s[i].op \in {"look", "ifAbsent", "claim"}
  /\ \A i \in 1 .. 8 : s[i].val = "planned" /\ s[i].strict /\ s[i].res # "certsvc"
  /\ \A i \in 1 .. 8 : s[i].res \in Names => s[i].op \in {"look", "claim"}
  /\ \A i \in 1 .. 8 : s[i].op = "claim" =>
        i > 1 /\ s[i - 1].op = "look" /\ s[i - 1].res = s[i].res
<1>1. Script("dns.apply_resources") = ApplyResourcesSteps
  BY DEF Script
<1>2. QED
  BY <1>1 DEF ApplyResourcesSteps, Look, IfAbsent, Claim, Step, Names

\* What holds of every step of every script.
LEMMA AnyStep ==
  ASSUME NEW c \in Commands
  PROVE  /\ Len(Script(c)) \in 1 .. 14
         /\ \A i \in 1 .. Len(Script(c)) :
              /\ Script(c)[i].val \in Values
              /\ Script(c)[i].op \in {"register", "launch", "poll", "unregister"}
                   => c = "ca.install_cert"
              /\ Script(c)[i].op = "claim" \/ Script(c)[i].res \in Names
                   => c = "dns.apply_resources"
              /\ Script(c)[i].op = "look" => Script(c)[i].res # "certsvc"
<1>1. CASE c = "ca.install_cert"
  <2>1. Len(Script(c)) = 5
    BY <1>1, InstallCertScript
  <2>2. ASSUME NEW i \in 1 .. 5
        PROVE  /\ Script(c)[i].val \in Values
               /\ Script(c)[i].op \notin {"claim", "look"}
               /\ Script(c)[i].res \notin Names
    <3>1. i = 1 \/ i = 2 \/ i = 3 \/ i = 4 \/ i = 5
      OBVIOUS
    <3>2. QED
      BY <1>1, <3>1, InstallCertScript DEF Values
  <2>3. QED
    BY <1>1, <2>1, <2>2
<1>2. CASE c = "dns.apply_resources"
  <2>1. Len(Script(c)) = 8
    BY <1>2, ApplyResourcesScript
  <2>2. ASSUME NEW i \in 1 .. 8
        PROVE  /\ Script(c)[i].val \in Values
               /\ Script(c)[i].op \notin {"register", "launch", "poll", "unregister"}
               /\ Script(c)[i].res # "certsvc"
    BY <1>2, ApplyResourcesScript DEF Values
  <2>3. QED
    BY <1>2, <2>1, <2>2
<1>3. CASE c \notin {"ca.install_cert", "dns.apply_resources"}
  <2>1. OrdinaryScript(Script(c))
    BY <1>3, MostOrdinary
  <2>2. QED
    BY <2>1 DEF OrdinaryScript, Ordinary
<1>4. QED
  BY <1>1, <1>2, <1>3

-----------------------------------------------------------------------------
(* The inductive invariant.                                                *)

TaskStates == {"none", "registered", "running", "ok", "bad"}
Run == [cmd : plan \cup {"idle"}, pc : 0 .. 15, seen : SUBSET Values,
        failed : BOOLEAN, task : TaskStates]

\* A slot is idle, or stands at a step of its command's script or at its end.
InScript(r) == r = Idle \/ (r.cmd \in plan /\ r.pc \in 1 .. Len(Script(r.cmd)) + 1)

\* Whoever has a task stands before the end of the finally block.
Guarded(r) == r.task # "none" => r.cmd = "ca.install_cert" /\ r.pc \in 2 .. 4

\* A script about to claim a name that it saw empty.
Claiming(r, res) ==
  /\ r # Idle /\ r.pc \in 1 .. Len(Script(r.cmd))
  /\ Script(r.cmd)[r.pc].op = "claim" /\ Script(r.cmd)[r.pc].res = res
  /\ r.seen = {}

RunsInv  == run \in [Slots -> Run] /\ \A s \in Slots : InScript(run[s])
TaskInv  == ~spoiled => leftover = 0 /\ \A s \in Slots : Guarded(run[s])

\* A name seen empty holds nothing but the planned record until it is
\* claimed: nobody writes anything else.
ClaimInv == \A s \in Slots, res \in Names \cap Resources :
              Claiming(run[s], res) => machine[res] \subseteq {"planned"}

OtherTypes ==
  /\ plan \subseteq Commands
  /\ DOMAIN machine = Resources
  /\ \A r \in Resources : machine[r] \subseteq Values
  /\ up \in BOOLEAN
  /\ orphans \in Nat /\ leftover \in Nat /\ faults \in Nat /\ overlaps \in Nat
  /\ outcome \in [plan -> {"none", "done", "failed"}]
  /\ done \subseteq plan
  /\ spoiled \in BOOLEAN

IInv == OtherTypes /\ RunsInv /\ TaskInv /\ ClaimInv

\* The step a slot stands at.
LEMMA AtStep ==
  ASSUME IInv, NEW s \in Slots, run[s] # Idle
  PROVE  /\ run[s] \in Run /\ run[s].cmd \in plan /\ run[s].cmd \in Commands
         /\ run[s].pc \in 1 .. Length(s) + 1 /\ Length(s) \in 1 .. 14
         /\ run[s].pc <= Length(s) => run[s].pc \in 1 .. Length(s)
<1>1. run[s] \in Run /\ InScript(run[s]) /\ plan \subseteq Commands
  BY DEF IInv, RunsInv, OtherTypes
<1>2. run[s].cmd \in plan /\ run[s].cmd \in Commands
      /\ run[s].pc \in 1 .. Length(s) + 1
  BY <1>1 DEF InScript, Length
<1>3. Length(s) \in 1 .. 14
  BY <1>2, AnyStep DEF Length
<1>4. QED
  BY <1>1, <1>2, <1>3

\* What the next value of a slot must be like.
Fine(r) == /\ r \in Run /\ InScript(r)
           /\ ~spoiled => Guarded(r)
           /\ \A res \in Names : ~Claiming(r, res)

\* An error ends in the finally block with whatever became of the task, or at
\* the end; no name is claimed next.
LEMMA ErrorFine ==
  ASSUME IInv, NEW s \in Slots, run[s] # Idle, run[s].pc \in 1 .. Length(s),
         NEW task \in TaskStates,
         task = "none" \/ Current(s).op \in {"register", "launch", "poll"}
  PROVE  Fine(Error(s, task))
<1>1. /\ run[s] \in Run /\ run[s].cmd \in plan /\ run[s].cmd \in Commands
      /\ run[s].pc \in 1 .. Length(s) /\ Length(s) \in 1 .. 14
  BY AtStep
<1>2. PICK q, c, p, r, n :
        q = run[s] /\ c = q.cmd /\ p = q.pc /\ r = Error(s, task) /\ n = p + 1
  OBVIOUS
<1>3. /\ q \in Run /\ c \in Commands /\ c \in plan /\ p \in 1 .. Len(Script(c))
      /\ Len(Script(c)) \in 1 .. 14 /\ n \in 1 .. Len(Script(c)) + 1
  BY <1>1, <1>2 DEF Length
<1>4. PICK ahead : ahead = {i \in p .. Len(Script(c)) : Script(c)[i].op = "unregister"}
  OBVIOUS
<1>5. PICK stop : stop = IF ahead = {} THEN Len(Script(c)) + 1
                                       ELSE CHOOSE i \in ahead : TRUE
  OBVIOUS
<1>6. /\ stop \in 1 .. Len(Script(c)) + 1
      /\ ahead # {} => stop \in ahead
  BY <1>3, <1>4, <1>5
<1>7. r = IF Script(c)[p].strict
            THEN [q EXCEPT !.failed = TRUE, !.pc = stop, !.task = task]
            ELSE [q EXCEPT !.pc = n, !.task = task]
  <2>1. Current(s) = Script(c)[p] /\ Length(s) = Len(Script(c))
    BY <1>2 DEF Current, Length
  <2>2. [run[s] EXCEPT !.pc = @ + 1, !.task = task]
          = [q EXCEPT !.pc = n, !.task = task]
    BY <1>2
  <2>3. QED
    BY <1>2, <1>4, <1>5, <2>1, <2>2 DEF Error
<1>8. /\ r \in Run /\ r.cmd = c /\ r.task = task
      /\ r.pc = IF Script(c)[p].strict THEN stop ELSE n
  <2>1. n \in 0 .. 15 /\ stop \in 0 .. 15
    <3>1. \A l \in 1 .. 14 : \A k \in 1 .. l + 1 : k \in 0 .. 15
      OBVIOUS
    <3>2. QED
      BY <1>3, <1>6, <3>1, Zenon
  <2>2. CASE Script(c)[p].strict
    <3>1. r = [q EXCEPT !.failed = TRUE, !.pc = stop, !.task = task]
      BY <1>7, <2>2
    <3>2. q \in Run /\ q.cmd = c
      BY <1>2, <1>3
    <3>3. r \in Run /\ r.pc = stop /\ r.cmd = q.cmd /\ r.task = task
      BY <2>1, <3>1, <3>2 DEF Run
    <3>4. QED
      BY <2>2, <3>2, <3>3
  <2>3. CASE ~Script(c)[p].strict
    <3>1. r = [q EXCEPT !.pc = n, !.task = task]
      BY <1>7, <2>3
    <3>2. q \in Run /\ q.cmd = c
      BY <1>2, <1>3
    <3>3. r \in Run /\ r.pc = n /\ r.cmd = q.cmd /\ r.task = task
      BY <2>1, <3>1, <3>2 DEF Run
    <3>4. QED
      BY <2>3, <3>2, <3>3
  <2>4. QED
    BY <2>2, <2>3
<1>9. InScript(r)
  BY <1>3, <1>6, <1>8 DEF InScript
<1>10. Guarded(r)
  <2>1. CASE task = "none"
    BY <1>8, <2>1 DEF Guarded
  <2>2. CASE Script(c)[p].op \in {"register", "launch", "poll"}
    <3>1. c = "ca.install_cert"
      BY <1>3, <2>2, AnyStep
    <3>2. p = 1 \/ p = 2 \/ p = 3
      <4>1. p = 1 \/ p = 2 \/ p = 3 \/ p = 4 \/ p = 5
        <5>1. Len(Script(c)) = 5
          BY <3>1, InstallCertScript
        <5>2. QED
          BY <1>3, <5>1
      <4>2. QED
        BY <2>2, <3>1, <4>1, InstallCertScript
    <3>3. 4 \in ahead /\ Script(c)[p].strict
      BY <1>4, <3>1, <3>2, InstallCertScript
    <3>4. \A i \in 1 .. 5 : Script(c)[i].op = "unregister" => i = 4
      <4>1. \A i \in 1 .. 5 : i = 1 \/ i = 2 \/ i = 3 \/ i = 4 \/ i = 5
        OBVIOUS
      <4>2. QED
        BY <3>1, <4>1, InstallCertScript
    <3>5. \A i \in ahead : i = 4
      BY <1>3, <1>4, <3>1, <3>4, InstallCertScript
    <3>6. r.pc = 4
      BY <1>6, <1>8, <3>3, <3>5
    <3>7. QED
      BY <1>8, <3>1, <3>6 DEF Guarded
  <2>3. QED
    BY <1>2, <2>1, <2>2 DEF Current
<1>11. \A res \in Names : ~Claiming(r, res)
  <2>1. CASE c = "dns.apply_resources"
    <3>1. Script(c)[p].strict /\ ahead = {}
      <4>1. Len(Script(c)) = 8
        BY <2>1, ApplyResourcesScript
      <4>2. \A i \in 1 .. 8 : Script(c)[i].op # "unregister" /\ Script(c)[i].strict
        BY <2>1, ApplyResourcesScript
      <4>3. QED
        BY <1>3, <1>4, <4>1, <4>2
    <3>2. r.pc = Len(Script(c)) + 1
      BY <1>5, <1>8, <3>1
    <3>3. ~(r.pc \in 1 .. Len(Script(c)))
      BY <1>3, <3>2
    <3>4. QED
      BY <1>8, <3>3 DEF Claiming
  <2>2. CASE c # "dns.apply_resources"
    BY <1>3, <1>8, <2>2, AnyStep DEF Claiming
  <2>3. QED
    BY <2>1, <2>2
<1>12. QED
  BY <1>2, <1>8, <1>9, <1>10, <1>11 DEF Fine

-----------------------------------------------------------------------------
(* Steps.                                                                  *)

\* A name that holds anything but the planned record is left as it is; the
\* others come to hold the planned record or stay empty.
Stands == \A n \in Names \cap Resources :
            \/ machine'[n] = machine[n]
            \/ machine[n] \subseteq {"planned"} /\ machine'[n] \subseteq {"planned"}

MachineType == DOMAIN machine = Resources /\ \A r \in Resources : machine[r] \subseteq Values

\* A step that changes one slot.
LEMMA SlotStep ==
  ASSUME IInv, UNCHANGED plan, NEW s \in Slots, NEW r \in Run,
         run' = [run EXCEPT ![s] = r], InScript(r),
         ~spoiled' => ~spoiled /\ leftover' = 0 /\ Guarded(r),
         \A n \in Names \cap Resources :
           Claiming(r, n) => machine'[n] \subseteq {"planned"},
         Stands
  PROVE  RunsInv' /\ TaskInv' /\ ClaimInv'
<1>1. run \in [Slots -> Run] /\ \A t \in Slots : InScript(run[t])
  BY DEF IInv, RunsInv
<1>2. Run' = Run /\ Resources' = Resources
  BY DEF Run, Resources
<1>3. /\ run'[s] = r
      /\ \A t \in Slots : t # s => run'[t] = run[t]
  BY <1>1
<1>4. RunsInv'
  <2>1. run' \in [Slots -> Run]
    BY <1>1
  <2>2. ASSUME NEW t \in Slots PROVE InScript(run'[t])
    BY <1>1, <1>3
  <2>3. \A t \in Slots : InScript(run[t])'
    BY <2>2 DEF InScript
  <2>4. QED
    BY <1>2, <2>1, <2>3 DEF RunsInv
<1>5. TaskInv'
  <2>1. SUFFICES ASSUME ~spoiled' PROVE leftover' = 0 /\ \A t \in Slots : Guarded(run[t])'
    BY DEF TaskInv
  <2>2. \A t \in Slots : Guarded(run[t])
    BY <2>1 DEF IInv, TaskInv
  <2>3. \A t \in Slots : Guarded(run'[t])
    BY <1>3, <2>1, <2>2
  <2>4. QED
    BY <2>1, <2>3 DEF Guarded
<1>6. ClaimInv'
  <2>1. SUFFICES ASSUME NEW t \in Slots, NEW n \in Names \cap Resources,
                        Claiming(run'[t], n)
                 PROVE  machine'[n] \subseteq {"planned"}
    BY <1>2 DEF ClaimInv, Claiming
  <2>2. CASE t = s
    BY <1>3, <2>1, <2>2
  <2>3. CASE t # s
    <3>1. Claiming(run[t], n)
      BY <1>3, <2>1, <2>3
    <3>2. machine[n] \subseteq {"planned"}
      BY <3>1 DEF IInv, ClaimInv
    <3>3. QED
      BY <3>2 DEF Stands
  <2>4. QED
    BY <2>2, <2>3
<1>7. QED
  BY <1>4, <1>5, <1>6

\* What a plain step does to its resource, if anything.
LEMMA Effect ==
  ASSUME IInv, NEW s \in Slots, run[s] # Idle, run[s].pc \in 1 .. Length(s),
         UNCHANGED plan,
         \/ machine' = machine
         \/ machine' = [machine EXCEPT ![Current(s).res] =
                          After(Current(s), run[s].seen, machine[Current(s).res])]
  PROVE  Stands /\ MachineType'
<1>1. /\ run[s] \in Run /\ run[s].cmd \in plan /\ run[s].cmd \in Commands
      /\ run[s].pc \in 1 .. Length(s) /\ Length(s) \in 1 .. 14
  BY AtStep
<1>2. PICK st, seen : st = Current(s) /\ seen = run[s].seen
  OBVIOUS
<1>3. /\ st.val \in Values
      /\ st.op = "claim" \/ st.res \in Names => run[s].cmd = "dns.apply_resources"
  BY <1>1, <1>2, AnyStep DEF Current, Length
<1>4. seen \subseteq Values
  BY <1>1, <1>2 DEF Run
<1>5. MachineType /\ Resources' = Resources
  BY DEF MachineType, IInv, OtherTypes, Resources
<1>6. CASE machine' = machine
  BY <1>5, <1>6 DEF Stands, MachineType
<1>7. CASE machine' = [machine EXCEPT ![st.res] = After(st, seen, machine[st.res])]
  <2>1. ASSUME NEW r \in Resources PROVE machine'[r] \subseteq Values
    <3>1. CASE r = st.res
      <4>1. machine[r] \subseteq Values
        BY <1>5 DEF MachineType
      <4>2. After(st, seen, machine[r]) \subseteq Values
        BY <1>3, <1>4, <4>1 DEF After
      <4>3. QED
        BY <1>5, <1>7, <3>1, <4>2 DEF MachineType
    <3>2. CASE r # st.res
      BY <1>5, <1>7, <3>2 DEF MachineType
    <3>3. QED
      BY <3>1, <3>2
  <2>2. MachineType'
    BY <1>5, <1>7, <2>1 DEF MachineType
  <2>3. ASSUME NEW n \in Names \cap Resources, n = st.res
        PROVE  \/ machine'[n] = machine[n]
               \/ machine[n] \subseteq {"planned"} /\ machine'[n] \subseteq {"planned"}
    <3>1. machine'[n] = After(st, seen, machine[n])
      BY <1>5, <1>7, <2>3 DEF MachineType
    <3>2. st.op \in {"look", "claim"} /\ st.val = "planned"
      <4>1. run[s].cmd = "dns.apply_resources"
        BY <1>3, <2>3
      <4>2. QED
        BY <1>1, <1>2, <2>3, <4>1, ApplyResourcesScript DEF Current, Length
    <3>3. CASE st.op = "claim" /\ seen = {}
      <4>1. Claiming(run[s], n)
        BY <1>1, <1>2, <2>3, <3>3 DEF Claiming, Current, Length
      <4>2. machine[n] \subseteq {"planned"}
        BY <4>1 DEF IInv, ClaimInv
      <4>3. QED
        BY <3>1, <3>2, <3>3, <4>2 DEF After
    <3>4. CASE st.op = "look" \/ seen # {}
      BY <3>1, <3>2, <3>4 DEF After
    <3>5. QED
      BY <3>2, <3>3, <3>4
  <2>4. ASSUME NEW n \in Names \cap Resources, n # st.res
        PROVE  machine'[n] = machine[n]
    BY <1>5, <1>7, <2>4 DEF MachineType
  <2>5. QED
    BY <2>2, <2>3, <2>4 DEF Stands
<1>8. QED
  BY <1>2, <1>6, <1>7

\* One step further in a script; only a look may come before a claim.
LEMMA Advance ==
  ASSUME IInv, NEW s \in Slots, run[s] # Idle, run[s].pc \in 1 .. Length(s)
  PROVE  /\ run[s].pc + 1 \in 1 .. Length(s) + 1
         /\ \A n \in 1 .. Length(s) + 1 : n \in 0 .. 15
         /\ Current(s).op # "look" =>
              \A r, res : r.cmd = run[s].cmd /\ r.pc = run[s].pc + 1
                            => ~Claiming(r, res)
<1>1. /\ run[s].cmd \in Commands /\ run[s].pc \in 1 .. Length(s)
      /\ Length(s) \in 1 .. 14
  BY AtStep
<1>2. PICK c, p, n : c = run[s].cmd /\ p = run[s].pc /\ n = p + 1
  OBVIOUS
<1>3. /\ c \in Commands /\ p \in 1 .. Len(Script(c)) /\ Len(Script(c)) \in 1 .. 14
      /\ Length(s) = Len(Script(c))
  BY <1>1, <1>2 DEF Length
<1>4. n \in 1 .. Len(Script(c)) + 1 /\ \A m \in 1 .. Len(Script(c)) + 1 : m \in 0 .. 15
  <2>1. \A l \in 1 .. 14 : /\ \A k \in 1 .. l : k + 1 \in 1 .. l + 1
                           /\ \A k \in 1 .. l + 1 : k \in 0 .. 15
    OBVIOUS
  <2>2. QED
    BY <1>2, <1>3, <2>1, Zenon
<1>5. ASSUME Script(c)[p].op # "look", NEW r, NEW res, r.cmd = c, r.pc = n,
             Claiming(r, res)
      PROVE  FALSE
  <2>1. n \in 1 .. Len(Script(c)) /\ Script(c)[n].op = "claim"
    BY <1>5 DEF Claiming
  <2>2. c = "dns.apply_resources"
    BY <1>3, <2>1, AnyStep
  <2>3. Script(c)[n - 1].op = "look"
    BY <2>1, <2>2, ApplyResourcesScript
  <2>4. n - 1 = p
    BY <1>2, <1>3
  <2>5. QED
    BY <1>5, <2>3, <2>4
<1>6. QED
  BY <1>2, <1>3, <1>4, <1>5 DEF Current

Kept == IInv' /\ Stands

\* A plain step that succeeds.
LEMMA StepOkKeeps ==
  ASSUME IInv, NEW s \in Slots, StepOk(s) PROVE Kept
<1>1. /\ run[s] # Idle /\ run[s].pc <= Length(s) /\ Current(s).op \notin Special
      /\ UNCHANGED <<plan, service, orphans, leftover, history>>
  BY DEF StepOk, Plain
<1>2. /\ run[s] \in Run /\ run[s].cmd \in plan /\ run[s].cmd \in Commands
      /\ run[s].pc \in 1 .. Length(s) /\ Length(s) \in 1 .. 14
  BY <1>1, AtStep
<1>3. Stands /\ MachineType'
  BY <1>1, <1>2, Effect DEF StepOk
<1>4. PICK q, n, see, r : /\ q = run[s] /\ n = q.pc + 1
                          /\ see = (IF Current(s).op = "look" THEN machine[Current(s).res]
                                                              ELSE q.seen)
                          /\ r = [q EXCEPT !.pc = n, !.seen = see]
  OBVIOUS
<1>5. run' = [run EXCEPT ![s] = r]
  BY <1>2, <1>4 DEF StepOk, IInv, RunsInv
<1>6. see \subseteq Values
  <2>1. CASE Current(s).op = "look"
    <3>1. /\ Current(s) \in Steps(run[s].cmd)
          /\ Current(s).res # "certsvc"
      BY <1>2, <2>1, AnyStep DEF Current, Steps, Length
    <3>2. Current(s).res \in Resources
      BY <1>2, <3>1 DEF Resources, Targets
    <3>3. QED
      BY <1>4, <2>1, <3>2 DEF IInv, OtherTypes
  <2>2. CASE Current(s).op # "look"
    BY <1>2, <1>4, <2>2 DEF Run
  <2>3. QED
    BY <2>1, <2>2
<1>7. r \in Run /\ r.cmd = q.cmd /\ r.pc = n /\ r.seen = see /\ r.task = q.task
  <2>1. n \in 0 .. 15
    BY <1>1, <1>2, <1>4, Advance
  <2>2. QED
    BY <1>2, <1>4, <1>6, <2>1 DEF Run
<1>8. InScript(r) /\ (~spoiled => Guarded(r))
  <2>1. InScript(r)
    BY <1>2, <1>4, <1>7, Advance, <1>1 DEF InScript, Length
  <2>2. ASSUME ~spoiled PROVE q.task = "none"
    <3>1. Guarded(q)
      BY <1>4, <2>2 DEF IInv, TaskInv
    <3>2. SUFFICES ASSUME q.cmd = "ca.install_cert", q.pc \in 2 .. 4 PROVE FALSE
      BY <3>1 DEF Guarded
    <3>3. q.pc = 2 \/ q.pc = 3 \/ q.pc = 4
      BY <3>2
    <3>4. Current(s).op \in Special
      BY <1>4, <3>2, <3>3, InstallCertScript DEF Current, Special
    <3>5. QED
      BY <1>1, <3>4
  <2>3. QED
    BY <1>7, <2>1, <2>2 DEF Guarded
<1>9. ASSUME NEW m \in Names \cap Resources, Claiming(r, m)
      PROVE  machine'[m] \subseteq {"planned"}
  <2>1. Current(s).op = "look"
    BY <1>1, <1>2, <1>4, <1>7, <1>9, Advance
  <2>2. see = {} /\ n \in 1 .. Len(Script(q.cmd)) /\ Script(q.cmd)[n].op = "claim"
        /\ Script(q.cmd)[n].res = m
    BY <1>7, <1>9 DEF Claiming
  <2>3. q.cmd = "dns.apply_resources"
    BY <1>2, <1>4, <2>2, AnyStep
  <2>4. Script(q.cmd)[n - 1].res = m
    BY <2>2, <2>3, ApplyResourcesScript
  <2>5. n - 1 = q.pc
    BY <1>2, <1>4
  <2>6. Current(s).res = m
    BY <1>4, <2>4, <2>5 DEF Current
  <2>7. machine[m] = {}
    BY <1>4, <2>1, <2>2, <2>6
  <2>8. QED
    BY <1>3, <2>7 DEF Stands
<1>10. RunsInv' /\ TaskInv' /\ ClaimInv'
  <2>1. ~spoiled' => ~spoiled /\ leftover' = 0 /\ Guarded(r)
    BY <1>1, <1>8 DEF history, IInv, TaskInv
  <2>2. UNCHANGED plan /\ InScript(r) /\ r \in Run
    BY <1>1, <1>7, <1>8
  <2>3. QED
    BY <1>3, <1>5, <1>9, <2>1, <2>2, SlotStep
<1>11. OtherTypes'
  BY <1>1, <1>3 DEF IInv, OtherTypes, MachineType, service, history, Resources
<1>12. QED
  BY <1>3, <1>10, <1>11 DEF Kept, IInv

\* A delivery starts at the first step, which claims nothing.
LEMMA DeliverKeeps ==
  ASSUME IInv, NEW s \in Slots, NEW c \in plan, Deliver(s, c) PROVE Kept
<1>1. /\ c \in Commands /\ Len(Script(c)) \in 1 .. 14
      /\ UNCHANGED <<plan, machine, service, orphans, leftover, outcome, done, faults,
                     spoiled>>
  BY AnyStep DEF IInv, OtherTypes, Deliver
<1>2. PICK i, one, r : i = Idle /\ one = 1 /\ r = [i EXCEPT !.cmd = c, !.pc = one]
  OBVIOUS
<1>3. run' = [run EXCEPT ![s] = r]
  <2>1. run' = [run EXCEPT ![s] = [Idle EXCEPT !.cmd = c, !.pc = 1]]
    BY Zenon DEF Deliver
  <2>2. [Idle EXCEPT !.cmd = c, !.pc = 1] = r
    BY <1>2, Zenon
  <2>3. QED
    BY <2>1, <2>2, Zenon
<1>4. r \in Run /\ r.cmd = c /\ r.pc = 1 /\ r.seen = {} /\ r.task = "none"
  <2>1. i \in Run /\ i.seen = {} /\ i.task = "none"
    <3>1. "none" \in TaskStates /\ {} \in SUBSET Values /\ 0 \in 0 .. 15
          /\ "idle" \in plan \cup {"idle"} /\ FALSE \in BOOLEAN
      BY DEF TaskStates
    <3>2. QED
      BY <1>2, <3>1 DEF Run, Idle
  <2>2. one \in 0 .. 15 /\ c \in plan \cup {"idle"}
    BY <1>2
  <2>3. QED
    BY <1>2, <2>1, <2>2 DEF Run
<1>5. InScript(r) /\ Guarded(r)
  BY <1>1, <1>4 DEF InScript, Guarded
<1>6. \A n \in Names \cap Resources : ~Claiming(r, n)
  <2>1. Script(c)[1].op # "claim"
    <3>1. CASE c = "dns.apply_resources"
      BY <3>1, ApplyResourcesScript
    <3>2. CASE c # "dns.apply_resources"
      BY <1>1, <3>2, AnyStep
    <3>3. QED
      BY <3>1, <3>2
  <2>2. QED
    BY <1>4, <2>1 DEF Claiming
<1>7. Stands
  BY <1>1 DEF Stands
<1>8. RunsInv' /\ TaskInv' /\ ClaimInv'
  <2>1. ~spoiled' => ~spoiled /\ leftover' = 0 /\ Guarded(r)
    BY <1>1, <1>5 DEF IInv, TaskInv
  <2>2. UNCHANGED plan
    BY <1>1
  <2>3. QED
    BY <1>3, <1>4, <1>5, <1>6, <1>7, <2>1, <2>2, SlotStep
<1>9. OtherTypes'
  <2>1. overlaps' \in Nat
    BY DEF Deliver, IInv, OtherTypes
  <2>2. QED
    BY <1>1, <2>1 DEF IInv, OtherTypes, service, Resources
<1>10. QED
  BY <1>7, <1>8, <1>9 DEF Kept, IInv

\* A step that changes one slot to a value that claims nothing.
LEMMA FineKeeps ==
  ASSUME IInv, UNCHANGED <<plan, leftover, outcome, done, overlaps>>,
         NEW s \in Slots, NEW r, run' = [run EXCEPT ![s] = r],
         r \in Run, InScript(r), \A res \in Names : ~Claiming(r, res),
         ~spoiled' => ~spoiled /\ Guarded(r), spoiled' \in BOOLEAN,
         orphans' \in Nat, faults' \in Nat, up' \in BOOLEAN,
         Stands, MachineType'
  PROVE  Kept
<1>1. ~spoiled' => ~spoiled /\ leftover' = 0 /\ Guarded(r)
  <2>1. SUFFICES ASSUME ~spoiled' PROVE ~spoiled /\ leftover' = 0 /\ Guarded(r)
    OBVIOUS
  <2>2. ~spoiled /\ Guarded(r)
    BY <2>1
  <2>3. leftover = 0 /\ leftover' = leftover
    BY <2>2 DEF IInv, TaskInv
  <2>4. QED
    BY <2>2, <2>3
<1>2. RunsInv' /\ TaskInv' /\ ClaimInv'
  <2>1. UNCHANGED plan /\ Stands /\ r \in Run
    OBVIOUS
  <2>2. \A n \in Names \cap Resources : Claiming(r, n) => machine'[n] \subseteq {"planned"}
    OBVIOUS
  <2>3. QED
    BY <1>1, <2>1, <2>2, SlotStep
<1>3. OtherTypes'
  BY DEF IInv, OtherTypes, MachineType, Resources
<1>4. QED
  BY <1>2, <1>3 DEF Kept, IInv

\* Machines that no step touched.
LEMMA MachineSame ==
  ASSUME IInv, UNCHANGED <<plan, machine>> PROVE Stands /\ MachineType'
BY DEF IInv, OtherTypes, Stands, MachineType, Resources

\* Every way a step can fail or be refused.
LEMMA ErrorKeeps ==
  ASSUME IInv, NEW s \in Slots,
         StepRefused(s) \/ StepFails(s) \/ ServiceFails(s) \/ PollBad(s)
           \/ TaskStepFails(s)
  PROVE  Kept
<1>1. /\ run[s] # Idle /\ run[s].pc <= Length(s)
      /\ UNCHANGED <<plan, leftover, outcome, done, overlaps, spoiled, orphans>>
  BY DEF StepRefused, StepFails, ServiceFails, PollBad, TaskStepFails, Plain, At,
         history
<1>2. /\ run[s] \in Run /\ run[s].pc \in 1 .. Length(s)
  BY <1>1, AtStep
<1>3. orphans' \in Nat /\ faults' \in Nat
  BY <1>1 DEF IInv, OtherTypes, StepRefused, StepFails, ServiceFails, PollBad,
              TaskStepFails, Fault, history
<1>4. up' \in BOOLEAN
  BY DEF IInv, OtherTypes, StepRefused, StepFails, ServiceFails, PollBad,
         TaskStepFails, service
<1>5. Stands /\ MachineType'
  <2>1. \/ machine' = machine
        \/ machine' = [machine EXCEPT ![Current(s).res] =
                         After(Current(s), run[s].seen, machine[Current(s).res])]
    BY DEF StepRefused, StepFails, ServiceFails, PollBad, TaskStepFails
  <2>2. QED
    BY <1>1, <1>2, <2>1, Effect
<1>6. PICK task \in TaskStates :
        /\ run' = [run EXCEPT ![s] = Error(s, task)]
        /\ task = "none" \/ Current(s).op \in {"register", "launch", "poll"}
  <2>1. "none" \in TaskStates /\ "bad" \in TaskStates /\ "registered" \in TaskStates
        /\ "running" \in TaskStates /\ run[s].task \in TaskStates
    BY <1>2 DEF TaskStates, Run
  <2>2. CASE StepRefused(s) \/ StepFails(s) \/ ServiceFails(s)
    BY <2>1, <2>2 DEF StepRefused, StepFails, ServiceFails
  <2>3. CASE PollBad(s)
    BY <2>1, <2>3 DEF PollBad, At
  <2>4. CASE TaskStepFails(s)
    BY <2>1, <2>4 DEF TaskStepFails, At
  <2>5. QED
    BY <2>2, <2>3, <2>4
<1>7. PICK r : r = Error(s, task)
  OBVIOUS
<1>8. Fine(r)
  BY <1>1, <1>2, <1>6, <1>7, ErrorFine
<1>9. /\ r \in Run /\ InScript(r) /\ \A res \in Names : ~Claiming(r, res)
      /\ ~spoiled => Guarded(r)
  BY <1>8 DEF Fine
<1>10. (~spoiled' => ~spoiled /\ Guarded(r)) /\ spoiled' \in BOOLEAN
  BY <1>1, <1>9 DEF IInv, OtherTypes
<1>11. UNCHANGED <<plan, leftover, outcome, done, overlaps>>
  BY <1>1
<1>12. run' = [run EXCEPT ![s] = r]
  BY <1>6, <1>7
<1>13. QED
  BY <1>3, <1>4, <1>5, <1>9, <1>10, <1>11, <1>12, FineKeeps

\* A step of the certificate service or of the scheduled task: one step
\* further, or to the end.
LEMMA FurtherFine ==
  ASSUME IInv, NEW s \in Slots, run[s] # Idle, run[s].pc \in 1 .. Length(s),
         Current(s).op \in Special, NEW n, NEW t \in TaskStates,
         n = run[s].pc + 1 \/ (Current(s).op = "unregister" /\ n = Length(s) + 1),
         NEW r, r = [run[s] EXCEPT !.pc = n, !.task = t]
  PROVE  /\ r \in Run /\ InScript(r) /\ \A res \in Names : ~Claiming(r, res)
         /\ t = "none" \/ Current(s).op \in {"register", "launch", "poll"}
              => Guarded(r)
<1>1. /\ run[s] \in Run /\ run[s].cmd \in plan /\ run[s].cmd \in Commands
      /\ run[s].pc \in 1 .. Length(s) /\ Length(s) \in 1 .. 14
  BY AtStep
<1>2. n \in 1 .. Length(s) + 1 /\ n \in 0 .. 15
  <2>1. n = run[s].pc + 1 \/ n = Length(s) + 1
    OBVIOUS
  <2>2. run[s].pc + 1 \in 1 .. Length(s) + 1 /\ Length(s) + 1 \in 1 .. Length(s) + 1
    BY <1>1, Advance
  <2>3. n \in 1 .. Length(s) + 1
    BY <2>1, <2>2
  <2>4. QED
    BY <1>1, <2>3, Advance
<1>3. PICK q : q = run[s]
  OBVIOUS
<1>4. r \in Run /\ r.pc = n /\ r.cmd = q.cmd /\ r.task = t
  BY <1>1, <1>2, <1>3 DEF Run
<1>5. InScript(r)
  BY <1>1, <1>2, <1>3, <1>4 DEF InScript, Length
<1>6. ASSUME NEW res \in Names, Claiming(r, res) PROVE FALSE
  <2>1. Current(s).op # "look"
    BY DEF Special
  <2>2. CASE n = run[s].pc + 1
    BY <1>1, <1>3, <1>4, <1>6, <2>1, <2>2, Advance
  <2>3. CASE n = Length(s) + 1
    <3>1. ~(n \in 1 .. Length(s))
      BY <1>1, <2>3
    <3>2. QED
      BY <1>3, <1>4, <1>6, <3>1 DEF Claiming, Length
  <2>4. QED
    BY <2>2, <2>3
<1>7. ASSUME t # "none", Current(s).op \in {"register", "launch", "poll"}
      PROVE  r.cmd = "ca.install_cert" /\ r.pc \in 2 .. 4
  <2>1. Current(s).op \in {"register", "launch", "poll"}
    BY <1>7
  <2>2. q.cmd = "ca.install_cert"
    BY <1>1, <1>3, <2>1, AnyStep DEF Current, Length
  <2>3. Length(s) = 5 /\ q.pc \in 1 .. 5
    BY <1>1, <1>3, <2>2, InstallCertScript DEF Length
  <2>4. q.pc # 4 /\ q.pc # 5
    BY <1>3, <2>1, <2>2, InstallCertScript DEF Current
  <2>5. n = q.pc + 1
    BY <1>3, <2>1
  <2>6. n \in 2 .. 4
    BY <2>3, <2>4, <2>5
  <2>7. QED
    BY <1>4, <2>2, <2>6
<1>8. QED
  BY <1>4, <1>5, <1>6, <1>7 DEF Guarded

\* A step of the certificate service or of the scheduled task.
LEMMA FurtherKeeps ==
  ASSUME IInv, NEW s \in Slots, run[s] # Idle, run[s].pc <= Length(s),
         Current(s).op \in Special, NEW n, NEW t \in TaskStates,
         n = run[s].pc + 1 \/ (Current(s).op = "unregister" /\ n = Length(s) + 1),
         run' = [run EXCEPT ![s] = [run[s] EXCEPT !.pc = n, !.task = t]],
         UNCHANGED <<plan, machine, leftover, outcome, done, overlaps>>,
         ~spoiled' => /\ ~spoiled
                      /\ t = "none" \/ Current(s).op \in {"register", "launch", "poll"},
         spoiled' \in BOOLEAN, orphans' \in Nat, faults' \in Nat, up' \in BOOLEAN
  PROVE  Kept
<1>1. PICK r : r = [run[s] EXCEPT !.pc = n, !.task = t]
  OBVIOUS
<1>2. run[s].pc \in 1 .. Length(s)
  BY AtStep
<1>3. /\ r \in Run /\ InScript(r) /\ \A res \in Names : ~Claiming(r, res)
      /\ t = "none" \/ Current(s).op \in {"register", "launch", "poll"} => Guarded(r)
  BY <1>1, <1>2, FurtherFine
<1>4. ~spoiled' => ~spoiled /\ Guarded(r)
  BY <1>3
<1>5. Stands /\ MachineType'
  BY MachineSame
<1>6. run' = [run EXCEPT ![s] = r]
  BY <1>1
<1>7. UNCHANGED <<plan, leftover, outcome, done, overlaps>>
  OBVIOUS
<1>8. QED
  BY <1>3, <1>4, <1>5, <1>6, <1>7, FineKeeps

\* The service is stopped or started by the scripts that have no task.
LEMMA ServiceKeeps ==
  ASSUME IInv, NEW s \in Slots, StopService(s) \/ StartService(s) PROVE Kept
<1>1. /\ run[s] # Idle /\ run[s].pc <= Length(s) /\ Current(s).op \in {"stop", "start"}
      /\ UNCHANGED <<plan, machine, leftover, outcome, done, overlaps, faults, orphans,
                     spoiled>>
      /\ run' = [run EXCEPT ![s].pc = @ + 1] /\ up' \in BOOLEAN
  BY DEF StopService, StartService, At, history
<1>2. PICK q, n, t : q = run[s] /\ n = q.pc + 1 /\ t = q.task
  OBVIOUS
<1>3. q \in Run /\ q.pc \in 1 .. Length(s) /\ Length(s) = Len(Script(q.cmd))
  BY <1>1, <1>2, AtStep DEF Length
<1>4. t \in TaskStates /\ [q EXCEPT !.pc = n] = [q EXCEPT !.pc = n, !.task = t]
  BY <1>2, <1>3 DEF Run
<1>5. run' = [run EXCEPT ![s] = [run[s] EXCEPT !.pc = n, !.task = t]]
  <2>1. run' = [run EXCEPT ![s] = [q EXCEPT !.pc = n]]
    BY <1>1, <1>2 DEF IInv, RunsInv
  <2>2. QED
    BY <1>2, <1>4, <2>1
<1>6. ASSUME ~spoiled PROVE t = "none"
  <2>1. Guarded(q)
    BY <1>2, <1>6 DEF IInv, TaskInv
  <2>2. SUFFICES ASSUME q.cmd = "ca.install_cert", q.pc \in 2 .. 4 PROVE FALSE
    BY <1>2, <2>1 DEF Guarded
  <2>3. q.pc = 2 \/ q.pc = 3 \/ q.pc = 4
    BY <2>2
  <2>4. QED
    BY <1>1, <1>2, <2>2, <2>3, InstallCertScript DEF Current
<1>7. /\ ~spoiled' => /\ ~spoiled
                      /\ t = "none" \/ Current(s).op \in {"register", "launch", "poll"}
      /\ spoiled' \in BOOLEAN /\ orphans' \in Nat /\ faults' \in Nat
  BY <1>1, <1>6 DEF IInv, OtherTypes
<1>8. Current(s).op \in Special /\ n = run[s].pc + 1
  BY <1>1, <1>2 DEF Special
<1>9. UNCHANGED <<plan, machine, leftover, outcome, done, overlaps>>
  BY <1>1
<1>10. run[s] # Idle /\ run[s].pc <= Length(s) /\ t \in TaskStates /\ up' \in BOOLEAN
  BY <1>1, <1>4
<1>11. QED
  BY <1>5, <1>7, <1>8, <1>9, <1>10, FurtherKeeps

\* The scheduled task is registered, started and waited for.
LEMMA TaskKeeps ==
  ASSUME IInv, NEW s \in Slots, Register(s) \/ Launch(s) \/ PollOk(s) PROVE Kept
<1>1. PICK t \in TaskStates, op \in {"register", "launch", "poll"} :
        TaskStep(s, op, t) /\ UNCHANGED orphans
  BY DEF Register, Launch, PollOk, TaskStates
<1>2. /\ run[s] # Idle /\ run[s].pc <= Length(s) /\ Current(s).op = op
      /\ UNCHANGED <<plan, machine, leftover, outcome, done, overlaps, faults, orphans,
                     spoiled, up>>
      /\ run' = [run EXCEPT ![s].pc = @ + 1, ![s].task = t]
  BY <1>1 DEF TaskStep, At, history, service
<1>3. PICK q, n : q = run[s] /\ n = q.pc + 1
  OBVIOUS
<1>4. q \in Run
  BY <1>2, <1>3, AtStep
<1>5. run' = [run EXCEPT ![s] = [run[s] EXCEPT !.pc = n, !.task = t]]
  BY <1>2, <1>3 DEF IInv, RunsInv
<1>6. /\ ~spoiled' => /\ ~spoiled
                      /\ t = "none" \/ Current(s).op \in {"register", "launch", "poll"}
      /\ spoiled' \in BOOLEAN /\ orphans' \in Nat /\ faults' \in Nat /\ up' \in BOOLEAN
  BY <1>1, <1>2 DEF IInv, OtherTypes
<1>7. Current(s).op \in Special /\ n = run[s].pc + 1
  BY <1>1, <1>2, <1>3 DEF Special
<1>8. UNCHANGED <<plan, machine, leftover, outcome, done, overlaps>>
  BY <1>2
<1>9. run[s] # Idle /\ run[s].pc <= Length(s) /\ t \in TaskStates
  BY <1>1, <1>2
<1>10. QED
  BY <1>5, <1>6, <1>7, <1>8, <1>9, FurtherKeeps

\* The finally block removes the task, or fails to and says so.
LEMMA UnregisterKeeps ==
  ASSUME IInv, NEW s \in Slots, Unregister(s) \/ UnregisterFails(s) PROVE Kept
<1>1. /\ run[s] # Idle /\ run[s].pc <= Length(s) /\ Current(s).op = "unregister"
      /\ UNCHANGED <<plan, machine, leftover, outcome, done, overlaps, up>>
  BY DEF Unregister, UnregisterFails, At, history, service
<1>2. PICK q, n : /\ q = run[s]
                  /\ n = IF q.failed THEN Length(s) + 1 ELSE q.pc + 1
  OBVIOUS
<1>3. q \in Run
  BY <1>1, <1>2, AtStep
<1>4. Current(s).op \in Special
      /\ (n = run[s].pc + 1 \/ (Current(s).op = "unregister" /\ n = Length(s) + 1))
  BY <1>1, <1>2 DEF Special
<1>5. orphans' \in Nat /\ faults' \in Nat
  BY DEF Unregister, UnregisterFails, Fault, history, IInv, OtherTypes
<1>6. up' \in BOOLEAN
  BY <1>1 DEF IInv, OtherTypes
<1>7. PICK t \in TaskStates :
        /\ run' = [run EXCEPT ![s] = [run[s] EXCEPT !.pc = n, !.task = t]]
        /\ (t = "none" /\ spoiled' = spoiled) \/ spoiled' = TRUE
  <2>1. CASE Unregister(s)
    <3>1. run' = [run EXCEPT ![s].task = "none", ![s].pc = n]
      BY <1>2, <2>1 DEF Unregister
    <3>2. [[q EXCEPT !.task = "none"] EXCEPT !.pc = n] = [q EXCEPT !.pc = n, !.task = "none"]
      BY <1>3 DEF Run
    <3>3. run' = [run EXCEPT ![s] = [run[s] EXCEPT !.pc = n, !.task = "none"]]
      BY <1>2, <3>1, <3>2 DEF IInv, RunsInv
    <3>4. "none" \in TaskStates /\ spoiled' = spoiled
      BY <2>1 DEF TaskStates, Unregister, history
    <3>5. QED
      BY <3>3, <3>4
  <2>2. CASE UnregisterFails(s)
    <3>1. run' = [run EXCEPT ![s].pc = n] /\ spoiled' = TRUE
      BY <1>2, <2>2 DEF UnregisterFails
    <3>2. PICK t : t = q.task
      OBVIOUS
    <3>3. t \in TaskStates /\ [q EXCEPT !.pc = n] = [q EXCEPT !.pc = n, !.task = t]
      BY <1>3, <3>2 DEF Run
    <3>4. run' = [run EXCEPT ![s] = [q EXCEPT !.pc = n]]
      BY <1>2, <3>1 DEF IInv, RunsInv
    <3>5. run' = [run EXCEPT ![s] = [run[s] EXCEPT !.pc = n, !.task = t]]
      BY <1>2, <3>3, <3>4
    <3>6. QED
      BY <3>1, <3>3, <3>5
  <2>3. QED
    BY <2>1, <2>2
<1>8. spoiled' \in BOOLEAN /\ (~spoiled' => ~spoiled /\ t = "none")
  <2>1. spoiled \in BOOLEAN
    BY DEF IInv, OtherTypes
  <2>2. CASE t = "none" /\ spoiled' = spoiled
    BY <2>1, <2>2, Zenon
  <2>3. CASE spoiled' = TRUE
    BY <2>3, Zenon
  <2>4. QED
    BY <1>7, <2>2, <2>3
<1>9. UNCHANGED <<plan, machine, leftover, outcome, done, overlaps>>
  BY <1>1
<1>10. QED
  BY <1>1, <1>4, <1>5, <1>6, <1>7, <1>8, <1>9, FurtherKeeps

\* What an empty slot is like.
LEMMA IdleFine ==
  /\ Idle \in Run /\ InScript(Idle) /\ Guarded(Idle)
  /\ \A res \in Names : ~Claiming(Idle, res)
<1>1. /\ "none" \in TaskStates /\ {} \in SUBSET Values /\ 0 \in 0 .. 15
      /\ "idle" \in plan \cup {"idle"} /\ FALSE \in BOOLEAN
  BY DEF TaskStates
<1>2. Idle \in Run /\ Idle.task = "none"
  BY <1>1 DEF Run, Idle
<1>3. QED
  BY <1>2 DEF InScript, Guarded, Claiming

\* The certificate is no name of DNS.
LEMMA CertificateStands ==
  ASSUME IInv, UNCHANGED plan,
         machine' \in {machine, [machine EXCEPT !["caCert"] = {"planned"}]}
  PROVE  Stands /\ MachineType'
<1>1. MachineType /\ Resources' = Resources
  BY DEF MachineType, IInv, OtherTypes, Resources
<1>2. CASE machine' = machine
  BY <1>1, <1>2 DEF Stands, MachineType
<1>3. CASE machine' = [machine EXCEPT !["caCert"] = {"planned"}]
  BY <1>1, <1>3 DEF Stands, MachineType, Names, Values
<1>4. QED
  BY <1>2, <1>3

\* The scheduled task ends under its script.
LEMMA CertutilKeeps ==
  ASSUME IInv, NEW s \in Slots, TaskOk(s) \/ TaskBad(s) PROVE Kept
<1>1. /\ run[s].task = "running"
      /\ UNCHANGED <<plan, service, orphans, leftover, history>>
      /\ machine' \in {machine, [machine EXCEPT !["caCert"] = {"planned"}]}
  BY DEF TaskOk, TaskBad
<1>2. PICK q, t, r : /\ q = run[s] /\ t \in {"ok", "bad"}
                     /\ r = [q EXCEPT !.task = t]
                     /\ run' = [run EXCEPT ![s] = r]
  <2>1. PICK t : t \in {"ok", "bad"} /\ run' = [run EXCEPT ![s].task = t]
    BY DEF TaskOk, TaskBad
  <2>2. run' = [run EXCEPT ![s] = [run[s] EXCEPT !.task = t]]
    BY <2>1 DEF IInv, RunsInv
  <2>3. QED
    BY <2>1, <2>2
<1>3. Stands /\ MachineType'
  BY <1>1, CertificateStands
<1>4. q \in Run /\ InScript(q) /\ q.task = "running" /\ (~spoiled => Guarded(q))
  BY <1>1, <1>2 DEF IInv, RunsInv, TaskInv
<1>5. q # Idle
  BY <1>4 DEF Idle
<1>6. /\ r \in Run /\ r.cmd = q.cmd /\ r.pc = q.pc /\ r.seen = q.seen
  <2>1. t \in TaskStates
    BY <1>2 DEF TaskStates
  <2>2. QED
    BY <1>2, <1>4, <2>1 DEF Run
<1>7. InScript(r)
  BY <1>4, <1>5, <1>6 DEF InScript
<1>8. ~spoiled => Guarded(r)
  BY <1>4, <1>6 DEF Guarded
<1>9. ASSUME NEW n \in Names \cap Resources, Claiming(r, n)
      PROVE  machine'[n] \subseteq {"planned"}
  <2>1. Claiming(run[s], n)
    BY <1>2, <1>5, <1>6, <1>9 DEF Claiming
  <2>2. machine[n] \subseteq {"planned"}
    BY <2>1 DEF IInv, ClaimInv
  <2>3. QED
    BY <1>3, <2>2 DEF Stands
<1>10. RunsInv' /\ TaskInv' /\ ClaimInv'
  <2>1. ~spoiled' => ~spoiled /\ leftover' = 0 /\ Guarded(r)
    BY <1>1, <1>8 DEF history, IInv, TaskInv
  <2>2. UNCHANGED plan /\ r \in Run
    BY <1>1, <1>6
  <2>3. QED
    BY <1>2, <1>3, <1>7, <1>9, <2>1, <2>2, SlotStep
<1>11. OtherTypes'
  BY <1>1, <1>3 DEF IInv, OtherTypes, MachineType, service, history, Resources
<1>12. QED
  BY <1>3, <1>10, <1>11 DEF Kept, IInv

\* An instance that its script gave up ends.
LEMMA OrphanKeeps ==
  ASSUME IInv, OrphanEnds PROVE Kept
<1>1. /\ UNCHANGED <<plan, service, run, leftover, history>> /\ orphans' \in Nat
      /\ machine' \in {machine, [machine EXCEPT !["caCert"] = {"planned"}]}
  BY DEF OrphanEnds, IInv, OtherTypes
<1>2. Stands /\ MachineType'
  BY <1>1, CertificateStands
<1>3. Run' = Run /\ Resources' = Resources
  BY <1>1 DEF Run, Resources
<1>4. RunsInv'
  <2>1. run' \in [Slots -> Run] /\ \A t \in Slots : InScript(run'[t])
    BY <1>1 DEF IInv, RunsInv
  <2>2. \A t \in Slots : InScript(run[t])'
    BY <1>1, <2>1 DEF InScript
  <2>3. QED
    BY <1>3, <2>1, <2>2 DEF RunsInv
<1>5. TaskInv'
  BY <1>1 DEF IInv, TaskInv, Guarded, history
<1>6. ClaimInv'
  <2>1. SUFFICES ASSUME NEW t \in Slots, NEW n \in Names \cap Resources,
                        Claiming(run[t], n)
                 PROVE  machine'[n] \subseteq {"planned"}
    BY <1>1, <1>3 DEF ClaimInv, Claiming
  <2>2. machine[n] \subseteq {"planned"}
    BY <2>1 DEF IInv, ClaimInv
  <2>3. QED
    BY <1>2, <2>2 DEF Stands
<1>7. OtherTypes'
  BY <1>1, <1>2 DEF IInv, OtherTypes, MachineType, service, history, Resources
<1>8. QED
  BY <1>2, <1>4, <1>5, <1>6, <1>7 DEF Kept, IInv

\* A script that ends has passed its finally block.
LEMMA EndKeeps ==
  ASSUME IInv, NEW s \in Slots, End(s) PROVE Kept
<1>1. /\ run[s] # Idle /\ run[s].pc = Length(s) + 1
      /\ UNCHANGED <<plan, machine, service, orphans, faults, overlaps, spoiled>>
      /\ run' = [run EXCEPT ![s] = Idle]
      /\ leftover' = leftover + Abandoned({s})
  BY DEF End
<1>2. run[s] \in Run /\ run[s].cmd \in plan /\ run[s].cmd \in Commands
  BY <1>1, AtStep
<1>3. Stands /\ MachineType'
  BY <1>1, MachineSame
<1>4. PICK left : left = {x \in {s} : run[x].task # "none"}
  OBVIOUS
<1>5. Abandoned({s}) \in Nat /\ (left = {} => Abandoned({s}) = 0)
  <2>1. IsFiniteSet({s})
    BY FS_Singleton
  <2>2. left \in SUBSET {s}
    BY <1>4
  <2>3. IsFiniteSet(left)
    BY <2>1, <2>2, FS_Subset
  <2>4. Cardinality(left) \in Nat
    BY <2>3, FS_CardinalityType
  <2>5. QED
    BY <1>4, <2>4, FS_EmptySet DEF Abandoned
<1>6. leftover' \in Nat /\ (left = {} => leftover' = leftover)
  BY <1>1, <1>5 DEF IInv, OtherTypes
<1>7. ASSUME ~spoiled PROVE left = {}
  <2>1. Guarded(run[s])
    BY <1>7 DEF IInv, TaskInv
  <2>2. SUFFICES ASSUME run[s].cmd = "ca.install_cert", run[s].pc \in 2 .. 4 PROVE FALSE
    BY <1>4, <2>1 DEF Guarded
  <2>3. Length(s) = 5
    BY <2>2, InstallCertScript DEF Length
  <2>4. QED
    BY <1>1, <2>2, <2>3
<1>8. RunsInv' /\ TaskInv' /\ ClaimInv'
  <2>1. ~spoiled' => ~spoiled /\ leftover' = 0 /\ Guarded(Idle)
    BY <1>1, <1>6, <1>7, IdleFine DEF IInv, TaskInv
  <2>2. UNCHANGED plan /\ Idle \in Run /\ InScript(Idle)
    BY <1>1, IdleFine
  <2>3. \A n \in Names \cap Resources :
          Claiming(Idle, n) => machine'[n] \subseteq {"planned"}
    BY IdleFine
  <2>4. QED
    BY <1>1, <1>3, <2>1, <2>2, <2>3, SlotStep
<1>9. OtherTypes'
  <2>1. outcome' \in [plan -> {"none", "done", "failed"}] /\ done' \subseteq plan
    BY <1>2 DEF End, IInv, OtherTypes
  <2>2. QED
    BY <1>1, <1>3, <1>6, <2>1 DEF IInv, OtherTypes, MachineType, service, Resources
<1>10. QED
  BY <1>3, <1>8, <1>9 DEF Kept, IInv

\* A reboot ends every script and spoils the promise about tasks.
LEMMA RebootKeeps ==
  ASSUME IInv, Reboot PROVE Kept
<1>1. /\ UNCHANGED <<plan, machine, done, overlaps>>
      /\ run' = [s \in Slots |-> Idle] /\ spoiled' = TRUE /\ orphans' = 0
      /\ leftover' = leftover + Abandoned(Slots) /\ faults' = faults + 1
  BY DEF Reboot, Fault
<1>2. Stands /\ MachineType'
  BY <1>1, MachineSame
<1>3. leftover' \in Nat
  <2>1. PICK left : left = {s \in Slots : run[s].task # "none"}
    OBVIOUS
  <2>2. IsFiniteSet(Slots) /\ left \in SUBSET Slots
    BY <2>1, ProvisionAssumption
  <2>3. IsFiniteSet(left)
    BY <2>2, FS_Subset
  <2>4. Cardinality(left) \in Nat
    BY <2>3, FS_CardinalityType
  <2>5. Abandoned(Slots) \in Nat
    BY <2>1, <2>4 DEF Abandoned
  <2>6. QED
    BY <1>1, <2>5 DEF IInv, OtherTypes
<1>4. Run' = Run /\ Resources' = Resources
  BY <1>1 DEF Run, Resources
<1>5. RunsInv'
  <2>1. run' \in [Slots -> Run]
    BY <1>1, IdleFine
  <2>2. \A t \in Slots : run'[t] = Idle
    BY <1>1
  <2>3. \A t \in Slots : InScript(run[t])'
    BY <2>2 DEF InScript
  <2>4. QED
    BY <1>4, <2>1, <2>3 DEF RunsInv
<1>6. TaskInv'
  BY <1>1 DEF TaskInv
<1>7. ClaimInv'
  BY <1>1 DEF ClaimInv, Claiming
<1>8. OtherTypes'
  <2>1. outcome' \in [plan -> {"none", "done", "failed"}]
    BY DEF Reboot, IInv, OtherTypes
  <2>2. up' \in BOOLEAN
    BY DEF Reboot
  <2>3. QED
    BY <1>1, <1>2, <1>3, <2>1, <2>2 DEF IInv, OtherTypes, MachineType, Resources
<1>9. QED
  BY <1>2, <1>5, <1>6, <1>7, <1>8 DEF Kept, IInv

LEMMA InitIInv == Init => IInv
<1>1. SUFFICES ASSUME Init PROVE IInv
  OBVIOUS
<1>2. /\ plan \in Plans /\ run = [s \in Slots |-> Idle]
      /\ up = ("ca.install_cert" \notin plan)
      /\ orphans = 0 /\ leftover = 0 /\ faults = 0 /\ overlaps = 0
      /\ outcome = [c \in plan |-> "none"] /\ done = {} /\ spoiled = FALSE
  BY <1>1, Zenon DEF Init
<1>3. PICK found \in [Contested -> SUBSET {"old", "planned"}] :
        machine = [r \in Resources |-> IF r \in Contested THEN found[r] ELSE {"old"}]
  BY <1>1, Zenon DEF Init
<1>4. DOMAIN machine = Resources /\ \A r \in Resources : machine[r] \subseteq Values
  BY <1>3 DEF Values
<1>5. plan \subseteq Commands /\ up \in BOOLEAN
  BY <1>2, ProvisionAssumption
<1>6. OtherTypes
  BY <1>2, <1>4, <1>5 DEF OtherTypes
<1>7. RunsInv /\ \A s \in Slots : run[s] = Idle
  BY <1>2, IdleFine DEF RunsInv
<1>8. TaskInv
  BY <1>2, <1>7, IdleFine DEF TaskInv
<1>9. ClaimInv
  BY <1>7, IdleFine DEF ClaimInv
<1>10. QED
  BY <1>6, <1>7, <1>8, <1>9 DEF IInv

LEMMA NextKeeps ==
  ASSUME IInv, Next PROVE Kept
<1>1. ASSUME NEW s \in Slots, NEW c \in plan, Deliver(s, c) PROVE Kept
  BY <1>1, DeliverKeeps
<1>2. ASSUME NEW s \in Slots, ScriptStep(s) PROVE Kept
  <2>1. CASE StepOk(s)
    BY <2>1, StepOkKeeps
  <2>2. CASE StepRefused(s) \/ PollBad(s)
    BY <2>2, ErrorKeeps
  <2>3. CASE StopService(s) \/ StartService(s)
    BY <2>3, ServiceKeeps
  <2>4. CASE Register(s) \/ Launch(s) \/ PollOk(s)
    BY <2>4, TaskKeeps
  <2>5. CASE Unregister(s)
    BY <2>5, UnregisterKeeps
  <2>6. CASE End(s)
    BY <2>6, EndKeeps
  <2>7. QED
    BY <1>2, <2>1, <2>2, <2>3, <2>4, <2>5, <2>6 DEF ScriptStep
<1>3. ASSUME NEW s \in Slots, Faulty(s) PROVE Kept
  <2>1. CASE StepFails(s) \/ ServiceFails(s) \/ TaskStepFails(s)
    BY <2>1, ErrorKeeps
  <2>2. CASE UnregisterFails(s)
    BY <2>2, UnregisterKeeps
  <2>3. QED
    BY <1>3, <2>1, <2>2 DEF Faulty
<1>4. ASSUME NEW s \in Slots, TaskOk(s) \/ TaskBad(s) PROVE Kept
  BY <1>4, CertutilKeeps
<1>5. CASE OrphanEnds
  BY <1>5, OrphanKeeps
<1>6. CASE Reboot
  BY <1>6, RebootKeeps
<1>7. QED
  BY <1>1, <1>2, <1>3, <1>4, <1>5, <1>6 DEF Next

LEMMA StutterKeeps ==
  ASSUME IInv, UNCHANGED vars PROVE Kept
<1>1. UNCHANGED <<plan, machine, up, run, orphans, leftover, outcome, done, faults,
                  overlaps, spoiled>>
  BY DEF vars, service, history
<1>2. Run' = Run /\ Resources' = Resources
  BY <1>1 DEF Run, Resources
<1>3. Stands
  BY <1>1 DEF Stands
<1>4. OtherTypes'
  BY <1>1, <1>2 DEF IInv, OtherTypes
<1>5. RunsInv'
  BY <1>1, <1>2 DEF IInv, RunsInv, InScript
<1>6. TaskInv'
  BY <1>1 DEF IInv, TaskInv, Guarded
<1>7. ClaimInv'
  BY <1>1, <1>2 DEF IInv, ClaimInv, Claiming
<1>8. QED
  BY <1>3, <1>4, <1>5, <1>6, <1>7 DEF Kept, IInv

LEMMA InvariantHolds == Spec => []IInv
<1>1. ASSUME IInv, [Next]_vars PROVE IInv'
  BY <1>1, NextKeeps, StutterKeeps DEF Kept
<1>2. QED
  BY <1>1, InitIInv, PTL DEF Spec

-----------------------------------------------------------------------------
(* Theorems.                                                               *)

\* Whatever is delivered, fails or reboots, every part of the state keeps its
\* type; above all no script runs past its end (Scripts, powershell.rs).
THEOREM ProvisionTypeCorrect == Spec => []TypeOK
<1>1. ASSUME IInv PROVE TypeOK
  <2>1. run \in [Slots -> Run] /\ OtherTypes
    BY <1>1 DEF IInv, RunsInv
  <2>2. \A s \in Slots : run[s] \in Run
    BY <2>1
  <2>3. QED
    BY <2>1, <2>2 DEF OtherTypes, Run, TaskStates, TypeOK
<1>2. QED
  BY <1>1, InvariantHolds, PTL

\* ca.install_cert (ca.rs) removes the task that holds the domain admin's
\* credentials on each of its ways out.
THEOREM NoTaskLeftBehind == Spec => []TasksCleaned
<1>1. IInv => TasksCleaned
  BY DEF IInv, TaskInv, TasksCleaned
<1>2. QED
  BY <1>1, InvariantHolds, PTL

\* dns.apply_resources (dns.rs) leaves a name alone that holds anything but
\* the planned record, also when two runs look before either of them writes.
THEOREM ConflictingNamesStand == Spec => ConflictStands
<1>1. ASSUME IInv, [Next]_vars
      PROVE  [\A r \in DOMAIN machine \cap {"PTR", "A", "CNAME"} :
                ~(machine[r] \subseteq {"planned"}) => machine'[r] = machine[r]]_vars
  <2>1. Stands /\ DOMAIN machine = Resources
    BY <1>1, NextKeeps, StutterKeeps DEF Kept, IInv, OtherTypes
  <2>2. QED
    BY <2>1 DEF Stands, Names
<1>2. QED
  BY <1>1, InvariantHolds, PTL DEF Spec, ConflictStands

=============================================================================
