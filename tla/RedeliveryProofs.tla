--------------------------- MODULE RedeliveryProofs ---------------------------
(***************************************************************************)
(* TLAPS proofs about Provision: what a command that was reported done     *)
(* leaves on the machine, and what becomes of the certificate service,     *)
(* for any set of plans, any number of scripts at once and any bounds.     *)
(***************************************************************************)
EXTENDS ProvisionProofs, SequenceTheorems

-----------------------------------------------------------------------------
(* The inductive invariants.                                               *)

\* Resources that some script takes values from, or writes back as it read
\* them.  On any other resource a planned value stays.
Lossy == {"pkiCNAME", "address", "templateACL", "responder"}

\* What a step that the script has passed without an error left behind.
Result(c, st) ==
  CASE st.op \in {"put", "create", "claim", "poll"} -> machine[st.res] = {"planned"}
    [] st.op \in {"ensure", "ifAbsent", "check"}    -> machine[st.res] # {}
    [] st.op = "stop" -> up => \A r \in Targets(c) \cap Configuration : live[r] = {"planned"}
    [] OTHER -> TRUE

\* ... all of the steps before the n-th one.
Achieved(c, n) ==
  \A i \in 1 .. Len(Script(c)) :
    i < n /\ Script(c)[i].strict => Result(c, Script(c)[i])

RunsAchieve ==
  \A s \in Slots : run[s] # Idle /\ ~run[s].failed /\ Additive(run[s].cmd)
                     => Achieved(run[s].cmd, run[s].pc)
DoneAchieve == \A c \in done : Additive(c) => Achieved(c, Len(Script(c)) + 1)

\* A script about to create or claim what it looked for.
Choosing(r) == /\ r # Idle /\ r.pc \in 1 .. Len(Script(r.cmd))
               /\ Script(r.cmd)[r.pc].op \in {"ifAbsent", "claim"}

\* What it saw is still there.
SeenHolds(r) ==
  LET has == machine[Script(r.cmd)[r.pc].res] IN
  Choosing(r) => /\ r.seen # {} => has # {}
                 /\ r.seen = {"planned"} => has = {"planned"}

\* A task that ended well has installed the certificate.
TaskHolds(r) ==
  r.task # "none" => /\ r.cmd = "ca.install_cert"
                     /\ r.task = "ok" => machine["caCert"] = {"planned"}

RerunInv == /\ RunsAchieve /\ DoneAchieve
            /\ \A s \in Slots : SeenHolds(run[s]) /\ TaskHolds(run[s])

\* Whoever stopped the service is about to start it.
Pending == \E s \in Slots : /\ run[s] # Idle /\ run[s].pc \in 1 .. Length(s)
                            /\ Current(s).op = "start"

\* The service still waits for its certificate.
Unstarted == /\ "ca.install_cert" \in plan \ done
             /\ \A s \in Slots : run[s].cmd = "ca.install_cert" /\ ~run[s].failed
                                   => run[s].pc <= 5

StartInv == faults = 0 => up \/ Pending \/ Unstarted

\* The commands that take away, or write back what they read.
Merging == {"template.grant_access.1", "template.grant_access.2",
            "ocsp.configure_revocation.1", "ocsp.configure_revocation.2"}
Replacing == Merging \cup {"dns.create_record"}

Fixed(c) ==
  IF c = "dns.create_record" THEN machine["pkiCNAME"] = {"planned"}
                             ELSE Script(c)[2].val \in machine[Script(c)[2].res]

\* How far the only script has come.
Progress(r) ==
  /\ r.cmd \in Merging => /\ r.pc = 2 => r.seen = machine[Script(r.cmd)[2].res]
                          /\ r.pc = 3 /\ ~r.failed => Fixed(r.cmd)
  /\ r.cmd = "dns.create_record" /\ r.pc \in 4 .. 5 /\ ~r.failed => Fixed(r.cmd)

LastInv ==
  /\ \A c \in plan : outcome[c] = "done" => c \in done
  /\ overlaps = 0 =>
       /\ \A s, t \in Slots : run[s] # Idle /\ run[t] # Idle => s = t
       /\ \A s \in Slots : Progress(run[s])
       /\ \A c \in plan \cap Replacing :
            outcome[c] = "done" /\ (\A s \in Slots : run[s].cmd # c) => Fixed(c)

-----------------------------------------------------------------------------
(* The scripts: what the proofs need to know of them.                      *)

\* The step before a choice looked at the same resource.
LooksFirst(script, i) ==
  script[i].op \in {"ifAbsent", "claim"} =>
    /\ i > 1 /\ script[i - 1].op = "look" /\ script[i - 1].res = script[i].res
    /\ script[i - 1].strict

\* A step of a command that only adds.
Adding(st) ==
  /\ st.op \in {"put", "create", "claim", "ensure", "ifAbsent", "check", "look",
                "issue", "register", "launch", "poll", "unregister", "stop", "start"}
  /\ st.val = "planned" /\ st.res \notin Lossy
  /\ st.op \notin {"stop", "start"} => st.res # "certsvc"

\* A script that only adds, and neither writes settings nor stops the service.
AddingScript(script) ==
  \A i \in 1 .. Len(script) :
    /\ Adding(script[i]) /\ LooksFirst(script, i)
    /\ script[i].res \notin Configuration /\ script[i].op # "stop"

\* The registry values that the certificate service reads when it starts.
LEMMA ConfigurationNames ==
  Configuration =
    {"DSConfigDN", "CRLPeriodUnits", "CRLPeriod", "CRLDeltaPeriodUnits",
     "CRLDeltaPeriod", "CRLOverlapPeriodUnits", "CRLOverlapPeriod",
     "ValidityPeriodUnits", "ValidityPeriod", "AuditFilter",
     "CACertPublicationURLs", "CRLPublicationURLs"}
<1>1. DOMAIN Settings = 1 .. 10
  BY DEF Settings
<1>2. {Settings[i] : i \in 1 .. 10} =
        {Settings[1], Settings[2], Settings[3], Settings[4], Settings[5],
         Settings[6], Settings[7], Settings[8], Settings[9], Settings[10]}
  <2>1. \A i \in 1 .. 10 : i = 1 \/ i = 2 \/ i = 3 \/ i = 4 \/ i = 5 \/ i = 6 \/ i = 7
                             \/ i = 8 \/ i = 9 \/ i = 10
    OBVIOUS
  <2>2. QED
    BY <2>1
<1>3. QED
  BY <1>1, <1>2 DEF Configuration, Settings, Urls

\* The provisioning commands that only add.
LEMMA ProvisioningAdds ==
  /\ AddingScript(InstallSteps) /\ AddingScript(PublishCrlSteps)
  /\ AddingScript(SignRequestSteps) /\ AddingScript(InstallCertSteps)
  /\ AddingScript(PublishTemplateSteps) /\ AddingScript(SetupCertEnrollSteps)
  /\ AddingScript(OcspInstallSteps) /\ AddingScript(ApplyResourcesSteps)
<1> USE ConfigurationNames DEF AddingScript, Adding, LooksFirst, Lossy, Step
<1>1. AddingScript(InstallSteps)
  BY DEF InstallSteps, Put, Create
<1>2. AddingScript(PublishCrlSteps) /\ AddingScript(SignRequestSteps)
  BY DEF PublishCrlSteps, SignRequestSteps, Put, Check
<1>3. AddingScript(InstallCertSteps)
  BY DEF InstallCertSteps, Task, Service, Lenient
<1>4. AddingScript(PublishTemplateSteps) /\ AddingScript(OcspInstallSteps)
  BY DEF PublishTemplateSteps, OcspInstallSteps, Put, Ensure
<1>5. AddingScript(SetupCertEnrollSteps)
  BY DEF SetupCertEnrollSteps, Put, Look, IfAbsent
<1>6. AddingScript(ApplyResourcesSteps)
  BY DEF ApplyResourcesSteps, Look, IfAbsent, Claim
<1>7. QED
  BY <1>1, <1>2, <1>3, <1>4, <1>5, <1>6

\* ... and the short ones.
LEMMA ShortAdds ==
  /\ AddingScript(DnsSetClientSteps) /\ AddingScript(HostnameRenameSteps)
  /\ AddingScript(AddStoreSteps) /\ AddingScript(DsPublishSteps)
  /\ AddingScript(EnrollSteps) /\ AddingScript(DomainJoinSteps)
  /\ AddingScript(InstallForestSteps) /\ AddingScript(WindowsFileWriteSteps)
<1> USE ConfigurationNames DEF AddingScript, Adding, LooksFirst, Lossy, Step
<1>1. /\ AddingScript(DnsSetClientSteps) /\ AddingScript(HostnameRenameSteps)
      /\ AddingScript(AddStoreSteps) /\ AddingScript(DsPublishSteps)
  BY DEF DnsSetClientSteps, HostnameRenameSteps, AddStoreSteps, DsPublishSteps, Put, Check
<1>2. /\ AddingScript(EnrollSteps) /\ AddingScript(DomainJoinSteps)
      /\ AddingScript(InstallForestSteps) /\ AddingScript(WindowsFileWriteSteps)
  BY DEF EnrollSteps, DomainJoinSteps, InstallForestSteps, WindowsFileWriteSteps, Put, Create
<1>3. QED
  BY <1>1, <1>2

\* ca.configure_settings writes its ten values, then restarts the service.
LEMMA ConfigureSettingsScript ==
  LET s == ConfigureSettingsSteps IN
  /\ Len(s) = 13
  /\ \A i \in 1 .. 10 : s[i] = Put(Settings[i])
  /\ s[11] = Lenient(Put("auditpol"))
  /\ s[12] = Service("stop") /\ s[13] = Service("start")
<1>1. PICK puts, rest : /\ puts = [i \in 1 .. Len(Settings) |-> Put(Settings[i])]
                        /\ rest = <<Lenient(Put("auditpol")), Service("stop"), Service("start")>>
  OBVIOUS
<1>2. PICK S : S = {puts[i] : i \in 1 .. 10} \cup {rest[i] : i \in 1 .. 3}
  OBVIOUS
<1>3. Len(Settings) = 10
  BY DEF Settings
<1>4. /\ puts \in Seq(S) /\ Len(puts) = 10
      /\ \A i \in 1 .. 10 : puts[i] = Put(Settings[i])
  BY <1>1, <1>2, <1>3
<1>5. rest \in Seq(S) /\ Len(rest) = 3
  BY <1>1, <1>2
<1>6. PICK s : s = puts \o rest
  OBVIOUS
<1>7. /\ Len(s) = 13
      /\ \A i \in 1 .. 10 : s[i] = puts[i]
      /\ s[11] = rest[1] /\ s[12] = rest[2] /\ s[13] = rest[3]
  <2>1. /\ Len(s) = Len(puts) + Len(rest)
        /\ \A i \in 1 .. Len(puts) + Len(rest) :
             s[i] = IF i <= Len(puts) THEN puts[i] ELSE rest[i - Len(puts)]
    BY <1>4, <1>5, <1>6, ConcatProperties
  <2>2. QED
    BY <1>4, <1>5, <2>1
<1>8. ConfigureSettingsSteps = s
  BY <1>1, <1>6, Zenon DEF ConfigureSettingsSteps
<1>9. rest[1] = Lenient(Put("auditpol")) /\ rest[2] = Service("stop") /\ rest[3] = Service("start")
  BY <1>1
<1>10. QED
  BY <1>4, <1>7, <1>8, <1>9, Zenon

\* ca.configure_cdp_aia writes its two, then restarts the service.
LEMMA ConfigureCdpAiaScript ==
  LET s == ConfigureCdpAiaSteps IN
  /\ Len(s) = 4
  /\ s[1] = Put("CACertPublicationURLs") /\ s[2] = Put("CRLPublicationURLs")
  /\ s[3] = Service("stop") /\ s[4] = Service("start")
BY DEF ConfigureCdpAiaSteps, Urls

\* The two commands that restart the certificate service.
Restarting == {"ca.configure_settings", "ca.configure_cdp_aia"}

\* The stop and the start, and every setting written before them.
Restarts(script, i) ==
  script[i].op = "stop" =>
    /\ i + 1 \in 1 .. Len(script) /\ script[i + 1].op = "start" /\ script[i].strict
    /\ \A k \in 1 .. Len(script) : script[k].res \in Configuration =>
         k < i /\ script[k].op = "put" /\ script[k].strict

\* They write their settings, insist on each, and restart the service.
LEMMA RestartingScripts ==
  ASSUME NEW c \in Restarting, NEW i \in 1 .. Len(Script(c))
  PROVE  /\ Adding(Script(c)[i]) /\ Script(c)[i].op \notin {"ifAbsent", "claim"}
         /\ Restarts(Script(c), i)
         /\ \E j \in 1 .. Len(Script(c)) : Script(c)[j].op = "stop" /\ Script(c)[j].strict
<1> USE ConfigurationNames DEF Adding, Lossy, Restarts, Step, Put, Service, Lenient
<1>1. CASE c = "ca.configure_cdp_aia"
  <2>1. PICK s : s = Script(c)
    OBVIOUS
  <2>2. /\ Len(s) = 4
        /\ s[1] = Put("CACertPublicationURLs") /\ s[2] = Put("CRLPublicationURLs")
        /\ s[3] = Service("stop") /\ s[4] = Service("start")
    BY <1>1, <2>1, ConfigureCdpAiaScript DEF Script
  <2>3. \A k \in 1 .. 4 : k = 1 \/ k = 2 \/ k = 3 \/ k = 4
    OBVIOUS
  <2>4. s[3].op = "stop" /\ s[3].strict /\ 3 \in 1 .. Len(s)
    BY <2>2
  <2>5. Adding(s[i]) /\ s[i].op \notin {"ifAbsent", "claim"}
    BY <2>1, <2>2, <2>3
  <2>6. Restarts(s, i)
    <3>1. SUFFICES ASSUME s[i].op = "stop" PROVE Restarts(s, i)
      OBVIOUS
    <3>2. i = 3
      BY <2>1, <2>2, <2>3, <3>1
    <3>3. \A k \in 1 .. 4 : s[k].res \in Configuration => k < 3 /\ s[k].op = "put" /\ s[k].strict
      BY <2>2, <2>3
    <3>4. QED
      BY <2>2, <3>2, <3>3
  <2>7. QED
    BY <2>1, <2>4, <2>5, <2>6
<1>2. CASE c = "ca.configure_settings"
  <2>1. PICK s : s = Script(c)
    OBVIOUS
  <2>2. /\ Len(s) = 13
        /\ \A k \in 1 .. 10 : s[k] = Put(Settings[k])
        /\ s[11] = Lenient(Put("auditpol")) /\ s[12] = Service("stop")
        /\ s[13] = Service("start")
    BY <1>2, <2>1, ConfigureSettingsScript DEF Script
  <2>3. \A k \in 1 .. 13 : k \in 1 .. 10 \/ k = 11 \/ k = 12 \/ k = 13
    OBVIOUS
  <2>4. s[12].op = "stop" /\ s[12].strict /\ 12 \in 1 .. Len(s)
    BY <2>2
  <2>5. \A k \in 1 .. 10 : Settings[k] \in Configuration
    <3>1. DOMAIN Settings = 1 .. 10
      BY DEF Settings
    <3>2. QED
      BY <3>1 DEF Configuration
  <2>6. ASSUME NEW k \in 1 .. 10
        PROVE  /\ s[k].op = "put" /\ s[k].strict /\ s[k].res = Settings[k]
               /\ s[k].val = "planned" /\ s[k].res \in Configuration
    <3>1. s[k] = Put(Settings[k]) /\ Settings[k] \in Configuration
      BY <2>2, <2>5
    <3>2. PICK x : x = Settings[k]
      OBVIOUS
    <3>3. s[k] = [op |-> "put", res |-> x, val |-> "planned", strict |-> TRUE]
      BY <3>1, <3>2
    <3>4. /\ s[k].op = "put" /\ s[k].strict = TRUE /\ s[k].res = x
          /\ s[k].val = "planned"
      BY <3>3
    <3>5. QED
      BY <3>1, <3>2, <3>4
  <2>7. Adding(s[i]) /\ s[i].op \notin {"ifAbsent", "claim"}
    <3>1. CASE i \in 1 .. 10
      BY <2>6, <3>1
    <3>2. CASE i = 11 \/ i = 12 \/ i = 13
      BY <2>2, <3>2
    <3>3. QED
      BY <2>1, <2>2, <2>3, <3>1, <3>2
  <2>8. Restarts(s, i)
    <3>1. SUFFICES ASSUME s[i].op = "stop" PROVE Restarts(s, i)
      OBVIOUS
    <3>2. i = 12
      BY <2>1, <2>2, <2>3, <2>6, <3>1
    <3>3. \A k \in 1 .. 13 : s[k].res \in Configuration => k \in 1 .. 10
      BY <2>2, <2>3
    <3>4. QED
      BY <2>2, <2>6, <3>2, <3>3
  <2>9. QED
    BY <2>1, <2>4, <2>7, <2>8
<1>3. QED
  BY <1>1, <1>2 DEF Restarting

\* The commands that take away or write back, and ip.write, which insists on
\* nothing.
LEMMA LossyScripts ==
  /\ LET s == Script("dns.create_record") IN
     /\ Len(s) = 4
     /\ s[1].op = "look" /\ s[2].op = "drop" /\ s[3].op = "create" /\ s[4].op = "check"
     /\ \A i \in 1 .. 4 : s[i].res = "pkiCNAME" /\ s[i].val = "planned" /\ s[i].strict
  /\ LET s == Script("ip.write") IN
     /\ Len(s) = 4
     /\ s[1].op = "put" /\ s[2].op = "look" /\ s[3].op = "drop" /\ s[4].op = "create"
     /\ s[1].res = "DHCP" /\ \A i \in 2 .. 4 : s[i].res = "address"
     /\ \A i \in 1 .. 4 : s[i].val = "planned" /\ ~s[i].strict
  /\ \A c \in Merging : LET s == Script(c) IN
       /\ Len(s) = 2 /\ s[1].op = "look" /\ s[2].op = "merge"
       /\ s[1].res = s[2].res /\ s[1].res \in {"templateACL", "responder"}
       /\ s[1].strict /\ s[2].strict
<1>1. LET s == Script("dns.create_record") IN
     /\ Len(s) = 4
     /\ s[1].op = "look" /\ s[2].op = "drop" /\ s[3].op = "create" /\ s[4].op = "check"
     /\ \A i \in 1 .. 4 : s[i].res = "pkiCNAME" /\ s[i].val = "planned" /\ s[i].strict
  BY DEF Script, CreateRecordSteps, Look, Drop, Create, Check, Step
<1>2. LET s == Script("ip.write") IN
     /\ Len(s) = 4
     /\ s[1].op = "put" /\ s[2].op = "look" /\ s[3].op = "drop" /\ s[4].op = "create"
     /\ s[1].res = "DHCP" /\ \A i \in 2 .. 4 : s[i].res = "address"
     /\ \A i \in 1 .. 4 : s[i].val = "planned" /\ ~s[i].strict
  BY DEF Script, IpWriteSteps, Look, Drop, Create, Put, Lenient, Step
<1>3. ASSUME NEW c \in Merging
      PROVE  LET s == Script(c) IN
             /\ Len(s) = 2 /\ s[1].op = "look" /\ s[2].op = "merge"
             /\ s[1].res = s[2].res /\ s[1].res \in {"templateACL", "responder"}
             /\ s[1].strict /\ s[2].strict
  BY DEF Merging, Script, GrantAccessSteps, ConfigureRevocationSteps, Look, Merge, Step
<1>4. QED
  BY <1>1, <1>2, <1>3

\* Every script is a sequence of steps.
LEMMA ScriptsAreSequences ==
  ASSUME NEW c \in Commands
  PROVE  DOMAIN Script(c) = 1 .. Len(Script(c)) /\ Len(Script(c)) \in 1 .. 14
<1>1. Len(Script(c)) \in 1 .. 14
  BY AnyStep
<1>2. CASE c = "ca.configure_settings"
  <2>1. PICK puts, rest : /\ puts = [i \in 1 .. Len(Settings) |-> Put(Settings[i])]
                          /\ rest = <<Lenient(Put("auditpol")), Service("stop"), Service("start")>>
    OBVIOUS
  <2>2. PICK S : S = {puts[i] : i \in 1 .. 10} \cup {rest[i] : i \in 1 .. 3}
    OBVIOUS
  <2>3. Len(Settings) = 10
    BY DEF Settings
  <2>4. puts \in Seq(S) /\ rest \in Seq(S)
    BY <2>1, <2>2, <2>3
  <2>5. puts \o rest \in Seq(S)
    BY <2>4
  <2>6. Script(c) = puts \o rest
    BY <1>2, <2>1, Zenon DEF Script, ConfigureSettingsSteps
  <2>7. QED
    BY <1>1, <2>5, <2>6
<1>3. CASE c # "ca.configure_settings"
  <2> DEFINE Listed(s) == DOMAIN s = 1 .. Len(s)
  <2>1. /\ Listed(InstallSteps) /\ Listed(ConfigureCdpAiaSteps) /\ Listed(PublishCrlSteps)
        /\ Listed(SignRequestSteps) /\ Listed(InstallCertSteps)
        /\ Listed(PublishTemplateSteps) /\ Listed(DnsSetClientSteps)
        /\ Listed(CreateRecordSteps) /\ Listed(ApplyResourcesSteps)
        /\ Listed(SetupCertEnrollSteps)
    BY DEF InstallSteps, ConfigureCdpAiaSteps, PublishCrlSteps, SignRequestSteps,
           InstallCertSteps, PublishTemplateSteps, DnsSetClientSteps, CreateRecordSteps,
           ApplyResourcesSteps, SetupCertEnrollSteps
  <2>2. /\ \A v : Listed(GrantAccessSteps(v)) /\ Listed(ConfigureRevocationSteps(v))
        /\ Listed(OcspInstallSteps) /\ Listed(IpWriteSteps) /\ Listed(HostnameRenameSteps)
        /\ Listed(AddStoreSteps) /\ Listed(DsPublishSteps) /\ Listed(EnrollSteps)
        /\ Listed(DomainJoinSteps) /\ Listed(InstallForestSteps)
        /\ Listed(WindowsFileWriteSteps)
    BY DEF GrantAccessSteps, ConfigureRevocationSteps, OcspInstallSteps, IpWriteSteps,
           HostnameRenameSteps, AddStoreSteps, DsPublishSteps, EnrollSteps,
           DomainJoinSteps, InstallForestSteps, WindowsFileWriteSteps
  <2> HIDE DEF Listed
  <2>3. Listed(Script(c))
    BY <1>3, <2>1, <2>2 DEF Commands, Script
  <2>4. QED
    BY <1>1, <2>3 DEF Listed
<1>4. QED
  BY <1>2, <1>3

\* Whatever is neither of these only adds.
LEMMA OthersAdd ==
  ASSUME NEW c \in Commands, c \notin Restarting \cup Replacing \cup {"ip.write"}
  PROVE  AddingScript(Script(c))
BY ProvisioningAdds, ShortAdds DEF Commands, Restarting, Replacing, Merging, Script

\* A command that takes nothing away never touches what another one may.
LEMMA AdditiveAdds ==
  ASSUME NEW c \in Commands, Additive(c)
  PROVE  /\ c \notin Replacing \cup {"ip.write"}
         /\ \A i \in 1 .. Len(Script(c)) : Adding(Script(c)[i])
<1>1. c \notin Replacing \cup {"ip.write"}
  <2>1. \A i \in DOMAIN Script(c) : Script(c)[i].op \notin {"drop", "merge"}
    BY DEF Additive, Steps
  <2>2. DOMAIN Script(c) = 1 .. Len(Script(c))
    BY ScriptsAreSequences
  <2>3. \A i \in 1 .. Len(Script(c)) : Script(c)[i].op \notin {"drop", "merge"}
    BY <2>1, <2>2
  <2>4. c # "dns.create_record" /\ c # "ip.write"
    BY <2>3, LossyScripts
  <2>5. c \notin Merging
    BY <2>3, LossyScripts
  <2>6. QED
    BY <2>4, <2>5 DEF Replacing
<1>2. QED
  BY <1>1, OthersAdd, RestartingScripts DEF AddingScript, Restarting

\* What holds of every step of every script: a resource from which nothing is
\* taken only gets the planned value; whoever chooses has just looked.
LEMMA AnyStepAdds ==
  ASSUME NEW c \in Commands, NEW i \in 1 .. Len(Script(c))
  PROVE  LET st == Script(c)[i] IN
         /\ st.res \notin Lossy => st.op \notin {"drop", "merge"} /\ st.val = "planned"
         /\ LooksFirst(Script(c), i)
         /\ st.op \in {"ifAbsent", "claim"} => st.res \notin Lossy \cup {"certsvc"}
         /\ st.res = "pkiCNAME" => c = "dns.create_record"
         /\ st.res \in {"templateACL", "responder"} => c \in Merging
         /\ st.op = "stop" => c \in Restarting
<1>1. PICK st : st = Script(c)[i]
  OBVIOUS
<1>2. CASE c = "dns.create_record"
  <2>1. /\ Len(Script(c)) = 4 /\ i \in 1 .. 4
        /\ st.op \in {"look", "drop", "create", "check"} /\ st.res = "pkiCNAME"
    <3>1. Len(Script(c)) = 4 /\ st.res = "pkiCNAME"
      BY <1>1, <1>2, LossyScripts
    <3>2. i = 1 \/ i = 2 \/ i = 3 \/ i = 4
      BY <3>1
    <3>3. QED
      BY <1>1, <1>2, <3>1, <3>2, LossyScripts
  <2>2. QED
    BY <1>1, <1>2, <2>1 DEF LooksFirst, Lossy
<1>3. CASE c = "ip.write"
  <2>1. /\ st.op \in {"put", "look", "drop", "create"} /\ st.val = "planned"
        /\ st.res \in {"DHCP", "address"} /\ (st.res = "DHCP" => st.op = "put")
    <3>1. Len(Script(c)) = 4
      BY <1>3, LossyScripts
    <3>2. i = 1 \/ i = 2 \/ i = 3 \/ i = 4
      BY <3>1
    <3>3. QED
      BY <1>1, <1>3, <3>2, LossyScripts
  <2>2. QED
    BY <1>1, <2>1 DEF LooksFirst, Lossy
<1>4. CASE c \in Merging
  <2>1. st.op \in {"look", "merge"} /\ st.res \in {"templateACL", "responder"}
    <3>1. Len(Script(c)) = 2
      BY <1>4, LossyScripts
    <3>2. i = 1 \/ i = 2
      BY <3>1
    <3>3. QED
      BY <1>1, <1>4, <3>2, LossyScripts
  <2>2. QED
    BY <1>1, <1>4, <2>1 DEF LooksFirst, Lossy
<1>5. CASE c \in Restarting
  BY <1>1, <1>5, RestartingScripts DEF LooksFirst, Adding, Lossy
<1>6. CASE c \notin Restarting \cup Replacing \cup {"ip.write"}
  <2>1. AddingScript(Script(c))
    BY <1>6, OthersAdd
  <2>2. Adding(st) /\ LooksFirst(Script(c), i) /\ st.op # "stop"
    BY <1>1, <2>1 DEF AddingScript
  <2>3. QED
    BY <1>1, <2>2 DEF Adding, Lossy
<1>7. QED
  BY <1>2, <1>3, <1>4, <1>5, <1>6 DEF Replacing

\* A record is claimed under one of the plan's names.
LEMMA ClaimsNames ==
  ASSUME NEW c \in Commands, NEW i \in 1 .. Len(Script(c)), Script(c)[i].op = "claim"
  PROVE  Script(c)[i].res \in Names
<1>1. c = "dns.apply_resources"
  BY AnyStep
<1>2. Script(c) = ApplyResourcesSteps
  BY <1>1 DEF Script
<1>3. QED
  BY <1>2 DEF ApplyResourcesSteps, Look, IfAbsent, Claim, Step, Names

\* A command that touches a resource of the plan, and is not about the service.
LEMMA ResourceOf ==
  ASSUME NEW c \in plan, c \in Commands, NEW i \in 1 .. Len(Script(c)),
         Script(c)[i].res # "certsvc"
  PROVE  Script(c)[i].res \in Resources /\ Script(c)[i].res \in Targets(c)
<1>1. i \in DOMAIN Script(c)
  BY ScriptsAreSequences
<1>2. Script(c)[i] \in Steps(c)
  BY <1>1 DEF Steps
<1>3. QED
  BY <1>2 DEF Resources, Targets

\* No script belongs to an idle slot.
LEMMA IdleIsNoCommand == "idle" \notin Commands
BY DEF Commands

-----------------------------------------------------------------------------
(* What a command has achieved stays.                                      *)

\* Other scripts add to the machine, and replace by what is planned.
Grows == \A r \in Resources \ Lossy :
           /\ machine[r] = {"planned"} => machine'[r] = {"planned"}
           /\ machine[r] # {} => machine'[r] # {}

\* A service that was started has read the registry.
ServiceStep == up' => (up /\ live' = live) \/ live' = Registry(machine)

\* Whatever others do, the passed steps of a script have their results.
LEMMA AchievedStays ==
  ASSUME IInv, NEW c \in plan, Additive(c), NEW n \in Nat, Achieved(c, n), Grows, ServiceStep
  PROVE  Achieved(c, n)'
<1>1. c \in Commands
  BY DEF IInv, OtherTypes
<1>2. SUFFICES ASSUME NEW i \in 1 .. Len(Script(c)), i < n, Script(c)[i].strict
               PROVE  Result(c, Script(c)[i])'
  BY DEF Achieved
<1>3. PICK st : st = Script(c)[i]
  OBVIOUS
<1>4. Result(c, st) /\ Adding(st)
  BY <1>1, <1>2, <1>3, AdditiveAdds DEF Achieved
<1>5. CASE st.op \notin {"stop", "start"}
  <2>1. st.res \in Resources \ Lossy
    BY <1>1, <1>3, <1>4, <1>5, ResourceOf DEF Adding
  <2>2. Result(c, st)'
    BY <1>4, <1>5, <2>1 DEF Result, Grows
  <2>3. QED
    BY <1>3, <2>2
<1>6. CASE st.op = "stop"
  <2>1. ASSUME up', NEW r \in Targets(c) \cap Configuration PROVE live'[r] = {"planned"}
    <3>1. CASE up /\ live' = live
      BY <1>4, <1>6, <3>1 DEF Result
    <3>2. CASE live' = Registry(machine)
      <4>1. PICK k \in DOMAIN Script(c) : Script(c)[k].res = r
        BY DEF Targets, Steps
      <4>2. k \in 1 .. Len(Script(c))
        BY <1>1, ScriptsAreSequences
      <4>3. Restarts(Script(c), i)
        BY <1>1, <1>3, <1>6, AnyStepAdds, RestartingScripts
      <4>4. k < i /\ Script(c)[k].op = "put" /\ Script(c)[k].strict
        BY <1>3, <1>6, <4>1, <4>2, <4>3 DEF Restarts
      <4>5. Len(Script(c)) \in 1 .. 14 /\ k < n
        <5>1. Len(Script(c)) \in 1 .. 14
          BY <1>1, AnyStep
        <5>2. i \in Int /\ k \in Int
          BY <4>2, <5>1
        <5>3. QED
          BY <1>2, <4>4, <5>1, <5>2
      <4>6. Result(c, Script(c)[k])
        BY <4>2, <4>4, <4>5 DEF Achieved
      <4>7. machine[r] = {"planned"}
        BY <4>1, <4>4, <4>6 DEF Result
      <4>8. r \in DOMAIN machine \cap Configuration
        BY DEF IInv, OtherTypes, Resources
      <4>9. QED
        BY <3>2, <4>7, <4>8 DEF Registry
    <3>3. QED
      BY <2>1, <3>1, <3>2 DEF ServiceStep
  <2>2. Result(c, st)'
    BY <1>6, <2>1 DEF Result
  <2>3. QED
    BY <1>3, <2>2
<1>7. CASE st.op = "start"
  BY <1>3, <1>7 DEF Result
<1>8. QED
  BY <1>5, <1>6, <1>7

\* One step further in the script.
LEMMA AchievedNext ==
  ASSUME NEW c, NEW p \in Nat, NEW n, n = p + 1, Achieved(c, p)',
         p \in 1 .. Len(Script(c)) /\ Script(c)[p].strict => Result(c, Script(c)[p])'
  PROVE  Achieved(c, n)'
<1>1. SUFFICES ASSUME NEW i \in 1 .. Len(Script(c)), i < n, Script(c)[i].strict
               PROVE  Result(c, Script(c)[i])'
  BY DEF Achieved
<1>2. i < p \/ i = p
  BY <1>1
<1>3. CASE i < p
  BY <1>1, <1>3 DEF Achieved
<1>4. CASE i = p
  BY <1>1, <1>4
<1>5. QED
  BY <1>2, <1>3, <1>4

\* What a slot's script has achieved.
RunAchieves(r) == r # Idle /\ ~r.failed /\ Additive(r.cmd) => Achieved(r.cmd, r.pc)

\* What holds of a slot while others work on the machine.
LEMMA RunStays ==
  ASSUME IInv, UNCHANGED plan, Grows, ServiceStep, NEW t \in Slots,
         RunAchieves(run[t]), SeenHolds(run[t]), TaskHolds(run[t]),
         NEW r, r = run[t]
  PROVE  RunAchieves(r)' /\ SeenHolds(r)' /\ TaskHolds(r)'
<1>1. r # Idle => /\ r.cmd \in plan /\ r.cmd \in Commands
                  /\ r.pc \in 1 .. Len(Script(r.cmd)) + 1
                  /\ Len(Script(r.cmd)) \in 1 .. 14
  BY AtStep DEF Length
<1>2. RunAchieves(r)'
  <2>1. SUFFICES ASSUME r # Idle, ~r.failed, Additive(r.cmd)
                 PROVE  Achieved(r.cmd, r.pc)'
    BY DEF RunAchieves
  <2>2. PICK c, n : c = r.cmd /\ n = r.pc
    OBVIOUS
  <2>3. c \in plan /\ n \in Nat
    BY <1>1, <2>1, <2>2
  <2>4. Achieved(c, n)
    BY <2>1, <2>2 DEF RunAchieves
  <2>5. Achieved(c, n)'
    BY <2>1, <2>2, <2>3, <2>4, AchievedStays
  <2>6. QED
    BY <2>2, <2>5, Zenon
<1>3. SeenHolds(r)'
  <2>1. SUFFICES ASSUME Choosing(r)
                 PROVE  LET has == machine'[Script(r.cmd)[r.pc].res] IN
                        /\ r.seen # {} => has # {}
                        /\ r.seen = {"planned"} => has = {"planned"}
    BY DEF SeenHolds, Choosing
  <2>2. PICK x : x = Script(r.cmd)[r.pc].res
    OBVIOUS
  <2>3. x \in Resources \ Lossy
    <3>1. r # Idle /\ r.pc \in 1 .. Len(Script(r.cmd))
          /\ Script(r.cmd)[r.pc].op \in {"ifAbsent", "claim"}
      BY <2>1 DEF Choosing
    <3>2. x \notin Lossy \cup {"certsvc"}
      BY <1>1, <2>2, <3>1, AnyStepAdds
    <3>3. QED
      BY <1>1, <2>2, <3>1, <3>2, ResourceOf
  <2>4. /\ r.seen # {} => machine[x] # {}
        /\ r.seen = {"planned"} => machine[x] = {"planned"}
    BY <2>1, <2>2 DEF SeenHolds
  <2>5. QED
    BY <2>2, <2>3, <2>4 DEF Grows
<1>4. TaskHolds(r)'
  <2>1. SUFFICES ASSUME r.task = "ok" PROVE machine'["caCert"] = {"planned"}
    BY DEF TaskHolds
  <2>2. r.cmd = "ca.install_cert" /\ machine["caCert"] = {"planned"}
    BY <2>1 DEF TaskHolds
  <2>3. r # Idle
    BY <2>2 DEF Idle
  <2>4. "caCert" \in Resources \ Lossy
    <3>1. Len(Script(r.cmd)) = 5 /\ Script(r.cmd)[1].res = "caCert"
      BY <2>2 DEF Script, InstallCertSteps, Task, Service, Step
    <3>2. 1 \in 1 .. Len(Script(r.cmd))
      BY <3>1
    <3>3. "caCert" \in Resources
      BY <1>1, <2>3, <3>1, <3>2, ResourceOf
    <3>4. QED
      BY <3>3 DEF Lossy
  <2>5. QED
    BY <2>2, <2>4 DEF Grows
<1>5. QED
  BY <1>2, <1>3, <1>4

\* What a command reported done has achieved stays, too.
LEMMA DoneStays ==
  ASSUME IInv, RerunInv, Grows, ServiceStep,
         \A c \in done' \ done : c \in plan /\ (Additive(c) => Achieved(c, Len(Script(c)) + 1))
  PROVE  DoneAchieve'
<1>1. SUFFICES ASSUME NEW c \in done', Additive(c)
               PROVE  Achieved(c, Len(Script(c)) + 1)'
  BY DEF DoneAchieve, Additive
<1>2. c \in plan /\ Achieved(c, Len(Script(c)) + 1)
  BY <1>1 DEF RerunInv, DoneAchieve, IInv, OtherTypes
<1>3. c \in Commands /\ Len(Script(c)) \in 1 .. 14
  BY <1>2, AnyStep DEF IInv, OtherTypes
<1>4. PICK n : n = Len(Script(c)) + 1
  OBVIOUS
<1>5. n \in Nat /\ Achieved(c, n)
  BY <1>2, <1>3, <1>4
<1>6. Achieved(c, n)'
  BY <1>1, <1>2, <1>5, AchievedStays
<1>7. QED
  BY <1>4, <1>6, Zenon

\* A step that changes one slot at most.
LEMMA RerunSlot ==
  ASSUME IInv, RerunInv, UNCHANGED plan, Grows, ServiceStep, NEW s \in Slots, NEW r,
         run' = [run EXCEPT ![s] = r],
         RunAchieves(r)', SeenHolds(r)', TaskHolds(r)',
         \A c \in done' \ done : c \in plan /\ (Additive(c) => Achieved(c, Len(Script(c)) + 1))
  PROVE  RerunInv'
<1>1. run \in [Slots -> Run]
  BY DEF IInv, RunsInv
<1>2. ASSUME NEW t \in Slots
      PROVE  RunAchieves(run[t])' /\ SeenHolds(run[t])' /\ TaskHolds(run[t])'
  <2>1. PICK u : u = run'[t]
    OBVIOUS
  <2>2. CASE t = s
    <3>1. u = r
      BY <1>1, <2>1, <2>2
    <3>2. RunAchieves(u)' /\ SeenHolds(u)' /\ TaskHolds(u)'
      BY <3>1
    <3>3. QED
      BY <2>1, <3>2 DEF RunAchieves, Achieved, Result, SeenHolds, Choosing, TaskHolds
  <2>3. CASE t # s
    <3>1. u = run[t]
      BY <1>1, <2>1, <2>3
    <3>2. RunAchieves(run[t]) /\ SeenHolds(run[t]) /\ TaskHolds(run[t])
      BY DEF RerunInv, RunsAchieve, RunAchieves
    <3>3. RunAchieves(u)' /\ SeenHolds(u)' /\ TaskHolds(u)'
      BY <3>1, <3>2, RunStays
    <3>4. QED
      BY <2>1, <3>3 DEF RunAchieves, Achieved, Result, SeenHolds, Choosing, TaskHolds
  <2>4. QED
    BY <2>2, <2>3
<1>3. DoneAchieve'
  BY DoneStays
<1>4. RunsAchieve'
  BY <1>2 DEF RunsAchieve, RunAchieves, Achieved
<1>5. QED
  BY <1>2, <1>3, <1>4 DEF RerunInv

-----------------------------------------------------------------------------
(* What a step does to its resource and to its slot.                       *)

\* A plain step, if it takes effect at all.
LEMMA PlainGrows ==
  ASSUME IInv, NEW s \in Slots, run[s] # Idle, run[s].pc \in 1 .. Length(s),
         \/ machine' = machine
         \/ machine' = [machine EXCEPT ![Current(s).res] =
                          After(Current(s), run[s].seen, machine[Current(s).res])]
  PROVE  Grows
<1>1. run[s].cmd \in Commands /\ run[s].pc \in 1 .. Length(s)
  BY AtStep
<1>2. PICK st, seen : st = Current(s) /\ seen = run[s].seen
  OBVIOUS
<1>3. st.res \notin Lossy => st.op \notin {"drop", "merge"} /\ st.val = "planned"
  BY <1>1, <1>2, AnyStepAdds DEF Current, Length
<1>4. DOMAIN machine = Resources
  BY DEF IInv, OtherTypes
<1>5. ASSUME NEW r \in Resources \ Lossy, r = st.res,
             machine' = [machine EXCEPT ![st.res] = After(st, seen, machine[st.res])]
      PROVE  /\ machine[r] = {"planned"} => machine'[r] = {"planned"}
             /\ machine[r] # {} => machine'[r] # {}
  <2>1. machine'[r] = After(st, seen, machine[r])
    BY <1>4, <1>5
  <2>2. st.op \notin {"drop", "merge"} /\ st.val = "planned"
    BY <1>3, <1>5
  <2>3. QED
    BY <2>1, <2>2 DEF After
<1>6. ASSUME NEW r \in Resources \ Lossy, r # st.res
      PROVE  machine'[r] = machine[r]
  BY <1>2, <1>4, <1>6
<1>7. QED
  BY <1>2, <1>5, <1>6 DEF Grows

\* certutil only installs the certificate.
LEMMA CertificateGrows ==
  ASSUME IInv, machine' \in {machine, [machine EXCEPT !["caCert"] = {"planned"}]}
  PROVE  Grows
<1>1. DOMAIN machine = Resources
  BY DEF IInv, OtherTypes
<1>2. CASE machine' = machine
  BY <1>2 DEF Grows
<1>3. CASE machine' = [machine EXCEPT !["caCert"] = {"planned"}]
  BY <1>1, <1>3 DEF Grows
<1>4. QED
  BY <1>2, <1>3

\* A script goes to its next step, or gives up: it has failed, and only its
\* finally block is left.
Onward(q, r) == r.pc = q.pc + 1 /\ r.failed = q.failed
GivesUp(r) == /\ r.failed
              /\ \/ r.pc = Len(Script(r.cmd)) + 1
                 \/ /\ r.pc \in 1 .. Len(Script(r.cmd))
                    /\ Script(r.cmd)[r.pc].op = "unregister"

\* An error ends the script at a step that it insists on, and only there.
LEMMA ErrorShape ==
  ASSUME IInv, NEW s \in Slots, run[s] # Idle, run[s].pc \in 1 .. Length(s),
         NEW task, NEW r, r = Error(s, task)
  PROVE  /\ r.cmd = run[s].cmd /\ r.task = task /\ r.seen = run[s].seen
         /\ Current(s).strict => GivesUp(r)
         /\ ~Current(s).strict => Onward(run[s], r)
<1>1. /\ run[s] \in Run /\ run[s].cmd \in Commands
      /\ run[s].pc \in 1 .. Length(s) /\ Length(s) \in 1 .. 14
  BY AtStep
<1>2. PICK q, c, p, n : q = run[s] /\ c = q.cmd /\ p = q.pc /\ n = p + 1
  OBVIOUS
<1>3. q \in Run /\ p \in 1 .. Len(Script(c)) /\ Len(Script(c)) \in 1 .. 14
  BY <1>1, <1>2 DEF Length
<1>4. PICK ahead : ahead = {i \in p .. Len(Script(c)) : Script(c)[i].op = "unregister"}
  OBVIOUS
<1>5. PICK stop : stop = IF ahead = {} THEN Len(Script(c)) + 1
                                       ELSE CHOOSE i \in ahead : TRUE
  OBVIOUS
<1>6. stop = Len(Script(c)) + 1 \/ stop \in ahead
  BY <1>4, <1>5
<1>7. r = IF Script(c)[p].strict
            THEN [q EXCEPT !.failed = TRUE, !.pc = stop, !.task = task]
            ELSE [q EXCEPT !.pc = n, !.task = task]
  <2>1. Current(s) = Script(c)[p] /\ Length(s) = Len(Script(c))
    BY <1>2 DEF Current, Length
  <2>2. [run[s] EXCEPT !.pc = @ + 1, !.task = task]
          = [q EXCEPT !.pc = n, !.task = task]
    BY <1>2
  <2>3. QED
    BY <1>2, <1>4, <1>5, <2>1, <2>2 DEF Error
<1>8. CASE Script(c)[p].strict
  <2>1. r = [q EXCEPT !.failed = TRUE, !.pc = stop, !.task = task]
    BY <1>7, <1>8
  <2>2. /\ r.cmd = c /\ r.task = task /\ r.seen = q.seen /\ r.failed = TRUE /\ r.pc = stop
    BY <1>2, <1>3, <2>1 DEF Run
  <2>3. stop = Len(Script(c)) + 1 \/ (stop \in 1 .. Len(Script(c))
                                        /\ Script(c)[stop].op = "unregister")
    BY <1>3, <1>4, <1>6
  <2>4. GivesUp(r)
    BY <2>2, <2>3 DEF GivesUp
  <2>5. Current(s).strict
    BY <1>2, <1>8 DEF Current
  <2>6. QED
    BY <1>2, <2>2, <2>4, <2>5
<1>9. CASE ~Script(c)[p].strict
  <2>1. r = [q EXCEPT !.pc = n, !.task = task]
    BY <1>7, <1>9
  <2>2. /\ r.cmd = c /\ r.task = task /\ r.seen = q.seen /\ r.failed = q.failed /\ r.pc = n
    BY <1>2, <1>3, <2>1 DEF Run
  <2>3. ~Current(s).strict
    BY <1>2, <1>9 DEF Current
  <2>4. QED
    BY <1>2, <2>2, <2>3 DEF Onward
<1>10. QED
  BY <1>8, <1>9

-----------------------------------------------------------------------------
(* The steps of a running script, as changes of its slot.                  *)

Moved(s, r) ==
  /\ run[s] # Idle /\ run[s].pc \in 1 .. Length(s)
  /\ r \in Run /\ run' = [run EXCEPT ![s] = r] /\ r.cmd = run[s].cmd
  /\ Onward(run[s], r) \/ GivesUp(r)
  /\ UNCHANGED <<plan, outcome, done, overlaps>>
  /\ Grows /\ ServiceStep
  /\ \/ r.task \in {"none", run[s].task}
     \/ r.task # "ok" /\ Current(s).op \in {"register", "launch", "poll"}

\* A plain step that succeeds.
LEMMA StepMoves ==
  ASSUME IInv, NEW s \in Slots, StepOk(s)
  PROVE  \E r : /\ Moved(s, r) /\ Onward(run[s], r)
                /\ r.seen = IF Current(s).op = "look" THEN machine[Current(s).res]
                                                      ELSE run[s].seen
<1>1. /\ run[s] # Idle /\ run[s].pc <= Length(s)
      /\ UNCHANGED <<plan, service, history>>
      /\ run' = [run EXCEPT ![s].pc = @ + 1,
                            ![s].seen = IF Current(s).op = "look"
                                          THEN machine[Current(s).res] ELSE @]
  BY DEF StepOk, Plain
<1>2. run[s] \in Run /\ run[s].pc \in 1 .. Length(s)
  BY <1>1, AtStep
<1>3. PICK q, n, see, r : /\ q = run[s] /\ n = q.pc + 1
                          /\ see = (IF Current(s).op = "look" THEN machine[Current(s).res]
                                                              ELSE q.seen)
                          /\ r = [q EXCEPT !.pc = n, !.seen = see]
  OBVIOUS
<1>4. run' = [run EXCEPT ![s] = r]
  BY <1>1, <1>2, <1>3 DEF IInv, RunsInv
<1>5. /\ r.cmd = q.cmd /\ r.pc = n /\ r.failed = q.failed /\ r.task = q.task
      /\ r.seen = see
  BY <1>2, <1>3 DEF Run
<1>6. r \in Run
  <2>1. IInv'
    BY StepOkKeeps DEF Kept
  <2>2. run'[s] \in Run'
    BY <2>1 DEF IInv, RunsInv
  <2>3. run'[s] = r /\ Run' = Run
    BY <1>1, <1>4 DEF IInv, RunsInv, Run
  <2>4. QED
    BY <2>2, <2>3
<1>7. Grows
  BY <1>1, <1>2, PlainGrows DEF StepOk
<1>8. ServiceStep
  BY <1>1 DEF service, ServiceStep
<1>9. Moved(s, r) /\ Onward(run[s], r)
  BY <1>1, <1>2, <1>3, <1>4, <1>5, <1>6, <1>7, <1>8 DEF Moved, Onward, history
<1>10. QED
  BY <1>3, <1>5, <1>9

\* Every way a step can fail or be refused.
LEMMA ErrorMoves ==
  ASSUME IInv, NEW s \in Slots,
         StepRefused(s) \/ StepFails(s) \/ ServiceFails(s) \/ PollBad(s)
           \/ TaskStepFails(s)
  PROVE  \E r : /\ Moved(s, r) /\ (Current(s).strict => GivesUp(r))
                /\ faults' = 0 => faults = 0 /\ up' = up /\ Current(s).op # "start"
<1>1. /\ run[s] # Idle /\ run[s].pc <= Length(s)
      /\ UNCHANGED <<plan, outcome, done, overlaps>>
  BY DEF StepRefused, StepFails, ServiceFails, PollBad, TaskStepFails, Plain, At,
         history
<1>2. run[s] \in Run /\ run[s].pc \in 1 .. Length(s)
  BY <1>1, AtStep
<1>3. PICK task \in TaskStates :
        /\ run' = [run EXCEPT ![s] = Error(s, task)]
        /\ \/ task \in {"none", run[s].task}
           \/ task # "ok" /\ Current(s).op \in {"register", "launch", "poll"}
        /\ task = "none" \/ Current(s).op \in {"register", "launch", "poll"}
  <2>1. "none" \in TaskStates /\ "bad" \in TaskStates /\ "registered" \in TaskStates
        /\ "running" \in TaskStates /\ run[s].task \in TaskStates
    BY <1>2 DEF TaskStates, Run
  <2>2. CASE StepRefused(s) \/ StepFails(s) \/ ServiceFails(s)
    BY <2>1, <2>2 DEF StepRefused, StepFails, ServiceFails
  <2>3. CASE PollBad(s)
    BY <2>1, <2>3 DEF PollBad, At
  <2>4. CASE TaskStepFails(s)
    BY <2>1, <2>4 DEF TaskStepFails, At
  <2>5. QED
    BY <2>2, <2>3, <2>4
<1>4. PICK r : r = Error(s, task)
  OBVIOUS
<1>5. r \in Run
  BY <1>1, <1>2, <1>3, <1>4, ErrorFine DEF Fine
<1>6. /\ r.cmd = run[s].cmd /\ r.task = task
      /\ Current(s).strict => GivesUp(r)
      /\ ~Current(s).strict => Onward(run[s], r)
  BY <1>1, <1>2, <1>4, ErrorShape
<1>7. Grows
  <2>1. \/ machine' = machine
        \/ machine' = [machine EXCEPT ![Current(s).res] =
                         After(Current(s), run[s].seen, machine[Current(s).res])]
    BY DEF StepRefused, StepFails, ServiceFails, PollBad, TaskStepFails
  <2>2. QED
    BY <1>1, <1>2, <2>1, PlainGrows
<1>8. ServiceStep
  <2>1. CASE ServiceFails(s)
    BY <2>1 DEF ServiceFails, ServiceStep
  <2>2. CASE ~ServiceFails(s)
    BY <2>2 DEF StepRefused, StepFails, PollBad, TaskStepFails, service, ServiceStep
  <2>3. QED
    BY <2>1, <2>2
<1>9. faults' = 0 => faults = 0 /\ up' = up /\ Current(s).op # "start"
  <2>1. CASE StepRefused(s) \/ PollBad(s)
    BY <2>1 DEF StepRefused, PollBad, Plain, At, Special, service, history
  <2>2. CASE StepFails(s) \/ ServiceFails(s) \/ TaskStepFails(s)
    <3>1. faults' = faults + 1 /\ faults \in Nat
      BY <2>2 DEF StepFails, ServiceFails, TaskStepFails, Fault, IInv, OtherTypes
    <3>2. QED
      BY <3>1
  <2>3. QED
    BY <2>1, <2>2
<1>10. Moved(s, r)
  BY <1>1, <1>2, <1>3, <1>4, <1>5, <1>6, <1>7, <1>8 DEF Moved
<1>11. QED
  BY <1>6, <1>9, <1>10

\* The certificate service is stopped or started.
LEMMA ServiceMoves ==
  ASSUME IInv, NEW s \in Slots, StopService(s) \/ StartService(s)
  PROVE  \E r : Moved(s, r) /\ Onward(run[s], r)
<1>1. /\ run[s] # Idle /\ run[s].pc <= Length(s)
      /\ UNCHANGED <<plan, machine, outcome, done, overlaps>>
      /\ run' = [run EXCEPT ![s].pc = @ + 1]
  BY DEF StopService, StartService, At, history
<1>2. run[s] \in Run /\ run[s].pc \in 1 .. Length(s)
  BY <1>1, AtStep
<1>3. PICK q, n, r : q = run[s] /\ n = q.pc + 1 /\ r = [q EXCEPT !.pc = n]
  OBVIOUS
<1>4. run' = [run EXCEPT ![s] = r]
  BY <1>1, <1>3 DEF IInv, RunsInv
<1>5. r.cmd = q.cmd /\ r.pc = n /\ r.failed = q.failed /\ r.task = q.task
  BY <1>2, <1>3 DEF Run
<1>6. r \in Run
  <2>1. n \in 0 .. 15
    BY <1>1, <1>2, <1>3, Advance
  <2>2. QED
    BY <1>2, <1>3, <2>1 DEF Run
<1>7. Grows
  BY <1>1 DEF Grows
<1>8. ServiceStep
  BY DEF StopService, StartService, ServiceStep
<1>9. QED
  BY <1>1, <1>2, <1>3, <1>4, <1>5, <1>6, <1>7, <1>8 DEF Moved, Onward

\* The scheduled task is registered, started, waited for and removed.
LEMMA TaskMoves ==
  ASSUME IInv, NEW s \in Slots,
         Register(s) \/ Launch(s) \/ PollOk(s) \/ Unregister(s) \/ UnregisterFails(s)
  PROVE  /\ \E r : Moved(s, r)
         /\ Current(s).op \in {"register", "launch", "poll", "unregister"}
         /\ Current(s).op = "poll" => run[s].task = "ok"
         /\ UNCHANGED <<machine, up, live>>
         /\ faults' = 0 => faults = 0
<1>1. /\ run[s] # Idle /\ run[s].pc <= Length(s)
      /\ UNCHANGED <<plan, machine, up, live, outcome, done, overlaps>>
      /\ Current(s).op \in {"register", "launch", "poll", "unregister"}
      /\ Current(s).op = "poll" => run[s].task = "ok"
  BY DEF Register, Launch, PollOk, TaskStep, Unregister, UnregisterFails, At, history,
         service
<1>2. faults' = 0 => faults = 0
  <2>1. CASE UnregisterFails(s)
    BY <2>1 DEF UnregisterFails, Fault, IInv, OtherTypes
  <2>2. CASE ~UnregisterFails(s)
    BY <2>2 DEF Register, Launch, PollOk, TaskStep, Unregister, history
  <2>3. QED
    BY <2>1, <2>2
<1>3. run[s] \in Run /\ run[s].pc \in 1 .. Length(s)
  BY <1>1, AtStep
<1>4. PICK q, n : /\ q = run[s]
                  /\ n = IF Current(s).op = "unregister" /\ q.failed THEN Length(s) + 1
                                                                     ELSE q.pc + 1
  OBVIOUS
<1>5. PICK t : /\ run' = [run EXCEPT ![s] = [q EXCEPT !.pc = n, !.task = t]]
               /\ t \in TaskStates
               /\ t \in {"none", q.task} \/ (t # "ok" /\ Current(s).op # "unregister")
  <2>1. CASE Register(s) \/ Launch(s) \/ PollOk(s)
    <3>1. PICK t \in {"registered", "running", "ok"} :
            /\ run' = [run EXCEPT ![s].pc = @ + 1, ![s].task = t]
            /\ Current(s).op # "unregister" /\ (t = "ok" => q.task = "ok")
      BY <1>4, <2>1 DEF Register, Launch, PollOk, TaskStep, At
    <3>2. run' = [run EXCEPT ![s] = [q EXCEPT !.pc = n, !.task = t]]
      BY <1>4, <3>1 DEF IInv, RunsInv
    <3>3. QED
      BY <3>1, <3>2 DEF TaskStates
  <2>2. CASE Unregister(s)
    <3>1. run' = [run EXCEPT ![s].task = "none", ![s].pc = n]
      BY <1>4, <2>2 DEF Unregister, At
    <3>2. [[q EXCEPT !.task = "none"] EXCEPT !.pc = n] = [q EXCEPT !.pc = n, !.task = "none"]
      BY <1>3, <1>4 DEF Run
    <3>3. run' = [run EXCEPT ![s] = [q EXCEPT !.pc = n, !.task = "none"]]
      BY <1>4, <3>1, <3>2 DEF IInv, RunsInv
    <3>4. QED
      BY <3>3 DEF TaskStates
  <2>3. CASE UnregisterFails(s)
    <3>1. run' = [run EXCEPT ![s].pc = n]
      BY <1>4, <2>3 DEF UnregisterFails, At
    <3>2. PICK t : t = q.task
      OBVIOUS
    <3>3. t \in TaskStates /\ [q EXCEPT !.pc = n] = [q EXCEPT !.pc = n, !.task = t]
      BY <1>3, <1>4, <3>2 DEF Run
    <3>4. run' = [run EXCEPT ![s] = [q EXCEPT !.pc = n]]
      BY <1>4, <3>1 DEF IInv, RunsInv
    <3>5. QED
      BY <3>2, <3>3, <3>4
  <2>4. QED
    BY <2>1, <2>2, <2>3
<1>6. PICK r : r = [q EXCEPT !.pc = n, !.task = t]
  OBVIOUS
<1>7. r.cmd = q.cmd /\ r.pc = n /\ r.failed = q.failed /\ r.task = t
  BY <1>3, <1>4, <1>6 DEF Run
<1>8. r \in Run
  <2>1. Current(s).op \in Special
    BY <1>1 DEF Special
  <2>2. n = run[s].pc + 1 \/ (Current(s).op = "unregister" /\ n = Length(s) + 1)
    BY <1>4
  <2>3. QED
    BY <1>1, <1>3, <1>4, <1>5, <1>6, <2>1, <2>2, FurtherFine
<1>9. Onward(q, r) \/ GivesUp(r)
  <2>1. CASE n = q.pc + 1
    BY <1>7, <2>1 DEF Onward
  <2>2. CASE q.failed /\ n = Length(s) + 1
    BY <1>3, <1>4, <1>7, <2>2 DEF GivesUp, Length, Run
  <2>3. QED
    BY <1>4, <2>1, <2>2
<1>10. Grows /\ ServiceStep
  BY <1>1 DEF Grows, ServiceStep
<1>11. Moved(s, r)
  BY <1>1, <1>3, <1>4, <1>5, <1>6, <1>7, <1>8, <1>9, <1>10 DEF Moved
<1>12. QED
  BY <1>1, <1>2, <1>11

-----------------------------------------------------------------------------
(* RerunInv is inductive.                                                  *)

\* Whoever has not just looked, and passed, is not about to choose.
LEMMA NotChoosing ==
  ASSUME IInv, NEW s \in Slots, NEW r, Moved(s, r),
         GivesUp(r) \/ Current(s).op # "look" \/ ~Current(s).strict
  PROVE  ~Choosing(r)
<1>1. /\ run[s] # Idle /\ run[s].pc \in 1 .. Length(s) /\ r.cmd = run[s].cmd
      /\ Onward(run[s], r) \/ GivesUp(r)
  BY DEF Moved
<1>2. PICK c, p : c = run[s].cmd /\ p = run[s].pc
  OBVIOUS
<1>3. c \in Commands /\ p \in 1 .. Len(Script(c)) /\ Len(Script(c)) \in 1 .. 14
  BY <1>1, <1>2, AtStep DEF Length
<1>4. SUFFICES ASSUME r.pc \in 1 .. Len(Script(c)),
                      Script(c)[r.pc].op \in {"ifAbsent", "claim"}
               PROVE  FALSE
  BY <1>1, <1>2 DEF Choosing
<1>5. ~GivesUp(r)
  BY <1>1, <1>2, <1>3, <1>4 DEF GivesUp
<1>6. r.pc = p + 1 /\ r.pc - 1 = p
  BY <1>1, <1>2, <1>3, <1>5 DEF Onward
<1>7. LooksFirst(Script(c), r.pc)
  BY <1>3, <1>4, AnyStepAdds
<1>8. Script(c)[p].op = "look" /\ Script(c)[p].strict
  BY <1>4, <1>6, <1>7 DEF LooksFirst
<1>9. QED
  BY <1>2, <1>5, <1>8 DEF Current

\* A script moves: the step it passed, if it insists on it, has its result.
LEMMA MovedRerun ==
  ASSUME IInv, RerunInv, NEW s \in Slots, NEW r, Moved(s, r),
         NEW st, st = Current(s),
         ~r.failed /\ st.strict /\ Additive(r.cmd) => Result(r.cmd, st)',
         SeenHolds(r)'
  PROVE  RerunInv'
<1>1. /\ run[s] # Idle /\ run[s].pc \in 1 .. Length(s) /\ r.cmd = run[s].cmd
      /\ Onward(run[s], r) \/ GivesUp(r)
      /\ UNCHANGED <<plan, done>> /\ Grows /\ ServiceStep
      /\ run' = [run EXCEPT ![s] = r]
  BY DEF Moved
<1>2. PICK q, c, p, n : q = run[s] /\ c = q.cmd /\ p = q.pc /\ n = p + 1
  OBVIOUS
<1>3. c \in plan /\ c \in Commands /\ p \in 1 .. Len(Script(c)) /\ Len(Script(c)) \in 1 .. 14
  BY <1>1, <1>2, AtStep DEF Length
<1>4. RunAchieves(q) /\ SeenHolds(q) /\ TaskHolds(q)
  BY <1>2 DEF RerunInv, RunsAchieve, RunAchieves
<1>5. RunAchieves(q)' /\ TaskHolds(q)'
  BY <1>1, <1>2, <1>4, RunStays
<1>6. RunAchieves(r)'
  <2>1. SUFFICES ASSUME ~r.failed, Additive(r.cmd) PROVE Achieved(r.cmd, r.pc)'
    BY DEF RunAchieves
  <2>2. r.pc = n /\ r.cmd = c /\ ~q.failed
    BY <1>1, <1>2, <2>1 DEF Onward, GivesUp
  <2>3. Achieved(c, p)'
    BY <1>1, <1>2, <1>5, <2>1, <2>2 DEF RunAchieves
  <2>4. p \in Nat
    BY <1>3
  <2>5. p \in 1 .. Len(Script(c)) /\ Script(c)[p].strict => Result(c, Script(c)[p])'
    <3>1. SUFFICES ASSUME Script(c)[p].strict PROVE Result(c, Script(c)[p])'
      OBVIOUS
    <3>2. st = Script(c)[p]
      BY <1>2 DEF Current
    <3>3. Result(r.cmd, st)'
      BY <2>1, <3>1, <3>2
    <3>4. QED
      BY <2>2, <3>2, <3>3
  <2>6. Achieved(c, n)'
    BY <1>2, <2>3, <2>4, <2>5, AchievedNext
  <2>7. QED
    BY <2>2, <2>6 DEF Achieved
<1>7. TaskHolds(r)'
  <2>1. CASE r.task \in {"none", run[s].task}
    BY <1>1, <1>2, <1>5, <2>1 DEF TaskHolds
  <2>2. CASE r.task # "ok" /\ Current(s).op \in {"register", "launch", "poll"}
    <3>1. c = "ca.install_cert"
      BY <1>2, <1>3, <2>2, AnyStep DEF Current
    <3>2. QED
      BY <1>1, <1>2, <2>2, <3>1 DEF TaskHolds
  <2>3. QED
    BY <2>1, <2>2 DEF Moved
<1>8. QED
  BY <1>1, <1>6, <1>7, RerunSlot

\* A plain step that succeeds has its result; whoever looked, has seen what is
\* there.
LEMMA StepRerun ==
  ASSUME IInv, RerunInv, NEW s \in Slots, StepOk(s) PROVE RerunInv'
<1>1. PICK r : /\ Moved(s, r) /\ Onward(run[s], r)
               /\ r.seen = IF Current(s).op = "look" THEN machine[Current(s).res]
                                                     ELSE run[s].seen
  BY StepMoves
<1>2. /\ run[s] # Idle /\ run[s].pc \in 1 .. Length(s) /\ r.cmd = run[s].cmd
      /\ r.pc = run[s].pc + 1
  BY <1>1 DEF Moved, Onward
<1>3. PICK c, p, st, seen, x : /\ c = run[s].cmd /\ p = run[s].pc /\ st = Current(s)
                               /\ seen = run[s].seen /\ x = st.res
  OBVIOUS
<1>4. /\ c \in plan /\ c \in Commands /\ p \in 1 .. Len(Script(c))
      /\ Len(Script(c)) \in 1 .. 14 /\ st = Script(c)[p]
  BY <1>2, <1>3, AtStep DEF Length, Current
<1>5. /\ machine' = [machine EXCEPT ![x] = After(st, seen, machine[x])]
      /\ ~Refused(st, seen, machine[x]) /\ st.op \notin Special
      /\ DOMAIN machine = Resources
  BY <1>3 DEF StepOk, Plain, IInv, OtherTypes
<1>6. st.op \in {"ifAbsent", "claim"} =>
        /\ seen # {} => machine[x] # {}
        /\ seen = {"planned"} => machine[x] = {"planned"}
  <2>1. SeenHolds(run[s])
    BY DEF RerunInv
  <2>2. QED
    BY <1>2, <1>3, <1>4, <2>1 DEF SeenHolds, Choosing
<1>7. ASSUME st.op = "claim", seen = {} PROVE machine[x] \subseteq {"planned"}
  <2>1. x \in Names
    BY <1>3, <1>4, <1>7, ClaimsNames
  <2>2. x # "certsvc"
    BY <2>1 DEF Names
  <2>3. x \in Resources
    BY <1>3, <1>4, <2>2, ResourceOf
  <2>4. Claiming(run[s], x)
    BY <1>2, <1>3, <1>4, <1>7 DEF Claiming
  <2>5. QED
    BY <2>1, <2>3, <2>4 DEF IInv, ClaimInv
<1>8. ASSUME Additive(c) PROVE Result(c, st)'
  <2>1. Adding(st)
    BY <1>4, <1>8, AdditiveAdds
  <2>2. x \in Resources
    BY <1>3, <1>4, <1>5, <2>1, ResourceOf DEF Adding, Special
  <2>3. machine'[x] = After(st, seen, machine[x]) /\ st.val = "planned"
    BY <1>5, <2>1, <2>2 DEF Adding
  <2>4. CASE st.op \in {"put", "create"}
    BY <1>3, <2>3, <2>4 DEF Result, After
  <2>5. CASE st.op = "claim"
    <3>1. seen = {} \/ seen = {"planned"}
      BY <1>5, <2>3, <2>5 DEF Refused
    <3>2. CASE seen = {"planned"}
      BY <1>3, <1>6, <2>3, <2>5, <3>2 DEF Result, After
    <3>3. CASE seen = {}
      <4>1. "planned" \notin machine[x] /\ machine[x] \subseteq {"planned"}
        BY <1>5, <1>7, <2>3, <2>5, <3>3 DEF Refused
      <4>2. machine'[x] = {"planned"}
        BY <2>3, <2>5, <3>3, <4>1 DEF After
      <4>3. QED
        BY <1>3, <2>5, <4>2 DEF Result
    <3>4. QED
      BY <3>1, <3>2, <3>3
  <2>6. CASE st.op \in {"ensure", "ifAbsent", "check"}
    <3>1. machine'[x] # {}
      BY <1>5, <1>6, <2>3, <2>6 DEF After, Refused
    <3>2. QED
      BY <1>3, <2>6, <3>1 DEF Result
  <2>7. CASE st.op \notin {"put", "create", "claim", "ensure", "ifAbsent", "check"}
    BY <1>5, <2>7 DEF Result, Special
  <2>8. QED
    BY <2>4, <2>5, <2>6, <2>7
<1>9. SeenHolds(r)'
  <2>1. SUFFICES ASSUME Choosing(r)
                 PROVE  LET has == machine'[Script(r.cmd)[r.pc].res] IN
                        /\ r.seen # {} => has # {}
                        /\ r.seen = {"planned"} => has = {"planned"}
    BY DEF SeenHolds, Choosing
  <2>2. st.op = "look"
    BY <1>1, <1>3, <2>1, NotChoosing
  <2>3. Script(r.cmd)[r.pc].res = x
    <3>1. LooksFirst(Script(c), r.pc)
      BY <1>2, <1>3, <1>4, <2>1, AnyStepAdds DEF Choosing
    <3>2. r.pc - 1 = p
      BY <1>2, <1>3, <1>4
    <3>3. Script(c)[p].res = Script(c)[r.pc].res
      BY <1>2, <1>3, <2>1, <3>1, <3>2 DEF LooksFirst, Choosing
    <3>4. QED
      BY <1>2, <1>3, <1>4, <3>3
  <2>4. machine'[x] = machine[x]
    <3>1. After(st, seen, machine[x]) = machine[x]
      BY <2>2 DEF After
    <3>2. x # "certsvc"
      BY <1>3, <1>4, <2>2, AnyStep
    <3>3. x \in Resources
      BY <1>3, <1>4, <3>2, ResourceOf
    <3>4. QED
      BY <1>5, <3>1, <3>3
  <2>5. r.seen = machine[x]
    BY <1>1, <1>3, <2>2
  <2>6. QED
    BY <2>3, <2>4, <2>5
<1>10. ~r.failed /\ st.strict /\ Additive(r.cmd) => Result(r.cmd, st)'
  BY <1>2, <1>3, <1>8
<1>11. QED
  BY <1>1, <1>3, <1>9, <1>10, MovedRerun

\* Nothing is claimed after a step that fails or is refused.
LEMMA ErrorRerun ==
  ASSUME IInv, RerunInv, NEW s \in Slots,
         StepRefused(s) \/ StepFails(s) \/ ServiceFails(s) \/ PollBad(s)
           \/ TaskStepFails(s)
  PROVE  RerunInv'
<1>1. PICK r : Moved(s, r) /\ (Current(s).strict => GivesUp(r))
  BY ErrorMoves
<1>2. PICK st : st = Current(s)
  OBVIOUS
<1>3. ~Choosing(r)
  BY <1>1, NotChoosing
<1>4. SeenHolds(r)'
  BY <1>3 DEF SeenHolds, Choosing
<1>5. ~(~r.failed /\ st.strict)
  BY <1>1, <1>2 DEF GivesUp
<1>6. QED
  BY <1>1, <1>2, <1>4, <1>5, MovedRerun

\* A service that was stopped runs no old configuration.
LEMMA ServiceRerun ==
  ASSUME IInv, RerunInv, NEW s \in Slots, StopService(s) \/ StartService(s)
  PROVE  RerunInv'
<1>1. PICK r : Moved(s, r)
  BY ServiceMoves
<1>2. PICK st : st = Current(s)
  OBVIOUS
<1>3. st.op \in {"stop", "start"} /\ (st.op = "stop" => ~up')
  BY <1>2 DEF StopService, StartService, At
<1>4. ~Choosing(r)
  BY <1>1, <1>2, <1>3, NotChoosing
<1>5. SeenHolds(r)'
  BY <1>4 DEF SeenHolds, Choosing
<1>6. Result(r.cmd, st)'
  BY <1>3 DEF Result
<1>7. QED
  BY <1>1, <1>2, <1>5, <1>6, MovedRerun

\* Whoever has waited for a task that ended well has the certificate.
LEMMA TaskRerun ==
  ASSUME IInv, RerunInv, NEW s \in Slots,
         Register(s) \/ Launch(s) \/ PollOk(s) \/ Unregister(s) \/ UnregisterFails(s)
  PROVE  RerunInv'
<1>1. PICK r : Moved(s, r)
  BY TaskMoves
<1>2. PICK st : st = Current(s)
  OBVIOUS
<1>3. /\ st.op \in {"register", "launch", "poll", "unregister"}
      /\ st.op = "poll" => run[s].task = "ok"
      /\ machine' = machine
  BY <1>2, TaskMoves
<1>4. ~Choosing(r)
  BY <1>1, <1>2, <1>3, NotChoosing
<1>5. SeenHolds(r)'
  BY <1>4 DEF SeenHolds, Choosing
<1>6. ASSUME st.op = "poll" PROVE machine[st.res] = {"planned"}
  <2>1. run[s].cmd = "ca.install_cert" /\ machine["caCert"] = {"planned"}
    BY <1>3, <1>6 DEF RerunInv, TaskHolds
  <2>2. run[s].pc \in 1 .. 5
    BY <1>1, <2>1, InstallCertScript DEF Moved, Length
  <2>3. run[s].pc = 3
    <3>1. run[s].pc = 1 \/ run[s].pc = 2 \/ run[s].pc = 3 \/ run[s].pc = 4 \/ run[s].pc = 5
      BY <2>2
    <3>2. QED
      BY <1>2, <1>6, <2>1, <3>1, InstallCertScript DEF Current
  <2>4. st.res = "caCert"
    BY <1>2, <2>1, <2>3 DEF Current, Script, InstallCertSteps, Task, Service, Lenient, Step
  <2>5. QED
    BY <2>1, <2>4
<1>7. Result(r.cmd, st)'
  BY <1>3, <1>6 DEF Result
<1>8. QED
  BY <1>1, <1>2, <1>5, <1>7, MovedRerun

\* The scheduled task ends.
LEMMA CertutilRerun ==
  ASSUME IInv, RerunInv, NEW s \in Slots, TaskOk(s) \/ TaskBad(s) PROVE RerunInv'
<1>1. /\ run[s].task = "running"
      /\ UNCHANGED <<plan, up, live, done>>
      /\ machine' \in {machine, [machine EXCEPT !["caCert"] = {"planned"}]}
  BY DEF TaskOk, TaskBad, service, history
<1>2. Grows /\ ServiceStep
  BY <1>1, CertificateGrows DEF ServiceStep
<1>3. PICK q, t, r : /\ q = run[s] /\ t \in {"ok", "bad"} /\ (TaskOk(s) <=> t = "ok")
                     /\ r = [q EXCEPT !.task = t]
                     /\ run' = [run EXCEPT ![s] = r]
  <2>1. PICK t : /\ t \in {"ok", "bad"} /\ (TaskOk(s) <=> t = "ok")
                 /\ run' = [run EXCEPT ![s].task = t]
    <3>1. CASE TaskOk(s)
      BY <3>1 DEF TaskOk
    <3>2. CASE ~TaskOk(s)
      BY <3>2 DEF TaskBad
    <3>3. QED
      BY <3>1, <3>2
  <2>2. run' = [run EXCEPT ![s] = [run[s] EXCEPT !.task = t]]
    BY <2>1 DEF IInv, RunsInv
  <2>3. QED
    BY <2>1, <2>2
<1>4. q \in Run /\ q # Idle
  BY <1>1, <1>3 DEF IInv, RunsInv, Idle
<1>5. /\ r.cmd = q.cmd /\ r.pc = q.pc /\ r.seen = q.seen /\ r.failed = q.failed
      /\ r.task = t
  BY <1>3, <1>4 DEF Run
<1>6. RunAchieves(q) /\ SeenHolds(q) /\ TaskHolds(q)
  BY <1>3 DEF RerunInv, RunsAchieve, RunAchieves
<1>7. RunAchieves(q)' /\ SeenHolds(q)' /\ TaskHolds(q)'
  BY <1>1, <1>2, <1>3, <1>6, RunStays
<1>8. RunAchieves(r)'
  BY <1>4, <1>5, <1>7 DEF RunAchieves, Achieved
<1>9. SeenHolds(r)'
  BY <1>4, <1>5, <1>7 DEF SeenHolds, Choosing
<1>10. TaskHolds(r)'
  <2>1. r.cmd = "ca.install_cert"
    BY <1>1, <1>3, <1>5, <1>6 DEF TaskHolds
  <2>2. ASSUME t = "ok" PROVE machine'["caCert"] = {"planned"}
    <3>1. machine' = [machine EXCEPT !["caCert"] = {"planned"}]
      BY <1>3, <2>2 DEF TaskOk
    <3>2. "caCert" \in Resources
      <4>1. Len(Script(q.cmd)) = 5 /\ Script(q.cmd)[1].res = "caCert"
        BY <1>5, <2>1 DEF Script, InstallCertSteps, Task, Service, Step
      <4>2. 1 \in 1 .. Len(Script(q.cmd)) /\ q.cmd \in plan /\ q.cmd \in Commands
        BY <1>3, <1>4, <4>1, AtStep
      <4>3. QED
        BY <4>1, <4>2, ResourceOf
    <3>3. QED
      BY <3>1, <3>2 DEF IInv, OtherTypes
  <2>3. QED
    BY <1>5, <2>1, <2>2 DEF TaskHolds
<1>11. QED
  BY <1>1, <1>2, <1>3, <1>8, <1>9, <1>10, RerunSlot

\* Scripts end, or go on as they were.
LEMMA RerunEnds ==
  ASSUME IInv, RerunInv, UNCHANGED plan, Grows, ServiceStep,
         \A t \in Slots : run'[t] \in {run[t], Idle},
         \A c \in done' \ done : c \in plan /\ (Additive(c) => Achieved(c, Len(Script(c)) + 1))
  PROVE  RerunInv'
<1>1. ASSUME NEW t \in Slots
      PROVE  RunAchieves(run[t])' /\ SeenHolds(run[t])' /\ TaskHolds(run[t])'
  <2>1. PICK u : u = run'[t]
    OBVIOUS
  <2>2. CASE u = Idle
    BY <2>1, <2>2 DEF RunAchieves, SeenHolds, Choosing, TaskHolds, Idle
  <2>3. CASE u = run[t]
    <3>1. RunAchieves(run[t]) /\ SeenHolds(run[t]) /\ TaskHolds(run[t])
      BY DEF RerunInv, RunsAchieve, RunAchieves
    <3>2. RunAchieves(u)' /\ SeenHolds(u)' /\ TaskHolds(u)'
      BY <2>3, <3>1, RunStays
    <3>3. QED
      BY <2>1, <3>2 DEF RunAchieves, Achieved, Result, SeenHolds, Choosing, TaskHolds
  <2>4. QED
    BY <2>1, <2>2, <2>3
<1>2. DoneAchieve'
  BY DoneStays
<1>3. RunsAchieve'
  BY <1>1 DEF RunsAchieve, RunAchieves, Achieved
<1>4. QED
  BY <1>1, <1>2, <1>3 DEF RerunInv

\* A script that ends without an error has achieved all of its steps.
LEMMA EndRerun ==
  ASSUME IInv, RerunInv, NEW s \in Slots, End(s) PROVE RerunInv'
<1>1. /\ run[s] # Idle /\ run[s].pc = Length(s) + 1
      /\ UNCHANGED <<plan, machine, up, live>>
      /\ run' = [run EXCEPT ![s] = Idle]
      /\ done' = IF run[s].failed THEN done ELSE done \cup {run[s].cmd}
  BY DEF End, service
<1>2. Grows /\ ServiceStep
  BY <1>1 DEF Grows, ServiceStep
<1>3. \A t \in Slots : run'[t] \in {run[t], Idle}
  BY <1>1 DEF IInv, RunsInv
<1>4. ASSUME NEW c \in done' \ done
      PROVE  c \in plan /\ (Additive(c) => Achieved(c, Len(Script(c)) + 1))
  <2>1. c = run[s].cmd /\ ~run[s].failed
    BY <1>1, <1>4
  <2>2. c \in plan
    BY <1>1, <2>1, AtStep
  <2>3. RunsAchieve
    BY DEF RerunInv
  <2>4. Additive(c) => Achieved(c, run[s].pc)
    BY <1>1, <2>1, <2>3 DEF RunsAchieve
  <2>5. QED
    BY <1>1, <2>1, <2>2, <2>4 DEF Length
<1>5. QED
  BY <1>1, <1>2, <1>3, <1>4, RerunEnds

\* A delivery has achieved nothing yet, and chooses nothing at its first step.
LEMMA DeliverRerun ==
  ASSUME IInv, RerunInv, NEW s \in Slots, NEW c \in plan, Deliver(s, c) PROVE RerunInv'
<1>1. /\ c \in Commands
      /\ UNCHANGED <<plan, machine, up, live, done>>
      /\ run' = [run EXCEPT ![s] = [Idle EXCEPT !.cmd = c, !.pc = 1]]
  BY DEF IInv, OtherTypes, Deliver, service
<1>2. PICK r : r = [Idle EXCEPT !.cmd = c, !.pc = 1]
  OBVIOUS
<1>3. r.cmd = c /\ r.pc = 1 /\ r.task = "none"
  BY <1>2 DEF Idle
<1>4. Grows /\ ServiceStep
  BY <1>1 DEF Grows, ServiceStep
<1>5. RunAchieves(r)'
  <2>1. \A i \in 1 .. Len(Script(c)) : ~(i < 1)
    BY <1>1, AnyStep
  <2>2. Achieved(r.cmd, r.pc)'
    BY <1>3, <2>1 DEF Achieved
  <2>3. QED
    BY <2>2 DEF RunAchieves
<1>6. ~Choosing(r)
  <2>1. SUFFICES ASSUME 1 \in 1 .. Len(Script(c)), Script(c)[1].op \in {"ifAbsent", "claim"}
                 PROVE  FALSE
    BY <1>3 DEF Choosing
  <2>2. LooksFirst(Script(c), 1)
    BY <1>1, <2>1, AnyStepAdds
  <2>3. QED
    BY <2>1, <2>2 DEF LooksFirst
<1>7. SeenHolds(r)' /\ TaskHolds(r)'
  BY <1>3, <1>6 DEF SeenHolds, Choosing, TaskHolds
<1>8. QED
  BY <1>1, <1>2, <1>4, <1>5, <1>7, RerunSlot

\* A reboot starts the service with what the registry holds.
LEMMA RebootRerun ==
  ASSUME IInv, RerunInv, Reboot PROVE RerunInv'
<1>1. /\ UNCHANGED <<plan, machine, done>> /\ live' = Registry(machine)
      /\ \A t \in Slots : run'[t] = Idle
  BY DEF Reboot
<1>2. Grows /\ ServiceStep
  BY <1>1 DEF Grows, ServiceStep
<1>3. QED
  BY <1>1, <1>2, RerunEnds

\* An instance that its script gave up ends; or nothing happens.
LEMMA OrphanRerun ==
  ASSUME IInv, RerunInv, OrphanEnds \/ UNCHANGED vars PROVE RerunInv'
<1>1. /\ UNCHANGED <<plan, up, live, run, done>>
      /\ machine' \in {machine, [machine EXCEPT !["caCert"] = {"planned"}]}
  BY DEF OrphanEnds, vars, service, history
<1>2. Grows /\ ServiceStep
  BY <1>1, CertificateGrows DEF ServiceStep
<1>3. \A t \in Slots : run'[t] \in {run[t], Idle}
  BY <1>1
<1>4. QED
  BY <1>1, <1>2, <1>3, RerunEnds

\* Every step keeps RerunInv.
LEMMA NextRerun ==
  ASSUME IInv, RerunInv, [Next]_vars PROVE RerunInv'
<1>1. ASSUME NEW s \in Slots, NEW c \in plan, Deliver(s, c) PROVE RerunInv'
  BY <1>1, DeliverRerun
<1>2. ASSUME NEW s \in Slots, ScriptStep(s) PROVE RerunInv'
  <2>1. CASE StepOk(s)
    BY <2>1, StepRerun
  <2>2. CASE StepRefused(s) \/ PollBad(s)
    BY <2>2, ErrorRerun
  <2>3. CASE StopService(s) \/ StartService(s)
    BY <2>3, ServiceRerun
  <2>4. CASE Register(s) \/ Launch(s) \/ PollOk(s) \/ Unregister(s)
    BY <2>4, TaskRerun
  <2>5. CASE End(s)
    BY <2>5, EndRerun
  <2>6. QED
    BY <1>2, <2>1, <2>2, <2>3, <2>4, <2>5 DEF ScriptStep
<1>3. ASSUME NEW s \in Slots, Faulty(s) PROVE RerunInv'
  <2>1. CASE StepFails(s) \/ ServiceFails(s) \/ TaskStepFails(s)
    BY <2>1, ErrorRerun
  <2>2. CASE UnregisterFails(s)
    BY <2>2, TaskRerun
  <2>3. QED
    BY <1>3, <2>1, <2>2 DEF Faulty
<1>4. ASSUME NEW s \in Slots, TaskOk(s) \/ TaskBad(s) PROVE RerunInv'
  BY <1>4, CertutilRerun
<1>5. CASE OrphanEnds \/ UNCHANGED vars
  BY <1>5, OrphanRerun
<1>6. CASE Reboot
  BY <1>6, RebootRerun
<1>7. QED
  BY <1>1, <1>2, <1>3, <1>4, <1>5, <1>6 DEF Next

\* Nothing runs and nothing is done at first.
LEMMA InitRerun == Init => RerunInv
<1>1. SUFFICES ASSUME Init PROVE RerunInv
  OBVIOUS
<1>2. done = {} /\ \A s \in Slots : run[s] = Idle
  <2>1. run = [s \in Slots |-> Idle] /\ done = {}
    BY <1>1, Zenon DEF Init
  <2>2. QED
    BY <2>1
<1>3. RunsAchieve /\ DoneAchieve
  BY <1>2 DEF RunsAchieve, DoneAchieve
<1>4. \A s \in Slots : SeenHolds(run[s]) /\ TaskHolds(run[s])
  BY <1>2 DEF SeenHolds, Choosing, TaskHolds, Idle
<1>5. QED
  BY <1>3, <1>4 DEF RerunInv

\* The steps that a command has passed amount to what it is for.
LEMMA AchievedIsApplied ==
  ASSUME IInv, NEW c \in plan, Additive(c), Achieved(c, Len(Script(c)) + 1)
  PROVE  Applied(c)
<1>1. c \in Commands
  BY DEF IInv, OtherTypes
<1>2. /\ Len(Script(c)) \in 1 .. 14 /\ DOMAIN Script(c) = 1 .. Len(Script(c))
      /\ \A i \in 1 .. Len(Script(c)) :
           Script(c)[i].strict => Result(c, Script(c)[i])
  BY <1>1, ScriptsAreSequences DEF Achieved
<1>3. SUFFICES ASSUME NEW i \in 1 .. Len(Script(c)), Script(c)[i].strict
               PROVE  Holds(Script(c)[i])
  BY <1>2 DEF Applied, Steps
<1>4. PICK st : st = Script(c)[i]
  OBVIOUS
<1>5. Result(c, st) /\ Adding(st)
  BY <1>1, <1>2, <1>3, <1>4, AdditiveAdds
<1>6. ASSUME st.op \in {"put", "create", "claim"}, st.res \in Configuration, up
      PROVE  live[st.res] = {"planned"}
  <2>1. c \in Restarting
    <3>1. AddingScript(Script(c)) => FALSE
      BY <1>4, <1>6 DEF AddingScript
    <3>2. c \notin Replacing \cup {"ip.write"}
      BY <1>1, AdditiveAdds
    <3>3. QED
      BY <1>1, <3>1, <3>2, OthersAdd
  <2>2. PICK j \in 1 .. Len(Script(c)) : Script(c)[j].op = "stop" /\ Script(c)[j].strict
    BY <2>1, RestartingScripts
  <2>3. Result(c, Script(c)[j])
    BY <1>2, <2>2
  <2>4. st.res \in Targets(c)
    <3>1. st.res # "certsvc"
      BY <1>5, <1>6 DEF Adding
    <3>2. QED
      BY <1>1, <1>4, <3>1, ResourceOf
  <2>5. QED
    BY <1>6, <2>2, <2>3, <2>4 DEF Result
<1>7. Holds(st)
  BY <1>5, <1>6 DEF Result, Holds, Adding
<1>8. QED
  BY <1>4, <1>7

-----------------------------------------------------------------------------
(* StartInv is inductive.                                                  *)

\* A slot that another one's step leaves alone.
LEMMA OthersStay ==
  ASSUME IInv, NEW s \in Slots, NEW r, run' = [run EXCEPT ![s] = r]
  PROVE  run'[s] = r /\ \A t \in Slots : t # s => run'[t] = run[t]
BY DEF IInv, RunsInv

\* A script at a step is in no empty slot.
LEMMA BusyMoves ==
  ASSUME IInv, NEW s \in Slots, NEW r, Moved(s, r)
  PROVE  r # Idle /\ r.cmd \in plan /\ r.cmd \in Commands
<1>1. run[s] # Idle /\ r.cmd = run[s].cmd
  BY DEF Moved
<1>2. r.cmd \in plan /\ r.cmd \in Commands
  BY <1>1, AtStep
<1>3. QED
  BY <1>2, IdleIsNoCommand DEF Idle

\* A script that moves, but not past a start, leaves the service to whoever
\* was to start it.
LEMMA MovedStart ==
  ASSUME IInv, StartInv, NEW s \in Slots, NEW r, Moved(s, r),
         faults' = 0 => faults = 0 /\ up' = up /\ Current(s).op # "start"
  PROVE  StartInv'
<1>1. SUFFICES ASSUME faults' = 0, ~up' PROVE Pending' \/ Unstarted'
  BY DEF StartInv
<1>2. /\ run[s] # Idle /\ run[s].pc \in 1 .. Length(s) /\ r.cmd = run[s].cmd
      /\ Onward(run[s], r) \/ GivesUp(r)
      /\ UNCHANGED <<plan, done>> /\ run' = [run EXCEPT ![s] = r]
  BY DEF Moved
<1>3. run'[s] = r /\ \A t \in Slots : t # s => run'[t] = run[t]
  BY <1>2, OthersStay
<1>4. Current(s).op # "start" /\ (Pending \/ Unstarted)
  BY <1>1 DEF StartInv
<1>5. CASE Pending
  <2>1. PICK t \in Slots : /\ run[t] # Idle /\ run[t].pc \in 1 .. Length(t)
                           /\ Current(t).op = "start"
    BY <1>5 DEF Pending
  <2>2. run'[t] = run[t]
    BY <1>3, <1>4, <2>1
  <2>3. Pending'
    BY <2>1, <2>2 DEF Pending, Length, Current
  <2>4. QED
    BY <2>3
<1>6. CASE Unstarted
  <2>1. ASSUME r.cmd = "ca.install_cert", ~r.failed PROVE r.pc <= 5
    <3>1. Length(s) = 5 /\ r.pc = run[s].pc + 1
      BY <1>2, <2>1, InstallCertScript DEF Length, Onward, GivesUp
    <3>2. run[s].pc # 5
      BY <1>2, <1>4, <2>1, InstallCertScript DEF Current
    <3>3. QED
      BY <1>2, <3>1, <3>2
  <2>2. ASSUME NEW t \in Slots, run'[t].cmd = "ca.install_cert", ~run'[t].failed
        PROVE  run'[t].pc <= 5
    <3>1. CASE t = s
      BY <1>3, <2>1, <2>2, <3>1
    <3>2. CASE t # s
      BY <1>3, <1>6, <2>2, <3>2 DEF Unstarted
    <3>3. QED
      BY <3>1, <3>2
  <2>3. Unstarted'
    BY <1>2, <1>6, <2>2 DEF Unstarted
  <2>4. QED
    BY <2>3
<1>7. QED
  BY <1>4, <1>5, <1>6

\* Whoever stops the service starts it next.
LEMMA StopStart ==
  ASSUME IInv, NEW s \in Slots, StopService(s) PROVE Pending'
<1>1. PICK r : Moved(s, r) /\ Onward(run[s], r)
  BY ServiceMoves
<1>2. /\ run[s] # Idle /\ run[s].pc \in 1 .. Length(s) /\ r.cmd = run[s].cmd
      /\ r.pc = run[s].pc + 1 /\ run' = [run EXCEPT ![s] = r]
      /\ Current(s).op = "stop"
  BY <1>1 DEF Moved, Onward, StopService, At
<1>3. PICK c, p : c = run[s].cmd /\ p = run[s].pc
  OBVIOUS
<1>4. c \in Commands /\ p \in 1 .. Len(Script(c)) /\ Script(c)[p].op = "stop"
  BY <1>2, <1>3, AtStep DEF Length, Current
<1>5. Restarts(Script(c), p)
  BY <1>4, AnyStepAdds, RestartingScripts
<1>6. p + 1 \in 1 .. Len(Script(c)) /\ Script(c)[p + 1].op = "start"
  BY <1>4, <1>5 DEF Restarts
<1>7. run'[s] = r /\ r # Idle
  BY <1>1, <1>2, OthersStay, BusyMoves
<1>8. QED
  BY <1>2, <1>3, <1>6, <1>7 DEF Pending, Length, Current

\* No script starts or ends in front of the start of another.
LEMMA DeliverStart ==
  ASSUME IInv, StartInv, NEW s \in Slots, NEW c \in plan, Deliver(s, c) PROVE StartInv'
<1>1. /\ UNCHANGED <<plan, up, done, faults>> /\ run[s] = Idle
      /\ run' = [run EXCEPT ![s] = [Idle EXCEPT !.cmd = c, !.pc = 1]]
  BY DEF Deliver, service
<1>2. PICK r : r = [Idle EXCEPT !.cmd = c, !.pc = 1]
  OBVIOUS
<1>3. r.cmd = c /\ r.pc = 1
  BY <1>2 DEF Idle
<1>4. run'[s] = r /\ \A t \in Slots : t # s => run'[t] = run[t]
  BY <1>1, <1>2, OthersStay
<1>5. SUFFICES ASSUME Pending \/ Unstarted PROVE Pending' \/ Unstarted'
  BY <1>1 DEF StartInv
<1>6. CASE Pending
  <2>1. PICK t \in Slots : /\ run[t] # Idle /\ run[t].pc \in 1 .. Length(t)
                           /\ Current(t).op = "start"
    BY <1>6 DEF Pending
  <2>2. run'[t] = run[t]
    BY <1>1, <1>4, <2>1
  <2>3. QED
    BY <2>1, <2>2 DEF Pending, Length, Current
<1>7. CASE Unstarted
  <2>1. \A t \in Slots : run'[t].cmd = "ca.install_cert" /\ ~run'[t].failed
                           => run'[t].pc <= 5
    BY <1>3, <1>4, <1>7 DEF Unstarted
  <2>2. QED
    BY <1>1, <1>7, <2>1 DEF Unstarted
<1>8. QED
  BY <1>5, <1>6, <1>7

\* ca.install_cert ends well only behind its start.
LEMMA EndStart ==
  ASSUME IInv, StartInv, NEW s \in Slots, End(s) PROVE StartInv'
<1>1. /\ UNCHANGED <<plan, up, faults>> /\ run[s] # Idle /\ run[s].pc = Length(s) + 1
      /\ run' = [run EXCEPT ![s] = Idle]
      /\ done' = IF run[s].failed THEN done ELSE done \cup {run[s].cmd}
  BY DEF End, service
<1>2. run'[s] = Idle /\ \A t \in Slots : t # s => run'[t] = run[t]
  BY <1>1, OthersStay
<1>3. Length(s) \in 1 .. 14
  BY <1>1, AtStep
<1>4. SUFFICES ASSUME Pending \/ Unstarted PROVE Pending' \/ Unstarted'
  BY <1>1 DEF StartInv
<1>5. CASE Pending
  <2>1. PICK t \in Slots : /\ run[t] # Idle /\ run[t].pc \in 1 .. Length(t)
                           /\ Current(t).op = "start"
    BY <1>5 DEF Pending
  <2>2. run'[t] = run[t]
    BY <1>1, <1>2, <1>3, <2>1
  <2>3. QED
    BY <2>1, <2>2 DEF Pending, Length, Current
<1>6. CASE Unstarted
  <2>1. run[s].cmd = "ca.install_cert" => run[s].failed
    <3>1. SUFFICES ASSUME run[s].cmd = "ca.install_cert", ~run[s].failed PROVE FALSE
      OBVIOUS
    <3>2. run[s].pc = 6 /\ run[s].pc <= 5
      BY <1>1, <1>6, <3>1, InstallCertScript DEF Unstarted, Length
    <3>3. QED
      BY <3>2
  <2>2. "ca.install_cert" \in plan' \ done'
    BY <1>1, <1>6, <2>1 DEF Unstarted
  <2>3. \A t \in Slots : run'[t].cmd = "ca.install_cert" /\ ~run'[t].failed
                           => run'[t].pc <= 5
    BY <1>2, <1>6 DEF Unstarted, Idle
  <2>4. QED
    BY <2>2, <2>3 DEF Unstarted
<1>7. QED
  BY <1>4, <1>5, <1>6

\* Tasks end, and nothing is run or counted.
LEMMA CertutilStart ==
  ASSUME IInv, StartInv,
         (\E s \in Slots : TaskOk(s) \/ TaskBad(s)) \/ OrphanEnds \/ UNCHANGED vars
  PROVE  StartInv'
<1>1. UNCHANGED <<plan, up, done, faults>>
  BY DEF TaskOk, TaskBad, OrphanEnds, vars, service, history
<1>2. ASSUME NEW t \in Slots
      PROVE  /\ run'[t].cmd = run[t].cmd /\ run'[t].pc = run[t].pc
             /\ run'[t].failed = run[t].failed
  <2>1. CASE run' = run
    BY <2>1
  <2>2. CASE \E s \in Slots, k \in {"ok", "bad"} : run' = [run EXCEPT ![s].task = k]
    BY <2>2 DEF IInv, RunsInv, Run
  <2>3. QED
    BY <2>1, <2>2 DEF TaskOk, TaskBad, OrphanEnds, vars
<1>3. SUFFICES ASSUME Pending \/ Unstarted PROVE Pending' \/ Unstarted'
  BY <1>1 DEF StartInv
<1>4. CASE Pending
  <2>1. PICK t \in Slots : /\ run[t] # Idle /\ run[t].pc \in 1 .. Length(t)
                           /\ Current(t).op = "start"
    BY <1>4 DEF Pending
  <2>2. run[t].cmd \in Commands
    BY <2>1, AtStep
  <2>3. run'[t] # Idle
    BY <1>2, <2>2, IdleIsNoCommand DEF Idle
  <2>4. QED
    BY <1>2, <2>1, <2>3 DEF Pending, Length, Current
<1>5. CASE Unstarted
  BY <1>1, <1>2, <1>5 DEF Unstarted
<1>6. QED
  BY <1>3, <1>4, <1>5

\* Every step keeps StartInv.
LEMMA NextStart ==
  ASSUME IInv, StartInv, [Next]_vars PROVE StartInv'
<1>1. ASSUME NEW s \in Slots, NEW c \in plan, Deliver(s, c) PROVE StartInv'
  BY <1>1, DeliverStart
<1>2. ASSUME NEW s \in Slots, StepOk(s) PROVE StartInv'
  <2>1. PICK r : Moved(s, r)
    BY <1>2, StepMoves
  <2>2. faults' = faults /\ up' = up /\ Current(s).op # "start"
    BY <1>2 DEF StepOk, Plain, Special, service, history
  <2>3. QED
    BY <2>1, <2>2, MovedStart
<1>3. ASSUME NEW s \in Slots,
             StepRefused(s) \/ StepFails(s) \/ ServiceFails(s) \/ PollBad(s)
               \/ TaskStepFails(s)
      PROVE  StartInv'
  <2>1. PICK r : /\ Moved(s, r)
                 /\ faults' = 0 => faults = 0 /\ up' = up /\ Current(s).op # "start"
    BY <1>3, ErrorMoves
  <2>2. QED
    BY <2>1, MovedStart
<1>4. ASSUME NEW s \in Slots,
             Register(s) \/ Launch(s) \/ PollOk(s) \/ Unregister(s) \/ UnregisterFails(s)
      PROVE  StartInv'
  <2>1. PICK r : Moved(s, r)
    BY <1>4, TaskMoves
  <2>2. /\ faults' = 0 => faults = 0
        /\ up' = up /\ Current(s).op # "start"
    BY <1>4, TaskMoves
  <2>3. QED
    BY <2>1, <2>2, MovedStart
<1>5. ASSUME NEW s \in Slots, StopService(s) PROVE StartInv'
  BY <1>5, StopStart DEF StartInv
<1>6. ASSUME NEW s \in Slots, StartService(s) PROVE StartInv'
  BY <1>6 DEF StartInv, StartService
<1>7. ASSUME NEW s \in Slots, End(s) PROVE StartInv'
  BY <1>7, EndStart
<1>8. ASSUME NEW s \in Slots, TaskOk(s) \/ TaskBad(s) PROVE StartInv'
  BY <1>8, CertutilStart
<1>9. CASE OrphanEnds \/ UNCHANGED vars
  BY <1>9, CertutilStart
<1>10. CASE Reboot
  <2>1. faults' = faults + 1 /\ faults \in Nat
    BY <1>10 DEF Reboot, Fault, IInv, OtherTypes
  <2>2. QED
    BY <2>1 DEF StartInv
<1>11. QED
  BY <1>1, <1>2, <1>3, <1>4, <1>5, <1>6, <1>7, <1>8, <1>9, <1>10
     DEF Next, ScriptStep, Faulty

\* The service is up at first, or waits for its certificate.
LEMMA InitStart == Init => StartInv
<1>1. SUFFICES ASSUME Init PROVE StartInv
  OBVIOUS
<1>2. /\ up = ("ca.install_cert" \notin plan) /\ done = {}
      /\ \A s \in Slots : run[s] = Idle
  <2>1. /\ up = ("ca.install_cert" \notin plan) /\ done = {}
        /\ run = [s \in Slots |-> Idle]
    BY <1>1, Zenon DEF Init
  <2>2. QED
    BY <2>1
<1>3. CASE "ca.install_cert" \in plan
  BY <1>2, <1>3 DEF StartInv, Unstarted, Idle
<1>4. CASE "ca.install_cert" \notin plan
  BY <1>2, <1>4 DEF StartInv
<1>5. QED
  BY <1>3, <1>4

-----------------------------------------------------------------------------
(* LastInv is inductive.                                                   *)

\* The commands that replace or merge have plain steps, and insist on each.
LEMMA ReplacingPlain ==
  ASSUME NEW c \in Replacing, NEW i \in 1 .. Len(Script(c))
  PROVE  /\ Script(c)[i].strict /\ Script(c)[i].op \notin Special
         /\ Script(c)[i].res \in {"pkiCNAME", "templateACL", "responder"}
         /\ Len(Script(c)) = IF c \in Merging THEN 2 ELSE 4
<1>1. CASE c = "dns.create_record"
  <2>1. Len(Script(c)) = 4 /\ c \notin Merging
    BY <1>1, LossyScripts DEF Merging
  <2>2. i = 1 \/ i = 2 \/ i = 3 \/ i = 4
    BY <2>1
  <2>3. QED
    BY <1>1, <2>1, <2>2, LossyScripts DEF Special
<1>2. CASE c \in Merging
  <2>1. Len(Script(c)) = 2
    BY <1>2, LossyScripts
  <2>2. i = 1 \/ i = 2
    BY <2>1
  <2>3. QED
    BY <1>2, <2>1, <2>2, LossyScripts DEF Special
<1>3. QED
  BY <1>1, <1>2 DEF Replacing

\* A script that gave up promises nothing.
LEMMA GivesUpProgress ==
  ASSUME IInv, NEW s \in Slots, NEW r, Moved(s, r), GivesUp(r)
  PROVE  Progress(r)'
<1>1. r.cmd \in Commands /\ r.failed
  BY BusyMoves DEF GivesUp
<1>2. ASSUME r.cmd \in Merging, r.pc = 2 PROVE FALSE
  <2>1. Len(Script(r.cmd)) = 2
    BY <1>2, LossyScripts
  <2>2. 2 \in 1 .. Len(Script(r.cmd)) /\ Script(r.cmd)[2].op = "unregister"
    BY <1>2, <2>1 DEF GivesUp
  <2>3. QED
    BY <1>2, <2>2, LossyScripts
<1>3. QED
  BY <1>1, <1>2 DEF Progress

\* What the promise of such a command is about.
LEMMA FixedResource ==
  ASSUME IInv, NEW c \in plan \cap Replacing
  PROVE  \E x \in Resources :
           /\ x \in {"pkiCNAME", "templateACL", "responder"}
           /\ c = "dns.create_record" => x = "pkiCNAME"
           /\ c \in Merging => x = Script(c)[2].res
           /\ \A i \in 1 .. Len(Script(c)) : Script(c)[i].res = x
<1>1. c \in Commands
  BY DEF IInv, OtherTypes
<1>2. PICK x : x = Script(c)[2].res
  OBVIOUS
<1>3. Len(Script(c)) \in {2, 4} /\ \A i \in 1 .. Len(Script(c)) : Script(c)[i].res = x
  <2>1. CASE c = "dns.create_record"
    BY <1>2, <2>1, LossyScripts
  <2>2. CASE c \in Merging
    <3>1. Len(Script(c)) = 2 /\ \A i \in 1 .. 2 : i = 1 \/ i = 2
      BY <2>2, LossyScripts
    <3>2. QED
      BY <1>2, <2>2, <3>1, LossyScripts
  <2>3. QED
    BY <2>1, <2>2 DEF Replacing
<1>4. 2 \in 1 .. Len(Script(c))
  BY <1>3
<1>5. x \in {"pkiCNAME", "templateACL", "responder"}
      /\ (c = "dns.create_record" => x = "pkiCNAME")
  BY <1>2, <1>4, ReplacingPlain, LossyScripts
<1>6. x \in Resources
  BY <1>1, <1>2, <1>4, <1>5, ResourceOf
<1>7. QED
  BY <1>2, <1>3, <1>5, <1>6

\* A step of the only script spares what other commands have made.
LEMMA OthersFixed ==
  ASSUME IInv, NEW s \in Slots, run[s] # Idle, run[s].pc \in 1 .. Length(s),
         Progress(run[s]),
         \/ machine' = machine
         \/ machine' = [machine EXCEPT ![Current(s).res] =
                          After(Current(s), run[s].seen, machine[Current(s).res])],
         NEW c \in plan \cap Replacing, run[s].cmd # c, Fixed(c)
  PROVE  Fixed(c)'
<1>1. PICK d, p, st, seen, x : /\ d = run[s].cmd /\ p = run[s].pc /\ st = Current(s)
                               /\ seen = run[s].seen /\ x = st.res
  OBVIOUS
<1>2. d \in Commands /\ p \in 1 .. Len(Script(d)) /\ st = Script(d)[p]
  BY <1>1, AtStep DEF Length, Current
<1>3. PICK y \in Resources :
        /\ y \in {"pkiCNAME", "templateACL", "responder"}
        /\ c = "dns.create_record" => y = "pkiCNAME"
        /\ c \in Merging => y = Script(c)[2].res
        /\ \A i \in 1 .. Len(Script(c)) : Script(c)[i].res = y
  BY FixedResource
<1>4. DOMAIN machine = Resources
  BY DEF IInv, OtherTypes
<1>5. CASE machine'[y] = machine[y]
  BY <1>3, <1>5 DEF Fixed, Replacing
<1>6. CASE machine'[y] # machine[y]
  <2>1. x = y /\ machine'[y] = After(st, seen, machine[y])
    BY <1>1, <1>3, <1>4, <1>6
  <2>2. c # "dns.create_record"
    BY <1>1, <1>2, <1>3, <2>1, AnyStepAdds
  <2>3. c \in Merging
    BY <2>2 DEF Replacing
  <2>4. y \in {"templateACL", "responder"}
    BY <1>3, <2>3, LossyScripts
  <2>5. d \in Merging
    BY <1>1, <1>2, <2>1, <2>4, AnyStepAdds
  <2>6. Len(Script(d)) = 2 /\ (p = 1 \/ p = 2)
    <3>1. Len(Script(d)) = 2
      BY <2>5, LossyScripts
    <3>2. QED
      BY <1>2, <3>1
  <2>7. p = 2
    <3>1. p = 1 => After(st, seen, machine[y]) = machine[y]
      BY <1>2, <2>5, LossyScripts DEF After
    <3>2. QED
      BY <1>6, <2>1, <2>6, <3>1
  <2>8. st.op = "merge" /\ seen = machine[y]
    BY <1>1, <1>2, <2>1, <2>5, <2>7, LossyScripts DEF Progress
  <2>9. machine[y] \subseteq machine'[y]
    BY <2>1, <2>8 DEF After
  <2>10. QED
    BY <1>3, <2>2, <2>3, <2>9 DEF Fixed
<1>7. QED
  BY <1>5, <1>6

\* What certutil installs is none of it.
LEMMA CertificateFixed ==
  ASSUME IInv, machine' \in {machine, [machine EXCEPT !["caCert"] = {"planned"}]},
         NEW c \in plan \cap Replacing, Fixed(c)
  PROVE  Fixed(c)'
<1>1. PICK y \in Resources :
        /\ y \in {"pkiCNAME", "templateACL", "responder"}
        /\ c = "dns.create_record" => y = "pkiCNAME"
        /\ c \in Merging => y = Script(c)[2].res
        /\ \A i \in 1 .. Len(Script(c)) : Script(c)[i].res = y
  BY FixedResource
<1>2. machine'[y] = machine[y]
  BY <1>1 DEF IInv, OtherTypes
<1>3. QED
  BY <1>1, <1>2 DEF Fixed, Replacing

\* An idle slot promises nothing.
LEMMA IdleProgress == Progress(Idle) /\ Progress(Idle)'
BY DEF Progress, Idle, Merging

\* A step of one slot.
LEMMA LastSlot ==
  ASSUME IInv, LastInv, UNCHANGED <<plan, outcome, done, overlaps>>,
         NEW s \in Slots, NEW r, run' = [run EXCEPT ![s] = r],
         run[s] # Idle, r.cmd = run[s].cmd,
         Progress(run[s]) => Progress(r)',
         \A c \in plan \cap Replacing :
           Progress(run[s]) /\ run[s].cmd # c /\ Fixed(c) => Fixed(c)'
  PROVE  LastInv'
<1>1. run'[s] = r /\ \A t \in Slots : t # s => run'[t] = run[t]
  BY OthersStay
<1>2. \A c \in plan' : outcome'[c] = "done" => c \in done'
  BY DEF LastInv
<1>3. SUFFICES ASSUME overlaps = 0
               PROVE  /\ \A x, t \in Slots : run'[x] # Idle /\ run'[t] # Idle => x = t
                      /\ \A t \in Slots : Progress(run[t])'
                      /\ \A c \in plan \cap Replacing :
                           outcome[c] = "done" /\ (\A t \in Slots : run'[t].cmd # c)
                             => Fixed(c)'
  BY <1>2 DEF LastInv
<1>4. /\ \A x, t \in Slots : run[x] # Idle /\ run[t] # Idle => x = t
      /\ Progress(run[s])
  BY <1>3 DEF LastInv
<1>5. \A t \in Slots : t # s => run'[t] = Idle
  BY <1>1, <1>4
<1>6. ASSUME NEW t \in Slots PROVE Progress(run[t])'
  <2>1. CASE t = s
    <3>1. Progress(r)'
      BY <1>4
    <3>2. run'[t] = r
      BY <1>1, <2>1
    <3>3. QED
      BY <3>1, <3>2 DEF Progress, Fixed
  <2>2. CASE t # s
    <3>1. run'[t] = Idle
      BY <1>5, <2>2
    <3>2. QED
      BY <3>1 DEF Progress, Idle, Merging
  <2>3. QED
    BY <2>1, <2>2
<1>7. ASSUME NEW c \in plan \cap Replacing, outcome[c] = "done",
             \A t \in Slots : run'[t].cmd # c
      PROVE  Fixed(c)'
  <2>1. \A t \in Slots : run[t].cmd # c
    <3>1. ASSUME NEW t \in Slots PROVE run[t].cmd # c
      <4>1. CASE t = s
        BY <1>1, <1>7, <4>1
      <4>2. CASE t # s
        BY <1>1, <1>7, <4>2
      <4>3. QED
        BY <4>1, <4>2
    <3>2. QED
      BY <3>1
  <2>2. Fixed(c)
    BY <1>3, <1>7, <2>1 DEF LastInv
  <2>3. QED
    BY <1>4, <2>1, <2>2
<1>8. QED
  BY <1>1, <1>4, <1>5, <1>6, <1>7

\* A script that looks, merges or creates comes as far as it promised.
LEMMA StepProgress ==
  ASSUME IInv, NEW s \in Slots, StepOk(s), Progress(run[s]),
         NEW r, Moved(s, r), Onward(run[s], r),
         r.seen = IF Current(s).op = "look" THEN machine[Current(s).res] ELSE run[s].seen
  PROVE  Progress(r)'
<1>1. /\ run[s] # Idle /\ run[s].pc \in 1 .. Length(s) /\ r.cmd = run[s].cmd
      /\ r.pc = run[s].pc + 1 /\ r.failed = run[s].failed
  BY DEF Moved, Onward
<1>2. PICK c, p, st, seen, x : /\ c = run[s].cmd /\ p = run[s].pc /\ st = Current(s)
                               /\ seen = run[s].seen /\ x = st.res
  OBVIOUS
<1>3. c \in plan /\ c \in Commands /\ p \in 1 .. Len(Script(c)) /\ st = Script(c)[p]
  BY <1>1, <1>2, AtStep DEF Length, Current
<1>4. /\ machine' = [machine EXCEPT ![x] = After(st, seen, machine[x])]
      /\ DOMAIN machine = Resources
  BY <1>2 DEF StepOk, IInv, OtherTypes
<1>5. CASE c \notin Replacing
  BY <1>1, <1>2, <1>5 DEF Progress, Replacing
<1>6. CASE c \in Replacing
  <2>1. PICK y \in Resources :
          /\ c = "dns.create_record" => y = "pkiCNAME"
          /\ c \in Merging => y = Script(c)[2].res
          /\ \A i \in 1 .. Len(Script(c)) : Script(c)[i].res = y
    BY <1>3, <1>6, FixedResource
  <2>2. x = y /\ machine'[y] = After(st, seen, machine[y])
    BY <1>2, <1>3, <1>4, <2>1
  <2>3. CASE c \in Merging
    <3>1. p = 1 \/ p = 2
      BY <1>3, <2>3, LossyScripts
    <3>2. CASE p = 1
      <4>1. st.op = "look"
        BY <1>3, <2>3, <3>2, LossyScripts
      <4>2. machine'[y] = machine[y] /\ r.seen = machine[y]
        BY <1>2, <2>2, <4>1 DEF After
      <4>3. r.cmd = c /\ r.pc = 2 /\ c # "dns.create_record"
        BY <1>1, <1>2, <2>3, <3>2 DEF Merging
      <4>4. QED
        BY <2>1, <2>3, <4>2, <4>3 DEF Progress
    <3>3. CASE p = 2
      <4>1. st.op = "merge" /\ st.val = Script(c)[2].val
        BY <1>3, <2>3, <3>3, LossyScripts
      <4>2. st.val \in machine'[y]
        BY <2>2, <4>1 DEF After
      <4>3. r.cmd = c /\ r.pc = 3 /\ c # "dns.create_record"
        BY <1>1, <1>2, <2>3, <3>3 DEF Merging
      <4>4. Fixed(c)'
        BY <2>1, <2>3, <4>1, <4>2, <4>3 DEF Fixed
      <4>5. QED
        BY <4>3, <4>4 DEF Progress
    <3>4. QED
      BY <3>1, <3>2, <3>3
  <2>4. CASE c = "dns.create_record"
    <3>1. p = 1 \/ p = 2 \/ p = 3 \/ p = 4
      BY <1>3, <2>4, LossyScripts
    <3>2. SUFFICES ASSUME r.pc \in 4 .. 5, ~r.failed PROVE machine'["pkiCNAME"] = {"planned"}
      BY <1>1, <1>2, <2>4 DEF Progress, Fixed, Merging
    <3>3. CASE p = 3
      <4>1. st.op = "create" /\ st.val = "planned"
        BY <1>3, <2>4, <3>3, LossyScripts
      <4>2. QED
        BY <2>1, <2>2, <2>4, <4>1 DEF After
    <3>4. CASE p = 4
      <4>1. st.op = "check"
        BY <1>3, <2>4, <3>4, LossyScripts
      <4>2. machine["pkiCNAME"] = {"planned"}
        BY <1>1, <1>2, <2>4, <3>2, <3>4 DEF Progress, Fixed
      <4>3. QED
        BY <2>1, <2>2, <2>4, <4>1, <4>2 DEF After
    <3>5. QED
      BY <1>1, <1>2, <3>1, <3>2, <3>3, <3>4
  <2>5. QED
    BY <1>6, <2>3, <2>4 DEF Replacing
<1>7. QED
  BY <1>5, <1>6

\* A script that neither replaces nor merges promises nothing.
LEMMA OtherProgress ==
  ASSUME NEW r, r.cmd \notin Replacing
  PROVE  Progress(r)'
BY DEF Progress, Replacing

\* A plain step of the only script.
LEMMA StepLast ==
  ASSUME IInv, LastInv, NEW s \in Slots, StepOk(s) PROVE LastInv'
<1>1. PICK r : /\ Moved(s, r) /\ Onward(run[s], r)
               /\ r.seen = IF Current(s).op = "look" THEN machine[Current(s).res]
                                                     ELSE run[s].seen
  BY StepMoves
<1>2. Progress(run[s]) => Progress(r)'
  BY <1>1, StepProgress
<1>3. machine' = [machine EXCEPT ![Current(s).res] =
                    After(Current(s), run[s].seen, machine[Current(s).res])]
  BY DEF StepOk
<1>4. \A c \in plan \cap Replacing :
        Progress(run[s]) /\ run[s].cmd # c /\ Fixed(c) => Fixed(c)'
  BY <1>1, <1>3, OthersFixed DEF Moved
<1>5. QED
  BY <1>1, <1>2, <1>4, LastSlot DEF Moved

\* A script that gives up has not come further.
LEMMA ErrorLast ==
  ASSUME IInv, LastInv, NEW s \in Slots,
         StepRefused(s) \/ StepFails(s) \/ ServiceFails(s) \/ PollBad(s)
           \/ TaskStepFails(s)
  PROVE  LastInv'
<1>1. PICK r : Moved(s, r) /\ (Current(s).strict => GivesUp(r))
  BY ErrorMoves
<1>2. /\ run[s] # Idle /\ run[s].pc \in 1 .. Length(s) /\ r.cmd = run[s].cmd
  BY <1>1 DEF Moved
<1>3. Progress(r)'
  <2>1. CASE r.cmd \in Replacing
    <3>1. Current(s).strict
      BY <1>2, <2>1, ReplacingPlain DEF Length, Current
    <3>2. QED
      BY <1>1, <3>1, GivesUpProgress
  <2>2. CASE r.cmd \notin Replacing
    BY <2>2, OtherProgress
  <2>3. QED
    BY <2>1, <2>2
<1>4. \/ machine' = machine
      \/ machine' = [machine EXCEPT ![Current(s).res] =
                       After(Current(s), run[s].seen, machine[Current(s).res])]
  BY DEF StepRefused, StepFails, ServiceFails, PollBad, TaskStepFails
<1>5. \A c \in plan \cap Replacing :
        Progress(run[s]) /\ run[s].cmd # c /\ Fixed(c) => Fixed(c)'
  BY <1>2, <1>4, OthersFixed
<1>6. QED
  BY <1>1, <1>3, <1>5, LastSlot DEF Moved

\* The service and the scheduled task: steps of commands that only add.
LEMMA SpecialLast ==
  ASSUME IInv, LastInv, NEW s \in Slots,
         \/ StopService(s) \/ StartService(s) \/ Register(s) \/ Launch(s) \/ PollOk(s)
         \/ Unregister(s) \/ UnregisterFails(s)
  PROVE  LastInv'
<1>1. PICK r : Moved(s, r)
  BY ServiceMoves, TaskMoves
<1>2. Current(s).op \in Special /\ machine' = machine
  BY DEF StopService, StartService, Register, Launch, PollOk, TaskStep, Unregister,
         UnregisterFails, At, Special
<1>3. run[s] # Idle /\ run[s].pc \in 1 .. Length(s) /\ r.cmd = run[s].cmd
  BY <1>1 DEF Moved
<1>4. r.cmd \notin Replacing
  BY <1>2, <1>3, ReplacingPlain DEF Length, Current
<1>5. \A c \in plan \cap Replacing :
        Progress(run[s]) /\ run[s].cmd # c /\ Fixed(c) => Fixed(c)'
  BY <1>2, <1>3, OthersFixed
<1>6. QED
  BY <1>1, <1>4, <1>5, OtherProgress, LastSlot DEF Moved

\* The certutil of the scheduled task belongs to ca.install_cert, which takes
\* nothing away.
LEMMA CertutilLast ==
  ASSUME IInv, RerunInv, LastInv, NEW s \in Slots, TaskOk(s) \/ TaskBad(s) PROVE LastInv'
<1>1. /\ run[s].task = "running"
      /\ UNCHANGED <<plan, outcome, done, overlaps>>
      /\ machine' \in {machine, [machine EXCEPT !["caCert"] = {"planned"}]}
  BY DEF TaskOk, TaskBad, history
<1>2. PICK t, r : r = [run[s] EXCEPT !.task = t] /\ run' = [run EXCEPT ![s] = r]
  <2>1. PICK t : run' = [run EXCEPT ![s].task = t]
    BY DEF TaskOk, TaskBad
  <2>2. run' = [run EXCEPT ![s] = [run[s] EXCEPT !.task = t]]
    BY <2>1 DEF IInv, RunsInv
  <2>3. QED
    BY <2>2
<1>3. run[s] \in Run /\ run[s] # Idle
  BY <1>1 DEF IInv, RunsInv, Idle
<1>4. r.cmd = run[s].cmd
  BY <1>2, <1>3 DEF Run
<1>5. r.cmd \notin Replacing
  <2>1. run[s].cmd = "ca.install_cert"
    BY <1>1 DEF RerunInv, TaskHolds
  <2>2. QED
    BY <1>4, <2>1 DEF Replacing, Merging
<1>6. \A c \in plan \cap Replacing : Fixed(c) => Fixed(c)'
  BY <1>1, CertificateFixed
<1>7. QED
  BY <1>1, <1>2, <1>3, <1>4, <1>5, <1>6, OtherProgress, LastSlot

\* A run of such a command that ends well has come to its promise.
LEMMA EndLast ==
  ASSUME IInv, LastInv, NEW s \in Slots, End(s) PROVE LastInv'
<1>1. /\ UNCHANGED <<plan, machine, overlaps>> /\ run[s] # Idle
      /\ run[s].pc = Length(s) + 1
      /\ run' = [run EXCEPT ![s] = Idle]
      /\ outcome' = [outcome EXCEPT ![run[s].cmd] = IF run[s].failed THEN "failed" ELSE "done"]
      /\ done' = IF run[s].failed THEN done ELSE done \cup {run[s].cmd}
  BY DEF End
<1>2. /\ run'[s] = Idle /\ \A t \in Slots : t # s => run'[t] = run[t]
      /\ run[s].cmd \in plan /\ run[s].cmd \in Commands
  BY <1>1, OthersStay, AtStep
<1>3. outcome \in [plan -> {"none", "done", "failed"}]
  BY DEF IInv, OtherTypes
<1>4. \A c \in plan' : outcome'[c] = "done" => c \in done'
  BY <1>1, <1>2, <1>3 DEF LastInv
<1>5. SUFFICES ASSUME overlaps = 0
               PROVE  /\ \A x, t \in Slots : run'[x] # Idle /\ run'[t] # Idle => x = t
                      /\ \A t \in Slots : Progress(run[t])'
                      /\ \A c \in plan \cap Replacing :
                           outcome'[c] = "done" /\ (\A t \in Slots : run'[t].cmd # c)
                             => Fixed(c)'
  BY <1>1, <1>4 DEF LastInv
<1>6. /\ \A x, t \in Slots : run[x] # Idle /\ run[t] # Idle => x = t
      /\ Progress(run[s])
  BY <1>5 DEF LastInv
<1>7. \A t \in Slots : run'[t] = Idle
  BY <1>1, <1>2, <1>6
<1>8. \A t \in Slots : Progress(run[t])'
  BY <1>7 DEF Progress, Idle, Merging
<1>9. ASSUME NEW c \in plan \cap Replacing, outcome'[c] = "done" PROVE Fixed(c)
  <2>1. CASE c = run[s].cmd
    <3>1. ~run[s].failed
      BY <1>1, <1>3, <1>9, <2>1
    <3>2. CASE c \in Merging
      <4>1. Len(Script(c)) = 2
        BY <3>2, LossyScripts
      <4>2. run[s].pc = 3
        BY <1>1, <2>1, <4>1 DEF Length
      <4>3. QED
        BY <1>6, <2>1, <3>1, <3>2, <4>2 DEF Progress
    <3>3. CASE c = "dns.create_record"
      <4>1. Len(Script(c)) = 4
        BY <3>3, LossyScripts
      <4>2. run[s].pc = 5
        BY <1>1, <2>1, <4>1 DEF Length
      <4>3. QED
        BY <1>6, <2>1, <3>1, <3>3, <4>2 DEF Progress
    <3>4. QED
      BY <3>2, <3>3 DEF Replacing
  <2>2. CASE c # run[s].cmd
    <3>1. outcome[c] = "done"
      BY <1>1, <1>3, <1>9, <2>2
    <3>2. ASSUME NEW t \in Slots PROVE run[t].cmd # c
      <4>1. CASE t = s
        BY <2>2, <4>1
      <4>2. CASE t # s
        <5>1. run[t] = Idle /\ c \in Commands
          BY <1>1, <1>6, <4>2 DEF IInv, OtherTypes
        <5>2. QED
          BY <5>1, IdleIsNoCommand DEF Idle
      <4>3. QED
        BY <4>1, <4>2
    <3>3. QED
      BY <1>5, <3>1, <3>2 DEF LastInv
  <2>3. QED
    BY <2>1, <2>2
<1>10. \A c \in plan \cap Replacing : outcome'[c] = "done" => Fixed(c)'
  BY <1>1, <1>9 DEF Fixed
<1>11. QED
  BY <1>7, <1>8, <1>10

\* While deliveries do not overlap, one comes when every slot is empty.
LEMMA DeliverLast ==
  ASSUME IInv, LastInv, NEW s \in Slots, NEW c \in plan, Deliver(s, c) PROVE LastInv'
<1>1. /\ UNCHANGED <<plan, machine, outcome, done>>
      /\ run' = [run EXCEPT ![s] = [Idle EXCEPT !.cmd = c, !.pc = 1]]
      /\ overlaps' = IF Busy = {} THEN overlaps ELSE overlaps + 1
      /\ overlaps \in Nat
  BY DEF Deliver, IInv, OtherTypes
<1>2. PICK r : r = [Idle EXCEPT !.cmd = c, !.pc = 1]
  OBVIOUS
<1>3. r.cmd = c /\ r.pc = 1
  BY <1>2 DEF Idle
<1>4. run'[s] = r /\ \A t \in Slots : t # s => run'[t] = run[t]
  BY <1>1, <1>2, OthersStay
<1>5. SUFFICES ASSUME overlaps' = 0
               PROVE  /\ \A x, t \in Slots : run'[x] # Idle /\ run'[t] # Idle => x = t
                      /\ \A t \in Slots : Progress(run[t])'
                      /\ \A d \in plan \cap Replacing :
                           outcome[d] = "done" /\ (\A t \in Slots : run'[t].cmd # d)
                             => Fixed(d)'
  BY <1>1 DEF LastInv
<1>6. overlaps = 0 /\ \A t \in Slots : run[t] = Idle
  BY <1>1, <1>5 DEF Busy
<1>7. \A t \in Slots : t # s => run'[t] = Idle
  BY <1>4, <1>6
<1>8. \A t \in Slots : Progress(run[t])'
  <2>1. Progress(r)'
    BY <1>3 DEF Progress
  <2>2. ASSUME NEW t \in Slots PROVE Progress(run[t])'
    <3>1. CASE t = s
      BY <1>4, <2>1, <3>1 DEF Progress, Fixed
    <3>2. CASE t # s
      BY <1>7, <3>2 DEF Progress, Idle, Merging
    <3>3. QED
      BY <3>1, <3>2
  <2>3. QED
    BY <2>2
<1>9. ASSUME NEW d \in plan \cap Replacing, outcome[d] = "done" PROVE Fixed(d)'
  <2>1. d \in Commands
    BY DEF IInv, OtherTypes
  <2>2. \A t \in Slots : run[t].cmd # d
    BY <1>6, <2>1, IdleIsNoCommand DEF Idle
  <2>3. Fixed(d)
    BY <1>6, <1>9, <2>2 DEF LastInv
  <2>4. QED
    BY <1>1, <2>3 DEF Fixed
<1>10. QED
  BY <1>7, <1>8, <1>9

\* A reboot counts as a failure of what was running.
LEMMA RebootLast ==
  ASSUME IInv, LastInv, Reboot PROVE LastInv'
<1>1. /\ UNCHANGED <<plan, machine, done, overlaps>>
      /\ \A t \in Slots : run'[t] = Idle
      /\ outcome' = [c \in plan |-> IF \E s \in Slots : run[s].cmd = c
                                      THEN "failed" ELSE outcome[c]]
  BY DEF Reboot
<1>2. \A c \in plan : outcome'[c] = "done" =>
        outcome[c] = "done" /\ \A s \in Slots : run[s].cmd # c
  BY <1>1
<1>3. \A t \in Slots : Progress(run[t])'
  BY <1>1 DEF Progress, Idle, Merging
<1>4. \A c \in plan : outcome'[c] = "done" => c \in done
  BY <1>2 DEF LastInv
<1>5. ASSUME overlaps = 0, NEW c \in plan \cap Replacing, outcome'[c] = "done"
      PROVE  Fixed(c)'
  <2>1. Fixed(c)
    BY <1>2, <1>5 DEF LastInv
  <2>2. QED
    BY <1>1, <2>1 DEF Fixed
<1>6. QED
  BY <1>1, <1>3, <1>4, <1>5 DEF LastInv

\* An instance that its script gave up ends; or nothing happens.
LEMMA OrphanLast ==
  ASSUME IInv, LastInv, OrphanEnds \/ UNCHANGED vars PROVE LastInv'
<1>1. /\ UNCHANGED <<plan, run, outcome, done, overlaps>>
      /\ machine' \in {machine, [machine EXCEPT !["caCert"] = {"planned"}]}
  BY DEF OrphanEnds, vars, history
<1>2. \A c \in plan \cap Replacing : Fixed(c) => Fixed(c)'
  BY <1>1, CertificateFixed
<1>3. ASSUME NEW t \in Slots, Progress(run[t]) PROVE Progress(run[t])'
  <2>1. PICK c : c = run[t].cmd
    OBVIOUS
  <2>2. CASE c \notin Replacing
    BY <1>1, <2>1, <2>2 DEF Progress, Replacing
  <2>3. CASE c \in Replacing
    <3>1. c # "idle"
      BY <2>3 DEF Replacing, Merging
    <3>2. run[t] # Idle
      BY <2>1, <3>1 DEF Idle
    <3>3. c \in plan \cap Replacing
      BY <2>1, <2>3, <3>2, AtStep
    <3>4. PICK y \in Resources :
            /\ y \in {"pkiCNAME", "templateACL", "responder"}
            /\ c = "dns.create_record" => y = "pkiCNAME"
            /\ c \in Merging => y = Script(c)[2].res
            /\ \A i \in 1 .. Len(Script(c)) : Script(c)[i].res = y
      BY <3>3, FixedResource
    <3>5. machine'[y] = machine[y]
      BY <1>1, <3>4 DEF IInv, OtherTypes
    <3>6. Fixed(c) => Fixed(c)'
      BY <1>2, <3>3
    <3>7. run'[t] = run[t]
      BY <1>1
    <3>8. c \in Merging /\ run[t].pc = 2 => run[t].seen = machine'[Script(c)[2].res]
      BY <1>3, <2>1, <3>4, <3>5 DEF Progress
    <3>9. /\ c \in Merging /\ run[t].pc = 3 /\ ~run[t].failed => Fixed(c)'
          /\ c = "dns.create_record" /\ run[t].pc \in 4 .. 5 /\ ~run[t].failed => Fixed(c)'
      BY <1>3, <2>1, <3>6 DEF Progress
    <3>10. QED
      BY <2>1, <3>7, <3>8, <3>9 DEF Progress, Fixed
  <2>4. QED
    BY <2>2, <2>3
<1>4. QED
  BY <1>1, <1>2, <1>3 DEF LastInv

\* Every step keeps LastInv.
LEMMA NextLast ==
  ASSUME IInv, RerunInv, LastInv, [Next]_vars PROVE LastInv'
<1>1. ASSUME NEW s \in Slots, NEW c \in plan, Deliver(s, c) PROVE LastInv'
  BY <1>1, DeliverLast
<1>2. ASSUME NEW s \in Slots, ScriptStep(s) PROVE LastInv'
  <2>1. CASE StepOk(s)
    BY <2>1, StepLast
  <2>2. CASE StepRefused(s) \/ PollBad(s)
    BY <2>2, ErrorLast
  <2>3. CASE \/ StopService(s) \/ StartService(s) \/ Register(s) \/ Launch(s)
             \/ PollOk(s) \/ Unregister(s)
    BY <2>3, SpecialLast
  <2>4. CASE End(s)
    BY <2>4, EndLast
  <2>5. QED
    BY <1>2, <2>1, <2>2, <2>3, <2>4 DEF ScriptStep
<1>3. ASSUME NEW s \in Slots, Faulty(s) PROVE LastInv'
  <2>1. CASE StepFails(s) \/ ServiceFails(s) \/ TaskStepFails(s)
    BY <2>1, ErrorLast
  <2>2. CASE UnregisterFails(s)
    BY <2>2, SpecialLast
  <2>3. QED
    BY <1>3, <2>1, <2>2 DEF Faulty
<1>4. ASSUME NEW s \in Slots, TaskOk(s) \/ TaskBad(s) PROVE LastInv'
  BY <1>4, CertutilLast
<1>5. CASE OrphanEnds \/ UNCHANGED vars
  BY <1>5, OrphanLast
<1>6. CASE Reboot
  BY <1>6, RebootLast
<1>7. QED
  BY <1>1, <1>2, <1>3, <1>4, <1>5, <1>6 DEF Next

\* No outcome was reported at first.
LEMMA InitLast == Init => LastInv
<1>1. SUFFICES ASSUME Init PROVE LastInv
  OBVIOUS
<1>2. /\ outcome = [c \in plan |-> "none"]
      /\ run = [s \in Slots |-> Idle]
  BY <1>1, Zenon DEF Init
<1>3. \A s \in Slots : run[s] = Idle /\ Progress(run[s])
  BY <1>2, IdleProgress
<1>4. QED
  BY <1>2, <1>3 DEF LastInv

\* The three of them, and the types they rest on, hold throughout.
LEMMA RedeliveryHolds == Spec => [](IInv /\ RerunInv /\ StartInv /\ LastInv)
<1>1. Init => IInv /\ RerunInv /\ StartInv /\ LastInv
  BY InitIInv, InitRerun, InitStart, InitLast
<1>2. ASSUME IInv, RerunInv, StartInv, LastInv, [Next]_vars
      PROVE  IInv' /\ RerunInv' /\ StartInv' /\ LastInv'
  BY <1>2, NextKeeps, StutterKeeps, NextRerun, NextStart, NextLast DEF Kept
<1>3. QED
  BY <1>1, <1>2, PTL DEF Spec

-----------------------------------------------------------------------------
(* Theorems.                                                               *)

\* A command that only adds, once reported done, stays applied: through other
\* runs of it and of others beside it, errors, reboots and crossing restarts
\* of the certificate service (ca.rs, dns.rs, iis.rs, powershell.rs).
THEOREM RedeliveryIsHarmless == Spec => []RerunHarmless
<1>1. ASSUME IInv, RerunInv PROVE RerunHarmless
  <2>1. SUFFICES ASSUME NEW c \in done, Additive(c) PROVE Applied(c)
    BY DEF RerunHarmless
  <2>2. c \in plan
    BY <1>1 DEF IInv, OtherTypes
  <2>3. Achieved(c, Len(Script(c)) + 1)
    BY <1>1, <2>1 DEF RerunInv, DoneAchieve
  <2>4. QED
    BY <1>1, <2>1, <2>2, <2>3, AchievedIsApplied
<1>2. QED
  BY <1>1, RedeliveryHolds, PTL

\* Without faults the certificate service is up whenever no script runs: each
\* stop of ca.configure_settings and ca.configure_cdp_aia (ca.rs) is followed
\* by a start, whatever crosses it, and ca.install_cert ends behind its own.
THEOREM CertificateServiceComesBack == Spec => []ServiceComesBack
<1>1. ASSUME StartInv PROVE ServiceComesBack
  <2>1. SUFFICES ASSUME faults = 0, Busy = {},
                        "ca.install_cert" \in plan => "ca.install_cert" \in done
                 PROVE  up
    BY DEF ServiceComesBack
  <2>2. ~Pending
    BY <2>1 DEF Pending, Busy
  <2>3. ~Unstarted
    BY <2>1 DEF Unstarted
  <2>4. QED
    BY <1>1, <2>1, <2>2, <2>3 DEF StartInv
<1>2. QED
  BY <1>1, RedeliveryHolds, PTL

\* While deliveries do not overlap, every command whose last run was reported
\* done is applied, also those that remove before they add (dns.create_record,
\* dns.rs) or write back what they read (template.rs, ocsp.rs).
THEOREM LastRunIsApplied == Spec => []LastRunDecides
<1>1. ASSUME IInv, RerunInv, LastInv PROVE LastRunDecides
  <2>1. SUFFICES ASSUME overlaps = 0, NEW c \in plan, outcome[c] = "done",
                        \A s \in Slots : run[s].cmd # c
                 PROVE  Applied(c)
    BY DEF LastRunDecides
  <2>2. c \in Commands /\ DOMAIN Script(c) = 1 .. Len(Script(c))
    <3>1. c \in Commands
      BY <1>1 DEF IInv, OtherTypes
    <3>2. QED
      BY <3>1, ScriptsAreSequences
  <2>3. CASE c \in Merging
    <3>1. c \in Replacing /\ c # "dns.create_record"
      BY <2>3 DEF Replacing, Merging
    <3>2. Fixed(c)
      BY <1>1, <2>1, <3>1 DEF LastInv
    <3>3. ASSUME NEW i \in 1 .. Len(Script(c)) PROVE Holds(Script(c)[i])
      <4>1. i = 1 \/ i = 2
        <5>1. Len(Script(c)) = 2
          BY <2>3, LossyScripts
        <5>2. QED
          BY <5>1
      <4>2. CASE i = 1
        BY <2>3, <4>2, LossyScripts DEF Holds
      <4>3. CASE i = 2
        BY <2>3, <3>1, <3>2, <4>3, LossyScripts DEF Holds, Fixed
      <4>4. QED
        BY <4>1, <4>2, <4>3
    <3>4. QED
      BY <2>2, <3>3 DEF Applied, Steps
  <2>4. CASE c = "dns.create_record"
    <3>1. Fixed(c)
      BY <1>1, <2>1, <2>4 DEF LastInv, Replacing
    <3>2. machine["pkiCNAME"] = {"planned"}
      BY <2>4, <3>1 DEF Fixed
    <3>3. "pkiCNAME" \notin Configuration
      BY ConfigurationNames
    <3>4. ASSUME NEW i \in 1 .. Len(Script(c)) PROVE Holds(Script(c)[i])
      <4>1. Script(c)[i].op \in {"look", "drop", "create", "check"}
        <5>1. Len(Script(c)) = 4
          BY <2>4, LossyScripts
        <5>2. i = 1 \/ i = 2 \/ i = 3 \/ i = 4
          BY <5>1
        <5>3. QED
          BY <2>4, <5>2, LossyScripts
      <4>2. Script(c)[i].res = "pkiCNAME"
        BY <2>4, LossyScripts
      <4>3. QED
        BY <3>2, <3>3, <4>1, <4>2 DEF Holds
    <3>5. QED
      BY <2>2, <3>4 DEF Applied, Steps
  <2>5. CASE c = "ip.write"
    <3>1. \A i \in 1 .. Len(Script(c)) : ~Script(c)[i].strict
      BY <2>5, LossyScripts
    <3>2. QED
      BY <2>2, <3>1 DEF Applied, Steps
  <2>6. CASE c \notin Replacing \cup {"ip.write"}
    <3>1. \A i \in 1 .. Len(Script(c)) : Adding(Script(c)[i])
      BY <2>2, <2>6, OthersAdd, RestartingScripts DEF AddingScript
    <3>2. Additive(c)
      BY <2>2, <3>1 DEF Additive, Steps, Adding
    <3>3. c \in done
      BY <1>1, <2>1 DEF LastInv
    <3>4. Achieved(c, Len(Script(c)) + 1)
      BY <1>1, <3>2, <3>3 DEF RerunInv, DoneAchieve
    <3>5. QED
      BY <1>1, <3>2, <3>4, AchievedIsApplied
  <2>7. QED
    BY <2>3, <2>4, <2>5, <2>6 DEF Replacing
<1>2. QED
  BY <1>1, RedeliveryHolds, PTL

=============================================================================
