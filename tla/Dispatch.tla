------------------------------ MODULE Dispatch -------------------------------
(***************************************************************************)
(* One command from its arrival to its last progress frame:                *)
(* handle_command (src/src/phonehome.rs) or run_once (src/src/cli.rs),     *)
(* CommandRegistry::dispatch (registry.rs) over the registry of the        *)
(* platform (commands/mod.rs), the role gate (authz.rs), the handler's     *)
(* checks (module Handlers) and its script (powershell.rs).  Several       *)
(* commands at once share nothing but the channel: see module PhoneHome.   *)
(***************************************************************************)
EXTENDS Handlers, Integers, FiniteSets

CONSTANT
  MaxFaults  \* bound: parameters that differ from a uniformly filled-in request

ASSUME MaxFaultsAssumption == MaxFaults \in Nat

-----------------------------------------------------------------------------
(* authz.rs                                                                *)

Capability == {"vm:list", "vm:read", "vm:clone", "vm:update", "vm:power",
               "vm:delete", "vm:provision", "config:generate",
               "vm:exec-arbitrary", "deploy"}

\* Variant: one capability set for every role.
CapabilitiesOfAll(role) == Capability

Capabilities(role) ==
  IF role = "operator" THEN Capability
  ELSE {"vm:list", "vm:read", "vm:clone", "vm:delete", "vm:provision", "deploy"}

-----------------------------------------------------------------------------
(* commands/mod.rs: the handlers, and those the unix build puts over them. *)

\* A map with one entry, and the map that looks in f before g.
k :> v == [x \in {k} |-> v]
f @@ g == [x \in DOMAIN f \cup DOMAIN g |-> IF x \in DOMAIN f THEN f[x] ELSE g[x]]

Handler(cap, checks) == [cap |-> cap, checks |-> checks]
ReadCap   == "vm:read"
UpdateCap == "vm:update"
Provision == "vm:provision"

AdminHandlers ==
     "hostname.rename" :> Handler(UpdateCap, HostnameRename)
  @@ "powershell.exec_arbitrary" :> Handler("vm:exec-arbitrary", ExecArbitrary)
  @@ "ip.write" :> Handler(UpdateCap, IpWrite)

RelayHandlers ==
     "file.read" :> Handler(Provision, FileRead)
  @@ "file.write" :> Handler(Provision, FileWrite)

HostHandlers ==
     "hostname.read" :> Handler(ReadCap, HostnameRead)
  @@ "ip.read" :> Handler(ReadCap, IpRead)
  @@ "system.reboot" :> Handler(Provision, SystemReboot)
  @@ "system.boot_info" :> Handler(ReadCap, SystemBootInfo)
  @@ "system.identity" :> Handler(ReadCap, SystemIdentity)

CaHandlers(p) ==
     "ca.install" :> Handler(Provision, CaInstall(p))
  @@ "ca.configure_settings" :> Handler(Provision, CaConfigureSettings(p))
  @@ "ca.configure_cdp_aia" :> Handler(Provision, CaConfigureCdpAia(p))
  @@ "ca.publish_crl" :> Handler(Provision, CaPublishCrl)
  @@ "ca.sign_request" :> Handler(Provision, CaSignRequest)
  @@ "ca.install_cert" :> Handler(Provision, CaInstallCert)
  @@ "ca.publish_template" :> Handler(Provision, CaPublishTemplate)
  @@ "ca.verify" :> Handler(ReadCap, CaVerify)

DomainHandlers(p) ==
     "dc.verify" :> Handler(ReadCap, DcVerify)
  @@ "dc.install_forest" :> Handler(Provision, DcInstallForest)
  @@ "domain.verify" :> Handler(ReadCap, DomainVerify)
  @@ "domain.join" :> Handler(Provision, DomainJoin)
  @@ "dns.set_client" :> Handler(Provision, DnsSetClient)
  @@ "dns.create_record" :> Handler(Provision, DnsCreateRecord)
  @@ "dns.apply_resources" :> Handler(Provision, DnsApplyResources)
  @@ "dns.verify" :> Handler(ReadCap, DnsVerify(p))

CertHandlers(p) ==
     "cert.verify" :> Handler(ReadCap, CertVerify)
  @@ "cert.addstore" :> Handler(Provision, CertAddStore)
  @@ "cert.dspublish" :> Handler(Provision, CertDsPublish)
  @@ "template.grant_access" :> Handler(Provision, TemplateGrantAccess)
  @@ "iis.setup_certenroll" :> Handler(Provision, IisSetupCertEnroll(p))
  @@ "ocsp.install" :> Handler(Provision, OcspInstall)
  @@ "ocsp.configure_revocation" :> Handler(Provision, OcspConfigureRevocation)
  @@ "ocsp.verify" :> Handler(ReadCap, OcspVerify)
  @@ "cert.enroll" :> Handler(Provision, CertEnroll)
  @@ "pki.verify" :> Handler(ReadCap, PkiVerify)

ProductHandlers ==
     "apt.refresh" :> Handler(Provision, AptRefresh)
  @@ "certsecure.write_hosts" :> Handler(Provision, CertSecureWriteHosts)
  @@ "certsecure.make_cert" :> Handler(Provision, CertSecureMakeCert)
  @@ "certsecure.install" :> Handler(Provision, CertSecureInstall)
  @@ "certsecure.harden" :> Handler(Provision, CertSecureHarden)
  @@ "certsecure.verify" :> Handler(ReadCap, CertSecureVerify)

ProvisioningHandlers(p) ==
  HostHandlers @@ CaHandlers(p) @@ DomainHandlers(p) @@ CertHandlers(p) @@ ProductHandlers

DefaultHandlers(p) == AdminHandlers @@ RelayHandlers @@ ProvisioningHandlers(p)

LinuxRelayHandlers ==
     "file.read" :> Handler(Provision, LinuxFileRead)
  @@ "file.write" :> Handler(Provision, LinuxFileWrite)

LinuxHostHandlers ==
     "hostname.read" :> Handler(ReadCap, LinuxHostnameRead)
  @@ "system.identity" :> Handler(ReadCap, LinuxSystemIdentity)
  @@ "system.reboot" :> Handler(Provision, LinuxSystemReboot)
  @@ "system.boot_info" :> Handler(ReadCap, LinuxSystemBootInfo)

LinuxHandlers == LinuxRelayHandlers @@ LinuxHostHandlers

\* Variant: the first registration of a name wins.
RegistryFirstWins(platform, p) ==
  IF platform = "unix" THEN DefaultHandlers(p) @@ LinuxHandlers
                       ELSE DefaultHandlers(p)

\* register() replaces what is there under the same name.
Registry(platform, p) ==
  IF platform = "unix" THEN LinuxHandlers @@ DefaultHandlers(p)
                       ELSE DefaultHandlers(p)

-----------------------------------------------------------------------------
(* The requests that are tried.                                            *)

\* The parameters that open every branch of every handler.
Widest == [caType |-> "Issuing", keyAlgorithm |-> "RSA", scope |-> "good",
           requireAdSrv |-> "true"]
Commands == DOMAIN DefaultHandlers(Widest)

Keys(platform, cmd) ==
  IF cmd \notin Commands THEN {}
  ELSE LET checks == Registry(platform, Widest)[cmd].checks
       IN  {checks[i].key : i \in DOMAIN checks} \ {Nothing}

PathKeys == {"path", "rootPath", "issuingPath", "exportPath", "caCertPath",
             "csrPath", "certPath", "keyPath", "certEnrollPath"}

Values(k) ==
  {"empty", "bad"} \cup
  CASE k \in PathKeys       -> WinPath \cup Posix
    [] k = "caType"         -> {"Root", "Issuing"}
    [] k = "keyAlgorithm"   -> {"RSA", "ECDSA", "ML-DSA-87"}
    [] k = "scope"          -> {"good", "web"}
    [] k = "requireAdSrv"   -> {"good", "true"}
    [] OTHER                -> {"good"}

\* A parameter filled in the way a Windows or a Linux guest wants it.
Filled(style, k) ==
  CASE k \in PathKeys     -> IF style = "windows" THEN "winRelay" ELSE "posixProduct"
    [] k = "caType"       -> "Issuing"
    [] k = "keyAlgorithm" -> "RSA"
    [] k = "requireAdSrv" -> "true"
    [] OTHER              -> "good"

\* The keys in base filled in, those in E as f has them.
Params(style, base, f, E) ==
  [k \in base \cup E |-> IF k \in E THEN f[k] ELSE Filled(style, k)]

\* Everything filled in, or nothing given, except for the keys in D, which are
\* left out or have any value.
Around(keys, style, D) ==
  {Params(style, IF style = "none" THEN {} ELSE keys \ D, f, E) :
     f \in [D -> UNION {Values(k) : k \in D}], E \in SUBSET D}

ParamChoices(keys) ==
  UNION {Around(keys, style, D) :
           style \in {"none", "windows", "linux"},
           D \in {S \in SUBSET keys : Cardinality(S) <= MaxFaults}}

-----------------------------------------------------------------------------
VARIABLES
  platform,  \* what the binary was built for: "windows" or "unix"
  request,   \* command, params, role (forwarded or configured), who asked
  stage,     \* "received", "running" (the frame is out), "finished"
  frames,    \* states reported to the progress sink
  ran,       \* the shell was started
  outcome    \* what dispatch returned: "Ok" or the kind of error

vars == <<platform, request, stage, frames, ran, outcome>>

Errors == {"UnknownCommand", "Forbidden", "MissingParam", "InvalidParam", "Shell"}

TypeOK ==
  /\ platform \in {"windows", "unix"}
  /\ request.cmd \in Commands \cup {"no.such.command"}
  /\ request.role \in {"operator", "guest"}
  /\ request.via \in {"phonehome", "cli"}
  /\ stage \in {"received", "running", "finished"}
  /\ frames \in Seq({"running", "done", "error"})
  /\ ran \in BOOLEAN
  /\ outcome \in {"none", "Ok"} \cup Errors

Init ==
  /\ platform \in {"windows", "unix"}
  /\ \E cmd \in Commands \cup {"no.such.command"}, role \in {"operator", "guest"},
        via \in {"phonehome", "cli"} :
       \E p \in ParamChoices(Keys(platform, cmd)) :
         /\ \A k \in DOMAIN p : p[k] \in Values(k)
         /\ request = [cmd |-> cmd, role |-> role, via |-> via, params |-> p]
  /\ stage = "received" /\ frames = <<>> /\ ran = FALSE /\ outcome = "none"

-----------------------------------------------------------------------------
handlers == Registry(platform, request.params)
handler  == handlers[request.cmd]

Has(role, cap) == cap \in Capabilities(role)

\* A check refuses the parameter it looks at.
Fails(check, p) ==
  IF check.key \in DOMAIN p THEN p[check.key] \notin check.ok
                            ELSE check.absent # "ok"

\* Variant: every refusal is reported as if the parameter were absent.
FaultKindAbsent(check, p) == check.absent

FaultKind(check, p) ==
  IF check.key \in DOMAIN p THEN "InvalidParam" ELSE check.absent

\* Variant: the last check of a handler is not reached.
FirstFaultButLast(checks, p) ==
  IF \E i \in 1 .. Len(checks) - 1 : Fails(checks[i], p) THEN "InvalidParam" ELSE "none"

\* The handler's early returns: the first check that fails decides.
FirstFault(checks, p) ==
  LET failing == {i \in DOMAIN checks : Fails(checks[i], p)}
  IN  IF failing = {} THEN "none"
      ELSE FaultKind(checks[CHOOSE i \in failing : \A j \in failing : i <= j], p)

\* What dispatch returns before the handler reports anything.
Refusal ==
  IF request.cmd \notin DOMAIN handlers THEN "UnknownCommand"
  ELSE IF ~Has(request.role, handler.cap) THEN "Forbidden"
  ELSE FirstFault(handler.checks, request.params)

\* system.boot_info reads what it needs without a shell.
UsesShell(cmd) == cmd # "system.boot_info"

\* Handlers that refuse the output of a script that exited 0, and as what.
Misread(cmd) ==
  CASE cmd \in {"system.identity", "cert.verify", "pki.verify",
                "certsecure.make_cert"}            -> "Shell"
    [] cmd \in {"file.read", "ca.sign_request"}    -> "InvalidParam"
    [] OTHER                                       -> "none"

-----------------------------------------------------------------------------
\* dispatch returned an error.  handle_command turns it into the terminal
\* frame; run_once makes it the exit status of the process.
ReturnErr(kind) ==
  /\ outcome' = kind
  /\ stage' = "finished"
  /\ frames' = IF request.via = "phonehome" THEN Append(frames, "error") ELSE frames
  /\ UNCHANGED <<platform, request>>

\* The handler reports "done" itself and returns Ok.
ReturnOk ==
  /\ outcome' = "Ok"
  /\ stage' = "finished"
  /\ frames' = Append(frames, "done")
  /\ UNCHANGED <<platform, request>>

\* Variant: "running" is reported before the parameters are looked at.
RefuseLate ==
  /\ stage = "received" /\ Refusal # "none"
  /\ outcome' = Refusal /\ stage' = "finished"
  /\ frames' = <<"running", "error">>
  /\ UNCHANGED <<platform, request, ran>>

Refuse ==
  /\ stage = "received" /\ Refusal # "none"
  /\ ReturnErr(Refusal)
  /\ UNCHANGED ran

Start ==
  /\ stage = "received" /\ Refusal = "none"
  /\ stage' = "running"
  /\ frames' = Append(frames, "running")
  /\ UNCHANGED <<platform, request, ran, outcome>>

ReadLocally ==
  /\ stage = "running" /\ ~UsesShell(request.cmd)
  /\ ReturnOk
  /\ UNCHANGED ran

\* The script file cannot be written or the shell cannot be spawned.
SpawnErr ==
  /\ stage = "running" /\ UsesShell(request.cmd)
  /\ ReturnErr("Shell")
  /\ UNCHANGED ran

\* Variant: "done" is reported before the exit code is looked at.
ScriptErrAfterDone ==
  /\ stage = "running" /\ UsesShell(request.cmd) /\ Len(frames) < 3
  /\ ran' = TRUE
  /\ frames' = Append(frames, "done")
  /\ UNCHANGED <<platform, request, stage, outcome>>

\* require_success: a non-zero exit.
ScriptErr ==
  /\ stage = "running" /\ UsesShell(request.cmd)
  /\ ran' = TRUE
  /\ ReturnErr("Shell")

\* Exit code 0, and output the handler cannot use.
OutputErr ==
  /\ stage = "running" /\ Misread(request.cmd) # "none"
  /\ ran' = TRUE
  /\ ReturnErr(Misread(request.cmd))

ScriptOk ==
  /\ stage = "running" /\ UsesShell(request.cmd)
  /\ ran' = TRUE
  /\ ReturnOk

Next == Refuse \/ Start \/ ReadLocally \/ SpawnErr \/ ScriptErr \/ OutputErr \/ ScriptOk

Spec == Init /\ [][Next]_vars

-----------------------------------------------------------------------------
(* Properties.                                                             *)

\* A caller told that its request was refused may correct it and send it
\* again: nothing was started and no other frame went out.  The exceptions
\* are the two handlers that answer InvalidParam to their script's output.
RefusedMeansUntouched ==
  outcome \in Errors \ {"Shell"} /\ request.cmd \notin {"file.read", "ca.sign_request"}
    => ~ran /\ frames \in {<<>>, <<"error">>}

\* The README's "Guest-eligible? No": whatever the platform's registry holds
\* under these names, and whoever asks, a guest does not get to run them.
GuestStaysOut ==
  request.role = "guest" /\ ran =>
    request.cmd \notin {"hostname.rename", "ip.write", "powershell.exec_arbitrary"}

\* The relay commands only touch the allowlist of the platform they run on:
\* the handlers layered over the Windows ones leave no Windows path usable
\* on unix, and no POSIX path is usable on Windows.
RelayConfined ==
  request.cmd \in {"file.read", "file.write"} /\ ran =>
    request.params["path"] =
      (IF platform = "unix" THEN "posixProduct" ELSE "winRelay")

\* Parameters a handler hands on, or leaves unread, without a check: free
\* text by design, or not looked at in the branch taken.
Unchecked(cmd, p) ==
  {"script", "interface"}
  \cup (IF ParamOr(p, "requireAdSrv", "good") # "true" THEN {"domain"} ELSE {})
  \cup (IF cmd = "iis.setup_certenroll" /\ ParamOr(p, "scope", "good") = "web"
        THEN {"netbiosName"} ELSE {})
  \cup (IF cmd # "ca.install" THEN {} ELSE
          (IF ParamOr(p, "keyAlgorithm", "RSA") = "RSA" THEN {} ELSE {"keyLength"})
          \cup (IF ParamOr(p, "keyAlgorithm", "RSA") = "ML-DSA-87"
                THEN {"hashAlgorithm"} ELSE {})
          \cup (IF ParamOr(p, "caType", "Root") = "Issuing" THEN {} ELSE
                {"cpsUrl", "cpsOid", "csrPath", "username", "password"}))

\* No value its validator would refuse is ever behind a running script,
\* whichever other parameters are given, left out or wrong.
NoBadValueRuns ==
  ran => \A k \in DOMAIN request.params \ Unchecked(request.cmd, request.params) :
           request.params[k] # "bad"

\* The progress a job's subscriber sees of this dispatch: module ResultFeed.
Feed == INSTANCE ResultFeed WITH
          Jobs <- {"this"},
          view <- ("this" :> IF frames = <<>> THEN "none" ELSE frames[Len(frames)])
ReportsConclude == Feed!Spec

=============================================================================
