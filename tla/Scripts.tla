------------------------------- MODULE Scripts -------------------------------
(***************************************************************************)
(* What the scripts of the commands (src/src/commands/) do to the machine, *)
(* one step per call that changes it or looks at it before a change.  A    *)
(* step is an operation on a resource (a registry value, a DNS name, a     *)
(* share...), whose content is a set of values: empty if it is absent.     *)
(* What the operations mean is in module Provision.  A step that is not    *)
(* strict belongs to a script or a native command whose errors are not     *)
(* looked at.  Read-only commands have no steps and are left out; the      *)
(* Linux scripts that rewrite files are in module Files.                   *)
(***************************************************************************)
EXTENDS Integers, Sequences

Step(op, res, val) == [op |-> op, res |-> res, val |-> val, strict |-> TRUE]

Put(res)      == Step("put", res, "planned")       \* replaces what is there
Create(res)   == Step("create", res, "planned")    \* refused if it is there
Ensure(res)   == Step("ensure", res, "planned")    \* 'already' is no error
Look(res)     == Step("look", res, "planned")      \* Get-..., kept in $existing
IfAbsent(res) == Step("ifAbsent", res, "planned")  \* New-... unless it was seen
Claim(res)    == Step("claim", res, "planned")     \* a DNS record of the plan
Drop(res)     == Step("drop", res, "planned")      \* removes what was seen
Check(res)    == Step("check", res, "planned")     \* a readback under Stop
Merge(res, v) == Step("merge", res, v)             \* writes what was seen, and v
Lenient(s)    == [s EXCEPT !.strict = FALSE]
Service(op)   == Step(op, "certsvc", "planned")    \* "stop", "start"
Task(op)      == Step(op, "caCert", "planned")     \* the scheduled task

-----------------------------------------------------------------------------
(* ca.rs                                                                   *)

\* CAPolicy.inf, the features, Install-AdcsCertificationAuthority (which, for
\* an issuing CA, writes the request and stays "incomplete").
InstallSteps == <<Put("CAPolicy.inf"), Put("ADCS-Cert-Authority"), Create("CA")>>

Settings == <<"DSConfigDN", "CRLPeriodUnits", "CRLPeriod", "CRLDeltaPeriodUnits",
              "CRLDeltaPeriod", "CRLOverlapPeriodUnits", "CRLOverlapPeriod",
              "ValidityPeriodUnits", "ValidityPeriod", "AuditFilter">>

\* Set-CaReg one by one, auditpol unchecked, Restart-Service.
ConfigureSettingsSteps ==
  [i \in 1 .. Len(Settings) |-> Put(Settings[i])]
  \o <<Lenient(Put("auditpol")), Service("stop"), Service("start")>>

Urls == <<"CACertPublicationURLs", "CRLPublicationURLs">>

\* Variant: the service keeps the URLs it started with.
ConfigureCdpAiaWithoutRestart == <<Put(Urls[1]), Put(Urls[2])>>

ConfigureCdpAiaSteps ==
  <<Put(Urls[1]), Put(Urls[2]), Service("stop"), Service("start")>>

PublishCrlSteps == <<Put("CRL"), Check("CRL")>>

\* Submitting and resubmitting issues a certificate each time.
SignRequestSteps == <<Step("issue", "requests", "planned"), Put("certPath")>>

\* Variant: the service that had waited for its certificate is not started.
InstallCertWithoutStart ==
  <<Task("register"), Task("launch"), Task("poll"), Lenient(Task("unregister"))>>

\* The scheduled task, and the finally block that removes it.
InstallCertSteps ==
  <<Task("register"), Task("launch"), Task("poll"), Lenient(Task("unregister")),
    Service("start")>>

PublishTemplateSteps == <<Ensure("template1"), Ensure("template2")>>

(* dns.rs                                                                  *)

DnsSetClientSteps == <<Put("dnsServers"), Check("dnsServers")>>

CreateRecordSteps ==
  <<Look("pkiCNAME"), Drop("pkiCNAME"), Create("pkiCNAME"), Check("pkiCNAME")>>

\* Variant: what is there is replaced, as dns.create_record does.
ApplyResourcesReplacing ==
  <<Look("zone"), IfAbsent("zone"), Put("PTR"), Put("A"), Put("CNAME")>>

\* A record of each kind; the PTR's zone is made if it is missing.
ApplyResourcesSteps ==
  <<Look("zone"), IfAbsent("zone"), Look("PTR"), Claim("PTR"),
    Look("A"), Claim("A"), Look("CNAME"), Claim("CNAME")>>

(* iis.rs, template.rs, ocsp.rs                                            *)

SetupCertEnrollSteps ==
  <<Put("folder"), Look("share"), IfAbsent("share"), Put("icacls"),
    Put("Web-Server"), Look("vdir"), IfAbsent("vdir"),
    Put("directoryBrowse"), Put("allowDoubleEscaping")>>

\* The whole security descriptor, and the whole responder configuration, are
\* read, changed in memory and written back.
GrantAccessSteps(who) == <<Look("templateACL"), Merge("templateACL", who)>>
ConfigureRevocationSteps(name) == <<Look("responder"), Merge("responder", name)>>

OcspInstallSteps == <<Put("ADCS-Online-Cert"), Ensure("OnlineResponder")>>

(* ip.rs, and the commands of one or two calls                             *)

\* No ErrorActionPreference: every failing call is passed over.
IpWriteSteps ==
  <<Lenient(Put("DHCP")), Lenient(Look("address")), Lenient(Drop("address")),
    Lenient(Create("address"))>>

HostnameRenameSteps   == <<Put("hostname")>>
AddStoreSteps         == <<Put("store")>>
DsPublishSteps        == <<Put("NTAuth")>>
EnrollSteps           == <<Step("issue", "requests", "planned"), Put("exportPath")>>
DomainJoinSteps       == <<Create("membership")>>
InstallForestSteps    == <<Put("AD-Domain-Services"), Create("forest")>>
WindowsFileWriteSteps == <<Put("directory"), Put("file")>>

-----------------------------------------------------------------------------
Commands ==
  {"ca.install", "ca.configure_settings", "ca.configure_cdp_aia",
   "ca.publish_crl", "ca.sign_request", "ca.install_cert", "ca.publish_template",
   "dns.set_client", "dns.create_record", "dns.apply_resources",
   "iis.setup_certenroll", "template.grant_access.1", "template.grant_access.2",
   "ocsp.install", "ocsp.configure_revocation.1", "ocsp.configure_revocation.2",
   "ip.write", "hostname.rename", "cert.addstore", "cert.dspublish",
   "cert.enroll", "domain.join", "dc.install_forest", "file.write"}

Script(c) ==
  CASE c = "ca.install"                  -> InstallSteps
    [] c = "ca.configure_settings"       -> ConfigureSettingsSteps
    [] c = "ca.configure_cdp_aia"        -> ConfigureCdpAiaSteps
    [] c = "ca.publish_crl"              -> PublishCrlSteps
    [] c = "ca.sign_request"             -> SignRequestSteps
    [] c = "ca.install_cert"             -> InstallCertSteps
    [] c = "ca.publish_template"         -> PublishTemplateSteps
    [] c = "dns.set_client"              -> DnsSetClientSteps
    [] c = "dns.create_record"           -> CreateRecordSteps
    [] c = "dns.apply_resources"         -> ApplyResourcesSteps
    [] c = "iis.setup_certenroll"        -> SetupCertEnrollSteps
    [] c = "template.grant_access.1"     -> GrantAccessSteps("computer1")
    [] c = "template.grant_access.2"     -> GrantAccessSteps("computer2")
    [] c = "ocsp.install"                -> OcspInstallSteps
    [] c = "ocsp.configure_revocation.1" -> ConfigureRevocationSteps("name1")
    [] c = "ocsp.configure_revocation.2" -> ConfigureRevocationSteps("name2")
    [] c = "ip.write"                    -> IpWriteSteps
    [] c = "hostname.rename"             -> HostnameRenameSteps
    [] c = "cert.addstore"               -> AddStoreSteps
    [] c = "cert.dspublish"              -> DsPublishSteps
    [] c = "cert.enroll"                 -> EnrollSteps
    [] c = "domain.join"                 -> DomainJoinSteps
    [] c = "dc.install_forest"           -> InstallForestSteps
    [] c = "file.write"                  -> WindowsFileWriteSteps

=============================================================================
