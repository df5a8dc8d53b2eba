------------------------------ MODULE Handlers -------------------------------
(***************************************************************************)
(* The command handlers (src/src/commands/): for each one, the checks it   *)
(* makes on its parameters, in the order it makes them, before it reports  *)
(* "running" and starts its script.  `p` is the params map of a dispatch.  *)
(*                                                                         *)
(* A value is abstracted to the class its validators tell apart:           *)
(*   "empty", "bad" (refused by the validator of its parameter), "good",   *)
(*   the literals a handler branches on, and for paths the platform whose  *)
(*   shape they have: "win" and "posix" in general, "winRelay" inside the  *)
(*   Windows relay allowlist, "posixProduct" inside the product directory  *)
(*   of the Linux guest (which its relay allowlist contains), "posixBeside"*)
(*   a path that only begins like it (/opt/certsecure-manager-old/x).      *)
(***************************************************************************)
EXTENDS Sequences

Good    == {"good"}
OrEmpty == {"good", "empty"}
WinPath == {"win", "winRelay"}

\* param(): the value given, or the handler's default.
ParamOr(p, k, default) == IF k \in DOMAIN p THEN p[k] ELSE default

\* required() and then the validator; the validator alone, if it is given.
Required(k, ok) == [key |-> k, absent |-> "MissingParam", ok |-> ok]
Optional(k, ok) == [key |-> k, absent |-> "ok", ok |-> ok]

\* required() alone.
Posix      == {"posix", "posixProduct", "posixBeside"}
AnyValue   == {"empty", "bad", "good"} \cup WinPath \cup Posix
Present(k) == Required(k, AnyValue)

RequiredAll(ks)     == [i \in DOMAIN ks |-> Required(ks[i], Good)]
OptionalAll(ks, ok) == [i \in DOMAIN ks |-> Optional(ks[i], ok)]
PresentAll(ks)      == [i \in DOMAIN ks |-> Present(ks[i])]

Given(p, ks) == \E k \in ks : ParamOr(p, k, "empty") # "empty"
Nothing == "at least one"   \* what MissingParam names when none of several is given
NeedOne(p, ks) == IF Given(p, ks) THEN <<>> ELSE <<Required(Nothing, {})>>

Credential == RequiredAll(<<"username", "password">>)

-----------------------------------------------------------------------------
(* hostname_*.rs, ip.rs, exec_arbitrary.rs, system*.rs, file.rs            *)

HostnameRename == <<Required("name", Good)>>
HostnameRead   == <<>>
IpRead         == <<>>
\* `interface` is handed to the script as it is.
IpWrite == <<Required("address", Good), Optional("prefixLength", Good),
             Optional("gateway", OrEmpty), Optional("interface", AnyValue)>>
ExecArbitrary  == <<Present("script")>>
SystemIdentity == <<>>
SystemReboot   == <<Optional("delaySeconds", Good)>>
SystemBootInfo == <<>>
FileRead       == <<Required("path", {"winRelay"})>>
FileWrite      == FileRead \o <<Required("contentB64", Good)>>

(* linux.rs *)
LinuxHostnameRead   == <<>>
LinuxSystemIdentity == <<>>
LinuxSystemReboot   == <<Optional("delaySeconds", Good)>>
LinuxSystemBootInfo == <<>>
LinuxFileRead       == <<Required("path", {"posixProduct"})>>
LinuxFileWrite      == LinuxFileRead \o <<Required("contentB64", Good)>>

(* cert_*.rs, template.rs, iis.rs *)
CertEnroll == <<Required("template", Good),
                Optional("exportPath", WinPath \cup {"empty"}),
                Optional("refreshPolicy", Good)>>
\* `path` must be given but may be empty.
CertVerify == <<Present("path")>>
              \o OptionalAll(<<"path", "rootPath", "issuingPath">>,
                             WinPath \cup {"empty"})
              \o <<Optional("expectedSignatureOid", Good)>>
CertAddStore  == <<Required("store", Good), Required("path", WinPath),
                   Optional("kind", Good)>>
CertDsPublish == <<Required("path", WinPath), Required("attribute", Good)>>
TemplateGrantAccess == RequiredAll(<<"template", "computer">>) \o Credential
IisSetupCertEnroll(p) ==
  <<Optional("path", WinPath), Optional("scope", {"good", "web"})>>
  \o (IF ParamOr(p, "scope", "good") = "web" THEN <<>>
      ELSE <<Required("netbiosName", Good)>>)

(* domain.rs, dc.rs, dns.rs *)
DomainJoin      == <<Required("domainName", Good)>> \o Credential
DomainVerify    == <<>>
DcInstallForest == RequiredAll(<<"domainName", "netbiosName">>)
                   \o <<Optional("forestMode", Good),
                        Required("safeModePassword", Good)>>
DcVerify        == <<>>
DnsSetClient    == <<Required("servers", Good), Optional("interface", AnyValue)>>
DnsCreateRecord == RequiredAll(<<"zone", "name", "target">>)
PlannedRecords    == <<Required("records", Good)>>
DnsApplyResources == PlannedRecords
\* The domain is looked at only when the AD records are required, and then
\* a domain that was not given fails like a bad one.
DnsVerify(p) ==
  PlannedRecords
  \o <<Required("server", Good), Optional("requireAdSrv", {"good", "true"})>>
  \o (IF ParamOr(p, "requireAdSrv", "good") = "true"
      THEN <<[key |-> "domain", absent |-> "InvalidParam", ok |-> Good]>>
      ELSE <<Optional("domain", AnyValue)>>)
  \o <<Optional("httpUrl", OrEmpty)>>

(* ca.rs *)
CryptoParams(p) ==
  LET algorithm == ParamOr(p, "keyAlgorithm", "RSA")
  IN  <<Optional("keyAlgorithm", {"RSA", "ECDSA", "ML-DSA-87"})>>
      \o (IF algorithm = "RSA" THEN <<Optional("keyLength", Good)>> ELSE <<>>)
      \o (IF algorithm = "ML-DSA-87" THEN <<>>
          ELSE <<Optional("hashAlgorithm", Good)>>)

ExecuteIssuing == <<Optional("cpsUrl", OrEmpty), Optional("cpsOid", Good),
                    Optional("csrPath", WinPath)>> \o Credential

CaInstall(p) ==
  <<Optional("caType", {"Root", "Issuing"}), Required("commonName", Good)>>
  \o CryptoParams(p)
  \o <<Optional("validityYears", Good)>>
  \o (IF ParamOr(p, "caType", "Root") = "Issuing" THEN ExecuteIssuing ELSE <<>>)

Settings == <<"dsConfigDn", "crlPeriodUnits", "crlDeltaPeriodUnits",
              "crlOverlapUnits", "validityPeriodUnits", "auditFilter",
              "crlPeriod", "crlDeltaPeriod", "crlOverlapPeriod", "validityPeriod">>
CaConfigureSettings(p) ==
  OptionalAll(Settings, OrEmpty) \o NeedOne(p, {Settings[i] : i \in DOMAIN Settings})

CaConfigureCdpAia(p) ==
  NeedOne(p, {"aiaUrls", "cdpUrls"}) \o OptionalAll(<<"aiaUrls", "cdpUrls">>, OrEmpty)

CaPublishCrl  == <<Optional("certEnrollPath", WinPath)>>
CaSignRequest == <<Required("csrPath", WinPath), Required("certPath", WinPath)>>
CaInstallCert == <<Required("certPath", WinPath)>> \o Credential
CaPublishTemplate == <<Required("templates", Good)>>
CaVerify      == <<>>

(* ocsp.rs, pki_verify.rs *)
OcspInstall == <<>>
OcspConfigureRevocation ==
  RequiredAll(<<"name", "caConfig">>)
  \o <<Required("caCertPath", WinPath), Optional("template", Good),
       Optional("refreshMinutes", Good), Required("baseCrlUrls", Good),
       Optional("deltaCrlUrls", OrEmpty)>>
OcspVerify == <<>>
PkiVerify ==
  PresentAll(<<"rootCaCommonName", "issuingCaCommonName">>)
  \o RequiredAll(<<"rootCaCommonName", "issuingCaCommonName", "templates",
                   "httpUrls">>)

(* certsecure.rs *)
\* The prefix compared with has no trailing slash.
ProductPath  == {"posixProduct", "posixBeside"}
ProductPaths == PresentAll(<<"certPath", "keyPath">>)
                \o <<Required("certPath", ProductPath),
                     Required("keyPath", ProductPath)>>
AptRefresh           == <<>>
CertSecureWriteHosts == <<Required("entries", Good)>>
CertSecureMakeCert   == <<Required("names", Good), Optional("ip", OrEmpty)>>
                        \o ProductPaths \o <<Optional("days", Good)>>
CertSecureInstall ==
  LET hosts == <<"frontendHost", "backendHost", "keycloakHost">>
  IN  PresentAll(hosts) \o RequiredAll(hosts)
      \o <<Required("keycloakRealm", Good)>> \o ProductPaths
\* `frontendUrl` must be given but may be empty.
CertSecureVerify == <<Present("frontendUrl"), Optional("frontendUrl", OrEmpty),
                      Optional("keycloakUrl", OrEmpty)>>
CertSecureHarden == <<>>

=============================================================================
