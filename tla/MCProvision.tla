----------------------------- MODULE MCProvision -----------------------------
(***************************************************************************)
(* Plans for TLC: every command by itself, and the pairs that share a      *)
(* resource or the certificate service.                                    *)
(***************************************************************************)
EXTENDS Provision

MCPlans ==
  {{c} : c \in Commands} \cup
  {{"ca.configure_settings", "ca.configure_cdp_aia"},
   {"template.grant_access.1", "template.grant_access.2"},
   {"ocsp.configure_revocation.1", "ocsp.configure_revocation.2"}}
=============================================================================
