------------------------------- MODULE MCFiles -------------------------------
(***************************************************************************)
(* Plans for TLC: one group of commands that share a file each.            *)
(***************************************************************************)
EXTENDS Files

HostsPlan   == {<<"write_hosts", "e1">>, <<"write_hosts", "e2">>}
CertPlan    == {<<"make_cert", "">>}
RelayPlan   == {<<"file.read", "">>} \cup
               {<<"file.write", x>> : x \in {"large", "huge", "cap", "excess"}}
WindowsPlan == {<<"windows.read", "">>} \cup
               {<<"windows.write", x>> : x \in {"crl", "large", "over"}}

HostsPlans == {HostsPlan}
RelayPlans == {RelayPlan, WindowsPlan}
MCPlans    == {HostsPlan, CertPlan, RelayPlan, WindowsPlan}
=============================================================================
