------------------------------- MODULE MCScan -------------------------------
(***************************************************************************)
(* Instance of Scan for TLC: both inspectors of the first wave, two of the *)
(* second, and one that does not apply to the source system.               *)
(***************************************************************************)
EXTENDS Scan

Inspectors == {"Rpm", "Services", "Config", "Selinux", "Subscription"}
Ranks == [i \in Inspectors |-> CASE i = "Rpm" -> 1 [] i = "Services" -> 2
            [] i = "Config" -> 3 [] i = "Selinux" -> 4 [] i = "Subscription" -> 5]
=============================================================================
