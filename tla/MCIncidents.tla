---------------------------- MODULE MCIncidents ----------------------------
(* Incidents on small sets. *)
EXTENDS Incidents, TLC

DhcpServices == {"dhcp4", "dhcp6"}
Dhcp4Only == {"dhcp4"}

Alike == Permutations(Servers) \union Permutations(Workers)

=============================================================================
