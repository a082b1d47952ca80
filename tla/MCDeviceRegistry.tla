-------------------------- MODULE MCDeviceRegistry --------------------------
(* The registry of the devices, and the pulls of a device the server reaches *)
(* itself.  They share no row that is modelled: a behaviour is about one of  *)
(* them, the other at rest.                                                  *)
EXTENDS DeviceRegistry, DirectPull, TLC
VARIABLE part

MCSymmetry == Permutations(Employees) \cup Permutations(Numbers) \cup Permutations(Keys)
              \cup Permutations(Ids) \cup Permutations(Pullers)
MCSpans == {[from |-> 1, to |-> 1]}

MCInit == part \in {"registry", "pull"} /\ RegistryInit /\ PullInit
MCNext ==
  /\ UNCHANGED part
  /\ \/ part = "registry" /\ RegistryNext /\ UNCHANGED pullVars
     \/ part = "pull" /\ PullNext /\ UNCHANGED registryVars
MCSpec == MCInit /\ [][MCNext]_<<part, registryVars, pullVars>>
=============================================================================
