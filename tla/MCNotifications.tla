-------------------------- MODULE MCNotifications --------------------------
(* The model-checking instance of Notifications. *)
EXTENDS Notifications, TLC

CONSTANTS cpu, disk, oom

const_Probed == {cpu, disk}
const_Logged == {oom}

Symmetry == Permutations(const_Probed)
=============================================================================
