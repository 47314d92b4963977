---------------------------- MODULE MCSyncCycle ----------------------------
(***************************************************************************)
(* Instances of SyncCycle for TLC.                                         *)
(***************************************************************************)
EXTENDS SyncCycle, TLC

(* The defaults of application/settings, with a one-tick grace period. *)
Default ==
  [policy |-> "adopt_and_manage", grace |-> 1, immediate |-> FALSE, preserveRoots |-> FALSE,
   maxDeletions |-> 1, ratio |-> 0, allowMass |-> FALSE,
   dryRun |-> FALSE, persist |-> FALSE, configured |-> TRUE]

Strict    == [Default EXCEPT !.policy = "strict_tagged_only", !.preserveRoots = TRUE]
Immediate == [Default EXCEPT !.immediate = TRUE, !.allowMass = TRUE]
Legacy    == [Default EXCEPT !.policy = "legacy_unrestricted"]
Persisted == [Default EXCEPT !.persist = TRUE]
Rehearsal == [Persisted EXCEPT !.dryRun = TRUE]
NoToken   == [Default EXCEPT !.configured = FALSE]
Roomy     == [Default EXCEPT !.maxDeletions = Cardinality(Hosts)]

const_Faults    == {Default, Immediate, Persisted}
const_Edits     == {Default, Strict, Legacy, Rehearsal, NoToken}
const_Roomy     == {Roomy}
const_Persisted == {Persisted}

(* An untagged record on the tunnel, another tunnel's, a manual record     *)
(* elsewhere, and a record that is no CNAME.                               *)
Untagged == [OwnedRecord EXCEPT !.comment = "plain"]
Foreign  == [OwnedRecord EXCEPT !.comment = "foreign"]
Manual   == [Untagged EXCEPT !.content = "elsewhere"]
Address  == [Manual EXCEPT !.type = "other"]

const_EditRecords == {Untagged, Foreign, Manual, Address}

HostSymmetry == Permutations(Hosts)
=============================================================================
