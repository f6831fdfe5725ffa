-------------------------- MODULE SieveCheckpoint --------------------------
(***************************************************************************)
(* The checkpoint files of a sieving run (src/common/sieve_checkpoint.cpp): *)
(* writeCheckpointAtomic step by step, loadLatestCheckpoint, and what a     *)
(* killed process or a power loss leaves behind.                            *)
(*                                                                          *)
(* Checkpoints are numbered in the order they are written; a file holds     *)
(* checkpoint g, or Absent.  readable is the set of checkpoints whose       *)
(* payload, trailer and footer have all been written: readCheckpoint fails  *)
(* on every other file, because the footer is appended last.  stable is the *)
(* set of checkpoints whose file has been fsynced.                          *)
(*                                                                          *)
(* A killed process loses nothing it has written.  A power loss forgets the *)
(* contents of files not fsynced, and the directory falls back to any state *)
(* it was in since it was last fsynced (renames reach the disk in order).   *)
(***************************************************************************)
EXTENDS Integers

CONSTANTS MaxGen,      \* bound: checkpoints written in all
          MaxFaults    \* bound: failing system calls, kills and power losses

ASSUME MaxGenAssumption == MaxGen \in Nat
ASSUME MaxFaultsAssumption == MaxFaults \in Nat

VARIABLES
  pc,         \* next step of writeCheckpointAtomic; idle between calls; down
  gen,        \* number of the checkpoint being, or last, written
  disk,       \* the directory: which checkpoint each file holds
  versions,   \* directory states a power loss may fall back to
  readable,   \* complete checkpoints
  stable,     \* fsynced checkpoints
  committed,  \* history: last checkpoint reported as written
  durable,    \* history: last checkpoint reported with its directory fsynced
  faults      \* faults so far

vars == <<pc, gen, disk, versions, readable, stable, committed, durable, faults>>

Files == {"live", "tmp", "prev"}
Absent == 0
Gens == 1 .. MaxGen
Steps == {"serialize", "append", "retain", "commit", "sync"}

Init ==
  /\ pc = "idle" /\ gen = 0
  /\ disk = [f \in Files |-> Absent]
  /\ versions = {disk}
  /\ readable = {} /\ stable = {}
  /\ committed = 0 /\ durable = 0
  /\ faults = 0

\* loadLatestCheckpoint: the live file, or else the previous one.
LoadLatest(d, ok) ==
  IF d["live"] \in ok THEN d["live"] ELSE IF d["prev"] \in ok THEN d["prev"] ELSE Absent

Fault == faults < MaxFaults /\ faults' = faults + 1

\* Every change of the directory may or may not survive a power loss.
ChangeDir(d) == disk' = d /\ versions' = versions \cup {d}

\* The call returns false, and the run goes on sieving.
ReturnFalse ==
  /\ Fault
  /\ pc' = "idle"
  /\ UNCHANGED <<gen, committed, durable>>

\* Step 0: a stale tmp is unlinked.
WriteBegin ==
  /\ pc = "idle" /\ gen < MaxGen
  /\ gen' = gen + 1
  /\ ChangeDir([disk EXCEPT !["tmp"] = Absent])
  /\ pc' = "serialize"
  /\ UNCHANGED <<readable, stable, committed, durable, faults>>

\* Step 1: serialize_v2 into tmp; when it fails tmp is there, or not.
Serialize ==
  /\ pc = "serialize"
  /\ \/ /\ ChangeDir([disk EXCEPT !["tmp"] = gen])
        /\ pc' = "append"
        /\ UNCHANGED <<gen, committed, durable, faults>>
     \/ /\ ReturnFalse
        /\ ChangeDir([disk EXCEPT !["tmp"] = gen]) \/ UNCHANGED <<disk, versions>>
  /\ UNCHANGED <<readable, stable>>

\* Mutants of step 2: no fsync at all, and an fsync before the tail is written.
AppendAndSync_NoSync ==
  /\ pc = "append"
  /\ readable' = readable \cup {gen}
  /\ pc' = "retain"
  /\ UNCHANGED <<gen, disk, versions, stable, committed, durable, faults>>

\* Step 2: trailer, cluster block and footer are appended, and tmp is fsynced.
\* When the fsync fails the file is complete all the same.
AppendAndSync ==
  /\ pc = "append"
  /\ \/ /\ readable' = readable \cup {gen} /\ stable' = stable \cup {gen}
        /\ pc' = "retain"
        /\ UNCHANGED <<gen, committed, durable, faults>>
     \/ /\ ReturnFalse
        /\ readable' \in {readable, readable \cup {gen}}
        /\ UNCHANGED stable
  /\ UNCHANGED <<disk, versions>>

\* Mutant of step 3a: the old file is removed instead of renamed.
Retain_Unlink ==
  /\ pc = "retain"
  /\ ChangeDir([disk EXCEPT !["live"] = Absent])
  /\ pc' = "commit"
  /\ UNCHANGED <<gen, readable, stable, committed, durable, faults>>

\* Step 3a: live becomes prev; a failing rename is only logged.
Retain ==
  /\ pc = "retain"
  /\ \/ /\ disk["live"] # Absent
        /\ ChangeDir([disk EXCEPT !["prev"] = disk["live"], !["live"] = Absent])
        /\ UNCHANGED faults
     \/ /\ disk["live"] # Absent
        /\ Fault
        /\ UNCHANGED <<disk, versions>>
     \/ /\ disk["live"] = Absent
        /\ UNCHANGED <<disk, versions, faults>>
  /\ pc' = "commit"
  /\ UNCHANGED <<gen, readable, stable, committed, durable>>

\* Step 3b: tmp becomes live.
Commit ==
  /\ pc = "commit"
  /\ \/ /\ ChangeDir([disk EXCEPT !["live"] = disk["tmp"], !["tmp"] = Absent])
        /\ pc' = "sync"
        /\ UNCHANGED <<gen, committed, durable, faults>>
     \/ ReturnFalse /\ UNCHANGED <<disk, versions>>
  /\ UNCHANGED <<readable, stable>>

\* Step 4: the directory is fsynced; its result is not looked at.
SyncDir ==
  /\ pc = "sync"
  /\ committed' = gen
  /\ \/ versions' = {disk} /\ durable' = gen /\ UNCHANGED faults
     \/ Fault /\ UNCHANGED <<versions, durable>>
  /\ pc' = "idle"
  /\ UNCHANGED <<gen, disk, readable, stable>>

\* The process is killed, between any two steps.
Kill ==
  /\ pc # "down" /\ Fault
  /\ pc' = "down"
  /\ UNCHANGED <<gen, disk, versions, readable, stable, committed, durable>>

\* The node loses power.  From then on, what the disk holds counts.
PowerLoss ==
  /\ pc # "down" /\ Fault
  /\ pc' = "down"
  /\ disk' \in versions
  /\ versions' = {disk'}
  /\ \E kept \in SUBSET (readable \ stable) : readable' = stable \cup kept
  /\ stable' = readable'
  /\ committed' = durable
  /\ UNCHANGED <<gen, durable>>

\* Resubmission with --resume; numbering goes on.
Restart ==
  /\ pc = "down"
  /\ pc' = "idle"
  /\ UNCHANGED <<gen, disk, versions, readable, stable, committed, durable, faults>>

Next ==
  \/ WriteBegin \/ Serialize \/ AppendAndSync \/ Retain \/ Commit \/ SyncDir
  \/ Kill \/ PowerLoss \/ Restart

Spec == Init /\ [][Next]_vars

-----------------------------------------------------------------------------
(* Type correctness; what is fsynced is complete. *)
TypeOK ==
  /\ pc \in Steps \cup {"idle", "down"}
  /\ gen \in 0 .. MaxGen
  /\ disk \in [Files -> 0 .. gen] /\ disk \in versions
  /\ versions \subseteq [Files -> 0 .. gen]
  /\ stable \subseteq readable /\ readable \subseteq 1 .. gen
  /\ committed \in 0 .. gen /\ durable \in 0 .. committed
  /\ faults \in 0 .. MaxFaults

(* However a write is cut short or fails, before or after others that failed
   too, loadLatestCheckpoint finds a checkpoint at least as new as the last
   one writeCheckpointAtomic reported as written. *)
NeverOlder == LoadLatest(disk, readable) >= committed

(* The same across a power loss at this very moment, for checkpoints whose
   directory was fsynced: tmp is fsynced before it gets a name that counts. *)
PowerSafe == \A d \in versions : LoadLatest(d, stable) >= durable
=============================================================================
