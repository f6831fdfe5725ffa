----------------------- MODULE SieveCheckpointProofs -----------------------
(***************************************************************************)
(* Proofs about SieveCheckpoint: however many checkpoints are written and   *)
(* however many faults, kills and power losses there are, a checkpoint once *)
(* reported as written is never lost to an older one.                       *)
(*                                                                          *)
(* The invariant that carries the proof: in every directory state a power   *)
(* loss may fall back to, the files named live and prev are fsynced, and    *)
(* the newest of them is at least as new as the last durable checkpoint.    *)
(***************************************************************************)
EXTENDS SieveCheckpoint, TLAPS

\* What a load returns when every named file is complete.
Newest(d) == IF d["live"] # Absent THEN d["live"] ELSE d["prev"]

\* Files under the two names that count have been fsynced.
NamedStable == \A d \in versions : d["live"] \in stable \cup {Absent}
                                /\ d["prev"] \in stable \cup {Absent}

\* Where the file being written is, and how far it is.
WriterState ==
  /\ pc \in Steps => gen > 0
  /\ pc \in {"append", "retain", "commit"} => disk["tmp"] = gen
  /\ pc \in {"retain", "commit", "sync"} => gen \in stable
  /\ pc = "sync" => disk["live"] = gen

NewestKept ==
  /\ Newest(disk) >= committed
  /\ \A d \in versions : Newest(d) >= durable

IInv == TypeOK /\ NamedStable /\ WriterState /\ NewestKept

\* The initial directory is empty and nothing has been reported.
LEMMA InitIInv == Init => IInv
BY MaxGenAssumption, MaxFaultsAssumption
   DEF Init, IInv, TypeOK, NamedStable, WriterState, NewestKept, Newest, Files, Absent, Steps

\* A change of the directory keeps the invariants on directories when the new
\* state has them.
LEMMA ChangeDirKeeps ==
  ASSUME NEW d \in [Files -> 0 .. gen'], TypeOK, NamedStable, NewestKept, ChangeDir(d),
         gen' \in Nat, gen <= gen', gen \in Nat, stable \subseteq stable',
         durable' = durable, committed' = committed,
         d["live"] \in stable' \cup {Absent}, d["prev"] \in stable' \cup {Absent},
         Newest(d) >= committed
  PROVE  /\ disk' \in [Files -> 0 .. gen'] /\ disk' \in versions'
         /\ versions' \subseteq [Files -> 0 .. gen']
         /\ NamedStable' /\ NewestKept'
<1>1. disk' = d /\ versions' = versions \cup {d}
  BY DEF ChangeDir
<1>2. versions \subseteq [Files -> 0 .. gen']
  BY DEF TypeOK
<1>3. NamedStable'
  BY <1>1 DEF NamedStable
<1>4. NewestKept'
  <2>1. durable <= committed /\ durable \in Nat /\ committed \in Nat
    BY DEF TypeOK
  <2>2. Newest(d) \in Nat
    BY DEF Newest, Files
  <2>3. Newest(d) >= durable
    BY <2>1, <2>2
  <2>4. \A e \in versions' : Newest(e) >= durable'
    BY <1>1, <2>3 DEF NewestKept
  <2>5. Newest(disk') >= committed'
    BY <1>1
  <2> QED BY <2>4, <2>5 DEF NewestKept, Newest
<1> QED BY <1>1, <1>2, <1>3, <1>4

\* The numbers the steps below compute with.
LEMMA IInvFacts ==
  IInv => /\ gen \in Nat /\ gen <= MaxGen /\ MaxGen \in Nat /\ MaxFaults \in Nat
          /\ committed \in Nat /\ durable \in Nat /\ committed <= gen /\ durable <= committed
          /\ disk \in [Files -> 0 .. gen] /\ disk["live"] \in 0 .. gen
          /\ disk["prev"] \in 0 .. gen /\ disk["tmp"] \in 0 .. gen
          /\ disk["live"] \in stable \cup {Absent} /\ disk["prev"] \in stable \cup {Absent}
          /\ Newest(disk) >= committed /\ faults \in 0 .. MaxFaults
BY MaxGenAssumption, MaxFaultsAssumption DEF IInv, TypeOK, NamedStable, NewestKept, Files

\* Unlinking a stale tmp.
LEMMA WriteBeginIInv == IInv /\ WriteBegin => IInv'
<1> SUFFICES ASSUME IInv, WriteBegin PROVE IInv'
  OBVIOUS
<1> DEFINE d == [disk EXCEPT !["tmp"] = Absent]
<1>1. gen' = gen + 1 /\ ChangeDir(d) /\ pc' = "serialize" /\ gen < MaxGen
      /\ UNCHANGED <<readable, stable, committed, durable, faults>>
  BY DEF WriteBegin
<1>2. d \in [Files -> 0 .. gen'] /\ d["live"] = disk["live"] /\ d["prev"] = disk["prev"]
  BY <1>1, IInvFacts DEF Files, Absent
<1>3. Newest(d) = Newest(disk)
  BY <1>2 DEF Newest
<1> HIDE DEF d
<1>4. /\ disk' \in [Files -> 0 .. gen'] /\ disk' \in versions'
      /\ versions' \subseteq [Files -> 0 .. gen'] /\ NamedStable' /\ NewestKept'
  BY <1>1, <1>2, <1>3, IInvFacts, ChangeDirKeeps DEF IInv
<1>5. TypeOK'
  BY <1>1, <1>4, IInvFacts DEF IInv, TypeOK, Steps
<1>6. WriterState'
  BY <1>1, IInvFacts DEF WriterState
<1> QED BY <1>4, <1>5, <1>6 DEF IInv

\* Writing the payload into tmp, completely or not.
LEMMA SerializeIInv == IInv /\ Serialize => IInv'
<1> SUFFICES ASSUME IInv, Serialize PROVE IInv'
  OBVIOUS
<1> DEFINE d == [disk EXCEPT !["tmp"] = gen]
<1>1. gen' = gen /\ UNCHANGED <<readable, stable, committed, durable>> /\ pc = "serialize"
      /\ pc' \in {"append", "idle"} /\ faults' \in 0 .. MaxFaults
      /\ (pc' = "append" => ChangeDir(d))
  BY IInvFacts DEF Serialize, ReturnFalse, Fault
<1>2. ChangeDir(d) \/ UNCHANGED <<disk, versions>>
  BY DEF Serialize
<1>3. d \in [Files -> 0 .. gen'] /\ d["live"] = disk["live"] /\ d["prev"] = disk["prev"]
      /\ d["tmp"] = gen
  BY <1>1, IInvFacts DEF Files
<1>4. Newest(d) = Newest(disk)
  BY <1>3 DEF Newest
<1>5. pc' = "append" => disk'["tmp"] = gen
  BY <1>1, <1>3 DEF ChangeDir
<1>6. /\ disk' \in [Files -> 0 .. gen'] /\ disk' \in versions'
      /\ versions' \subseteq [Files -> 0 .. gen'] /\ NamedStable' /\ NewestKept'
  <2>1. CASE ChangeDir(d)
    <3> HIDE DEF d
    <3> QED BY <2>1, <1>1, <1>3, <1>4, IInvFacts, ChangeDirKeeps DEF IInv
  <2>2. CASE UNCHANGED <<disk, versions>>
    BY <2>2, <1>1 DEF IInv, TypeOK, NamedStable, NewestKept, Newest
  <2> QED BY <1>2, <2>1, <2>2
<1>7. TypeOK'
  BY <1>1, <1>6, IInvFacts DEF IInv, TypeOK, Steps
<1>8. WriterState'
  BY <1>1, <1>5 DEF IInv, WriterState, Steps
<1> QED BY <1>6, <1>7, <1>8 DEF IInv

\* Appending the tail: the file becomes complete, then stable.
LEMMA AppendIInv == IInv /\ AppendAndSync => IInv'
<1> SUFFICES ASSUME IInv, AppendAndSync PROVE IInv'
  OBVIOUS
<1>1. gen' = gen /\ UNCHANGED <<disk, versions, committed, durable>> /\ pc = "append"
      /\ faults' \in 0 .. MaxFaults
  BY IInvFacts DEF AppendAndSync, ReturnFalse, Fault
<1>2. \/ pc' = "idle" /\ stable' = stable /\ readable' \in {readable, readable \cup {gen}}
      \/ pc' = "retain" /\ stable' = stable \cup {gen} /\ readable' = readable \cup {gen}
  BY DEF AppendAndSync, ReturnFalse
<1>3. disk["tmp"] = gen
  BY <1>1 DEF IInv, WriterState
<1>4. gen \in 1 .. gen
  BY <1>1, IInvFacts DEF IInv, TypeOK, WriterState, Steps
<1>5. TypeOK'
  BY <1>1, <1>2, <1>4, IInvFacts DEF IInv, TypeOK, Steps
<1>6. NamedStable'
  BY <1>1, <1>2 DEF IInv, NamedStable
<1>7. WriterState'
  BY <1>1, <1>2, <1>3 DEF IInv, WriterState, Steps
<1>8. NewestKept'
  BY <1>1 DEF IInv, NewestKept, Newest
<1> QED BY <1>5, <1>6, <1>7, <1>8 DEF IInv

\* Renaming live to prev: what a load finds does not change.
LEMMA RetainIInv == IInv /\ Retain => IInv'
<1> SUFFICES ASSUME IInv, Retain PROVE IInv'
  OBVIOUS
<1> DEFINE d == [disk EXCEPT !["prev"] = disk["live"], !["live"] = Absent]
<1>1. gen' = gen /\ UNCHANGED <<readable, stable, committed, durable>> /\ pc = "retain"
      /\ pc' = "commit" /\ faults' \in 0 .. MaxFaults
  BY IInvFacts DEF Retain, Fault
<1>2. (ChangeDir(d) /\ disk["live"] # Absent) \/ UNCHANGED <<disk, versions>>
  BY DEF Retain
<1>3. d \in [Files -> 0 .. gen'] /\ d["live"] = Absent /\ d["prev"] = disk["live"]
      /\ d["tmp"] = disk["tmp"]
  BY <1>1, IInvFacts DEF Files, Absent
<1>4. disk["live"] # Absent => Newest(d) = Newest(disk)
  BY <1>3 DEF Newest
<1>5. disk["tmp"] = gen /\ gen \in stable /\ gen > 0
  BY <1>1 DEF IInv, WriterState, Steps
<1>6. disk'["tmp"] = gen
  BY <1>2, <1>3, <1>5 DEF ChangeDir
<1>7. /\ disk' \in [Files -> 0 .. gen'] /\ disk' \in versions'
      /\ versions' \subseteq [Files -> 0 .. gen'] /\ NamedStable' /\ NewestKept'
  <2>1. CASE ChangeDir(d) /\ disk["live"] # Absent
    <3> HIDE DEF d
    <3> QED BY <2>1, <1>1, <1>3, <1>4, IInvFacts, ChangeDirKeeps DEF IInv
  <2>2. CASE UNCHANGED <<disk, versions>>
    BY <2>2, <1>1 DEF IInv, TypeOK, NamedStable, NewestKept, Newest
  <2> QED BY <1>2, <2>1, <2>2
<1>8. TypeOK'
  BY <1>1, <1>7, IInvFacts DEF IInv, TypeOK, Steps
<1>9. WriterState'
  BY <1>1, <1>5, <1>6 DEF WriterState
<1> QED BY <1>7, <1>8, <1>9 DEF IInv

\* Renaming tmp to live: the new checkpoint is stable, and newer than any.
LEMMA CommitIInv == IInv /\ Commit => IInv'
<1> SUFFICES ASSUME IInv, Commit PROVE IInv'
  OBVIOUS
<1> DEFINE d == [disk EXCEPT !["live"] = disk["tmp"], !["tmp"] = Absent]
<1>1. gen' = gen /\ UNCHANGED <<readable, stable, committed, durable>> /\ pc = "commit"
      /\ faults' \in 0 .. MaxFaults
  BY IInvFacts DEF Commit, ReturnFalse, Fault
<1>2. \/ ChangeDir(d) /\ pc' = "sync"
      \/ UNCHANGED <<disk, versions>> /\ pc' = "idle"
  BY DEF Commit, ReturnFalse
<1>3. disk["tmp"] = gen /\ gen \in stable /\ gen > 0
  BY <1>1 DEF IInv, WriterState, Steps
<1>4. d \in [Files -> 0 .. gen'] /\ d["live"] = gen /\ d["prev"] = disk["prev"]
  BY <1>1, <1>3, IInvFacts DEF Files, Absent
<1>5. Newest(d) = gen
  BY <1>3, <1>4 DEF Newest, Absent
<1>6. pc' = "sync" => disk'["live"] = gen
  BY <1>2, <1>4 DEF ChangeDir
<1>7. /\ disk' \in [Files -> 0 .. gen'] /\ disk' \in versions'
      /\ versions' \subseteq [Files -> 0 .. gen'] /\ NamedStable' /\ NewestKept'
  <2>1. CASE ChangeDir(d)
    <3> HIDE DEF d
    <3>1. Newest(d) >= committed
      BY <1>5, IInvFacts
    <3> QED BY <2>1, <3>1, <1>1, <1>3, <1>4, IInvFacts, ChangeDirKeeps DEF IInv
  <2>2. CASE UNCHANGED <<disk, versions>>
    BY <2>2, <1>1 DEF IInv, TypeOK, NamedStable, NewestKept, Newest
  <2> QED BY <1>2, <2>1, <2>2
<1>8. TypeOK'
  BY <1>1, <1>2, <1>7, IInvFacts DEF IInv, TypeOK, Steps
<1>9. WriterState'
  BY <1>1, <1>2, <1>3, <1>6 DEF WriterState, Steps
<1> QED BY <1>7, <1>8, <1>9 DEF IInv

\* The call returns true: live is the checkpoint it reports.
LEMMA SyncIInv == IInv /\ SyncDir => IInv'
<1> SUFFICES ASSUME IInv, SyncDir PROVE IInv'
  OBVIOUS
<1>1. UNCHANGED <<gen, disk, readable, stable>> /\ pc = "sync" /\ pc' = "idle" /\ committed' = gen
      /\ faults' \in 0 .. MaxFaults
  BY IInvFacts DEF SyncDir, Fault
<1>2. (versions' = {disk} /\ durable' = gen) \/ UNCHANGED <<versions, durable>>
  BY DEF SyncDir
<1>3. disk["live"] = gen /\ gen > 0
  BY <1>1 DEF IInv, WriterState, Steps
<1>4. Newest(disk) = gen
  BY <1>3 DEF Newest, Absent
<1>5. TypeOK'
  BY <1>1, <1>2, IInvFacts DEF IInv, TypeOK, Steps
<1>6. NamedStable'
  BY <1>1, <1>2, IInvFacts DEF IInv, NamedStable
<1>7. WriterState'
  BY <1>1 DEF WriterState, Steps
<1>8. NewestKept'
  <2>1. Newest(disk') = gen
    BY <1>1, <1>4 DEF Newest
  <2>2. \A e \in versions' : Newest(e) >= durable'
    BY <1>2, <1>4, IInvFacts DEF IInv, NewestKept
  <2> QED BY <2>1, <2>2, <1>1, IInvFacts DEF NewestKept, Newest
<1> QED BY <1>5, <1>6, <1>7, <1>8 DEF IInv

\* A power loss falls back to a directory in which every named file is stable.
LEMMA PowerLossIInv == IInv /\ PowerLoss => IInv'
<1> SUFFICES ASSUME IInv, PowerLoss PROVE IInv'
  OBVIOUS
<1>1. UNCHANGED <<gen, durable>> /\ pc' = "down" /\ committed' = durable
      /\ disk' \in versions /\ versions' = {disk'} /\ stable' = readable'
      /\ faults' \in 0 .. MaxFaults
  BY IInvFacts DEF PowerLoss, Fault
<1>2. stable \subseteq readable' /\ readable' \subseteq readable
  BY DEF PowerLoss, IInv, TypeOK
<1>3. TypeOK'
  BY <1>1, <1>2, IInvFacts DEF IInv, TypeOK
<1>4. NamedStable'
  BY <1>1, <1>2 DEF IInv, NamedStable
<1>5. WriterState'
  BY <1>1 DEF WriterState, Steps
<1>6. NewestKept'
  <2>1. Newest(disk') >= durable
    BY <1>1 DEF IInv, NewestKept
  <2> QED BY <2>1, <1>1 DEF NewestKept, Newest
<1> QED BY <1>3, <1>4, <1>5, <1>6 DEF IInv

\* Kill, Restart and stuttering leave files and reports alone.
LEMMA QuietIInv == IInv /\ (Kill \/ Restart \/ UNCHANGED vars) => IInv'
<1> SUFFICES ASSUME IInv, Kill \/ Restart \/ UNCHANGED vars PROVE IInv'
  OBVIOUS
<1>1. UNCHANGED <<gen, disk, versions, readable, stable, committed, durable>>
      /\ (pc' = pc \/ pc' \in {"down", "idle"}) /\ faults' \in 0 .. MaxFaults
  BY IInvFacts DEF Kill, Restart, vars, Fault
<1>2. TypeOK'
  BY <1>1 DEF IInv, TypeOK
<1>3. NamedStable' /\ NewestKept'
  BY <1>1 DEF IInv, NamedStable, NewestKept, Newest
<1>4. WriterState'
  BY <1>1 DEF IInv, WriterState, Steps
<1> QED BY <1>2, <1>3, <1>4 DEF IInv

\* The invariant holds throughout: every step of writeCheckpointAtomic, every
\* failure of one, every kill and every power loss preserves it.
THEOREM CheckpointInvariant == Spec => []IInv
<1>1. Init => IInv
  BY InitIInv
<1>2. IInv /\ [Next]_vars => IInv'
  BY WriteBeginIInv, SerializeIInv, AppendIInv, RetainIInv, CommitIInv, SyncIInv,
     PowerLossIInv, QuietIInv DEF Next
<1> QED BY <1>1, <1>2, PTL DEF Spec

\* Type correctness, for every number of checkpoints and faults.
THEOREM CheckpointTypeOK == Spec => []TypeOK
<1>1. IInv => TypeOK
  BY DEF IInv
<1> QED BY <1>1, CheckpointInvariant, PTL

\* A load returns the newest named file, since named files are complete.
LEMMA LoadIsNewest ==
  ASSUME IInv, NEW d \in versions, NEW ok, stable \subseteq ok, 0 \notin ok
  PROVE  LoadLatest(d, ok) = Newest(d)
BY DEF IInv, NamedStable, LoadLatest, Newest, Absent

\* loadLatestCheckpoint never finds an older checkpoint than the last one
\* writeCheckpointAtomic reported as written.
THEOREM CheckpointNeverOlder == Spec => []NeverOlder
<1>1. IInv => NeverOlder
  <2> SUFFICES ASSUME IInv PROVE NeverOlder
    OBVIOUS
  <2>1. disk \in versions /\ stable \subseteq readable /\ 0 \notin readable
    BY DEF IInv, TypeOK
  <2>2. LoadLatest(disk, readable) = Newest(disk)
    BY <2>1, LoadIsNewest
  <2> QED BY <2>2, IInvFacts DEF NeverOlder
<1> QED BY <1>1, CheckpointInvariant, PTL

\* The same across a power loss, for checkpoints whose directory was fsynced.
THEOREM CheckpointPowerSafe == Spec => []PowerSafe
<1>1. IInv => PowerSafe
  <2> SUFFICES ASSUME IInv, NEW d \in versions PROVE LoadLatest(d, stable) >= durable
    BY DEF PowerSafe
  <2>1. 0 \notin stable
    BY DEF IInv, TypeOK
  <2>2. LoadLatest(d, stable) = Newest(d)
    BY <2>1, LoadIsNewest
  <2> QED BY <2>2 DEF IInv, NewestKept
<1> QED BY <1>1, CheckpointInvariant, PTL
=============================================================================
