------------------------ MODULE MetadataStore_proofs ------------------------
(***************************************************************************)
(* Proofs about MetadataStore, for any processes, profiles and settings:   *)
(* its type invariant, the invariant of its lock and of its pending        *)
(* writes, and that it implements ProfileRegistry.                         *)
(***************************************************************************)
EXTENDS MetadataStore, TLAPS

-----------------------------------------------------------------------------
(* What the operators on documents return. *)

\* A new profile carries the default preset, which any engine accepts.
LEMMA NewProfileType ==
    ASSUME NEW n \in Names, NEW e \in EngineValue
    PROVE  NewProfile(n, e) \in Profile
BY DEF NewProfile, Profile, DefaultConfig, Config, EngineValue

\* Mutating a profile keeps the document a document.
LEMMA MutateType ==
    ASSUME NEW d \in Doc, NEW i \in Ids, NEW field, NEW v,
           \A profile \in Profile : [profile EXCEPT ![field] = v] \in Profile
    PROVE  Mutate(d, i, field, v) \in Doc
<1>1. d[i] # NoProfile => d[i] \in Profile
  BY DEF Doc
<1>2. d[i] # NoProfile => [d[i] EXCEPT ![field] = v] \in Profile
  BY <1>1
<1>3. QED
  BY <1>2 DEF Mutate, Doc

\* Every update maps documents to documents.
LEMMA ApplyType ==
    ASSUME NEW u \in Update, NEW d \in Doc
    PROVE  Apply(u, d) \in Doc
<1>1. u.id \in Ids
  BY DEF Update
<1>2. CASE u \in [kind : {"add"}, id : Ids, name : Names, engine : EngineValue]
  <2>1. NewProfile(u.name, u.engine) \in Profile
    BY <1>2, NewProfileType
  <2>2. QED
    BY <1>1, <1>2, <2>1 DEF Apply, Doc
<1>3. CASE u \in [kind : {"remove"}, id : Ids]
  BY <1>1, <1>3 DEF Apply, Doc
<1>4. CASE u \in [kind : {"name"}, id : Ids, value : Names]
  <2>1. \A profile \in Profile : [profile EXCEPT !["name"] = u.value] \in Profile
    BY <1>4 DEF Profile
  <2>2. Mutate(d, u.id, "name", u.value) \in Doc
    BY <1>1, <2>1, MutateType
  <2>3. QED
    BY <1>4, <2>2 DEF Apply
<1>5. CASE u \in [kind : {"engine"}, id : Ids, value : EngineValue]
  <2>1. \A profile \in Profile : [profile EXCEPT !["engine"] = u.value] \in Profile
    BY <1>5 DEF Profile
  <2>2. Mutate(d, u.id, "engine", u.value) \in Doc
    BY <1>1, <2>1, MutateType
  <2>3. QED
    BY <1>5, <2>2 DEF Apply
<1>6. CASE u \in [kind : {"config"}, id : Ids, value : Config]
  <2>1. \A profile \in Profile : [profile EXCEPT !["config"] = u.value] \in Profile
    BY <1>6 DEF Profile
  <2>2. Mutate(d, u.id, "config", u.value) \in Doc
    BY <1>1, <2>1, MutateType
  <2>3. QED
    BY <1>6, <2>2 DEF Apply
<1>7. QED
  BY <1>2, <1>3, <1>4, <1>5, <1>6 DEF Update

\* One edited setting of a preset makes a preset.
LEMMA EditedType ==
    ASSUME NEW c \in Command, c.kind = "edit", NEW profile \in Profile
    PROVE  Edited(profile, c) \in Config
<1>1. profile.config \in Config
  BY DEF Profile
<1>2. CASE c \in [kind : {"edit"}, id : Ids, field : {"engine"}, value : EngineValue]
  BY <1>1, <1>2 DEF Edited, Config
<1>3. CASE c \in [kind : {"edit"}, id : Ids, field : {"browser"}, value : Browsers \cup {None}]
  BY <1>1, <1>3 DEF Edited, Config
<1>4. CASE c \in [kind : {"edit"}, id : Ids, field : {"locale"}, value : Locales \cup {None}]
  BY <1>1, <1>4 DEF Edited, Config
<1>5. QED
  BY <1>2, <1>3, <1>4 DEF Command

\* A command that resolved its profile makes a well-formed update.
LEMMA UpdateOfType ==
    ASSUME NEW c \in Command, c.kind # "create", NEW profile \in Profile
    PROVE  UpdateOf(c, profile) \in Update
<1>1. CASE c.kind = "edit"
  <2>1. c.id \in Ids
    BY DEF Command
  <2>2. QED
    BY <1>1, <2>1, EditedType DEF UpdateOf, Update
<1>2. CASE c \in [kind : {"delete", "reset"}, id : Ids]
  <2>1. DefaultConfig \in Config
    BY DEF DefaultConfig, Config, EngineValue
  <2>2. QED
    BY <1>2, <2>1 DEF UpdateOf, Update
<1>3. CASE c \in [kind : {"rename"}, id : Ids, name : Names]
  BY <1>3 DEF UpdateOf, Update
<1>4. CASE c \in [kind : {"set_engine"}, id : Ids, engine : EngineValue]
  BY <1>4 DEF UpdateOf, Update
<1>5. QED
  BY <1>1, <1>2, <1>3, <1>4 DEF Command

\* The document a file holds is a document, whatever the file.
LEMMA DocOfType ==
    ASSUME NEW file \in File
    PROVE  DocOf(file) \in Doc
BY DEF DocOf, File, EmptyDoc, Doc

\* A file written today is a file, and load_metadata gives its document back.
LEMMA CurrentFileType ==
    ASSUME NEW d \in Doc
    PROVE  CurrentFile(d) \in File \ {NoFile} /\ DocOf(CurrentFile(d)) = d
<1>1. CurrentFile(d) \in [legacy : BOOLEAN, doc : Doc]
  BY DEF CurrentFile
<1>2. CurrentFile(d) # NoFile
  BY <1>1, StoreAssumption
<1>3. DocOf(CurrentFile(d)) = d
  BY <1>2 DEF DocOf, CurrentFile
<1>4. QED
  BY <1>1, <1>2, <1>3 DEF File

-----------------------------------------------------------------------------
(* The inductive invariant. *)

\* Only the holder of the lock is between acquiring and releasing it.
LockHeld == \A p \in Procs : pc[p] \in Critical => lock = p

\* A process that resolves has a command on an existing profile, one that
\* updates has its update.
TaskInHand ==
    \A p \in Procs :
      /\ pc[p] \in {"resolve"} \cup Resolving => cmd[p] \in Command /\ cmd[p].kind # "create"
      /\ pc[p] \in {"update"} \cup Updating => upd[p] \in Update

\* What a process is about to write is its update applied to the file as it is.
CommitReady ==
    \A p \in Procs : pc[p] \in {"backup", "write"} =>
      /\ newdoc[p] = Apply(upd[p], DocOf(primary))
      /\ Appliable(upd[p], DocOf(primary))
      /\ ValidDoc(newdoc[p])

\* What is about to be replaced has just been backed up.
BackupReady == \A p \in Procs : pc[p] \in {"write", "write_legacy"} => backup = primary

\* There is no backup before there is a file.
NoFileNoBackup == primary = NoFile => backup = NoFile

IInv ==
    /\ TypeOK /\ LockHeld /\ TaskInHand /\ CommitReady
    /\ BackupReady /\ NoFileNoBackup
    /\ StoredDocumentValid /\ BackupTrailsPrimary

\* The invariant holds of every data root a session can start from.
LEMMA InitInvariant == Init => IInv
<1>. SUFFICES ASSUME Init PROVE IInv
  OBVIOUS
<1>1. TypeOK
  BY DEF Init, TypeOK, File
<1>2. LockHeld /\ TaskInHand /\ CommitReady /\ BackupReady
  BY DEF Init, LockHeld, TaskInHand, CommitReady, BackupReady,
         Critical, Resolving, Updating
<1>3. QED
  BY <1>1, <1>2 DEF IInv, Init, NoFileNoBackup, StoredDocumentValid, BackupTrailsPrimary

\* A process that gives up its command, with its lock if it has it, preserves
\* the invariant: what a failed or crashed command leaves behind is consistent.
LEMMA ReturnInvariant ==
    ASSUME IInv, NEW p \in Procs, Return(p), UNCHANGED Files,
           lock' = lock \/ (lock = p /\ lock' = Free)
    PROVE  IInv'
<1>. USE DEF Return, Goto, Files
<1>1. TypeOK'
  BY DEF IInv, TypeOK
<1>2. LockHeld'
  BY DEF IInv, TypeOK, LockHeld, Critical, Resolving, Updating
<1>3. TaskInHand'
  BY DEF IInv, TypeOK, TaskInHand, Resolving, Updating
<1>4. CommitReady' /\ BackupReady'
  BY DEF IInv, TypeOK, CommitReady, BackupReady, DocOf
<1>5. QED
  BY <1>1, <1>2, <1>3, <1>4
     DEF IInv, NoFileNoBackup, StoredDocumentValid, BackupTrailsPrimary, DocOf

\* Every step preserves the invariant.
LEMMA StepInvariant == IInv /\ [Next]_vars => IInv'
<1>. SUFFICES ASSUME IInv, [Next]_vars PROVE IInv'
  OBVIOUS
<1>. USE StoreAssumption
<1>1. ASSUME NEW p \in Procs, StartCreate(p) PROVE IInv'
  <2>. USE DEF StartCreate, Goto, Files
  <2>1. PICK c \in Command :
          /\ c.kind = "create"
          /\ cmd' = [cmd EXCEPT ![p] = c]
          /\ upd' = [upd EXCEPT ![p] = AddUpdate(c)]
    BY <1>1
  <2>2. AddUpdate(c) \in Update
    BY <2>1 DEF AddUpdate, Update, Command
  <2>3. TypeOK'
    BY <1>1, <2>1, <2>2 DEF IInv, TypeOK, Waiting
  <2>4. LockHeld' /\ CommitReady' /\ BackupReady'
    BY <1>1, <2>1 DEF IInv, TypeOK, LockHeld, CommitReady, BackupReady,
                      Critical, Resolving, Updating, DocOf
  <2>5. TaskInHand'
    BY <1>1, <2>1, <2>2 DEF IInv, TypeOK, TaskInHand, Resolving, Updating
  <2>6. QED
    BY <1>1, <2>3, <2>4, <2>5
       DEF IInv, NoFileNoBackup, StoredDocumentValid, BackupTrailsPrimary, DocOf
<1>2. ASSUME NEW p \in Procs, StartOther(p) PROVE IInv'
  <2>. USE DEF StartOther, Goto, Files
  <2>1. PICK c \in Command : c.kind # "create" /\ cmd' = [cmd EXCEPT ![p] = c]
    BY <1>2
  <2>2. TypeOK'
    BY <1>2, <2>1 DEF IInv, TypeOK, Waiting
  <2>3. LockHeld' /\ CommitReady' /\ BackupReady'
    BY <1>2, <2>1 DEF IInv, TypeOK, LockHeld, CommitReady, BackupReady,
                      Critical, Resolving, Updating, DocOf
  <2>4. TaskInHand'
    BY <1>2, <2>1 DEF IInv, TypeOK, TaskInHand, Resolving, Updating
  <2>5. QED
    BY <1>2, <2>2, <2>3, <2>4
       DEF IInv, NoFileNoBackup, StoredDocumentValid, BackupTrailsPrimary, DocOf
<1>3. ASSUME NEW p \in Procs, AcquireToResolve(p) \/ AcquireToUpdate(p) PROVE IInv'
  <2>. USE DEF AcquireToResolve, AcquireToUpdate, Acquire, Goto, Files
  <2>1. TypeOK'
    BY <1>3 DEF IInv, TypeOK, Critical, Resolving, Updating
  <2>2. LockHeld'
    BY <1>3 DEF IInv, TypeOK, LockHeld, Critical, Resolving, Updating
  <2>3. TaskInHand'
    BY <1>3 DEF IInv, TypeOK, TaskInHand, Resolving, Updating
  <2>4. CommitReady' /\ BackupReady'
    BY <1>3 DEF IInv, TypeOK, CommitReady, BackupReady, DocOf
  <2>5. QED
    BY <1>3, <2>1, <2>2, <2>3, <2>4
       DEF IInv, NoFileNoBackup, StoredDocumentValid, BackupTrailsPrimary, DocOf
<1>4. ASSUME NEW p \in Procs, LockTimeout(p) PROVE IInv'
  BY <1>4, ReturnInvariant DEF LockTimeout
<1>5. ASSUME NEW p \in Procs, MigrateLegacy(p) PROVE IInv'
  <2>. USE DEF MigrateLegacy, Goto, Files
  <2>1. TypeOK'
    BY <1>5 DEF IInv, TypeOK, Critical, Resolving, Updating
  <2>2. LockHeld' /\ TaskInHand'
    BY <1>5 DEF IInv, TypeOK, LockHeld, TaskInHand, Critical, Resolving, Updating
  <2>3. CommitReady' /\ BackupReady'
    BY <1>5 DEF IInv, TypeOK, CommitReady, BackupReady, DocOf
  <2>4. QED
    BY <1>5, <2>1, <2>2, <2>3
       DEF IInv, NoFileNoBackup, StoredDocumentValid, BackupTrailsPrimary, DocOf
<1>6. ASSUME NEW p \in Procs, Resolve(p) PROVE IInv'
  <2>. DEFINE profile == DocOf(primary)[cmd[p].id]
  <2>1. cmd[p] \in Command /\ cmd[p].kind # "create" /\ cmd[p].id \in Ids
    <3>1. cmd[p] \in Command /\ cmd[p].kind # "create"
      BY <1>6 DEF IInv, TaskInHand, Resolve, Resolving
    <3>2. QED
      BY <3>1 DEF Command
  <2>2. lock = p /\ lock' = Free
    BY <1>6 DEF IInv, LockHeld, Critical, Resolving, Resolve, Release
  <2>3. CASE ValidDoc(DocOf(primary)) /\ profile # NoProfile /\ Accepted(cmd[p], profile)
    <3>1. /\ upd' = [upd EXCEPT ![p] = UpdateOf(cmd[p], profile)]
          /\ pc' = [pc EXCEPT ![p] = "update"]
          /\ UNCHANGED <<Files, cmd, newdoc>>
      BY <1>6, <2>3 DEF Resolve, Goto
    <3>2. UpdateOf(cmd[p], profile) \in Update
      <4>1. DocOf(primary) \in Doc
        BY DocOfType DEF IInv, TypeOK
      <4>2. profile \in Profile
        BY <2>1, <2>3, <4>1 DEF Doc
      <4>3. QED
        BY <2>1, <4>2, UpdateOfType
    <3>. HIDE DEF profile
    <3>3. TypeOK'
      BY <2>2, <3>1, <3>2 DEF IInv, TypeOK, Waiting, Files
    <3>4. LockHeld'
      BY <1>6, <2>2, <3>1 DEF IInv, TypeOK, LockHeld, Critical, Resolving, Updating
    <3>5. TaskInHand'
      BY <3>1, <3>2 DEF IInv, TypeOK, TaskInHand, Resolving, Updating
    <3>6. CommitReady' /\ BackupReady'
      BY <3>1 DEF IInv, TypeOK, CommitReady, BackupReady, DocOf, Files
    <3>7. QED
      BY <3>1, <3>3, <3>4, <3>5, <3>6
         DEF IInv, NoFileNoBackup, StoredDocumentValid, BackupTrailsPrimary, DocOf, Files
  <2>4. CASE ~(ValidDoc(DocOf(primary)) /\ profile # NoProfile /\ Accepted(cmd[p], profile))
    <3>1. Return(p) /\ UNCHANGED Files
      BY <1>6, <2>4 DEF Resolve
    <3>2. QED
      BY <2>2, <3>1, ReturnInvariant
  <2>5. QED
    BY <2>3, <2>4
<1>7. ASSUME NEW p \in Procs, Load(p) PROVE IInv'
  <2>. DEFINE old == DocOf(primary)
              new == Apply(upd[p], old)
  <2>1. lock = p
    BY <1>7 DEF IInv, LockHeld, Critical, Updating, Load
  <2>2. CASE ValidDoc(old) /\ Appliable(upd[p], old) /\ ValidDoc(new) /\ new # old
    <3>1. /\ newdoc' = [newdoc EXCEPT ![p] = new]
          /\ pc' = [pc EXCEPT ![p] = "backup"]
          /\ UNCHANGED <<Files, lock, cmd, upd>>
      BY <1>7, <2>2 DEF Load, Goto
    <3>2. upd[p] \in Update
      BY <1>7 DEF IInv, TaskInHand, Load, Updating
    <3>3. new \in Doc
      BY <3>2, DocOfType, ApplyType DEF IInv, TypeOK
    <3>4. TypeOK'
      <4>. HIDE DEF new
      <4>1. QED
        BY <3>1, <3>3 DEF IInv, TypeOK, Critical, Updating, Files
    <3>5. LockHeld' /\ TaskInHand'
      BY <2>1, <3>1, <3>2
         DEF IInv, TypeOK, LockHeld, TaskInHand, Critical, Resolving, Updating
    <3>6. CommitReady'
      <4>1. DocOf(primary)' = DocOf(primary)
        BY <3>1 DEF DocOf, Files
      <4>2. ASSUME NEW q \in Procs, pc'[q] \in {"backup", "write"}, q # p
            PROVE  newdoc'[q] = newdoc[q] /\ pc[q] \in {"backup", "write"}
        BY <3>1, <4>2 DEF IInv, TypeOK
      <4>3. newdoc'[p] = new
        BY <3>1 DEF IInv, TypeOK
      <4>4. QED
        BY <2>2, <3>1, <4>1, <4>2, <4>3 DEF IInv, CommitReady
    <3>7. BackupReady'
      BY <3>1 DEF IInv, TypeOK, BackupReady, Files
    <3>8. QED
      BY <3>1, <3>4, <3>5, <3>6, <3>7
         DEF IInv, NoFileNoBackup, StoredDocumentValid, BackupTrailsPrimary, DocOf, Files
  <2>3. CASE ~(ValidDoc(old) /\ Appliable(upd[p], old) /\ ValidDoc(new) /\ new # old)
    <3>1. Return(p) /\ Release(p) /\ UNCHANGED Files
      BY <1>7, <2>3 DEF Load
    <3>2. QED
      BY <2>1, <3>1, ReturnInvariant DEF Release
  <2>4. QED
    BY <2>2, <2>3
<1>8. ASSUME NEW p \in Procs, BackupMetadata(p) PROVE IInv'
  <2>. USE DEF BackupMetadata, Goto
  <2>1. TypeOK'
    BY <1>8 DEF IInv, TypeOK, Critical, Resolving, Updating
  <2>2. LockHeld' /\ TaskInHand'
    BY <1>8 DEF IInv, TypeOK, LockHeld, TaskInHand, Critical, Resolving, Updating
  <2>3. CommitReady'
    BY <1>8 DEF IInv, TypeOK, CommitReady, DocOf
  <2>4. backup' = primary /\ primary' = primary
    BY <1>8 DEF IInv, NoFileNoBackup
  <2>5. QED
    BY <1>8, <2>1, <2>2, <2>3, <2>4
       DEF IInv, BackupReady, NoFileNoBackup, StoredDocumentValid, BackupTrailsPrimary, DocOf
<1>9. ASSUME NEW p \in Procs, WriteUpdate(p) PROVE IInv'
  <2>. USE DEF WriteUpdate, ReplacePrimary, Goto
  <2>1. lock = p
    BY <1>9 DEF IInv, LockHeld, Critical, Updating
  <2>2. newdoc[p] \in Doc /\ ValidDoc(newdoc[p])
    <3>1. upd[p] \in Update
      BY <1>9 DEF IInv, TaskInHand, Updating
    <3>2. Apply(upd[p], DocOf(primary)) \in Doc
      BY <3>1, DocOfType, ApplyType DEF IInv, TypeOK
    <3>3. QED
      BY <1>9, <3>2 DEF IInv, CommitReady
  <2>3. primary' \in File /\ DocOf(primary)' = newdoc[p] /\ primary' # NoFile
    <3>1. primary' = CurrentFile(newdoc[p])
      BY <1>9
    <3>2. DocOf(primary)' = DocOf(CurrentFile(newdoc[p]))
      BY <3>1 DEF DocOf
    <3>3. QED
      BY <2>2, <3>1, <3>2, CurrentFileType
  <2>4. TypeOK'
    BY <1>9, <2>3 DEF IInv, TypeOK, Critical, Updating
  <2>5. LockHeld' /\ TaskInHand'
    BY <1>9 DEF IInv, TypeOK, LockHeld, TaskInHand, Critical, Resolving, Updating
  <2>6. \A q \in Procs : pc'[q] \notin {"backup", "write", "write_legacy"}
    BY <1>9, <2>1 DEF IInv, TypeOK, LockHeld, Critical, Resolving, Updating
  <2>7. CommitReady' /\ BackupReady'
    BY <2>6 DEF CommitReady, BackupReady
  <2>8. BackupTrailsPrimary'
    BY <1>9 DEF IInv, BackupReady, BackupTrailsPrimary
  <2>9. QED
    BY <2>2, <2>3, <2>4, <2>5, <2>7, <2>8 DEF IInv, NoFileNoBackup, StoredDocumentValid
<1>10. ASSUME NEW p \in Procs, WriteMigrated(p) PROVE IInv'
  <2>. USE DEF WriteMigrated, ReplacePrimary, Goto
  <2>1. lock = p
    BY <1>10 DEF IInv, LockHeld, Critical, Resolving
  <2>2. primary' \in File /\ DocOf(primary)' = DocOf(primary) /\ primary' # NoFile
    <3>1. DocOf(primary) \in Doc
      BY DocOfType DEF IInv, TypeOK
    <3>2. primary' = CurrentFile(DocOf(primary))
      BY <1>10
    <3>3. DocOf(primary)' = DocOf(CurrentFile(DocOf(primary)))
      BY <3>2 DEF DocOf
    <3>4. QED
      BY <3>1, <3>2, <3>3, CurrentFileType
  <2>3. TypeOK'
    BY <1>10, <2>2 DEF IInv, TypeOK, Critical, Resolving
  <2>4. LockHeld' /\ TaskInHand'
    BY <1>10 DEF IInv, TypeOK, LockHeld, TaskInHand, Critical, Resolving, Updating
  <2>5. \A q \in Procs : pc'[q] \notin {"backup", "write", "write_legacy"}
    BY <1>10, <2>1 DEF IInv, TypeOK, LockHeld, Critical, Resolving, Updating
  <2>6. CommitReady' /\ BackupReady'
    BY <2>5 DEF CommitReady, BackupReady
  <2>7. BackupTrailsPrimary'
    BY <1>10 DEF IInv, BackupReady, BackupTrailsPrimary
  <2>8. QED
    BY <2>2, <2>3, <2>4, <2>6, <2>7 DEF IInv, NoFileNoBackup, StoredDocumentValid
<1>11. ASSUME NEW p \in Procs, WriteFails(p) \/ Unlock(p) \/ Crash(p) PROVE IInv'
  BY <1>11, ReturnInvariant DEF WriteFails, Unlock, Crash, Release
<1>12. CASE UNCHANGED vars
  BY <1>12 DEF vars, IInv, TypeOK, LockHeld, TaskInHand, CommitReady, BackupReady,
               NoFileNoBackup, StoredDocumentValid, BackupTrailsPrimary, DocOf
<1>13. QED
  BY <1>1, <1>2, <1>3, <1>4, <1>5, <1>6, <1>7, <1>8, <1>9, <1>10, <1>11, <1>12
     DEF Next, Progress

\* The inductive invariant holds in every reachable state.
LEMMA Invariant == Spec => []IInv
  BY InitInvariant, StepInvariant, PTL DEF Spec

-----------------------------------------------------------------------------
(* The theorems. *)

\* In every reachable state the files, the lock and the locals of the commands
\* are of their types (storage.py, profile_manager.py).
THEOREM TypeCorrect == Spec => []TypeOK
  BY Invariant, PTL DEF IInv

\* At most one process is between acquiring and releasing the metadata lock.
THEOREM MutualExclusion ==
    Spec => [](\A p, q \in Procs : pc[p] \in Critical /\ pc[q] \in Critical => p = q)
<1>1. IInv => (\A p, q \in Procs : pc[p] \in Critical /\ pc[q] \in Critical => p = q)
  BY DEF IInv, LockHeld
<1>2. QED
  BY <1>1, Invariant, PTL

\* No interleaving, failed write or crash leaves an invalid document in
\* profiles.json (atomic_update_metadata validates what it is about to write).
THEOREM StoredValid == Spec => []StoredDocumentValid
  BY Invariant, PTL DEF IInv

\* profiles.json.bak never falls more than one version behind profiles.json
\* (_backup_metadata runs before every replacement, under the same lock).
THEOREM BackupTrails == Spec => []BackupTrailsPrimary
  BY Invariant, PTL DEF IInv

-----------------------------------------------------------------------------
(* The refinement. *)

\* The registry's operators are the store's own.
LEMMA RegistryOperators ==
    /\ Registry!Update = Update
    /\ Registry!Doc = Doc
    /\ \A d : Registry!ValidDoc(d) <=> ValidDoc(d)
    /\ \A u, d : Registry!Apply(u, d) = Apply(u, d)
    /\ \A u, d : Registry!Appliable(u, d) <=> Appliable(u, d)
BY DEF Update, Registry!Update, Doc, Registry!Doc, Profile, Registry!Profile,
       Config, Registry!Config, EngineValue, Registry!EngineValue,
       ValidDoc, Registry!ValidDoc, ValidConfig, Registry!ValidConfig,
       EffectiveEngine, Registry!EffectiveEngine,
       Apply, Registry!Apply, Mutate, Registry!Mutate,
       NewProfile, Registry!NewProfile, DefaultConfig, Registry!DefaultConfig,
       Appliable, Registry!Appliable

\* Only WriteUpdate changes the registry.
LEMMA OtherStepsStutter ==
    ASSUME IInv, [Next]_vars, \A p \in Procs : ~WriteUpdate(p)
    PROVE  UNCHANGED DocOf(primary)
<1>1. CASE \E p \in Procs : WriteMigrated(p)
  <2>1. DocOf(primary) \in Doc
    BY DocOfType DEF IInv, TypeOK
  <2>2. primary' = CurrentFile(DocOf(primary))
    BY <1>1 DEF WriteMigrated, ReplacePrimary
  <2>3. DocOf(primary)' = DocOf(CurrentFile(DocOf(primary)))
    BY <2>2 DEF DocOf
  <2>4. QED
    BY <2>1, <2>3, CurrentFileType
<1>2. CASE ~ \E p \in Procs : WriteMigrated(p)
  <2>1. UNCHANGED primary
    BY <1>2 DEF Next, Progress, vars, Files, StartCreate, StartOther, AcquireToResolve,
                AcquireToUpdate, LockTimeout, MigrateLegacy, Resolve, Load,
                BackupMetadata, WriteFails, Unlock, Crash
  <2>2. QED
    BY <2>1 DEF DocOf
<1>3. QED
  BY <1>1, <1>2

\* A write is one valid update of the registry as it stands.
LEMMA WriteCommits ==
    ASSUME IInv, NEW p \in Procs, WriteUpdate(p)
    PROVE  Registry!RNext
<1>1. upd[p] \in Update
  BY DEF IInv, TaskInHand, WriteUpdate, Updating
<1>2. /\ newdoc[p] = Apply(upd[p], DocOf(primary))
      /\ Appliable(upd[p], DocOf(primary))
      /\ ValidDoc(newdoc[p])
  BY DEF IInv, CommitReady, WriteUpdate
<1>3. newdoc[p] \in Doc
  BY <1>1, <1>2, DocOfType, ApplyType DEF IInv, TypeOK
<1>4. DocOf(primary)' = newdoc[p]
  <2>1. primary' = CurrentFile(newdoc[p])
    BY DEF WriteUpdate, ReplacePrimary
  <2>2. DocOf(primary)' = DocOf(CurrentFile(newdoc[p]))
    BY <2>1 DEF DocOf
  <2>3. QED
    BY <1>3, <2>2, CurrentFileType
<1>5. Registry!Commit(upd[p])
  BY <1>2, <1>4, RegistryOperators DEF Registry!Commit
<1>6. QED
  BY <1>1, <1>5, RegistryOperators DEF Registry!RNext

\* The store implements the registry: every behaviour of profiles.json under any
\* number of commands, failures and crashes is a sequence of whole valid updates,
\* each applied to the document the one before it left.
THEOREM Refinement == Spec => ImplementsRegistry
<1>1. Init => Registry!RInit
  <2>. SUFFICES ASSUME Init PROVE Registry!RInit
    OBVIOUS
  <2>1. DocOf(primary) \in Doc
    BY DocOfType DEF Init
  <2>2. QED
    BY <2>1, RegistryOperators DEF Init, Registry!RInit
<1>2. IInv /\ [Next]_vars => [Registry!RNext]_(DocOf(primary))
  BY OtherStepsStutter, WriteCommits
<1>3. QED
  BY <1>1, <1>2, Invariant, PTL DEF Spec, ImplementsRegistry, Registry!RSpec

=============================================================================
