---------------------------- MODULE StoreRecovery ----------------------------
(***************************************************************************)
(* Opening, quarantining and rebuilding the SDK's SQLite store:            *)
(* SqliteStore::open, initialization.rs, files.rs, migrations.rs and       *)
(* recovery.rs.                                                            *)
(*                                                                         *)
(* The account directory holds the active directory, the quarantines and   *)
(* two marker files, initialized and RECOVERY.  The root lock admits one   *)
(* owner, so one call runs at a time, but the process may be killed, or an *)
(* I/O call may fail, between any two file operations.  A marker is        *)
(* created first and written afterwards; Torn is a marker without content. *)
(*                                                                         *)
(* A committed database is known by its instance, a number in the order of *)
(* creation; 0 stands for a database file that is missing, short or        *)
(* without schema.                                                         *)
(***************************************************************************)
EXTENDS Naturals, FiniteSets

CONSTANTS
  Account,
  Name,          \* names the host gives to quarantines
  NoDir,         \* a directory that does not exist
  Absent,        \* a marker that does not exist
  Torn,          \* a marker that was created but not written
  Legacy,        \* the generic marker of the first release
  NoAccount,
  MaxInstances,  \* bound: databases ever created
  MaxDiskFaults  \* bound: kills, lost or damaged files

Instance == 1 .. MaxInstances
Directory == [db : 0 .. MaxInstances,
              next : Instance \cup {Absent, Torn},
              rnext : Name \cup {Absent, Torn}]

ASSUME RecoveryAssumption ==
  /\ MaxInstances \in Nat \ {0}
  /\ MaxDiskFaults \in Nat
  /\ Cardinality({NoDir, Absent, Torn, Legacy}) = 4
  /\ NoAccount \notin Account
  /\ {Absent, Torn} \cap Name = {}
  /\ NoDir \notin Directory

VARIABLES
  active,       \* the active directory: db, initialized.next and recovery.next
  quarantined,  \* the directory quarantine-<name> of each name
  initialized,  \* the initialized marker: the instance it binds
  recovery,     \* the RECOVERY marker: the quarantine it names
  owner,        \* store_metadata.account of each instance
  flagged,      \* the instances with recovery_required
  damaged,      \* the instances that fail quick_check
  lost,         \* the instances that were deleted from outside
  lock,         \* the root lock: the call that owns it, and where that is
  result,       \* the last call that returned
  cut,          \* the quarantine call that was killed and has not returned since
  diskFaults

disk == <<active, quarantined, initialized, recovery>>
store == <<owner, flagged, damaged, lost>>
storeVars == <<disk, store, lock, result, cut, diskFaults>>

Created == {i \in Instance : owner[i] # NoAccount}

Idle == [pc |-> "idle", op |-> "none", arg |-> Absent]

StoreInit ==
  /\ active = NoDir
  /\ quarantined = [n \in Name |-> NoDir]
  /\ initialized = Absent
  /\ recovery = Absent
  /\ owner = [i \in Instance |-> NoAccount]
  /\ flagged = {}
  /\ damaged = {}
  /\ lost = {}
  /\ lock = Idle
  /\ result = [op |-> "none", arg |-> Absent, code |-> "ok"]
  /\ cut = Absent
  /\ diskFaults = 0

------------------------------------------------------------------------------
Proceed(pc) == lock' = [lock EXCEPT !.pc = pc]

\* The call returns; the quarantine it resumed is not cut off any more.
Answer(code) ==
  /\ lock' = IF code = "ok" /\ lock.op # "quarantine" THEN [lock EXCEPT !.pc = "open"] ELSE Idle
  /\ result' = [op |-> lock.op, arg |-> lock.arg, code |-> code]
  /\ cut' = IF code = "ok" /\ lock.op = "quarantine" THEN Absent ELSE cut
  /\ UNCHANGED <<store, diskFaults>>

Keep == UNCHANGED <<store, result, cut, diskFaults>>

\* open, quarantine and rebuild take the root lock.
Start(op, arg, pc) ==
  /\ lock = Idle
  /\ lock' = [pc |-> pc, op |-> op, arg |-> arg]
  /\ UNCHANGED <<disk, store, result, cut, diskFaults>>

\* The bound: a call that could create a database finds an unused instance.
Spare == active # NoDir \/ Created # Instance

CallOpen(a) == Spare /\ Start("open", a, "open_root")
CallQuarantine(n) == Start("quarantine", n, "mark")
CallRebuild(a) == Spare /\ Start("rebuild", a, "find")

------------------------------------------------------------------------------
(* Opening. *)

\* open refuses while a recovery is pending.
OpenRoot ==
  /\ lock.pc = "open_root"
  /\ IF recovery # Absent
     THEN Answer("RecoveryRequired") /\ UNCHANGED disk
     ELSE Proceed("prepare") /\ UNCHANGED disk /\ Keep

\* The identity of the initialized marker; a generic one has none.
Bound == initialized \notin {Absent, Legacy}

\* An absent active directory may be created: there never was a store, or this is a rebuild.
MayCreate == initialized = Absent \/ lock.op = "rebuild"

\* initialization::prepare
Prepare ==
  /\ lock.pc = "prepare"
  /\ IF Bound /\ owner[initialized] # lock.arg
     THEN Answer("StaleGeneration") /\ UNCHANGED disk
     ELSE IF active # NoDir
     THEN IF active.db = 0
          THEN Answer("RecoveryRequired") /\ UNCHANGED disk
          ELSE Proceed("check") /\ UNCHANGED disk /\ Keep
     ELSE IF ~MayCreate
     THEN Answer("RecoveryRequired") /\ UNCHANGED disk
     ELSE /\ active' = [db |-> 0, next |-> Absent, rnext |-> Absent]
          /\ Proceed("migrate")
          /\ UNCHANGED <<quarantined, initialized, recovery>> /\ Keep

\* open_locked on a database that exists, and the owner check of migrations::apply.
Check ==
  /\ lock.pc = "check"
  /\ UNCHANGED disk
  /\ IF active.db \in damaged THEN Answer("Corrupt")
     ELSE IF owner[active.db] # lock.arg THEN Answer("StaleGeneration")
     ELSE IF Bound /\ lock.op = "open" /\ active.db # initialized THEN Answer("RecoveryRequired")
     ELSE Proceed("publish") /\ Keep

\* migrations::apply creates the schema and a new instance in one transaction.
Migrate ==
  /\ lock.pc = "migrate"
  /\ \E i \in Instance \ Created :
       /\ \A j \in Instance \ Created : i <= j
       /\ active' = [active EXCEPT !.db = i]
       /\ owner' = [owner EXCEPT ![i] = lock.arg]
       /\ flagged' = IF lock.op = "rebuild" THEN flagged \cup {i} ELSE flagged
  /\ Proceed("publish")
  /\ UNCHANGED <<quarantined, initialized, recovery, damaged, lost, result, cut, diskFaults>>

\* initialization::publish: replace_marker by way of active/initialized.next.
PublishMarker ==
  /\ lock.pc = "publish"
  /\ IF initialized = active.db THEN Proceed("opened") /\ UNCHANGED disk /\ Keep
     ELSE IF active.next = active.db THEN Proceed("bind") /\ UNCHANGED disk /\ Keep
     ELSE IF active.next # Absent THEN Answer("RecoveryRequired") /\ UNCHANGED disk
     ELSE /\ active' = [active EXCEPT !.next = Torn]
          /\ Proceed("write_next")
          /\ UNCHANGED <<quarantined, initialized, recovery>> /\ Keep

WriteNext ==
  /\ lock.pc = "write_next"
  /\ active' = [active EXCEPT !.next = active.db]
  /\ Proceed("bind")
  /\ UNCHANGED <<quarantined, initialized, recovery>> /\ Keep

Bind ==
  /\ lock.pc = "bind"
  /\ initialized' = active.next
  /\ active' = [active EXCEPT !.next = Absent]
  /\ Proceed("opened")
  /\ UNCHANGED <<quarantined, recovery>> /\ Keep

\* open returns; rebuild accepts only a database with recovery_required, and then removes
\* the RECOVERY marker.
Opened ==
  /\ lock.pc = "opened"
  /\ IF lock.op = "open" THEN Answer("ok") /\ UNCHANGED disk
     ELSE IF active.db \notin flagged THEN Answer("RecoveryRequired") /\ UNCHANGED disk
     ELSE Answer("ok") /\ recovery' = Absent /\ UNCHANGED <<active, quarantined, initialized>>

\* The host drops the store.
Close ==
  /\ lock.pc = "open"
  /\ lock' = Idle
  /\ UNCHANGED <<disk, store, result, cut, diskFaults>>

------------------------------------------------------------------------------
(* Quarantine. *)

\* The first call of an incident creates the RECOVERY marker.
Mark ==
  /\ lock.pc = "mark"
  /\ IF recovery # Absent THEN Proceed("rename_marker") /\ UNCHANGED disk /\ Keep
     ELSE IF quarantined[lock.arg] # NoDir \/ active = NoDir
     THEN Answer("RecoveryRequired") /\ UNCHANGED disk
     ELSE /\ recovery' = Torn
          /\ Proceed("write_marker")
          /\ UNCHANGED <<active, quarantined, initialized>> /\ Keep

WriteMarker ==
  /\ lock.pc = "write_marker"
  /\ recovery' = lock.arg
  /\ Proceed("move")
  /\ UNCHANGED <<active, quarantined, initialized>> /\ Keep

\* Mutant: a second name is refused while the marker names another quarantine.
RenameNever ==
  /\ lock.pc = "rename_marker"
  /\ UNCHANGED disk
  /\ IF recovery = lock.arg THEN Proceed("move") /\ Keep ELSE Answer("RecoveryRequired")

\* After a failed rebuild a fresh name replaces the name in the marker, by way of
\* active/recovery.next; the quarantine of the old name stays.
RenameMarker ==
  /\ lock.pc = "rename_marker"
  /\ IF recovery = lock.arg THEN Proceed("move") /\ UNCHANGED disk /\ Keep
     ELSE IF \/ recovery = Torn
             \/ quarantined[recovery] = NoDir \/ active = NoDir \/ quarantined[lock.arg] # NoDir
             \/ active.rnext \notin {Absent, lock.arg}
     THEN Answer("RecoveryRequired") /\ UNCHANGED disk
     ELSE IF active.rnext = lock.arg THEN Proceed("remark") /\ UNCHANGED disk /\ Keep
     ELSE /\ active' = [active EXCEPT !.rnext = Torn]
          /\ Proceed("write_rnext")
          /\ UNCHANGED <<quarantined, initialized, recovery>> /\ Keep

WriteRnext ==
  /\ lock.pc = "write_rnext"
  /\ active' = [active EXCEPT !.rnext = lock.arg]
  /\ Proceed("remark")
  /\ UNCHANGED <<quarantined, initialized, recovery>> /\ Keep

Remark ==
  /\ lock.pc = "remark"
  /\ recovery' = active.rnext
  /\ active' = [active EXCEPT !.rnext = Absent]
  /\ Proceed("move")
  /\ UNCHANGED <<quarantined, initialized>> /\ Keep

\* Mutant: the active directory is moved over a quarantine that exists.
MoveOver ==
  /\ lock.pc = "move"
  /\ IF active = NoDir THEN Answer("ok") /\ UNCHANGED disk
     ELSE /\ quarantined' = [quarantined EXCEPT ![lock.arg] = active]
          /\ active' = NoDir
          /\ Answer("ok")
          /\ UNCHANGED <<initialized, recovery>>

\* The active directory becomes the quarantine, unless an earlier call has moved it.
Move ==
  /\ lock.pc = "move"
  /\ IF quarantined[lock.arg] # NoDir THEN Answer("ok") /\ UNCHANGED disk
     ELSE IF active = NoDir THEN Answer("RecoveryRequired") /\ UNCHANGED disk
     ELSE /\ quarantined' = [quarantined EXCEPT ![lock.arg] = active]
          /\ active' = NoDir
          /\ Answer("ok")
          /\ UNCHANGED <<initialized, recovery>>

------------------------------------------------------------------------------
(* Rebuild. *)

\* quarantined_identity: the account in the quarantined database, if it can be read.
QuarantinedAccount(n) ==
  LET i == quarantined[n].db IN IF i = 0 \/ i \in damaged THEN NoAccount ELSE owner[i]

\* Mutant: rebuild does not ask whose database was quarantined.
FindAnyQuarantine ==
  /\ lock.pc = "find"
  /\ UNCHANGED disk
  /\ IF recovery \in {Absent, Torn} THEN Answer("RecoveryRequired")
     ELSE IF quarantined[recovery] = NoDir THEN Answer("RecoveryRequired")
     ELSE Proceed("prepare") /\ Keep

\* rebuild needs a quarantine, and an account from the marker or from the quarantine.
FindQuarantine ==
  /\ lock.pc = "find"
  /\ UNCHANGED disk
  /\ IF recovery \in {Absent, Torn} THEN Answer("RecoveryRequired")
     ELSE IF quarantined[recovery] = NoDir THEN Answer("RecoveryRequired")
     ELSE IF ~Bound /\ QuarantinedAccount(recovery) = NoAccount THEN Answer("RecoveryRequired")
     ELSE IF ~Bound /\ QuarantinedAccount(recovery) # lock.arg THEN Answer("StaleGeneration")
     ELSE Proceed("prepare") /\ Keep

------------------------------------------------------------------------------
(* Faults. *)

DiskFault == diskFaults < MaxDiskFaults /\ diskFaults' = diskFaults + 1

\* The process is killed, or a file operation fails and the call returns an I/O error.
Kill ==
  /\ lock # Idle
  /\ DiskFault
  /\ lock' = Idle
  /\ cut' = IF lock.pc \in {"write_marker", "write_rnext", "remark", "move"} THEN lock.arg ELSE cut
  /\ UNCHANGED <<disk, store, result>>

Damage ==
  /\ DiskFault
  /\ \E i \in Created \ damaged : damaged' = damaged \cup {i}
  /\ UNCHANGED <<disk, owner, flagged, lost, lock, result, cut>>

\* Files disappear while no call runs.  One of the active directory, the initialized marker
\* and the RECOVERY marker stays: without all of them the directory looks new.
LoseMarker ==
  /\ DiskFault
  /\ lock = Idle
  /\ initialized # Absent
  /\ active # NoDir \/ recovery # Absent
  /\ \E m \in {Absent, Legacy} : initialized' = m
  /\ UNCHANGED <<active, quarantined, recovery, store, lock, result, cut>>

LoseActive ==
  /\ DiskFault
  /\ lock = Idle
  /\ active # NoDir
  /\ initialized # Absent \/ recovery # Absent
  /\ lost' = lost \cup ({active.db} \ {0})
  /\ active' = NoDir
  /\ UNCHANGED <<quarantined, initialized, recovery, owner, flagged, damaged, lock, result, cut>>

OpenStep == OpenRoot \/ Prepare \/ Check \/ Migrate \/ PublishMarker \/ WriteNext \/ Bind \/ Opened
QuarantineStep == Mark \/ WriteMarker \/ RenameMarker \/ WriteRnext \/ Remark \/ Move
StoreStep == OpenStep \/ QuarantineStep \/ FindQuarantine

StoreNext ==
  \/ \E a \in Account : CallOpen(a) \/ CallRebuild(a)
  \/ \E n \in Name : CallQuarantine(n)
  \/ StoreStep \/ Close
  \/ Kill \/ Damage \/ LoseMarker \/ LoseActive

StoreSpec == StoreInit /\ [][StoreNext]_storeVars

\* A call that runs goes on, a store in use is closed some day, and the host keeps trying:
\* it repeats every quarantine and the rebuild until they succeed, as the runbook says.
LiveStoreSpec ==
  /\ StoreSpec
  /\ WF_storeVars(StoreStep) /\ WF_storeVars(Close)
  /\ \A a \in Account : SF_storeVars(CallRebuild(a))
  /\ \A n \in Name : SF_storeVars(CallQuarantine(n))

------------------------------------------------------------------------------
(* Properties *)

Places(i) == {n \in Name : quarantined[n] # NoDir /\ quarantined[n].db = i}
                \cup (IF active # NoDir /\ active.db = i THEN {Absent} ELSE {})

StoreTypeOK ==
  /\ active \in Directory \cup {NoDir}
  /\ quarantined \in [Name -> Directory \cup {NoDir}]
  /\ initialized \in Instance \cup {Absent, Legacy}
  /\ recovery \in Name \cup {Absent, Torn}
  /\ owner \in [Instance -> Account \cup {NoAccount}]
  /\ flagged \subseteq Created /\ damaged \subseteq Created /\ lost \subseteq Created
  /\ cut \in Name \cup {Absent}
  /\ diskFaults \in 0 .. MaxDiskFaults
  /\ lock.pc \in {"prepare", "migrate"} => lock.arg \in Account

\* Every database that was ever committed is still there, in the active directory or in one
\* quarantine, unless it was deleted from outside: no kill and no order of open, quarantine
\* and rebuild overwrites or drops one (quarantine, rebuild, prepare).
EvidenceKept == \A i \in Created \ lost : \E p \in Name \cup {Absent} : Places(i) = {p}

\* A database that takes the place of an earlier one says so for ever: the host can never get
\* a store that looks healthy while unsent messages lie in a quarantine or are lost
\* (recovery_required in migrations::apply and rebuild).
ReplacementFlagged == \A i \in Created : i # 1 => i \in flagged

\* All the databases of a directory belong to one account, also when the initialized marker is
\* lost or generic and the quarantine has to say whose it was (quarantined_identity).
AccountBound == \A i, j \in Created : owner[i] = owner[j]

\* A replacement is flagged and belongs to the same account.
ReplacementInv == ReplacementFlagged /\ AccountBound

\* A store is in use only while no recovery is pending, and it is the instance that the
\* initialized marker binds, so the next open will accept it.
OpenIsBound == lock.pc = "open" => recovery = Absent /\ initialized = active.db

\* The state of a directory: all evidence kept, and in use only when it is bound.
DirectoryInv == StoreTypeOK /\ EvidenceKept /\ OpenIsBound

\* What no repetition can resolve: a marker without content, an account nobody can read, a
\* directory that disappeared before it was quarantined; and the two bounds of the model.
Beyond ==
  \/ recovery = Torn
  \/ active # NoDir /\ active.rnext = Torn
  \/ recovery \in Name /\ quarantined[recovery] = NoDir /\ active = NoDir
  \/ recovery \in Name /\ ~Bound /\ quarantined[recovery] # NoDir
       /\ QuarantinedAccount(recovery) = NoAccount
  \/ \A n \in Name : quarantined[n] # NoDir
  \/ ~Spare

\* A recovery that was begun ends with a usable store, wherever quarantine and rebuild were
\* killed, if the host repeats them and nothing of Beyond happens.
RecoveryCompletes == recovery \in Name ~> (recovery = Absent \/ Beyond)

\* The runbook: repeating an interrupted quarantine with the same name resumes it.
InterruptedQuarantineResumes ==
  ~(result.op = "quarantine" /\ result.arg = cut /\ result.code # "ok")

==============================================================================
