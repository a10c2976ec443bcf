-------------------------- MODULE RappVaultProofs --------------------------
(***************************************************************************)
(* A lone process stores pair records atomically: for any endpoints and    *)
(* any number of operations, crashes and power losses, RappVault           *)
(* implements PairStore.  With two processes it does not (they share the   *)
(* name of the temporary file), so the theorem assumes one.                *)
(*                                                                         *)
(* The argument: the temporary file is never the inode that the directory, *)
(* or the directory on the disk, calls the record (TmpApart); that inode   *)
(* holds a complete record, the same on the disk (RecordSynced); and the   *)
(* process at each step of save_pair finds its file as it left it          *)
(* (FileOfStep).                                                           *)
(***************************************************************************)
EXTENDS RappVault, TLAPS

\* A process and its run of save_pair.
Saver == [pc : {"idle", "create", "write", "sync", "rename"}, op : {"-", "endpoint", "cert", "pair"},
          rec : Record \cup {None}, fd : Inodes \cup {NoFile}]

VaultType ==
    /\ dir \in [Names -> Inodes \cup {NoFile}]
    /\ diskDir \in [Names -> Inodes \cup {NoFile}]
    /\ data \in [Inodes -> Record \cup {Empty, Torn}]
    /\ synced \in [Inodes -> Record \cup {Empty, Torn}]
    /\ proc \in [Procs -> Saver]

\* The temporary file is not the record, now or after a power loss.
TmpApart ==
    /\ dir["tmp"] # NoFile => dir["tmp"] # dir["cbor"] /\ dir["tmp"] # diskDir["cbor"]
    /\ diskDir["tmp"] # NoFile => diskDir["tmp"] # diskDir["cbor"]

\* What is called the record is one, complete and flushed.
RecordSynced ==
    \A i \in {dir["cbor"], diskDir["cbor"]} \ {NoFile} :
        data[i] \in Record /\ synced[i] = data[i]

\* save_pair, step by step: truncated, written, flushed.
FileOfStep ==
    \A p \in Procs :
        /\ proc[p].pc # "idle" => proc[p].rec \in Record
        /\ proc[p].pc \in {"write", "sync", "rename"} => proc[p].fd = dir["tmp"] /\ dir["tmp"] # NoFile
        /\ proc[p].pc = "write" => data[proc[p].fd] = Empty
        /\ proc[p].pc \in {"sync", "rename"} => data[proc[p].fd] \in Record
        /\ proc[p].pc = "rename" => synced[proc[p].fd] = data[proc[p].fd]

VaultInv == VaultType /\ TmpApart /\ RecordSynced /\ FileOfStep

-----------------------------------------------------------------------------
(* Records are neither empty nor torn files, and not nothing.              *)

\* A file that was only created, was torn or is absent holds no record.
LEMMA NotRecords == Empty \notin Record /\ Torn \notin Record /\ None \notin Record
BY DEF Empty, Torn, None, Record

\* The inode a new file gets is no file's inode.
LEMMA FreeInodeIsFree ==
    ASSUME HasFreeInode
    PROVE  /\ FreeInode \in Inodes
           /\ \A n \in Names : FreeInode # dir[n] /\ FreeInode # diskDir[n]
<1>1. /\ FreeInode \in Inodes
      /\ FreeInode \notin {dir[n] : n \in Names} \cup {diskDir[n] : n \in Names}
  BY DEF HasFreeInode, FreeInode
<1> QED
  BY <1>1

\* The absence of a file is no inode.
LEMMA NoFileNoInode == NoFile \notin Inodes
BY VaultAssumption DEF NoFile, Inodes

-----------------------------------------------------------------------------
(* The invariant, when p is the only process.                              *)

\* Beginning to save keeps the invariant: nothing was written yet.
LEMMA BeginKeeps ==
    ASSUME NEW p, Procs = {p}, VaultInv, NEW op \in {"endpoint", "cert", "pair"},
           NEW rec \in Record, Begin(p, op, rec, "create")
    PROVE  VaultInv'
<1> USE DEF VaultInv
<1>1. [pc |-> "create", op |-> op, rec |-> rec, fd |-> NoFile] \in Saver
  BY DEF Saver
<1>2. /\ proc' \in [Procs -> Saver] /\ proc'[p].pc = "create" /\ proc'[p].rec = rec
      /\ UNCHANGED <<dir, data, synced, diskDir>>
  BY <1>1 DEF Begin, VaultType
<1>3. VaultType' /\ TmpApart' /\ RecordSynced'
  BY <1>2 DEF VaultType, TmpApart, RecordSynced
<1>4. FileOfStep'
  BY <1>2 DEF FileOfStep
<1> QED
  BY <1>3, <1>4

\* A process that is back to idle leaves the files as they are.
LEMMA IdleKeeps ==
    ASSUME NEW p, Procs = {p}, VaultType', TmpApart', RecordSynced', proc'[p].pc = "idle"
    PROVE  VaultInv'
BY DEF VaultInv, FileOfStep

\* A process that does not save is typed.
LEMMA IdleTyped == Idle \in Saver /\ Idle.pc = "idle"
BY DEF Idle, Saver

\* Deleting the record keeps the invariant: the temporary file is another
\* one.
LEMMA DeleteKeeps ==
    ASSUME NEW p, Procs = {p}, VaultInv, DeletePair(p) PROVE VaultInv'
<1> USE DEF VaultInv
<1>1. /\ dir' = [dir EXCEPT !["cbor"] = NoFile] /\ UNCHANGED <<data, synced, diskDir, proc>>
      /\ proc[p].pc = "idle"
  BY DEF DeletePair
<1>2. dir' \in [Names -> Inodes \cup {NoFile}] /\ dir'["cbor"] = NoFile /\ dir'["tmp"] = dir["tmp"]
  BY <1>1 DEF VaultType, Names
<1>3. VaultType' /\ TmpApart' /\ RecordSynced'
  BY <1>1, <1>2 DEF VaultType, TmpApart, RecordSynced
<1> QED
  BY <1>1, <1>3, IdleKeeps

\* Creating the temporary file keeps the invariant: the record's own file is
\* another one.
LEMMA CreateKeeps ==
    ASSUME NEW p, Procs = {p}, VaultInv, Create(p) PROVE VaultInv'
<1> USE DEF VaultInv
<1>1. PICK i \in Inodes :
         /\ IF dir["tmp"] # NoFile THEN i = dir["tmp"] ELSE HasFreeInode /\ i = FreeInode
         /\ data' = [data EXCEPT ![i] = Empty]
         /\ synced' = IF dir["tmp"] # NoFile THEN synced ELSE [synced EXCEPT ![i] = Empty]
         /\ dir' = [dir EXCEPT !["tmp"] = i]
         /\ proc' = [proc EXCEPT ![p].pc = "write", ![p].fd = i]
  BY DEF Create
<1>2. i # dir["cbor"] /\ i # diskDir["cbor"] /\ i # NoFile /\ diskDir' = diskDir
      /\ proc[p].pc = "create"
  BY <1>1, FreeInodeIsFree, NoFileNoInode DEF TmpApart, Names, Create
<1>3. /\ dir' \in [Names -> Inodes \cup {NoFile}]
      /\ dir'["tmp"] = i /\ dir'["cbor"] = dir["cbor"]
  BY <1>1 DEF VaultType, Names
<1>4. /\ data' \in [Inodes -> Record \cup {Empty, Torn}] /\ synced' \in [Inodes -> Record \cup {Empty, Torn}]
      /\ data'[i] = Empty /\ \A j \in Inodes \ {i} : data'[j] = data[j] /\ synced'[j] = synced[j]
  BY <1>1 DEF VaultType
<1>5. /\ proc' \in [Procs -> Saver] /\ proc'[p].pc = "write" /\ proc'[p].fd = i
      /\ proc'[p].rec = proc[p].rec
  <2>1. /\ [[proc[p] EXCEPT !.pc = "write"] EXCEPT !.fd = i] \in Saver
        /\ [[proc[p] EXCEPT !.pc = "write"] EXCEPT !.fd = i].pc = "write"
        /\ [[proc[p] EXCEPT !.pc = "write"] EXCEPT !.fd = i].fd = i
        /\ [[proc[p] EXCEPT !.pc = "write"] EXCEPT !.fd = i].rec = proc[p].rec
    BY DEF VaultType, Saver
  <2> QED
    BY <1>1, <2>1 DEF VaultType
<1>6. VaultType' /\ TmpApart'
  BY <1>2, <1>3, <1>4, <1>5 DEF VaultType, TmpApart
<1>7. RecordSynced'
  <2>1. \A j \in {dir["cbor"], diskDir["cbor"]} \ {NoFile} : j \in Inodes \ {i}
    BY <1>2 DEF VaultType, Names
  <2> QED
    BY <1>2, <1>3, <1>4, <2>1 DEF RecordSynced
<1>8. FileOfStep'
  BY <1>2, <1>3, <1>4, <1>5 DEF FileOfStep
<1> QED
  BY <1>6, <1>7, <1>8

\* Writing the record into the temporary file, in full or in part, keeps the
\* invariant.
LEMMA WriteKeeps ==
    ASSUME NEW p, Procs = {p}, VaultInv, Write(p) PROVE VaultInv'
<1> USE DEF VaultInv
<1>1. PICK i : i = proc[p].fd
  OBVIOUS
<1>2. /\ i \in Inodes /\ i = dir["tmp"] /\ i # dir["cbor"] /\ i # diskDir["cbor"]
      /\ data[i] = Empty /\ proc[p].rec \in Record /\ UNCHANGED <<dir, synced, diskDir>>
  BY <1>1 DEF Write, FileOfStep, TmpApart, VaultType, Names
<1>3. data' = [data EXCEPT ![i] = proc[p].rec]
  BY <1>1, <1>2, NotRecords DEF Write, Overwrite
<1>4. /\ data' \in [Inodes -> Record \cup {Empty, Torn}]
      /\ data'[i] = proc[p].rec /\ \A j \in Inodes \ {i} : data'[j] = data[j]
  BY <1>2, <1>3 DEF VaultType
<1>5. /\ proc' \in [Procs -> Saver] /\ proc'[p].pc = "sync" /\ proc'[p].fd = i
      /\ proc'[p].rec = proc[p].rec
  <2>1. /\ [proc[p] EXCEPT !.pc = "sync"] \in Saver
        /\ [proc[p] EXCEPT !.pc = "sync"].pc = "sync"
        /\ [proc[p] EXCEPT !.pc = "sync"].fd = proc[p].fd
        /\ [proc[p] EXCEPT !.pc = "sync"].rec = proc[p].rec
    BY DEF VaultType, Saver
  <2> QED
    BY <1>1, <2>1 DEF VaultType, Write
<1>6. VaultType' /\ TmpApart'
  BY <1>2, <1>4, <1>5 DEF VaultType, TmpApart
<1>7. RecordSynced'
  <2>1. \A j \in {dir["cbor"], diskDir["cbor"]} \ {NoFile} : j \in Inodes \ {i}
    BY <1>2 DEF VaultType, Names
  <2> QED
    BY <1>2, <1>4, <2>1 DEF RecordSynced
<1>8. FileOfStep'
  BY <1>2, <1>4, <1>5, NoFileNoInode DEF FileOfStep
<1> QED
  BY <1>6, <1>7, <1>8

\* Synchronising the temporary file keeps the invariant.
LEMMA SyncKeeps ==
    ASSUME NEW p, Procs = {p}, VaultInv, SyncAll(p) PROVE VaultInv'
<1> USE DEF VaultInv
<1>1. PICK i : i = proc[p].fd
  OBVIOUS
<1>2. /\ i \in Inodes /\ i = dir["tmp"] /\ i # dir["cbor"] /\ i # diskDir["cbor"]
      /\ data[i] \in Record /\ proc[p].rec \in Record /\ UNCHANGED <<dir, data, diskDir>>
  BY <1>1 DEF SyncAll, FileOfStep, TmpApart, VaultType, Names
<1>3. synced' = [synced EXCEPT ![i] = data[i]]
  BY <1>1 DEF SyncAll
<1>4. /\ synced' \in [Inodes -> Record \cup {Empty, Torn}]
      /\ synced'[i] = data[i] /\ \A j \in Inodes \ {i} : synced'[j] = synced[j]
  BY <1>2, <1>3 DEF VaultType
<1>5. /\ proc' \in [Procs -> Saver] /\ proc'[p].pc = "rename" /\ proc'[p].fd = i
      /\ proc'[p].rec = proc[p].rec
  <2>1. /\ [proc[p] EXCEPT !.pc = "rename"] \in Saver
        /\ [proc[p] EXCEPT !.pc = "rename"].pc = "rename"
        /\ [proc[p] EXCEPT !.pc = "rename"].fd = proc[p].fd
        /\ [proc[p] EXCEPT !.pc = "rename"].rec = proc[p].rec
    BY DEF VaultType, Saver
  <2> QED
    BY <1>1, <2>1 DEF VaultType, SyncAll
<1>6. VaultType' /\ TmpApart'
  BY <1>2, <1>4, <1>5 DEF VaultType, TmpApart
<1>7. RecordSynced'
  <2>1. \A j \in {dir["cbor"], diskDir["cbor"]} \ {NoFile} : j \in Inodes \ {i}
    BY <1>2 DEF VaultType, Names
  <2> QED
    BY <1>2, <1>4, <2>1 DEF RecordSynced
<1>8. FileOfStep'
  BY <1>2, <1>4, <1>5, NoFileNoInode DEF FileOfStep
<1> QED
  BY <1>6, <1>7, <1>8

\* Renaming the temporary file over the record keeps the invariant: it was
\* synchronised before.
LEMMA RenameKeeps ==
    ASSUME NEW p, Procs = {p}, VaultInv, Rename(p)
    PROVE  VaultInv' /\ dir'["cbor"] = proc[p].fd /\ data[proc[p].fd] \in Record
           /\ proc[p].fd # NoFile
<1> USE DEF VaultInv
<1>1. PICK i : i = proc[p].fd
  OBVIOUS
<1>2. /\ i \in Inodes /\ i # NoFile /\ i = dir["tmp"] /\ UNCHANGED <<data, synced, diskDir>>
      /\ data[i] \in Record /\ synced[i] = data[i]
  BY <1>1 DEF Rename, FileOfStep, VaultType, Names
<1>3. /\ dir' \in [Names -> Inodes \cup {NoFile}] /\ dir'["cbor"] = i /\ dir'["tmp"] = NoFile
  BY <1>2 DEF Rename, Names
<1>4. proc' \in [Procs -> Saver] /\ proc'[p].pc = "idle"
  BY IdleTyped DEF Rename, VaultType
<1>5. VaultType' /\ TmpApart' /\ RecordSynced'
  BY <1>2, <1>3, <1>4 DEF VaultType, TmpApart, RecordSynced
<1> QED
  BY <1>1, <1>2, <1>3, <1>4, <1>5, IdleKeeps

\* A process that dies, the write-back of the page cache and a power loss
\* keep the invariant.
LEMMA EnvironmentKeeps ==
    ASSUME NEW p, Procs = {p}, VaultInv,
           Die(p) \/ WriteBackDir \/ (\E i \in Inodes : WriteBackData(i)) \/ PowerLoss
    PROVE  VaultInv'
<1> USE DEF VaultInv
<1>1. CASE Die(p)
  <2>1. proc' \in [Procs -> Saver] /\ proc'[p].pc = "idle" /\ UNCHANGED <<dir, data, synced, diskDir>>
    BY <1>1, IdleTyped DEF Die, VaultType
  <2>2. VaultType' /\ TmpApart' /\ RecordSynced'
    BY <2>1 DEF VaultType, TmpApart, RecordSynced
  <2> QED
    BY <2>1, <2>2, IdleKeeps
<1>2. CASE WriteBackDir
  <2>1. diskDir' = dir /\ UNCHANGED <<dir, data, synced, proc>>
    BY <1>2 DEF WriteBackDir
  <2> QED
    BY <2>1 DEF VaultType, TmpApart, RecordSynced, FileOfStep
<1>3. ASSUME NEW i \in Inodes, WriteBackData(i) PROVE VaultInv'
  <2>1. synced' = [synced EXCEPT ![i] = data[i]] /\ UNCHANGED <<dir, data, diskDir, proc>>
    BY <1>3 DEF WriteBackData
  <2>2. /\ synced' \in [Inodes -> Record \cup {Empty, Torn}]
        /\ \A j \in Inodes : synced'[j] = synced[j] \/ synced'[j] = data[j]
    BY <2>1 DEF VaultType
  <2>3. \A j \in {dir["cbor"], diskDir["cbor"], dir["tmp"]} \ {NoFile} : j \in Inodes
    BY DEF VaultType, Names
  <2>4. VaultType' /\ TmpApart' /\ RecordSynced'
    BY <2>1, <2>2, <2>3 DEF VaultType, TmpApart, RecordSynced
  <2>5. FileOfStep'
    BY <2>1, <2>2, <2>3 DEF FileOfStep
  <2> QED
    BY <2>4, <2>5
<1>4. CASE PowerLoss
  <2>1. /\ dir' = diskDir /\ data' = synced /\ proc' = [q \in Procs |-> Idle]
        /\ UNCHANGED <<synced, diskDir>>
    BY <1>4 DEF PowerLoss
  <2>2. proc' \in [Procs -> Saver] /\ proc'[p].pc = "idle"
    BY <2>1, IdleTyped
  <2>3. VaultType' /\ TmpApart' /\ RecordSynced'
    BY <2>1, <2>2 DEF VaultType, TmpApart, RecordSynced
  <2> QED
    BY <2>2, <2>3, IdleKeeps
<1> QED
  BY <1>1, <1>2, <1>3, <1>4

-----------------------------------------------------------------------------
(* Every step of the vault is one of the store, or none.                   *)

\* What the operations of p save is made from the record they read or were given.
LEMMA BeginsWithRecord ==
    ASSUME NEW p, Procs = {p}, VaultInv,
           BeginEndpointUpdate(p) \/ BeginCertUpdate(p) \/ BeginPairing(p)
    PROVE  VaultInv' /\ UNCHANGED <<dir, data, synced, diskDir>>
<1>1. \E op \in {"endpoint", "cert", "pair"}, rec \in Record : Begin(p, op, rec, "create")
  <2>1. CASE BeginEndpointUpdate(p)
    <3>1. PICK e \in Endpoints, pair \in Record :
             Begin(p, "endpoint",
                   [(IF Stored \in Record THEN Stored ELSE pair) EXCEPT !.endpoints = e], "create")
      BY <2>1 DEF BeginEndpointUpdate
    <3>2. PICK held \in Record : held = IF Stored \in Record THEN Stored ELSE pair
      OBVIOUS
    <3>3. [held EXCEPT !.endpoints = e] \in Record
      BY DEF Record
    <3> QED
      BY <3>1, <3>2, <3>3
  <2>2. CASE BeginCertUpdate(p)
    <3>1. Stored \in Record /\ Begin(p, "cert", [Stored EXCEPT !.cert = TRUE], "create")
      BY <2>2 DEF BeginCertUpdate
    <3>2. [Stored EXCEPT !.cert = TRUE] \in Record
      BY <3>1 DEF Record
    <3> QED
      BY <3>1, <3>2
  <2>3. CASE BeginPairing(p)
    BY <2>3 DEF BeginPairing
  <2> QED
    BY <2>1, <2>2, <2>3
<1> QED
  BY <1>1, BeginKeeps DEF Begin

\* What load_pair would return now, and after a power loss.
Durable == Decode(diskDir, synced, "cbor")

\* Every step of a lone process keeps the invariant, and what is stored and
\* what is on the disk change as a step of the store allows.
LEMMA VaultSteps ==
    ASSUME NEW p, Procs = {p}, VaultInv, [Next]_vars
    PROVE  /\ VaultInv'
           /\ \/ Stored' \in Record /\ Durable' = Durable
              \/ Stored' = None /\ Durable' = Durable
              \/ Durable' = Stored /\ Stored' = Stored
              \/ Stored' = Durable /\ Durable' = Durable
              \/ Stored' = Stored /\ Durable' = Durable
<1> USE DEF Stored, Durable, Decode
<1>1. CASE BeginEndpointUpdate(p) \/ BeginCertUpdate(p) \/ BeginPairing(p)
  BY <1>1, BeginsWithRecord
<1>2. CASE DeletePair(p)
  <2>1. VaultInv' /\ dir'["cbor"] = NoFile /\ UNCHANGED <<synced, diskDir>>
    BY <1>2, DeleteKeeps DEF DeletePair, VaultInv, VaultType, Names
  <2> QED
    BY <2>1
<1>3. CASE Create(p)
  <2>1. VaultInv'
    BY <1>3, CreateKeeps
  <2>2. PICK i \in Inodes :
         /\ IF dir["tmp"] # NoFile THEN i = dir["tmp"] ELSE HasFreeInode /\ i = FreeInode
         /\ data' = [data EXCEPT ![i] = Empty]
         /\ synced' = IF dir["tmp"] # NoFile THEN synced ELSE [synced EXCEPT ![i] = Empty]
         /\ dir' = [dir EXCEPT !["tmp"] = i]
    BY <1>3 DEF Create
  <2>3. i # dir["cbor"] /\ i # diskDir["cbor"] /\ diskDir' = diskDir
    BY <1>3, <2>2, FreeInodeIsFree DEF VaultInv, TmpApart, Names, Create
  <2>4. dir'["cbor"] = dir["cbor"]
    BY <2>2 DEF VaultInv, VaultType, Names
  <2>5. \A j \in Inodes \ {i} : data'[j] = data[j] /\ synced'[j] = synced[j]
    BY <2>2 DEF VaultInv, VaultType
  <2>6. \A j \in {dir["cbor"], diskDir["cbor"]} \ {NoFile} : j \in Inodes \ {i}
    BY <2>3 DEF VaultInv, VaultType, Names
  <2> QED
    BY <2>1, <2>3, <2>4, <2>5, <2>6
<1>4. CASE Write(p) \/ SyncAll(p)
  <2>1. VaultInv'
    BY <1>4, WriteKeeps, SyncKeeps
  <2>2. PICK i : i = proc[p].fd
    OBVIOUS
  <2>3. /\ i \in Inodes /\ i # dir["cbor"] /\ i # diskDir["cbor"] /\ UNCHANGED <<dir, diskDir>>
    BY <1>4, <2>2 DEF Write, SyncAll, VaultInv, FileOfStep, TmpApart, VaultType, Names
  <2>4. \A j \in Inodes \ {i} : data'[j] = data[j] /\ synced'[j] = synced[j]
    BY <1>4, <2>2 DEF Write, SyncAll, VaultInv, VaultType
  <2>5. \A j \in {dir["cbor"], diskDir["cbor"]} \ {NoFile} : j \in Inodes \ {i}
    BY <2>3 DEF VaultInv, VaultType, Names
  <2> QED
    BY <2>1, <2>3, <2>4, <2>5
<1>5. CASE Rename(p)
  <2>1. VaultInv' /\ dir'["cbor"] = proc[p].fd /\ data[proc[p].fd] \in Record /\ proc[p].fd # NoFile
    BY <1>5, RenameKeeps
  <2>2. UNCHANGED <<data, synced, diskDir>>
    BY <1>5 DEF Rename
  <2> QED
    BY <2>1, <2>2
<1>6. CASE Die(p)
  BY <1>6, EnvironmentKeeps DEF Die
<1>7. CASE WriteBackDir
  <2>1. VaultInv' /\ diskDir' = dir /\ UNCHANGED <<dir, data, synced>>
    BY <1>7, EnvironmentKeeps DEF WriteBackDir
  <2>2. dir["cbor"] # NoFile => synced[dir["cbor"]] = data[dir["cbor"]]
    BY DEF VaultInv, RecordSynced
  <2> QED
    BY <2>1, <2>2
<1>8. ASSUME NEW i \in Inodes, WriteBackData(i)
      PROVE  VaultInv' /\ Stored' = Stored /\ Durable' = Durable
  <2>1. VaultInv' /\ synced' = [synced EXCEPT ![i] = data[i]] /\ UNCHANGED <<dir, data, diskDir>>
    BY <1>8, EnvironmentKeeps DEF WriteBackData
  <2>2. diskDir["cbor"] # NoFile => i # diskDir["cbor"]
    BY <1>8 DEF VaultInv, RecordSynced, WriteBackData
  <2>3. diskDir["cbor"] # NoFile => synced'[diskDir["cbor"]] = synced[diskDir["cbor"]]
    BY <2>1, <2>2 DEF VaultInv, VaultType, Names
  <2> QED
    BY <2>1, <2>3
<1>9. CASE PowerLoss
  BY <1>9, EnvironmentKeeps DEF PowerLoss
<1>10. CASE UNCHANGED vars
  <2>1. UNCHANGED <<dir, data, synced, diskDir, proc>>
    BY <1>10 DEF vars
  <2> QED
    BY <2>1 DEF VaultInv, VaultType, TmpApart, RecordSynced, FileOfStep
<1> QED
  BY <1>1, <1>2, <1>3, <1>4, <1>5, <1>6, <1>7, <1>8, <1>9, <1>10 DEF Next, SavePair

\* The invariant holds of a directory with a record that is on the disk.
LEMMA VaultInit ==
    ASSUME NEW p, Procs = {p}, Init
    PROVE  VaultInv /\ Stored \in Record /\ Durable = Stored
<1>1. PICK r \in Record : data = [i \in Inodes |-> IF i = 1 THEN r ELSE Empty]
  BY DEF Init
<1>2. 1 \in Inodes /\ 1 # NoFile
  BY VaultAssumption DEF Inodes, NoFile
<1>3. /\ dir \in [Names -> Inodes \cup {NoFile}] /\ dir["cbor"] = 1 /\ dir["tmp"] = NoFile
      /\ diskDir = dir /\ synced = data /\ proc \in [Procs -> Saver] /\ proc[p].pc = "idle"
  BY <1>2, IdleTyped DEF Init, Names
<1>4. data \in [Inodes -> Record \cup {Empty, Torn}] /\ data[1] = r
  BY <1>1, <1>2
<1>5. VaultInv
  BY <1>3, <1>4 DEF VaultInv, VaultType, TmpApart, RecordSynced, FileOfStep
<1> QED
  BY <1>2, <1>3, <1>4, <1>5 DEF Stored, Durable, Decode

\* "Save a pair record to disk atomically": when one process uses the vault,
\* save_pair and delete_pair take effect in one step, and a crash or a power
\* loss at any step of them leaves the record as it was or as it was to be.
THEOREM SavesAtomic ==
    ASSUME \E p : Procs = {p}
    PROVE  Spec => StoreSpec
<1>1. PICK p : Procs = {p}
  OBVIOUS
<1>2. Init => VaultInv /\ Store!Init
  <2> SUFFICES ASSUME Init PROVE VaultInv /\ Store!Init
    OBVIOUS
  <2>1. VaultInv /\ Stored \in Record /\ Durable = Stored
    BY <1>1, VaultInit
  <2> QED
    BY <2>1 DEF Store!Init, Stored, Durable
<1>3. VaultInv /\ [Next]_vars =>
        VaultInv' /\ [Store!Next]_<<Decode(dir, data, "cbor"), Decode(diskDir, synced, "cbor")>>
  <2> SUFFICES ASSUME VaultInv, [Next]_vars
               PROVE  VaultInv' /\ [Store!Next]_<<Decode(dir, data, "cbor"), Decode(diskDir, synced, "cbor")>>
    OBVIOUS
  <2>1. /\ VaultInv'
        /\ \/ Stored' \in Record /\ Durable' = Durable
           \/ Stored' = None /\ Durable' = Durable
           \/ Durable' = Stored /\ Stored' = Stored
           \/ Stored' = Durable /\ Durable' = Durable
           \/ Stored' = Stored /\ Durable' = Durable
    BY <1>1, VaultSteps
  <2> QED
    BY <2>1 DEF Store!Next, Store!Save, Store!Delete, Store!Flush, Store!Lose, Stored, Durable
<1> QED
  BY <1>2, <1>3, PTL DEF Spec, StoreSpec, Store!Spec

=============================================================================
