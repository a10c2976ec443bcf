----------------------------- MODULE RappVault -----------------------------
(***************************************************************************)
(* RappDeviceVault (refineid-lib-core/src/rapp/vault.rs) for one pair id,  *)
(* down to the file operations.  save_pair writes <id>.tmp (create and     *)
(* truncate, write, fsync) and renames it over <id>.cbor; the name of the  *)
(* temporary file is the same for every process.                           *)
(*                                                                         *)
(* The processes are the ones that share ~/.config/refineid/pairs: GUI,    *)
(* CLI and the PKCS #11 module in a browser.  Each runs one operation at a *)
(* time: an endpoint update (execute_operation_with_pair reads the record, *)
(* works on it for seconds and saves its copy), a certificate update       *)
(* (update_cached_auth_cert), a deletion, or the saving of a new pairing.  *)
(*                                                                         *)
(* A record is its endpoints and its cached certificate.  A file is a      *)
(* record, Empty, or Torn: the tail of a longer record shows after a       *)
(* shorter one was written over it.  Decoding succeeds on records only.    *)
(***************************************************************************)
EXTENDS Integers, FiniteSets

CONSTANTS
    Procs,          \* processes
    Endpoints,      \* endpoint lists
    MaxOps          \* bound on the operations started

ASSUME VaultAssumption == MaxOps \in Nat

VARIABLES
    dir,        \* the directory: inode of the .cbor and of the .tmp file
    data,       \* contents of each inode, as the running system sees it
    synced,     \* contents of each inode on the disk
    diskDir,    \* the directory on the disk
    proc,       \* each process: step, record at hand, open file
    ops,        \* operations started
    deleted     \* history: the pair was deleted and not paired again

vars == <<dir, data, synced, diskDir, proc, ops, deleted>>

NoFile == 0
Inodes == 1 .. MaxOps + 1
Record == [kind : {"record"}, endpoints : Endpoints, cert : BOOLEAN]
Empty  == [kind |-> "empty"]
Torn   == [kind |-> "torn"]
None   == [kind |-> "none"]
Names  == {"cbor", "tmp"}

\* PairRecord::encode: a cached certificate makes the record longer.
Length(r) == IF r.cert THEN 2 ELSE 1

\* write_all at offset 0 of a file that was truncated when it was opened, but
\* that another process may have written since.
Overwrite(old, r) ==
    IF old \in Record /\ Length(old) > Length(r) THEN Torn ELSE r

\* PairRecord::decode of what the name refers to; None when there is no file.
Decode(d, contents, name) ==
    IF d[name] = NoFile THEN None ELSE contents[d[name]]

Idle == [pc |-> "idle", op |-> "-", rec |-> None, fd |-> NoFile]

Init ==
    /\ \E r \in {x \in Record : ~x.cert} :
         data = [i \in Inodes |-> IF i = 1 THEN r ELSE Empty]
    /\ synced = data
    /\ dir = [n \in Names |-> IF n = "cbor" THEN 1 ELSE NoFile]
    /\ diskDir = dir
    /\ proc = [p \in Procs |-> Idle]
    /\ ops = 0
    /\ deleted = FALSE

Stored == Decode(dir, data, "cbor")

FreeInode == CHOOSE i \in Inodes :
    /\ i \notin {dir[n] : n \in Names} \cup {diskDir[n] : n \in Names}
    /\ \A p \in Procs : proc[p].fd # i

HasFreeInode == \E i \in Inodes :
    /\ i \notin {dir[n] : n \in Names} \cup {diskDir[n] : n \in Names}
    /\ \A p \in Procs : proc[p].fd # i

-----------------------------------------------------------------------------
(* Operations: each reads what it needs, then changes its copy and saves.  *)

Begin(p, op, rec, step) ==
    /\ proc[p].pc = "idle" /\ ops < MaxOps
    /\ ops' = ops + 1
    /\ proc' = [proc EXCEPT ![p] = [pc |-> step, op |-> op, rec |-> rec, fd |-> NoFile]]
    /\ UNCHANGED <<dir, data, synced, diskDir, deleted>>

\* execute_operation_with_pair: find the pair among active_pairs (which skips
\* what does not decode), else go on with the caller's own copy of it, and later
\* save it with the endpoint that answered.
BeginEndpointUpdate(p) ==
    \E e \in Endpoints, pair \in Record :
        Begin(p, "endpoint",
              [(IF Stored \in Record THEN Stored ELSE pair) EXCEPT !.endpoints = e], "create")

\* update_cached_auth_cert: load_pair, set the certificate, save_pair.
BeginCertUpdate(p) ==
    Stored \in Record /\ Begin(p, "cert", [Stored EXCEPT !.cert = TRUE], "create")

\* The end of a pairing: a fresh record is saved, with the certificate if it was read.
BeginPairing(p) ==
    \E r \in Record : Stored = None /\ Begin(p, "pair", r, "create")

\* delete_pair: exists, then remove_file.
DeletePair(p) ==
    /\ proc[p].pc = "idle" /\ ops < MaxOps
    /\ dir["cbor"] # NoFile
    /\ ops' = ops + 1
    /\ dir' = [dir EXCEPT !["cbor"] = NoFile]
    /\ deleted' = TRUE
    /\ UNCHANGED <<data, synced, diskDir, proc>>

-----------------------------------------------------------------------------
(* save_pair.                                                              *)

\* File::create: truncates the temporary file, or makes a new inode.
Create(p) ==
    /\ proc[p].pc = "create"
    /\ \E i \in Inodes :
         /\ IF dir["tmp"] # NoFile THEN i = dir["tmp"] ELSE HasFreeInode /\ i = FreeInode
         /\ data' = [data EXCEPT ![i] = Empty]
         /\ synced' = IF dir["tmp"] # NoFile THEN synced ELSE [synced EXCEPT ![i] = Empty]
         /\ dir' = [dir EXCEPT !["tmp"] = i]
         /\ proc' = [proc EXCEPT ![p].pc = "write", ![p].fd = i]
    /\ UNCHANGED <<diskDir, ops, deleted>>

Write(p) ==
    /\ proc[p].pc = "write"
    /\ data' = [data EXCEPT ![proc[p].fd] = Overwrite(@, proc[p].rec)]
    /\ proc' = [proc EXCEPT ![p].pc = "sync"]
    /\ UNCHANGED <<dir, synced, diskDir, ops, deleted>>

\* Mutant: the temporary file is not flushed before it is renamed.
SyncAllForgotten(p) ==
    /\ proc[p].pc = "sync"
    /\ proc' = [proc EXCEPT ![p].pc = "rename"]
    /\ UNCHANGED <<dir, data, synced, diskDir, ops, deleted>>

SyncAll(p) ==
    /\ proc[p].pc = "sync"
    /\ synced' = [synced EXCEPT ![proc[p].fd] = data[proc[p].fd]]
    /\ proc' = [proc EXCEPT ![p].pc = "rename"]
    /\ UNCHANGED <<dir, data, diskDir, ops, deleted>>

\* fs::rename of the path, which may by now be another process's file, or gone.
Rename(p) ==
    /\ proc[p].pc = "rename"
    /\ dir' = IF dir["tmp"] = NoFile THEN dir
              ELSE [n \in Names |-> IF n = "cbor" THEN dir["tmp"] ELSE NoFile]
    /\ proc' = [proc EXCEPT ![p] = Idle]
    /\ deleted' = (deleted /\ proc[p].op # "pair")
    /\ UNCHANGED <<data, synced, diskDir, ops>>

SavePair(p) == Create(p) \/ Write(p) \/ SyncAll(p) \/ Rename(p)

-----------------------------------------------------------------------------
(* The environment: a process dies, or a step of save_pair fails and it    *)
(* returns with the temporary file left behind; the directory is written   *)
(* back; the machine loses power and every process with it.                *)

Die(p) ==
    /\ proc[p].pc # "idle"
    /\ proc' = [proc EXCEPT ![p] = Idle]
    /\ UNCHANGED <<dir, data, synced, diskDir, ops, deleted>>

WriteBackDir ==
    /\ diskDir # dir
    /\ diskDir' = dir
    /\ UNCHANGED <<dir, data, synced, proc, ops, deleted>>

WriteBackData(i) ==
    /\ synced[i] # data[i]
    /\ synced' = [synced EXCEPT ![i] = data[i]]
    /\ UNCHANGED <<dir, data, diskDir, proc, ops, deleted>>

PowerLoss ==
    /\ dir' = diskDir
    /\ data' = synced
    /\ proc' = [p \in Procs |-> Idle]
    /\ deleted' = FALSE
    /\ UNCHANGED <<synced, diskDir, ops>>

Next ==
    \/ \E p \in Procs :
         \/ BeginEndpointUpdate(p) \/ BeginCertUpdate(p) \/ BeginPairing(p)
         \/ DeletePair(p) \/ SavePair(p) \/ Die(p)
    \/ WriteBackDir
    \/ \E i \in Inodes : WriteBackData(i)
    \/ PowerLoss

Spec == Init /\ [][Next]_vars

-----------------------------------------------------------------------------
(* Properties.                                                             *)

(***************************************************************************)
(* A lone process stores records atomically, through crashes and power     *)
(* loss at any step of save_pair: the vault behaves as the PairStore.      *)
(***************************************************************************)
Store == INSTANCE PairStore
    WITH Records <- Record, NoRecord <- None,
         stored  <- Decode(dir, data, "cbor"),
         durable <- Decode(diskDir, synced, "cbor")

StoreSpec == Store!Spec

(***************************************************************************)
(* "Delete and revoke a pair record" (delete_pair): a deleted pair is not  *)
(* stored again unless it is paired again.                                 *)
(***************************************************************************)
RevokedStaysRevoked == deleted => Stored = None

=============================================================================
