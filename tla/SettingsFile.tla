---------------------------- MODULE SettingsFile ----------------------------
(***************************************************************************)
(* The store under Settings: several processes that each keep one settings *)
(* file in memory as three maps, the keys it had, the keys added and the   *)
(* keys removed, and bring memory and file into agreement with sync().     *)
(*                                                                         *)
(* A store's mutex is held for the whole of a call, so a process is in one *)
(* call at a time and its steps are the calls sync() makes to the file     *)
(* system, each of which may fail.  A writer is alone thanks to flock() on *)
(* a lock file that its holder deletes before it lets go, which is why the *)
(* next holder must look again at what it locked.  Readers take no lock: a *)
(* file is replaced by rename().  A process may die between any two calls; *)
(* the kernel then closes what it had open, and the files stay.            *)
(*                                                                         *)
(* Two stores of one process under two names of a file are two processes   *)
(* here.  A stamp stands for size and time: two contents never share one.  *)
(* Where a key stands in the file, and lines no codec reads, are left out. *)
(***************************************************************************)
EXTENDS Naturals, FiniteSets

CONSTANTS
    Process,    \* the processes, each with one store
    Path,       \* the names the file goes by
    PathOf,     \* mFileName of each process
    LinkOf,     \* where each name leads at first: itself, or a symbolic link
    Key,        \* keys
    Under,      \* each key, with the keys below it
    Value,      \* values
    AtFirst,    \* what an existing file may hold before anything happens
    Inode,      \* the identities of lock files
    NoOne,      \* no process, and no inode
    MaxChanges, \* bound: calls of set, remove and clear
    MaxSyncs,   \* bound: calls of sync
    MaxCrashes  \* bound: crashes

ASSUME SettingsAssumption ==
    /\ PathOf \in [Process -> Path]
    /\ LinkOf \in [Path -> Path]
    /\ Under \in [Key -> SUBSET Key]
    /\ AtFirst \subseteq UNION {[K -> Value] : K \in SUBSET Key}
    /\ NoOne \notin Process \cup Inode

VARIABLES
    files,    \* what each name holds, unless it is a link
    link,     \* where each name leads
    writes,   \* replacements so far; the stamp of the next content
    lockFile, \* the inode of each name's lock file
    lockOf,   \* who has flock()ed each inode
    tmp,      \* the temporary file each process is at
    mem,      \* each store
    fd,       \* the lock file each process has open
    current,  \* the stamp sync() took before a read
    at,       \* where each process is in sync()
    changes, syncs, crashes

disk == <<files, link, writes>>
locks == <<lockFile, lockOf, fd>>
bounds == <<changes, syncs, crashes>>
vars == <<disk, locks, tmp, mem, current, at, bounds>>

Maps == UNION {[K -> Value] : K \in SUBSET Key}
NoKeys == [k \in {} |-> k]
File(version, keys) == [version |-> version, keys |-> keys, whole |-> TRUE]
NoFile == File(0, NoKeys)
NoStamp == [version |-> 0, full |-> FALSE]
NewStore == [original |-> NoKeys, added |-> NoKeys, removed |-> {}, stamp |-> NoStamp]

FileOf(p) == files[link[PathOf[p]]]
StampOf(p) == [version |-> FileOf(p).version, full |-> DOMAIN FileOf(p).keys # {}]

\* stamp(): a file that cannot be examined is reported as one that does not exist.
Stat(p) == {StampOf(p), NoStamp}

ReadOnly(p) == mem[p].added = NoKeys /\ mem[p].removed = {}

\* The given keys without those a store removed, and with those it added.
Merged(keys, store) ==
    [k \in (DOMAIN keys \ store.removed) \cup DOMAIN store.added |->
        IF k \in DOMAIN store.added THEN store.added[k] ELSE keys[k]]

Without(keys, gone) == [k \in DOMAIN keys \ gone |-> keys[k]]

\* To the next step; the stamp is a local of sync(), of use to the read.
GoWith(p, where, stamp) ==
    /\ at' = [at EXCEPT ![p] = where]
    /\ current' = [current EXCEPT ![p] = stamp]

Go(p, where) == GoWith(p, where, NoStamp)

-----------------------------------------------------------------------------
\* The file exists, or not; a store is opened with a sync().
Init ==
    /\ files \in [Path -> {NoFile} \cup {File(1, keys) : keys \in AtFirst}]
    /\ \A f \in Path : LinkOf[f] # f => files[f] = NoFile
    /\ link = LinkOf
    /\ writes = 1
    /\ lockFile = [f \in Path |-> NoOne]
    /\ lockOf = [i \in Inode |-> NoOne]
    /\ tmp = [p \in Process |-> "none"]
    /\ mem = [p \in Process |-> NewStore]
    /\ fd = [p \in Process |-> NoOne]
    /\ current = [p \in Process |-> NoStamp]
    /\ at = [p \in Process |-> "sync"]
    /\ changes = 0
    /\ syncs = 0
    /\ crashes = 0

-----------------------------------------------------------------------------
(* What a program asks of its store. *)

Change(p) ==
    /\ at[p] = "idle"
    /\ changes < MaxChanges
    /\ changes' = changes + 1
    /\ UNCHANGED <<disk, locks, tmp, current, at, syncs, crashes>>

Set(p, k, v) ==
    /\ Change(p)
    /\ mem' = [mem EXCEPT
                 ![p].added = [j \in DOMAIN @ \cup {k} |-> IF j = k THEN v ELSE @[j]],
                 ![p].removed = @ \ {k}]

\* Only a key the store knows of is recorded as removed.
RemoveKey(p, k) ==
    /\ Change(p)
    /\ mem' = [mem EXCEPT
                 ![p].added = Without(@, Under[k]),
                 ![p].removed = @ \cup (Under[k] \cap DOMAIN mem[p].original)]

Clear(p) ==
    /\ Change(p)
    /\ mem' = [mem EXCEPT ![p].added = NoKeys,
                          ![p].removed = DOMAIN mem[p].original]

CallSync(p) ==
    /\ at[p] = "idle"
    /\ syncs < MaxSyncs
    /\ syncs' = syncs + 1
    /\ Go(p, "sync")
    /\ UNCHANGED <<disk, locks, tmp, mem, changes, crashes>>

-----------------------------------------------------------------------------
(* sync(), one call of the file system after the other. *)

UpToDate(p) ==
    /\ at[p] = "sync"
    /\ ReadOnly(p)
    /\ mem[p].stamp.full
    /\ StampOf(p) = mem[p].stamp
    /\ Go(p, "idle")
    /\ UNCHANGED <<disk, locks, tmp, mem, bounds>>

\* A writer takes another stamp when it has the lock.
Begin(p) ==
    /\ at[p] = "sync"
    /\ \E stamp \in Stat(p) :
          /\ ~(ReadOnly(p) /\ mem[p].stamp.full /\ stamp = mem[p].stamp)
          /\ IF ReadOnly(p) THEN GoWith(p, "read", stamp) ELSE GoWith(p, "access", NoStamp)
    /\ UNCHANGED <<disk, locks, tmp, mem, bounds>>

\* isWritable(): the file, or its directory, may not be.
CheckAccess(p) ==
    /\ at[p] = "access"
    /\ \E next \in {"open", "idle"} : Go(p, next)
    /\ UNCHANGED <<disk, locks, tmp, mem, bounds>>

\* A new file gets an inode that no name and no descriptor has; which one is
\* of no interest.
Free(i) == (\A f \in Path : lockFile[f] # i) /\ (\A p \in Process : fd[p] # i)
CanCreate(p, inode) ==
    /\ lockFile[PathOf[p]] = NoOne
    /\ Free(inode)
    /\ inode = CHOOSE i \in Inode : Free(i)

OpenLock(p) ==
    /\ at[p] = "open"
    /\ \/ /\ Go(p, "idle")
          /\ UNCHANGED locks
       \/ \E inode \in Inode :
             /\ lockFile[PathOf[p]] = inode \/ CanCreate(p, inode)
             /\ lockFile' = [lockFile EXCEPT ![PathOf[p]] = inode]
             /\ fd' = [fd EXCEPT ![p] = inode]
             /\ Go(p, "flock")
             /\ UNCHANGED lockOf
    /\ UNCHANGED <<disk, tmp, mem, bounds>>

Flock(p) ==
    /\ at[p] = "flock"
    /\ lockOf[fd[p]] = NoOne
    /\ lockOf' = [lockOf EXCEPT ![fd[p]] = p]
    /\ Go(p, "compare")
    /\ UNCHANGED <<disk, lockFile, fd, tmp, mem, bounds>>

\* Another has it: sleep and try again, or the time is up.  Or flock() fails.
LockRefused(p) ==
    /\ at[p] = "flock"
    /\ fd' = [fd EXCEPT ![p] = NoOne]
    /\ \/ Go(p, "idle")
       \/ lockOf[fd[p]] # NoOne /\ Go(p, "open")
    /\ UNCHANGED <<disk, lockFile, lockOf, tmp, mem, bounds>>

\* close(), which also gives up the lock.
Close(p) ==
    /\ lockOf' = [lockOf EXCEPT ![fd[p]] = NoOne]
    /\ fd' = [fd EXCEPT ![p] = NoOne]

\* CompareLock() that trusts the lock it got.
CompareNothing(p) ==
    /\ at[p] = "compare"
    /\ Go(p, "restamp")
    /\ UNCHANGED <<disk, locks, tmp, mem, bounds>>

KeepLock(p) ==
    /\ at[p] = "compare"
    /\ lockFile[PathOf[p]] = fd[p]
    /\ Go(p, "restamp")
    /\ UNCHANGED <<disk, locks, tmp, mem, bounds>>

\* A lock on a file that its last holder has deleted protects nothing; nor is one
\* kept when either file cannot be examined.  The time that has passed is not looked at.
DropLock(p) ==
    /\ at[p] = "compare"
    /\ Close(p)
    /\ Go(p, "open")
    /\ UNCHANGED <<disk, lockFile, tmp, mem, bounds>>

CompareLock(p) == KeepLock(p) \/ DropLock(p)

\* Restamp() that takes the file for what it was at the last sync().
RestampNot(p) ==
    /\ at[p] = "restamp"
    /\ Go(p, "create")
    /\ UNCHANGED <<disk, locks, tmp, mem, bounds>>

Restamp(p) ==
    /\ at[p] = "restamp"
    /\ \E stamp \in Stat(p) :
          IF stamp = mem[p].stamp THEN Go(p, "create") ELSE GoWith(p, "read", stamp)
    /\ UNCHANGED <<disk, locks, tmp, mem, bounds>>

\* Afterwards a writer goes on and a reader returns; neither is left in the
\* middle: what the store knew is forgotten before the file is read.
Leave(p) == IF fd[p] = NoOne THEN "idle" ELSE "unlink"

\* Forget() that takes the new stamp before the read has succeeded.
ForgetAndStamp(p) ==
    mem' = [mem EXCEPT ![p].original = NoKeys, ![p].stamp = current[p]]

Forget(p) == mem' = [mem EXCEPT ![p].original = NoKeys]

ReadFails(p) ==
    /\ at[p] = "read"
    /\ current[p] # NoStamp
    /\ Forget(p)
    /\ Go(p, Leave(p))
    /\ UNCHANGED <<disk, locks, tmp, bounds>>

\* The file is what it is now, and the stamp what it was before.
Read(p) ==
    /\ at[p] = "read"
    /\ mem' = [mem EXCEPT
                 ![p].original = IF current[p] = NoStamp THEN NoKeys ELSE FileOf(p).keys,
                 ![p].stamp = current[p]]
    /\ Go(p, IF ReadOnly(p) THEN "idle" ELSE "create")
    /\ UNCHANGED <<disk, locks, tmp, bounds>>

Create(p) ==
    /\ at[p] = "create"
    /\ \/ tmp' = [tmp EXCEPT ![p] = "part"] /\ Go(p, "fill")
       \/ UNCHANGED tmp /\ Go(p, "unlink")
    /\ UNCHANGED <<disk, locks, mem, bounds>>

\* write(), fchmod() and fsync(); when one fails the temporary file goes.
Fill(p) ==
    /\ at[p] = "fill"
    /\ \/ tmp' = [tmp EXCEPT ![p] = "whole"] /\ Go(p, "rename")
       \/ tmp' = [tmp EXCEPT ![p] = "none"] /\ Go(p, "unlink")
    /\ UNCHANGED <<disk, locks, mem, bounds>>

Replacement(p) ==
    [version |-> writes + 1, keys |-> Merged(mem[p].original, mem[p]), whole |-> tmp[p] = "whole"]

\* The name then leads to the new file, also when it was a link.
Rename(p) ==
    /\ at[p] = "rename"
    /\ files' = [files EXCEPT ![PathOf[p]] = Replacement(p)]
    /\ link' = [link EXCEPT ![PathOf[p]] = PathOf[p]]
    /\ writes' = writes + 1
    /\ tmp' = [tmp EXCEPT ![p] = "none"]
    /\ mem' = [mem EXCEPT ![p].original = Merged(@, mem[p]),
                          ![p].added = NoKeys,
                          ![p].removed = {}]
    /\ Go(p, "restat")
    /\ UNCHANGED <<locks, bounds>>

RenameFails(p) ==
    /\ at[p] = "rename"
    /\ tmp' = [tmp EXCEPT ![p] = "none"]
    /\ Go(p, "unlink")
    /\ UNCHANGED <<disk, locks, mem, bounds>>

Restat(p) ==
    /\ at[p] = "restat"
    /\ \E stamp \in Stat(p) : mem' = [mem EXCEPT ![p].stamp = stamp]
    /\ Go(p, "unlink")
    /\ UNCHANGED <<disk, locks, tmp, bounds>>

\* The lock file is deleted while its lock is held, or stays for the next to use.
UnlinkLock(p) ==
    /\ at[p] = "unlink"
    /\ \/ lockFile' = [lockFile EXCEPT ![PathOf[p]] = NoOne]
       \/ UNCHANGED lockFile
    /\ Go(p, "close")
    /\ UNCHANGED <<disk, lockOf, fd, tmp, mem, bounds>>

CloseLock(p) ==
    /\ at[p] = "close"
    /\ Close(p)
    /\ Go(p, "idle")
    /\ UNCHANGED <<disk, lockFile, tmp, mem, bounds>>

\* Crash() with a lock that outlives its owner, as a lock by name would.
CrashLeavingLock(p) ==
    /\ crashes < MaxCrashes
    /\ crashes' = crashes + 1
    /\ fd' = [fd EXCEPT ![p] = NoOne]
    /\ tmp' = [tmp EXCEPT ![p] = "none"]
    /\ mem' = [mem EXCEPT ![p] = NewStore]
    /\ GoWith(p, "sync", NoStamp)
    /\ UNCHANGED <<disk, lockFile, lockOf, changes, syncs>>

\* The process dies and is started again: its locks are gone, its files stay; nobody
\* reads the temporary one.
Crash(p) ==
    /\ crashes < MaxCrashes
    /\ crashes' = crashes + 1
    /\ lockOf' = [i \in Inode |-> IF lockOf[i] = p THEN NoOne ELSE lockOf[i]]
    /\ fd' = [fd EXCEPT ![p] = NoOne]
    /\ tmp' = [tmp EXCEPT ![p] = "none"]
    /\ mem' = [mem EXCEPT ![p] = NewStore]
    /\ GoWith(p, "sync", NoStamp)
    /\ UNCHANGED <<disk, lockFile, changes, syncs>>

-----------------------------------------------------------------------------
Sync(p) ==
    \/ UpToDate(p) \/ Begin(p) \/ CheckAccess(p)
    \/ OpenLock(p) \/ Flock(p) \/ LockRefused(p) \/ CompareLock(p)
    \/ Restamp(p) \/ Read(p) \/ ReadFails(p)
    \/ Create(p) \/ Fill(p) \/ Rename(p) \/ RenameFails(p) \/ Restat(p)
    \/ UnlinkLock(p) \/ CloseLock(p)

Ask(p) ==
    \/ \E k \in Key : (\E v \in Value : Set(p, k, v)) \/ RemoveKey(p, k)
    \/ Clear(p)
    \/ CallSync(p)

Next == \E p \in Process : Sync(p) \/ Ask(p) \/ Crash(p)

Spec == Init /\ [][Next]_vars

\* A process in sync() runs on; nobody has to call, or to crash, and no one
\* who waits for the lock counts on the time-out.  Examining the lock file does not
\* fail for ever: nothing else ends the loop of tryLock() then.
FairSpec == Spec /\ \A p \in Process : WF_vars(Sync(p)) /\ SF_vars(KeepLock(p))

-----------------------------------------------------------------------------
(* Correctness. *)

Places == {"idle", "sync", "access", "open", "flock", "compare", "restamp", "read",
           "create", "fill", "rename", "restat", "unlink", "close"}
Stamps == [version : Nat, full : BOOLEAN]
Stores == [original : Maps, added : Maps, removed : SUBSET Key, stamp : Stamps]

\* Every variable has its type, and no key is both set and removed.
TypeOK ==
    /\ files \in [Path -> [version : Nat, keys : Maps, whole : BOOLEAN]]
    /\ link \in [Path -> Path]
    /\ writes \in Nat
    /\ lockFile \in [Path -> Inode \cup {NoOne}]
    /\ lockOf \in [Inode -> Process \cup {NoOne}]
    /\ fd \in [Process -> Inode \cup {NoOne}]
    /\ tmp \in [Process -> {"none", "part", "whole"}]
    /\ mem \in [Process -> Stores]
    /\ \A p \in Process : DOMAIN mem[p].added \cap mem[p].removed = {}
    /\ current \in [Process -> Stamps]
    /\ at \in [Process -> Places]
    /\ changes \in Nat
    /\ syncs \in Nat
    /\ crashes \in Nat

\* The process has been told that it may write, and has not given that up.
Holding(p) ==
    \/ at[p] \in {"restamp", "create", "fill", "rename", "restat", "unlink"}
    \/ at[p] = "read" /\ fd[p] # NoOne

\* At most one process at a time reads, merges and replaces a file, whoever
\* deletes a lock file, opens one that is about to go, or dies holding one.
OneHolder ==
    \A p, q \in Process :
        p # q /\ Holding(p) /\ Holding(q) => PathOf[p] # PathOf[q]

\* The writer's last stat() of its file failed, and it takes the file for missing.
TakenForMissing(p) == mem[p].stamp = NoStamp /\ FileOf(p) # NoFile

\* A file is only ever replaced by what it held at that very moment with one
\* store's changes on top: no process overwrites another's keys with an old
\* copy (class comment of SettingsFile), whatever fails, reads and the lock
\* included, except by a store that takes the file for missing.
MergeKeepsOthers ==
    [][\A f \in Path : files'[f] # files[f] =>
          \E p \in Process :
              /\ PathOf[p] = f
              /\ \/ files'[f].keys = Merged(files[link[f]].keys, mem[p])
                 \/ TakenForMissing(p)]_vars

\* "A file that exists but cannot be read is an AccessError, and nothing is written,
\* because a write would lose the keys in it" (SettingsFile.cpp:332).  Not so of a file
\* that cannot be examined: see the README.
UnexaminedIsLeftAlone ==
    [][\A p \in Process : Rename(p) => ~TakenForMissing(p)]_vars

\* A store whose stamp is the file's knows the keys the file has: not reading
\* it again, as sync() then does not, loses nothing.
StampTellsTheTruth ==
    \A p \in Process :
        at[p] = "idle" /\ mem[p].stamp = StampOf(p) => mem[p].original = FileOf(p).keys

\* No name ever leads to part of a file, whichever call failed, whoever died.
AlwaysWhole == \A f \in Path : files[f].whole

\* Every sync() returns, with the file written or not: a lock always comes
\* free, even that of a process that died with it.
SyncReturns == \A p \in Process : at[p] # "idle" ~> at[p] = "idle"

\* "Two names for one file that are not the same text, for example through a
\* symbolic link, give two instances. They still do not lose each other's
\* changes" (SettingsFile.cpp:142-144): two names of one file keep leading to
\* the same content.
NamesReadAlike ==
    \A p, q \in Process :
        LinkOf[PathOf[p]] = LinkOf[PathOf[q]] => FileOf(p) = FileOf(q)

\* A file is replaced by one process at a time, and by a whole file: what a reader finds is
\* one writer's work, whoever failed or died (SettingsFileIoPosix.cpp).
OneWriterWholeFiles == TypeOK /\ OneHolder /\ AlwaysWhole
=============================================================================
