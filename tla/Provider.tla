------------------------------- MODULE Provider -------------------------------
(***************************************************************************)
(* The Linux storage provider (stn_linux_storage.c) as the threads of one  *)
(* node use it (stn_app_linux.c).  The lock's descriptor is a plain field  *)
(* of the shared provider.  RPC workers, the outbound thread and the       *)
(* internal miner call the provider under the dispatch lock; inbound       *)
(* sessions call it without any lock.  So every load and store of the      *)
(* field and every system call is a step of its own.                       *)
(*                                                                         *)
(* Descriptors are numbers; an open takes the lowest free one, and a close *)
(* frees whatever the number names by then.  0 stands for -1.  The lock    *)
(* belongs to the open file, so closing its descriptor drops it.           *)
(*                                                                         *)
(* A worker's call reads the snapshot and may replace it; a session's call *)
(* only reads.  Contents are abstract: a version, and whether all of its   *)
(* bytes are there.  Decoding refuses what is not a whole snapshot.        *)
(* XxxFault is a faulty variant of Xxx that some property must notice; no  *)
(* behaviour uses it.                                                      *)
(***************************************************************************)
EXTENDS Integers, FiniteSets

CONSTANTS
    Workers,        \* threads that call under the dispatch lock
    Sessions,       \* inbound session threads
    NoThread,
    MaxFd,          \* bound: descriptors of the process
    MaxVersion      \* bound: replacements

ASSUME ProviderAssumption ==
    /\ Workers \cap Sessions = {}
    /\ NoThread \notin Workers \cup Sessions
    /\ MaxFd \in Nat \ {0}
    /\ MaxVersion \in Nat

Threads == Workers \cup Sessions
Fds == 1..MaxFd

VARIABLES
    fds,        \* what each descriptor names
    flock,      \* the descriptors whose open file holds an flock
    lockFd,     \* storage->lock_fd
    dispatch,   \* holder of the dispatch lock
    snapshot,   \* the authoritative file
    staging,    \* the staging file's contents
    pc,
    own,        \* fd of acquire: the descriptor it opened
    seen,       \* the last value release loaded from lock_fd
    io,         \* fd of read_snapshot and replace_snapshot
    base,       \* version read by this call, -1 if none
    ok,         \* ok of replace_snapshot
    serial      \* so far only workers have called (no code reads it)

kernel == <<fds, flock>>
files == <<snapshot, staging>>
locals == <<own, seen, io, base, ok>>
vars == <<kernel, lockFd, dispatch, files, pc, locals, serial>>

Acquiring == {"test", "open", "flock", "drop", "store"}
Body == {"read", "readbytes", "readclose", "ready",
         "write", "writeclose", "promote"}
Releasing == {"reltest", "relunlock", "relload", "relclose", "relreset"}

Init ==
    /\ fds = [f \in Fds |-> "free"]
    /\ flock = {}
    /\ lockFd = 0
    /\ dispatch = NoThread
    /\ snapshot = [version |-> 0, whole |-> TRUE]
    /\ staging = "absent"
    /\ pc = [t \in Threads |-> "out"]
    /\ own = [t \in Threads |-> 0]
    /\ seen = [t \in Threads |-> 0]
    /\ io = [t \in Threads |-> 0]
    /\ base = [t \in Threads |-> -1]
    /\ ok = [t \in Threads |-> TRUE]
    /\ serial = TRUE

-----------------------------------------------------------------------------
Goto(t, at) == pc' = [pc EXCEPT ![t] = at]

FreeFds == {f \in Fds : fds[f] = "free"}
Lowest == CHOOSE f \in FreeFds : \A g \in FreeFds : f <= g
Opens(f, what) == fds' = [fds EXCEPT ![f] = what]
IsOpen(f) == f # 0 /\ fds[f] # "free"

Close(f) ==
    /\ fds' = IF IsOpen(f) THEN [fds EXCEPT ![f] = "free"] ELSE fds
    /\ flock' = flock \ {f}

-----------------------------------------------------------------------------
EnterFault(t) ==
    /\ pc[t] = "out"
    /\ serial' = (serial /\ t \in Workers)
    /\ UNCHANGED dispatch
    /\ Goto(t, "test")
    /\ UNCHANGED <<kernel, lockFd, files, locals>>

(* A call begins: workers lock dispatch first, sessions do not. *)
Enter(t) ==
    /\ pc[t] = "out"
    /\ IF t \in Workers
       THEN dispatch = NoThread /\ dispatch' = t
       ELSE UNCHANGED dispatch
    /\ serial' = (serial /\ t \in Workers)
    /\ Goto(t, "test")
    /\ UNCHANGED <<kernel, lockFd, files, locals>>

(* It ends, and its locals with it. *)
Leave(t) ==
    /\ Goto(t, "out")
    /\ dispatch' = IF dispatch = t THEN NoThread ELSE dispatch
    /\ own' = [own EXCEPT ![t] = 0]
    /\ seen' = [seen EXCEPT ![t] = 0]
    /\ io' = [io EXCEPT ![t] = 0]
    /\ base' = [base EXCEPT ![t] = -1]
    /\ ok' = [ok EXCEPT ![t] = TRUE]

-----------------------------------------------------------------------------
(* acquire *)
TestFree(t) ==
    /\ pc[t] = "test"
    /\ lockFd = 0
    /\ Goto(t, "open")
    /\ UNCHANGED <<kernel, lockFd, dispatch, files, locals>>

TestBusy(t) ==
    /\ pc[t] = "test"
    /\ lockFd # 0
    /\ Leave(t)
    /\ UNCHANGED <<kernel, lockFd, files>>

OpenLock(t) ==
    /\ pc[t] = "open"
    /\ FreeFds # {}
    /\ Opens(Lowest, "lock")
    /\ own' = [own EXCEPT ![t] = Lowest]
    /\ Goto(t, "flock")
    /\ UNCHANGED <<flock, lockFd, dispatch, files, seen, io, base, ok>>

OpenLockFails(t) ==
    /\ pc[t] = "open"
    /\ FreeFds = {}
    /\ Leave(t)
    /\ UNCHANGED <<kernel, lockFd, files>>

(* flock locks whatever file the number names by then.  Two descriptors of *)
(* the snapshot may or may not be of one file, as a replacement makes a    *)
(* new one; there is only one lock file.                                   *)
LockedElsewhere(f) == \E g \in flock \ {f} : fds[g] = fds[f]
Flock(t) ==
    /\ pc[t] = "flock"
    /\ LET f == own[t]
       IN \/ /\ IsOpen(f)
             /\ fds[f] = "lock" => ~LockedElsewhere(f)
             /\ flock' = flock \cup {f}
             /\ Goto(t, "store")
          \/ /\ ~IsOpen(f) \/ LockedElsewhere(f)
             /\ UNCHANGED flock
             /\ Goto(t, "drop")
    /\ UNCHANGED <<fds, lockFd, dispatch, files, locals>>

DropLock(t) ==
    /\ pc[t] = "drop"
    /\ Close(own[t])
    /\ Leave(t)
    /\ UNCHANGED <<lockFd, files>>

StoreFd(t) ==
    /\ pc[t] = "store"
    /\ lockFd' = own[t]
    /\ Goto(t, "read")
    /\ UNCHANGED <<kernel, dispatch, files, locals>>

-----------------------------------------------------------------------------
(* read_snapshot.  The version is that of the file opened. *)
ReadOpen(t) ==
    /\ pc[t] = "read"
    /\ lockFd # 0
    /\ FreeFds # {}
    /\ Opens(Lowest, "snapshot")
    /\ io' = [io EXCEPT ![t] = Lowest]
    /\ base' = [base EXCEPT ![t] = IF snapshot.whole THEN snapshot.version ELSE -1]
    /\ Goto(t, "readbytes")
    /\ UNCHANGED <<flock, lockFd, dispatch, files, own, seen, ok>>

ReadRefused(t) ==
    /\ pc[t] = "read"
    /\ lockFd = 0 \/ FreeFds = {}
    /\ Goto(t, "reltest")
    /\ UNCHANGED <<kernel, lockFd, dispatch, files, locals>>

ReadBytes(t) ==
    /\ pc[t] = "readbytes"
    /\ base' = IF fds[io[t]] = "snapshot" THEN base ELSE [base EXCEPT ![t] = -1]
    /\ Goto(t, "readclose")
    /\ UNCHANGED <<kernel, lockFd, dispatch, files, own, seen, io, ok>>

ReadClose(t) ==
    /\ pc[t] = "readclose"
    /\ base' = IF IsOpen(io[t]) THEN base ELSE [base EXCEPT ![t] = -1]
    /\ Close(io[t])
    /\ Goto(t, "ready")
    /\ UNCHANGED <<lockFd, dispatch, files, own, seen, io, ok>>

(* The call needs nothing more, or what it read was refused. *)
Done(t) ==
    /\ pc[t] = "ready"
    /\ Goto(t, "reltest")
    /\ UNCHANGED <<kernel, lockFd, dispatch, files, locals>>

-----------------------------------------------------------------------------
(* replace_snapshot *)
StageReady == lockFd # 0 /\ staging = "absent" /\ FreeFds # {}
StageOpen(t) ==
    /\ pc[t] = "ready"
    /\ t \in Workers
    /\ base[t] \in 0..(MaxVersion - 1)
    /\ StageReady
    /\ Opens(Lowest, "staging")
    /\ staging' = "empty"
    /\ io' = [io EXCEPT ![t] = Lowest]
    /\ Goto(t, "write")
    /\ UNCHANGED <<flock, lockFd, dispatch, snapshot, own, seen, base, ok>>

(* Bytes go to whatever the descriptor names and is open for writing; the  *)
(* write may also fail by itself.                                          *)
StageWrite(t) ==
    /\ pc[t] = "write"
    /\ \/ /\ fds[io[t]] \in {"staging", "lock"}
          /\ staging' = IF fds[io[t]] = "staging" THEN "whole" ELSE staging
          /\ UNCHANGED ok
       \/ /\ ok' = [ok EXCEPT ![t] = FALSE]
          /\ UNCHANGED staging
    /\ Goto(t, "writeclose")
    /\ UNCHANGED <<kernel, lockFd, dispatch, snapshot, own, seen, io, base>>

(* fsync, when all went well so far, and close *)
StageClose(t) ==
    /\ pc[t] = "writeclose"
    /\ ok' = [ok EXCEPT ![t] = @ /\ IsOpen(io[t])]
    /\ Close(io[t])
    /\ Goto(t, "promote")
    /\ UNCHANGED <<lockFd, dispatch, files, own, seen, io, base>>

(* rename, or unlink of the staging file when anything failed *)
Promote(t) ==
    /\ pc[t] = "promote"
    /\ \/ /\ ok[t]
          /\ snapshot' = [version |-> base[t] + 1, whole |-> staging = "whole"]
       \/ UNCHANGED snapshot
    /\ staging' = "absent"
    /\ Goto(t, "reltest")
    /\ UNCHANGED <<kernel, lockFd, dispatch, locals>>

-----------------------------------------------------------------------------
(* release: the field is loaded for the test and the unlock, and again     *)
(* after that call for the close.                                          *)
RelTest(t) ==
    /\ pc[t] = "reltest"
    /\ lockFd # 0
    /\ seen' = [seen EXCEPT ![t] = lockFd]
    /\ Goto(t, "relunlock")
    /\ UNCHANGED <<kernel, lockFd, dispatch, files, own, io, base, ok>>

RelNothing(t) ==
    /\ pc[t] = "reltest"
    /\ lockFd = 0
    /\ Leave(t)
    /\ UNCHANGED <<kernel, lockFd, files>>

RelUnlock(t) ==
    /\ pc[t] = "relunlock"
    /\ flock' = flock \ {seen[t]}
    /\ Goto(t, "relload")
    /\ UNCHANGED <<fds, lockFd, dispatch, files, locals>>

RelLoad(t) ==
    /\ pc[t] = "relload"
    /\ seen' = [seen EXCEPT ![t] = lockFd]
    /\ Goto(t, "relclose")
    /\ UNCHANGED <<kernel, lockFd, dispatch, files, own, io, base, ok>>

RelClose(t) ==
    /\ pc[t] = "relclose"
    /\ Close(seen[t])
    /\ Goto(t, "relreset")
    /\ UNCHANGED <<lockFd, dispatch, files, locals>>

RelResetFault(t) ==
    /\ pc[t] = "relreset"
    /\ Leave(t)
    /\ UNCHANGED <<kernel, lockFd, files>>

RelReset(t) ==
    /\ pc[t] = "relreset"
    /\ lockFd' = 0
    /\ Leave(t)
    /\ UNCHANGED <<kernel, files>>

-----------------------------------------------------------------------------
acquire(t) ==
    \/ TestFree(t) \/ TestBusy(t) \/ OpenLock(t) \/ OpenLockFails(t)
    \/ Flock(t) \/ DropLock(t) \/ StoreFd(t)
read_snapshot(t) ==
    ReadOpen(t) \/ ReadRefused(t) \/ ReadBytes(t) \/ ReadClose(t) \/ Done(t)
replace_snapshot(t) ==
    StageOpen(t) \/ StageWrite(t) \/ StageClose(t) \/ Promote(t)
release(t) ==
    \/ RelTest(t) \/ RelNothing(t) \/ RelUnlock(t) \/ RelLoad(t)
    \/ RelClose(t) \/ RelReset(t)

Next == \E t \in Threads :
    \/ Enter(t)
    \/ /\ acquire(t) \/ read_snapshot(t) \/ replace_snapshot(t) \/ release(t)
       /\ UNCHANGED serial

Spec == Init /\ [][Next]_vars

-----------------------------------------------------------------------------
(* "Exclusion covers read, validation and publication together" (acquire): *)
(* no two threads are between a successful acquire and their release.      *)
ExclusionCovers ==
    \A t, u \in Threads : pc[t] \in Body /\ pc[u] \in Body => t = u

(* "release cannot fail", "network requests hold no storage/cache lock"    *)
(* (release): when every call has returned, the lock is free, the field    *)
(* says so and no descriptor is left open.                                 *)
QuietMeansReleased ==
    (\A t \in Threads : pc[t] = "out") =>
        flock = {} /\ lockFd = 0 /\ FreeFds = Fds

(* "Replace success means the complete new snapshot was published"         *)
(* (replace_snapshot): the authoritative file is always whole.             *)
PublishedWhole == snapshot.whole

(* As long as every caller has held the dispatch lock, the provider keeps  *)
(* its contract (includes/stn_storage.h): it excludes, releases all it     *)
(* took, and publishes whole snapshots.                                    *)
SerialContract == serial => ExclusionCovers /\ QuietMeansReleased /\ PublishedWhole

(* Whatever the sessions do to the lock, a worker replaces exactly the     *)
(* version it read (dispatch_request, outbound_thread,                     *)
(* internal_miner_thread): no accepted block is lost between two workers.  *)
WorkersLoseNothing ==
    \A t \in Workers : pc[t] \in {"write", "writeclose", "promote"} =>
        base[t] = snapshot.version
==============================================================================
