---------------------------- MODULE ProviderProofs ----------------------------
(***************************************************************************)
(* Theorems about the Linux storage provider, for any number of threads    *)
(* and descriptors.  The workers' guarantee holds whatever the sessions do *)
(* to the lock; the contract of the provider holds while every caller has  *)
(* held the dispatch lock.                                                 *)
(***************************************************************************)
EXTENDS Provider, FiniteSetTheorems, WellFoundedInduction, TLAPS

(* The types of the provider's state and of its threads' locals.           *)
ProviderTypeOK ==
    /\ fds \in [Fds -> {"free", "lock", "snapshot", "staging"}]
    /\ flock \subseteq Fds
    /\ lockFd \in Fds \cup {0}
    /\ dispatch \in Workers \cup {NoThread}
    /\ snapshot \in [version : Nat, whole : BOOLEAN]
    /\ staging \in {"absent", "empty", "whole"}
    /\ pc \in [Threads -> {"out"} \cup Acquiring \cup Body \cup Releasing]
    /\ own \in [Threads -> Fds \cup {0}]
    /\ seen \in [Threads -> Fds \cup {0}]
    /\ io \in [Threads -> Fds \cup {0}]
    /\ base \in [Threads -> Nat \cup {-1}]
    /\ ok \in [Threads -> BOOLEAN]
    /\ serial \in BOOLEAN

(* A worker inside the provider holds the dispatch lock, what it read is   *)
(* the current version or was refused, and only workers replace.           *)
Reading == {"readbytes", "readclose", "ready"}
Replacing == {"write", "writeclose", "promote"}
Consistent(t) ==
    /\ pc[t] # "out" => dispatch = t
    /\ pc[t] \in {"out", "read"} \cup Acquiring => base[t] = -1
    /\ pc[t] \in Reading => base[t] \in {-1, snapshot.version}
    /\ pc[t] \in Replacing => base[t] = snapshot.version
WorkerInv ==
    /\ \A t \in Workers : Consistent(t)
    /\ \A t \in Sessions : pc[t] \notin Replacing

(* While only workers call, the provider is in one of the states of the    *)
(* one call in progress: which descriptors are open, who holds the flock,  *)
(* what the field says and how far the staging file is.                    *)
Holds(locks, others, what, locked, field) ==
    /\ \A f \in Fds :
           fds[f] = IF f \in locks THEN "lock" ELSE IF f \in others THEN what ELSE "free"
    /\ flock = locked
    /\ lockFd = field
Quiet == Holds({}, {}, "free", {}, 0) /\ staging = "absent"

Stage(t) ==
    LET f == own[t]
        i == io[t]
        at == pc[t]
    IN  /\ at \in {"test", "open"} => Quiet
        /\ at \notin {"test", "open"} => f \in Fds
        /\ at # "drop"
        /\ at = "flock" => Holds({f}, {}, "free", {}, 0)
        /\ at = "store" => Holds({f}, {}, "free", {f}, 0)
        /\ at \in {"read", "ready", "promote", "reltest", "relunlock"} =>
               Holds({f}, {}, "free", {f}, f)
        /\ at \in {"readbytes", "readclose"} =>
               i \in Fds \ {f} /\ Holds({f}, {i}, "snapshot", {f}, f)
        /\ at \in {"write", "writeclose"} =>
               i \in Fds \ {f} /\ Holds({f}, {i}, "staging", {f}, f)
        /\ at \in {"relload", "relclose"} => Holds({f}, {}, "free", {}, f)
        /\ at \in {"relunlock", "relclose"} => seen[t] = f
        /\ at = "relreset" => Holds({}, {}, "free", {}, f)
        /\ at \notin Replacing => staging = "absent"
        /\ at \in {"writeclose", "promote"} => (ok[t] => staging = "whole")
SerialInv ==
    serial =>
        /\ snapshot.whole
        /\ \A t \in Sessions : pc[t] = "out"
        /\ (\A t \in Workers : pc[t] = "out") => Quiet
        /\ \A t \in Workers : pc[t] # "out" => Stage(t)

ProviderInv == ProviderTypeOK /\ WorkerInv /\ SerialInv

-----------------------------------------------------------------------------
(* open returns the lowest free descriptor: there is one, and it is free.  *)
LEMMA LowestIsFree == FreeFds # {} => Lowest \in FreeFds
  <1> SUFFICES ASSUME FreeFds # {} PROVE Lowest \in FreeFds
    OBVIOUS
  <1> DEFINE R == {ss \in Nat \X Nat : ss[1] < ss[2]}
  <1>1. FreeFds \in SUBSET Nat
    BY ProviderAssumption DEF FreeFds, Fds
  <1>2. IsWellFoundedOn(R, Nat)
    BY NatLessThanWellFounded DEF OpToRel
  <1>3. \A f, g \in FreeFds : <<g, f>> \in R <=> g < f
    BY <1>1
  <1> HIDE DEF R
  <1>4. PICK f \in FreeFds : \A g \in FreeFds : ~(<<g, f>> \in R)
    BY <1>1, <1>2, WFMin
  <1>5. \A g \in FreeFds : f <= g
    <2>1. f \in Nat /\ \A g \in FreeFds : g \in Nat
      BY <1>1
    <2>2. \A g \in FreeFds : ~(g < f)
      BY <1>3, <1>4
    <2> QED
      BY <2>1, <2>2
  <1> QED
    BY <1>5 DEF Lowest

(* A free provider with the field at -1 (storage initialisation in         *)
(* stn_app_linux.c).                                                       *)
LEMMA ProviderInit == Init => ProviderInv
  <1> SUFFICES ASSUME Init PROVE ProviderInv
    OBVIOUS
  <1>1. ProviderTypeOK
    BY ProviderAssumption DEF Init, ProviderTypeOK
  <1>2. WorkerInv
    BY DEF Init, WorkerInv, Consistent, Threads, Reading, Replacing
  <1>3. SerialInv
    BY DEF Init, SerialInv, Quiet, Holds, Threads
  <1> QED
    BY <1>1, <1>2, <1>3 DEF ProviderInv

(* Leaving a call resets the locals of the thread and nothing else.        *)
LEMMA LeaveType ==
    ASSUME ProviderTypeOK, NEW t \in Threads, Leave(t)
    PROVE  /\ pc' \in [Threads -> {"out"} \cup Acquiring \cup Body \cup Releasing]
           /\ own' \in [Threads -> Fds \cup {0}]
           /\ seen' \in [Threads -> Fds \cup {0}]
           /\ io' \in [Threads -> Fds \cup {0}]
           /\ base' \in [Threads -> Nat \cup {-1}]
           /\ ok' \in [Threads -> BOOLEAN]
           /\ dispatch' \in Workers \cup {NoThread}
  BY DEF ProviderTypeOK, Leave, Goto

(* Closing a descriptor frees what it names by then.                       *)
LEMMA CloseType ==
    ASSUME ProviderTypeOK, NEW f \in Fds \cup {0}, Close(f)
    PROVE  /\ fds' \in [Fds -> {"free", "lock", "snapshot", "staging"}]
           /\ flock' \subseteq Fds
  BY DEF ProviderTypeOK, Close, IsOpen

(* The steps of acquire keep the types.                                    *)
LEMMA AcquireType ==
    ASSUME ProviderTypeOK, NEW t \in Threads, acquire(t), UNCHANGED serial
    PROVE  ProviderTypeOK'
  <1> USE DEF Goto, kernel, files, locals, Acquiring
  <1>1. CASE TestFree(t)
    BY <1>1 DEF TestFree, ProviderTypeOK
  <1>2. CASE TestBusy(t)
    BY <1>2, LeaveType DEF TestBusy, ProviderTypeOK
  <1>3. CASE OpenLock(t)
    BY <1>3, LowestIsFree DEF OpenLock, Opens, ProviderTypeOK, FreeFds
  <1>4. CASE OpenLockFails(t)
    BY <1>4, LeaveType DEF OpenLockFails, ProviderTypeOK
  <1>5. CASE Flock(t)
    <2>1. flock' \subseteq Fds
      BY <1>5 DEF Flock, IsOpen, ProviderTypeOK
    <2> QED
      BY <1>5, <2>1 DEF Flock, ProviderTypeOK
  <1>6. CASE DropLock(t)
    <2>1. own[t] \in Fds \cup {0}
      BY DEF ProviderTypeOK
    <2> QED
      BY <1>6, <2>1, LeaveType, CloseType DEF DropLock, ProviderTypeOK
  <1>7. CASE StoreFd(t)
    BY <1>7 DEF StoreFd, ProviderTypeOK, Body
  <1> QED
    BY <1>1, <1>2, <1>3, <1>4, <1>5, <1>6, <1>7 DEF acquire

(* The steps of read_snapshot keep the types.                              *)
LEMMA ReadType ==
    ASSUME ProviderTypeOK, NEW t \in Threads, read_snapshot(t), UNCHANGED serial
    PROVE  ProviderTypeOK'
  <1> USE DEF Goto, kernel, files, locals, Body, Releasing
  <1>1. CASE ReadOpen(t)
    <2>1. Lowest \in Fds
      BY <1>1, LowestIsFree DEF ReadOpen, FreeFds
    <2>2. (IF snapshot.whole THEN snapshot.version ELSE -1) \in Nat \cup {-1}
      BY DEF ProviderTypeOK
    <2> QED
      BY <1>1, <2>1, <2>2 DEF ReadOpen, Opens, ProviderTypeOK
  <1>2. CASE ReadRefused(t)
    BY <1>2 DEF ReadRefused, ProviderTypeOK
  <1>3. CASE ReadBytes(t)
    BY <1>3 DEF ReadBytes, ProviderTypeOK
  <1>4. CASE ReadClose(t)
    <2>1. io[t] \in Fds \cup {0}
      BY DEF ProviderTypeOK
    <2> QED
      BY <1>4, <2>1, CloseType DEF ReadClose, ProviderTypeOK
  <1>5. CASE Done(t)
    BY <1>5 DEF Done, ProviderTypeOK
  <1> QED
    BY <1>1, <1>2, <1>3, <1>4, <1>5 DEF read_snapshot

(* The steps of replace_snapshot keep the types.                           *)
LEMMA ReplaceType ==
    ASSUME ProviderTypeOK, NEW t \in Threads, replace_snapshot(t), UNCHANGED serial
    PROVE  ProviderTypeOK'
  <1> USE DEF Goto, kernel, files, locals, Body, Releasing
  <1>1. CASE StageOpen(t)
    <2>1. Lowest \in Fds
      BY <1>1, LowestIsFree DEF StageOpen, StageReady, FreeFds
    <2> QED
      BY <1>1, <2>1 DEF StageOpen, Opens, ProviderTypeOK
  <1>2. CASE StageWrite(t)
    BY <1>2 DEF StageWrite, ProviderTypeOK
  <1>3. CASE StageClose(t)
    <2>1. io[t] \in Fds \cup {0}
      BY DEF ProviderTypeOK
    <2>2. (ok[t] /\ IsOpen(io[t])) \in BOOLEAN
      BY DEF ProviderTypeOK, IsOpen
    <2> QED
      BY <1>3, <2>1, <2>2, CloseType DEF StageClose, ProviderTypeOK
  <1>4. CASE Promote(t)
    <2>1. base[t] + 1 \in Nat
      BY DEF ProviderTypeOK
    <2>2. [version |-> base[t] + 1, whole |-> staging = "whole"]
          \in [version : Nat, whole : BOOLEAN]
      BY <2>1
    <2>3. snapshot' \in [version : Nat, whole : BOOLEAN]
      BY <1>4, <2>2 DEF Promote, ProviderTypeOK
    <2> QED
      BY <1>4, <2>3 DEF Promote, ProviderTypeOK
  <1> QED
    BY <1>1, <1>2, <1>3, <1>4 DEF replace_snapshot

(* The steps of release keep the types.                                    *)
LEMMA ReleaseType ==
    ASSUME ProviderTypeOK, NEW t \in Threads, release(t), UNCHANGED serial
    PROVE  ProviderTypeOK'
  <1> USE DEF Goto, kernel, files, locals, Releasing
  <1>1. CASE RelTest(t)
    BY <1>1 DEF RelTest, ProviderTypeOK
  <1>2. CASE RelNothing(t)
    BY <1>2, LeaveType DEF RelNothing, ProviderTypeOK
  <1>3. CASE RelUnlock(t)
    BY <1>3 DEF RelUnlock, ProviderTypeOK
  <1>4. CASE RelLoad(t)
    BY <1>4 DEF RelLoad, ProviderTypeOK
  <1>5. CASE RelClose(t)
    <2>1. seen[t] \in Fds \cup {0}
      BY DEF ProviderTypeOK
    <2> QED
      BY <1>5, <2>1, CloseType DEF RelClose, ProviderTypeOK
  <1>6. CASE RelReset(t)
    BY <1>6, LeaveType DEF RelReset, ProviderTypeOK
  <1> QED
    BY <1>1, <1>2, <1>3, <1>4, <1>5, <1>6 DEF release

(* Every step of the provider keeps the types.                             *)
LEMMA ProviderTypeNext == ProviderTypeOK /\ [Next]_vars => ProviderTypeOK'
  <1> SUFFICES ASSUME ProviderTypeOK, [Next]_vars PROVE ProviderTypeOK'
    OBVIOUS
  <1>1. ASSUME NEW t \in Threads, Enter(t) PROVE ProviderTypeOK'
    BY <1>1 DEF Enter, Goto, ProviderTypeOK, kernel, files, locals, Acquiring
  <1>2. CASE UNCHANGED vars
    BY <1>2 DEF vars, kernel, files, locals, ProviderTypeOK
  <1> QED
    BY <1>1, <1>2, AcquireType, ReadType, ReplaceType, ReleaseType DEF Next

-----------------------------------------------------------------------------
(* Workers.  A step inside one call leaves the other calls as they are.    *)
Alone(t) ==
    /\ pc[t] # "out"
    /\ pc' = [pc EXCEPT ![t] = pc'[t]]
    /\ base' = [base EXCEPT ![t] = base'[t]]
    /\ dispatch' = IF pc'[t] = "out" /\ dispatch = t THEN NoThread ELSE dispatch

(* So the invariant follows from what the step makes of its own thread, as *)
(* long as the file stays (stn_linux_storage.c: locals of each call).      *)
LEMMA WorkerStep ==
    ASSUME ProviderTypeOK, WorkerInv, NEW t \in Threads, Alone(t), snapshot' = snapshot,
           pc'[t] \in Replacing => t \in Workers,
           t \in Workers =>
               /\ pc'[t] \in {"out", "read"} \cup Acquiring => base'[t] = -1
               /\ pc'[t] \in Reading => base'[t] \in {-1, snapshot.version}
               /\ pc'[t] \in Replacing => base'[t] = snapshot.version
    PROVE  WorkerInv'
  <1>1. ASSUME NEW u \in Threads, u # t PROVE pc'[u] = pc[u] /\ base'[u] = base[u]
    BY <1>1 DEF Alone, ProviderTypeOK
  <1>2. ASSUME NEW u \in Workers PROVE Consistent(u)'
    <2>1. CASE u = t
      BY <2>1 DEF Consistent, WorkerInv, Alone
    <2>2. CASE u # t
      <3>1. pc'[u] = pc[u] /\ base'[u] = base[u] /\ u \in Threads
        BY <1>1, <2>2 DEF Threads
      <3>2. pc[u] # "out" => dispatch' = u
        BY <2>2 DEF WorkerInv, Consistent, Alone
      <3>3. Consistent(u)
        BY DEF WorkerInv
      <3> QED
        BY <3>1, <3>2, <3>3 DEF Consistent
    <2> QED
      BY <2>1, <2>2
  <1>3. ASSUME NEW u \in Sessions PROVE pc'[u] \notin Replacing
    BY <1>1, ProviderAssumption DEF WorkerInv, Threads
  <1> QED
    BY <1>2, <1>3 DEF WorkerInv

(* A worker replaces the version it read, and no other worker is inside    *)
(* the provider meanwhile (dispatch_request).                              *)
LEMMA WorkerPromote ==
    ASSUME ProviderTypeOK, WorkerInv, NEW t \in Threads, Promote(t)
    PROVE  WorkerInv'
  <1>1. t \in Workers /\ dispatch = t /\ pc[t] = "promote"
    BY DEF Promote, WorkerInv, Consistent, Replacing, Threads
  <1>2. pc' = [pc EXCEPT ![t] = "reltest"] /\ base' = base /\ dispatch' = dispatch
    BY DEF Promote, Goto, locals
  <1>3. ASSUME NEW u \in Workers PROVE Consistent(u)'
    <2>1. CASE u = t
      <3>1. pc'[u] = "reltest" /\ dispatch' = t
        BY <1>1, <1>2, <2>1 DEF ProviderTypeOK
      <3> QED
        BY <2>1, <3>1 DEF Consistent, Acquiring, Reading, Replacing
    <2>2. CASE u # t
      <3>1. pc[u] = "out" /\ base[u] = -1
        BY <1>1, <2>2 DEF WorkerInv, Consistent
      <3>2. pc'[u] = "out" /\ base'[u] = -1
        BY <1>2, <2>2, <3>1 DEF ProviderTypeOK, Threads
      <3> QED
        BY <3>2 DEF Consistent, Acquiring, Reading, Replacing
    <2> QED
      BY <2>1, <2>2
  <1>4. ASSUME NEW u \in Sessions PROVE pc'[u] \notin Replacing
    BY <1>1, <1>2, ProviderAssumption DEF WorkerInv, ProviderTypeOK, Threads
  <1> QED
    BY <1>3, <1>4 DEF WorkerInv

(* Every step keeps the workers consistent with the file, whatever the     *)
(* sessions do (stn_linux_storage.c, dispatch_request).                    *)
LEMMA WorkerNext == ProviderTypeOK /\ WorkerInv /\ [Next]_vars => WorkerInv'
  <1> SUFFICES ASSUME ProviderTypeOK, WorkerInv, [Next]_vars PROVE WorkerInv'
    OBVIOUS
  <1> USE DEF Goto, kernel, files, locals
  <1>1. ASSUME NEW t \in Threads, Enter(t) PROVE WorkerInv'
    <2>1. /\ pc' = [pc EXCEPT ![t] = "test"] /\ pc[t] = "out"
          /\ base' = base /\ snapshot' = snapshot
          /\ t \in Workers => dispatch = NoThread /\ dispatch' = t
          /\ t \notin Workers => dispatch' = dispatch
      BY <1>1 DEF Enter
    <2>2. ASSUME NEW u \in Workers PROVE Consistent(u)'
      <3>1. CASE u = t
        BY <2>1, <3>1 DEF WorkerInv, Consistent, ProviderTypeOK, Acquiring, Reading, Replacing
      <3>2. CASE u # t
        <4>1. pc'[u] = pc[u] /\ base'[u] = base[u]
          BY <2>1, <3>2 DEF ProviderTypeOK, Threads
        <4>2. Consistent(u)
          BY DEF WorkerInv
        <4>3. pc[u] # "out" => dispatch' = u
          BY <2>1, <4>2, ProviderAssumption DEF Consistent
        <4> QED
          BY <2>1, <4>1, <4>2, <4>3 DEF Consistent
      <3> QED
        BY <3>1, <3>2
    <2>3. ASSUME NEW u \in Sessions PROVE pc'[u] \notin Replacing
      BY <2>1 DEF WorkerInv, ProviderTypeOK, Threads, Replacing
    <2> QED
      BY <2>2, <2>3 DEF WorkerInv
  <1>2. ASSUME NEW t \in Threads, Leave(t), pc[t] # "out", snapshot' = snapshot PROVE WorkerInv'
    <2>1. pc'[t] = "out" /\ base'[t] = -1 /\ Alone(t)
      BY <1>2 DEF Leave, Alone, ProviderTypeOK
    <2> QED
      BY <1>2, <2>1, WorkerStep DEF Acquiring, Reading, Replacing
  <1>3. ASSUME NEW t \in Threads, acquire(t) PROVE WorkerInv'
    <2>1. CASE TestBusy(t) \/ OpenLockFails(t) \/ DropLock(t)
      BY <1>2, <2>1 DEF TestBusy, OpenLockFails, DropLock
    <2>2. CASE TestFree(t) \/ OpenLock(t) \/ Flock(t) \/ StoreFd(t)
      <3>1. /\ pc[t] \in Acquiring /\ pc'[t] \in Acquiring \cup {"read"}
            /\ base' = base /\ snapshot' = snapshot /\ dispatch' = dispatch
            /\ pc' = [pc EXCEPT ![t] = pc'[t]]
        BY <2>2 DEF TestFree, OpenLock, Flock, StoreFd, Acquiring, ProviderTypeOK
      <3>2. Alone(t)
        BY <3>1 DEF Alone, Acquiring, ProviderTypeOK
      <3>3. t \in Workers => base'[t] = -1
        BY <3>1 DEF WorkerInv, Consistent
      <3> QED
        BY <3>1, <3>2, <3>3, WorkerStep DEF Acquiring, Reading, Replacing
    <2> QED
      BY <1>3, <2>1, <2>2 DEF acquire
  <1>4. ASSUME NEW t \in Threads, read_snapshot(t) PROVE WorkerInv'
    <2>1. CASE ReadOpen(t)
      <3>1. /\ Alone(t) /\ snapshot' = snapshot /\ pc'[t] = "readbytes"
            /\ base'[t] \in {-1, snapshot.version}
        BY <2>1 DEF ReadOpen, Alone, ProviderTypeOK
      <3> QED
        BY <3>1, WorkerStep DEF Acquiring, Reading, Replacing
    <2>2. CASE ReadRefused(t) \/ Done(t)
      <3>1. Alone(t) /\ snapshot' = snapshot /\ pc'[t] = "reltest"
        BY <2>2 DEF ReadRefused, Done, Alone, ProviderTypeOK
      <3> QED
        BY <3>1, WorkerStep DEF Acquiring, Reading, Replacing
    <2>3. CASE ReadBytes(t) \/ ReadClose(t)
      <3>1. /\ Alone(t) /\ snapshot' = snapshot /\ pc'[t] \in Reading /\ pc[t] \in Reading
            /\ base'[t] \in {-1, base[t]}
        BY <2>3 DEF ReadBytes, ReadClose, Alone, ProviderTypeOK, Reading
      <3>2. t \in Workers => base[t] \in {-1, snapshot.version}
        BY <3>1 DEF WorkerInv, Consistent
      <3> QED
        BY <3>1, <3>2, WorkerStep DEF Acquiring, Reading, Replacing
    <2> QED
      BY <1>4, <2>1, <2>2, <2>3 DEF read_snapshot
  <1>5. ASSUME NEW t \in Threads, replace_snapshot(t) PROVE WorkerInv'
    <2>1. CASE StageOpen(t)
      <3>1. /\ Alone(t) /\ snapshot' = snapshot /\ pc'[t] = "write" /\ pc[t] = "ready"
            /\ base'[t] = base[t] /\ t \in Workers /\ base[t] # -1
        BY <2>1 DEF StageOpen, Alone, ProviderTypeOK
      <3>2. base[t] = snapshot.version
        BY <3>1 DEF WorkerInv, Consistent, Reading
      <3> QED
        BY <3>1, <3>2, WorkerStep DEF Acquiring, Reading, Replacing
    <2>2. CASE StageWrite(t) \/ StageClose(t)
      <3>1. /\ Alone(t) /\ snapshot' = snapshot /\ pc[t] \in Replacing /\ pc'[t] \in Replacing
            /\ base'[t] = base[t]
        BY <2>2 DEF StageWrite, StageClose, Alone, ProviderTypeOK, Replacing
      <3>2. t \in Workers /\ base[t] = snapshot.version
        BY <3>1 DEF WorkerInv, Consistent, Threads
      <3> QED
        BY <3>1, <3>2, WorkerStep DEF Acquiring, Reading, Replacing
    <2>3. CASE Promote(t)
      BY <2>3, WorkerPromote
    <2> QED
      BY <1>5, <2>1, <2>2, <2>3 DEF replace_snapshot
  <1>6. ASSUME NEW t \in Threads, release(t) PROVE WorkerInv'
    <2>1. CASE RelNothing(t) \/ RelReset(t)
      BY <1>2, <2>1 DEF RelNothing, RelReset
    <2>2. CASE RelTest(t) \/ RelUnlock(t) \/ RelLoad(t) \/ RelClose(t)
      <3>1. Alone(t) /\ snapshot' = snapshot /\ pc'[t] \in Releasing
        BY <2>2 DEF RelTest, RelUnlock, RelLoad, RelClose, Alone, ProviderTypeOK, Releasing
      <3> QED
        BY <3>1, WorkerStep DEF Acquiring, Reading, Replacing, Releasing
    <2> QED
      BY <1>6, <2>1, <2>2 DEF release
  <1>7. CASE UNCHANGED vars
    BY <1>7 DEF vars, WorkerInv, Consistent
  <1> QED
    BY <1>1, <1>3, <1>4, <1>5, <1>6, <1>7 DEF Next

(* Whatever the inbound sessions do to the lock, what a worker replaces is *)
(* exactly the version it read (dispatch_request, outbound_thread,         *)
(* internal_miner_thread).                                                 *)
THEOREM WorkersAreSafe == Spec => []WorkersLoseNothing
  <1>1. WorkerInv => WorkersLoseNothing
    BY DEF WorkerInv, Consistent, WorkersLoseNothing, Replacing
  <1>2. Init => ProviderTypeOK /\ WorkerInv
    BY ProviderInit DEF ProviderInv
  <1> QED
    BY <1>1, <1>2, ProviderTypeNext, WorkerNext, PTL DEF Spec

-----------------------------------------------------------------------------
(* While only workers call, one call is in progress at a time              *)
(* (dispatch_request).                                                     *)
LEMMA OneCall ==
    ASSUME ProviderInv, serial, NEW t \in Threads, pc[t] # "out"
    PROVE  t \in Workers /\ Stage(t) /\ \A u \in Threads : u # t => pc[u] = "out"
  BY DEF ProviderInv, SerialInv, WorkerInv, Consistent, Threads

(* What a step of the call in progress must establish: its next stage, or  *)
(* a quiet provider when it returns.                                       *)
NextStage(t) == IF pc[t] = "out" THEN Quiet ELSE Stage(t)

(* The steps of acquire: the lock file is opened, locked and remembered,   *)
(* and alone nothing refuses the lock.                                     *)
LEMMA AcquireStage ==
    ASSUME ProviderInv, serial, NEW t \in Threads, pc[t] # "out", acquire(t)
    PROVE  NextStage(t)' /\ snapshot' = snapshot
  <1>1. /\ t \in Workers /\ Stage(t) /\ ProviderTypeOK
    BY OneCall DEF ProviderInv
  <1> USE DEF Goto, kernel, files, locals, Replacing
  <1>2. CASE TestFree(t)
    BY <1>1, <1>2 DEF TestFree, NextStage, Stage, Quiet, Holds, ProviderTypeOK
  <1>3. CASE TestBusy(t)
    BY <1>1, <1>3 DEF TestBusy, Stage, Quiet, Holds
  <1>4. CASE OpenLock(t)
    <2>1. Quiet /\ FreeFds # {} /\ Lowest \in FreeFds
      BY <1>1, <1>4, LowestIsFree DEF OpenLock, Stage
    <2>2. /\ pc'[t] = "flock" /\ own'[t] = Lowest /\ staging' = "absent"
          /\ fds' = [fds EXCEPT ![Lowest] = "lock"] /\ flock' = {} /\ lockFd' = 0
      BY <1>1, <1>4, <2>1 DEF OpenLock, Opens, Quiet, Holds, ProviderTypeOK
    <2>3. Lowest \in Fds
      BY <2>1 DEF FreeFds
    <2> QED
      BY <1>1, <1>4, <2>1, <2>2, <2>3 DEF OpenLock, NextStage, Stage, Quiet, Holds, ProviderTypeOK
  <1>5. CASE OpenLockFails(t)
    <2>1. Quiet /\ FreeFds = {}
      BY <1>1, <1>5 DEF OpenLockFails, Stage
    <2>2. 1 \in Fds
      BY ProviderAssumption DEF Fds
    <2> QED
      BY <2>1, <2>2 DEF FreeFds, Quiet, Holds
  <1>6. CASE Flock(t)
    <2>1. Holds({own[t]}, {}, "free", {}, 0) /\ own[t] \in Fds /\ staging = "absent"
      BY <1>1, <1>6 DEF Flock, Stage
    <2>2. IsOpen(own[t]) /\ ~LockedElsewhere(own[t])
      BY <2>1, ProviderAssumption DEF IsOpen, LockedElsewhere, Holds, Fds
    <2>3. flock' = {own[t]} /\ pc'[t] = "store"
      BY <1>1, <1>6, <2>1, <2>2 DEF Flock, Holds, ProviderTypeOK
    <2> QED
      BY <1>1, <1>6, <2>1, <2>3 DEF Flock, NextStage, Stage, Holds, ProviderTypeOK
  <1>7. CASE DropLock(t)
    BY <1>1, <1>7 DEF DropLock, Stage
  <1>8. CASE StoreFd(t)
    BY <1>1, <1>8 DEF StoreFd, NextStage, Stage, Holds, ProviderTypeOK
  <1>9. snapshot' = snapshot
    BY DEF acquire, TestFree, TestBusy, OpenLock, OpenLockFails, Flock, DropLock, StoreFd
  <1> QED
    BY <1>2, <1>3, <1>4, <1>5, <1>6, <1>7, <1>8, <1>9 DEF acquire

(* The steps of read_snapshot: a second descriptor is opened and closed    *)
(* again beside the lock.                                                  *)
LEMMA ReadStage ==
    ASSUME ProviderInv, serial, NEW t \in Threads, pc[t] # "out", read_snapshot(t)
    PROVE  NextStage(t)' /\ snapshot' = snapshot
  <1>1. /\ t \in Workers /\ Stage(t) /\ ProviderTypeOK
    BY OneCall DEF ProviderInv
  <1> USE DEF Goto, kernel, files, locals, Replacing
  <1>2. CASE ReadOpen(t)
    <2>1. /\ Holds({own[t]}, {}, "free", {own[t]}, own[t]) /\ own[t] \in Fds
          /\ staging = "absent" /\ Lowest \in FreeFds
      BY <1>1, <1>2, LowestIsFree DEF ReadOpen, Stage
    <2>2. Lowest \in Fds \ {own[t]}
      BY <2>1 DEF FreeFds, Holds
    <2>3. /\ pc'[t] = "readbytes" /\ io'[t] = Lowest /\ own' = own
          /\ fds' = [fds EXCEPT ![Lowest] = "snapshot"] /\ flock' = flock /\ lockFd' = lockFd
      BY <1>1, <1>2, <2>1 DEF ReadOpen, Opens, ProviderTypeOK
    <2> QED
      BY <1>1, <1>2, <2>1, <2>2, <2>3 DEF ReadOpen, NextStage, Stage, Holds, ProviderTypeOK
  <1>3. CASE ReadRefused(t)
    BY <1>1, <1>3 DEF ReadRefused, NextStage, Stage, Holds, ProviderTypeOK
  <1>4. CASE ReadBytes(t)
    BY <1>1, <1>4 DEF ReadBytes, NextStage, Stage, Holds, ProviderTypeOK
  <1>5. CASE ReadClose(t)
    <2>1. /\ Holds({own[t]}, {io[t]}, "snapshot", {own[t]}, own[t]) /\ own[t] \in Fds
          /\ io[t] \in Fds \ {own[t]} /\ staging = "absent"
      BY <1>1, <1>5 DEF ReadClose, Stage
    <2>2. IsOpen(io[t])
      BY <2>1, ProviderAssumption DEF IsOpen, Holds, Fds
    <2>3. /\ pc'[t] = "ready" /\ own' = own
          /\ fds' = [fds EXCEPT ![io[t]] = "free"] /\ flock' = flock /\ lockFd' = lockFd
      BY <1>1, <1>5, <2>1, <2>2 DEF ReadClose, Close, Holds, ProviderTypeOK
    <2> QED
      BY <1>1, <1>5, <2>1, <2>3 DEF ReadClose, NextStage, Stage, Holds, ProviderTypeOK
  <1>6. CASE Done(t)
    BY <1>1, <1>6 DEF Done, NextStage, Stage, Holds, ProviderTypeOK
  <1>7. snapshot' = snapshot
    BY DEF read_snapshot, ReadOpen, ReadRefused, ReadBytes, ReadClose, Done
  <1> QED
    BY <1>2, <1>3, <1>4, <1>5, <1>6, <1>7 DEF read_snapshot

(* The steps of replace_snapshot: what is renamed was written whole.       *)
LEMMA ReplaceStage ==
    ASSUME ProviderInv, serial, NEW t \in Threads, pc[t] # "out", replace_snapshot(t)
    PROVE  NextStage(t)' /\ (snapshot' = snapshot \/ snapshot'.whole)
  <1>1. /\ t \in Workers /\ Stage(t) /\ ProviderTypeOK
    BY OneCall DEF ProviderInv
  <1> USE DEF Goto, kernel, files, locals, Replacing
  <1>2. CASE StageOpen(t)
    <2>1. /\ Holds({own[t]}, {}, "free", {own[t]}, own[t]) /\ own[t] \in Fds
          /\ Lowest \in FreeFds
      BY <1>1, <1>2, LowestIsFree DEF StageOpen, StageReady, Stage
    <2>2. Lowest \in Fds \ {own[t]}
      BY <2>1 DEF FreeFds, Holds
    <2>3. /\ pc'[t] = "write" /\ io'[t] = Lowest /\ own' = own
          /\ fds' = [fds EXCEPT ![Lowest] = "staging"] /\ flock' = flock /\ lockFd' = lockFd
      BY <1>1, <1>2, <2>1 DEF StageOpen, Opens, ProviderTypeOK
    <2> QED
      BY <1>1, <1>2, <2>1, <2>2, <2>3 DEF StageOpen, NextStage, Stage, Holds, ProviderTypeOK
  <1>3. CASE StageWrite(t)
    <2>1. /\ Holds({own[t]}, {io[t]}, "staging", {own[t]}, own[t]) /\ own[t] \in Fds
          /\ io[t] \in Fds \ {own[t]} /\ fds[io[t]] = "staging"
      BY <1>1, <1>3 DEF StageWrite, Stage, Holds
    <2>2. pc'[t] = "writeclose" /\ (ok'[t] => staging' = "whole")
      BY <1>1, <1>3, <2>1 DEF StageWrite, ProviderTypeOK
    <2> QED
      BY <1>1, <1>3, <2>1, <2>2 DEF StageWrite, NextStage, Stage, Holds, ProviderTypeOK
  <1>4. CASE StageClose(t)
    <2>1. /\ Holds({own[t]}, {io[t]}, "staging", {own[t]}, own[t]) /\ own[t] \in Fds
          /\ io[t] \in Fds \ {own[t]} /\ (ok[t] => staging = "whole")
      BY <1>1, <1>4 DEF StageClose, Stage
    <2>2. IsOpen(io[t])
      BY <2>1, ProviderAssumption DEF IsOpen, Holds, Fds
    <2>3. /\ pc'[t] = "promote" /\ own' = own /\ (ok'[t] => ok[t])
          /\ fds' = [fds EXCEPT ![io[t]] = "free"] /\ flock' = flock /\ lockFd' = lockFd
      BY <1>1, <1>4, <2>1, <2>2 DEF StageClose, Close, Holds, ProviderTypeOK
    <2> QED
      BY <1>1, <1>4, <2>1, <2>3 DEF StageClose, NextStage, Stage, Holds, ProviderTypeOK
  <1>5. CASE Promote(t)
    BY <1>1, <1>5 DEF Promote, NextStage, Stage, Holds, ProviderTypeOK
  <1>6. snapshot' = snapshot \/ snapshot'.whole
    <2>1. CASE Promote(t)
      <3>1. ok[t] => staging = "whole"
        BY <1>1, <2>1 DEF Promote, Stage
      <3>2. \/ snapshot' = snapshot
            \/ ok[t] /\ snapshot' = [version |-> base[t] + 1, whole |-> staging = "whole"]
        BY <2>1 DEF Promote
      <3>3. [version |-> base[t] + 1, whole |-> staging = "whole"].whole = (staging = "whole")
        BY Zenon
      <3> QED
        BY <3>1, <3>2, <3>3, Zenon
    <2>2. CASE ~Promote(t)
      BY <2>2 DEF replace_snapshot, StageOpen, StageWrite, StageClose
    <2> QED
      BY <2>1, <2>2
  <1> QED
    BY <1>2, <1>3, <1>4, <1>5, <1>6 DEF replace_snapshot

(* The steps of release: the lock is dropped, its descriptor closed and    *)
(* the field reset.                                                        *)
LEMMA ReleaseStage ==
    ASSUME ProviderInv, serial, NEW t \in Threads, pc[t] # "out", release(t)
    PROVE  NextStage(t)' /\ snapshot' = snapshot
  <1>1. /\ t \in Workers /\ Stage(t) /\ ProviderTypeOK
    BY OneCall DEF ProviderInv
  <1>0. 0 \notin Fds
    BY ProviderAssumption DEF Fds
  <1> USE DEF Goto, kernel, files, locals, Replacing
  <1>2. CASE RelTest(t)
    BY <1>1, <1>2 DEF RelTest, NextStage, Stage, Holds, ProviderTypeOK
  <1>3. CASE RelNothing(t)
    BY <1>0, <1>1, <1>3 DEF RelNothing, Stage, Holds
  <1>4. CASE RelUnlock(t)
    BY <1>1, <1>4 DEF RelUnlock, NextStage, Stage, Holds, ProviderTypeOK
  <1>5. CASE RelLoad(t)
    BY <1>1, <1>5 DEF RelLoad, NextStage, Stage, Holds, ProviderTypeOK
  <1>6. CASE RelClose(t)
    <2>1. /\ Holds({own[t]}, {}, "free", {}, own[t]) /\ own[t] \in Fds /\ seen[t] = own[t]
          /\ staging = "absent"
      BY <1>1, <1>6 DEF RelClose, Stage
    <2>2. IsOpen(seen[t])
      BY <1>0, <2>1 DEF IsOpen, Holds
    <2>3. /\ pc'[t] = "relreset" /\ own' = own
          /\ fds' = [fds EXCEPT ![own[t]] = "free"] /\ flock' = flock /\ lockFd' = lockFd
      BY <1>1, <1>6, <2>1, <2>2 DEF RelClose, Close, Holds, ProviderTypeOK
    <2> QED
      BY <1>1, <1>6, <2>1, <2>3 DEF RelClose, NextStage, Stage, Holds, ProviderTypeOK
  <1>7. CASE RelReset(t)
    BY <1>1, <1>7 DEF RelReset, Leave, NextStage, Quiet, Stage, Holds, ProviderTypeOK
  <1>8. snapshot' = snapshot
    BY DEF release, RelTest, RelNothing, RelUnlock, RelLoad, RelClose, RelReset
  <1> QED
    BY <1>2, <1>3, <1>4, <1>5, <1>6, <1>7, <1>8 DEF release
(* Every step keeps the serial provider in one of its stages               *)
(* (dispatch_request, stn_linux_storage.c).                                *)
LEMMA SerialNext == ProviderInv /\ [Next]_vars => SerialInv'
  <1> SUFFICES ASSUME ProviderInv, [Next]_vars, serial' PROVE SerialInv'
    BY DEF SerialInv
  <1>1. ASSUME NEW t \in Threads, Enter(t) PROVE SerialInv'
    <2>1. /\ t \in Workers /\ dispatch = NoThread /\ serial
          /\ pc' = [pc EXCEPT ![t] = "test"]
          /\ UNCHANGED <<kernel, lockFd, files, locals>>
      BY <1>1 DEF Enter, Goto
    <2>2. \A u \in Threads : pc[u] = "out"
      BY <2>1, ProviderAssumption DEF ProviderInv, SerialInv, WorkerInv, Consistent, Threads
    <2>3. Quiet /\ snapshot.whole
      BY <2>1, <2>2 DEF ProviderInv, SerialInv, Threads
    <2>4. Quiet' /\ snapshot'.whole
      BY <2>1, <2>3 DEF Quiet, Holds, kernel, files
    <2>5. \A u \in Threads : pc'[u] = IF u = t THEN "test" ELSE "out"
      BY <2>1, <2>2 DEF ProviderInv, ProviderTypeOK
    <2>6. Stage(t)'
      BY <2>4, <2>5 DEF Stage, Replacing, Quiet
    <2> QED
      BY <2>1, <2>4, <2>5, <2>6, ProviderAssumption DEF SerialInv, Threads
  <1>2. ASSUME NEW t \in Threads, pc[t] # "out", NextStage(t)',
               snapshot' = snapshot \/ snapshot'.whole, serial' = serial,
               pc' = [pc EXCEPT ![t] = pc'[t]]
        PROVE  SerialInv'
    <2>1. t \in Workers /\ \A u \in Threads : u # t => pc[u] = "out"
      BY <1>2, OneCall
    <2>2. \A u \in Threads : u # t => pc'[u] = "out"
      BY <1>2, <2>1 DEF ProviderInv, ProviderTypeOK
    <2>3. snapshot'.whole
      BY <1>2 DEF ProviderInv, SerialInv
    <2>4. \A u \in Sessions : pc'[u] = "out"
      BY <2>1, <2>2, ProviderAssumption DEF Threads
    <2>5. (\A u \in Workers : pc'[u] = "out") => Quiet'
      BY <1>2, <2>1 DEF NextStage
    <2>6. \A u \in Workers : pc'[u] # "out" => Stage(u)'
      BY <1>2, <2>1, <2>2 DEF NextStage, Threads
    <2> QED
      BY <2>3, <2>4, <2>5, <2>6 DEF SerialInv
  <1>3. ASSUME NEW t \in Threads, serial' = serial,
               acquire(t) \/ read_snapshot(t) \/ replace_snapshot(t) \/ release(t)
        PROVE  SerialInv'
    <2>1. pc[t] # "out" /\ pc' = [pc EXCEPT ![t] = pc'[t]]
      <3>1. CASE acquire(t)
        BY <3>1 DEF acquire, TestFree, TestBusy, OpenLock, OpenLockFails, Flock, DropLock,
                    StoreFd, Leave, Goto, ProviderInv, ProviderTypeOK
      <3>2. CASE read_snapshot(t)
        BY <3>2 DEF read_snapshot, ReadOpen, ReadRefused, ReadBytes, ReadClose, Done,
                    Goto, ProviderInv, ProviderTypeOK
      <3>3. CASE replace_snapshot(t)
        BY <3>3 DEF replace_snapshot, StageOpen, StageWrite, StageClose, Promote,
                    Goto, ProviderInv, ProviderTypeOK
      <3>4. CASE release(t)
        BY <3>4 DEF release, RelTest, RelNothing, RelUnlock, RelLoad, RelClose, RelReset,
                    Leave, Goto, ProviderInv, ProviderTypeOK
      <3> QED
        BY <1>3, <3>1, <3>2, <3>3, <3>4
    <2>2. NextStage(t)' /\ (snapshot' = snapshot \/ snapshot'.whole)
      BY <1>3, <2>1, AcquireStage, ReadStage, ReplaceStage, ReleaseStage
    <2> QED
      BY <1>2, <1>3, <2>1, <2>2
  <1>4. CASE UNCHANGED vars
    BY <1>4 DEF vars, kernel, files, locals, ProviderInv, SerialInv, Quiet, Holds, Stage
  <1> QED
    BY <1>1, <1>3, <1>4 DEF Next

(* The invariant of the provider holds in every reachable state            *)
(* (stn_linux_storage.c).                                                  *)
THEOREM ProviderCorrect == Spec => []ProviderInv
  <1>1. ProviderInv /\ [Next]_vars => ProviderInv'
    BY ProviderTypeNext, WorkerNext, SerialNext DEF ProviderInv
  <1> QED
    BY <1>1, ProviderInit, PTL DEF Spec

(* The contract follows: with one call in progress nothing else excludes,  *)
(* and a quiet provider holds nothing (includes/stn_storage.h).            *)
LEMMA ContractStep == ProviderInv => SerialContract
  <1> SUFFICES ASSUME ProviderInv, serial
               PROVE  ExclusionCovers /\ QuietMeansReleased /\ PublishedWhole
    BY DEF SerialContract
  <1>1. ExclusionCovers
    BY OneCall DEF ExclusionCovers, Body
  <1>2. QuietMeansReleased
    BY DEF QuietMeansReleased, ProviderInv, SerialInv, Quiet, Holds, FreeFds, Threads
  <1>3. PublishedWhole
    BY DEF PublishedWhole, ProviderInv, SerialInv
  <1> QED
    BY <1>1, <1>2, <1>3

(* As long as every caller has held the dispatch lock, the provider        *)
(* excludes, releases all it took and publishes whole snapshots            *)
(* (includes/stn_storage.h, stn_linux_storage.c).                          *)
THEOREM ContractKept == Spec => []SerialContract
  BY ProviderCorrect, ContractStep, PTL
==============================================================================
