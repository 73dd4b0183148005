----------------------------- MODULE MemoryLock -----------------------------
(* The write lock of a memory directory (packages/memory/src/lock.ts): a file  *)
(* beside the directory, created exclusively, that every cooperating writer    *)
(* holds while it changes the directory. Waiting ends with the lock, a         *)
(* timeout or an abort; none of them changes the lock, so a caller that gives  *)
(* up is an action of the caller. Nothing steals a lock by its age: the lock   *)
(* of a process that died stays until the operator removes it.                 *)
CONSTANTS LockRoots,   \* the directories that have a lock
          NoProc

ASSUME LockAssumption == NoProc \notin LockRoots

VARIABLE lock          \* [LockRoots -> the process whose lock file exists, or NoProc]

Free(r) == lock[r] = NoProc
Holds(p, r) == lock[r] = p

LockInit == lock = [r \in LockRoots |-> NoProc]

Acquire(p, r) == Free(r) /\ lock' = [lock EXCEPT ![r] = p]

(* The file is removed only if it is the one this process created.             *)
ReleaseAll(p) == lock' = [r \in LockRoots |-> IF Holds(p, r) THEN NoProc ELSE lock[r]]

(* The operator stops the writers and removes the lock of one that is dead.    *)
RemoveLock(r, Dead) == lock[r] \in Dead /\ lock' = [lock EXCEPT ![r] = NoProc]
=============================================================================
