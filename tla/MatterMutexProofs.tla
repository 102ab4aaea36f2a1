------------------------- MODULE MatterMutexProofs -------------------------
(* Theorems about matter_mutex and its lock objects, for any threads, any  *)
(* lock objects and any sharing of them.                                   *)
EXTENDS MatterMutex, TLAPS

(* The inductive invariant: types, whoever is inside owns the mutex, and a *)
(* thread in lock() or unlock() is a user of that lock object.             *)
MutexInv ==
  /\ MutexTypeOK
  /\ \A t \in Threads : Inside(t) => mutex = t
  /\ \A t \in Threads : stage[t] # "out" => t \in Users[via[t]]

LEMMA MutexInitInv == MutexInit => MutexInv
  BY UsersAssumption, FreeAssumption
     DEF MutexInit, MutexInv, MutexTypeOK, Stages, Inside

\* No step of lock() or unlock() disturbs the invariant.
LEMMA MutexStepInv == MutexInv /\ [MutexNext]_mutexVars => MutexInv'
<1> SUFFICES ASSUME MutexInv, [MutexNext]_mutexVars PROVE MutexInv'
  OBVIOUS
<1> USE UsersAssumption, FreeAssumption DEF MutexInv, MutexTypeOK, Stages, Inside
<1>1. ASSUME NEW t \in Threads, NEW l \in Locks, Lock(t, l) PROVE MutexInv'
  BY <1>1 DEF Lock
<1>2. ASSUME NEW t \in Threads, Acquire(t) PROVE MutexInv'
  BY <1>2 DEF Acquire
<1>3. ASSUME NEW t \in Threads, SetOwns(t) PROVE MutexInv'
  BY <1>3 DEF SetOwns
<1>4. ASSUME NEW t \in Threads, Unlock(t) PROVE MutexInv'
  BY <1>4 DEF Unlock
<1>5. ASSUME NEW t \in Threads, Release(t) PROVE MutexInv'
  BY <1>5 DEF Release
<1>6. ASSUME NEW t \in Threads, ClearOwns(t) PROVE MutexInv'
  BY <1>6 DEF ClearOwns
<1>7. ASSUME NEW t \in Threads, Leave(t) PROVE MutexInv'
  BY <1>7 DEF Leave
<1>8. CASE UNCHANGED mutexVars
  BY <1>8 DEF mutexVars
<1> QED
  BY <1>1, <1>2, <1>3, <1>4, <1>5, <1>6, <1>7, <1>8 DEF MutexNext, LockSteps

LEMMA MutexInvHolds == MutexSpec => []MutexInv
  BY MutexInitInv, MutexStepInv, PTL DEF MutexSpec

\* The state of the mutex and of its lock objects always has its type.
THEOREM MutexTypeCorrect == MutexSpec => []MutexTypeOK
<1>1. MutexInv => MutexTypeOK
  BY DEF MutexInv
<1> QED
  BY <1>1, MutexInvHolds, PTL

LEMMA MutexInvExclusion == MutexInv => Exclusion
  BY DEF MutexInv, Exclusion

(* Sections exclude each other, although the flags of the lock objects     *)
(* race: std::unique_lock shared by threads loses unlocks, never locks.    *)
THEOREM MutexExclusion == MutexSpec => []Exclusion
  BY MutexInvExclusion, MutexInvHolds, PTL

\* A mutex that one thread leaked is out of everybody's reach for good.
THEOREM LeakPermanent == MutexSpec => LeakIsForever
<1>1. MutexInv /\ [MutexNext]_mutexVars
        => [\A t \in Threads : Leaked(t) => Leaked(t)']_mutexVars
  <2> SUFFICES ASSUME MutexInv, MutexNext, NEW s \in Threads, Leaked(s)
               PROVE Leaked(s)'
    OBVIOUS
  <2> USE FreeAssumption DEF MutexInv, MutexTypeOK, Inside, Leaked
  <2>1. ASSUME NEW t \in Threads, NEW l \in Locks, Lock(t, l) PROVE Leaked(s)'
    BY <2>1 DEF Lock
  <2>2. ASSUME NEW t \in Threads, Acquire(t) \/ Release(t) PROVE Leaked(s)'
    BY <2>2 DEF Acquire, Release
  <2>3. ASSUME NEW t \in Threads, SetOwns(t) \/ ClearOwns(t) PROVE Leaked(s)'
    BY <2>3 DEF SetOwns, ClearOwns
  <2>4. ASSUME NEW t \in Threads, Unlock(t) \/ Leave(t) PROVE Leaked(s)'
    BY <2>4 DEF Unlock, Leave
  <2> QED
    BY <2>1, <2>2, <2>3, <2>4 DEF MutexNext, LockSteps
<1> QED
  BY <1>1, MutexInvHolds, PTL DEF MutexSpec, LeakIsForever

LEMMA SoleUserStep ==
  MutexInv /\ SoleUserFlag /\ [MutexNext]_mutexVars => SoleUserFlag'
<1> SUFFICES ASSUME MutexInv, SoleUserFlag, [MutexNext]_mutexVars,
                    NEW k \in Locks, NEW s \in Threads,
                    Users[k] = {s}, via'[s] = k
             PROVE  FlagExact(k, s)'
  BY DEF SoleUserFlag, FlagExact
<1> USE UsersAssumption, FreeAssumption
    DEF MutexInv, MutexTypeOK, Stages, Inside, SoleUserFlag, FlagExact
<1>1. ASSUME NEW t \in Threads, NEW l \in Locks, Lock(t, l) PROVE FlagExact(k, s)'
  BY <1>1 DEF Lock
<1>2. ASSUME NEW t \in Threads, Acquire(t) PROVE FlagExact(k, s)'
  BY <1>2 DEF Acquire
<1>3. ASSUME NEW t \in Threads, SetOwns(t) PROVE FlagExact(k, s)'
  BY <1>3 DEF SetOwns
<1>4. ASSUME NEW t \in Threads, Unlock(t) \/ Leave(t) PROVE FlagExact(k, s)'
  BY <1>4 DEF Unlock, Leave
<1>5. ASSUME NEW t \in Threads, Release(t) PROVE FlagExact(k, s)'
  BY <1>5 DEF Release
<1>6. ASSUME NEW t \in Threads, ClearOwns(t) PROVE FlagExact(k, s)'
  BY <1>6 DEF ClearOwns
<1>7. CASE UNCHANGED mutexVars
  BY <1>7 DEF mutexVars
<1> QED
  BY <1>1, <1>2, <1>3, <1>4, <1>5, <1>6, <1>7 DEF MutexNext, LockSteps

\* The flag of a lock object that one thread uses alone tells the truth.
THEOREM SoleUserFlagExact == MutexSpec => []SoleUserFlag
<1>1. MutexInit => SoleUserFlag
  BY DEF MutexInit, SoleUserFlag, FlagExact
<1> QED
  BY <1>1, SoleUserStep, MutexInvHolds, PTL DEF MutexSpec
=============================================================================
