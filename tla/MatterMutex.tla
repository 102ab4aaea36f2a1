---------------------------- MODULE MatterMutex ----------------------------
(***************************************************************************)
(* The one mutex of the program, MatterializeApp::matter_mutex, and the    *)
(* std::unique_lock objects through which threads take it.  The app, the   *)
(* MattersManager and the BackgroundHandler each keep ONE unique_lock as a *)
(* member, so every server worker that runs a handler shares the manager's *)
(* lock object, ownership flag included.  unique_lock is not thread safe:  *)
(* its lock() tests the flag, locks the mutex and then sets the flag, its  *)
(* unlock() tests the flag, unlocks the mutex and then clears the flag,    *)
(* and these are separate steps here.                                      *)
(***************************************************************************)
EXTENDS FiniteSets

CONSTANTS
  Threads,   \* the threads that ever take the mutex
  Locks,     \* the unique_lock objects over it
  Users,     \* Users[l]: the threads that call l.lock() and l.unlock()
  Free       \* the owner of a mutex nobody owns

ASSUME UsersAssumption == Users \in [Locks -> SUBSET Threads]
ASSUME FreeAssumption == Free \notin Threads /\ Threads # {} /\ Locks # {}

VARIABLES
  mutex,     \* the thread that owns matter_mutex, or Free
  owns,      \* owns[l]: the ownership flag of the lock object l
  stage,     \* stage[t]: how far t is in its critical section
  via        \* via[t]: the lock object of t's current or last section

mutexVars == <<mutex, owns, stage, via>>

(***************************************************************************)
(* "out": not in a section; "acquire": past lock()'s flag test, waiting    *)
(* for the mutex; "set": has the mutex, the flag not yet set; "in": in the *)
(* section; "release": past unlock()'s flag test; "clear": the mutex       *)
(* given back, the flag not yet cleared.                                   *)
(***************************************************************************)
Stages == {"out", "acquire", "set", "in", "release", "clear"}

Inside(t) == stage[t] \in {"set", "in", "release"}

(* std::defer_lock: every lock object starts without the mutex.  via[t] is *)
(* not read before t's first lock().                                       *)
MutexInit ==
  /\ mutex = Free
  /\ owns = [l \in Locks |-> FALSE]
  /\ stage = [t \in Threads |-> "out"]
  /\ via = [t \in Threads |-> CHOOSE l \in Locks : TRUE]

(* lock() of an object whose flag is clear.  With the flag set it throws   *)
(* resource_deadlock_would_occur and changes nothing: the caller's matter. *)
Lock(t, l) ==
  /\ stage[t] = "out"
  /\ t \in Users[l]
  /\ ~owns[l]
  /\ stage' = [stage EXCEPT ![t] = "acquire"]
  /\ via' = [via EXCEPT ![t] = l]
  /\ UNCHANGED <<mutex, owns>>

\* lock() goes on: the mutex is free and this thread gets it.
Acquire(t) ==
  /\ stage[t] = "acquire"
  /\ mutex = Free
  /\ mutex' = t
  /\ stage' = [stage EXCEPT ![t] = "set"]
  /\ UNCHANGED <<owns, via>>

\* lock() ends: the flag of the lock object is set.
SetOwns(t) ==
  /\ stage[t] = "set"
  /\ owns' = [owns EXCEPT ![via[t]] = TRUE]
  /\ stage' = [stage EXCEPT ![t] = "in"]
  /\ UNCHANGED <<mutex, via>>

(* unlock() of an object whose flag is set.  With the flag clear it throws *)
(* operation_not_permitted and the mutex stays locked: see Leave.          *)
Unlock(t) ==
  /\ stage[t] = "in"
  /\ owns[via[t]]
  /\ stage' = [stage EXCEPT ![t] = "release"]
  /\ UNCHANGED <<mutex, owns, via>>

Release(t) ==
  /\ stage[t] = "release"
  /\ mutex' = Free
  /\ stage' = [stage EXCEPT ![t] = "clear"]
  /\ UNCHANGED <<owns, via>>

ClearOwns(t) ==
  /\ stage[t] = "clear"
  /\ owns' = [owns EXCEPT ![via[t]] = FALSE]
  /\ stage' = [stage EXCEPT ![t] = "out"]
  /\ UNCHANGED <<mutex, via>>

(* The section is left by an exception or a return that no guard object    *)
(* undoes: the mutex stays locked and the flag keeps its value.            *)
Leave(t) ==
  /\ stage[t] = "in"
  /\ stage' = [stage EXCEPT ![t] = "out"]
  /\ UNCHANGED <<mutex, owns, via>>

\* The steps inside lock() and unlock(), which no caller's code interrupts.
LockSteps(t) == Acquire(t) \/ SetOwns(t) \/ Release(t) \/ ClearOwns(t)

MutexNext ==
  \E t \in Threads :
    \/ \E l \in Locks : Lock(t, l)
    \/ LockSteps(t)
    \/ Unlock(t)
    \/ Leave(t)

MutexSpec == MutexInit /\ [][MutexNext]_mutexVars
-----------------------------------------------------------------------------
MutexTypeOK ==
  /\ mutex \in Threads \cup {Free}
  /\ owns \in [Locks -> BOOLEAN]
  /\ stage \in [Threads -> Stages]
  /\ via \in [Threads -> Locks]

(* The sections of all the lock objects exclude each other: whoever is in  *)
(* one owns the mutex, however the flags race.                             *)
Exclusion ==
  /\ \A t \in Threads : Inside(t) => mutex = t
  /\ \A s, t \in Threads : Inside(s) /\ Inside(t) => s = t

\* t left a section without unlocking: nobody will ever get the mutex again.
Leaked(t) == mutex = t /\ ~Inside(t)

(* matter_mutex abandoned by a thread is never taken or given back by      *)
(* anybody: one lost unlock stops every later frame and handler.           *)
LeakIsForever == [][\A t \in Threads : Leaked(t) => Leaked(t)']_mutexVars

FlagExact(l, t) ==
  /\ stage[t] \in {"in", "release"} => owns[l]
  /\ owns[l] => mutex = t \/ stage[t] = "clear"

(* A lock object that one thread uses alone, as the main thread uses       *)
(* MatterializeApp::matter_lock, has a flag that tells the truth: it is    *)
(* set exactly while that thread owns the mutex through it, except in the  *)
(* middle of lock() and unlock(), so its unlock() never throws.            *)
SoleUserFlag ==
  \A l \in Locks, t \in Threads :
    Users[l] = {t} /\ via[t] = l => FlagExact(l, t)
=============================================================================
