------------------------- MODULE InputCameraProofs -------------------------
(* Theorems about the input camera, for any workers and devices.           *)
EXTENDS InputCamera, MatterMutexProofs, FiniteSetTheorems

LEMMA CameraThreads ==
  /\ Main \in Threads /\ Workers \subseteq Threads
  /\ AppLock \in Locks /\ ManagerLock \in Locks
  /\ \A w \in Workers : w # Main
  BY CameraAssumption

\* A step of the camera's users is a step of matter_mutex or leaves it alone.
LEMMA CameraMutexStep == [Next]_vars => [MutexNext]_mutexVars
<1> SUFFICES ASSUME [Next]_vars PROVE [MutexNext]_mutexVars
  OBVIOUS
<1> USE CameraThreads DEF MutexNext
<1>1. CASE UNCHANGED vars
  BY <1>1 DEF vars
<1>2. CASE StartFrame \/ Frame \/ Exit
  BY <1>2 DEF StartFrame, Frame, Exit
<1>3. ASSUME NEW w \in Workers, Receive(w) \/ Change(w) PROVE UNCHANGED mutexVars
  BY <1>3 DEF Receive, SetCamera, TakePlate, Change, Attempt, Stop, Retarget, Open
<1>4. ASSUME NEW w \in Workers, Plate(w) PROVE [MutexNext]_mutexVars
  <2>1. CASE Pause(w) \/ Resume(w)
    BY <2>1 DEF Pause, Resume, Abort
  <2>2. CASE EnableAutomatic(w) \/ DisableAutomatic(w)
    BY <2>2 DEF EnableAutomatic, DisableAutomatic, Controls
  <2>3. CASE Roll(w) \/ Shoot(w) \/ Publish(w)
    BY <2>3 DEF Roll, Shoot, Publish
  <2>4. CASE Sweep(w) \/ Rebuild(w)
    BY <2>4 DEF Sweep, Rebuild, Throw, Abort
  <2> QED
    BY <1>4, <2>1, <2>2, <2>3, <2>4 DEF Plate
<1>5. ASSUME NEW t \in Threads, Locking(t) \/ LockDevice(t) PROVE [MutexNext]_mutexVars
  BY <1>5 DEF Locking, LockDevice
<1> QED
  BY <1>1, <1>2, <1>3, <1>4, <1>5 DEF Next

(* The camera's users take matter_mutex as MatterMutex allows: what is     *)
(* proved of it holds here.                                                *)
THEOREM CameraImplementsMutex == Spec => MutexSpec
  BY CameraMutexStep, PTL DEF Spec, Init, MutexSpec

LEMMA CameraMutexInv == Spec => []MutexInv
  BY CameraImplementsMutex, MutexInvHolds, PTL
-----------------------------------------------------------------------------
\* The locals of a worker without a request.
LEMMA NoRequestTyped == NoRequest \in Locals
  BY CameraAssumption DEF NoRequest, NoPicture, Pictures, Locals

(* A plate that rolls has frames left to roll, and a running mode that is  *)
(* rebuilt is one of those to do: the types of the counts need it.         *)
RollsLeft ==
  \A w \in Workers :
    /\ pc[w] \in {"pause", "enable", "roll"} => req[w].rolls > 0
    /\ pc[w] = "rebuild" => req[w].modes > 0

LEMMA InitTyped == Init => TypeOK /\ RollsLeft
  BY MutexInitInv, CameraThreads, CameraAssumption, FreeAssumption, NoRequestTyped
     DEF Init, MutexInv, TypeOK, RollsLeft, MainSteps, WorkerSteps, NoPicture, Pictures

\* One mode less to do.
LEMMA ModesTyped ==
  ASSUME NEW w \in Workers, req \in [Workers -> Locals], req[w].modes > 0,
         req' = [req EXCEPT ![w].modes = @ - 1]
  PROVE  /\ req' \in [Workers -> Locals]
         /\ \A v \in Workers : /\ req'[v].rolls = req[v].rolls /\ req'[v].shot = req[v].shot
                               /\ req'[v].on = req[v].on /\ req'[v].dev_num = req[v].dev_num
                               /\ v # w => req'[v] = req[v]
  BY CameraAssumption DEF Locals

\* One field of the locals at a time.
LEMMA FieldsTyped ==
  ASSUME NEW r \in Locals
  PROVE  /\ \A d \in Devices : [r EXCEPT !.dev_num = d] \in Locals
         /\ \A n \in 0 .. Rolls : [r EXCEPT !.rolls = n] \in Locals
         /\ \A s \in SUBSET Devices : [r EXCEPT !.on = s] \in Locals
         /\ \A p \in Pictures : [r EXCEPT !.shot = p] \in Locals
  BY DEF Locals

LEMMA StepTyped ==
  TypeOK /\ RollsLeft /\ MutexTypeOK' /\ [Next]_vars => (TypeOK /\ RollsLeft)'
<1> SUFFICES ASSUME TypeOK, RollsLeft, MutexTypeOK', [Next]_vars
             PROVE  (TypeOK /\ RollsLeft)'
  OBVIOUS
<1> USE CameraThreads, CameraAssumption, NoRequestTyped
    DEF TypeOK, RollsLeft, MainSteps, WorkerSteps, Changing, camera, history, Go, At
<1>1. CASE UNCHANGED vars
  BY <1>1 DEF vars
<1>2. CASE StartFrame \/ Exit
  <2>1. pc' \in [Threads -> MainSteps \cup WorkerSteps] /\ pc'[Main] \in MainSteps
    BY <1>2 DEF StartFrame, Exit
  <2>2. \A w \in Workers : pc'[w] = pc[w]
    BY <1>2 DEF StartFrame, Exit
  <2> QED
    BY <1>2, <2>1, <2>2 DEF StartFrame, Exit
<1>3. CASE Frame
  BY <1>3 DEF Frame, GrabEnds
<1>4. ASSUME NEW w \in Workers, Receive(w) \/ Change(w) PROVE (TypeOK /\ RollsLeft)'
  <2>0. req[w] \in Locals
    OBVIOUS
  <2>1. CASE SetCamera(w)
    <3>1. PICK d \in Devices : req' = [req EXCEPT ![w] = [req[w] EXCEPT !.dev_num = d]]
      BY <2>1 DEF SetCamera, Offered
    <3>2. [req[w] EXCEPT !.dev_num = d] \in Locals
      BY <2>0, FieldsTyped
    <3> QED
      BY <2>1, <3>1, <3>2 DEF SetCamera
  <2>6. CASE TakePlate(w)
    <3>1. req' = [req EXCEPT ![w] = [req[w] EXCEPT !.rolls = Rolls]]
      BY <2>6 DEF TakePlate
    <3>2. [req[w] EXCEPT !.rolls = Rolls] \in Locals
      BY <2>0, FieldsTyped
    <3>3. req'[w].rolls > 0
      BY <2>0, <3>1 DEF Locals
    <3> QED
      BY <2>6, <3>1, <3>2, <3>3 DEF TakePlate
  <2>2. CASE Attempt(w)
    BY <2>2 DEF Attempt, Answer
  <2>3. CASE Stop(w)
    BY <2>3 DEF Stop
  <2>5. CASE Retarget(w)
    BY <2>0, <2>5 DEF Retarget, Locals
  <2>4. CASE Open(w)
    BY <2>4 DEF Open, Answer
  <2> QED
    BY <1>4, <2>1, <2>2, <2>3, <2>4, <2>5, <2>6 DEF Receive, Change
<1>5. ASSUME NEW w \in Workers, Plate(w) PROVE (TypeOK /\ RollsLeft)'
  <2>1. CASE Pause(w)
    <3>1. CASE Go(w, "enable") /\ UNCHANGED <<up, req>>
      BY <2>1, <3>1 DEF Pause
    <3>2. CASE Abort
      BY <2>1, <3>2 DEF Pause, Abort
    <3>3. CASE Answer(w) /\ UNCHANGED <<mutexVars, up>>
      BY <2>1, <3>3 DEF Pause, Answer
    <3> QED
      BY <2>1, <3>1, <3>2, <3>3 DEF Pause
  <2>2. CASE EnableAutomatic(w)
    <3>1. Controlled \in SUBSET Devices
      BY DEF Controlled
    <3>2. req' = [req EXCEPT ![w].on = Controlled]
      BY <2>2 DEF EnableAutomatic
    <3>3. req' \in [Workers -> Locals] /\ \A v \in Workers : req'[v].rolls = req[v].rolls
      BY <3>1, <3>2 DEF Locals
    <3>4. auto' \in [Devices -> BOOLEAN] /\ up' \in BOOLEAN
      BY <2>2 DEF EnableAutomatic, Controls
    <3>5. /\ UNCHANGED <<camera, device_mutex, plate, history>>
          /\ pc[w] = "enable" /\ Go(w, "roll")
      BY <2>2 DEF EnableAutomatic, Controls
    <3>6. \A v \in Workers : pc'[v] = IF v = w THEN "roll" ELSE pc[v]
      BY <3>5
    <3>7. \A v \in Workers : v # w => req'[v].modes = req[v].modes
      BY <3>2
    <3>8. RollsLeft'
      BY <3>3, <3>5, <3>6, <3>7
    <3>9. TypeOK'
      BY <3>3, <3>4, <3>5
    <3> QED
      BY <3>8, <3>9
  <2>3. CASE Roll(w)
    <3>1. /\ req[w] \in Locals /\ req[w].rolls > 0 /\ pc[w] = "roll"
          /\ req' = [req EXCEPT ![w] = [req[w] EXCEPT !.rolls = req[w].rolls - 1]]
      BY <2>3 DEF Roll
    <3>2. req[w].rolls - 1 \in 0 .. Rolls
      BY <3>1 DEF Locals
    <3>3. [req[w] EXCEPT !.rolls = req[w].rolls - 1] \in Locals
      BY <3>1, <3>2, FieldsTyped
    <3>4. /\ req' \in [Workers -> Locals]
          /\ \A v \in Workers : v # w => req'[v] = req[v]
          /\ req[w].rolls # 1 => req'[w].rolls > 0
      BY <3>1, <3>2, <3>3 DEF Locals
    <3>5. /\ pc' \in [Threads -> MainSteps \cup WorkerSteps] /\ UNCHANGED pc[Main]
          /\ \A v \in Workers : v # w => pc'[v] = pc[v]
          /\ pc'[w] = IF req[w].rolls = 1 THEN "disable" ELSE "roll"
      BY <2>3, <3>1 DEF Roll
    <3> QED
      BY <2>3, <3>4, <3>5 DEF Roll, GrabEnds
  <2>4. CASE DisableAutomatic(w)
    <3>1. Steadied \in Devices \cup {Closed}
      BY DEF Steadied
    <3>2. req[w] \in Locals /\ req[w].shot \in Pictures
      BY DEF Locals
    <3>3. [req[w].shot EXCEPT !.steadied = Steadied] \in Pictures
      BY <3>1, <3>2 DEF Pictures
    <3>4. req' = [req EXCEPT ![w] = [req[w] EXCEPT !.on = {}, !.shot =
                    [req[w].shot EXCEPT !.steadied = Steadied]]]
      BY <2>4 DEF DisableAutomatic, Disabled, Locals
    <3>9. [req[w] EXCEPT !.on = {}, !.shot = [req[w].shot EXCEPT !.steadied = Steadied]]
            \in Locals
      BY <3>2, <3>3 DEF Locals
    <3>5. /\ req' \in [Workers -> Locals]
          /\ \A v \in Workers : v # w => req'[v] = req[v]
      BY <3>4, <3>9
    <3>6. auto' \in [Devices -> BOOLEAN] /\ up' \in BOOLEAN
      BY <2>4 DEF DisableAutomatic, Controls
    <3>7. UNCHANGED <<camera, device_mutex, plate, plated>> /\ Go(w, "shot")
      BY <2>4 DEF DisableAutomatic, Disabled, Controls
    <3>8. left' \subseteq Devices
      BY <2>4 DEF DisableAutomatic, Disabled, Locals
    <3> QED
      BY <3>5, <3>6, <3>7, <3>8
  <2>5. CASE Shoot(w)
    <3>1. PICK c \in Grabbed : req' = [req EXCEPT ![w].shot.of = c]
      BY <2>5 DEF Shoot
    <3>2. req[w].shot \in Pictures /\ c \in Devices \cup {Closed}
      BY DEF Grabbed, Locals
    <3>3. [req[w].shot EXCEPT !.of = c] \in Pictures
      BY <3>2 DEF Pictures
    <3>4. req' = [req EXCEPT ![w] = [req[w] EXCEPT !.shot = [req[w].shot EXCEPT !.of = c]]]
      BY <3>1
    <3>5. req' \in [Workers -> Locals] /\ \A v \in Workers : req'[v].rolls = req[v].rolls
      BY <3>3, <3>4 DEF Locals
    <3> QED
      BY <2>5, <3>5 DEF Shoot, GrabEnds
  <2>6. CASE Resume(w)
    <3>1. CASE Go(w, "publish") /\ UNCHANGED <<up, req>>
      BY <2>6, <3>1 DEF Resume
    <3>2. CASE Abort
      BY <2>6, <3>2 DEF Resume, Abort
    <3>3. CASE Answer(w) /\ UNCHANGED up
      BY <2>6, <3>3 DEF Resume, Answer
    <3> QED
      BY <2>6, <3>1, <3>2, <3>3 DEF Resume
  <2>7. CASE Publish(w)
    <3>1. req[w].shot \in Pictures
      BY DEF Locals
    <3>2. plate' \in Devices \cup {Closed} /\ plated' \subseteq Devices
      BY <2>7, <3>1 DEF Publish, Pictures
    <3>3. [NoRequest EXCEPT !.modes = PlateModes] \in Locals
      BY DEF Locals
    <3>4. req' \in [Workers -> Locals] /\ \A v \in Workers : v # w => req'[v] = req[v]
      BY <2>7, <3>3 DEF Publish
    <3> QED
      BY <2>7, <3>2, <3>4 DEF Publish
  <2>8. CASE Sweep(w)
    <3>1. CASE Answer(w) /\ UNCHANGED mutexVars
      BY <2>8, <3>1 DEF Sweep, Answer
    <3>2. CASE req[w].modes > 0 /\ req' = [req EXCEPT ![w].modes = @ - 1] /\ UNCHANGED pc
      <4>1. /\ req' \in [Workers -> Locals]
            /\ \A v \in Workers : req'[v].rolls = req[v].rolls /\ (v # w => req'[v] = req[v])
        BY <3>2, ModesTyped
      <4>2. pc[w] = "sweep"
        BY <2>8 DEF Sweep
      <4> QED
        BY <2>8, <3>2, <4>1, <4>2 DEF Sweep
    <3>3. CASE req[w].modes > 0 /\ Go(w, "rebuild") /\ UNCHANGED req
      BY <2>8, <3>3 DEF Sweep
    <3> QED
      BY <2>8, <3>1, <3>2, <3>3 DEF Sweep
  <2>9. CASE Rebuild(w)
    <3>1. CASE Go(w, "sweep") /\ req' = [req EXCEPT ![w].modes = @ - 1] /\ UNCHANGED up
      BY <2>9, <3>1, ModesTyped DEF Rebuild
    <3>2. CASE Throw(w)
      BY <2>9, <3>2 DEF Rebuild, Throw, Answer
    <3>3. CASE Abort
      BY <2>9, <3>3 DEF Rebuild, Abort
    <3> QED
      BY <2>9, <3>1, <3>2, <3>3 DEF Rebuild
  <2> QED
    BY <1>5, <2>1, <2>2, <2>3, <2>4, <2>5, <2>6, <2>7, <2>8, <2>9 DEF Plate
<1>6. ASSUME NEW t \in Threads, Locking(t) PROVE (TypeOK /\ RollsLeft)'
  BY <1>6 DEF Locking, Quiet
<1>7. ASSUME NEW t \in Threads, LockDevice(t) PROVE (TypeOK /\ RollsLeft)'
  BY <1>7 DEF LockDevice, WantsDevice
<1> QED
  BY <1>1, <1>2, <1>3, <1>4, <1>5, <1>6, <1>7 DEF Next

LEMMA CameraTyped == Spec => [](TypeOK /\ RollsLeft /\ MutexInv)
<1>1. MutexInv' => MutexTypeOK'
  BY DEF MutexInv
<1> QED
  BY <1>1, InitTyped, StepTyped, CameraMutexInv, PTL DEF Spec

(* The camera, the pictures and the locals of the handlers keep their      *)
(* types; in particular roll() grabs as often as it is told to.            *)
THEOREM CameraTypes == Spec => []TypeOK
  BY CameraTyped, PTL
-----------------------------------------------------------------------------
LEMMA StepConsistent ==
  TypeOK /\ CameraConsistent /\ TypeOK' /\ [Next]_vars => CameraConsistent'
<1> SUFFICES ASSUME TypeOK, CameraConsistent, TypeOK', [Next]_vars
             PROVE  CameraConsistent'
  OBVIOUS
<1> USE CameraThreads, CameraAssumption
    DEF CameraConsistent, InChange, Changing, camera, Go, At
<1>1. CASE UNCHANGED vars
  BY <1>1 DEF vars
<1>2. CASE StartFrame \/ Frame \/ Exit
  BY <1>2 DEF StartFrame, Frame, Exit, TypeOK, GrabEnds
<1>3. ASSUME NEW w \in Workers, Receive(w) PROVE CameraConsistent'
  BY <1>3 DEF Receive, SetCamera, TakePlate, TypeOK
<1>4. ASSUME NEW w \in Workers, Change(w) PROVE CameraConsistent'
  <2>1. CASE Attempt(w)
    BY <2>1 DEF Attempt, Answer, TypeOK
  <2>2. CASE Stop(w) \/ Retarget(w)
    <3>1. pc'[w] \in {"retarget", "open"}
      BY <2>2 DEF Stop, Retarget, TypeOK
    <3> QED
      BY <3>1
  <2>3. CASE Open(w)
    BY <2>3 DEF Open, TypeOK
  <2> QED
    BY <1>4, <2>1, <2>2, <2>3 DEF Change
<1>5. ASSUME NEW w \in Workers, Plate(w) PROVE CameraConsistent'
  <2>1. CASE Pause(w) \/ Resume(w)
    BY <2>1 DEF Pause, Resume, Abort, Answer, TypeOK
  <2>4. CASE Publish(w) \/ Sweep(w) \/ Rebuild(w)
    BY <2>4 DEF Publish, Sweep, Rebuild, Throw, Abort, Answer, TypeOK
  <2>2. CASE EnableAutomatic(w) \/ DisableAutomatic(w)
    <3>1. UNCHANGED camera
      BY <2>2 DEF EnableAutomatic, DisableAutomatic, Controls
    <3>2. \/ pc' = [pc EXCEPT ![w] = "roll"] /\ pc[w] = "enable"
          \/ pc' = [pc EXCEPT ![w] = "shot"] /\ pc[w] = "disable"
      BY <2>2 DEF EnableAutomatic, DisableAutomatic, Disabled
    <3> QED
      BY <3>1, <3>2 DEF TypeOK
  <2>3. CASE Roll(w) \/ Shoot(w)
    BY <2>3 DEF Roll, Shoot, TypeOK
  <2> QED
    BY <1>5, <2>1, <2>2, <2>3, <2>4 DEF Plate
<1>6. ASSUME NEW t \in Threads, Locking(t) \/ LockDevice(t) PROVE CameraConsistent'
  BY <1>6 DEF Locking, Quiet, LockDevice, TypeOK
<1> QED
  BY <1>1, <1>2, <1>3, <1>4, <1>5, <1>6 DEF Next

(* Whenever no worker is inside changeDevice, the device in force is open  *)
(* exactly if isAvailable says so, for any number of workers and whatever  *)
(* openings fail.                                                          *)
THEOREM CameraStaysConsistent == Spec => []CameraConsistent
<1>1. Init => CameraConsistent
  BY DEF Init, CameraConsistent
<1> QED
  BY <1>1, StepConsistent, CameraTypes, PTL DEF Spec
-----------------------------------------------------------------------------
(* Who owns device_mutex, by statement: the conjunct that DeviceExclusion  *)
(* lacks is that only a thread that changes or grabs owns it.              *)
DeviceHeld ==
  \A t \in Threads :
    /\ pc[t] \in Changing => device_mutex = t
    /\ pc[t] \in Grabbing /\ device_mutex = t => In(t)
    /\ device_mutex = t => pc[t] \in Changing \cup Grabbing

LEMMA StepDeviceHeld ==
  TypeOK /\ DeviceHeld /\ [Next]_vars => DeviceHeld'
<1> SUFFICES ASSUME TypeOK, DeviceHeld, [Next]_vars PROVE DeviceHeld'
  OBVIOUS
<1> USE CameraThreads, CameraAssumption, FreeAssumption
    DEF DeviceHeld, Changing, Grabbing, In, Go, At, TypeOK, MutexTypeOK
<1>1. CASE UNCHANGED vars
  BY <1>1 DEF vars, mutexVars
<1>2. CASE StartFrame \/ Frame \/ Exit
  BY <1>2 DEF StartFrame, Frame, Exit, GrabEnds, Lock, Unlock, Leave, Out, mutexVars
<1>3. ASSUME NEW w \in Workers, Receive(w) PROVE DeviceHeld'
  BY <1>3 DEF Receive, SetCamera, TakePlate, mutexVars
<1>4. ASSUME NEW w \in Workers, Change(w) PROVE DeviceHeld'
  BY <1>4 DEF Change, Attempt, Stop, Retarget, Open, Answer, mutexVars
<1>5. ASSUME NEW w \in Workers, Plate(w) PROVE DeviceHeld'
  <2>1. CASE Pause(w)
    <3>1. CASE Lock(w, ManagerLock) /\ Go(w, "enable")
      BY <2>1, <3>1 DEF Pause, Lock, Out
    <3>2. CASE Abort
      <4>1. UNCHANGED <<stage, pc, device_mutex>>
        BY <2>1, <3>2 DEF Pause, Abort, mutexVars
      <4> QED
        BY <4>1
    <3>3. CASE Answer(w) /\ UNCHANGED <<mutexVars, up>>
      BY <2>1, <3>3 DEF Pause, Answer, mutexVars
    <3> QED
      BY <2>1, <3>1, <3>2, <3>3 DEF Pause
  <2>2. CASE EnableAutomatic(w) \/ DisableAutomatic(w)
    <3>1. UNCHANGED <<stage, device_mutex>>
      BY <2>2 DEF EnableAutomatic, DisableAutomatic, Controls, mutexVars
    <3>2. \/ pc' = [pc EXCEPT ![w] = "roll"] /\ pc[w] = "enable"
          \/ pc' = [pc EXCEPT ![w] = "shot"] /\ pc[w] = "disable"
      BY <2>2 DEF EnableAutomatic, DisableAutomatic, Disabled
    <3> QED
      BY <3>1, <3>2
  <2>3. CASE Roll(w) \/ Shoot(w)
    BY <2>3 DEF Roll, Shoot, GrabEnds, mutexVars
  <2>4. CASE Resume(w)
    <3>1. CASE Unlock(w) /\ Go(w, "publish")
      BY <2>4, <3>1 DEF Resume, Unlock
    <3>3. CASE Leave(w) /\ Answer(w)
      BY <2>4, <3>3 DEF Resume, Answer, Leave
    <3>2. CASE Abort
      <4>1. UNCHANGED <<stage, pc, device_mutex>>
        BY <2>4, <3>2 DEF Resume, Abort, mutexVars
      <4> QED
        BY <4>1
    <3> QED
      BY <2>4, <3>1, <3>2, <3>3 DEF Resume
  <2>5. CASE Publish(w)
    BY <2>5 DEF Publish, mutexVars
  <2>6. CASE Sweep(w)
    BY <2>6 DEF Sweep, Answer, Lock, Out, mutexVars
  <2>7. CASE Rebuild(w)
    <3>1. CASE Unlock(w) /\ Go(w, "sweep")
      BY <2>7, <3>1 DEF Rebuild, Unlock
    <3>2. CASE Throw(w)
      BY <2>7, <3>2 DEF Rebuild, Throw, Answer, Leave
    <3>3. CASE Abort
      <4>1. UNCHANGED <<stage, pc, device_mutex>>
        BY <2>7, <3>3 DEF Rebuild, Abort, mutexVars
      <4> QED
        BY <4>1
    <3> QED
      BY <2>7, <3>1, <3>2, <3>3 DEF Rebuild
  <2> QED
    BY <1>5, <2>1, <2>2, <2>3, <2>4, <2>5, <2>6, <2>7 DEF Plate
<1>6. ASSUME NEW t \in Threads, Locking(t) PROVE DeviceHeld'
  BY <1>6 DEF Locking, Quiet, LockSteps, Acquire, SetOwns, Release, ClearOwns
<1>7. ASSUME NEW t \in Threads, LockDevice(t) PROVE DeviceHeld'
  BY <1>7 DEF LockDevice, WantsDevice, mutexVars
<1> QED
  BY <1>1, <1>2, <1>3, <1>4, <1>5, <1>6, <1>7 DEF Next

LEMMA DeviceHeldHolds == Spec => []DeviceHeld
<1>1. Init => DeviceHeld
  BY CameraThreads, FreeAssumption DEF Init, DeviceHeld, Changing, Grabbing
<1> QED
  BY <1>1, StepDeviceHeld, CameraTypes, PTL DEF Spec

(* A change and a grab never meet, nor two changes, for any number of      *)
(* workers; and who grabs also has matter_mutex.                           *)
THEOREM GrabsExcludeChanges == Spec => []DeviceExclusion
<1>1. DeviceHeld => DeviceExclusion
  BY DEF DeviceHeld, DeviceExclusion
<1> QED
  BY <1>1, DeviceHeldHolds, PTL
-----------------------------------------------------------------------------
(* The argument for the exposure follows one device.  Adjusting: between   *)
(* enable_automatic and disable_automatic, inside the section.  Holding:   *)
(* with a plate that is not published yet, at the end outside any lock.    *)
Adjusting == {"roll", "disable"}
Holding == {"shot", "resume", "publish"}

SectionHeld == \A w \in Workers : pc[w] \in Adjusting => In(w)

\* Where the automatic controls of d may be on, once they have been off.
LeftOn(d) ==
  auto[d] => d \in left \/ \E v \in Workers : pc[v] \in Adjusting /\ d \in req[v].on

\* The devices of steady plates, published or still with the worker.
SteadyOf(d) ==
  d \in plated \/ \E w \in Workers : pc[w] \in Holding /\ req[w].shot.steadied = d

PlatesSteady == \A d \in Devices : SteadyOf(d) => LeftOn(d)

LEMMA StepSection ==
  TypeOK /\ SectionHeld /\ [Next]_vars => SectionHeld'
<1> SUFFICES ASSUME TypeOK, SectionHeld, [Next]_vars PROVE SectionHeld'
  OBVIOUS
<1> USE CameraThreads, CameraAssumption
    DEF SectionHeld, Adjusting, In, Go, At, TypeOK, MutexTypeOK
<1>1. CASE UNCHANGED vars
  BY <1>1 DEF vars, mutexVars
<1>2. CASE StartFrame \/ Frame \/ Exit
  BY <1>2 DEF StartFrame, Frame, Exit, Lock, Unlock, Leave, Out, mutexVars
<1>3. ASSUME NEW w \in Workers, Receive(w) PROVE SectionHeld'
  BY <1>3 DEF Receive, SetCamera, TakePlate, mutexVars
<1>4. ASSUME NEW w \in Workers, Change(w) PROVE SectionHeld'
  BY <1>4 DEF Change, Attempt, Stop, Retarget, Open, Answer, mutexVars
<1>5. ASSUME NEW w \in Workers, Plate(w) PROVE SectionHeld'
  <2>1. CASE Pause(w)
    BY <2>1 DEF Pause, Lock, Out, Abort, Answer, mutexVars
  <2>2. CASE EnableAutomatic(w) \/ DisableAutomatic(w)
    <3>1. UNCHANGED stage
      BY <2>2 DEF EnableAutomatic, DisableAutomatic, Controls, mutexVars
    <3>2. \/ pc' = [pc EXCEPT ![w] = "roll"] /\ In(w)
          \/ pc' = [pc EXCEPT ![w] = "shot"]
      BY <2>2 DEF EnableAutomatic, DisableAutomatic, Disabled
    <3> QED
      BY <3>1, <3>2
  <2>3. CASE Roll(w) \/ Shoot(w) \/ Publish(w)
    BY <2>3 DEF Roll, Shoot, Publish, mutexVars
  <2>4. CASE Resume(w)
    BY <2>4 DEF Resume, Unlock, Leave, Abort, Answer, mutexVars
  <2>5. CASE Sweep(w)
    BY <2>5 DEF Sweep, Answer, Lock, Out, mutexVars
  <2>6. CASE Rebuild(w)
    BY <2>6 DEF Rebuild, Unlock, Leave, Throw, Abort, Answer, mutexVars
  <2> QED
    BY <1>5, <2>1, <2>2, <2>3, <2>4, <2>5, <2>6 DEF Plate
<1>6. ASSUME NEW t \in Threads, Locking(t) PROVE SectionHeld'
  BY <1>6 DEF Locking, Quiet, LockSteps, Acquire, SetOwns, Release, ClearOwns
<1>7. ASSUME NEW t \in Threads, LockDevice(t) PROVE SectionHeld'
  BY <1>7 DEF LockDevice, WantsDevice, mutexVars
<1> QED
  BY <1>1, <1>2, <1>3, <1>4, <1>5, <1>6, <1>7 DEF Next

(* Every step but those of the controls and of the publication keeps the   *)
(* plates steady: nobody leaves off adjusting, or takes up a plate.        *)
LEMMA OthersKeepPlates ==
  ASSUME PlatesSteady, UNCHANGED <<auto, plated, left>>,
         \A v \in Workers :
           /\ pc[v] \in Adjusting => pc'[v] \in Adjusting /\ req'[v].on = req[v].on
           /\ pc'[v] \in Holding =>
                pc[v] \in Holding /\ req'[v].shot.steadied = req[v].shot.steadied
  PROVE  PlatesSteady'
  BY DEF PlatesSteady, SteadyOf, LeftOn

\* What the controls do to the devices, races with a change included.
LEMMA ControlsEffect ==
  ASSUME NEW w \in Workers, NEW on \in BOOLEAN, TypeOK, Controls(w, on)
  PROVE  /\ on = TRUE => \A d \in Devices : auto'[d] => auto[d] \/ d \in Controlled
         /\ on = FALSE => \A d \in Devices : auto'[d] => auto[d]
         /\ on = FALSE /\ Steadied # Closed => ~auto'[Steadied]
<1> USE CameraAssumption DEF Controls, TypeOK
<1>1. on = TRUE => \A d \in Devices : auto'[d] => auto[d] \/ d \in Controlled
  BY DEF Controlled
<1>2. on = FALSE => \A d \in Devices : auto'[d] => auto[d]
  OBVIOUS
<1>3. on = FALSE /\ Steadied # Closed => ~auto'[Steadied]
  BY DEF Steadied
<1> QED
  BY <1>1, <1>2, <1>3

LEMMA EnableKeepsPlates ==
  ASSUME TypeOK, PlatesSteady, NEW w \in Workers, EnableAutomatic(w)
  PROVE  PlatesSteady'
<1>1. /\ pc[w] = "enable" /\ pc' = [pc EXCEPT ![w] = "roll"]
      /\ req' = [req EXCEPT ![w].on = Controlled]
      /\ UNCHANGED <<plated, left>>
  BY DEF EnableAutomatic, At, Go, history
<1>2. \A d \in Devices : auto'[d] => auto[d] \/ d \in Controlled
  BY ControlsEffect DEF EnableAutomatic
<1>3. /\ pc'[w] = "roll" /\ req'[w].on = Controlled
      /\ \A v \in Workers : /\ v # w => pc'[v] = pc[v] /\ req'[v] = req[v]
                            /\ req'[v].shot = req[v].shot
  BY <1>1, CameraThreads DEF TypeOK, Locals
<1>4. ASSUME NEW d \in Devices, SteadyOf(d)' PROVE LeftOn(d)'
  <2>1. SteadyOf(d)
    BY <1>1, <1>3, <1>4 DEF SteadyOf, Holding
  <2>2. LeftOn(d)
    BY <2>1 DEF PlatesSteady
  <2> QED
    BY <1>1, <1>2, <1>3, <2>2 DEF LeftOn, Adjusting
<1> QED
  BY <1>4 DEF PlatesSteady

(* disable_automatic turns off the device it steadies, and any other that  *)
(* enable_automatic had turned on is left on.                              *)
LEMMA DisableKeepsPlates ==
  ASSUME TypeOK, PlatesSteady, NEW w \in Workers, DisableAutomatic(w)
  PROVE  PlatesSteady'
<1>1. /\ pc[w] = "disable" /\ pc' = [pc EXCEPT ![w] = "shot"]
      /\ req' = [req EXCEPT ![w].shot.steadied = Steadied, ![w].on = {}]
      /\ left' = (left \cup req[w].on) \ {Steadied}
      /\ UNCHANGED plated
  BY DEF DisableAutomatic, Disabled, At, Go
<1>2. /\ \A d \in Devices : auto'[d] => auto[d]
      /\ Steadied # Closed => ~auto'[Steadied]
  BY ControlsEffect DEF DisableAutomatic
<1>3. pc'[w] = "shot" /\ \A v \in Workers : v # w => pc'[v] = pc[v] /\ req'[v] = req[v]
  BY <1>1, CameraThreads DEF TypeOK
<1>4. req'[w].shot.steadied = Steadied
  <2>1. req[w] \in Locals /\ req[w].shot \in Pictures
    BY DEF TypeOK, Locals
  <2> QED
    BY <1>1, <2>1 DEF TypeOK, Locals, Pictures
<1>5. ASSUME NEW d \in Devices, SteadyOf(d)', auto'[d]
      PROVE  \/ d \in left'
             \/ \E v \in Workers : pc'[v] \in Adjusting /\ d \in req'[v].on
  <2>1. d # Closed /\ d # Steadied /\ auto[d]
    BY <1>2, <1>5, CameraAssumption
  <2>2. SteadyOf(d)
    BY <1>1, <1>3, <1>4, <1>5, <2>1 DEF SteadyOf
  <2>3. LeftOn(d)
    BY <2>2 DEF PlatesSteady
  <2> QED
    BY <1>1, <1>3, <2>1, <2>3 DEF LeftOn
<1> QED
  BY <1>5 DEF PlatesSteady, LeftOn

LEMMA PublishKeepsPlates ==
  ASSUME TypeOK, PlatesSteady, NEW w \in Workers, Publish(w)
  PROVE  PlatesSteady'
<1>1. /\ pc[w] = "publish" /\ pc' = [pc EXCEPT ![w] = "sweep"]
      /\ req' = [req EXCEPT ![w] = [NoRequest EXCEPT !.modes = PlateModes]]
      /\ UNCHANGED <<auto, left>>
  BY DEF Publish, At, Go
<1>2. \A d \in plated' : d \in plated \/ d = req[w].shot.steadied
  BY DEF Publish
<1>3. pc'[w] = "sweep" /\ \A v \in Workers : v # w => pc'[v] = pc[v] /\ req'[v] = req[v]
  BY <1>1, CameraThreads DEF TypeOK
<1>4. ASSUME NEW d \in Devices, SteadyOf(d)' PROVE LeftOn(d)'
  <2>1. SteadyOf(d)
    BY <1>1, <1>2, <1>3, <1>4 DEF SteadyOf, Holding
  <2>2. LeftOn(d)
    BY <2>1 DEF PlatesSteady
  <2> QED
    BY <1>1, <1>3, <2>2 DEF LeftOn, Adjusting
<1> QED
  BY <1>4 DEF PlatesSteady

LEMMA StepPlates ==
  TypeOK /\ PlatesSteady /\ [Next]_vars => PlatesSteady'
<1> SUFFICES ASSUME TypeOK, PlatesSteady, [Next]_vars PROVE PlatesSteady'
  OBVIOUS
<1> DEFINE Keeps == /\ UNCHANGED <<auto, plated, left>>
                    /\ \A v \in Workers :
                         /\ pc[v] \in Adjusting => pc'[v] \in Adjusting /\ req'[v].on = req[v].on
                         /\ pc'[v] \in Holding => /\ pc[v] \in Holding
                                                  /\ req'[v].shot.steadied = req[v].shot.steadied
<1>0. Keeps => PlatesSteady'
  BY OthersKeepPlates
<1> USE CameraThreads DEF Adjusting, Holding, Go, At, history
<1>1. CASE UNCHANGED vars
  BY <1>0, <1>1 DEF vars
<1>2. CASE StartFrame \/ Frame \/ Exit
  <2>1. UNCHANGED <<req, auto, plated, left>> /\ \A w \in Workers : pc'[w] = pc[w]
    BY <1>2 DEF StartFrame, Frame, Exit, TypeOK
  <2> QED
    BY <1>0, <2>1
<1>3. ASSUME NEW w \in Workers, Receive(w) \/ Change(w) PROVE PlatesSteady'
  <2>1. /\ pc[w] \notin Adjusting \cup Holding /\ pc'[w] \notin Adjusting \cup Holding
        /\ \A v \in Workers : v # w => pc'[v] = pc[v] /\ req'[v] = req[v]
        /\ UNCHANGED <<auto, plated, left>>
    BY <1>3 DEF Receive, SetCamera, TakePlate, Change, Attempt, Stop, Retarget, Open, Answer, TypeOK
  <2> QED
    BY <1>0, <2>1
<1>4. ASSUME NEW w \in Workers, Plate(w) PROVE PlatesSteady'
  <2>1. CASE Pause(w)
    BY <1>0, <2>1 DEF Pause, Abort, Answer, TypeOK
  <2>2. CASE Roll(w)
    <3>1. \A v \in Workers : req'[v].on = req[v].on /\ req'[v].shot = req[v].shot
      BY <2>2 DEF Roll, TypeOK, Locals
    <3>2. /\ pc[w] = "roll" /\ pc'[w] \in {"roll", "disable"}
          /\ \A v \in Workers : v # w => pc'[v] = pc[v]
          /\ UNCHANGED <<auto, plated, left>>
      BY <2>2 DEF Roll, TypeOK
    <3> QED
      BY <1>0, <3>1, <3>2
  <2>3. CASE Shoot(w)
    <3>1. PICK c \in Grabbed : req' = [req EXCEPT ![w].shot.of = c]
      BY <2>3 DEF Shoot
    <3>2. \A v \in Workers : /\ req'[v].shot.steadied = req[v].shot.steadied
                             /\ req'[v].on = req[v].on
      BY <3>1 DEF TypeOK, Locals, Pictures
    <3>3. pc[w] = "shot" /\ pc' = [pc EXCEPT ![w] = "resume"] /\ UNCHANGED <<auto, plated, left>>
      BY <2>3 DEF Shoot
    <3>4. pc'[w] = "resume" /\ \A v \in Workers : v # w => pc'[v] = pc[v]
      BY <3>3 DEF TypeOK
    <3> QED
      BY <1>0, <3>2, <3>3, <3>4
  <2>4. CASE Resume(w)
    BY <1>0, <2>4 DEF Resume, Abort, Answer, TypeOK
  <2>5. CASE Sweep(w) \/ Rebuild(w)
    <3>1. /\ pc[w] \in {"sweep", "rebuild"} /\ pc'[w] \notin Adjusting \cup Holding
          /\ \A v \in Workers : v # w => pc'[v] = pc[v] /\ req'[v] = req[v]
          /\ UNCHANGED <<auto, plated, left>>
      BY <2>5 DEF Sweep, Rebuild, Throw, Abort, Answer, TypeOK
    <3> QED
      BY <1>0, <3>1
  <2> QED
    BY <1>4, <2>1, <2>2, <2>3, <2>4, <2>5,
       EnableKeepsPlates, DisableKeepsPlates, PublishKeepsPlates DEF Plate
<1>5. ASSUME NEW t \in Threads, Locking(t) PROVE PlatesSteady'
  BY <1>0, <1>5 DEF Locking, Quiet
<1>6. ASSUME NEW t \in Threads, LockDevice(t) PROVE PlatesSteady'
  BY <1>0, <1>6 DEF LockDevice, TypeOK
<1> QED
  BY <1>1, <1>2, <1>3, <1>4, <1>5, <1>6 DEF Next

(* While the frame loop takes a frame from a device of which a steady      *)
(* plate was ever published, its automatic controls are off unless a later *)
(* plate raced with a change and left them on; for any number of workers.  *)
(* The section of matter_mutex keeps the loop away while they are on, and  *)
(* no step of the window in which the plate is with its worker, outside    *)
(* any lock, turns on a device that is not accounted for.                  *)
THEOREM FramesKeepExposure == Spec => []ExposureSteady
<1>1. Init => SectionHeld /\ PlatesSteady
  BY CameraThreads DEF Init, SectionHeld, PlatesSteady, SteadyOf, Adjusting, Holding
<1>2. TypeOK /\ MutexInv /\ DeviceHeld /\ SectionHeld /\ PlatesSteady => ExposureSteady
  <2> SUFFICES ASSUME TypeOK, MutexInv, DeviceHeld, SectionHeld, PlatesSteady, ~ExposureSteady
               PROVE FALSE
    OBVIOUS
  <2>1. /\ pc[Main] = "grab" /\ device_mutex = Main
        /\ capture \in plated \ left /\ auto[capture]
    BY DEF ExposureSteady, At
  <2>2. In(Main)
    BY <2>1, CameraThreads DEF DeviceHeld, Grabbing
  <2>3. LeftOn(capture)
    BY <2>1 DEF PlatesSteady, SteadyOf, TypeOK
  <2>4. PICK w \in Workers : In(w)
    BY <2>1, <2>3 DEF LeftOn, SectionHeld
  <2> QED
    BY <2>2, <2>4, CameraThreads DEF MutexInv, Inside, In
<1> QED
  BY <1>1, <1>2, StepSection, StepPlates, CameraTyped, DeviceHeldHolds, PTL DEF Spec
-----------------------------------------------------------------------------
\* No worker holds the number of one of the app's own outputs either.
AsksNoOutput == \A w \in Workers : req[w].dev_num \notin Outputs

LEMMA StepNotOutput ==
  TypeOK /\ InputNotOutput /\ AsksNoOutput /\ [Next]_vars
    => (InputNotOutput /\ AsksNoOutput)'
<1> SUFFICES ASSUME TypeOK, InputNotOutput, AsksNoOutput, [Next]_vars
             PROVE  (InputNotOutput /\ AsksNoOutput)'
  OBVIOUS
<1> USE CameraAssumption DEF InputNotOutput, AsksNoOutput, camera, Answer, Go, NoRequest
<1>1. CASE UNCHANGED vars
  BY <1>1 DEF vars
<1>2. CASE StartFrame \/ Frame \/ Exit
  BY <1>2 DEF StartFrame, Frame, Exit
<1>3. ASSUME NEW w \in Workers, SetCamera(w) PROVE (InputNotOutput /\ AsksNoOutput)'
  <2>1. PICK d \in Offered : req' = [req EXCEPT ![w].dev_num = d]
    BY <1>3 DEF SetCamera
  <2>2. d \notin Outputs
    BY DEF Offered, GetDevices
  <2> QED
    BY <1>3, <2>1, <2>2 DEF SetCamera, TypeOK, Locals
<1>4. ASSUME NEW w \in Workers, TakePlate(w) \/ Change(w)
      PROVE  (InputNotOutput /\ AsksNoOutput)'
  <2>1. CASE TakePlate(w)
    BY <2>1 DEF TakePlate, TypeOK, Locals
  <2>2. CASE Attempt(w) \/ Open(w)
    BY <2>2 DEF Attempt, Open, TypeOK
  <2>3. CASE Stop(w) \/ Retarget(w)
    BY <2>3 DEF Stop, Retarget
  <2> QED
    BY <1>4, <2>1, <2>2, <2>3 DEF Change
<1>5. ASSUME NEW w \in Workers, Plate(w) PROVE (InputNotOutput /\ AsksNoOutput)'
  <2>1. UNCHANGED camera
    <3>1. CASE EnableAutomatic(w) \/ DisableAutomatic(w)
      BY <3>1 DEF EnableAutomatic, DisableAutomatic, Controls
    <3>2. CASE Pause(w) \/ Roll(w) \/ Shoot(w) \/ Resume(w) \/ Publish(w)
      BY <3>2 DEF Pause, Roll, Shoot, Resume, Publish
    <3>3. CASE Sweep(w) \/ Rebuild(w)
      BY <3>3 DEF Sweep, Rebuild
    <3> QED
      BY <1>5, <3>1, <3>2, <3>3 DEF Plate
  <2>2. \A v \in Workers : req'[v].dev_num \in {req[v].dev_num, FirstDevice}
    <3> USE DEF TypeOK, Locals
    <3>1. CASE Pause(w)
      BY <3>1 DEF Pause, Abort
    <3>8. CASE EnableAutomatic(w)
      <4>1. req' = [req EXCEPT ![w].on = Controlled]
        BY <3>8 DEF EnableAutomatic
      <4> QED
        BY <4>1
    <3>2. CASE Roll(w)
      BY <3>2 DEF Roll
    <3>3. CASE DisableAutomatic(w)
      BY <3>3 DEF DisableAutomatic, Disabled
    <3>4. CASE Shoot(w)
      BY <3>4 DEF Shoot
    <3>5. CASE Resume(w) \/ Publish(w)
      BY <3>5 DEF Resume, Abort, Publish
    <3>6. CASE Sweep(w)
      BY <3>6 DEF Sweep
    <3>7. CASE Rebuild(w)
      BY <3>7 DEF Rebuild, Throw, Abort
    <3> QED
      BY <1>5, <3>1, <3>2, <3>3, <3>4, <3>5, <3>6, <3>7, <3>8 DEF Plate
  <2> QED
    BY <2>1, <2>2
<1>6. ASSUME NEW t \in Threads, Locking(t) \/ LockDevice(t)
      PROVE  (InputNotOutput /\ AsksNoOutput)'
  BY <1>6 DEF Locking, Quiet, LockDevice
<1> QED
  BY <1>1, <1>2, <1>3, <1>4, <1>5, <1>6 DEF Next, Receive

(* Whatever v4l2-ctl prints and whatever number the user asks for, the     *)
(* pictures never come from one of the app's own outputs: get_devices      *)
(* drops them by their numbers, even where it mistakes a name for a file.  *)
THEOREM InputNeverOutput == Spec => []InputNotOutput
<1>1. Init => InputNotOutput /\ AsksNoOutput
  BY CameraAssumption DEF Init, InputNotOutput, AsksNoOutput, NoRequest
<1> QED
  BY <1>1, StepNotOutput, CameraTyped, PTL DEF Spec
-----------------------------------------------------------------------------
\* The command keeps every line of a list without dashes in its names.
LEMMA PipedKeepsAll ==
  ASSUME NEW l \in Listings, \A i \in DOMAIN l : ~l[i].name.dashes
  PROVE  Piped(l) = Printed(l) /\ Len(Printed(l)) = 2 * Len(l)
<1> DEFINE lines == Printed(l)
           n == 2 * Len(l)
           kept == {i \in DOMAIN lines : ~lines[i].dashes}
           Nth(k) == CHOOSE i \in kept : Cardinality({j \in kept : j <= i}) = k
<1>1. /\ Len(l) \in Nat /\ DOMAIN l = 1 .. Len(l)
      /\ \A i \in DOMAIN l : ~l[i].file.dashes
  BY ListingsAssumption
<1>2. n \in Nat /\ DOMAIN lines = 1 .. n
  BY <1>1 DEF Printed
<1>3. ASSUME NEW i \in 1 .. n PROVE ~lines[i].dashes
  <2>1. CASE i % 2 = 1
    <3>1. (i + 1) \div 2 \in 1 .. Len(l) /\ lines[i] = l[(i + 1) \div 2].name
      BY <1>1, <2>1 DEF Printed
    <3> QED
      BY <1>1, <3>1
  <2>2. CASE i % 2 # 1
    <3>1. i \div 2 \in 1 .. Len(l) /\ lines[i] = l[i \div 2].file
      BY <1>1, <2>2 DEF Printed
    <3> QED
      BY <1>1, <3>1
  <2> QED
    BY <2>1, <2>2
<1> HIDE DEF lines, n
<1>4. kept = 1 .. n
  BY <1>2, <1>3
<1>5. \A i \in 1 .. n : {j \in 1 .. n : j <= i} = 1 .. i
  BY <1>2
<1>6. \A i \in Nat : Cardinality(1 .. i) = i
  BY FS_Interval
<1>7. Cardinality(kept) = n
  BY <1>2, <1>4, <1>6
<1>8. ASSUME NEW k \in 1 .. n PROVE Nth(k) = k
  <2>1. \A i \in kept : Cardinality({j \in kept : j <= i}) = i
    <3>1. \A i \in 1 .. n : {j \in kept : j <= i} = 1 .. i
      BY <1>4, <1>5, Zenon
    <3>2. \A i \in 1 .. n : i \in Nat
      BY <1>2
    <3> HIDE DEF kept
    <3> QED
      BY <1>4, <1>6, <3>1, <3>2, Zenon
  <2> HIDE DEF kept
  <2>2. k \in kept /\ Cardinality({j \in kept : j <= k}) = k
    BY <1>4, <2>1, Zenon
  <2>3. /\ Nth(k) \in kept
        /\ Cardinality({j \in kept : j <= Nth(k)}) = k
    BY <2>2, Zenon
  <2>4. Cardinality({j \in kept : j <= Nth(k)}) = Nth(k)
    BY <2>1, <2>3, Zenon
  <2> QED
    BY <2>3, <2>4, Zenon
<1>9. Piped(l) = [k \in 1 .. Cardinality(kept) |-> lines[Nth(k)]]
  BY DEF Piped, lines
<1> HIDE DEF kept, Nth
<1>10. Piped(l) = [k \in 1 .. n |-> lines[k]]
  BY <1>7, <1>8, <1>9
<1>11. lines = [k \in 1 .. n |-> lines[k]]
  BY <1>2 DEF lines, Printed
<1>12. Len(lines) = n
  BY <1>2, <1>11
<1> QED
  BY <1>10, <1>11, <1>12 DEF lines, n

\* Lines by turns a name and a file: those of the entries.
LEMMA PrintedByTurns ==
  ASSUME NEW l \in Listings, NEW k \in 1 .. Len(l)
  PROVE  Printed(l)[2 * k - 1] = l[k].name /\ Printed(l)[2 * k] = l[k].file
<1>1. Len(l) \in Nat
  BY ListingsAssumption
<1>2. /\ 2 * k - 1 \in 1 .. 2 * Len(l) /\ (2 * k - 1) % 2 = 1 /\ ((2 * k - 1) + 1) \div 2 = k
      /\ 2 * k \in 1 .. 2 * Len(l) /\ (2 * k) % 2 = 0 /\ (2 * k) \div 2 = k
  BY <1>1
<1> QED
  BY <1>2 DEF Printed

(* Whatever devices v4l2-ctl prints, their files with numbers and their    *)
(* names without dashes, the list can be read, and offers each of them but *)
(* the app's own, under its number and with its name.                      *)
THEOREM DevicesAreOffered == Spec => []DevicesOffered
<1>1. ASSUME NEW l \in Listings,
             \A i \in DOMAIN l : ~l[i].name.dashes /\ l[i].file.num # NoDigits
      PROVE  ~StoiThrows(Piped(l)) /\ GetDevices(Piped(l)) = Cameras(l)
  <2> DEFINE lines == Piped(l)
  <2>1. Len(lines) = 2 * Len(l) /\ Len(l) \in Nat /\ DOMAIN l = 1 .. Len(l)
    BY <1>1, PipedKeepsAll, ListingsAssumption
  <2>2. \A k \in 1 .. Len(l) : lines[2 * k - 1] = l[k].name /\ lines[2 * k] = l[k].file
    BY <1>1, PipedKeepsAll, PrintedByTurns
  <2> HIDE DEF lines
  <2>3. Pairs(lines) = DOMAIN l
    <3>1. \A n \in Nat : (2 * n) \div 2 = n
      OBVIOUS
    <3> QED
      BY <2>1, <3>1 DEF Pairs
  <2>4. ~StoiThrows(lines)
    BY <1>1, <2>1, <2>2, <2>3 DEF StoiThrows
  <2>5. \A k \in DOMAIN l : lines[2 * k - 1] = l[k].name /\ lines[2 * k].num = l[k].file.num
    BY <2>1, <2>2
  <2>6. {k \in Pairs(lines) : lines[2 * k].num \notin Outputs}
          = {k \in DOMAIN l : l[k].file.num \notin Outputs}
    BY <2>3, <2>5
  <2>7. GetDevices(lines) = Cameras(l)
    BY <2>5, <2>6 DEF GetDevices, Cameras
  <2> QED
    BY <2>4, <2>7 DEF lines
<1>2. InputNotOutput => DevicesOffered
  BY <1>1 DEF DevicesOffered, ListsRead
<1> QED
  BY <1>2, InputNeverOutput, PTL
=============================================================================
