---------------------------- MODULE InputCamera ----------------------------
(***************************************************************************)
(* The input camera (OpenCVWebcam, OpenCVWebcamControls) and its users:    *)
(* the frame loop, POST /camera/set (CameraHandler) and POST               *)
(* /cleanplate/take, of whose last part, update_clean_plate, only what it  *)
(* does to the mutex and the plate: the matters are MattersManager's.  The *)
(* camera has a mutex of its own, device_mutex, taken through scoped_locks *)
(* and inside matter_mutex by those who grab.  isAvailable is read without *)
(* it, and the automatic controls are set without it.  A device may be     *)
(* missing, busy or lost at any time, so that opening it may fail.         *)
(***************************************************************************)
EXTENDS MatterMutex, VideoDevices

CONSTANTS
  Main,          \* the thread that runs the frame loop
  Workers,       \* the threads of the server
  AppLock,       \* MatterializeApp::matter_lock
  ManagerLock,   \* MattersManager::running_matter_lock
  Devices,       \* the numbers a device may be asked for by
  Listings,      \* what v4l2-ctl --list-devices may print
  FirstDevice,   \* MatterializeApp::input_device
  Closed,        \* a capture that is not opened, a picture of no camera
  Rolls,         \* MatterHandler::READJUSTMENT_FRAMES
  PlateModes,    \* how many modes of the matters need a clean plate
  EmptyGrabs,    \* whether an open camera may fail to give a frame
  Refusals       \* whether a matter may refuse a value in force

ASSUME CameraAssumption ==
  /\ Main \notin Workers
  /\ Threads = Workers \cup {Main}
  /\ AppLock # ManagerLock
  /\ {AppLock, ManagerLock} \subseteq Locks
  /\ Users[AppLock] = {Main}
  /\ Users[ManagerLock] = Workers
  /\ FirstDevice \in Devices
  /\ Closed \notin Devices
  /\ FirstDevice \notin Outputs /\ Closed \notin Outputs
  /\ Rolls \in Nat \ {0}
  /\ PlateModes \in Nat
  /\ EmptyGrabs \in BOOLEAN /\ Refusals \in BOOLEAN

\* The line with the name of a file, /dev/video0, has no two dashes.
ASSUME ListingsAssumption ==
  \A l \in Listings :
    /\ Len(l) \in Nat /\ DOMAIN l = 1 .. Len(l)
    /\ \A i \in DOMAIN l : ~l[i].file.dashes

VARIABLES
  device,        \* OpenCVWebcam::device
  capture,       \* the device OpenCVWebcam::capture has open, or Closed
  isAvailable,   \* OpenCVWebcam::isAvailable
  device_mutex,  \* the thread that owns OpenCVWebcam::device_mutex, or Free
  auto,          \* auto[d]: device d adjusts its exposure by itself
  plate,         \* the device of init_data.clean_plate, Closed if it is empty
  up,            \* the process has not exited
  pc,            \* pc[t]: where thread t is
  req            \* req[w]: the locals of w's handler

(* History, which the program does not keep: the devices of which a steady *)
(* plate was ever published, and those whose controls enable_automatic     *)
(* turned on while the next disable_automatic was for another device.      *)
VARIABLES plated, left

camera == <<device, capture, isAvailable>>
history == <<plated, left>>
vars == <<mutexVars, camera, device_mutex, auto, plate, up, pc, req, history>>
-----------------------------------------------------------------------------
Changing == {"stop", "retarget", "open"}   \* inside changeDevice's lock
Grabbing == {"grab", "roll", "shot"}       \* in grab()
InChange == \E w \in Workers : pc[w] \in Changing

MainSteps == {"loop", "grab", "exit"}
WorkerSteps == {"idle", "attempt", "change", "pause", "enable", "roll",
                "disable", "shot", "resume", "publish", "sweep", "rebuild"}
               \cup Changing

(* A picture remembers the device it was taken from and, which the program *)
(* does not keep, the device disable_automatic acted on just before, or    *)
(* Closed if a change of device raced with it.                             *)
Pictures == [of : Devices \cup {Closed}, steadied : Devices \cup {Closed}]
NoPicture == [of |-> Closed, steadied |-> Closed]
Locals == [dev_num : Devices, rolls : 0 .. Rolls, on : SUBSET Devices,
           shot : Pictures, modes : 0 .. PlateModes]

(* The device number of the request, the frames still to roll, the devices *)
(* enable_automatic may have acted on, the plate, the modes still to do.   *)
NoRequest ==
  [dev_num |-> FirstDevice, rolls |-> 0, on |-> {}, shot |-> NoPicture, modes |-> 0]

At(t, s) == up /\ pc[t] = s
Out(t) == stage[t] = "out"
In(t) == stage[t] = "in"
Go(t, s) == pc' = [pc EXCEPT ![t] = s]
Answer(w) == Go(w, "idle") /\ req' = [req EXCEPT ![w] = NoRequest]

(* The constructor of the app, before the server has a thread: start()     *)
(* opens the first device or not, and if it did the automatic controls are *)
(* turned off after the void frames.  The app's own outputs have none.     *)
Init ==
  /\ MutexInit
  /\ device = FirstDevice
  /\ capture \in {FirstDevice, Closed}
  /\ isAvailable = (capture # Closed)
  /\ device_mutex = Free
  /\ auto \in [Devices -> BOOLEAN]
  /\ \A d \in Devices : d = capture \/ d \in Outputs => ~auto[d]
  /\ plate = Closed
  /\ up = TRUE
  /\ pc = [t \in Threads |-> IF t = Main THEN "loop" ELSE "idle"]
  /\ req = [w \in Workers |-> NoRequest]
  /\ plated = {} /\ left = {}
-----------------------------------------------------------------------------
\* The devices that some list offers.
Offered ==
  {d \in Devices :
     \E l \in Listings :
       ~StoiThrows(Piped(l)) /\ \E e \in GetDevices(Piped(l)) : e.number = d}

(* POST /camera/set, with a number that the list of that moment has; the   *)
(* others are refused, and so is every number if the list cannot be read.  *)
SetCamera(w) ==
  /\ At(w, "idle") /\ Out(w)
  /\ Go(w, "attempt")
  /\ \E d \in Offered : req' = [req EXCEPT ![w].dev_num = d]
  /\ UNCHANGED <<mutexVars, camera, device_mutex, auto, plate, up, history>>

\* changeDevice opens the new device in passing; no lock is held.
Attempt(w) ==
  /\ At(w, "attempt")
  /\ \/ Go(w, "change") /\ UNCHANGED req
     \/ Answer(w)
  /\ UNCHANGED <<mutexVars, camera, device_mutex, auto, plate, up, history>>

\* std::scoped_lock lock(device_mutex), in changeDevice and in grab.
WantsDevice(t) ==
  \/ At(t, "change")
  \/ up /\ pc[t] \in Grabbing /\ In(t) /\ device_mutex # t

\* Mutant of LockDevice: changeDevice does not lock.
LockDeviceGrabsOnly(t) ==
  /\ WantsDevice(t)
  /\ IF At(t, "change") THEN UNCHANGED device_mutex
     ELSE device_mutex = Free /\ device_mutex' = t
  /\ IF At(t, "change") THEN Go(t, "stop") ELSE UNCHANGED pc
  /\ UNCHANGED <<mutexVars, camera, auto, plate, up, req, history>>

LockDevice(t) ==
  /\ WantsDevice(t)
  /\ device_mutex = Free
  /\ device_mutex' = t
  /\ IF At(t, "change") THEN Go(t, "stop") ELSE UNCHANGED pc
  /\ UNCHANGED <<mutexVars, camera, auto, plate, up, req, history>>

\* stop().
Stop(w) ==
  /\ At(w, "stop")
  /\ capture' = Closed
  /\ isAvailable' = FALSE
  /\ Go(w, "retarget")
  /\ UNCHANGED <<mutexVars, device, device_mutex, auto, plate, up, req, history>>

\* The camera counts as available before it is opened again.
Retarget(w) ==
  /\ At(w, "retarget")
  /\ isAvailable' = TRUE
  /\ device' = req[w].dev_num
  /\ Go(w, "open")
  /\ UNCHANGED <<mutexVars, capture, device_mutex, auto, plate, up, req, history>>

\* Mutant of Open: an exception that leaves isAvailable as it is.
OpenOrThrow(w) ==
  /\ At(w, "open")
  /\ capture' \in {device, Closed}
  /\ device_mutex' = Free
  /\ Answer(w)
  /\ UNCHANGED <<mutexVars, device, isAvailable, auto, plate, up, history>>

\* Mutant of Open: the lock is given back only after a success.
OpenLocked(w) ==
  /\ At(w, "open")
  /\ capture' \in {device, Closed}
  /\ isAvailable' = (capture' # Closed)
  /\ device_mutex' = IF isAvailable' THEN Free ELSE device_mutex
  /\ Answer(w)
  /\ UNCHANGED <<mutexVars, device, auto, plate, up, history>>

(* start(): the device is opened, or the camera is left closed and not     *)
(* available.  Either way the scoped_lock is given back and the request    *)
(* answered.                                                               *)
Open(w) ==
  /\ At(w, "open")
  /\ capture' \in {device, Closed}
  /\ isAvailable' = (capture' # Closed)
  /\ device_mutex' = Free
  /\ Answer(w)
  /\ UNCHANGED <<mutexVars, device, auto, plate, up, history>>
-----------------------------------------------------------------------------
\* POST /cleanplate/take with an available camera; else it is refused.
TakePlate(w) ==
  /\ At(w, "idle") /\ Out(w)
  /\ isAvailable
  /\ Go(w, "pause")
  /\ req' = [req EXCEPT ![w].rolls = Rolls]
  /\ UNCHANGED <<mutexVars, camera, device_mutex, auto, plate, up, history>>

\* A failed assertion of pause or resume, on a flag another worker changed.
Abort == up' = FALSE /\ UNCHANGED <<mutexVars, pc, req>>

(* pause_running_matter.  With the flag set the assertion fails, or lock() *)
(* throws if another worker set it just after the assertion.               *)
Pause(w) ==
  /\ At(w, "pause") /\ Out(w)
  /\ \/ Lock(w, ManagerLock) /\ Go(w, "enable") /\ UNCHANGED <<up, req>>
     \/ owns[ManagerLock] /\ Abort
     \/ owns[ManagerLock] /\ Answer(w) /\ UNCHANGED <<mutexVars, up>>
  /\ UNCHANGED <<camera, device_mutex, auto, plate, history>>

(* enable_automatic and disable_automatic touch the capture without        *)
(* device_mutex.  On a closed capture they do nothing; on one that         *)
(* changeDevice is closing or opening they do either, or crash.            *)
Controls(w, on) ==
  /\ \/ auto' = [d \in Devices |-> IF d = capture THEN on ELSE auto[d]] /\ UNCHANGED up
     \/ /\ InChange
        /\ auto' \in {auto, [auto EXCEPT ![device] = on]}
        /\ up' \in BOOLEAN
  /\ UNCHANGED <<mutexVars, camera, device_mutex, plate>>

\* The devices that the controls may be set of now, and the one they surely are.
Controlled == (IF InChange THEN {capture, device} ELSE {capture}) \cap Devices
Steadied == IF InChange THEN Closed ELSE capture

EnableAutomatic(w) ==
  /\ At(w, "enable") /\ In(w)
  /\ Controls(w, TRUE)
  /\ Go(w, "roll")
  /\ req' = [req EXCEPT ![w].on = Controlled]
  /\ UNCHANGED history

\* What disable_automatic leaves on, and what the plate is steadied on.
Disabled(w) ==
  /\ Go(w, "shot")
  /\ req' = [req EXCEPT ![w].shot.steadied = Steadied, ![w].on = {}]
  /\ left' = (left \cup req[w].on) \ {Steadied}
  /\ UNCHANGED plated

\* Mutant of DisableAutomatic: the controls stay on.
DisableNothing(w) ==
  /\ At(w, "disable") /\ In(w)
  /\ Disabled(w)
  /\ UNCHANGED <<mutexVars, camera, device_mutex, auto, plate, up>>

DisableAutomatic(w) ==
  /\ At(w, "disable") /\ In(w)
  /\ Controls(w, FALSE)
  /\ Disabled(w)

\* grab() with device_mutex: the source of the frame, Closed if it is empty.
Grabbed == {capture} \cup (IF EmptyGrabs THEN {Closed} ELSE {})
GrabEnds(t) == device_mutex = t /\ device_mutex' = Free

\* One turn of roll(), whose frames are thrown away.
Roll(w) ==
  /\ At(w, "roll") /\ GrabEnds(w)
  /\ req' = [req EXCEPT ![w].rolls = @ - 1]
  /\ IF req[w].rolls = 1 THEN Go(w, "disable") ELSE UNCHANGED pc
  /\ UNCHANGED <<mutexVars, camera, auto, plate, up, history>>

Shoot(w) ==
  /\ At(w, "shot") /\ GrabEnds(w)
  /\ \E c \in Grabbed : req' = [req EXCEPT ![w].shot.of = c]
  /\ Go(w, "resume")
  /\ UNCHANGED <<mutexVars, camera, auto, plate, up, history>>

(* resume_running_matter.  With the flag clear the assertion fails, or     *)
(* unlock() throws if another worker cleared it just after the assertion.  *)
Resume(w) ==
  /\ At(w, "resume") /\ In(w)
  /\ \/ Unlock(w) /\ Go(w, "publish") /\ UNCHANGED <<up, req>>
     \/ ~owns[ManagerLock] /\ Abort
     \/ ~owns[ManagerLock] /\ Leave(w) /\ Answer(w) /\ UNCHANGED up
  /\ UNCHANGED <<camera, device_mutex, auto, plate, history>>

(* update_clean_plate, with no lock: until then, frames and other workers  *)
(* went on with the old plate.                                             *)
Publish(w) ==
  /\ At(w, "publish") /\ Out(w)
  /\ LET p == req[w].shot
     IN /\ plate' = p.of
        /\ plated' = plated \cup (IF p.of = p.steadied THEN {p.of} \ {Closed} ELSE {})
  /\ req' = [req EXCEPT ![w] = [NoRequest EXCEPT !.modes = PlateModes]]
  /\ Go(w, "sweep")
  /\ UNCHANGED <<mutexVars, camera, device_mutex, auto, up, left>>

(* The modes that need a plate, one after the other: one that does not run *)
(* only forgets its matter; the one that runs, whichever it is by then, is *)
(* rebuilt with the mutex, or lock() throws on a flag that is set.         *)
Sweep(w) ==
  /\ At(w, "sweep") /\ Out(w)
  /\ \/ req[w].modes = 0 /\ Answer(w) /\ UNCHANGED mutexVars
     \/ /\ req[w].modes > 0
        /\ req' = [req EXCEPT ![w].modes = @ - 1]
        /\ UNCHANGED <<mutexVars, pc>>
     \/ req[w].modes > 0 /\ Lock(w, ManagerLock) /\ Go(w, "rebuild") /\ UNCHANGED req
     \/ req[w].modes > 0 /\ owns[ManagerLock] /\ Answer(w) /\ UNCHANGED mutexVars
  /\ UNCHANGED <<camera, device_mutex, auto, plate, up, history>>

\* An exception between the lock() and the unlock() of update_clean_plate.
Throw(w) == Leave(w) /\ Answer(w) /\ UNCHANGED up

\* Mutant of Rebuild: the section of the running mode ends without unlock().
RebuildLocked(w) ==
  /\ At(w, "rebuild") /\ In(w)
  /\ Throw(w)
  /\ UNCHANGED <<camera, device_mutex, auto, plate, history>>

(* reinit_matter and get_matter, which throws without a plate, whichever   *)
(* worker published it; and on a refused value, which may also end the     *)
(* process, in a noexcept constructor.                                     *)
Rebuild(w) ==
  /\ At(w, "rebuild") /\ In(w)
  /\ \/ /\ plate # Closed
        /\ Unlock(w) /\ Go(w, "sweep")
        /\ req' = [req EXCEPT ![w].modes = @ - 1]
        /\ UNCHANGED up
     \/ plate # Closed /\ ~owns[ManagerLock] /\ Throw(w)
     \/ plate = Closed /\ Throw(w)
     \/ Refusals /\ (Throw(w) \/ Abort)
  /\ UNCHANGED <<camera, device_mutex, auto, plate, history>>
-----------------------------------------------------------------------------
(* process_frame tests isAvailable and only then locks; without a camera   *)
(* it sleeps and changes nothing.                                          *)
StartFrame ==
  /\ At(Main, "loop") /\ Out(Main)
  /\ isAvailable
  /\ Lock(Main, AppLock)
  /\ Go(Main, "grab")
  /\ UNCHANGED <<camera, device_mutex, auto, plate, up, req, history>>

(* A frame is matted and matter_mutex given back, or it is empty and the   *)
(* loop ends with matter_mutex locked.                                     *)
Frame ==
  /\ At(Main, "grab") /\ GrabEnds(Main)
  /\ \E c \in Grabbed :
       IF c = Closed THEN Go(Main, "exit") /\ Leave(Main)
                     ELSE Go(Main, "loop") /\ Unlock(Main)
  /\ UNCHANGED <<camera, auto, plate, up, req, history>>

\* perform_cleanup_actions, here in one step.
Exit ==
  /\ At(Main, "exit")
  /\ up' = FALSE
  /\ UNCHANGED <<mutexVars, camera, device_mutex, auto, plate, pc, req, history>>

Quiet == UNCHANGED <<camera, device_mutex, auto, plate, up, pc, req, history>>
Locking(t) == up /\ LockSteps(t) /\ Quiet

Receive(w) == SetCamera(w) \/ TakePlate(w)

Change(w) == Attempt(w) \/ Stop(w) \/ Retarget(w) \/ Open(w)

Plate(w) ==
  \/ Pause(w) \/ EnableAutomatic(w) \/ Roll(w) \/ DisableAutomatic(w)
  \/ Shoot(w) \/ Resume(w) \/ Publish(w) \/ Sweep(w) \/ Rebuild(w)

Next ==
  \/ StartFrame \/ Frame \/ Exit
  \/ \E w \in Workers : Receive(w) \/ Change(w) \/ Plate(w)
  \/ \E t \in Threads : Locking(t) \/ LockDevice(t)

Spec == Init /\ [][Next]_vars

(* Threads run, and neither mutex passes over a waiting thread for ever.   *)
(* Nothing is assumed of requests.                                         *)
Fairness ==
  /\ WF_vars(StartFrame \/ Frame \/ Exit)
  /\ \A w \in Workers : WF_vars(Change(w) \/ Plate(w))
  /\ \A t \in Threads : WF_vars(Locking(t)) /\ SF_vars(LockDevice(t))
  /\ \A t \in Threads : SF_vars(up /\ Acquire(t) /\ Quiet)

FairSpec == Spec /\ Fairness
-----------------------------------------------------------------------------
TypeOK ==
  /\ MutexTypeOK
  /\ device \in Devices
  /\ capture \in Devices \cup {Closed}
  /\ isAvailable \in BOOLEAN
  /\ device_mutex \in Threads \cup {Free}
  /\ auto \in [Devices -> BOOLEAN]
  /\ plate \in Devices \cup {Closed}
  /\ up \in BOOLEAN
  /\ pc \in [Threads -> MainSteps \cup WorkerSteps]
  /\ pc[Main] \in MainSteps /\ \A w \in Workers : pc[w] \in WorkerSteps
  /\ req \in [Workers -> Locals]
  /\ plated \subseteq Devices /\ left \subseteq Devices

(* Between two changes the camera is what GET /camera/current says of it:   *)
(* the device in force is open if and only if it is available, whichever   *)
(* workers changed it and whichever opening failed.                        *)
CameraConsistent ==
  ~InChange =>
    /\ isAvailable <=> capture # Closed
    /\ capture \in {device, Closed}

(* A frame is never taken from a capture that is being closed or opened:   *)
(* changes and grabs, by the frame loop or for a plate, exclude each       *)
(* other, and so do two of either.                                         *)
DeviceExclusion ==
  \A s, t \in Threads :
    /\ pc[s] \in Changing => device_mutex = s
    /\ pc[s] \in Grabbing /\ device_mutex = s => In(s)
    /\ pc[s] \in Changing /\ pc[t] \in Changing => s = t

(* A frame that the matters compare with a clean plate has the exposure of *)
(* the plate.  The running matter may have been built from any plate that  *)
(* was ever published: the newest, one that another worker has published   *)
(* since, or the one before while the new one is still with the worker     *)
(* that took it, outside any lock.  Whichever it is, while the frame loop  *)
(* takes a frame from the device of such a plate no worker is readjusting  *)
(* and the automatic controls are off, unless a change of device between   *)
(* enable_automatic and disable_automatic of some later plate left that    *)
(* device with its controls on.                                            *)
ExposureSteady ==
  At(Main, "grab") /\ device_mutex = Main /\ capture \in plated \ left
    => ~auto[capture]

\* What a list says, the cameras but for the app's own, is what is read there.
Cameras(entries) ==
  {[number |-> entries[i].file.num, name |-> entries[i].name] :
     i \in {j \in DOMAIN entries : entries[j].file.num \notin Outputs}}

(* The app never takes its pictures from one of its own outputs, whatever  *)
(* number is asked for and whatever v4l2-ctl prints.                       *)
InputNotOutput == device \notin Outputs /\ capture \notin Outputs

ListsRead ==
  \A l \in Listings :
    (\A i \in DOMAIN l : ~l[i].name.dashes /\ l[i].file.num # NoDigits) =>
      ~StoiThrows(Piped(l)) /\ GetDevices(Piped(l)) = Cameras(l)

(* Besides, the devices it offers are those printed, each with its own     *)
(* name, unless a name has two dashes.                                     *)
DevicesOffered == InputNotOutput /\ ListsRead

(* No request waits for ever, for matter_mutex or for device_mutex, unless *)
(* the process exits.                                                      *)
CameraRequestsEnd ==
  \A w \in Workers : up /\ pc[w] # "idle" ~> pc[w] = "idle" \/ ~up

(* An empty plate was published, and get_matter threw on it with the mutex. *)
EmptyPlateLeaks == plate = Closed /\ \E w \in Workers : Leaked(w)

(* The frame loop is not locked out by changes and plates, however many    *)
(* come and whichever openings fail: if the camera is available it gets to *)
(* take a frame, unless a change made the camera unavailable before the    *)
(* loop looked, or the process exits.  An empty plate is survived while no *)
(* mode that needs one runs; with such a mode running, get_matter throws   *)
(* inside the section of update_clean_plate and the frames end, the one    *)
(* exception.  The other way in which they end, a value refused, is left   *)
(* out with Refusals.                                                      *)
FramesGoOn ==
  At(Main, "loop") /\ isAvailable ~>
    device_mutex = Main \/ (At(Main, "loop") /\ ~isAvailable) \/ ~up \/ EmptyPlateLeaks
=============================================================================
