--------------------------- MODULE MattersManager ---------------------------
(***************************************************************************)
(* The matting engine: the frame loop (MatterializeApp::run), the matters  *)
(* manager (MattersManager, MatterState, MatterConfig) and the handlers    *)
(* of the server that call it (MatterHandler, ServerHandler).              *)
(*                                                                         *)
(* A server worker runs one handler at a time; req[w] is what the handler  *)
(* holds in local variables and pc[w] the statement it is at.  A critical  *)
(* section is entered and left with the steps of MatterMutex; what the     *)
(* code does inside one is an action of its own, taken at stage "in",      *)
(* joined with unlock()'s test of the flag where unlock() comes next.      *)
(***************************************************************************)
EXTENDS MatterMutex, Naturals

CONSTANTS
  Main,          \* the thread that runs the frame loop
  Workers,       \* the threads of the server
  AppLock,       \* MatterializeApp::matter_lock
  ManagerLock,   \* MattersManager::running_matter_lock
  Modes,         \* MatterModes::modes
  InitialMode,   \* MatterModes::NONE
  Rank,          \* Rank[m]: the place of m in MatterModes::modes
  PlateModes,    \* the modes with requires_clean_plate()
  Fields,        \* Fields[m]: the names in m's config_fields()
  FrameFields,   \* fields read for every frame; the others are read when the
                 \* matter is built, and are must_reinit_on_update
  CtorFields,    \* fields read in the noexcept constructor of a matter
  Values,        \* the strings a field is given
  BadValues,     \* those that stod(), or OpenCV given the number, refuses
  DefaultValue,  \* the default of every field
  Plates,        \* the pictures a camera takes
  Empty,         \* the empty cv::Mat
  EmptyGrabs,    \* whether the camera may fail to give a frame
  Objects,       \* names for the IMatter objects
  Null,          \* nullptr
  None           \* no object under a name, no choice in a request

AllFields == UNION {Fields[m] : m \in Modes}
\* What OpenCVWebcam::grab may return.
Grabs == Plates \cup (IF EmptyGrabs THEN {Empty} ELSE {})

ASSUME ThreadsAssumption ==
  /\ Main \notin Workers /\ Workers # {}
  /\ Threads = Workers \cup {Main}
  /\ AppLock # ManagerLock
  /\ {AppLock, ManagerLock} \subseteq Locks
  /\ Users[AppLock] = {Main}
  /\ Users[ManagerLock] = Workers

ASSUME ModesAssumption ==
  /\ InitialMode \in Modes
  /\ PlateModes \subseteq Modes \ {InitialMode}
  /\ Fields \in [Modes -> SUBSET AllFields]
  /\ Fields[InitialMode] = {}
  /\ CtorFields \cap FrameFields = {}
  /\ Rank \in [Modes -> Nat]
  /\ \A m, n \in Modes : Rank[m] = Rank[n] => m = n

ASSUME DataAssumption ==
  /\ BadValues \subseteq Values
  /\ DefaultValue \in Values \ BadValues
  /\ Empty \notin Plates
  /\ EmptyGrabs \in BOOLEAN
  /\ Null \notin Objects
  /\ None \notin Modes \cup Objects \cup Plates \cup {Null, Empty}

VARIABLES
  running_matter,  \* MatterializeApp::matter, which the manager refers to
  running_mode,    \* MattersManager::running_matter_mode
  clean_plate,     \* MatterInitData::clean_plate
  instance,        \* instance[m]: MatterState::matter_instance of mode m
  config,          \* config[m]: MatterConfig::json_config of mode m
  heap,            \* heap[o]: the matter named o, or None
  running,         \* MatterializeApp::running
  up,              \* the process has not exited
  pc,              \* pc[t]: where thread t is
  req              \* req[w]: the locals of w's handler

manager == <<running_matter, running_mode, clean_plate, instance, config, heap>>
process == <<running, up>>
vars == <<mutexVars, manager, process, pc, req>>
-----------------------------------------------------------------------------
Ops == {"none", "get", "set", "update", "load", "plate"}

MainSteps == {"loop", "frame", "matting", "cleanup"}

\* The statements that lock the manager's lock, and what follows each.
Target == [lock_get |-> "get", lock_assign |-> "assign",
           lock_config |-> "config", lock_roll |-> "roll",
           lock_delete |-> "delete"]

WorkerSteps ==
  {"idle", "get", "assign", "next", "config", "pause", "roll", "resume",
   "unpause", "publish", "sweep", "delete", "null", "fetch", "build", "store", "cleanup"}
    \cup DOMAIN Target

\* What a handler may be told to write: some of the mode's fields.
Updates(m) == UNION {[fs -> Values] : fs \in SUBSET Fields[m]}

\* A built matter: its mode, and the plate and values it was built from.
Settings(m) == [Fields[m] \ FrameFields -> Values]
\* Mutant of Setting: a matter is said to depend on all the fields.
AllSettings(m) == config[m]

Setting(m) == [f \in Fields[m] \ FrameFields |-> config[m][f]]

(* The locals of a handler: the operation, the mode it works on, the field *)
(* values it has left to write, whether one of those it wrote must reinit, *)
(* the modes it has left to visit, the pointer get_matter gave it, and the *)
(* picture it took.                                                        *)
NoWrites == [f \in {} |-> DefaultValue]

Request(o, m, u, ms) == [op |-> o, mode |-> m, writes |-> u, reinit |-> FALSE,
                         modes |-> ms, matter |-> Null, shot |-> Empty]

NoRequest == Request("none", InitialMode, NoWrites, {})

\* Thread t goes on at statement s.
Go(t, s) == pc' = [pc EXCEPT ![t] = s]
\* Worker w ends its handler, with a response or an exception Pistache
\* answers with an error.
Answer(w) == Go(w, "idle") /\ req' = [req EXCEPT ![w] = NoRequest]

At(t, s) == up /\ pc[t] = s
Out(t) == stage[t] = "out"
In(t) == stage[t] = "in"

\* Names in use; a deleted object's name is not given to a new object while
\* a pointer still holds it, so a dangling pointer is never mistaken for a
\* good one.
Referenced == {running_matter} \cup {instance[m] : m \in Modes}
                \cup {req[w].matter : w \in Workers}

Live(o) == o \in Objects /\ heap[o] # None

\* get_matter() on mode m throws or terminates if it has to build a matter.
Unbuildable(m) ==
  \/ m \in PlateModes /\ clean_plate = Empty
  \/ \E f \in Fields[m] \ FrameFields : config[m][f] \in BadValues

(* The constructor of the app and, through it, of the manager: the default *)
(* configurations, and the matter of InitialMode, built with the mutex     *)
(* taken and given back before the server has any thread.                  *)
Init ==
  /\ MutexInit
  /\ running_mode = InitialMode
  /\ clean_plate = Empty
  /\ config = [m \in Modes |-> [f \in Fields[m] |-> DefaultValue]]
  /\ running_matter \in Objects
  /\ instance = [m \in Modes |-> IF m = InitialMode THEN running_matter ELSE Null]
  /\ heap = [o \in Objects |->
               IF o = running_matter
               THEN [mode |-> InitialMode, plate |-> Empty, setting |-> Setting(InitialMode)]
               ELSE None]
  /\ running = TRUE
  /\ up = TRUE
  /\ pc = [t \in Threads |-> IF t = Main THEN "loop" ELSE "idle"]
  /\ req = [w \in Workers |-> NoRequest]
-----------------------------------------------------------------------------
(* Entering a section of the manager: the flag of the shared lock object   *)
(* is tested; if it is set, lock() throws and the request fails.           *)
Enter(w) ==
  /\ up
  /\ Out(w)
  /\ pc[w] \in DOMAIN Target
  /\ \/ Lock(w, ManagerLock) /\ Go(w, Target[pc[w]]) /\ UNCHANGED req
     \/ owns[ManagerLock] /\ Answer(w) /\ UNCHANGED mutexVars
  /\ UNCHANGED <<manager, process>>

\* An explicit unlock() that throws: the mutex is never given back.
UnlockThrows(t) == ~owns[via[t]] /\ Leave(t)

\* One mode's configuration is done: load_configs goes on to the next.
UpdateDone(w) ==
  IF req[w].op = "load" THEN Go(w, "next") /\ UNCHANGED req ELSE Answer(w)

(* The lock_guard of update_config unlocks.  Its destructor is noexcept:   *)
(* an unlock() that throws there terminates the process.                   *)
GuardUnlocks(w, done) ==
  \/ Unlock(w) /\ done
  \/ In(w) /\ ~owns[via[w]] /\ Go(w, "cleanup") /\ UNCHANGED <<mutexVars, req>>

\* Mutant of Throw: update_config locks and unlocks explicitly, without a guard.
ThrowUnguarded(w) ==
  IF Out(w) THEN Answer(w) /\ UNCHANGED mutexVars ELSE Leave(w) /\ Answer(w)

(* An exception leaves the manager: update_config's guard unlocks, the     *)
(* explicit lock() of update_clean_plate is not undone by anybody.         *)
Throw(w) ==
  \/ Out(w) /\ Answer(w) /\ UNCHANGED mutexVars
  \/ In(w) /\ req[w].op # "plate" /\ GuardUnlocks(w, Answer(w))
  \/ In(w) /\ req[w].op = "plate" /\ Leave(w) /\ Answer(w)

\* The part of a handler that has no lock() or unlock() in progress.
Ready(w) == Out(w) \/ In(w)
-----------------------------------------------------------------------------
(* GET /matter/current: MattersManager::get_running_mode. *)
GetMode(w) ==
  /\ At(w, "idle") /\ Out(w)
  /\ Go(w, "lock_get")
  /\ req' = [req EXCEPT ![w] = Request("get", InitialMode, NoWrites, {})]
  /\ UNCHANGED <<mutexVars, manager, process>>

\* Mutant of FinishGet: the mode is returned with the mutex locked.
FinishGetLocked(w) ==
  /\ At(w, "get") /\ In(w)
  /\ Leave(w)
  /\ Answer(w)
  /\ UNCHANGED <<manager, process>>

FinishGet(w) ==
  /\ At(w, "get") /\ In(w)
  /\ Unlock(w) \/ UnlockThrows(w)
  /\ Answer(w)
  /\ UNCHANGED <<manager, process>>

(* POST /matter/set: set_running_mode compares the mode without the lock;  *)
(* setting the mode that runs changes nothing.                             *)
SetMode(w) ==
  /\ At(w, "idle") /\ Out(w)
  /\ \E m \in Modes \ {running_mode} :
       req' = [req EXCEPT ![w] = Request("set", m, NoWrites, {})]
  /\ Go(w, "fetch")
  /\ UNCHANGED <<mutexVars, manager, process>>

\* Mutant of Assign: the running matter is exchanged without the lock.
AssignUnlocked(w) ==
  /\ At(w, "lock_assign") /\ Out(w)
  /\ running_matter' = req[w].matter
  /\ running_mode' = req[w].mode
  /\ Answer(w)
  /\ UNCHANGED <<mutexVars, clean_plate, instance, config, heap, process>>

Assign(w) ==
  /\ At(w, "assign") /\ In(w)
  /\ running_matter' = req[w].matter
  /\ running_mode' = req[w].mode
  /\ Unlock(w) \/ UnlockThrows(w)
  /\ Answer(w)
  /\ UNCHANGED <<clean_plate, instance, config, heap, process>>
-----------------------------------------------------------------------------
(* MatterState::get_matter: the instance there is, or a new one if the     *)
(* plate it needs is there.                                                *)
Fetch(w) ==
  /\ At(w, "fetch") /\ Ready(w)
  /\ LET m == req[w].mode IN
     \/ /\ instance[m] # Null
        /\ req' = [req EXCEPT ![w].matter = instance[m]]
        /\ Go(w, IF req[w].op = "set" THEN "lock_assign" ELSE "store")
        /\ UNCHANGED mutexVars
     \/ /\ instance[m] = Null
        /\ m \in PlateModes /\ clean_plate = Empty
        /\ Throw(w)
     \/ /\ instance[m] = Null
        /\ ~(m \in PlateModes /\ clean_plate = Empty)
        /\ Go(w, "build")
        /\ UNCHANGED <<mutexVars, req>>
  /\ UNCHANGED <<manager, process>>

BadAmong(m, fs) == \E f \in fs \cap Fields[m] : config[m][f] \in BadValues

(* IMatterMode::init_matter: a refused value throws if it is read as an    *)
(* argument, and terminates if it is read in the noexcept constructor.     *)
Build(w) ==
  /\ At(w, "build") /\ Ready(w)
  /\ LET m == req[w].mode
         arguments == AllFields \ (FrameFields \cup CtorFields)
     IN \/ /\ BadAmong(m, arguments)
           /\ Throw(w)
           /\ UNCHANGED manager
        \/ /\ ~BadAmong(m, arguments) /\ BadAmong(m, CtorFields)
           /\ Go(w, "cleanup")
           /\ UNCHANGED <<mutexVars, manager, req>>
        \/ /\ ~BadAmong(m, arguments \cup CtorFields)
           /\ \E o \in Objects \ Referenced :
                /\ heap[o] = None
                /\ heap' = [heap EXCEPT ![o] =
                     [mode |-> m, plate |-> clean_plate, setting |-> Setting(m)]]
                /\ instance' = [instance EXCEPT ![m] = o]
                /\ req' = [req EXCEPT ![w].matter = o]
           /\ Go(w, IF req[w].op = "set" THEN "lock_assign" ELSE "store")
           /\ UNCHANGED <<mutexVars, running_matter, running_mode, clean_plate, config>>
  /\ UNCHANGED process

\* Mutant of Delete: reinit_matter only forgets the instance.
DeleteNothing(w) ==
  /\ At(w, "delete") /\ Ready(w)
  /\ Go(w, "null")
  /\ UNCHANGED <<mutexVars, manager, process, req>>

\* MatterState::reinit_matter: delete the instance ...
Delete(w) ==
  /\ At(w, "delete") /\ Ready(w)
  /\ heap' = [o \in Objects |-> IF o = instance[req[w].mode] THEN None ELSE heap[o]]
  /\ Go(w, "null")
  /\ UNCHANGED <<mutexVars, running_matter, running_mode, clean_plate, instance,
                 config, process, req>>

\* ... then forget it; the next get_matter builds a new one.
Nullify(w) ==
  /\ At(w, "null") /\ Ready(w)
  /\ instance' = [instance EXCEPT ![req[w].mode] = Null]
  /\ \/ In(w) /\ Go(w, "fetch") /\ UNCHANGED req
     \/ Out(w) /\ req[w].op = "plate" /\ Go(w, "sweep") /\ UNCHANGED req
     \/ Out(w) /\ req[w].op # "plate" /\ UpdateDone(w)
  /\ UNCHANGED <<mutexVars, running_matter, running_mode, clean_plate, config,
                 heap, process>>

\* Mutant of Store: the matter is got again, but running_matter keeps its value.
StoreNothing(w) ==
  /\ At(w, "store") /\ In(w)
  /\ \/ req[w].op # "plate" /\ GuardUnlocks(w, UpdateDone(w))
     \/ req[w].op = "plate" /\ Unlock(w) /\ Go(w, "sweep") /\ UNCHANGED req
     \/ req[w].op = "plate" /\ UnlockThrows(w) /\ Answer(w)
  /\ UNCHANGED <<manager, process>>

\* running_matter = state.get_matter(), then the end of the section.
Store(w) ==
  /\ At(w, "store") /\ In(w)
  /\ running_matter' = req[w].matter
  /\ \/ req[w].op # "plate" /\ GuardUnlocks(w, UpdateDone(w))
     \/ req[w].op = "plate" /\ Unlock(w) /\ Go(w, "sweep") /\ UNCHANGED req
     \/ req[w].op = "plate" /\ UnlockThrows(w) /\ Answer(w)
  /\ UNCHANGED <<running_mode, clean_plate, instance, config, heap, process>>
-----------------------------------------------------------------------------
\* Mutant of Choose: update_config never takes the lock.
ChooseUnlocked(w, r) ==
  /\ req' = [req EXCEPT ![w] = r]
  /\ Go(w, "config")

\* update_config compares the modes without the lock; it locks, and keeps
\* the running matter up to date, only if it found them equal.
Choose(w, r) ==
  /\ req' = [req EXCEPT ![w] = r]
  /\ Go(w, IF r.mode = running_mode THEN "lock_config" ELSE "config")

(* POST /matter/config/update.  A request that names a field the mode does *)
(* not have is one whose writes are None.                                  *)
UpdateConfig(w) ==
  /\ At(w, "idle") /\ Out(w)
  /\ \E m \in Modes : \E u \in Updates(m) \cup {None} :
       Choose(w, Request("update", m, u, {}))
  /\ UNCHANGED <<mutexVars, manager, process>>

(* POST /matters/config/import_file: load_configs updates the modes one    *)
(* after the other, in the order of MatterModes::modes, from a file that   *)
(* may name any fields and values.                                         *)
LoadConfigs(w) ==
  /\ At(w, "idle") /\ Out(w)
  /\ req' = [req EXCEPT ![w] = Request("load", InitialMode, NoWrites, Modes)]
  /\ Go(w, "next")
  /\ UNCHANGED <<mutexVars, manager, process>>

(* The file may also end the loop at any mode, with an entry that is not   *)
(* what load_configs expects, which throws.                                *)
NextMode(w) ==
  /\ At(w, "next") /\ Out(w)
  /\ \/ Answer(w)
     \/ \E m \in req[w].modes :
          /\ \A n \in req[w].modes : Rank[m] <= Rank[n]
          /\ \E u \in Updates(m) \cup {None} :
               Choose(w, Request("load", m, u, req[w].modes \ {m}))
  /\ UNCHANGED <<mutexVars, manager, process>>

\* MatterConfig::update checks every name before it writes any field.
RejectConfig(w) ==
  /\ At(w, "config") /\ Ready(w)
  /\ req[w].writes = None
  /\ Throw(w)
  /\ UNCHANGED <<manager, process>>

\* One field is written; in which order does not matter to what follows.
WriteField(w) ==
  /\ At(w, "config") /\ Ready(w)
  /\ req[w].writes # None
  /\ \E f \in DOMAIN req[w].writes :
       /\ config' = [config EXCEPT ![req[w].mode][f] = req[w].writes[f]]
       /\ req' = [req EXCEPT
            ![w].writes = [g \in DOMAIN @ \ {f} |-> @[g]],
            ![w].reinit = @ \/ f \notin FrameFields]
  /\ UNCHANGED <<mutexVars, running_matter, running_mode, clean_plate, instance,
                 heap, process, pc>>

\* MatterState::config_update ends, with or without reinit_matter().
ConfigWritten(w) ==
  /\ At(w, "config") /\ Ready(w)
  /\ req[w].writes # None /\ DOMAIN req[w].writes = {}
  /\ \/ req[w].reinit /\ Go(w, "delete") /\ UNCHANGED req
     \/ ~req[w].reinit /\ In(w) /\ Go(w, "fetch") /\ UNCHANGED req
     \/ ~req[w].reinit /\ Out(w) /\ UpdateDone(w)
  /\ UNCHANGED <<mutexVars, manager, process>>
-----------------------------------------------------------------------------
\* POST /cleanplate/take, the camera being available.
TakePlate(w) ==
  /\ At(w, "idle") /\ Out(w)
  /\ Go(w, "pause")
  /\ req' = [req EXCEPT ![w] = Request("plate", InitialMode, NoWrites, {})]
  /\ UNCHANGED <<mutexVars, manager, process>>

\* Mutant of Pause: lock() is forgotten.
PauseForgotten(w) ==
  /\ At(w, "pause") /\ Out(w)
  /\ stage' = [stage EXCEPT ![w] = "in"]
  /\ via' = [via EXCEPT ![w] = ManagerLock]
  /\ Go(w, "roll")
  /\ UNCHANGED <<mutex, owns, manager, process, req>>

\* pause_running_matter: a failed assertion aborts; then lock().
Pause(w) ==
  /\ At(w, "pause") /\ Out(w)
  /\ Go(w, IF owns[ManagerLock] THEN "cleanup" ELSE "lock_roll")
  /\ UNCHANGED <<mutexVars, manager, process, req>>

\* webcam.roll and webcam.grab, the running matter paused.
Roll(w) ==
  /\ At(w, "roll") /\ In(w)
  /\ \E p \in Grabs : req' = [req EXCEPT ![w].shot = p]
  /\ Go(w, "resume")
  /\ UNCHANGED <<mutexVars, manager, process>>

\* resume_running_matter: the assertion, then unlock().
Resume(w) ==
  /\ At(w, "resume") /\ In(w)
  /\ Go(w, IF owns[ManagerLock] THEN "unpause" ELSE "cleanup")
  /\ UNCHANGED <<mutexVars, manager, process, req>>

\* Mutant of Unpause: the mutex is unlocked behind the lock object's back.
UnpauseMutex(w) ==
  /\ At(w, "unpause") /\ In(w)
  /\ mutex' = Free
  /\ stage' = [stage EXCEPT ![w] = "out"]
  /\ Go(w, "publish")
  /\ UNCHANGED <<owns, via, manager, process, req>>

Unpause(w) ==
  /\ At(w, "unpause") /\ In(w)
  /\ \/ Unlock(w) /\ Go(w, "publish") /\ UNCHANGED req
     \/ UnlockThrows(w) /\ Answer(w)
  /\ UNCHANGED <<manager, process>>

\* update_clean_plate: the new plate first, then every mode that needs one.
Publish(w) ==
  /\ At(w, "publish") /\ Out(w)
  /\ clean_plate' = req[w].shot
  /\ req' = [req EXCEPT ![w] = Request("plate", InitialMode, NoWrites, PlateModes)]
  /\ Go(w, "sweep")
  /\ UNCHANGED <<mutexVars, running_matter, running_mode, instance, config, heap,
                 process>>

\* Mutant of Sweep: the running matter is replaced without the lock.
SweepUnlocked(w) ==
  /\ At(w, "sweep") /\ Out(w)
  /\ \/ req[w].modes = {} /\ Answer(w)
     \/ \E m \in req[w].modes :
          /\ req' = [req EXCEPT ![w] = Request("plate", m, NoWrites, req[w].modes \ {m})]
          /\ Go(w, "delete")
  /\ UNCHANGED <<mutexVars, manager, process>>

\* The map is ordered by the addresses of the modes, so in any order.
Sweep(w) ==
  /\ At(w, "sweep") /\ Out(w)
  /\ \/ req[w].modes = {} /\ Answer(w)
     \/ \E m \in req[w].modes :
          /\ req' = [req EXCEPT ![w] = Request("plate", m, NoWrites, req[w].modes \ {m})]
          /\ Go(w, IF m = running_mode THEN "lock_delete" ELSE "delete")
  /\ UNCHANGED <<mutexVars, manager, process>>

\* POST /shutdown: ServerHandler::shutdown_server.
Shutdown(w) ==
  /\ At(w, "idle") /\ Out(w)
  /\ running' = FALSE
  /\ UNCHANGED <<mutexVars, manager, up, pc, req>>
-----------------------------------------------------------------------------
(* The frame loop.  While the camera is not available it sleeps and tests  *)
(* running again, which changes nothing here.  The main thread alone uses  *)
(* AppLock, whose flag is therefore exact: lock() and unlock() never throw *)
(* (SoleUserFlag of MatterMutex).                                          *)
StartFrame ==
  /\ At(Main, "loop") /\ Out(Main)
  /\ running
  /\ Lock(Main, AppLock)
  /\ Go(Main, "frame")
  /\ UNCHANGED <<manager, process, req>>

(* An empty frame makes process_frame return with matter_lock locked, and  *)
(* run() go on to the cleanup.                                             *)
Grab ==
  /\ At(Main, "frame") /\ In(Main)
  /\ \/ Grabs # {} /\ Go(Main, "matting") /\ UNCHANGED mutexVars
     \/ EmptyGrabs /\ Leave(Main) /\ Go(Main, "cleanup")
  /\ UNCHANGED <<manager, process, req>>

\* Mutant of Matted: the frame is done and the mutex stays locked.
MattedLocked ==
  /\ At(Main, "matting") /\ In(Main)
  /\ Leave(Main) /\ Go(Main, "loop")
  /\ UNCHANGED <<manager, process, req>>

(* change_background with the running matter, which reads FrameFields; a   *)
(* refused value leaves main by an exception nobody catches.               *)
Matted ==
  /\ At(Main, "matting") /\ In(Main)
  /\ LET refused == /\ Live(running_matter)
                    /\ BadAmong(heap[running_matter].mode, FrameFields)
     IN \/ ~refused /\ Unlock(Main) /\ Go(Main, "loop")
        \/ refused /\ Go(Main, "cleanup") /\ UNCHANGED mutexVars
  /\ UNCHANGED <<manager, process, req>>

EndLoop ==
  /\ At(Main, "loop") /\ Out(Main)
  /\ ~running
  /\ Go(Main, "cleanup")
  /\ UNCHANGED <<mutexVars, manager, process, req>>

\* CleanupHandler::perform_cleanup_actions, at the end of run() or in the
\* handler of SIGABRT, on whichever thread it is: exit().
Exit(t) ==
  /\ At(t, "cleanup")
  /\ up' = FALSE
  /\ UNCHANGED <<mutexVars, manager, running, pc, req>>

Locking(t) ==
  /\ up
  /\ LockSteps(t)
  /\ UNCHANGED <<manager, process, pc, req>>

Handle(w) ==
  \/ Enter(w)
  \/ FinishGet(w) \/ Assign(w)
  \/ Fetch(w) \/ Build(w) \/ Delete(w) \/ Nullify(w) \/ Store(w)
  \/ NextMode(w) \/ RejectConfig(w) \/ WriteField(w) \/ ConfigWritten(w)
  \/ Pause(w) \/ Roll(w) \/ Resume(w) \/ Unpause(w) \/ Publish(w) \/ Sweep(w)

Receive(w) ==
  \/ GetMode(w) \/ SetMode(w) \/ UpdateConfig(w) \/ LoadConfigs(w)
  \/ TakePlate(w) \/ Shutdown(w)

FrameLoop == StartFrame \/ Grab \/ Matted \/ EndLoop

\* The process is gone.
Gone == ~up /\ UNCHANGED vars

Next ==
  \/ FrameLoop
  \/ \E w \in Workers : Receive(w) \/ Handle(w)
  \/ \E t \in Threads : Locking(t) \/ Exit(t)
  \/ Gone

Spec == Init /\ [][Next]_vars

(* Requests one at a time, as the user interface sends them: a worker      *)
(* takes one only when no other is serving one.                            *)
Serving(w) == pc[w] # "idle" \/ stage[w] # "out"
Serial == \A v, w \in Workers : Serving(v) /\ Serving(w) => v = w
SerialSpec == Init /\ [][Next /\ Serial']_vars

(* Every thread that can run runs.  A worker answers what it received but  *)
(* need not receive anything; the frame loop need not find the camera      *)
(* available.  pthread_mutex_lock is assumed not to pass over a waiting    *)
(* thread for ever, hence strong fairness of Acquire.                      *)
Fairness ==
  /\ WF_vars(Grab \/ Matted \/ EndLoop)
  /\ \A w \in Workers : WF_vars(Handle(w))
  /\ \A t \in Threads :
       /\ WF_vars(Locking(t))
       /\ SF_vars(up /\ Acquire(t) /\ UNCHANGED <<manager, process, pc, req>>)
       /\ WF_vars(Exit(t))

FairSpec == Spec /\ Fairness
-----------------------------------------------------------------------------
Matters == UNION {[mode : {m}, plate : Plates \cup {Empty}, setting : Settings(m)]
                    : m \in Modes}

\* None is neither an update nor a matter, and a matter is not nullptr.
ASSUME NoneAssumption ==
  /\ \A m \in Modes : None \notin Updates(m)
  /\ None \notin Matters
  /\ Null \notin Matters

Requests == [op : Ops, mode : Modes,
             writes : (UNION {Updates(m) : m \in Modes}) \cup {None},
             reinit : BOOLEAN, modes : SUBSET Modes,
             matter : Objects \cup {Null}, shot : Plates \cup {Empty}]

TypeOK ==
  /\ MutexTypeOK
  /\ running_matter \in Objects \cup {Null}
  /\ running_mode \in Modes
  /\ clean_plate \in Plates \cup {Empty}
  /\ instance \in [Modes -> Objects \cup {Null}]
  /\ config \in [Modes -> UNION {[Fields[m] -> Values] : m \in Modes}]
  /\ \A m \in Modes : config[m] \in [Fields[m] -> Values]
  /\ heap \in [Objects -> Matters \cup {None}]
  /\ running \in BOOLEAN /\ up \in BOOLEAN
  /\ pc \in [Threads -> MainSteps \cup WorkerSteps]
  /\ req \in [Workers -> Requests]
  /\ \A w \in Workers : req[w].writes \in Updates(req[w].mode) \cup {None}

\* Worker w is about to replace the matter of mode m for a new plate.
Replacing(w, m) ==
  /\ req[w].op = "plate"
  /\ \/ m \in req[w].modes
     \/ req[w].mode = m /\ pc[w] \in {"lock_delete", "delete"}

(* With requests one at a time, a frame is always matted by the matter of  *)
(* the mode that runs, alive, built from the values now in force of the    *)
(* fields that require it to be built anew, and from the plate now in      *)
(* force unless a worker is just replacing it.  The exception is a mode    *)
(* whose matter cannot be built: no plate, or a refused value.             *)
FrameMatter ==
  At(Main, "matting") =>
    \/ Unbuildable(running_mode)
    \/ /\ running_matter = instance[running_mode]
       /\ Live(running_matter)
       /\ heap[running_matter].mode = running_mode
       /\ heap[running_matter].setting = Setting(running_mode)
       /\ \/ running_mode \notin PlateModes
          \/ heap[running_matter].plate = clean_plate
          \/ \E w \in Workers : Replacing(w, running_mode)

(* With requests one at a time, every matter that exists is the instance   *)
(* of exactly the mode it was built for, and an instance a mode holds      *)
(* exists, except between the delete and the assignment of reinit_matter:  *)
(* nothing is leaked and nothing is deleted twice.                         *)
Ownership ==
  /\ \A o \in Objects : Live(o) => instance[heap[o].mode] = o
  /\ \A m \in Modes : instance[m] # Null =>
       \/ Live(instance[m]) /\ heap[instance[m]].mode = m
       \/ \E w \in Workers : pc[w] = "null" /\ req[w].mode = m

(* With requests one at a time, the mutex is lost only where               *)
(* update_clean_plate cannot rebuild the running matter, or where the      *)
(* frame loop got no frame and the process is ending.                      *)
LeakExplained ==
  up => \A t \in Threads : Leaked(t) =>
          IF t = Main THEN pc[t] = "cleanup"
          ELSE Unbuildable(running_mode) /\ instance[running_mode] = Null

(* "The implementer of a matter can retrieve config field values from this *)
(* object at any point while the matter is running so it must be kept in a *)
(* consistent state": with requests one at a time, no field changes while  *)
(* a frame is matted.                                                      *)
ConfigSteady ==
  [][At(Main, "matting") => config'[running_mode] = config[running_mode]]_vars

(* With any number of workers, the matter that mats a frame and the mode   *)
(* that runs are not exchanged before the frame is done.                   *)
FrameUndisturbed ==
  [][At(Main, "matting") => UNCHANGED <<running_matter, running_mode>>]_vars

\* Thread t is between lock() and unlock() and takes pictures there.
Grabbing(t) == In(t) /\ pc[t] \in {"frame", "roll"}

(* With any number of workers, "this thread is the only one grabbing       *)
(* frames from the webcam", and nobody mats a frame meanwhile.             *)
SoleGrabber ==
  \A s, t \in Threads :
    Grabbing(s) /\ (Grabbing(t) \/ (t = Main /\ pc[t] = "matting")) => s = t

(* assert(!running_matter_lock.owns_lock()) of pause_running_matter and    *)
(* assert(running_matter_lock.owns_lock()) of resume_running_matter hold.  *)
AssertsHold ==
  \A w \in Workers :
    /\ At(w, "pause") => ~owns[ManagerLock]
    /\ At(w, "resume") => owns[ManagerLock]

(* With one worker and strong fairness of the mutex, every handler ends,   *)
(* with an answer or with the process.                                     *)
RequestsEnd == \A w \in Workers : pc[w] # "idle" ~> (pc[w] = "idle" \/ ~up)

(* With one worker, POST /shutdown ends the process, unless a failed clean *)
(* plate has taken the mutex away from the frame loop for good.            *)
ShutdownStops ==
  ~running ~> (~up \/ \E w \in Workers : Leaked(w) /\ Unbuildable(running_mode))
-----------------------------------------------------------------------------
\* What MatterService calls frame: the matter, None if it is a deleted one.
Frame == IF ~At(Main, "matting") THEN Null
         ELSE IF running_matter \in Objects THEN heap[running_matter] ELSE None

Service == INSTANCE MatterService
  WITH mode <- running_mode, plate <- clean_plate, frame <- Frame, NoFrame <- Null,
       renewing <- {m \in PlateModes : \E w \in Workers : Replacing(w, m)}

(* With requests one at a time, the locks, pointers and instances are not  *)
(* to be seen: modes, values and plates change at once and between two     *)
(* frames, and each frame is matted from its beginning to its end as they  *)
(* say at its beginning.                                                   *)
ServiceSpec == Service!Spec
=============================================================================
