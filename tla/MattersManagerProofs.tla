------------------------ MODULE MattersManagerProofs ------------------------
(* Theorems about the matting engine, for any number of server workers and *)
(* any modes, fields, values, plates and objects.                          *)
EXTENDS MattersManager, MatterMutexProofs

LEMMA ThreadFacts ==
  /\ Main \in Threads /\ Main \notin Workers
  /\ \A w \in Workers : w \in Threads /\ w # Main
  BY ThreadsAssumption

\* The lock object of thread t.
LockOf(t) == IF t = Main THEN AppLock ELSE ManagerLock

\* What a step of thread t does with the mutex.
LockUse(t) == \/ UNCHANGED mutexVars
              \/ Lock(t, LockOf(t)) \/ LockSteps(t) \/ Unlock(t) \/ Leave(t)

LEMMA ThrowUse ==
  ASSUME NEW w \in Workers, Throw(w) PROVE LockUse(w)
  BY DEF Throw, GuardUnlocks, Out, In, LockUse

LEMMA WorkerUse ==
  ASSUME NEW w \in Workers, Receive(w) \/ Handle(w)
  PROVE  LockUse(w)
<1> USE ThreadFacts DEF LockUse, LockOf
<1>1. CASE Receive(w)
  BY <1>1 DEF Receive, GetMode, SetMode, UpdateConfig, LoadConfigs, TakePlate, Shutdown
<1>2. CASE Enter(w)
  BY <1>2 DEF Enter
<1>3. CASE FinishGet(w) \/ Assign(w) \/ Unpause(w)
  BY <1>3 DEF FinishGet, Assign, Unpause, UnlockThrows
<1>4. CASE Fetch(w) \/ Build(w) \/ RejectConfig(w)
  BY <1>4, ThrowUse DEF Fetch, Build, RejectConfig
<1>5. CASE Delete(w) \/ Nullify(w) \/ NextMode(w) \/ WriteField(w)
             \/ ConfigWritten(w) \/ Pause(w) \/ Roll(w) \/ Resume(w)
             \/ Publish(w) \/ Sweep(w)
  BY <1>5 DEF Delete, Nullify, NextMode, WriteField, ConfigWritten, Pause, Roll,
              Resume, Publish, Sweep
<1>6. CASE Store(w)
  BY <1>6 DEF Store, GuardUnlocks, UnlockThrows
<1> QED
  BY <1>1, <1>2, <1>3, <1>4, <1>5, <1>6 DEF Handle

LEMMA MainUse == FrameLoop => LockUse(Main)
  BY ThreadFacts DEF FrameLoop, StartFrame, Grab, Matted, EndLoop, LockUse, LockOf

LEMMA StepUse ==
  ASSUME [Next]_vars PROVE \E t \in Threads : LockUse(t)
  BY ThreadFacts, WorkerUse, MainUse DEF Next, Gone, vars, Locking, Exit, LockUse

(* Every step of the engine is a step of the mutex or leaves it alone: the *)
(* code takes and gives back matter_mutex through its lock objects only.   *)
LEMMA EngineMutexStep == [Next]_vars => [MutexNext]_mutexVars
<1> SUFFICES ASSUME [Next]_vars PROVE [MutexNext]_mutexVars
  OBVIOUS
<1>1. PICK t \in Threads : LockUse(t)
  BY StepUse
<1>2. LockOf(t) \in Locks /\ t \in Users[LockOf(t)]
  BY ThreadsAssumption DEF LockOf
<1> QED
  BY <1>1, <1>2 DEF LockUse, MutexNext

LEMMA EngineMutexInit == Init => MutexInit
  BY DEF Init

\* The engine uses matter_mutex by the protocol of std::unique_lock.
THEOREM EngineImplementsMutex == Spec => MutexSpec
  BY EngineMutexInit, EngineMutexStep, PTL DEF Spec, MutexSpec

LEMMA EngineMutexInv == Spec => []MutexInv
  BY EngineImplementsMutex, MutexInvHolds, PTL
-----------------------------------------------------------------------------
LEMMA UpdatesMode ==
  ASSUME NEW m \in Modes
  PROVE  NoWrites \in Updates(m)
  BY DEF NoWrites, Updates

\* A request with typed locals.
TypedRequest(r) == r \in Requests /\ r.writes \in Updates(r.mode) \cup {None}

LEMMA RequestType ==
  ASSUME NEW o \in Ops, NEW m \in Modes, NEW u \in Updates(m) \cup {None},
         NEW ms \in SUBSET Modes
  PROVE  TypedRequest(Request(o, m, u, ms))
  BY DEF Request, TypedRequest, Requests

LEMMA NoRequestType == TypedRequest(NoRequest)
  BY RequestType, UpdatesMode, ModesAssumption DEF NoRequest, Ops

LEMMA SettingType ==
  ASSUME NEW m \in Modes, config[m] \in [Fields[m] -> Values]
  PROVE  Setting(m) \in Settings(m)
  BY DEF Setting, Settings

LEMMA InitTypeOK == Init => TypeOK
<1> SUFFICES ASSUME Init PROVE TypeOK
  OBVIOUS
<1> USE ModesAssumption, DataAssumption, ThreadFacts, ThreadsAssumption
<1>1. MutexTypeOK
  BY MutexInitInv, EngineMutexInit DEF MutexInv
<1>2. /\ config \in [Modes -> UNION {[Fields[m] -> Values] : m \in Modes}]
      /\ \A m \in Modes : config[m] \in [Fields[m] -> Values]
  BY DEF Init
<1>3. heap \in [Objects -> Matters \cup {None}]
  <2>1. Setting(InitialMode) \in Settings(InitialMode)
    BY <1>2, SettingType
  <2> QED
    BY <2>1 DEF Init, Matters
<1>4. /\ req \in [Workers -> Requests]
      /\ \A w \in Workers : req[w].writes \in Updates(req[w].mode) \cup {None}
  BY NoRequestType DEF Init, TypedRequest
<1> QED
  BY <1>1, <1>2, <1>3, <1>4 DEF Init, TypeOK, MainSteps, WorkerSteps

\* The part of TypeOK about handlers: where they are and what they hold.
Locals ==
  /\ pc \in [Threads -> MainSteps \cup WorkerSteps]
  /\ req \in [Workers -> Requests]
  /\ \A v \in Workers : req[v].writes \in Updates(req[v].mode) \cup {None}

LEMMA AnswerType ==
  ASSUME TypeOK, NEW w \in Workers, Answer(w)
  PROVE  Locals'
  BY NoRequestType, ThreadFacts
     DEF Answer, Go, TypeOK, WorkerSteps, TypedRequest, Locals

LEMMA GoType ==
  ASSUME TypeOK, NEW t \in Threads, NEW s \in MainSteps \cup WorkerSteps, Go(t, s)
  PROVE  pc' \in [Threads -> MainSteps \cup WorkerSteps]
  BY DEF Go, TypeOK

LEMMA ThrowType ==
  ASSUME TypeOK, NEW w \in Workers, Throw(w)
  PROVE  Locals'
<1>1. CASE Answer(w)
  BY <1>1, AnswerType DEF Locals
<1>2. CASE Go(w, "cleanup") /\ UNCHANGED req
  BY <1>2, GoType, ThreadFacts DEF Locals, TypeOK, WorkerSteps
<1> QED
  BY <1>1, <1>2 DEF Throw, GuardUnlocks

LEMMA UpdateDoneType ==
  ASSUME TypeOK, NEW w \in Workers, UpdateDone(w)
  PROVE  Locals'
<1>1. CASE Answer(w)
  BY <1>1, AnswerType DEF Locals
<1>2. CASE Go(w, "next") /\ UNCHANGED req
  BY <1>2, GoType, ThreadFacts DEF Locals, TypeOK, WorkerSteps
<1> QED
  BY <1>1, <1>2 DEF UpdateDone

LEMMA SendType ==
  ASSUME TypeOK, NEW w \in Workers, NEW s \in MainSteps \cup WorkerSteps, Go(w, s),
         NEW r, TypedRequest(r), req' = [req EXCEPT ![w] = r]
  PROVE  Locals'
  BY GoType, ThreadFacts DEF Locals, TypeOK, TypedRequest

LEMMA ChooseType ==
  ASSUME TypeOK, NEW w \in Workers, NEW r, TypedRequest(r), Choose(w, r)
  PROVE  Locals'
  BY SendType DEF Choose, WorkerSteps, Target

LEMMA ReceiveType ==
  ASSUME TypeOK, NEW w \in Workers, Receive(w)
  PROVE  Locals'
<1> USE ModesAssumption DEF Ops, WorkerSteps, Target
<1>1. CASE GetMode(w)
  <2>1. TypedRequest(Request("get", InitialMode, NoWrites, {}))
    BY RequestType, UpdatesMode
  <2> QED
    BY <1>1, <2>1, SendType DEF GetMode
<1>2. CASE SetMode(w)
  <2>1. PICK m \in Modes : req' = [req EXCEPT ![w] = Request("set", m, NoWrites, {})]
    BY <1>2 DEF SetMode
  <2>2. TypedRequest(Request("set", m, NoWrites, {}))
    BY RequestType, UpdatesMode
  <2> QED
    BY <1>2, <2>1, <2>2, SendType DEF SetMode
<1>3. CASE UpdateConfig(w)
  <2>1. PICK m \in Modes : \E u \in Updates(m) \cup {None} :
          Choose(w, Request("update", m, u, {}))
    BY <1>3 DEF UpdateConfig
  <2>2. PICK u \in Updates(m) \cup {None} : Choose(w, Request("update", m, u, {}))
    BY <2>1
  <2>3. TypedRequest(Request("update", m, u, {}))
    BY RequestType
  <2> QED
    BY <2>2, <2>3, ChooseType
<1>4. CASE LoadConfigs(w)
  <2>1. TypedRequest(Request("load", InitialMode, NoWrites, Modes))
    BY RequestType, UpdatesMode
  <2> QED
    BY <1>4, <2>1, SendType DEF LoadConfigs
<1>5. CASE TakePlate(w)
  <2>1. TypedRequest(Request("plate", InitialMode, NoWrites, {}))
    BY RequestType, UpdatesMode
  <2> QED
    BY <1>5, <2>1, SendType DEF TakePlate
<1>6. CASE Shutdown(w)
  BY <1>6 DEF Shutdown, Locals, TypeOK
<1> QED
  BY <1>1, <1>2, <1>3, <1>4, <1>5, <1>6 DEF Receive

LEMMA MoveType ==
  ASSUME TypeOK, NEW w \in Workers, NEW s \in WorkerSteps, Go(w, s), UNCHANGED req
  PROVE  Locals'
  BY GoType, ThreadFacts DEF Locals, TypeOK

LEMMA RequestUpdate ==
  ASSUME NEW q \in Requests
  PROVE  /\ \A x \in Objects \cup {Null} :
              LET r == [q EXCEPT !.matter = x] IN
              r \in Requests /\ r.mode = q.mode /\ r.writes = q.writes
         /\ \A p \in Plates \cup {Empty} :
              LET r == [q EXCEPT !.shot = p] IN
              r \in Requests /\ r.mode = q.mode /\ r.writes = q.writes
<1>1. ASSUME NEW x \in Objects \cup {Null}
      PROVE  LET r == [q EXCEPT !.matter = x] IN
             r \in Requests /\ r.mode = q.mode /\ r.writes = q.writes
  BY DEF Requests
<1>2. ASSUME NEW p \in Plates \cup {Empty}
      PROVE  LET r == [q EXCEPT !.shot = p] IN
             r \in Requests /\ r.mode = q.mode /\ r.writes = q.writes
  BY DEF Requests
<1> QED
  BY <1>1, <1>2

LEMMA WritesUpdate ==
  ASSUME NEW q \in Requests, NEW u \in Updates(q.mode), NEW b \in BOOLEAN
  PROVE  TypedRequest([q EXCEPT !.writes = u, !.reinit = b])
<1>1. q.mode \in Modes
  BY DEF Requests
<1>2. u \in UNION {Updates(m) : m \in Modes}
  BY <1>1
<1> QED
  BY <1>2 DEF Requests, TypedRequest

LEMMA HandleLocals ==
  ASSUME TypeOK, NEW w \in Workers, Handle(w)
  PROVE  Locals'
<1>q. /\ req[w] \in Requests
      /\ req[w].writes \in Updates(req[w].mode) \cup {None}
  BY DEF TypeOK
<1> USE ModesAssumption DEF Ops, WorkerSteps, Target
<1>1. CASE Enter(w)
  BY <1>1, AnswerType, MoveType DEF Enter
<1>2. CASE FinishGet(w) \/ Assign(w)
  BY <1>2, AnswerType DEF FinishGet, Assign
<1>3. CASE Fetch(w)
  <2>1. CASE Throw(w)
    BY <2>1, ThrowType
  <2>2. CASE Go(w, "build") /\ UNCHANGED req
    BY <2>2, MoveType
  <2>3. CASE /\ req' = [req EXCEPT ![w].matter = instance[req[w].mode]]
             /\ Go(w, IF req[w].op = "set" THEN "lock_assign" ELSE "store")
    <3> DEFINE r == [req[w] EXCEPT !.matter = instance[req[w].mode]]
    <3>1. instance[req[w].mode] \in Objects \cup {Null}
      BY <1>q DEF TypeOK, Requests
    <3>2. TypedRequest(r)
      BY <1>q, <3>1, RequestUpdate DEF TypedRequest
    <3>3. req' = [req EXCEPT ![w] = r]
      BY <2>3 DEF TypeOK
    <3> QED
      BY <2>3, <3>2, <3>3, SendType
  <2> QED
    BY <1>3, <2>1, <2>2, <2>3 DEF Fetch
<1>4. CASE Build(w)
  <2>1. CASE Throw(w)
    BY <2>1, ThrowType
  <2>2. CASE Go(w, "cleanup") /\ UNCHANGED req
    BY <2>2, MoveType
  <2>3. ASSUME NEW o \in Objects, req' = [req EXCEPT ![w].matter = o],
               Go(w, IF req[w].op = "set" THEN "lock_assign" ELSE "store")
        PROVE  Locals'
    <3> DEFINE r == [req[w] EXCEPT !.matter = o]
    <3>1. TypedRequest(r)
      BY <1>q, RequestUpdate DEF TypedRequest
    <3>2. req' = [req EXCEPT ![w] = r]
      BY <2>3 DEF TypeOK
    <3> QED
      BY <2>3, <3>1, <3>2, SendType
  <2> QED
    BY <1>4, <2>1, <2>2, <2>3 DEF Build
<1>5. CASE Delete(w)
  BY <1>5, MoveType DEF Delete
<1>6. CASE Nullify(w)
  BY <1>6, MoveType, UpdateDoneType DEF Nullify
<1>7. CASE Store(w)
  BY <1>7, MoveType, UpdateDoneType, AnswerType DEF Store, GuardUnlocks
<1>8. CASE NextMode(w)
  <2>1. CASE Answer(w)
    BY <2>1, AnswerType
  <2>2. ASSUME NEW m \in req[w].modes, NEW u \in Updates(m) \cup {None},
               Choose(w, Request("load", m, u, req[w].modes \ {m}))
        PROVE  Locals'
    <3>1. m \in Modes /\ req[w].modes \ {m} \in SUBSET Modes
      BY DEF TypeOK, Requests
    <3> QED
      BY <2>2, <3>1, RequestType, ChooseType
  <2> QED
    BY <1>8, <2>1, <2>2 DEF NextMode
<1>9. CASE RejectConfig(w)
  BY <1>9, ThrowType DEF RejectConfig
<1>10. CASE ConfigWritten(w)
  BY <1>10, MoveType, UpdateDoneType DEF ConfigWritten
<1>11. CASE Pause(w) \/ Resume(w)
  BY <1>11, MoveType DEF Pause, Resume
<1>12. CASE Unpause(w)
  BY <1>12, MoveType, AnswerType DEF Unpause
<1>13. CASE Publish(w)
  <2>1. TypedRequest(Request("plate", InitialMode, NoWrites, PlateModes))
    BY RequestType, UpdatesMode
  <2> QED
    BY <1>13, <2>1, SendType DEF Publish
<1>14. CASE Sweep(w)
  <2>1. CASE Answer(w)
    BY <2>1, AnswerType
  <2>2. ASSUME NEW m \in req[w].modes,
               req' = [req EXCEPT ![w] =
                         Request("plate", m, NoWrites, req[w].modes \ {m})],
               Go(w, IF m = running_mode THEN "lock_delete" ELSE "delete")
        PROVE  Locals'
    <3>1. m \in Modes /\ req[w].modes \ {m} \in SUBSET Modes
      BY DEF TypeOK, Requests
    <3>2. TypedRequest(Request("plate", m, NoWrites, req[w].modes \ {m}))
      BY <3>1, RequestType, UpdatesMode
    <3> QED
      BY <2>2, <3>2, SendType
  <2> QED
    BY <1>14, <2>1, <2>2 DEF Sweep
<1>15. CASE Roll(w)
  <2>1. PICK p \in Grabs : req' = [req EXCEPT ![w].shot = p]
    BY <1>15 DEF Roll
  <2> DEFINE r == [req[w] EXCEPT !.shot = p]
  <2>2. TypedRequest(r)
    BY <1>q, RequestUpdate DEF TypedRequest, Grabs
  <2>3. req' = [req EXCEPT ![w] = r]
    BY <2>1 DEF TypeOK
  <2> QED
    BY <1>15, <2>2, <2>3, SendType DEF Roll
<1>16. CASE WriteField(w)
  <2>1. PICK f \in DOMAIN req[w].writes :
          req' = [req EXCEPT
            ![w].writes = [g \in DOMAIN @ \ {f} |-> @[g]],
            ![w].reinit = @ \/ f \notin FrameFields]
    BY <1>16 DEF WriteField
  <2> DEFINE u == [g \in DOMAIN req[w].writes \ {f} |-> req[w].writes[g]]
             b == req[w].reinit \/ f \notin FrameFields
             r == [req[w] EXCEPT !.writes = u, !.reinit = b]
  <2>2. u \in Updates(req[w].mode)
    <3>1. req[w].writes \in Updates(req[w].mode)
      BY <1>16 DEF WriteField, TypeOK
    <3>2. PICK fs \in SUBSET Fields[req[w].mode] : req[w].writes \in [fs -> Values]
      BY <3>1 DEF Updates
    <3>3. u \in [fs \ {f} -> Values]
      BY <3>2
    <3> QED
      BY <3>3 DEF Updates
  <2>3. b \in BOOLEAN
    OBVIOUS
  <2>4. TypedRequest(r)
    <3> HIDE DEF u, b
    <3> QED
      BY <1>q, <2>2, <2>3, WritesUpdate
  <2>5. req' = [req EXCEPT ![w] = r]
    BY <2>1 DEF TypeOK, Requests
  <2>6. UNCHANGED pc
    BY <1>16 DEF WriteField
  <2> QED
    BY <2>4, <2>5, <2>6 DEF Locals, TypeOK, TypedRequest
<1> QED
  BY <1>1, <1>2, <1>3, <1>4, <1>5, <1>6, <1>7, <1>8, <1>9, <1>10, <1>11, <1>12,
     <1>13, <1>14, <1>15, <1>16 DEF Handle

\* The part of TypeOK about the matters, the configurations and the process.
State ==
  /\ running_matter \in Objects \cup {Null}
  /\ running_mode \in Modes
  /\ clean_plate \in Plates \cup {Empty}
  /\ instance \in [Modes -> Objects \cup {Null}]
  /\ config \in [Modes -> UNION {[Fields[m] -> Values] : m \in Modes}]
  /\ \A m \in Modes : config[m] \in [Fields[m] -> Values]
  /\ heap \in [Objects -> Matters \cup {None}]
  /\ running \in BOOLEAN /\ up \in BOOLEAN

LEMMA HandleState ==
  ASSUME TypeOK, NEW w \in Workers, Handle(w)
  PROVE  State'
<1>q. /\ req[w] \in Requests /\ req[w].mode \in Modes
      /\ req[w].matter \in Objects \cup {Null}
      /\ req[w].shot \in Plates \cup {Empty}
      /\ req[w].writes \in Updates(req[w].mode) \cup {None}
  BY DEF TypeOK, Requests
<1>0. CASE UNCHANGED <<manager, process>>
  BY <1>0 DEF manager, process, State, TypeOK
<1>1. CASE Assign(w)
  BY <1>1, <1>q DEF Assign, State, TypeOK, process
<1>2. CASE Build(w)
  <2>1. CASE UNCHANGED manager
    BY <1>0, <1>2, <2>1 DEF Build
  <2>2. ASSUME NEW o \in Objects,
               heap' = [heap EXCEPT ![o] =
                          [mode |-> req[w].mode, plate |-> clean_plate,
                           setting |-> Setting(req[w].mode)]],
               instance' = [instance EXCEPT ![req[w].mode] = o],
               UNCHANGED <<running_matter, running_mode, clean_plate, config, process>>
        PROVE  State'
    <3>1. Setting(req[w].mode) \in Settings(req[w].mode)
      BY <1>q, SettingType DEF TypeOK
    <3>2. [mode |-> req[w].mode, plate |-> clean_plate,
           setting |-> Setting(req[w].mode)] \in Matters
      BY <1>q, <3>1 DEF Matters, TypeOK
    <3> QED
      BY <1>q, <2>2, <3>2 DEF State, TypeOK, process
  <2> QED
    BY <1>2, <2>1, <2>2 DEF Build
<1>3. CASE Delete(w)
  BY <1>3 DEF Delete, State, TypeOK, process
<1>4. CASE Nullify(w)
  BY <1>4, <1>q DEF Nullify, State, TypeOK, process
<1>5. CASE Store(w)
  BY <1>5, <1>q DEF Store, State, TypeOK, process
<1>6. CASE WriteField(w)
  <2>1. PICK f \in DOMAIN req[w].writes :
          config' = [config EXCEPT ![req[w].mode][f] = req[w].writes[f]]
    BY <1>6 DEF WriteField
  <2>2. PICK fs \in SUBSET Fields[req[w].mode] : req[w].writes \in [fs -> Values]
    BY <1>6, <1>q DEF WriteField, Updates
  <2>3. f \in Fields[req[w].mode] /\ req[w].writes[f] \in Values
    BY <2>1, <2>2
  <2> DEFINE c == [config[req[w].mode] EXCEPT ![f] = req[w].writes[f]]
  <2>4. c \in [Fields[req[w].mode] -> Values]
    BY <1>q, <2>3 DEF TypeOK
  <2>5. config' = [config EXCEPT ![req[w].mode] = c]
    BY <2>1
  <2> HIDE DEF c
  <2>6. c \in UNION {[Fields[m] -> Values] : m \in Modes}
    BY <1>q, <2>4
  <2>7. /\ config' \in [Modes -> UNION {[Fields[m] -> Values] : m \in Modes}]
        /\ \A m \in Modes : config'[m] \in [Fields[m] -> Values]
    BY <1>q, <2>4, <2>5, <2>6 DEF TypeOK
  <2> QED
    BY <1>6, <2>7 DEF WriteField, State, TypeOK, process
<1>7. CASE Publish(w)
  BY <1>7, <1>q DEF Publish, State, TypeOK, process
<1> QED
  BY <1>0, <1>1, <1>2, <1>3, <1>4, <1>5, <1>6, <1>7
     DEF Handle, Enter, FinishGet, Fetch, NextMode, RejectConfig, ConfigWritten,
         Pause, Roll, Resume, Unpause, Sweep

LEMMA StepTypeOK == TypeOK /\ MutexInv /\ [Next]_vars => TypeOK'
<1> SUFFICES ASSUME TypeOK, MutexInv, [Next]_vars PROVE TypeOK'
  OBVIOUS
<1>1. MutexTypeOK'
  BY EngineMutexStep, MutexStepInv DEF MutexInv
<1>2. SUFFICES State' /\ Locals'
  BY <1>1 DEF TypeOK, State, Locals
<1>3. CASE UNCHANGED vars
  BY <1>3 DEF vars, manager, process, State, Locals, TypeOK
<1>4. CASE FrameLoop
  <2>1. State'
    BY <1>4 DEF FrameLoop, StartFrame, Grab, Matted, EndLoop, manager, process,
                State, TypeOK
  <2>2. PICK s \in MainSteps : Go(Main, s) /\ UNCHANGED req
    BY <1>4 DEF FrameLoop, StartFrame, Grab, Matted, EndLoop, MainSteps
  <2> QED
    BY <2>1, <2>2, GoType, ThreadFacts DEF Locals, TypeOK
<1>5. ASSUME NEW w \in Workers, Receive(w) PROVE State' /\ Locals'
  BY <1>5, ReceiveType
     DEF Receive, GetMode, SetMode, UpdateConfig, LoadConfigs, TakePlate, Shutdown,
         manager, process, State, TypeOK
<1>6. ASSUME NEW w \in Workers, Handle(w) PROVE State' /\ Locals'
  BY <1>6, HandleState, HandleLocals
<1>7. ASSUME NEW t \in Threads, Locking(t) \/ Exit(t) PROVE State' /\ Locals'
  BY <1>7 DEF Locking, Exit, manager, process, State, Locals, TypeOK
<1> QED
  BY <1>3, <1>4, <1>5, <1>6, <1>7 DEF Next, Gone

\* The state of the engine always has its type.
THEOREM TypeCorrect == Spec => []TypeOK
  BY InitTypeOK, StepTypeOK, EngineMutexInv, PTL DEF Spec
-----------------------------------------------------------------------------
\* A worker's step changes neither the statement nor the section of another thread.
LEMMA WorkerStepsAlone ==
  ASSUME TypeOK, NEW w \in Workers, NEW t \in Threads, t # w,
         Receive(w) \/ Handle(w)
  PROVE  pc'[t] = pc[t] /\ stage'[t] = stage[t]
<1> USE ThreadFacts DEF TypeOK, MutexTypeOK
<1> DEFINE Same == pc'[t] = pc[t] /\ stage'[t] = stage[t]
<1>1. ASSUME NEW s, Go(w, s) PROVE pc'[t] = pc[t]
  BY <1>1 DEF Go
<1>2. ASSUME \/ UNCHANGED mutexVars
             \/ Lock(w, ManagerLock) \/ Unlock(w) \/ Leave(w)
      PROVE  stage'[t] = stage[t]
  BY <1>2 DEF mutexVars, Lock, Unlock, Leave
<1>3. Throw(w) => Same
  BY <1>1, <1>2 DEF Throw, GuardUnlocks, Answer
<1>4. CASE Receive(w)
  BY <1>1, <1>2, <1>4 DEF Receive, GetMode, SetMode, UpdateConfig, LoadConfigs,
                          TakePlate, Shutdown, Choose
<1>5. CASE Enter(w) \/ FinishGet(w) \/ Assign(w) \/ Unpause(w)
  BY <1>1, <1>2, <1>5 DEF Enter, FinishGet, Assign, Unpause, UnlockThrows, Answer
<1>6. CASE Fetch(w) \/ RejectConfig(w)
  BY <1>1, <1>2, <1>3, <1>6 DEF Fetch, RejectConfig
<1>7. CASE Build(w)
  BY <1>1, <1>2, <1>3, <1>7 DEF Build
<1>8. CASE Store(w)
  BY <1>1, <1>2, <1>8 DEF Store, GuardUnlocks, UnlockThrows, UpdateDone, Answer
<1>9. CASE Delete(w) \/ Nullify(w) \/ NextMode(w) \/ WriteField(w) \/ ConfigWritten(w)
  BY <1>1, <1>2, <1>9 DEF Delete, Nullify, NextMode, WriteField, ConfigWritten,
                          UpdateDone, Answer, Choose
<1>10. CASE Pause(w) \/ Roll(w) \/ Resume(w) \/ Publish(w) \/ Sweep(w)
  BY <1>1, <1>2, <1>10 DEF Pause, Roll, Resume, Publish, Sweep, Answer
<1> QED
  BY <1>4, <1>5, <1>6, <1>7, <1>8, <1>9, <1>10 DEF Handle

(* The frame loop mats only between lock() and unlock(): whatever section  *)
(* another thread is in, it is not one of the frame loop's.                *)
MattingInside == pc[Main] = "matting" => In(Main)

LEMMA StepMattingInside ==
  TypeOK /\ MattingInside /\ [Next]_vars => MattingInside'
<1> SUFFICES ASSUME TypeOK, MattingInside, [Next]_vars PROVE MattingInside'
  OBVIOUS
<1> USE ThreadFacts DEF MattingInside, In, TypeOK, MutexTypeOK
<1>1. CASE UNCHANGED vars
  BY <1>1 DEF vars, mutexVars
<1>2. CASE FrameLoop
  BY <1>2 DEF FrameLoop, StartFrame, Grab, Matted, EndLoop, Go, Lock, Unlock, Leave,
              mutexVars
<1>3. ASSUME NEW w \in Workers, Receive(w) \/ Handle(w) PROVE MattingInside'
  BY <1>3, WorkerStepsAlone
<1>4. ASSUME NEW t \in Threads, Locking(t) \/ Exit(t) PROVE MattingInside'
  BY <1>4 DEF Locking, Exit, LockSteps, Acquire, SetOwns, Release, ClearOwns, mutexVars
<1> QED
  BY <1>1, <1>2, <1>3, <1>4 DEF Next, Gone

\* What the theorems below need of a state.
EngineInv == TypeOK /\ MutexInv /\ MattingInside

LEMMA EngineInvHolds == Spec => []EngineInv
<1>1. Init => MattingInside
  BY ThreadFacts DEF Init, MattingInside
<1>2. Spec => []MattingInside
  BY <1>1, StepMattingInside, TypeCorrect, PTL DEF Spec
<1> QED
  BY <1>2, TypeCorrect, EngineMutexInv, PTL DEF EngineInv

(* While the running matter is paused for a clean plate, no other thread   *)
(* takes a picture or mats a frame, however many workers race on the flag  *)
(* of the lock object they share.                                          *)
THEOREM OnlyOneGrabs == Spec => []SoleGrabber
<1>1. EngineInv => SoleGrabber
  BY DEF EngineInv, MutexInv, MattingInside, SoleGrabber, Grabbing, In, Inside
<1> QED
  BY <1>1, EngineInvHolds, PTL

(* A frame ends with the matter and the mode it began with: the handlers   *)
(* that exchange them do so in a section of their own.                     *)
THEOREM FramesUndisturbed == Spec => FrameUndisturbed
<1>1. EngineInv /\ [Next]_vars
        => [At(Main, "matting") => UNCHANGED <<running_matter, running_mode>>]_vars
  <2> SUFFICES ASSUME EngineInv, Next, At(Main, "matting")
               PROVE  UNCHANGED <<running_matter, running_mode>>
    OBVIOUS
  <2>1. ASSUME NEW w \in Workers PROVE ~In(w)
    BY ThreadFacts DEF EngineInv, MutexInv, MattingInside, At, In, Inside
  <2>2. CASE FrameLoop
    BY <2>2 DEF FrameLoop, StartFrame, Grab, Matted, EndLoop, manager
  <2>3. ASSUME NEW w \in Workers, Receive(w)
        PROVE  UNCHANGED <<running_matter, running_mode>>
    BY <2>3 DEF Receive, GetMode, SetMode, UpdateConfig, LoadConfigs, TakePlate,
                Shutdown, manager
  <2>4. ASSUME NEW w \in Workers, Handle(w)
        PROVE  UNCHANGED <<running_matter, running_mode>>
    BY <2>1, <2>4
       DEF Handle, Enter, FinishGet, Assign, Fetch, Build, Delete, Nullify, Store,
           NextMode, RejectConfig, WriteField, ConfigWritten, Pause, Roll, Resume,
           Unpause, Publish, Sweep, manager
  <2>5. ASSUME NEW t \in Threads, Locking(t) \/ Exit(t)
        PROVE  UNCHANGED <<running_matter, running_mode>>
    BY <2>5 DEF Locking, Exit, manager
  <2> QED
    BY <2>2, <2>3, <2>4, <2>5 DEF Next, Gone, At
<1> QED
  BY <1>1, EngineInvHolds, PTL DEF Spec, FrameUndisturbed
-----------------------------------------------------------------------------
(***************************************************************************)
(* Requests one at a time.  All workers but one, w, are idle; which one    *)
(* serves may change with every request.  The inductive invariant          *)
(* ServesInv says where w's handler may be while w is in a section, the    *)
(* mutex is lost or a pointer is held, and what then holds of the matters; *)
(* it is shown to be kept one conjunct at a time.                          *)
(***************************************************************************)
Quiet(v) == pc[v] = "idle" /\ stage[v] = "out" /\ req[v] = NoRequest
Alone(w) == \A v \in Workers : v = w \/ Quiet(v)

\* A worker, w or one that served before, left a section without unlock().
Lost(w) == mutex \in Workers /\ ~Inside(w)

\* Nothing happens but, possibly, that running is cleared.
Idles == UNCHANGED <<mutexVars, manager, up, pc, req>>

\* The steps there are while w is the one that serves.
OneStep(w) ==
  \/ Idles \/ FrameLoop \/ Receive(w) \/ Handle(w)
  \/ \E t \in {Main, w} : Locking(t) \/ Exit(t)

LEMMA OtherRequests ==
  ASSUME TypeOK, NEW w \in Workers, NEW v \in Workers, v # w, Receive(w) \/ Handle(w)
  PROVE  req'[v] = req[v]
<1> USE DEF TypeOK
<1>1. ASSUME NEW r, req' = [req EXCEPT ![w] = r] PROVE req'[v] = req[v]
  BY <1>1
<1>2. UpdateDone(w) \/ Throw(w) \/ Answer(w) => req'[v] = req[v]
  BY <1>1 DEF UpdateDone, Throw, GuardUnlocks, Answer
<1>3. CASE Receive(w)
  BY <1>1, <1>3 DEF Receive, GetMode, SetMode, UpdateConfig, LoadConfigs, TakePlate, Shutdown,
                    Choose
<1>4. CASE Enter(w) \/ FinishGet(w) \/ Assign(w) \/ Unpause(w) \/ Store(w)
  BY <1>2, <1>4 DEF Enter, FinishGet, Assign, Unpause, Store, GuardUnlocks
<1>5. CASE Fetch(w) \/ RejectConfig(w) \/ Delete(w) \/ Nullify(w) \/ ConfigWritten(w)
  BY <1>2, <1>5 DEF Fetch, RejectConfig, Delete, Nullify, ConfigWritten
<1>6. CASE Build(w)
  BY <1>2, <1>6 DEF Build
<1>7. CASE WriteField(w)
  BY <1>7 DEF WriteField
<1>8. CASE NextMode(w) \/ Pause(w) \/ Roll(w) \/ Resume(w) \/ Publish(w) \/ Sweep(w)
  BY <1>1, <1>2, <1>8 DEF NextMode, Choose, Pause, Roll, Resume, Publish, Sweep
<1> QED
  BY <1>3, <1>4, <1>5, <1>6, <1>7, <1>8 DEF Handle

LEMMA AloneStays ==
  ASSUME NEW w \in Workers, Alone(w), TypeOK, OneStep(w)
  PROVE  Alone(w)'
<1> SUFFICES ASSUME NEW v \in Workers, v # w, Quiet(v) PROVE Quiet(v)'
  BY DEF Alone
<1> USE ThreadFacts DEF Quiet, TypeOK, MutexTypeOK
<1>1. CASE Idles
  BY <1>1 DEF Idles, mutexVars
<1>2. CASE FrameLoop
  BY <1>2 DEF FrameLoop, StartFrame, Grab, Matted, EndLoop, Go, Lock, Unlock, Leave, mutexVars
<1>3. CASE Receive(w) \/ Handle(w)
  <2>1. pc'[v] = pc[v] /\ stage'[v] = stage[v]
    BY <1>3, WorkerStepsAlone
  <2>2. req'[v] = req[v]
    BY <1>3, OtherRequests
  <2> QED
    BY <2>1, <2>2
<1>4. ASSUME NEW t \in {Main, w}, Locking(t) \/ Exit(t) PROVE Quiet(v)'
  BY <1>4 DEF Locking, LockSteps, Acquire, SetOwns, Release, ClearOwns, Exit, mutexVars
<1> QED
  BY <1>1, <1>2, <1>3, <1>4 DEF OneStep

(* The manager's flag, which the workers write one after the other, tells  *)
(* the truth, and a mutex that a worker lost stays lost.                   *)
Flags(w) ==
  /\ stage[w] # "out" => via[w] = ManagerLock
  /\ stage[w] \in {"in", "release"} => owns[ManagerLock]
  /\ owns[ManagerLock] => mutex \in Workers \/ stage[w] = "clear"
  /\ Lost(w) => owns[ManagerLock] /\ stage[w] = "out"

LEMMA FlagsUse ==
  ASSUME MutexInv, NEW w \in Workers, Alone(w), Flags(w), NEW t \in {Main, w}, LockUse(t)
  PROVE  Flags(w)' /\ (Lost(w) => Lost(w)')
<1> USE ThreadsAssumption, ThreadFacts, FreeAssumption, UsersAssumption
    DEF MutexInv, MutexTypeOK, Stages, Inside, Flags, Lost
<1>1. CASE UNCHANGED mutexVars
  BY <1>1 DEF mutexVars
<1>2. CASE Lock(t, LockOf(t))
  BY <1>2 DEF Lock, LockOf
<1>3. CASE Unlock(t)
  BY <1>3 DEF Unlock
<1>4. CASE Leave(t)
  BY <1>4 DEF Leave
<1>5. CASE LockSteps(t)
  <2>1. CASE Acquire(t)
    BY <2>1 DEF Acquire
  <2>2. CASE SetOwns(t)
    BY <2>2 DEF SetOwns
  <2>3. CASE Release(t)
    BY <2>3 DEF Release
  <2>4. CASE ClearOwns(t)
    BY <2>4 DEF ClearOwns
  <2> QED
    BY <1>5, <2>1, <2>2, <2>3, <2>4 DEF LockSteps
<1> QED
  BY <1>1, <1>2, <1>3, <1>4, <1>5 DEF LockUse
-----------------------------------------------------------------------------
\* Between the flag tests of lock() and unlock(), and outside them.
Inner(w) == stage[w] \in {"acquire", "set", "in"}
Past(w) == stage[w] \in {"out", "release", "clear"}

(* The operation a handler is in the middle of.                            *)
OpAt(w) ==
  /\ pc[w] = "idle" => req[w] = NoRequest
  /\ pc[w] \in {"lock_get", "get"} => req[w].op = "get"
  /\ pc[w] \in {"lock_assign", "assign"} => req[w].op = "set"
  /\ pc[w] = "next" => req[w].op = "load"
  /\ pc[w] \in {"lock_config", "config"} => req[w].op \in {"update", "load"}
  /\ pc[w] \in {"pause", "lock_roll", "roll", "resume", "unpause", "publish", "sweep",
                "lock_delete"} => req[w].op = "plate"
  /\ pc[w] \in {"delete", "null", "store"} => req[w].op \in {"update", "load", "plate"}
  /\ pc[w] \in {"fetch", "build"} => req[w].op \in {"update", "load", "plate", "set"}
  /\ req[w].op = "plate" /\ pc[w] \in {"null", "fetch", "build", "store", "lock_delete", "delete"} =>
       req[w].mode \notin req[w].modes

(* Where a handler is in a section. *)
InSection(w) ==
  /\ pc[w] \in {"get", "assign", "roll"} => Inner(w)
  /\ pc[w] \in {"resume", "unpause", "store"} => In(w)
  /\ pc[w] \in {"idle", "next", "pause", "publish", "sweep", "lock_get", "lock_assign",
                "lock_config", "lock_roll", "lock_delete"} => Past(w)
  /\ pc[w] \in {"config", "delete"} =>
       IF req[w].mode = running_mode THEN Inner(w) ELSE Out(w)
  /\ pc[w] = "null" => IF req[w].mode = running_mode THEN In(w) ELSE Out(w)
  /\ pc[w] \in {"fetch", "build"} =>
       IF req[w].mode = running_mode THEN In(w) /\ req[w].op # "set"
                                     ELSE Out(w) /\ req[w].op = "set"
  /\ pc[w] \in {"store", "lock_config", "lock_delete"} => req[w].mode = running_mode
  /\ pc[w] \in {"roll", "resume", "unpause", "publish"} => ~Lost(w)

\* What is known of a handler that will call reinit_matter.
Reinits(w) ==
  req[w].reinit =>
    /\ req[w].writes # None
    /\ pc[w] \in {"config", "delete", "null", "fetch", "build", "store", "next", "cleanup"}
    /\ stage[w] \notin {"acquire", "set"}
    /\ req[w].op \in {"update", "load"}

\* Where a handler is.
Place(w) == OpAt(w) /\ InSection(w) /\ Reinits(w)

\* What the invariants of the worker that serves rest on.
Ground(w) == Alone(w) /\ TypeOK /\ MutexInv /\ Flags(w) /\ Place(w)

\* Where a statement leaves its thread.
LEMMA SentTo ==
  ASSUME TypeOK, NEW w \in Workers
  PROVE  /\ \A s : Go(w, s) => pc'[w] = s
         /\ \A r : req' = [req EXCEPT ![w] = r] => req'[w] = r
         /\ Answer(w) => pc'[w] = "idle" /\ req'[w] = NoRequest
  BY ThreadFacts DEF Go, Answer, TypeOK

\* Steps of other threads, and of lock() and unlock().
LEMMA PlaceOthers ==
  ASSUME NEW w \in Workers, Ground(w), Flags(w)',
         FrameLoop \/ (\E t \in {Main, w} : Locking(t) \/ Exit(t)) \/ Idles
  PROVE  Place(w)'
<1> USE ThreadFacts DEF Ground, Place, OpAt, InSection, Reinits, Inner, Past, In, Out, Lost, Inside
<1>1. ASSUME Idles PROVE Place(w)'
  BY <1>1 DEF Idles, manager, mutexVars
<1>2. ASSUME FrameLoop PROVE Place(w)'
  BY <1>2 DEF FrameLoop, StartFrame, Grab, Matted, EndLoop, Go, Lock, Unlock, Leave,
     TypeOK, MutexTypeOK, manager, mutexVars, MutexInv
<1>3. ASSUME NEW t \in {Main, w}, Exit(t) PROVE Place(w)'
  BY <1>3 DEF Exit, manager, mutexVars
<1>4. ASSUME NEW t \in {Main, w}, Locking(t) PROVE Place(w)'
  BY <1>4, FreeAssumption DEF Locking, LockSteps, Acquire, SetOwns, Release, ClearOwns, manager,
     TypeOK, MutexTypeOK, MutexInv
<1> QED
  BY <1>1, <1>2, <1>3, <1>4

LEMMA PlaceReceive ==
  ASSUME NEW w \in Workers, Ground(w), Receive(w)
  PROVE  Place(w)'
<1> USE DEF Place, OpAt, InSection, Reinits
<1>0. /\ pc[w] = "idle" /\ stage[w] = "out"
      /\ stage' = stage /\ mutex' = mutex /\ running_mode' = running_mode
  BY DEF Receive, GetMode, SetMode, UpdateConfig, LoadConfigs, TakePlate, Shutdown, At,
         Out, mutexVars, manager
<1>s. Inner(w)' = Inner(w) /\ In(w)' = In(w) /\ Past(w)' /\ Out(w)' /\ Lost(w)' = Lost(w)
  BY <1>0 DEF Inner, In, Past, Out, Lost, Inside
<1>1. CASE GetMode(w)
  <2>1. pc'[w] = "lock_get" /\ req'[w] = Request("get", InitialMode, NoWrites, {})
    BY <1>1, SentTo DEF GetMode, Ground
  <2> QED
    BY <2>1, <1>s DEF Request
<1>2. CASE SetMode(w)
  <2>1. PICK m \in Modes \ {running_mode} :
          pc'[w] = "fetch" /\ req'[w] = Request("set", m, NoWrites, {})
    BY <1>2, SentTo DEF SetMode, Ground
  <2> QED
    BY <2>1, <1>0, <1>s DEF Request
<1>3. CASE UpdateConfig(w)
  <2>1. PICK m \in Modes : \E u \in Updates(m) \cup {None} :
          Choose(w, Request("update", m, u, {}))
    BY <1>3 DEF UpdateConfig
  <2>2. PICK u \in Updates(m) \cup {None} : Choose(w, Request("update", m, u, {}))
    BY <2>1
  <2>3. /\ pc'[w] = IF m = running_mode THEN "lock_config" ELSE "config"
        /\ req'[w] = Request("update", m, u, {})
    BY <2>2, SentTo DEF Request, Choose, Ground
  <2> QED
    BY <2>3, <1>0, <1>s DEF Request
<1>4. CASE LoadConfigs(w)
  <2>1. pc'[w] = "next" /\ req'[w] = Request("load", InitialMode, NoWrites, Modes)
    BY <1>4, SentTo DEF LoadConfigs, Ground
  <2> QED
    BY <2>1, <1>s DEF Request
<1>5. CASE TakePlate(w)
  <2>1. pc'[w] = "pause" /\ req'[w] = Request("plate", InitialMode, NoWrites, {})
    BY <1>5, SentTo DEF TakePlate, Ground
  <2> QED
    BY <2>1, <1>s DEF Request
<1>6. CASE Shutdown(w)
  BY <1>0, <1>s, <1>6 DEF Shutdown, Ground
<1> QED
  BY <1>1, <1>2, <1>3, <1>4, <1>5, <1>6 DEF Receive

\* What the steps of the mutex mean to the worker that takes them.
LEMMA Section ==
  ASSUME NEW w \in Workers, Ground(w)
  PROVE  /\ Lock(w, ManagerLock) => stage[w] = "out" /\ stage'[w] = "acquire" /\ ~Lost(w) /\ ~Lost(w)'
         /\ Unlock(w) => stage[w] = "in" /\ stage'[w] = "release" /\ ~Lost(w)'
         /\ Leave(w) => stage[w] = "in" /\ stage'[w] = "out" /\ Lost(w)'
         /\ UNCHANGED mutexVars => stage'[w] = stage[w] /\ Lost(w)' = Lost(w)
         /\ In(w) => owns[ManagerLock] /\ owns[via[w]] /\ ~Lost(w)
         /\ Out(w) /\ owns[ManagerLock] => Lost(w)
         /\ ~UnlockThrows(w)
  BY ThreadFacts, FreeAssumption
     DEF Ground, Flags, MutexInv, MutexTypeOK, TypeOK, Lock, Unlock, Leave, mutexVars, Lost,
         Inside, In, Out, UnlockThrows

\* An exception ends the handler, and loses the mutex in update_clean_plate only.
LEMMA ThrowIs ==
  ASSUME NEW w \in Workers, Ground(w), Throw(w)
  PROVE  /\ Answer(w)
         /\ \/ Out(w) /\ UNCHANGED mutexVars
            \/ In(w) /\ req[w].op # "plate" /\ Unlock(w)
            \/ In(w) /\ req[w].op = "plate" /\ Leave(w)
  BY Section DEF Throw, GuardUnlocks

\* With one request at a time the guard of update_config finds the flag set.
LEMMA GuardUnlocksIs ==
  ASSUME NEW w \in Workers, Ground(w), NEW done \in BOOLEAN, GuardUnlocks(w, done)
  PROVE  Unlock(w) /\ done
  BY Section DEF GuardUnlocks

\* An answer ends a handler outside every section.
LEMMA PlaceAnswered ==
  ASSUME NEW w \in Workers, Ground(w), Answer(w), Past(w)'
  PROVE  Place(w)'
<1>1. pc'[w] = "idle" /\ req'[w] = NoRequest
  BY SentTo DEF Ground
<1> QED
  BY <1>1 DEF Place, OpAt, InSection, Reinits, NoRequest, Request

LEMMA PlaceThrown ==
  ASSUME NEW w \in Workers, Ground(w), Throw(w)
  PROVE  Place(w)'
<1>1. Past(w)'
  BY ThrowIs, Section DEF Past, Out
<1> QED
  BY <1>1, ThrowIs, PlaceAnswered

LEMMA PlaceDone ==
  ASSUME NEW w \in Workers, Ground(w), UpdateDone(w), Past(w)',
         pc[w] \in {"null", "store", "config"}, stage'[w] \notin {"acquire", "set"},
         req[w].op \in {"update", "load"}
  PROVE  Place(w)'
<1>1. CASE Answer(w)
  BY <1>1, PlaceAnswered
<1>2. CASE req[w].op = "load" /\ Go(w, "next") /\ UNCHANGED req
  <2>1. pc'[w] = "next" /\ req'[w] = req[w]
    BY <1>2, SentTo DEF Ground
  <2> QED
    BY <1>2, <2>1 DEF Ground, Place, OpAt, InSection, Reinits
<1> QED
  BY <1>1, <1>2 DEF UpdateDone

LEMMA PlaceSections ==
  ASSUME NEW w \in Workers, Ground(w),
         Enter(w) \/ FinishGet(w) \/ Assign(w) \/ Pause(w) \/ Roll(w) \/ Resume(w) \/ Unpause(w)
  PROVE  Place(w)'
<1> USE DEF Place, OpAt, InSection, Reinits, In, Out, Inner, Past, At
<1>g. Place(w) /\ TypeOK
  BY DEF Ground
<1>1. CASE Enter(w)
  <2>1. CASE Answer(w) /\ UNCHANGED mutexVars
    BY <1>1, <2>1, Section, PlaceAnswered DEF Enter
  <2>2. CASE Lock(w, ManagerLock) /\ Go(w, Target[pc[w]]) /\ UNCHANGED req
    <3>1. pc'[w] = Target[pc[w]] /\ req'[w] = req[w] /\ pc[w] \in DOMAIN Target
      BY <1>1, <2>2, SentTo, <1>g DEF Enter
    <3>2. stage[w] = "out" /\ stage'[w] = "acquire" /\ ~Lost(w)'
      BY <2>2, Section
    <3>3. running_mode' = running_mode
      BY <1>1 DEF Enter, manager
    <3> QED
      BY <3>1, <3>2, <3>3, <1>g DEF Target
  <2> QED
    BY <1>1, <2>1, <2>2 DEF Enter
<1>2. CASE FinishGet(w) \/ Assign(w)
  BY <1>2, Section, PlaceAnswered DEF FinishGet, Assign
<1>3. CASE Pause(w)
  <2>1. pc'[w] \in {"cleanup", "lock_roll"} /\ req'[w] = req[w] /\ running_mode' = running_mode
    BY <1>3, <1>g, SentTo DEF Pause, manager
  <2>2. pc[w] = "pause" /\ stage[w] = "out" /\ stage'[w] = "out"
    BY <1>3, Section DEF Pause
  <2> QED
    BY <2>1, <2>2, <1>g
<1>4. CASE Roll(w)
  <2>1. PICK p \in Grabs : pc'[w] = "resume" /\ req'[w] = [req[w] EXCEPT !.shot = p]
    BY <1>4, <1>g, SentTo DEF Roll, TypeOK
  <2>2. req'[w].op = req[w].op /\ req'[w].reinit = req[w].reinit
    BY <2>1, <1>g DEF TypeOK, Requests
  <2>3. stage'[w] = "in" /\ ~Lost(w)' /\ pc[w] = "roll"
    BY <1>4, Section DEF Roll
  <2> QED
    BY <2>1, <2>2, <2>3, <1>g
<1>5. CASE Resume(w)
  <2>1. pc'[w] \in {"cleanup", "unpause"} /\ req'[w] = req[w]
    BY <1>5, <1>g, SentTo DEF Resume
  <2>2. stage'[w] = "in" /\ ~Lost(w)' /\ pc[w] = "resume"
    BY <1>5, Section DEF Resume
  <2> QED
    BY <2>1, <2>2, <1>g
<1>6. CASE Unpause(w)
  <2>1. Unlock(w) /\ Go(w, "publish") /\ UNCHANGED req /\ pc[w] = "unpause"
    BY <1>6, Section DEF Unpause
  <2>2. pc'[w] = "publish" /\ req'[w] = req[w] /\ stage'[w] = "release" /\ ~Lost(w)'
    BY <2>1, <1>g, SentTo, Section
  <2> QED
    BY <2>1, <2>2, <1>g
<1> QED
  BY <1>1, <1>2, <1>3, <1>4, <1>5, <1>6

LEMMA PlaceMatters ==
  ASSUME NEW w \in Workers, Ground(w),
         Fetch(w) \/ Build(w) \/ Delete(w) \/ Nullify(w) \/ Store(w)
  PROVE  Place(w)'
<1> USE DEF Place, OpAt, InSection, Reinits, In, Out, Inner, Past, At, Ready
<1>g. Place(w) /\ TypeOK
  BY DEF Ground
<1>n. ~Store(w) => running_mode' = running_mode
  BY DEF Fetch, Build, Delete, Nullify, manager
<1>1. CASE Fetch(w) \/ Build(w)
  <2>1. CASE Throw(w)
    BY <2>1, PlaceThrown
  <2>2. CASE Go(w, "build") /\ UNCHANGED <<mutexVars, req>> /\ Fetch(w)
    <3>1. pc'[w] = "build" /\ req'[w] = req[w] /\ stage'[w] = stage[w]
      BY <2>2, <1>g, SentTo, Section
    <3> QED
      BY <3>1, <2>2, <1>g, <1>n DEF Fetch, manager
  <2>3. CASE Go(w, "cleanup") /\ UNCHANGED <<mutexVars, req>>
    <3>1. pc'[w] = "cleanup" /\ req'[w] = req[w] /\ stage'[w] = stage[w]
      BY <2>3, <1>g, SentTo, Section
    <3> QED
      BY <3>1, <1>1, <1>g DEF Fetch, Build
  <2>4. ASSUME NEW o, req' = [req EXCEPT ![w].matter = o], UNCHANGED mutexVars,
               Go(w, IF req[w].op = "set" THEN "lock_assign" ELSE "store"),
               running_mode' = running_mode
        PROVE  Place(w)'
    <3>1. pc'[w] = (IF req[w].op = "set" THEN "lock_assign" ELSE "store")
      BY <2>4, <1>g, SentTo
    <3>2. stage'[w] = stage[w]
      BY <2>4, Section
    <3>3. req'[w] = [req[w] EXCEPT !.matter = o]
      BY <2>4, <1>g DEF TypeOK
    <3>4. /\ req'[w].op = req[w].op /\ req'[w].reinit = req[w].reinit
          /\ req'[w].writes = req[w].writes /\ req'[w].mode = req[w].mode
      BY <3>3, <1>g DEF TypeOK, Requests
    <3> QED
      BY <3>1, <3>2, <3>4, <2>4, <1>1, <1>g DEF Fetch, Build
  <2> QED
    BY <1>1, <2>1, <2>2, <2>3, <2>4 DEF Fetch, Build, manager
<1>2. CASE Delete(w)
  <2>1. pc'[w] = "null" /\ req'[w] = req[w] /\ stage'[w] = stage[w] /\ pc[w] = "delete"
    BY <1>2, <1>g, SentTo, Section DEF Delete
  <2> QED
    BY <2>1, <1>2, <1>g DEF Delete
<1>3. CASE Nullify(w)
  <2>1. stage'[w] = stage[w] /\ pc[w] = "null" /\ running_mode' = running_mode
    BY <1>3, Section DEF Nullify
  <2>2. CASE In(w) /\ Go(w, "fetch") /\ UNCHANGED req
    <3>1. pc'[w] = "fetch" /\ req'[w] = req[w]
      BY <2>2, <1>g, SentTo
    <3> QED
      BY <3>1, <2>1, <2>2, <1>g
  <2>3. CASE Out(w) /\ req[w].op = "plate" /\ Go(w, "sweep") /\ UNCHANGED req
    <3>1. pc'[w] = "sweep" /\ req'[w] = req[w]
      BY <2>3, <1>g, SentTo
    <3> QED
      BY <3>1, <2>1, <2>3, <1>g
  <2>4. CASE Out(w) /\ req[w].op # "plate" /\ UpdateDone(w)
    BY <2>4, <2>1, PlaceDone, <1>g
  <2> QED
    BY <1>3, <2>2, <2>3, <2>4 DEF Nullify
<1>4. CASE Store(w)
  <2>1. CASE req[w].op # "plate" /\ GuardUnlocks(w, UpdateDone(w))
    <3>1. UpdateDone(w) \in BOOLEAN
      BY DEF UpdateDone, Answer, Go
    <3>2. Unlock(w) /\ UpdateDone(w)
      BY <2>1, <3>1, GuardUnlocksIs
    <3> QED
      BY <1>4, <2>1, <3>2, Section, PlaceDone, <1>g DEF Store
  <2>2. CASE req[w].op = "plate" /\ Unlock(w) /\ Go(w, "sweep") /\ UNCHANGED req
    <3>1. pc'[w] = "sweep" /\ req'[w] = req[w] /\ stage'[w] = "release"
      BY <2>2, <1>g, SentTo, Section
    <3> QED
      BY <3>1, <1>4, <2>2, <1>g DEF Store
  <2> QED
    BY <1>4, <2>1, <2>2, Section DEF Store
<1> QED
  BY <1>1, <1>2, <1>3, <1>4

LEMMA PlaceConfigs ==
  ASSUME NEW w \in Workers, Ground(w),
         NextMode(w) \/ RejectConfig(w) \/ WriteField(w) \/ ConfigWritten(w)
  PROVE  Place(w)'
<1> USE DEF Place, OpAt, InSection, Reinits, In, Out, Inner, Past, At, Ready
<1>g. Place(w) /\ TypeOK
  BY DEF Ground
<1>1. CASE NextMode(w)
  <2>0. stage'[w] = stage[w] /\ pc[w] = "next" /\ stage[w] = "out" /\ running_mode' = running_mode
    BY <1>1, Section DEF NextMode, manager
  <2>1. CASE Answer(w)
    BY <2>0, <2>1, PlaceAnswered
  <2>2. ASSUME NEW m, NEW u, Choose(w, Request("load", m, u, req[w].modes \ {m}))
        PROVE  Place(w)'
    <3>1. /\ pc'[w] = IF m = running_mode THEN "lock_config" ELSE "config"
          /\ req'[w] = Request("load", m, u, req[w].modes \ {m})
      BY <2>2, <1>g, SentTo DEF Choose, Request
    <3> QED
      BY <3>1, <2>0 DEF Request
  <2> QED
    BY <1>1, <2>1, <2>2 DEF NextMode
<1>2. CASE RejectConfig(w)
  BY <1>2, PlaceThrown DEF RejectConfig
<1>3. CASE WriteField(w)
  <2>1. PICK f \in DOMAIN req[w].writes :
          req' = [req EXCEPT
            ![w].writes = [g \in DOMAIN @ \ {f} |-> @[g]],
            ![w].reinit = @ \/ f \notin FrameFields]
    BY <1>3 DEF WriteField
  <2> DEFINE u == [g \in DOMAIN req[w].writes \ {f} |-> req[w].writes[g]]
             b == req[w].reinit \/ f \notin FrameFields
  <2>2. req'[w] = [req[w] EXCEPT !.writes = u, !.reinit = b]
    BY <2>1, <1>g DEF TypeOK, Requests
  <2>3. req'[w].op = req[w].op /\ req'[w].mode = req[w].mode /\ req'[w].writes = u
    BY <2>2, <1>g DEF TypeOK, Requests
  <2>4. u # None
    <3>1. req[w].writes \in Updates(req[w].mode) /\ req[w].mode \in Modes
      BY <1>3, <1>g DEF WriteField, TypeOK, Requests
    <3>2. PICK fs \in SUBSET Fields[req[w].mode] : req[w].writes \in [fs -> Values]
      BY <3>1 DEF Updates
    <3>3. u \in [fs \ {f} -> Values]
      BY <3>2
    <3> HIDE DEF u
    <3>4. u \in Updates(req[w].mode)
      BY <3>2, <3>3 DEF Updates
    <3> QED
      BY <3>1, <3>4, NoneAssumption
  <2>5. stage'[w] = stage[w] /\ pc'[w] = pc[w] /\ pc[w] = "config" /\ running_mode' = running_mode
    BY <1>3, Section DEF WriteField
  <2> HIDE DEF u, b
  <2> QED
    BY <1>3, <2>3, <2>4, <2>5, <1>g DEF WriteField
<1>4. CASE ConfigWritten(w)
  <2>1. stage'[w] = stage[w] /\ pc[w] = "config" /\ running_mode' = running_mode
    BY <1>4, Section DEF ConfigWritten, manager
  <2>2. CASE req[w].reinit /\ Go(w, "delete") /\ UNCHANGED req
    <3>1. pc'[w] = "delete" /\ req'[w] = req[w]
      BY <2>2, <1>g, SentTo
    <3> QED
      BY <3>1, <2>1, <2>2, <1>g
  <2>3. CASE ~req[w].reinit /\ In(w) /\ Go(w, "fetch") /\ UNCHANGED req
    <3>1. pc'[w] = "fetch" /\ req'[w] = req[w]
      BY <2>3, <1>g, SentTo
    <3> QED
      BY <3>1, <2>1, <2>3, <1>g
  <2>4. CASE Out(w) /\ UpdateDone(w)
    BY <2>4, <2>1, PlaceDone, <1>g
  <2> QED
    BY <1>4, <2>2, <2>3, <2>4 DEF ConfigWritten
<1> QED
  BY <1>1, <1>2, <1>3, <1>4

LEMMA PlacePlate ==
  ASSUME NEW w \in Workers, Ground(w), Publish(w) \/ Sweep(w)
  PROVE  Place(w)'
<1> USE DEF Place, OpAt, InSection, Reinits, In, Out, Inner, Past, At, Ready
<1>g. Place(w) /\ TypeOK
  BY DEF Ground
<1>0. stage'[w] = stage[w] /\ stage[w] = "out" /\ running_mode' = running_mode
  BY Section DEF Publish, Sweep, manager
<1>1. CASE Publish(w)
  <2>1. pc'[w] = "sweep" /\ req'[w] = Request("plate", InitialMode, NoWrites, PlateModes)
    BY <1>1, <1>g, SentTo DEF Publish
  <2> QED
    BY <2>1, <1>0 DEF Request
<1>2. CASE Sweep(w)
  <2>1. CASE Answer(w)
    BY <2>1, <1>0, PlaceAnswered
  <2>2. ASSUME NEW m,
               req' = [req EXCEPT ![w] = Request("plate", m, NoWrites, req[w].modes \ {m})],
               Go(w, IF m = running_mode THEN "lock_delete" ELSE "delete")
        PROVE  Place(w)'
    <3>1. /\ pc'[w] = IF m = running_mode THEN "lock_delete" ELSE "delete"
          /\ req'[w] = Request("plate", m, NoWrites, req[w].modes \ {m})
      BY <2>2, <1>g, SentTo
    <3> QED
      BY <3>1, <1>0 DEF Request
  <2> QED
    BY <1>2, <2>1, <2>2 DEF Sweep
<1> QED
  BY <1>1, <1>2

\* A handler is always where the code puts it.
LEMMA StepPlace ==
  ASSUME NEW w \in Workers, Ground(w), Flags(w)', OneStep(w)
  PROVE  Place(w)'
BY PlaceOthers, PlaceReceive, PlaceSections, PlaceMatters, PlaceConfigs, PlacePlate
   DEF OneStep, Handle
-----------------------------------------------------------------------------
(* Ownership, with what it needs of the steps of reinit_matter and         *)
(* get_matter.                                                             *)
Owners(w) ==
  /\ \A o \in Objects : Live(o) => instance[heap[o].mode] = o
  /\ \A m \in Modes : instance[m] # Null =>
       \/ Live(instance[m]) /\ heap[instance[m]].mode = m
       \/ pc[w] = "null" /\ req[w].mode = m

Owned(w) ==
  /\ Owners(w)
  /\ pc[w] = "null" => ~Live(instance[req[w].mode])
  /\ pc[w] = "build" => /\ instance[req[w].mode] = Null
                        /\ ~(req[w].mode \in PlateModes /\ clean_plate = Empty)
  /\ \A o \in Objects : Live(o) /\ heap[o].mode \in PlateModes => heap[o].plate # Empty

LEMMA LiveMode ==
  ASSUME TypeOK, NEW o \in Objects, Live(o)
  PROVE  heap[o] \in Matters /\ heap[o].mode \in Modes
  BY DEF TypeOK, Live, Matters

\* Steps that leave the matters alone and are not on the way to build one.
LEMMA OwnedStays ==
  ASSUME NEW w \in Workers, Ground(w), Owned(w), UNCHANGED <<instance, heap>>,
         \/ UNCHANGED clean_plate /\ pc'[w] = pc[w] /\ req'[w].mode = req[w].mode
         \/ pc[w] # "null" /\ pc'[w] \notin {"null", "build"}
  PROVE  Owned(w)'
  BY DEF Owned, Owners, Live

LEMMA OwnedMatters ==
  ASSUME NEW w \in Workers, Ground(w), Owned(w),
         Fetch(w) \/ Build(w) \/ Delete(w) \/ Nullify(w)
  PROVE  Owned(w)'
<1>g. TypeOK /\ req[w].mode \in Modes /\ instance \in [Modes -> Objects \cup {Null}]
  BY DEF Ground, TypeOK, Requests
<1>1. ASSUME Throw(w), UNCHANGED manager, Fetch(w) \/ Build(w) PROVE Owned(w)'
  <2>1. pc'[w] = "idle" /\ pc[w] # "null"
    BY <1>1, <1>g, ThrowIs, SentTo DEF Fetch, Build, At
  <2> QED
    BY <1>1, <2>1, OwnedStays DEF manager
<1>2. CASE Fetch(w)
  <2>1. CASE Throw(w)
    BY <1>1, <1>2, <2>1 DEF Fetch
  <2>2. CASE /\ instance[req[w].mode] = Null
             /\ ~(req[w].mode \in PlateModes /\ clean_plate = Empty)
             /\ Go(w, "build") /\ UNCHANGED req
    <3>1. pc'[w] = "build" /\ req'[w] = req[w] /\ pc[w] # "null"
      BY <1>2, <2>2, <1>g, SentTo DEF Fetch, At
    <3> QED
      BY <1>2, <2>2, <3>1 DEF Fetch, manager, Owned, Owners, Live
  <2>3. CASE Go(w, IF req[w].op = "set" THEN "lock_assign" ELSE "store")
    <3>1. pc'[w] \notin {"null", "build"} /\ pc[w] # "null"
      BY <1>2, <2>3, <1>g, SentTo DEF Fetch, At
    <3> QED
      BY <1>2, <3>1, OwnedStays DEF Fetch, manager
  <2> QED
    BY <1>2, <2>1, <2>2, <2>3 DEF Fetch
<1>3. CASE Build(w)
  <2>1. CASE Throw(w) /\ UNCHANGED manager
    BY <1>1, <1>3, <2>1
  <2>2. CASE Go(w, "cleanup") /\ UNCHANGED manager
    <3>1. pc'[w] = "cleanup" /\ pc[w] = "build"
      BY <1>3, <2>2, <1>g, SentTo DEF Build, At
    <3> QED
      BY <2>2, <3>1, OwnedStays DEF manager
  <2>3. ASSUME NEW o \in Objects \ Referenced, heap[o] = None,
               heap' = [heap EXCEPT ![o] =
                          [mode |-> req[w].mode, plate |-> clean_plate,
                           setting |-> Setting(req[w].mode)]],
               instance' = [instance EXCEPT ![req[w].mode] = o],
               Go(w, IF req[w].op = "set" THEN "lock_assign" ELSE "store")
        PROVE  Owned(w)'
    <3>1. pc'[w] \notin {"null", "build"} /\ pc[w] = "build"
      BY <1>3, <2>3, <1>g, SentTo DEF Build, At
    <3>2. /\ instance[req[w].mode] = Null
          /\ req[w].mode \in PlateModes => clean_plate # Empty
      BY <3>1 DEF Owned
    <3> DEFINE new == [mode |-> req[w].mode, plate |-> clean_plate,
                       setting |-> Setting(req[w].mode)]
    <3>3. new # None /\ new.mode = req[w].mode /\ new.plate = clean_plate
      <4>1. Setting(req[w].mode) \in Settings(req[w].mode)
        BY <1>g, SettingType DEF TypeOK
      <4>2. new \in Matters
        BY <1>g, <4>1 DEF Matters, TypeOK
      <4> QED
        BY <4>2, NoneAssumption
    <3>4. \A m \in Modes : instance[m] # o
      BY <2>3 DEF Referenced
    <3> HIDE DEF new
    <3>5. /\ heap' = [heap EXCEPT ![o] = new]
          /\ heap \in [Objects -> Matters \cup {None}]
      BY <2>3, <1>g DEF TypeOK, new
    <3>6. /\ heap'[o] = new /\ \A x \in Objects \ {o} : heap'[x] = heap[x]
          /\ instance'[req[w].mode] = o
          /\ \A m \in Modes \ {req[w].mode} : instance'[m] = instance[m]
      BY <2>3, <3>5, <1>g
    <3>7. Owners(w)'
      <4>1. \A x \in Objects : Live(x)' => instance'[heap'[x].mode] = x
        BY <3>2, <3>3, <3>6, LiveMode, <1>g, DataAssumption DEF Live, Owned, Owners
      <4>2. \A m \in Modes : instance'[m] # Null =>
              Live(instance[m])' /\ heap'[instance'[m]].mode = m
        BY <3>1, <3>3, <3>4, <3>6, <1>g DEF Live, Owned, Owners
      <4> QED
        BY <4>1, <4>2 DEF Owners, Live
    <3>8. \A x \in Objects : Live(x)' /\ heap'[x].mode \in PlateModes => heap'[x].plate # Empty
      BY <3>2, <3>3, <3>6 DEF Live, Owned
    <3> QED
      BY <3>1, <3>7, <3>8 DEF Owned, Live
  <2> QED
    BY <1>3, <2>1, <2>2, <2>3 DEF Build
<1>4. CASE Delete(w)
  <2>1. pc'[w] = "null" /\ req' = req /\ instance' = instance /\ pc[w] = "delete"
    BY <1>4, <1>g, SentTo DEF Delete, At
  <2>2. heap' = [o \in Objects |-> IF o = instance[req[w].mode] THEN None ELSE heap[o]]
    BY <1>4 DEF Delete
  <2>3. Owners(w)'
    BY <2>1, <2>2, <1>g DEF Owners, Owned, Live
  <2> QED
    BY <2>1, <2>2, <2>3, <1>g DEF Owned, Live
<1>5. CASE Nullify(w)
  <2>1. pc[w] = "null" /\ pc'[w] \notin {"null", "build"}
    BY <1>5, <1>g, SentTo DEF Nullify, At, UpdateDone
  <2>2. /\ instance' = [instance EXCEPT ![req[w].mode] = Null]
        /\ UNCHANGED <<heap, clean_plate>>
    BY <1>5 DEF Nullify
  <2>3. Owners(w)'
    BY <2>1, <2>2, <1>g, DataAssumption DEF Owners, Owned, Live, TypeOK, Matters
  <2> QED
    BY <2>1, <2>2, <2>3 DEF Owned, Live
<1> QED
  BY <1>2, <1>3, <1>4, <1>5

\* No step leaks a matter or leaves two modes with one.
LEMMA StepOwned ==
  ASSUME NEW w \in Workers, Ground(w), Owned(w), OneStep(w)
  PROVE  Owned(w)'
<1> USE ThreadFacts
<1>g. TypeOK
  BY DEF Ground
<1>1. CASE Idles
  BY <1>1, OwnedStays DEF Idles, manager
<1>2. CASE FrameLoop
  <2>1. pc'[w] = pc[w] /\ req' = req /\ UNCHANGED manager
    BY <1>2, <1>g DEF FrameLoop, StartFrame, Grab, Matted, EndLoop, Go, TypeOK
  <2> QED
    BY <2>1, OwnedStays DEF manager
<1>3. ASSUME NEW t \in {Main, w}, Locking(t) \/ Exit(t) PROVE Owned(w)'
  BY <1>3, OwnedStays DEF Locking, Exit, manager
<1>4. CASE Receive(w)
  <2>1. UNCHANGED manager /\ pc[w] = "idle"
    BY <1>4 DEF Receive, GetMode, SetMode, UpdateConfig, LoadConfigs, TakePlate, Shutdown, At
  <2>2. pc'[w] \in {"idle", "lock_get", "fetch", "lock_config", "config", "next", "pause"}
    BY <1>4, <2>1, <1>g, SentTo
       DEF Receive, GetMode, SetMode, UpdateConfig, LoadConfigs, TakePlate, Shutdown, Choose
  <2> QED
    BY <2>1, <2>2, OwnedStays DEF manager
<1>5. CASE Fetch(w) \/ Build(w) \/ Delete(w) \/ Nullify(w)
  BY <1>5, OwnedMatters
<1>6. CASE /\ Handle(w)
           /\ ~(Fetch(w) \/ Build(w) \/ Delete(w) \/ Nullify(w))
  <2>1. UNCHANGED <<instance, heap>> /\ pc[w] # "null"
    BY <1>6 DEF Handle, Enter, FinishGet, Assign, Store, NextMode, RejectConfig,
         WriteField, ConfigWritten, Pause, Roll, Resume, Unpause, Publish, Sweep, At, manager, Target
  <2>2. pc'[w] \notin {"null", "build"}
    <3>1. CASE RejectConfig(w)
      BY <3>1, ThrowIs, SentTo, <1>g DEF RejectConfig
    <3>2. CASE WriteField(w)
      BY <3>2 DEF WriteField, At
    <3>3. CASE Enter(w)
      BY <3>3, SentTo, <1>g DEF Enter, Target
    <3>4. CASE Store(w) \/ ConfigWritten(w)
      BY <3>4, SentTo, <1>g DEF Store, ConfigWritten, GuardUnlocks, UpdateDone
    <3>5. CASE FinishGet(w) \/ Assign(w) \/ NextMode(w) \/ Pause(w) \/ Roll(w)
                 \/ Resume(w) \/ Unpause(w) \/ Publish(w) \/ Sweep(w)
      BY <3>5, SentTo, <1>g
         DEF FinishGet, Assign, NextMode, Choose, Pause, Roll, Resume, Unpause, Publish, Sweep
    <3> QED
      BY <1>6, <3>1, <3>2, <3>3, <3>4, <3>5 DEF Handle
  <2> QED
    BY <2>1, <2>2, OwnedStays
<1> QED
  BY <1>1, <1>2, <1>3, <1>4, <1>5, <1>6 DEF OneStep
-----------------------------------------------------------------------------
(* A mutex lost by the worker was lost in update_clean_plate.              *)
LostInPlate(w) == Lost(w) => Unbuildable(running_mode) /\ instance[running_mode] = Null

\* The worker loses the mutex only where get_matter throws in update_clean_plate.
LEMMA LostByThrow ==
  ASSUME NEW w \in Workers, Ground(w), ~Lost(w), Lost(w)', OneStep(w)
  PROVE  Throw(w) /\ In(w) /\ req[w].op = "plate" /\ (Fetch(w) \/ Build(w))
<1> USE ThreadFacts
<1>g. Place(w) /\ MutexInv /\ w \in Threads
  BY DEF Ground
<1>1. ASSUME NEW t \in {Main, w}, LockUse(t), t # w \/ LockSteps(t) PROVE FALSE
  BY <1>1, <1>g, FreeAssumption
     DEF LockUse, Lock, LockSteps, Acquire, SetOwns, Release, ClearOwns, Unlock, Leave,
         mutexVars, Lost, Inside, MutexInv, MutexTypeOK
<1>2. ~(Lock(w, ManagerLock) \/ Unlock(w) \/ UNCHANGED mutexVars)
  BY Section
<1>3. ~FrameLoop
  BY <1>1, MainUse
<1>4. ASSUME NEW t \in {Main, w} PROVE ~Locking(t) /\ ~Exit(t)
  BY <1>1, <1>2 DEF Locking, Exit, LockUse
<1>5. ~Receive(w) /\ ~Idles
  BY <1>2 DEF Receive, GetMode, SetMode, UpdateConfig, LoadConfigs, TakePlate, Shutdown, Idles
<1>6. Handle(w)
  BY <1>3, <1>4, <1>5 DEF OneStep
<1>7. ~(Enter(w) \/ FinishGet(w) \/ Assign(w) \/ Unpause(w))
  BY <1>2, Section DEF Enter, FinishGet, Assign, Unpause
<1>8. ~(Delete(w) \/ Nullify(w) \/ NextMode(w) \/ WriteField(w) \/ ConfigWritten(w)
        \/ Pause(w) \/ Roll(w) \/ Resume(w) \/ Publish(w) \/ Sweep(w))
  BY <1>2 DEF Delete, Nullify, NextMode, WriteField, ConfigWritten, Pause, Roll, Resume,
              Publish, Sweep
<1>9. ~Store(w)
  BY <1>2, Section DEF Store, GuardUnlocks
<1>10. Throw(w) /\ (Fetch(w) \/ Build(w) \/ RejectConfig(w))
  BY <1>2, <1>6, <1>7, <1>8, <1>9 DEF Handle, Fetch, Build, RejectConfig
<1>11. In(w) /\ req[w].op = "plate"
  BY <1>2, <1>10, ThrowIs
<1> QED
  BY <1>10, <1>11, <1>g DEF RejectConfig, At, Place, OpAt

\* No step rebuilds the matter under a lost mutex.
LEMMA StepLost ==
  ASSUME NEW w \in Workers, Ground(w), Owned(w), LostInPlate(w), OneStep(w)
  PROVE  LostInPlate(w)'
<1> SUFFICES ASSUME Lost(w)' PROVE Unbuildable(running_mode)' /\ instance'[running_mode'] = Null
  BY DEF LostInPlate
<1> USE ThreadFacts
<1>g. /\ TypeOK /\ Place(w) /\ req[w].mode \in Modes /\ running_mode \in Modes
      /\ instance \in [Modes -> Objects \cup {Null}]
      /\ Lost(w) => stage[w] = "out"
  BY DEF Ground, Flags, TypeOK, Requests
<1>1. CASE ~Lost(w)
  <2>1. Throw(w) /\ In(w) /\ (Fetch(w) \/ Build(w))
    BY <1>1, LostByThrow
  <2>2. req[w].mode = running_mode
    BY <2>1, <1>g DEF Fetch, Build, At, In, Out, Place, InSection
  <2>3. pc'[w] = "idle"
    BY <2>1, <1>g, ThrowIs, SentTo
  <2>4. CASE Fetch(w)
    BY <2>2, <2>3, <2>4, <1>g, SentTo DEF Fetch, Unbuildable, manager
  <2>5. CASE Build(w)
    <3>1. UNCHANGED manager
      BY <2>3, <2>5, <1>g, SentTo DEF Build
    <3>2. instance[running_mode] = Null
      BY <2>2, <2>5 DEF Build, At, Owned
    <3>3. BadAmong(running_mode, AllFields \ (FrameFields \cup CtorFields))
      BY <2>2, <2>3, <2>5, <1>g, SentTo DEF Build
    <3> QED
      BY <3>1, <3>2, <3>3 DEF manager, Unbuildable, BadAmong
  <2> QED
    BY <2>1, <2>4, <2>5
<1>2. CASE Lost(w)
  <2>0. Unbuildable(running_mode) /\ instance[running_mode] = Null
    BY <1>2 DEF LostInPlate
  <2>1. CASE UNCHANGED <<running_mode, instance, config, clean_plate>>
    BY <2>0, <2>1 DEF Unbuildable
  <2>2. CASE Build(w) \/ Nullify(w)
    <3>1. UNCHANGED <<running_mode, config, clean_plate>> /\ stage[w] # "in"
      BY <1>2, <2>2, <1>g DEF Build, Nullify, manager
    <3>2. req[w].mode # running_mode \/ Nullify(w)
      BY <2>2, <3>1, <1>g DEF Build, Place, InSection, At, In
    <3>3. instance' = instance \/ \E o : instance' = [instance EXCEPT ![req[w].mode] = o]
      BY <2>2 DEF Build, Nullify, manager
    <3>4. instance'[running_mode] = Null
      BY <2>0, <2>2, <3>2, <3>3, <1>g DEF Nullify
    <3> QED
      BY <2>0, <3>1, <3>4 DEF Unbuildable
  <2>3. CASE WriteField(w)
    <3>1. req[w].mode # running_mode
      BY <1>2, <2>3, <1>g DEF WriteField, Place, InSection, At, Inner
    <3>2. config'[running_mode] = config[running_mode]
      BY <2>3, <3>1, <1>g DEF WriteField, TypeOK
    <3> QED
      BY <2>0, <2>3, <3>2 DEF WriteField, Unbuildable
  <2>4. ~Assign(w) /\ ~Publish(w)
    BY <1>2, <1>g DEF Assign, Publish, At, In, Place, InSection
  <2> QED
    BY <2>1, <2>2, <2>3, <2>4
       DEF OneStep, FrameLoop, StartFrame, Grab, Matted, EndLoop, Locking, Exit, Idles, manager,
           Receive, GetMode, SetMode, UpdateConfig, LoadConfigs, TakePlate, Shutdown,
           Handle, Enter, FinishGet, Fetch, Delete, Store, NextMode, RejectConfig, ConfigWritten,
           Pause, Roll, Resume, Unpause, Sweep
<1> QED
  BY <1>1, <1>2
-----------------------------------------------------------------------------
\* Worker w has written a field that the matter of mode m was built from.
Dirty(w, m) == pc[w] \in {"config", "delete"} /\ req[w].mode = m /\ req[w].reinit

\* The instance of mode m is built from what is in force.
FreshMode(w, m) ==
  instance[m] # Null /\ ~(pc[w] = "null" /\ req[w].mode = m) =>
    /\ heap[instance[m]].setting = Setting(m) \/ Dirty(w, m)
    /\ m \in PlateModes => heap[instance[m]].plate = clean_plate \/ Replacing(w, m)

\* A value that get_matter on m would have to read is refused.
Refused(m) == \E f \in Fields[m] \ FrameFields : config[m][f] \in BadValues

\* Worker w is replacing the running matter, in a section.
Busy(w) ==
  /\ In(w)
  /\ \/ pc[w] \in {"null", "fetch", "build", "store", "cleanup"}
     \/ pc[w] \in {"config", "delete"} /\ req[w].reinit

\* running_matter is the instance of the mode that runs.
Linked(w) ==
  \/ Busy(w)
  \/ Refused(running_mode)
  \/ instance[running_mode] # Null /\ running_matter = instance[running_mode]

\* A mode that needs a plate runs without one only until it is rebuilt.
Plated(w) ==
  running_mode \in PlateModes /\ clean_plate = Empty =>
    \/ Replacing(w, running_mode)
    \/ pc[w] \in {"null", "fetch"} /\ req[w].op = "plate" /\ req[w].mode = running_mode

\* Unless the worker lost the mutex, the matters are up to date.
Sound(w) ==
  ~Lost(w) => (\A m \in Modes : FreshMode(w, m)) /\ Linked(w) /\ Plated(w)

\* The pointer the handler holds is the instance of its mode.
Given(w) ==
  pc[w] \in {"lock_assign", "assign", "store"} =>
    req[w].matter = instance[req[w].mode] /\ instance[req[w].mode] # Null

\* Steps that change nothing of the manager.
LEMMA SoundKept ==
  ASSUME NEW w \in Workers, Ground(w), Sound(w), ~Lost(w), UNCHANGED manager,
         pc[w] # "null" \/ (pc'[w] = pc[w] /\ req' = req),
         \A m \in Modes : (Dirty(w, m) => Dirty(w, m)') /\ (Replacing(w, m) => Replacing(w, m)'),
         Busy(w) => Busy(w)',
         pc[w] = "fetch" /\ req[w].op = "plate" => Plated(w)'
  PROVE  Sound(w)'
<1>1. running_mode \in Modes /\ (\A m \in Modes : Setting(m)' = Setting(m))
      /\ (\A m \in Modes : Refused(m)' = Refused(m))
  BY DEF Ground, TypeOK, manager, Setting, Refused
<1>2. \A m \in Modes : FreshMode(w, m)'
  BY <1>1 DEF Sound, FreshMode, manager
<1>3. Linked(w)'
  BY <1>1 DEF Sound, Linked, manager
<1>4. Plated(w)'
  BY <1>1 DEF Sound, Plated, manager
<1> QED
  BY <1>2, <1>3, <1>4 DEF Sound

LEMMA SoundOthers ==
  ASSUME NEW w \in Workers, Ground(w), Sound(w), ~Lost(w),
         FrameLoop \/ (\E t \in {Main, w} : Locking(t) \/ Exit(t)) \/ Idles
  PROVE  Sound(w)'
<1> USE ThreadFacts
<1>1. UNCHANGED manager /\ pc'[w] = pc[w] /\ req' = req
  BY DEF FrameLoop, StartFrame, Grab, Matted, EndLoop, Locking, Exit, Idles, Go, Ground, TypeOK, manager
<1>2. In(w) => In(w)'
  <2> USE DEF In, Ground, TypeOK, MutexTypeOK
  <2>1. CASE FrameLoop
    BY <2>1 DEF FrameLoop, StartFrame, Grab, Matted, EndLoop, Lock, Unlock, Leave, mutexVars
  <2>2. ASSUME NEW t \in {Main, w}, Locking(t) PROVE In(w) => In(w)'
    BY <2>2 DEF Locking, LockSteps, Acquire, SetOwns, Release, ClearOwns
  <2>3. CASE (\E t \in {Main, w} : Exit(t)) \/ Idles
    BY <2>3 DEF Exit, Idles, mutexVars
  <2> QED
    BY <2>1, <2>2, <2>3
<1>3. (Busy(w) => Busy(w)') /\ (Plated(w) => Plated(w)')
  BY <1>1, <1>2 DEF Busy, Plated, Replacing, manager
<1>4. \A m \in Modes : (Dirty(w, m) => Dirty(w, m)') /\ (Replacing(w, m) => Replacing(w, m)')
  BY <1>1 DEF Dirty, Replacing
<1> QED
  BY <1>1, <1>3, <1>4, SoundKept DEF Sound

\* A worker that is not replacing anything.
LEMMA SoundQuiet ==
  ASSUME NEW w \in Workers, Ground(w), Sound(w), ~Lost(w), UNCHANGED manager,
         pc[w] \notin {"null", "delete", "fetch", "build", "store", "cleanup"},
         pc[w] = "config" => ~req[w].reinit,
         req[w].op = "plate" => \A m \in Modes : Replacing(w, m) => Replacing(w, m)'
  PROVE  Sound(w)'
<1>1. ~Busy(w)
  BY DEF Busy
<1>2. \A m \in Modes : ~Dirty(w, m)
  BY DEF Dirty
<1>3. \A m \in Modes : Replacing(w, m) => Replacing(w, m)'
  BY DEF Replacing
<1>4. \A m \in Modes : (Dirty(w, m) => Dirty(w, m)') /\ (Replacing(w, m) => Replacing(w, m)')
  BY <1>2, <1>3
<1>5. pc[w] # "null" \/ (pc'[w] = pc[w] /\ req' = req)
  OBVIOUS
<1>6. pc[w] # "fetch"
  OBVIOUS
<1>7. Busy(w) => Busy(w)'
  BY <1>1
<1> QED
  BY <1>4, <1>5, <1>6, <1>7, SoundKept

LEMMA SoundReceive ==
  ASSUME NEW w \in Workers, Ground(w), Sound(w), ~Lost(w), Receive(w)
  PROVE  Sound(w)'
<1>1. UNCHANGED manager /\ pc[w] = "idle"
  BY DEF Receive, GetMode, SetMode, UpdateConfig, LoadConfigs, TakePlate, Shutdown, At, manager
<1>2. req[w].op # "plate"
  BY <1>1 DEF Ground, Place, OpAt, NoRequest, Request
<1> QED
  BY <1>1, <1>2, SoundQuiet

LEMMA SoundSections ==
  ASSUME NEW w \in Workers, Ground(w), Sound(w), ~Lost(w),
         Enter(w) \/ FinishGet(w) \/ Pause(w) \/ Roll(w) \/ Resume(w) \/ Unpause(w)
         \/ NextMode(w) \/ RejectConfig(w) \/ ConfigWritten(w) \/ Sweep(w)
  PROVE  Sound(w)'
<1>g. Place(w) /\ TypeOK
  BY DEF Ground
<1>m. UNCHANGED manager
  BY DEF Enter, FinishGet, Pause, Roll, Resume, Unpause, NextMode, RejectConfig, ConfigWritten,
         Sweep, manager
<1> USE DEF At
<1>1. CASE Enter(w)
  <2>1. Lock(w, ManagerLock) /\ Go(w, Target[pc[w]]) /\ UNCHANGED req
    BY <1>1, Section DEF Enter
  <2>2. pc'[w] = Target[pc[w]] /\ req' = req /\ pc[w] \in DOMAIN Target
    BY <1>1, <2>1, <1>g, SentTo DEF Enter
  <2>3. \A m \in Modes : Replacing(w, m) => Replacing(w, m)'
    BY <2>2 DEF Replacing, Target
  <2>4. pc[w] \in {"lock_get", "lock_assign", "lock_config", "lock_roll", "lock_delete"}
    BY <2>2 DEF Target
  <2> QED
    BY <2>3, <2>4, <1>m, SoundQuiet
<1>2. CASE FinishGet(w)
  BY <1>2, <1>m, <1>g, SoundQuiet DEF FinishGet, Place, OpAt
<1>3. CASE Pause(w) \/ Resume(w)
  <2>1. req' = req /\ pc[w] \in {"pause", "resume"}
    BY <1>3 DEF Pause, Resume
  <2>2. \A m \in Modes : Replacing(w, m) => Replacing(w, m)'
    BY <2>1 DEF Replacing
  <2> QED
    BY <2>1, <2>2, <1>m, SoundQuiet
<1>4. CASE Roll(w)
  <2>1. PICK p \in Grabs : req' = [req EXCEPT ![w].shot = p]
    BY <1>4 DEF Roll
  <2>2. req'[w].op = req[w].op /\ req'[w].modes = req[w].modes /\ pc[w] = "roll"
    BY <1>4, <2>1, <1>g DEF TypeOK, Requests, Roll
  <2>3. \A m \in Modes : Replacing(w, m) => Replacing(w, m)'
    BY <2>2 DEF Replacing
  <2> QED
    BY <2>2, <2>3, <1>m, SoundQuiet
<1>5. CASE Unpause(w)
  <2>1. req' = req /\ pc[w] = "unpause"
    BY <1>5, Section DEF Unpause
  <2>2. \A m \in Modes : Replacing(w, m) => Replacing(w, m)'
    BY <2>1 DEF Replacing
  <2> QED
    BY <2>1, <2>2, <1>m, SoundQuiet
<1>6. CASE NextMode(w)
  BY <1>6, <1>m, <1>g, SoundQuiet DEF NextMode, Place, OpAt
<1>7. CASE RejectConfig(w)
  BY <1>7, <1>m, <1>g, SoundQuiet DEF RejectConfig, Place, OpAt, Reinits
<1>8. CASE ConfigWritten(w)
  <2>0. pc[w] = "config" /\ req[w].op # "plate"
    BY <1>8, <1>g DEF ConfigWritten, Place, OpAt
  <2>1. CASE req[w].reinit
    <3>1. pc'[w] = "delete" /\ req' = req /\ stage'[w] = stage[w]
      BY <1>8, <2>1, <1>g, SentTo, Section DEF ConfigWritten
    <3>2. Busy(w) => Busy(w)'
      BY <2>0, <2>1, <3>1 DEF Busy, In
    <3>3. \A m \in Modes : (Dirty(w, m) => Dirty(w, m)') /\ (Replacing(w, m) => Replacing(w, m)')
      BY <2>0, <2>1, <3>1 DEF Dirty, Replacing
    <3>4. pc[w] # "null" \/ (pc'[w] = pc[w] /\ req' = req)
      BY <2>0
    <3>5. pc[w] # "fetch"
      BY <2>0
    <3> QED
      BY <3>2, <3>3, <3>4, <3>5, <1>m, SoundKept
  <2>2. CASE ~req[w].reinit
    BY <2>0, <2>2, <1>m, SoundQuiet
  <2> QED
    BY <2>1, <2>2
<1>9. CASE Sweep(w)
  <2>1. pc[w] = "sweep"
    BY <1>9 DEF Sweep
  <2>2. \A x \in Modes : Replacing(w, x) => Replacing(w, x)'
    <3>1. CASE req[w].modes = {}
      BY <2>1, <3>1 DEF Replacing
    <3>2. ASSUME NEW m \in req[w].modes,
                 req' = [req EXCEPT ![w] = Request("plate", m, NoWrites, req[w].modes \ {m})],
                 Go(w, IF m = running_mode THEN "lock_delete" ELSE "delete")
          PROVE  \A x \in Modes : Replacing(w, x) => Replacing(w, x)'
      <4>1. /\ pc'[w] = IF m = running_mode THEN "lock_delete" ELSE "delete"
            /\ req'[w] = Request("plate", m, NoWrites, req[w].modes \ {m})
        BY <3>2, <1>g, SentTo
      <4> QED
        BY <4>1, <2>1 DEF Request, Replacing
    <3> QED
      BY <1>9, <3>1, <3>2 DEF Sweep
  <2> QED
    BY <2>1, <2>2, <1>m, SoundQuiet
<1> QED
  BY <1>1, <1>2, <1>3, <1>4, <1>5, <1>6, <1>7, <1>8, <1>9
-----------------------------------------------------------------------------
\* The types the proofs below need of worker w and of mode m.
LEMMA SoundTypes ==
  ASSUME NEW w \in Workers, Ground(w)
  PROVE  /\ Place(w) /\ TypeOK
         /\ req[w].mode \in Modes /\ running_mode \in Modes
         /\ instance \in [Modes -> Objects \cup {Null}]
         /\ heap \in [Objects -> Matters \cup {None}]
         /\ config \in [Modes -> UNION {[Fields[m] -> Values] : m \in Modes}]
  BY DEF Ground, TypeOK, Requests

\* The instance of a mode that needs a plate has one, unless it is deleted.
LEMMA InstancePlate ==
  ASSUME NEW w \in Workers, Ground(w), Owned(w), NEW m \in PlateModes,
         instance[m] # Null, ~(pc[w] = "null" /\ req[w].mode = m)
  PROVE  heap[instance[m]].plate # Empty
<1>1. m \in Modes /\ instance[m] \in Objects
  BY SoundTypes, ModesAssumption
<1>2. Live(instance[m]) /\ heap[instance[m]].mode = m
  BY <1>1 DEF Owned, Owners
<1> QED
  BY <1>1, <1>2 DEF Owned

LEMMA SoundAssign ==
  ASSUME NEW w \in Workers, Ground(w), Owned(w), Sound(w), Given(w), ~Lost(w), Assign(w)
  PROVE  Sound(w)'
<1>g. /\ Place(w) /\ TypeOK /\ req[w].mode \in Modes /\ running_mode \in Modes
  BY SoundTypes
<1>1. pc[w] = "assign" /\ pc'[w] = "idle" /\ req'[w] = NoRequest
  BY <1>g, SentTo DEF Assign, At
<1>2. req[w].op = "set" /\ req[w].matter = instance[req[w].mode] /\ instance[req[w].mode] # Null
  BY <1>1, <1>g DEF Place, OpAt, Given
<1>3. /\ running_matter' = req[w].matter /\ running_mode' = req[w].mode
      /\ UNCHANGED <<clean_plate, instance, config, heap>>
  BY DEF Assign
<1>4. \A m \in Modes : ~Dirty(w, m) /\ ~Replacing(w, m)
  BY <1>1, <1>2 DEF Dirty, Replacing
<1>5. \A m \in Modes : FreshMode(w, m)'
  BY <1>1, <1>3, <1>4 DEF Sound, FreshMode, Setting
<1>6. Linked(w)'
  BY <1>2, <1>3 DEF Linked
<1>7. Plated(w)'
  <2> SUFFICES ASSUME req[w].mode \in PlateModes, clean_plate = Empty PROVE FALSE
    BY <1>3 DEF Plated
  <2>1. heap[instance[req[w].mode]].plate # Empty
    BY <1>1, <1>2, InstancePlate
  <2> QED
    BY <1>1, <1>2, <1>4, <1>g, <2>1 DEF Sound, FreshMode
<1> QED
  BY <1>5, <1>6, <1>7 DEF Sound

LEMMA SoundFetch ==
  ASSUME NEW w \in Workers, Ground(w), Owned(w), Sound(w), ~Lost(w), ~Lost(w)', Fetch(w)
  PROVE  Sound(w)'
<1>g. /\ Place(w) /\ TypeOK /\ req[w].mode \in Modes /\ running_mode \in Modes
  BY SoundTypes
<1>0. pc[w] = "fetch" /\ UNCHANGED manager
  BY DEF Fetch, At
<1>d. \A m \in Modes : ~Dirty(w, m)
  BY <1>0 DEF Dirty
<1>n. pc[w] # "null" \/ (pc'[w] = pc[w] /\ req' = req)
  BY <1>0
<1>1. CASE Throw(w) /\ req[w].mode \in PlateModes /\ clean_plate = Empty
  <2>1. req[w].op # "plate"
    BY <1>1, <1>0, <1>g, ThrowIs, Section DEF Place, InSection, Lost, Out
  <2>2. ~In(w)
    BY <1>1, <1>0, <1>g, <2>1 DEF Sound, Plated, Replacing, Place, InSection, In, Out
  <2>3. ~Busy(w)
    BY <2>2 DEF Busy
  <2>4. \A m \in Modes : ~Replacing(w, m)
    BY <2>1 DEF Replacing
  <2>5. \A m \in Modes : (Dirty(w, m) => Dirty(w, m)') /\ (Replacing(w, m) => Replacing(w, m)')
    BY <1>d, <2>4
  <2>6. Busy(w) => Busy(w)'
    BY <2>3
  <2>7. pc[w] = "fetch" /\ req[w].op = "plate" => Plated(w)'
    BY <2>1
  <2> QED
    BY <1>0, <1>n, <2>5, <2>6, <2>7, SoundKept
<1>2. CASE /\ ~(req[w].mode \in PlateModes /\ clean_plate = Empty)
           /\ Go(w, "build") /\ UNCHANGED <<mutexVars, req>>
  <2>1. pc'[w] = "build" /\ req'[w] = req[w] /\ stage'[w] = stage[w]
    BY <1>2, <1>g, SentTo, Section
  <2>2. \A m \in Modes : Replacing(w, m) => Replacing(w, m)'
    BY <2>1, <1>0 DEF Replacing
  <2>3. \A m \in Modes : (Dirty(w, m) => Dirty(w, m)') /\ (Replacing(w, m) => Replacing(w, m)')
    BY <1>d, <2>2
  <2>4. Busy(w) => Busy(w)'
    BY <2>1 DEF Busy, In
  <2>5. Plated(w)'
    BY <1>2, <1>0, <1>g, <2>2 DEF Sound, Plated, manager
  <2> QED
    BY <1>0, <1>n, <2>3, <2>4, <2>5, SoundKept
<1>3. CASE /\ instance[req[w].mode] # Null
           /\ req' = [req EXCEPT ![w].matter = instance[req[w].mode]]
           /\ Go(w, IF req[w].op = "set" THEN "lock_assign" ELSE "store")
           /\ UNCHANGED mutexVars
  <2>1. pc'[w] = IF req[w].op = "set" THEN "lock_assign" ELSE "store"
    BY <1>3, <1>g, SentTo
  <2>0. stage'[w] = stage[w]
    BY <1>3, Section
  <2>2. req'[w].op = req[w].op /\ req'[w].modes = req[w].modes
    BY <1>3, <1>g DEF TypeOK, Requests
  <2>3. \A m \in Modes : Replacing(w, m) => Replacing(w, m)'
    BY <2>2, <1>0 DEF Replacing
  <2>4. \A m \in Modes : (Dirty(w, m) => Dirty(w, m)') /\ (Replacing(w, m) => Replacing(w, m)')
    BY <1>d, <2>3
  <2>5. Busy(w) => Busy(w)'
    BY <2>0, <2>1, <1>0, <1>g DEF Busy, In, Out, Place, InSection
  <2>6. Plated(w)'
    <3>1. CASE Replacing(w, running_mode)
      BY <3>1, <1>0, <1>g, <2>3 DEF Plated, manager
    <3>2. CASE ~Replacing(w, running_mode)
      <4> SUFFICES ASSUME running_mode \in PlateModes, clean_plate = Empty PROVE FALSE
        BY <1>0 DEF Plated, manager
      <4>1. req[w].mode = running_mode
        BY <3>2 DEF Sound, Plated
      <4>2. heap[instance[running_mode]].plate # Empty
        BY <1>0, <1>3, <4>1, InstancePlate
      <4> QED
        BY <1>0, <1>3, <1>g, <3>2, <4>1, <4>2 DEF Sound, FreshMode
    <3> QED
      BY <3>1, <3>2
  <2> QED
    BY <1>0, <1>n, <2>4, <2>5, <2>6, SoundKept
<1> QED
  BY <1>1, <1>2, <1>3 DEF Fetch

LEMMA SoundBuild ==
  ASSUME NEW w \in Workers, Ground(w), Owned(w), Sound(w), ~Lost(w), ~Lost(w)', Build(w)
  PROVE  Sound(w)'
<1>g. /\ Place(w) /\ TypeOK /\ req[w].mode \in Modes /\ running_mode \in Modes
      /\ instance \in [Modes -> Objects \cup {Null}]
      /\ heap \in [Objects -> Matters \cup {None}]
  BY SoundTypes
<1>0. pc[w] = "build"
  BY DEF Build, At
<1>d. \A m \in Modes : ~Dirty(w, m)
  BY <1>0 DEF Dirty
<1>n. pc[w] # "null" \/ (pc'[w] = pc[w] /\ req' = req)
  BY <1>0
<1>f. pc[w] = "fetch" /\ req[w].op = "plate" => Plated(w)'
  BY <1>0
<1>1. CASE Throw(w) /\ UNCHANGED manager
           /\ BadAmong(req[w].mode, AllFields \ (FrameFields \cup CtorFields))
  <2>1. req[w].op # "plate"
    BY <1>1, <1>0, <1>g, ThrowIs, Section DEF Place, InSection, Lost, Out
  <2>2. \A m \in Modes : ~Replacing(w, m)
    BY <2>1 DEF Replacing
  <2>3. \A m \in Modes : FreshMode(w, m)'
    <3>1. \A m \in Modes : Setting(m)' = Setting(m)
      BY <1>1 DEF manager, Setting
    <3> QED
      BY <3>1, <1>0, <1>1, <1>d, <2>2 DEF Sound, FreshMode, manager
  <2>4. Refused(running_mode)' = Refused(running_mode) /\ running_mode' = running_mode
    BY <1>1 DEF manager, Refused
  <2>5. Linked(w)'
    <3>1. CASE req[w].mode = running_mode
      <4>1. Refused(running_mode)
        BY <3>1, <1>1 DEF BadAmong, Refused
      <4> QED
        BY <4>1, <1>1, <2>4 DEF Linked, Refused, manager
    <3>2. CASE req[w].mode # running_mode
      <4>1. ~Busy(w)
        BY <3>2, <1>0, <1>g DEF Place, InSection, Busy, In, Out
      <4> QED
        BY <4>1, <1>1, <2>4 DEF Sound, Linked, Refused, manager
    <3> QED
      BY <3>1, <3>2
  <2>6. Plated(w)'
    BY <1>0, <1>1, <1>g, <2>2 DEF Sound, Plated, manager
  <2> QED
    BY <2>3, <2>5, <2>6 DEF Sound
<1>2. CASE Go(w, "cleanup") /\ UNCHANGED <<mutexVars, manager, req>>
  <2>1. pc'[w] = "cleanup" /\ stage'[w] = stage[w] /\ req' = req /\ UNCHANGED manager
    BY <1>2, <1>g, SentTo, Section
  <2>2. \A m \in Modes : Replacing(w, m) => Replacing(w, m)'
    BY <2>1, <1>0 DEF Replacing
  <2>3. \A m \in Modes : (Dirty(w, m) => Dirty(w, m)') /\ (Replacing(w, m) => Replacing(w, m)')
    BY <1>d, <2>2
  <2>4. Busy(w) => Busy(w)'
    BY <2>1 DEF Busy, In
  <2> QED
    BY <1>n, <1>f, <2>1, <2>3, <2>4, SoundKept
<1>3. ASSUME NEW o \in Objects \ Referenced,
             heap' = [heap EXCEPT ![o] =
               [mode |-> req[w].mode, plate |-> clean_plate, setting |-> Setting(req[w].mode)]],
             instance' = [instance EXCEPT ![req[w].mode] = o],
             req' = [req EXCEPT ![w].matter = o],
             Go(w, IF req[w].op = "set" THEN "lock_assign" ELSE "store"),
             UNCHANGED <<mutexVars, running_matter, running_mode, clean_plate, config>>
      PROVE  Sound(w)'
  <2>1. pc'[w] = IF req[w].op = "set" THEN "lock_assign" ELSE "store"
    BY <1>3, <1>g, SentTo
  <2>2. stage'[w] = stage[w]
    BY <1>3, Section
  <2>3. req'[w].op = req[w].op /\ req'[w].modes = req[w].modes
    BY <1>3, <1>g DEF TypeOK, Requests
  <2>4. \A m \in Modes : Replacing(w, m) => Replacing(w, m)'
    BY <2>3, <1>0 DEF Replacing
  <2>5. \A m \in Modes : instance[m] # o
    BY <1>3 DEF Referenced
  <2>6. /\ heap'[o].setting = Setting(req[w].mode) /\ heap'[o].plate = clean_plate
        /\ \A x \in Objects : x # o => heap'[x] = heap[x]
        /\ instance'[req[w].mode] = o
        /\ \A m \in Modes : m # req[w].mode => instance'[m] = instance[m]
    BY <1>3, <1>g
  <2>7. \A m \in Modes : Setting(m)' = Setting(m)
    BY <1>3 DEF Setting
  <2>8. \A m \in Modes : FreshMode(w, m)'
    <3> SUFFICES ASSUME NEW m \in Modes PROVE FreshMode(w, m)'
      OBVIOUS
    <3>1. CASE m = req[w].mode
      BY <3>1, <1>3, <2>6, <2>7 DEF FreshMode
    <3>2. CASE m # req[w].mode
      <4>1. instance'[m] = instance[m]
        BY <3>2, <2>6
      <4>2. instance[m] # Null => heap'[instance[m]] = heap[instance[m]]
        BY <1>g, <2>5, <2>6
      <4>3. FreshMode(w, m) /\ ~Dirty(w, m) /\ (Replacing(w, m) => Replacing(w, m)')
        BY <1>d, <2>4 DEF Sound
      <4> QED
        BY <4>1, <4>2, <4>3, <1>0, <1>3, <2>7 DEF FreshMode
    <3> QED
      BY <3>1, <3>2
  <2>9. Linked(w)'
    <3>1. CASE In(w)
      BY <3>1, <2>1, <2>2, <1>0, <1>g DEF Linked, Busy, In, Out, Place, InSection
    <3>2. CASE ~In(w)
      <4>1. ~Busy(w) /\ req[w].mode # running_mode
        BY <3>2, <1>0, <1>g DEF Busy, Place, InSection
      <4>2. instance'[running_mode] = instance[running_mode]
        BY <4>1, <2>6, <1>g
      <4> QED
        BY <4>1, <4>2, <1>3 DEF Sound, Linked, Refused
    <3> QED
      BY <3>1, <3>2
  <2>10. Plated(w)'
    BY <1>0, <1>3, <1>g, <2>4 DEF Sound, Plated
  <2> QED
    BY <2>8, <2>9, <2>10 DEF Sound
<1> QED
  BY <1>1, <1>2, <1>3 DEF Build

LEMMA SoundDelete ==
  ASSUME NEW w \in Workers, Ground(w), Owned(w), Sound(w), ~Lost(w), Delete(w)
  PROVE  Sound(w)'
<1>g. /\ Place(w) /\ TypeOK /\ req[w].mode \in Modes /\ running_mode \in Modes
      /\ instance \in [Modes -> Objects \cup {Null}]
      /\ heap \in [Objects -> Matters \cup {None}]
  BY SoundTypes
<1>1. /\ pc[w] = "delete" /\ pc'[w] = "null" /\ req' = req /\ stage'[w] = stage[w]
      /\ UNCHANGED <<running_matter, running_mode, clean_plate, instance, config>>
  BY <1>g, SentTo, Section DEF Delete, At
<1>2. \A m \in Modes : Replacing(w, m) /\ m # req[w].mode => Replacing(w, m)'
  BY <1>1 DEF Replacing
<1>3. \A m \in Modes : FreshMode(w, m)'
  <2> SUFFICES ASSUME NEW m \in Modes, m # req[w].mode, instance[m] # Null PROVE FreshMode(w, m)'
    BY <1>1 DEF FreshMode
  <2>1. instance[m] \in Objects /\ heap[instance[m]].mode = m
    BY <1>g, <1>1 DEF Owned, Owners
  <2>2. instance[m] # instance[req[w].mode]
    BY <2>1, <1>g, <1>1 DEF Owned, Owners
  <2>3. heap'[instance[m]] = heap[instance[m]]
    BY <2>1, <2>2 DEF Delete
  <2>4. Setting(m)' = Setting(m) /\ ~Dirty(w, m)
    BY <1>1 DEF Setting, Dirty
  <2> QED
    BY <1>1, <1>2, <2>3, <2>4 DEF Sound, FreshMode
<1>4. Linked(w)'
  <2>1. CASE req[w].mode = running_mode
    BY <2>1, <1>1, <1>g DEF Delete, Ready, Place, InSection, Inner, In, Out, Linked, Busy
  <2>2. CASE req[w].mode # running_mode
    <3>1. ~Busy(w)
      BY <2>2, <1>1, <1>g DEF Place, InSection, Busy, In, Out
    <3> QED
      BY <3>1, <1>1 DEF Sound, Linked, Refused
  <2> QED
    BY <2>1, <2>2
<1>5. Plated(w)'
  <2> SUFFICES ASSUME running_mode \in PlateModes, clean_plate = Empty
               PROVE  \/ Replacing(w, running_mode)'
                      \/ req[w].op = "plate" /\ req[w].mode = running_mode
    BY <1>1 DEF Plated
  <2>1. Replacing(w, running_mode)
    BY <1>1 DEF Sound, Plated
  <2> QED
    BY <2>1, <1>1, <1>g DEF Replacing
<1> QED
  BY <1>3, <1>4, <1>5 DEF Sound

LEMMA SoundNullify ==
  ASSUME NEW w \in Workers, Ground(w), Sound(w), ~Lost(w), Nullify(w)
  PROVE  Sound(w)'
<1>g. /\ Place(w) /\ TypeOK /\ req[w].mode \in Modes /\ running_mode \in Modes
      /\ instance \in [Modes -> Objects \cup {Null}]
  BY SoundTypes
<1>1. /\ pc[w] = "null" /\ stage'[w] = stage[w]
      /\ UNCHANGED <<running_matter, running_mode, clean_plate, config, heap>>
  BY Section DEF Nullify, At
<1>2. \/ In(w) /\ pc'[w] = "fetch" /\ req'[w] = req[w]
      \/ Out(w) /\ req[w].op = "plate" /\ pc'[w] = "sweep" /\ req'[w] = req[w]
      \/ Out(w) /\ req[w].op # "plate" /\ pc'[w] \in {"next", "idle"}
  BY <1>g, SentTo DEF Nullify, UpdateDone
<1>3. \A m \in Modes : Replacing(w, m) => Replacing(w, m)'
  BY <1>1, <1>2 DEF Replacing
<1>4. \A m \in Modes : instance'[m] = IF m = req[w].mode THEN Null ELSE instance[m]
  BY <1>g DEF Nullify
<1>5. \A m \in Modes : FreshMode(w, m)'
  <2> SUFFICES ASSUME NEW m \in Modes, m # req[w].mode PROVE FreshMode(w, m)'
    BY <1>4 DEF FreshMode
  <2>1. Setting(m)' = Setting(m) /\ ~Dirty(w, m) /\ instance'[m] = instance[m]
    BY <1>1, <1>4 DEF Setting, Dirty
  <2> QED
    BY <1>1, <1>3, <2>1 DEF Sound, FreshMode
<1>6. Linked(w)'
  <2>1. CASE req[w].mode = running_mode
    BY <2>1, <1>1, <1>2, <1>g DEF Place, InSection, In, Out, Linked, Busy
  <2>2. CASE req[w].mode # running_mode
    <3>1. ~Busy(w) /\ instance'[running_mode] = instance[running_mode]
      BY <2>2, <1>1, <1>4, <1>g DEF Place, InSection, Busy, In, Out
    <3> QED
      BY <3>1, <1>1 DEF Sound, Linked, Refused
  <2> QED
    BY <2>1, <2>2
<1>7. Plated(w)'
  <2> SUFFICES ASSUME running_mode \in PlateModes, clean_plate = Empty
               PROVE  \/ Replacing(w, running_mode)'
                      \/ pc'[w] = "fetch" /\ req'[w].op = "plate" /\ req'[w].mode = running_mode
    BY <1>1 DEF Plated
  <2>1. CASE Replacing(w, running_mode)
    BY <2>1, <1>1, <1>2, <1>g DEF Replacing
  <2>2. CASE req[w].op = "plate" /\ req[w].mode = running_mode
    BY <2>2, <1>1, <1>2, <1>g DEF Place, InSection, In, Out
  <2> QED
    BY <2>1, <2>2 DEF Sound, Plated
<1> QED
  BY <1>5, <1>6, <1>7 DEF Sound

LEMMA SoundStore ==
  ASSUME NEW w \in Workers, Ground(w), Sound(w), Given(w), ~Lost(w), Store(w)
  PROVE  Sound(w)'
<1>g. /\ Place(w) /\ TypeOK /\ req[w].mode \in Modes /\ running_mode \in Modes
  BY SoundTypes
<1>1. /\ pc[w] = "store" /\ running_matter' = req[w].matter
      /\ UNCHANGED <<running_mode, clean_plate, instance, config, heap>>
  BY DEF Store, At
<1>2. CASE req[w].op # "plate"
  <2>1. UpdateDone(w) \in BOOLEAN
    BY DEF UpdateDone, Answer, Go
  <2>2. UpdateDone(w)
    BY <1>2, <2>1, GuardUnlocksIs DEF Store
  <2>3. pc'[w] \in {"next", "idle"} /\ \A m \in Modes : ~Replacing(w, m)
    BY <1>2, <2>2, <1>g, SentTo DEF UpdateDone, Replacing
  <2> QED
    BY <1>1, <2>3, <1>g
       DEF Sound, FreshMode, Linked, Plated, Given, Place, InSection, Dirty, Setting
<1>3. CASE req[w].op = "plate"
  <2>1. pc'[w] = "sweep" /\ req'[w] = req[w]
    BY <1>3, <1>g, SentTo, Section DEF Store
  <2>2. \A m \in Modes : Replacing(w, m) => Replacing(w, m)'
    BY <1>1, <2>1 DEF Replacing
  <2>3. \A m \in Modes : FreshMode(w, m)'
    BY <1>1, <2>1, <2>2 DEF Sound, FreshMode, Setting, Dirty
  <2>4. Linked(w)'
    BY <1>1, <1>g DEF Linked, Given, Place, InSection
  <2>5. Plated(w)'
    BY <1>1, <2>1, <1>g DEF Sound, Plated, Replacing
  <2> QED
    BY <2>3, <2>4, <2>5 DEF Sound
<1> QED
  BY <1>2, <1>3

LEMMA SoundWriteField ==
  ASSUME NEW w \in Workers, Ground(w), Sound(w), ~Lost(w), WriteField(w)
  PROVE  Sound(w)'
<1>g. /\ Place(w) /\ TypeOK /\ req[w].mode \in Modes /\ running_mode \in Modes
      /\ config \in [Modes -> UNION {[Fields[m] -> Values] : m \in Modes}]
  BY SoundTypes
<1>1. /\ pc[w] = "config" /\ pc' = pc /\ stage'[w] = stage[w]
      /\ UNCHANGED <<running_matter, running_mode, clean_plate, instance, heap>>
  BY Section DEF WriteField, At
<1>2. PICK f \in DOMAIN req[w].writes :
        /\ config' = [config EXCEPT ![req[w].mode][f] = req[w].writes[f]]
        /\ req' = [req EXCEPT
             ![w].writes = [g \in DOMAIN @ \ {f} |-> @[g]],
             ![w].reinit = @ \/ f \notin FrameFields]
  BY DEF WriteField
<1> DEFINE u == [g \in DOMAIN req[w].writes \ {f} |-> req[w].writes[g]]
           b == req[w].reinit \/ f \notin FrameFields
<1>3. req'[w] = [req[w] EXCEPT !.writes = u, !.reinit = b]
  BY <1>2, <1>g DEF TypeOK, Requests
<1>4. req'[w].op = req[w].op /\ req'[w].mode = req[w].mode /\ req'[w].reinit = b
  BY <1>3, <1>g DEF TypeOK, Requests
<1>5. req[w].op # "plate"
  BY <1>1, <1>g DEF Place, OpAt
<1>6. \A m \in Modes : ~Replacing(w, m) /\ (Dirty(w, m) => Dirty(w, m)')
  BY <1>1, <1>4, <1>5 DEF Replacing, Dirty
<1> HIDE DEF u
<1>7. \A m \in Modes : m # req[w].mode => config'[m] = config[m]
  BY <1>2, <1>g
<1>8. \A m \in Modes : \A g : g # f => config'[m][g] = config[m][g]
  BY <1>2, <1>g
<1>9. \A m \in Modes : FreshMode(w, m)'
  <2> SUFFICES ASSUME NEW m \in Modes PROVE FreshMode(w, m)'
    OBVIOUS
  <2>1. Dirty(w, m)' \/ Setting(m)' = Setting(m)
    BY <1>1, <1>4, <1>7, <1>8 DEF Dirty, Setting
  <2> QED
    BY <1>1, <1>6, <2>1 DEF Sound, FreshMode
<1>10. Linked(w)'
  <2>1. CASE req[w].mode = running_mode /\ f \notin FrameFields
    <3>1. In(w)
      BY <2>1, <1>1, <1>g DEF WriteField, Ready, Place, InSection, Inner, In, Out
    <3> QED
      BY <3>1, <2>1, <1>1, <1>4 DEF Linked, Busy, In
  <2>2. CASE ~(req[w].mode = running_mode /\ f \notin FrameFields)
    <3>1. Refused(running_mode)' = Refused(running_mode)
      BY <2>2, <1>1, <1>7, <1>8, <1>g DEF Refused
    <3>2. Busy(w) => Busy(w)'
      BY <1>1, <1>4 DEF Busy, In
    <3> QED
      BY <3>1, <3>2, <1>1 DEF Sound, Linked
  <2> QED
    BY <2>1, <2>2
<1>11. Plated(w)'
  BY <1>1, <1>4, <1>5 DEF Sound, Plated, Replacing
<1> QED
  BY <1>9, <1>10, <1>11 DEF Sound

LEMMA SoundPublish ==
  ASSUME NEW w \in Workers, Ground(w), Sound(w), ~Lost(w), Publish(w)
  PROVE  Sound(w)'
<1>g. /\ TypeOK /\ running_mode \in Modes
  BY SoundTypes
<1>1. /\ pc[w] = "publish" /\ UNCHANGED <<running_matter, running_mode, instance, config, heap>>
  BY DEF Publish, At
<1>2. pc'[w] = "sweep" /\ req'[w] = Request("plate", InitialMode, NoWrites, PlateModes)
  BY <1>g, SentTo DEF Publish
<1>3. \A m \in PlateModes : Replacing(w, m)'
  BY <1>2 DEF Replacing, Request
<1>4. \A m \in Modes : FreshMode(w, m)'
  BY <1>1, <1>2, <1>3 DEF Sound, FreshMode, Setting, Dirty
<1>5. Linked(w)'
  BY <1>1, <1>g DEF Sound, Linked, Busy, Refused
<1>6. Plated(w)'
  BY <1>1, <1>2, <1>3 DEF Plated, Replacing, Request
<1> QED
  BY <1>4, <1>5, <1>6 DEF Sound

\* The matters stay up to date with the configurations and the plate.
LEMMA StepSound ==
  ASSUME NEW w \in Workers, Ground(w), Owned(w), Sound(w), Given(w), OneStep(w),
         Lost(w) => Lost(w)'
  PROVE  Sound(w)'
<1>1. CASE Lost(w)'
  BY <1>1 DEF Sound
<1>2. CASE ~Lost(w)'
  <2>1. ~Lost(w)
    BY <1>2
  <2> QED
    BY <1>2, <2>1, SoundOthers, SoundReceive, SoundSections, SoundAssign, SoundFetch, SoundBuild,
       SoundDelete, SoundNullify, SoundStore, SoundWriteField, SoundPublish DEF OneStep, Handle
<1> QED
  BY <1>1, <1>2
-----------------------------------------------------------------------------
\* The pointer get_matter gave is still the instance when it is assigned.
LEMMA StepGiven ==
  ASSUME NEW w \in Workers, Ground(w), Given(w), OneStep(w)
  PROVE  Given(w)'
<1> USE ThreadFacts
<1>g. /\ Place(w) /\ TypeOK /\ req[w].mode \in Modes
      /\ instance \in [Modes -> Objects \cup {Null}]
  BY SoundTypes
<1>q. ASSUME pc'[w] \notin {"lock_assign", "assign", "store"} PROVE Given(w)'
  BY <1>q DEF Given
<1>1. CASE Idles
  BY <1>1 DEF Idles, manager, Given
<1>2. CASE FrameLoop
  BY <1>2, <1>g DEF FrameLoop, StartFrame, Grab, Matted, EndLoop, Go, TypeOK, manager, Given
<1>3. ASSUME NEW t \in {Main, w}, Locking(t) \/ Exit(t) PROVE Given(w)'
  BY <1>3 DEF Locking, Exit, manager, Given
<1>4. CASE Receive(w)
  <2>1. UNCHANGED manager /\ pc[w] = "idle"
    BY <1>4 DEF Receive, GetMode, SetMode, UpdateConfig, LoadConfigs, TakePlate, Shutdown, At
  <2>2. pc'[w] \in {"idle", "lock_get", "fetch", "lock_config", "config", "next", "pause"}
    BY <1>4, <2>1, <1>g, SentTo
       DEF Receive, GetMode, SetMode, UpdateConfig, LoadConfigs, TakePlate, Shutdown, Choose
  <2> QED
    BY <2>2, <1>q
<1>5. CASE Enter(w)
  <2>1. CASE pc[w] = "lock_assign"
    BY <1>5, <2>1, SentTo, <1>g DEF Enter, Target, manager, Given
  <2>2. CASE pc[w] # "lock_assign"
    BY <1>5, <2>2, SentTo, <1>g, <1>q DEF Enter, Target
  <2> QED
    BY <2>1, <2>2
<1>6. CASE Fetch(w) \/ Build(w)
  <2>1. CASE Throw(w)
    BY <2>1, ThrowIs, SentTo, <1>g, <1>q
  <2>2. CASE Go(w, "build") \/ Go(w, "cleanup")
    BY <2>2, SentTo, <1>g, <1>q
  <2>3. ASSUME NEW o, o # Null, req' = [req EXCEPT ![w].matter = o],
               instance'[req[w].mode] = o
        PROVE  Given(w)'
    <3>1. req'[w] = [req[w] EXCEPT !.matter = o]
      BY <2>3, <1>g DEF TypeOK
    <3>2. req'[w].mode = req[w].mode /\ req'[w].matter = o
      BY <3>1, <1>g DEF TypeOK, Requests
    <3> QED
      BY <2>3, <3>2 DEF Given
  <2>4. CASE Fetch(w)
    BY <2>1, <2>2, <2>3, <2>4 DEF Fetch, manager
  <2>5. CASE Build(w)
    <3>1. ASSUME NEW o \in Objects, instance' = [instance EXCEPT ![req[w].mode] = o]
          PROVE  o # Null /\ instance'[req[w].mode] = o
      BY <3>1, <1>g, DataAssumption
    <3> QED
      BY <2>1, <2>2, <2>3, <2>5, <3>1 DEF Build
  <2> QED
    BY <1>6, <2>4, <2>5
<1>7. CASE Delete(w) \/ Nullify(w) \/ Store(w)
  BY <1>7, SentTo, <1>g, <1>q DEF Delete, Nullify, Store, GuardUnlocks, UpdateDone
<1>8. CASE RejectConfig(w)
  BY <1>8, ThrowIs, SentTo, <1>g, <1>q DEF RejectConfig
<1>9. CASE WriteField(w)
  BY <1>9, <1>q DEF WriteField, At
<1>10. CASE FinishGet(w) \/ Assign(w) \/ NextMode(w) \/ ConfigWritten(w) \/ Pause(w) \/ Roll(w)
              \/ Resume(w) \/ Unpause(w) \/ Publish(w) \/ Sweep(w)
  BY <1>10, SentTo, <1>g, <1>q
     DEF FinishGet, Assign, NextMode, Choose, ConfigWritten, UpdateDone, Pause, Roll, Resume,
         Unpause, Publish, Sweep
<1> QED
  BY <1>1, <1>2, <1>3, <1>4, <1>5, <1>6, <1>7, <1>8, <1>9, <1>10 DEF OneStep, Handle
-----------------------------------------------------------------------------
\* The flag of the manager's lock stays true, and a lost mutex lost.
LEMMA StepFlags ==
  ASSUME NEW w \in Workers, Ground(w), OneStep(w)
  PROVE  Flags(w)' /\ (Lost(w) => Lost(w)')
<1>1. PICK t \in {Main, w} : LockUse(t)
  BY MainUse, WorkerUse DEF OneStep, Idles, Locking, Exit, LockUse
<1> QED
  BY <1>1, FlagsUse DEF Ground

\* The frame loop loses the mutex only on its way out.
MainLost == Leaked(Main) => pc[Main] = "cleanup"

LEMMA StepMainLost ==
  ASSUME TypeOK, MutexInv, MainLost, [Next]_vars
  PROVE  MainLost'
<1> USE ThreadFacts, FreeAssumption DEF MainLost, Leaked, Inside, TypeOK, MutexTypeOK
<1>1. CASE FrameLoop
  BY <1>1 DEF FrameLoop, StartFrame, Grab, Matted, EndLoop, Lock, Unlock, Leave, Go, At,
              In, Out, MutexInv, mutexVars
<1>2. ASSUME NEW w \in Workers, Receive(w) \/ Handle(w) PROVE MainLost'
  <2>1. pc'[Main] = pc[Main] /\ stage'[Main] = stage[Main]
    BY <1>2, WorkerStepsAlone
  <2>2. LockUse(w)
    BY <1>2, WorkerUse
  <2>3. mutex'= Main => mutex = Main
    BY <2>2 DEF LockUse, Lock, LockSteps, Acquire, SetOwns, Release, ClearOwns, Unlock, Leave, mutexVars
  <2> QED
    BY <2>1, <2>3
<1>3. ASSUME NEW t \in Threads, Locking(t) PROVE MainLost'
  BY <1>3 DEF Locking, LockSteps, Acquire, SetOwns, Release, ClearOwns, MutexInv
<1>4. ASSUME NEW t \in Threads, Exit(t) PROVE MainLost'
  BY <1>4 DEF Exit, mutexVars
<1>5. CASE UNCHANGED vars \/ Gone
  BY <1>5 DEF Gone, vars, mutexVars
<1> QED
  BY <1>1, <1>2, <1>3, <1>4, <1>5 DEF Next
-----------------------------------------------------------------------------
LEMMA MainLostHolds == Spec => []MainLost
<1>1. Init => MainLost
  BY ThreadFacts, FreeAssumption DEF Init, MutexInit, MainLost, Leaked
<1> QED
  BY <1>1, StepMainLost, TypeCorrect, EngineMutexInv, PTL DEF Spec
-----------------------------------------------------------------------------
\* Requests one at a time are among the behaviours of the engine.
LEMMA SerialIsSpec == SerialSpec => Spec
<1>1. [Next /\ Serial']_vars => [Next]_vars
  OBVIOUS
<1> QED
  BY <1>1, PTL DEF SerialSpec, Spec

\* The inductive invariant while w is the worker that serves.
ServesInv(w) ==
  /\ EngineInv /\ MainLost
  /\ Alone(w) /\ Flags(w) /\ Place(w)
  /\ Owned(w) /\ LostInPlate(w) /\ Sound(w) /\ Given(w)

LEMMA ServesGround ==
  ASSUME NEW w \in Workers, ServesInv(w) PROVE Ground(w)
  BY DEF ServesInv, EngineInv, Ground

LEMMA InitServes ==
  ASSUME NEW w \in Workers, Init PROVE ServesInv(w)
<1> USE ThreadFacts, FreeAssumption
<1>1. TypeOK
  BY InitTypeOK
<1>2. MutexInv
  BY MutexInitInv, EngineMutexInit
<1>a. Alone(w)
  BY DEF Init, MutexInit, Alone, Quiet
<1>3. pc[w] = "idle" /\ req[w] = NoRequest /\ stage[w] = "out" /\ mutex = Free /\ pc[Main] = "loop"
  BY DEF Init, MutexInit
<1>4. ~Lost(w) /\ ~Leaked(Main)
  BY <1>3 DEF Lost, Leaked
<1>5. Flags(w)
  BY <1>3, <1>4, ThreadsAssumption DEF Init, MutexInit, Flags
<1>6. Place(w)
  BY <1>3 DEF Place, OpAt, InSection, Reinits, NoRequest, Request, Past
<1> DEFINE first == [mode |-> InitialMode, plate |-> Empty, setting |-> Setting(InitialMode)]
<1>7. first # None /\ first.mode = InitialMode /\ first.setting = Setting(InitialMode)
  <2>1. Setting(InitialMode) \in Settings(InitialMode)
    BY <1>1, SettingType, ModesAssumption DEF TypeOK
  <2>2. first \in Matters
    BY <2>1, ModesAssumption DEF Matters
  <2> QED
    BY <2>2, NoneAssumption
<1> HIDE DEF first
<1>8. /\ \A o \in Objects : heap[o] = IF o = running_matter THEN first ELSE None
      /\ \A m \in Modes : instance[m] = IF m = InitialMode THEN running_matter ELSE Null
      /\ running_matter \in Objects /\ running_mode = InitialMode /\ clean_plate = Empty
  BY DEF Init, first
<1>9. Owned(w)
  BY <1>3, <1>7, <1>8, ModesAssumption, DataAssumption DEF Owned, Owners, Live
<1>10. \A m \in Modes : FreshMode(w, m)
  BY <1>7, <1>8, ModesAssumption DEF FreshMode
<1>11. Linked(w) /\ Plated(w)
  BY <1>8, ModesAssumption, DataAssumption DEF Linked, Plated
<1> QED
  BY <1>1, <1>2, <1>3, <1>4, <1>5, <1>6, <1>9, <1>10, <1>11, <1>a
     DEF ServesInv, EngineInv, LostInPlate, Sound, Given, MattingInside, MainLost

LEMMA StepServes ==
  ASSUME NEW w \in Workers, ServesInv(w), EngineInv', MainLost', OneStep(w)
  PROVE  ServesInv(w)'
<1>1. Ground(w) /\ Owned(w) /\ LostInPlate(w) /\ Sound(w) /\ Given(w)
  BY ServesGround DEF ServesInv
<1>2. Flags(w)' /\ (Lost(w) => Lost(w)')
  BY <1>1, StepFlags
<1>3. Alone(w)'
  BY <1>1, AloneStays DEF Ground
<1>4. Place(w)' /\ Owned(w)' /\ LostInPlate(w)' /\ Sound(w)' /\ Given(w)'
  BY <1>1, <1>2, StepPlace, StepOwned, StepLost, StepSound, StepGiven
<1> QED
  BY <1>2, <1>3, <1>4 DEF ServesInv

\* Once w is idle again any worker may be the next to serve.
LEMMA TakesOver ==
  ASSUME NEW w \in Workers, ServesInv(w), Quiet(w), NEW v \in Workers
  PROVE  ServesInv(v)
<1>1. pc[v] = pc[w] /\ stage[v] = stage[w] /\ req[v] = req[w] /\ stage[v] = "out"
  BY DEF ServesInv, Alone, Quiet
<1>2. Lost(v) = Lost(w)
  BY <1>1 DEF Lost, Inside
<1>3. Alone(v)
  BY DEF ServesInv, Alone
<1>4. Flags(v)
  BY <1>1, <1>2 DEF ServesInv, Flags
<1>5. Place(v)
  BY <1>1, <1>2 DEF ServesInv, Place, OpAt, InSection, Reinits, Inner, Past, In, Out
<1>6. Owned(v) /\ Given(v) /\ LostInPlate(v)
  BY <1>1, <1>2 DEF ServesInv, Owned, Owners, Given, LostInPlate
<1>7. Sound(v)
  BY <1>1, <1>2 DEF ServesInv, Sound, FreshMode, Dirty, Replacing, Linked, Busy, In, Plated
<1> QED
  BY <1>3, <1>4, <1>5, <1>6, <1>7 DEF ServesInv

\* Each step is one of the worker that serves, or of one that begins to.
LEMMA WhoServes ==
  ASSUME NEW w \in Workers, ServesInv(w), [Next /\ Serial']_vars
  PROVE  \E u \in Workers : (u = w \/ Quiet(w)) /\ OneStep(u)
<1> USE ThreadFacts
<1>g. Place(w) /\ TypeOK /\ Alone(w)
  BY DEF ServesInv, EngineInv
<1>1. UNCHANGED vars \/ Gone \/ FrameLoop => OneStep(w)
  BY DEF vars, process, Gone, OneStep, Idles
<1>2. ASSUME NEW t \in Threads, Locking(t) \/ Exit(t) PROVE t \in {Main, w}
  <2>1. ~(pc[t] = "idle" /\ stage[t] = "out")
    BY <1>2 DEF Locking, LockSteps, Acquire, SetOwns, Release, ClearOwns, Exit, At
  <2> QED
    BY <2>1, <1>g, ThreadsAssumption DEF Alone, Quiet
<1>3. ASSUME NEW v \in Workers, Handle(v) PROVE v = w
  <2>1. pc[v] # "idle"
    BY <1>3 DEF Handle, Enter, FinishGet, Assign, Fetch, Build, Delete, Nullify, Store, NextMode,
         RejectConfig, WriteField, ConfigWritten, Pause, Roll, Resume, Unpause, Publish, Sweep,
         At, Target
  <2> QED
    BY <2>1, <1>g DEF Alone, Quiet
<1>4. ASSUME NEW v \in Workers, Receive(v), v # w, Serial' PROVE Idles \/ Quiet(w)
  <2>1. CASE Shutdown(v)
    BY <2>1 DEF Shutdown, Idles, manager
  <2>2. CASE ~Shutdown(v)
    <3>1. pc'[v] # "idle"
      BY <1>4, <2>2, <1>g, SentTo
         DEF Receive, GetMode, SetMode, UpdateConfig, LoadConfigs, TakePlate, Choose
    <3>2. ~Serving(w)'
      BY <1>4, <3>1 DEF Serial, Serving
    <3>3. pc[w] = "idle" /\ stage[w] = "out"
      BY <1>4, <3>2, <1>g, WorkerStepsAlone DEF Serving
    <3> QED
      BY <3>3, <1>g DEF Quiet, Place, OpAt
  <2> QED
    BY <2>1, <2>2
<1> QED
  BY <1>1, <1>2, <1>3, <1>4 DEF Next, OneStep

\* Whichever worker serves, the matters, the lock and its place agree.
SerialInv == \E w \in Workers : ServesInv(w)

LEMMA SerialInvHolds == SerialSpec => []SerialInv
<1>1. Init => SerialInv
  BY InitServes, ThreadsAssumption DEF SerialInv
<1>2. SerialInv /\ EngineInv' /\ MainLost' /\ [Next /\ Serial']_vars => SerialInv'
  <2> SUFFICES ASSUME NEW w \in Workers, ServesInv(w), EngineInv', MainLost',
                      [Next /\ Serial']_vars
               PROVE  SerialInv'
    BY DEF SerialInv
  <2>1. PICK u \in Workers : (u = w \/ Quiet(w)) /\ OneStep(u)
    BY WhoServes
  <2>2. ServesInv(u)
    BY <2>1, TakesOver
  <2> QED
    BY <2>1, <2>2, StepServes DEF SerialInv
<1> QED
  BY <1>1, <1>2, SerialIsSpec, EngineInvHolds, MainLostHolds, PTL DEF SerialSpec

\* While a frame is matted the worker is in no section.
LEMMA WorkerAway ==
  ASSUME NEW w \in Workers, ServesInv(w), At(Main, "matting")
  PROVE  ~In(w) /\ ~Inside(w) /\ ~Lost(w)
  BY ThreadFacts DEF ServesInv, EngineInv, MutexInv, MattingInside, At, In, Inside, Lost

(* With requests one at a time a frame is matted by the matter of the mode *)
(* that runs, alive, and built from the values and the plate now in force, *)
(* for any workers, modes, fields and plates: FrameMatter is an invariant. *)
(* Its exceptions are those of the code: a mode whose matter get_matter    *)
(* cannot build, and the plate a handler is just replacing.                *)
THEOREM FramesMatted == SerialSpec => []FrameMatter
<1>1. SerialInv => FrameMatter
  <2> SUFFICES ASSUME NEW w \in Workers, ServesInv(w), At(Main, "matting"), ~Unbuildable(running_mode)
               PROVE  /\ running_matter = instance[running_mode]
                      /\ Live(running_matter)
                      /\ heap[running_matter].mode = running_mode
                      /\ heap[running_matter].setting = Setting(running_mode)
                      /\ \/ running_mode \notin PlateModes
                         \/ heap[running_matter].plate = clean_plate
                         \/ \E x \in Workers : Replacing(x, running_mode)
    BY DEF SerialInv, FrameMatter
  <2>1. ~In(w) /\ ~Inside(w) /\ ~Lost(w)
    BY WorkerAway
  <2>2. Ground(w) /\ Place(w) /\ Owned(w) /\ Sound(w) /\ running_mode \in Modes
    BY ServesGround DEF ServesInv, Ground, TypeOK
  <2>3. ~Busy(w) /\ ~Refused(running_mode)
    BY <2>1 DEF Busy, Unbuildable, Refused
  <2>4. instance[running_mode] # Null /\ running_matter = instance[running_mode]
    BY <2>1, <2>2, <2>3 DEF Sound, Linked
  <2>5. ~(pc[w] = "null" /\ req[w].mode = running_mode)
    BY <2>1, <2>2 DEF Place, InSection
  <2>6. ~Dirty(w, running_mode)
    BY <2>1, <2>2 DEF Dirty, Place, InSection, Inner, Reinits, In
  <2>7. Live(running_matter) /\ heap[running_matter].mode = running_mode
    BY <2>2, <2>4, <2>5 DEF Owned, Owners
  <2>8. FreshMode(w, running_mode)
    BY <2>1, <2>2 DEF Sound
  <2> QED
    BY <2>4, <2>5, <2>6, <2>7, <2>8 DEF FreshMode
<1> QED
  BY <1>1, SerialInvHolds, PTL

(* With requests one at a time every matter belongs to the one mode it was *)
(* built for: reinit_matter and get_matter neither leak one nor delete one *)
(* twice.                                                                  *)
THEOREM OwnershipKept == SerialSpec => []Ownership
<1>1. SerialInv => Ownership
  BY DEF SerialInv, ServesInv, Owned, Owners, Ownership
<1> QED
  BY <1>1, SerialInvHolds, PTL

(* With requests one at a time matter_mutex is lost only where             *)
(* update_clean_plate throws between lock() and unlock(), or by the frame  *)
(* loop on its way to exit().                                              *)
THEOREM LeaksExplained == SerialSpec => []LeakExplained
<1>1. SerialInv => LeakExplained
  <2> SUFFICES ASSUME NEW w \in Workers, ServesInv(w), NEW t \in Workers, Leaked(t)
               PROVE  Lost(w)
    BY ThreadsAssumption DEF SerialInv, ServesInv, LostInPlate, MainLost, LeakExplained
  <2> QED
    BY ThreadFacts DEF ServesInv, EngineInv, MutexInv, Leaked, Lost
<1> QED
  BY <1>1, SerialInvHolds, PTL

(* With requests one at a time no field of the mode that runs is written   *)
(* while a frame is matted, although update_config decides whether to lock *)
(* before it locks.                                                        *)
THEOREM ConfigsSteady == SerialSpec => ConfigSteady
<1>1. SerialInv /\ [Next /\ Serial']_vars
        => [At(Main, "matting") => config'[running_mode] = config[running_mode]]_vars
  <2> SUFFICES ASSUME SerialInv, At(Main, "matting"), Next /\ Serial'
               PROVE  config'[running_mode] = config[running_mode]
    OBVIOUS
  <2>0. PICK w \in Workers : ServesInv(w) /\ OneStep(w)
    BY WhoServes, TakesOver DEF SerialInv
  <2>1. ~In(w)
    BY <2>0, WorkerAway
  <2>2. Ground(w) /\ Place(w)
    BY <2>0, ServesGround DEF Ground
  <2>3. CASE WriteField(w)
    <3>1. req[w].mode # running_mode
      BY <2>1, <2>2, <2>3 DEF WriteField, Ready, At, Place, InSection, Inner, In, Out
    <3> QED
      BY <2>2, <2>3, <3>1, SoundTypes DEF WriteField
  <2>4. CASE ~WriteField(w)
    BY <2>0, <2>4 DEF OneStep, FrameLoop, StartFrame, Grab, Matted, EndLoop, Locking, Exit, Idles, manager,
           Receive, GetMode, SetMode, UpdateConfig, LoadConfigs, TakePlate, Shutdown,
           Handle, Enter, FinishGet, Assign, Fetch, Build, Delete, Nullify, Store, NextMode,
           RejectConfig, ConfigWritten, Pause, Roll, Resume, Unpause, Publish, Sweep
  <2> QED
    BY <2>3, <2>4
<1> QED
  BY <1>1, SerialInvHolds, PTL DEF SerialSpec, ConfigSteady
-----------------------------------------------------------------------------
(***************************************************************************)
(* With requests one at a time the engine implements MatterService: every  *)
(* step is one of the service, or changes nothing visible through it.      *)
(***************************************************************************)
(* What the service needs beside ServesInv: no mode is being renewed       *)
(* before the new plate is there, a matter was built from no value that is *)
(* refused, and the frame loop never uses the matter of another mode.      *)
Early(w) ==
  pc[w] \in {"pause", "lock_roll", "roll", "resume", "unpause", "publish"} => req[w].modes = {}

Accepted ==
  \A o \in Objects : Live(o) =>
    \A f \in DOMAIN heap[o].setting : heap[o].setting[f] \notin BadValues

RunsOwn == Live(running_matter) => heap[running_matter].mode = running_mode

LEMMA StepEarly ==
  ASSUME NEW w \in Workers, Ground(w), Early(w), OneStep(w)
  PROVE  Early(w)'
<1> USE ThreadFacts
<1>g. Place(w) /\ TypeOK
  BY DEF Ground
<1>q. ASSUME pc'[w] \notin {"pause", "lock_roll", "roll", "resume", "unpause", "publish"}
      PROVE  Early(w)'
  BY <1>q DEF Early
<1>1. CASE Idles \/ FrameLoop
  BY <1>1, <1>g DEF Idles, FrameLoop, StartFrame, Grab, Matted, EndLoop, Go, TypeOK, Early
<1>2. ASSUME NEW t \in {Main, w}, Locking(t) \/ Exit(t) PROVE Early(w)'
  BY <1>2 DEF Locking, Exit, Early
<1>3. CASE Receive(w)
  <2>1. CASE TakePlate(w)
    <3>1. req'[w] = Request("plate", InitialMode, NoWrites, {})
      BY <2>1, <1>g, SentTo DEF TakePlate
    <3> QED
      BY <3>1 DEF Request, Early
  <2>2. CASE ~TakePlate(w)
    <3>1. pc'[w] \in {"idle", "lock_get", "fetch", "lock_config", "config", "next"}
      BY <1>3, <2>2, <1>g, SentTo
         DEF Receive, GetMode, SetMode, UpdateConfig, LoadConfigs, Shutdown, Choose, At
    <3> QED
      BY <3>1, <1>q
  <2> QED
    BY <2>1, <2>2
<1>4. CASE Roll(w)
  <2>1. PICK p \in Grabs : req' = [req EXCEPT ![w].shot = p]
    BY <1>4 DEF Roll
  <2>2. req'[w].modes = req[w].modes /\ pc[w] = "roll"
    BY <1>4, <2>1, <1>g DEF TypeOK, Requests, Roll, At
  <2> QED
    BY <2>2 DEF Early
<1>5. CASE Pause(w) \/ Resume(w)
  BY <1>5 DEF Pause, Resume, Early, At
<1>6. CASE Unpause(w)
  BY <1>6, Section DEF Unpause, Early, At
<1>7. CASE Enter(w)
  <2>1. CASE pc[w] = "lock_roll"
    <3>1. \/ pc'[w] = "roll" /\ req' = req
          \/ pc'[w] = "idle"
      BY <1>7, <2>1, <1>g, SentTo DEF Enter, Target
    <3> QED
      BY <2>1, <3>1 DEF Early
  <2>2. CASE pc[w] # "lock_roll"
    <3>1. pc'[w] \in {"idle", "get", "assign", "config", "delete"}
      BY <1>7, <2>2, <1>g, SentTo DEF Enter, Target
    <3> QED
      BY <3>1, <1>q
  <2> QED
    BY <2>1, <2>2
<1>8. CASE Fetch(w) \/ Build(w) \/ RejectConfig(w)
  BY <1>8, ThrowIs, SentTo, <1>g, <1>q DEF Fetch, Build, RejectConfig
<1>9. CASE WriteField(w)
  BY <1>9, <1>q DEF WriteField, At
<1>10. CASE Delete(w) \/ Nullify(w) \/ Store(w) \/ ConfigWritten(w)
  BY <1>10, SentTo, <1>g, <1>q
     DEF Delete, Nullify, Store, ConfigWritten, GuardUnlocks, UpdateDone
<1>11. CASE FinishGet(w) \/ Assign(w) \/ NextMode(w) \/ Publish(w) \/ Sweep(w)
  BY <1>11, SentTo, <1>g, <1>q DEF FinishGet, Assign, NextMode, Choose, Publish, Sweep
<1> QED
  BY <1>1, <1>2, <1>3, <1>4, <1>5, <1>6, <1>7, <1>8, <1>9, <1>10, <1>11 DEF OneStep, Handle

\* The heap changes where a matter is built or deleted, and nowhere else.
LEMMA HeapSteps ==
  ASSUME NEW w \in Workers, OneStep(w)
  PROVE  Build(w) \/ Delete(w) \/ Assign(w) \/ Store(w)
           \/ UNCHANGED <<heap, running_matter, running_mode>>
  BY DEF OneStep, FrameLoop, StartFrame, Grab, Matted, EndLoop, Locking, Exit, Idles, manager,
         Receive, GetMode, SetMode, UpdateConfig, LoadConfigs, TakePlate, Shutdown, Handle, Enter,
         FinishGet, Fetch, Nullify, NextMode, RejectConfig, WriteField, ConfigWritten, Pause, Roll,
         Resume, Unpause, Publish, Sweep

\* A built matter was built from the configuration, with no value refused.
LEMMA BuiltMatter ==
  ASSUME NEW w \in Workers, Ground(w), Build(w), heap' # heap
  PROVE  \E o \in Objects \ Referenced :
           /\ heap'[o].setting = Setting(req[w].mode)
           /\ \A f \in Fields[req[w].mode] \ FrameFields : config[req[w].mode][f] \notin BadValues
           /\ \A x \in Objects : x # o => heap'[x] = heap[x]
           /\ UNCHANGED <<running_matter, running_mode>>
<1>g. heap \in [Objects -> Matters \cup {None}] /\ req[w].mode \in Modes
  BY SoundTypes
<1>1. PICK o \in Objects \ Referenced :
        heap' = [heap EXCEPT ![o] =
          [mode |-> req[w].mode, plate |-> clean_plate, setting |-> Setting(req[w].mode)]]
  BY DEF Build, manager
<1>2. /\ ~BadAmong(req[w].mode, (AllFields \ (FrameFields \cup CtorFields)) \cup CtorFields)
      /\ UNCHANGED <<running_matter, running_mode>>
  BY DEF Build, manager
<1>3. Fields[req[w].mode] \subseteq AllFields
  BY <1>g, ModesAssumption
<1> QED
  BY <1>1, <1>2, <1>3, <1>g DEF BadAmong

LEMMA StepAccepted ==
  ASSUME NEW w \in Workers, Ground(w), Accepted, OneStep(w)
  PROVE  Accepted'
<1>1. CASE UNCHANGED heap
  BY <1>1 DEF Accepted, Live
<1>2. CASE Delete(w)
  BY <1>2 DEF Delete, Accepted, Live
<1>3. CASE Build(w) /\ heap' # heap
  <2>1. PICK o \in Objects \ Referenced :
           /\ heap'[o].setting = Setting(req[w].mode)
           /\ \A f \in Fields[req[w].mode] \ FrameFields : config[req[w].mode][f] \notin BadValues
           /\ \A x \in Objects : x # o => heap'[x] = heap[x]
    BY <1>3, BuiltMatter
  <2>2. \A f \in DOMAIN heap'[o].setting : heap'[o].setting[f] \notin BadValues
    BY <2>1 DEF Setting
  <2> QED
    BY <2>1, <2>2 DEF Accepted, Live
<1> QED
  BY <1>1, <1>2, <1>3, HeapSteps DEF Assign, Store

LEMMA StepRunsOwn ==
  ASSUME NEW w \in Workers, Ground(w), Owned(w), Given(w), RunsOwn, OneStep(w)
  PROVE  RunsOwn'
<1>g. Place(w) /\ req[w].mode \in Modes /\ instance \in [Modes -> Objects \cup {Null}]
  BY SoundTypes
<1>1. CASE UNCHANGED <<heap, running_matter, running_mode>>
  BY <1>1 DEF RunsOwn, Live
<1>2. CASE Delete(w)
  BY <1>2 DEF Delete, RunsOwn, Live
<1>3. CASE Build(w) /\ heap' # heap
  <2>1. PICK o \in Objects \ Referenced :
           /\ \A x \in Objects : x # o => heap'[x] = heap[x]
           /\ UNCHANGED <<running_matter, running_mode>>
    BY <1>3, BuiltMatter
  <2>2. running_matter # o
    BY DEF Referenced
  <2> QED
    BY <2>1, <2>2 DEF RunsOwn, Live
<1>4. CASE Build(w) /\ heap' = heap
  BY <1>1, <1>4 DEF Build, manager
<1>5. CASE Assign(w) \/ Store(w)
  <2>1. /\ running_matter' = instance[req[w].mode] /\ instance[req[w].mode] # Null
        /\ running_mode' = req[w].mode /\ heap' = heap /\ pc[w] # "null"
    BY <1>5, <1>g DEF Assign, Store, At, Given, Place, InSection
  <2>2. heap[instance[req[w].mode]].mode = req[w].mode
    BY <2>1, <1>g DEF Owned, Owners
  <2> QED
    BY <2>1, <2>2 DEF RunsOwn
<1> QED
  BY <1>1, <1>2, <1>3, <1>4, <1>5, HeapSteps

\* The inductive invariant of the implementation proof.
ServiceInv(w) == ServesInv(w) /\ Early(w) /\ Accepted /\ RunsOwn

SerialServiceInv == \E w \in Workers : ServiceInv(w)

LEMMA StepService ==
  ASSUME SerialServiceInv, EngineInv', MainLost', [Next /\ Serial']_vars
  PROVE  \E w \in Workers : ServiceInv(w) /\ OneStep(w) /\ ServiceInv(w)'
<1>1. PICK v \in Workers : ServiceInv(v)
  BY DEF SerialServiceInv
<1>2. PICK w \in Workers : (w = v \/ Quiet(v)) /\ OneStep(w)
  BY <1>1, WhoServes DEF ServiceInv
<1>3. ServesInv(w)
  BY <1>1, <1>2, TakesOver DEF ServiceInv
<1>4. Early(w)
  BY <1>1, <1>2, <1>3 DEF ServiceInv, ServesInv, Alone, Quiet, Early
<1>5. Ground(w) /\ Owned(w) /\ Given(w) /\ ServesInv(w)'
  BY <1>2, <1>3, ServesGround, StepServes DEF ServesInv
<1>6. Early(w)' /\ Accepted' /\ RunsOwn'
  BY <1>1, <1>2, <1>4, <1>5, StepEarly, StepAccepted, StepRunsOwn DEF ServiceInv
<1> QED
  BY <1>1, <1>2, <1>3, <1>4, <1>5, <1>6 DEF ServiceInv

LEMMA ServiceInvHolds == SerialSpec => []SerialServiceInv
<1>1. ASSUME Init, NEW w \in Workers PROVE Early(w) /\ Accepted /\ RunsOwn
  <2> DEFINE first == [mode |-> InitialMode, plate |-> Empty, setting |-> Setting(InitialMode)]
  <2>1. pc[w] = "idle"
    BY <1>1, ThreadFacts DEF Init
  <2>2. first.mode = InitialMode /\ first.setting = Setting(InitialMode) /\ DOMAIN first.setting = {}
    BY ModesAssumption DEF Setting
  <2> HIDE DEF first
  <2>3. /\ running_mode = InitialMode
        /\ heap = [o \in Objects |-> IF o = running_matter THEN first ELSE None]
    BY <1>1 DEF Init, first
  <2> QED
    BY <2>1, <2>2, <2>3 DEF Early, Accepted, RunsOwn, Live
<1>2. Init => SerialServiceInv
  BY <1>1, InitServes, ThreadsAssumption DEF ServiceInv, SerialServiceInv
<1>3. SerialServiceInv /\ EngineInv' /\ MainLost' /\ [Next /\ Serial']_vars
        => SerialServiceInv'
  BY StepService DEF SerialServiceInv
<1> QED
  BY <1>2, <1>3, SerialIsSpec, EngineInvHolds, MainLostHolds, PTL DEF SerialSpec

\* Nobody but the worker that serves is replacing a matter.
LEMMA OneReplaces ==
  ASSUME NEW w \in Workers, Alone(w)
  PROVE  \A m : (\E x \in Workers : Replacing(x, m)) <=> Replacing(w, m)
  BY DEF Alone, Quiet, Replacing, NoRequest, Request

LEMMA OneReplacesNext ==
  ASSUME NEW w \in Workers, Alone(w)'
  PROVE  \A m : (\E x \in Workers : Replacing(x, m)') <=> Replacing(w, m)'
  BY DEF Alone, Quiet, Replacing, NoRequest, Request

\* The handler may be taking the plate a mode mats with away.
Drops(w, m) == Replacing(w, m) /\ ~Replacing(w, m)'

\* What the service has of the engine's state, but for the modes it renews.
Visible == <<running_mode, config, clean_plate, Frame>>

\* Modes get the new plate.
LEMMA AsRenew ==
  ASSUME NEW w \in Workers, Alone(w), Alone(w)', UNCHANGED Visible,
         \A m \in PlateModes : Replacing(w, m)' => Replacing(w, m),
         Frame = Null \/ \A m \in PlateModes : m = running_mode => ~Drops(w, m)
  PROVE  [Service!Next]_(Service!vars)
<1>1. Service!Renew
  BY OneReplaces, OneReplacesNext DEF Service!Renew, Visible, Drops
<1> QED
  BY <1>1 DEF Service!Next

\* Nothing happens that the service sees.
LEMMA AsStill ==
  ASSUME NEW w \in Workers, Alone(w), Alone(w)', UNCHANGED Visible,
         \A m \in PlateModes : Replacing(w, m)' = Replacing(w, m)
  PROVE  UNCHANGED Service!vars
  BY OneReplaces, OneReplacesNext DEF Service!vars, Visible

\* The modes the service still renews are those w is replacing.
LEMMA StillRenewing ==
  ASSUME NEW w \in Workers, Alone(w), Alone(w)',
         \A m \in PlateModes : Replacing(w, m)' = Replacing(w, m)
  PROVE  {m \in PlateModes : \E x \in Workers : Replacing(x, m)}'
           = {m \in PlateModes : \E x \in Workers : Replacing(x, m)}
  BY OneReplaces, OneReplacesNext

\* The frame loop mats no frame while the worker is in a section.
LEMMA FrameOut ==
  ASSUME NEW w \in Workers, ServesInv(w), In(w) \/ Lost(w)
  PROVE  Frame = Null
  BY WorkerAway DEF Frame

\* A frame is begun as the service says.
LEMMA AsBeginFrame ==
  ASSUME NEW w \in Workers, ServesInv(w), Alone(w)', TypeOK', FrameMatter',
         UNCHANGED <<manager, req>>, pc'[w] = pc[w], Frame = Null, At(Main, "matting")'
  PROVE  Service!BeginFrame
<1>1. Frame' # Null
  BY NoneAssumption, DataAssumption DEF TypeOK, Frame
<1>2. \A m \in PlateModes : Replacing(w, m)' = Replacing(w, m)
  BY DEF Replacing
<1>3. UNCHANGED <<running_mode, config, clean_plate>>
  BY DEF manager
<1>a. Alone(w) /\ Alone(w)'
  BY DEF ServesInv
<1>r. {m \in PlateModes : \E x \in Workers : Replacing(x, m)}'
        = {m \in PlateModes : \E x \in Workers : Replacing(x, m)}
  BY <1>2, <1>a, StillRenewing
<1>4. CASE Unbuildable(running_mode)
  <2>1. Service!Broken
    BY <1>4 DEF Unbuildable, Service!Broken, Service!Valid
  <2> QED
    BY <1>1, <1>3, <1>r, <2>1 DEF Service!BeginFrame
<1>5. CASE ~Unbuildable(running_mode)
  <2>1. /\ running_matter = instance[running_mode] /\ Live(running_matter)
        /\ heap[running_matter].mode = running_mode
        /\ heap[running_matter].setting = Setting(running_mode)
        /\ \/ running_mode \notin PlateModes
           \/ heap[running_matter].plate = clean_plate
           \/ Replacing(w, running_mode)
    BY <1>5, <1>2, <1>a, OneReplacesNext DEF FrameMatter, manager, Unbuildable, Live, Setting, Replacing
  <2>2. Frame' = heap[running_matter]
    BY <2>1 DEF Frame, Live, manager
  <2>3. heap[running_matter] \in Matters
    BY <2>1, LiveMode DEF ServesInv, EngineInv, Live
  <2>4. heap[running_matter]
          \in [mode : {running_mode}, setting : {Setting(running_mode)}, plate : Plates \cup {Empty}]
    BY <2>1, <2>3 DEF Matters
  <2>5. Service!Setting(running_mode) = Setting(running_mode)
    BY DEF Service!Setting, Setting
  <2> QED
    BY <1>1, <1>3, <1>a, <1>r, <2>1, <2>2, <2>4, <2>5, OneReplaces DEF Service!BeginFrame
<1> QED
  BY <1>4, <1>5

\* The frame loop begins and ends frames.
LEMMA ServiceFrames ==
  ASSUME NEW w \in Workers, ServiceInv(w), ServiceInv(w)', FrameMatter', FrameLoop
  PROVE  [Service!Next]_(Service!vars)
<1> USE ThreadFacts
<1>1. /\ UNCHANGED <<manager, process, req>> /\ pc'[w] = pc[w] /\ TypeOK /\ TypeOK' /\ ServesInv(w)
      /\ pc[Main] \in {"loop", "frame", "matting"}
  BY DEF FrameLoop, StartFrame, Grab, Matted, EndLoop, Go, At, ServiceInv, ServesInv, EngineInv, TypeOK
<1>2. \A m \in PlateModes : Replacing(w, m)' = Replacing(w, m)
  BY <1>1 DEF Replacing
<1>a. Alone(w) /\ Alone(w)'
  BY DEF ServiceInv, ServesInv
<1>r. {m \in PlateModes : \E x \in Workers : Replacing(x, m)}'
        = {m \in PlateModes : \E x \in Workers : Replacing(x, m)}
  BY <1>2, <1>a, StillRenewing
<1>3. CASE At(Main, "matting")
  <2>1. Frame # Null
    BY <1>1, <1>3, NoneAssumption, DataAssumption DEF TypeOK, Frame
  <2>2. pc'[Main] # "matting"
    BY <1>1, <1>3 DEF FrameLoop, StartFrame, Grab, Matted, EndLoop, Go, At, TypeOK
  <2>3. Frame' = Null
    BY <2>2 DEF Frame, At
  <2>4. Service!EndFrame
    BY <1>1, <1>r, <2>1, <2>3 DEF Service!EndFrame, manager
  <2> QED
    BY <2>4 DEF Service!Next
<1>4. CASE ~At(Main, "matting") /\ At(Main, "matting")'
  <2>1. Frame = Null
    BY <1>4 DEF Frame
  <2>2. Service!BeginFrame
    BY <1>1, <1>4, <1>a, <2>1, AsBeginFrame
  <2> QED
    BY <2>2 DEF Service!Next
<1>5. CASE ~At(Main, "matting") /\ ~At(Main, "matting")'
  <2>1. Frame = Null /\ Frame' = Null
    BY <1>5 DEF Frame
  <2>2. UNCHANGED Visible
    BY <1>1, <2>1 DEF Visible, manager
  <2> QED
    BY <1>2, <1>a, <2>2, AsStill
<1> QED
  BY <1>3, <1>4, <1>5

\* The steps of lock() and unlock() are not seen; exit() ends the frame.
LEMMA ServiceThreads ==
  ASSUME NEW w \in Workers, ServiceInv(w), Alone(w)', NEW t \in {Main, w}, Locking(t) \/ Exit(t)
  PROVE  [Service!Next]_(Service!vars)
<1>1. UNCHANGED <<manager, pc, req>> /\ TypeOK
  BY DEF Locking, Exit, ServiceInv, ServesInv, EngineInv
<1>2. \A m \in PlateModes : Replacing(w, m)' = Replacing(w, m)
  BY <1>1 DEF Replacing
<1>a. Alone(w) /\ Alone(w)'
  BY DEF ServiceInv, ServesInv
<1>r. {m \in PlateModes : \E x \in Workers : Replacing(x, m)}'
        = {m \in PlateModes : \E x \in Workers : Replacing(x, m)}
  BY <1>2, <1>a, StillRenewing
<1>3. CASE UNCHANGED up \/ ~At(Main, "matting")
  <2>1. Frame' = Frame
    BY <1>1, <1>3 DEF Frame, At, manager, Locking, Exit
  <2>2. UNCHANGED Visible
    BY <1>1, <2>1 DEF Visible, manager
  <2> QED
    BY <1>2, <1>a, <2>2, AsStill
<1>4. CASE ~UNCHANGED up /\ At(Main, "matting")
  <2>1. Frame # Null
    BY <1>1, <1>4, NoneAssumption, DataAssumption DEF TypeOK, Frame
  <2>2. Frame' = Null
    BY <1>4 DEF Frame, At, Exit, Locking, process
  <2>3. Service!EndFrame
    BY <1>1, <1>r, <2>1, <2>2 DEF Service!EndFrame, manager
  <2> QED
    BY <2>3 DEF Service!Next
<1> QED
  BY <1>3, <1>4

\* A step of the handler that leaves the matters alone.
LEMMA FrameKept ==
  ASSUME NEW w \in Workers, ServiceInv(w), Receive(w) \/ Handle(w),
         \/ Frame = Null
         \/ /\ UNCHANGED running_matter
            /\ running_matter \in Objects => heap'[running_matter] = heap[running_matter]
  PROVE  Frame' = Frame
<1>1. pc'[Main] = pc[Main] /\ up' = up
  BY WorkerStepsAlone, ThreadFacts
     DEF ServiceInv, ServesInv, EngineInv, Receive, GetMode, SetMode, UpdateConfig, LoadConfigs, TakePlate,
         Shutdown, Handle, Enter, FinishGet, Assign, Fetch, Build, Delete, Nullify, Store, NextMode,
         RejectConfig, WriteField, ConfigWritten, Pause, Roll, Resume, Unpause, Publish, Sweep, process
<1>2. TypeOK
  BY DEF ServiceInv, ServesInv, EngineInv
<1>3. CASE Frame = Null
  BY <1>1, <1>2, <1>3, NoneAssumption, DataAssumption DEF TypeOK, Frame, At
<1>4. CASE /\ UNCHANGED running_matter
           /\ running_matter \in Objects => heap'[running_matter] = heap[running_matter]
  BY <1>1, <1>4 DEF Frame, At
<1> QED
  BY <1>3, <1>4

\* A request received changes nothing yet.
LEMMA ServiceReceive ==
  ASSUME NEW w \in Workers, ServiceInv(w), Alone(w)', Receive(w)
  PROVE  [Service!Next]_(Service!vars)
<1>g. Place(w) /\ TypeOK /\ Alone(w)
  BY DEF ServiceInv, ServesInv, EngineInv
<1>1. UNCHANGED manager /\ pc[w] = "idle"
  BY DEF Receive, GetMode, SetMode, UpdateConfig, LoadConfigs, TakePlate, Shutdown, At, manager
<1>2. Frame' = Frame
  BY <1>1, FrameKept DEF manager
<1>3. UNCHANGED Visible
  BY <1>1, <1>2 DEF Visible, manager
<1>4. \A m \in PlateModes : ~Replacing(w, m)
  BY <1>1, <1>g DEF Replacing, Place, OpAt, NoRequest, Request
<1>5. \A m \in PlateModes : ~Replacing(w, m)'
  <2>1. CASE TakePlate(w)
    <3>1. pc'[w] = "pause" /\ req'[w] = Request("plate", InitialMode, NoWrites, {})
      BY <2>1, <1>g, SentTo DEF TakePlate
    <3> QED
      BY <3>1 DEF Replacing, Request
  <2>2. CASE Shutdown(w)
    BY <2>2, <1>4 DEF Shutdown, Replacing
  <2>3. CASE ~TakePlate(w) /\ ~Shutdown(w)
    <3>1. req'[w].op # "plate"
      BY <2>3, <1>g, SentTo
         DEF Receive, GetMode, SetMode, UpdateConfig, LoadConfigs, Choose, Request
    <3> QED
      BY <3>1 DEF Replacing
  <2> QED
    BY <2>1, <2>2, <2>3
<1>6. \A m \in PlateModes : Replacing(w, m)' = Replacing(w, m)
  BY <1>4, <1>5 DEF Replacing
<1> QED
  BY <1>3, <1>6, <1>g, AsStill

\* A step of the handler that changes nothing of the matters: at most some
\* modes are renewed, and not the running one while a frame is matted.
LEMMA ServiceQuiet ==
  ASSUME NEW w \in Workers, ServiceInv(w), Alone(w)', UNCHANGED manager,
         Handle(w), ~Publish(w), ~Delete(w), ~Nullify(w), ~Store(w), ~WriteField(w)
  PROVE  [Service!Next]_(Service!vars)
<1>g. Place(w) /\ TypeOK /\ ServesInv(w) /\ Ground(w) /\ Alone(w)
  BY DEF ServiceInv, ServesInv, EngineInv, Ground
<1>1. Frame' = Frame
  BY FrameKept DEF manager
<1>2. UNCHANGED Visible
  BY <1>1 DEF Visible, manager
<1>3. ASSUME \A m \in PlateModes : Replacing(w, m)' = Replacing(w, m)
      PROVE  [Service!Next]_(Service!vars)
  BY <1>2, <1>3, <1>g, AsStill
<1>4. ASSUME req[w].op # "plate", req'[w].op # "plate" PROVE [Service!Next]_(Service!vars)
  BY <1>3, <1>4 DEF Replacing
<1>5. ASSUME In(w) \/ Lost(w), req'[w].op # "plate" PROVE [Service!Next]_(Service!vars)
  <2>1. Frame = Null
    BY <1>5, <1>g, FrameOut
  <2>2. \A m \in PlateModes : Replacing(w, m)' => Replacing(w, m)
    BY <1>5 DEF Replacing
  <2> QED
    BY <1>2, <1>g, <2>1, <2>2, AsRenew
<1>6. ASSUME req'[w].op = req[w].op, req'[w].modes = req[w].modes,
             {pc[w], pc'[w]} \cap {"lock_delete", "delete"} = {} \/ req[w].op # "plate"
      PROVE  [Service!Next]_(Service!vars)
  BY <1>3, <1>6 DEF Replacing
<1>7. NoRequest.op # "plate"
  BY DEF NoRequest, Request
<1>8. CASE Enter(w)
  <2>1. CASE Go(w, Target[pc[w]]) /\ UNCHANGED req
    <3>1. pc'[w] = Target[pc[w]] /\ pc[w] \in DOMAIN Target
      BY <1>8, <2>1, <1>g, SentTo DEF Enter
    <3> QED
      BY <3>1, <2>1, <1>3 DEF Target, Replacing
  <2>2. CASE owns[ManagerLock] /\ Answer(w)
    BY <1>8, <2>2, <1>5, <1>7, <1>g, Section, SentTo DEF Enter
  <2> QED
    BY <1>8, <2>1, <2>2 DEF Enter
<1>9. CASE Throw(w) /\ (Fetch(w) \/ Build(w) \/ RejectConfig(w))
  <2>1. req'[w].op # "plate"
    BY <1>9, <1>7, <1>g, ThrowIs, SentTo
  <2>2. In(w) \/ req[w].op # "plate"
    BY <1>9, <1>g DEF Fetch, Build, RejectConfig, At, Place, OpAt, InSection
  <2> QED
    BY <2>1, <2>2, <1>4, <1>5
<1>10. CASE ~Throw(w) /\ (Fetch(w) \/ Build(w))
  <2>1. pc'[w] \notin {"lock_delete", "delete"} /\ pc[w] \in {"fetch", "build"}
    BY <1>10, <1>g, SentTo DEF Fetch, Build, At
  <2>2. req'[w].op = req[w].op /\ req'[w].modes = req[w].modes
    <3>1. CASE UNCHANGED req
      BY <3>1
    <3>2. ASSUME NEW o, req' = [req EXCEPT ![w].matter = o]
          PROVE  req'[w].op = req[w].op /\ req'[w].modes = req[w].modes
      BY <3>2, <1>g DEF TypeOK, Requests
    <3> QED
      BY <1>10, <3>1, <3>2 DEF Fetch, Build
  <2> QED
    BY <2>1, <2>2, <1>6
<1>11. CASE FinishGet(w) \/ Assign(w)
  BY <1>11, <1>5, <1>7, <1>g, SentTo DEF FinishGet, Assign
<1>12. CASE NextMode(w)
  <2>1. req[w].op # "plate" /\ req'[w].op # "plate"
    BY <1>12, <1>7, <1>g, SentTo DEF NextMode, At, Place, OpAt, Choose, Request
  <2> QED
    BY <2>1, <1>4
<1>13. CASE ConfigWritten(w)
  <2>1. req[w].op # "plate"
    BY <1>13, <1>g DEF ConfigWritten, At, Place, OpAt
  <2>2. req'[w] = req[w] \/ req'[w] = NoRequest
    BY <1>13, <1>g, SentTo DEF ConfigWritten, UpdateDone
  <2> QED
    BY <2>1, <2>2, <1>4, <1>7
<1>14. CASE Pause(w) \/ Roll(w) \/ Resume(w) \/ Unpause(w)
  <2>1. /\ pc'[w] \notin {"lock_delete", "delete"}
        /\ pc[w] \in {"pause", "roll", "resume", "unpause"}
    BY <1>14, <1>g, SentTo, Section DEF Pause, Roll, Resume, Unpause, At
  <2>2. req'[w].op = req[w].op /\ req'[w].modes = req[w].modes
    BY <1>14, <1>g, Section DEF Pause, Roll, Resume, Unpause, TypeOK, Requests
  <2> QED
    BY <2>1, <2>2, <1>6
<1>15. CASE Sweep(w)
  <2>1. CASE req[w].modes = {} /\ Answer(w)
    <3>1. pc[w] = "sweep" /\ req'[w].op # "plate"
      BY <1>15, <2>1, <1>7, <1>g, SentTo DEF Sweep, At
    <3> QED
      BY <3>1, <2>1, <1>3 DEF Replacing
  <2>2. ASSUME NEW m \in req[w].modes,
               req' = [req EXCEPT ![w] = Request("plate", m, NoWrites, req[w].modes \ {m})],
               Go(w, IF m = running_mode THEN "lock_delete" ELSE "delete")
        PROVE  [Service!Next]_(Service!vars)
    <3>1. /\ pc'[w] = IF m = running_mode THEN "lock_delete" ELSE "delete"
          /\ req'[w] = Request("plate", m, NoWrites, req[w].modes \ {m})
      BY <2>2, <1>g, SentTo
    <3>2. pc[w] = "sweep" /\ req[w].op = "plate"
      BY <1>15, <1>g DEF Sweep, At, Place, OpAt
    <3> QED
      BY <3>1, <3>2, <1>3 DEF Replacing, Request
  <2> QED
    BY <1>15, <2>1, <2>2 DEF Sweep
<1> QED
  BY <1>8, <1>9, <1>10, <1>11, <1>12, <1>13, <1>14, <1>15 DEF Handle, RejectConfig

\* The values a handler has left to write are of fields the mode has.
LEMMA WriteTypes ==
  ASSUME TypeOK, NEW w \in Workers, req[w].writes # None, NEW f \in DOMAIN req[w].writes
  PROVE  req[w].mode \in Modes /\ f \in Fields[req[w].mode] /\ req[w].writes[f] \in Values
  BY DEF TypeOK, Requests, Updates

\* update_config writes no field of a mode that mats a frame.
LEMMA ServiceWriteField ==
  ASSUME NEW w \in Workers, ServiceInv(w), Alone(w)', WriteField(w)
  PROVE  [Service!Next]_(Service!vars)
<1>g. Place(w) /\ TypeOK /\ ServesInv(w) /\ Ground(w)
  BY DEF ServiceInv, ServesInv, EngineInv, Ground
<1>1. /\ pc[w] = "config" /\ pc' = pc /\ req[w].writes # None
      /\ UNCHANGED <<running_matter, running_mode, clean_plate, heap>>
  BY DEF WriteField, At
<1>2. PICK f \in DOMAIN req[w].writes :
        config' = [config EXCEPT ![req[w].mode][f] = req[w].writes[f]]
  BY DEF WriteField
<1>3. req[w].op # "plate" /\ req'[w].op # "plate"
  <2>1. req[w].op # "plate"
    BY <1>1, <1>g DEF Place, OpAt
  <2>2. req'[w].op = req[w].op
    BY <1>g DEF WriteField, TypeOK, Requests
  <2> QED
    BY <2>1, <2>2
<1>4. \A m \in PlateModes : ~Replacing(w, m) /\ ~Replacing(w, m)'
  BY <1>3 DEF Replacing
<1>5. Frame' = Frame
  BY <1>1, FrameKept DEF Handle
<1>6. Frame # Null => req[w].mode # running_mode
  BY <1>1, <1>g, FrameOut DEF WriteField, Ready, Place, InSection, Inner, In, Out
<1>7. /\ req[w].mode \in Modes /\ f \in Fields[req[w].mode]
      /\ req[w].writes[f] \in Values
  BY <1>g, <1>1, <1>2, WriteTypes
<1>8. {m \in PlateModes : \E x \in Workers : Replacing(x, m)}'
        = {m \in PlateModes : \E x \in Workers : Replacing(x, m)}
  BY <1>4, OneReplaces, OneReplacesNext DEF ServiceInv, ServesInv
<1>9. Service!WriteField
  BY <1>1, <1>2, <1>5, <1>6, <1>7, <1>8 DEF Service!WriteField
<1> QED
  BY <1>9 DEF Service!Next

\* The new plate is there before any mode gets it.
LEMMA ServicePublish ==
  ASSUME NEW w \in Workers, ServiceInv(w), Alone(w)', Publish(w)
  PROVE  [Service!Next]_(Service!vars)
<1>g. Place(w) /\ TypeOK /\ Early(w)
  BY DEF ServiceInv, ServesInv, EngineInv
<1>1. /\ pc[w] = "publish" /\ UNCHANGED <<running_matter, running_mode, config, heap>>
      /\ clean_plate' \in Plates \cup {Empty}
  BY <1>g DEF Publish, At, TypeOK, Requests
<1>2. req'[w] = Request("plate", InitialMode, NoWrites, PlateModes)
  BY <1>g, SentTo DEF Publish
<1>3. \A m \in PlateModes : ~Replacing(w, m) /\ Replacing(w, m)'
  BY <1>1, <1>2, <1>g DEF Replacing, Early, Request
<1>4. Frame' = Frame
  BY <1>1, FrameKept DEF Handle
<1>5. /\ {m \in PlateModes : \E x \in Workers : Replacing(x, m)} = {}
      /\ {m \in PlateModes : \E x \in Workers : Replacing(x, m)}' = PlateModes
  BY <1>3, OneReplaces, OneReplacesNext DEF ServiceInv, ServesInv
<1>6. Service!NewPlate
  BY <1>1, <1>4, <1>5 DEF Service!NewPlate
<1> QED
  BY <1>6 DEF Service!Next

\* Steps of reinit_matter and get_matter.
LEMMA ServiceMatters ==
  ASSUME NEW w \in Workers, ServiceInv(w), Alone(w)', Build(w) \/ Delete(w) \/ Nullify(w) \/ Store(w)
  PROVE  [Service!Next]_(Service!vars)
<1>g. /\ Place(w) /\ TypeOK /\ ServesInv(w) /\ Ground(w) /\ req[w].mode \in Modes /\ Alone(w)
      /\ instance \in [Modes -> Objects \cup {Null}]
  BY SoundTypes DEF ServiceInv, ServesInv, EngineInv, Ground
<1>1. UNCHANGED <<running_mode, config, clean_plate>>
  BY DEF Build, Delete, Nullify, Store, manager
<1>2. CASE Build(w) /\ UNCHANGED manager
  BY <1>2, ServiceQuiet DEF Handle, Build, Publish, Delete, Nullify, Store, WriteField, At
<1>3. CASE Build(w) /\ ~UNCHANGED manager
  <2>1. PICK o \in Objects \ Referenced :
          /\ heap' = [heap EXCEPT ![o] =
               [mode |-> req[w].mode, plate |-> clean_plate, setting |-> Setting(req[w].mode)]]
          /\ req' = [req EXCEPT ![w].matter = o]
          /\ Go(w, IF req[w].op = "set" THEN "lock_assign" ELSE "store")
          /\ UNCHANGED running_matter
    BY <1>3 DEF Build
  <2>2. running_matter # o
    BY DEF Referenced
  <2>3. Frame' = Frame
    BY <1>3, <1>g, <2>1, <2>2, FrameKept DEF Handle, TypeOK
  <2>4. pc'[w] \notin {"lock_delete", "delete"} /\ pc[w] = "build"
    BY <1>3, <2>1, <1>g, SentTo DEF Build, At
  <2>5. req'[w].op = req[w].op /\ req'[w].modes = req[w].modes
    BY <2>1, <1>g DEF TypeOK, Requests
  <2>6. \A m \in PlateModes : Replacing(w, m)' = Replacing(w, m)
    BY <2>4, <2>5 DEF Replacing
  <2> QED
    BY <1>1, <1>g, <2>3, <2>6, AsStill DEF Visible
<1>4. CASE Delete(w) \/ Nullify(w) \/ Store(w)
  <2>1. /\ pc[w] \in {"delete", "null", "store"} /\ pc'[w] \notin {"lock_delete", "delete"}
        /\ req'[w] = req[w] \/ (req'[w] = NoRequest /\ req[w].op # "plate")
    <3>1. CASE Delete(w) \/ Nullify(w)
      BY <3>1, <1>g, SentTo DEF Delete, Nullify, UpdateDone, At
    <3>2. CASE Store(w)
      BY <3>2, <1>g, SentTo, Section DEF Store, GuardUnlocks, UpdateDone, At
    <3> QED
      BY <1>4, <3>1, <3>2
  <2>2. \A m \in PlateModes : Replacing(w, m)' => Replacing(w, m)
    BY <2>1 DEF Replacing, NoRequest, Request
  <2>3. \A m \in PlateModes : Drops(w, m) => m = req[w].mode /\ pc[w] = "delete"
    BY <2>1 DEF Drops, Replacing, NoRequest, Request
  <2>4. CASE In(w)
    <3>1. Frame = Null
      BY <2>4, <1>g, FrameOut
    <3>2. Frame' = Frame
      BY <3>1, <1>4, FrameKept DEF Handle
    <3> QED
      BY <1>1, <1>g, <2>2, <3>1, <3>2, AsRenew DEF Visible
  <2>5. CASE ~In(w)
    <3>1. req[w].mode # running_mode /\ ~Store(w)
      BY <2>5, <1>4, <2>1, <1>g
         DEF Delete, Nullify, Store, Ready, Out, In, At, Place, InSection, Inner
    <3>2. UNCHANGED running_matter
      BY <1>4, <3>1 DEF Delete, Nullify
    <3>3. running_matter \in Objects => heap'[running_matter] = heap[running_matter]
      <4>1. CASE Nullify(w)
        BY <4>1 DEF Nullify
      <4>2. CASE Delete(w)
        <5> SUFFICES ASSUME running_matter \in Objects, heap'[running_matter] # heap[running_matter]
                     PROVE  FALSE
          OBVIOUS
        <5>1. running_matter = instance[req[w].mode] /\ Live(running_matter)
          BY <4>2 DEF Delete, Live
        <5>2. heap[running_matter].mode = running_mode
          BY <5>1 DEF ServiceInv, RunsOwn
        <5>3. instance[running_mode] = running_matter
          BY <5>1, <5>2, <1>g DEF ServesInv, Owned, Owners
        <5>4. heap[running_matter].mode = req[w].mode
          BY <4>2, <5>1, <1>g, DataAssumption DEF Delete, At, ServesInv, Owned, Owners
        <5> QED
          BY <5>2, <5>4, <3>1
      <4> QED
        BY <1>4, <3>1, <4>1, <4>2
    <3>4. Frame' = Frame
      BY <1>4, <3>2, <3>3, FrameKept DEF Handle
    <3>5. \A m \in PlateModes : m = running_mode => ~Drops(w, m)
      BY <2>3, <3>1
    <3> QED
      BY <1>1, <1>g, <2>2, <3>4, <3>5, AsRenew DEF Visible
  <2> QED
    BY <2>4, <2>5
<1> QED
  BY <1>2, <1>3, <1>4

\* The mode is exchanged between two frames.
LEMMA ServiceAssign ==
  ASSUME NEW w \in Workers, ServiceInv(w), Alone(w)', Assign(w)
  PROVE  [Service!Next]_(Service!vars)
<1>g. /\ Place(w) /\ TypeOK /\ ServesInv(w) /\ Ground(w) /\ Owned(w) /\ Sound(w) /\ Given(w)
      /\ Accepted /\ req[w].mode \in Modes /\ instance \in [Modes -> Objects \cup {Null}]
  BY SoundTypes DEF ServiceInv, ServesInv, EngineInv, Ground
<1>1. /\ pc[w] = "assign" /\ In(w) /\ running_mode' = req[w].mode /\ req'[w] = NoRequest
      /\ UNCHANGED <<clean_plate, instance, config, heap>>
  BY <1>g, SentTo DEF Assign, At
<1>2. Frame = Null /\ Frame' = Null
  BY <1>1, <1>g, FrameOut, FrameKept DEF Handle
<1>3. req[w].op # "plate" /\ req'[w].op # "plate" /\ instance[req[w].mode] # Null
  BY <1>1, <1>g DEF Place, OpAt, Given, NoRequest, Request
<1>4. \A m \in PlateModes : ~Replacing(w, m) /\ ~Replacing(w, m)'
  BY <1>3 DEF Replacing
<1>5. {m \in PlateModes : \E x \in Workers : Replacing(x, m)}'
        = {m \in PlateModes : \E x \in Workers : Replacing(x, m)}
  BY <1>4, OneReplaces, OneReplacesNext DEF ServiceInv, ServesInv
<1>6. Live(instance[req[w].mode]) /\ instance[req[w].mode] \in Objects
  BY <1>1, <1>3, <1>g DEF Owned, Owners
<1>7. heap[instance[req[w].mode]].setting = Setting(req[w].mode)
  BY <1>1, <1>3, <1>g, Section DEF Sound, FreshMode, Dirty
<1>8. \A f \in Fields[req[w].mode] \ FrameFields : config[req[w].mode][f] \notin BadValues
  BY <1>6, <1>7, <1>g DEF Accepted, Setting
<1>9. Service!SetMode
  BY <1>1, <1>2, <1>5, <1>8, <1>g DEF Service!SetMode, Service!Valid
<1> QED
  BY <1>9 DEF Service!Next

LEMMA ServiceStep ==
  ASSUME NEW w \in Workers, ServiceInv(w), ServiceInv(w)', FrameMatter', OneStep(w)
  PROVE  [Service!Next]_(Service!vars)
<1>a. Alone(w) /\ Alone(w)'
  BY DEF ServiceInv, ServesInv
<1>1. CASE Idles
  <2>1. UNCHANGED Visible
    BY <1>1 DEF Idles, manager, Visible, Frame, At
  <2>2. \A m \in PlateModes : Replacing(w, m)' = Replacing(w, m)
    BY <1>1 DEF Idles, Replacing
  <2> QED
    BY <1>a, <2>1, <2>2, AsStill
<1>2. CASE FrameLoop
  BY <1>2, ServiceFrames
<1>3. ASSUME NEW t \in {Main, w}, Locking(t) \/ Exit(t) PROVE [Service!Next]_(Service!vars)
  BY <1>3, <1>a, ServiceThreads
<1>4. CASE Receive(w)
  BY <1>4, <1>a, ServiceReceive
<1>5. CASE Handle(w)
  <2>1. CASE Publish(w) \/ WriteField(w) \/ Assign(w) \/ Build(w) \/ Delete(w) \/ Nullify(w) \/ Store(w)
    BY <2>1, <1>a, ServicePublish, ServiceWriteField, ServiceAssign, ServiceMatters
  <2>2. CASE ~(Publish(w) \/ WriteField(w) \/ Assign(w) \/ Build(w) \/ Delete(w) \/ Nullify(w) \/ Store(w))
    <3>1. UNCHANGED manager
      BY <1>5, <2>2
         DEF Handle, Enter, FinishGet, Fetch, NextMode, RejectConfig, ConfigWritten, Pause, Roll,
             Resume, Unpause, Sweep, manager
    <3> QED
      BY <1>5, <1>a, <2>2, <3>1, ServiceQuiet
  <2> QED
    BY <2>1, <2>2
<1> QED
  BY <1>1, <1>2, <1>3, <1>4, <1>5 DEF OneStep

LEMMA ServiceStart ==
  ASSUME Init PROVE Service!Init
<1>1. running_mode = InitialMode /\ clean_plate = Empty
      /\ config = [m \in Modes |-> [f \in Fields[m] |-> DefaultValue]]
  BY DEF Init
<1>2. pc[Main] = "loop" /\ \A w \in Workers : req[w] = NoRequest
  BY ThreadFacts DEF Init
<1>3. Frame = Null
  BY <1>2 DEF Frame, At
<1>4. {m \in PlateModes : \E x \in Workers : Replacing(x, m)} = {}
  BY <1>2 DEF Replacing, NoRequest, Request
<1> QED
  BY <1>1, <1>3, <1>4 DEF Service!Init

(* With requests one at a time the engine implements MatterService, for    *)
(* any workers: locks, pointers and instances are not to be seen, and each *)
(* frame is matted from its beginning to its end as the mode, the          *)
(* configuration and the plate said at its beginning.                      *)
THEOREM ServiceImplemented == SerialSpec => ServiceSpec
<1>1. Init => Service!Init
  BY ServiceStart
<1>2. SerialServiceInv /\ EngineInv' /\ MainLost' /\ FrameMatter' /\ [Next /\ Serial']_vars
        => [Service!Next]_(Service!vars)
  BY StepService, ServiceStep
<1> QED
  BY <1>1, <1>2, SerialIsSpec, FramesMatted, ServiceInvHolds, EngineInvHolds, MainLostHolds, PTL
     DEF SerialSpec, ServiceSpec, Service!Spec
=============================================================================
