-------------------------- MODULE LifecycleProofs --------------------------
(* Theorems about the lifecycle, for any workers, signals and processes.   *)
EXTENDS Lifecycle, TLAPS

LEMMA OrderFacts ==
  /\ Len(Order) = 6
  /\ \A i \in 1 .. 6 : Order[i] \in Parts
  /\ Order[2] = "server" /\ Order[3] = "server_thread"
  /\ \A i \in 1 .. 6 : Order[i] = "server" => i = 2
  /\ \A i \in 1 .. 6 : Order[i] = "server_thread" => i = 3
  /\ \A i \in 1 .. 6 : Order[i] \in Cameras => i > 3
  /\ \A p \in Parts : \E i \in 1 .. 6 : Order[i] = p
<1>1. /\ Order[1] = "controls" /\ Order[2] = "server" /\ Order[3] = "server_thread"
      /\ Order[4] = "input" /\ Order[5] = "output" /\ Order[6] = "preview"
      /\ Len(Order) = 6
  BY DEF Order
<1>2. \A i \in 1 .. 6 : i = 1 \/ i = 2 \/ i = 3 \/ i = 4 \/ i = 5 \/ i = 6
  OBVIOUS
<1>3. \A i \in 1 .. 6 : Order[i] \in Parts
  BY <1>1, <1>2 DEF Parts, Cameras
<1>4. \A i \in 1 .. 6 : Order[i] = "server" => i = 2
  BY <1>1, <1>2
<1>5. \A i \in 1 .. 6 : Order[i] = "server_thread" => i = 3
  BY <1>1, <1>2
<1>6. \A i \in 1 .. 6 : Order[i] \in Cameras => i > 3
  BY <1>1, <1>2 DEF Cameras
<1>7. \A p \in Parts : \E i \in 1 .. 6 : Order[i] = p
  BY <1>1 DEF Parts, Cameras
<1> QED
  BY <1>1, <1>3, <1>4, <1>5, <1>6, <1>7

StopPlaces == {"rtest", "rclear", "rkill", "rwait"}

(* Where a thread is, by the part its cleanup is at: the types of place    *)
(* and of the parts rest on it.                                            *)
Placed ==
  \A t \in Threads :
    /\ pc[t] \in {"construct", "loop", "idle", "flag", "pid"} => place[t] = 0
    /\ pc[t] \in {"test", "act", "join", "null"} => place[t] \in 1 .. 6
    /\ pc[t] = "join" => place[t] = 3
    /\ pc[t] = "exit" => place[t] = 7
    /\ pc[t] \in StopPlaces => place[t] \in {0, 2}
    /\ pc[t] \in {"act", "join", "null"} \cup StopPlaces /\ place[t] # 0
         => Part(t) \in registered

PointersRegistered == \A p \in Parts : pointer[p] => p \in registered

TypeInv == TypeOK /\ Placed /\ PointersRegistered

LEMMA InitTyped == Init => TypeInv
<1> SUFFICES ASSUME Init PROVE TypeInv
  OBVIOUS
<1>1. \A t \in Threads : pc[t] \in {"construct", "idle"} /\ place[t] = 0
  BY DEF Init
<1>2. pc \in [Threads -> Steps] /\ place \in [Threads -> 0 .. Len(Order) + 1]
  BY OrderFacts DEF Init, Steps
<1>3. faulted \subseteq Threads \X {"SIGSEGV", "SIGABRT"} /\ signals \in 0 .. MaxSignals
  BY LifecycleAssumption DEF Init
<1>4. TypeOK
  BY <1>2, <1>3 DEF Init, TypeOK, Children
<1>5. Placed
  BY <1>1 DEF Placed, StopPlaces
<1>6. PointersRegistered
  BY DEF Init, PointersRegistered
<1> QED
  BY <1>4, <1>5, <1>6 DEF TypeInv

\* Beginning a cleanup, for whatever reason, keeps a thread well placed.
LEMMA BeginTyped ==
  ASSUME NEW t \in Threads, TypeInv, Begin(t),
         UNCHANGED <<parts, server, joiner, recorder>>,
         signals' \in 0 .. MaxSignals,
         faulted' \subseteq Threads \X {"SIGSEGV", "SIGABRT"},
         up' \in BOOLEAN, exited' \in BOOLEAN
  PROVE  TypeInv'
<1>7. pc \in [Threads -> Steps] /\ place \in [Threads -> 0 .. Len(Order) + 1]
  BY DEF TypeInv, TypeOK
<1>1. /\ pc'[t] = "test" /\ place'[t] = 1
      /\ \A s \in Threads : s # t => pc'[s] = pc[s] /\ place'[s] = place[s]
  BY <1>7 DEF Begin
<1>2. pc' \in [Threads -> Steps] /\ place' \in [Threads -> 0 .. Len(Order) + 1]
  BY <1>7, OrderFacts DEF Begin, Steps
<1>3. /\ registered' = registered /\ stopped' = stopped /\ late' = late
      /\ pointer' = pointer /\ server' = server /\ joiner' = joiner
      /\ recording' = recording /\ recording_pid' = recording_pid
      /\ child' = child /\ forked' = forked
  BY DEF parts, recorder
<1>4. TypeOK'
  BY <1>2, <1>3 DEF TypeInv, TypeOK
<1>5. Placed'
  BY <1>1, <1>3 DEF TypeInv, Placed, Part, StopPlaces
<1>6. PointersRegistered'
  BY <1>3 DEF TypeInv, PointersRegistered
<1> QED
  BY <1>4, <1>5, <1>6 DEF TypeInv

LEMMA FaultTyped ==
  ASSUME NEW t \in Threads, NEW k \in {"SIGSEGV", "SIGABRT"}, TypeInv, Fault(t, k)
  PROVE  TypeInv'
<1>1. CASE up' = FALSE /\ UNCHANGED <<faulted, thread>>
  BY <1>1 DEF Fault, TypeInv, TypeOK, Placed, PointersRegistered, Part, parts,
              recorder, thread
<1>2. CASE faulted' = faulted \cup {<<t, k>>} /\ Begin(t) /\ UNCHANGED up
  <2>1. /\ faulted' = faulted \cup {<<t, k>>} /\ Begin(t) /\ UNCHANGED up
        /\ UNCHANGED <<parts, server, joiner, recorder, signals, exited>>
    BY <1>2 DEF Fault
  <2>2. /\ faulted' \subseteq Threads \X {"SIGSEGV", "SIGABRT"}
        /\ signals' \in 0 .. MaxSignals /\ up' \in BOOLEAN /\ exited' \in BOOLEAN
    BY <2>1 DEF TypeInv, TypeOK
  <2> QED
    BY <2>1, <2>2, BeginTyped
<1> QED
  BY <1>1, <1>2 DEF Fault

LEMMA CleanTyped ==
  ASSUME NEW t \in Threads, TypeInv, Clean(t)
  PROVE  TypeInv'
<1> USE OrderFacts DEF TypeInv, TypeOK, Placed, PointersRegistered, StopPlaces,
                       Steps, At, Go, Part, recorder, ending
<1>1. CASE Test(t)
  BY <1>1 DEF Test, NextPart, parts
<1>2. CASE Act(t)
  BY <1>2 DEF Act
<1>3. CASE StalePointer(t)
  BY <1>3, FaultTyped DEF StalePointer
<1>4. CASE Join(t)
  <2>1. CASE joiner # Nobody /\ Fault(t, "SIGABRT")
    BY <2>1, FaultTyped
  <2>2. CASE joiner' = t /\ Go(t, "join") /\ UNCHANGED <<parts, server, recorder, place, ending>>
    BY <1>4, <2>2 DEF Join, parts
  <2> QED
    BY <1>4, <2>1, <2>2 DEF Join
<1>5. CASE Joined(t)
  BY <1>5 DEF Joined
<1>6. CASE Forget(t)
  BY <1>6 DEF Forget, NextPart
<1>7. CASE Exit(t)
  BY <1>7 DEF Exit, parts, thread
<1> QED
  BY <1>1, <1>2, <1>3, <1>4, <1>5, <1>6, <1>7 DEF Clean

LEMMA StepTyped == TypeInv /\ [Next]_vars => TypeInv'
<1> SUFFICES ASSUME TypeInv, [Next]_vars PROVE TypeInv'
  OBVIOUS
<1> USE LifecycleAssumption, OrderFacts
    DEF TypeInv, TypeOK, Placed, PointersRegistered, StopPlaces, Steps, At, Go,
        Part, parts, recorder, thread, ending
<1>1. CASE UNCHANGED vars
  BY <1>1 DEF vars
<1>2. CASE StartServer
  BY <1>2 DEF StartServer, Makes, Threads
<1>3. ASSUME NEW p \in Parts, Register(p) PROVE TypeInv'
  <2>1. pc' = pc \/ pc' = [pc EXCEPT ![Main] = "loop"]
    BY <1>3 DEF Register, Makes
  <2>2. pc[Main] = "construct" /\ Main \in Threads
    BY <1>3 DEF Register, Makes, Threads
  <2>3. Placed'
    BY <1>3, <2>1, <2>2 DEF Register
  <2>4. TypeOK' /\ PointersRegistered'
    BY <1>3, <2>1, <2>2 DEF Register
  <2> QED
    BY <2>3, <2>4
<1>4. CASE EndLoop
  BY <1>4, BeginTyped DEF EndLoop, Threads
<1>5. CASE ServerEnds
  BY <1>5 DEF ServerEnds
<1>6. ASSUME NEW t \in Threads, Signal(t) PROVE TypeInv'
  <2>1. signals' \in 0 .. MaxSignals
    BY <1>6 DEF Signal
  <2> QED
    BY <1>6, <2>1, BeginTyped DEF Signal
<1>7. ASSUME NEW t \in Threads, Clean(t) PROVE TypeInv'
  BY <1>7, CleanTyped
<1>8. ASSUME NEW t \in Threads, StopSteps(t) PROVE TypeInv'
  <2>1. CASE TestRecording(t)
    BY <2>1 DEF TestRecording, AfterRecording, Cleaning
  <2>2. CASE ClearRecording(t)
    BY <2>2 DEF ClearRecording
  <2>3. CASE Kill(t)
    BY <2>3 DEF Kill, Children
  <2>4. CASE Wait(t)
    BY <2>4 DEF Wait, AfterRecording, Cleaning, Children
  <2> QED
    BY <1>8, <2>1, <2>2, <2>3, <2>4 DEF StopSteps
<1>9. ASSUME NEW w \in Workers, StartRecording(w) \/ StopRecording(w) \/ StartSteps(w)
      PROVE  TypeInv'
  <2> USE DEF Threads
  <2>1. CASE StartRecording(w)
    BY <2>1 DEF StartRecording, Children
  <2>2. CASE StopRecording(w)
    BY <2>2 DEF StopRecording
  <2>3. CASE StartSteps(w)
    <3>1. CASE SetFlag(w)
      BY <3>1 DEF SetFlag
    <3>2. CASE SetPid(w)
      BY <3>2 DEF SetPid
    <3> QED
      BY <2>3, <3>1, <3>2 DEF StartSteps
  <2> QED
    BY <1>9, <2>1, <2>2, <2>3
<1>10. ASSUME NEW i \in Pids, ChildEnds(i) PROVE TypeInv'
  BY <1>10 DEF ChildEnds, Children
<1> QED
  BY <1>1, <1>2, <1>3, <1>4, <1>5, <1>6, <1>7, <1>8, <1>9, <1>10 DEF Next, Construct

LEMMA TypeInvHolds == Spec => []TypeInv
  BY InitTyped, StepTyped, PTL DEF Spec

(* The state keeps its types: only registered parts are stopped, and a     *)
(* cleanup, however often it is entered again, stays within its parts.     *)
THEOREM LifecycleTypes == Spec => []TypeOK
<1>1. TypeInv => TypeOK
  BY DEF TypeInv
<1> QED
  BY <1>1, TypeInvHolds, PTL
-----------------------------------------------------------------------------
Required == registered \ late

(* Why a cleanup may skip a part whose pointer is null: it was stopped     *)
(* first.  The rest says what a thread that is at part i has behind it,    *)
(* that stopping began with a cleanup, which never leaves its place but    *)
(* to begin again, and that a joined server has ended.                     *)
Forgotten == \A p \in registered : pointer[p] \/ p \in stopped
Passed ==
  \A t \in Threads :
    /\ \A i \in 1 .. 6 : i < place[t] /\ Order[i] \in Required => Order[i] \in stopped
    /\ pc[t] = "null" => Part(t) \in stopped
StoppedByCleanup == stopped # {} => \E t \in Threads : Cleaning(t)
ServerJoined == "server_thread" \in stopped => server = "ended"
CamerasLast ==
  stopped \cap Cameras # {} /\ "server_thread" \in Required
    => "server_thread" \in stopped
ExitIsLast == exited => ~up /\ Required \subseteq stopped

CleanInv == Forgotten /\ Passed /\ StoppedByCleanup /\ ServerJoined
              /\ CamerasLast /\ ExitIsLast

LEMMA InitClean == Init => CleanInv
<1> SUFFICES ASSUME Init PROVE CleanInv
  OBVIOUS
<1>1. \A t \in Threads : pc[t] # "null" /\ place[t] = 0
  BY DEF Init
<1> QED
  BY <1>1 DEF Init, CleanInv, Forgotten, Passed, StoppedByCleanup, ServerJoined,
              CamerasLast, ExitIsLast

\* Steps that stop and register nothing, and move no thread to a later part.
LEMMA QuietClean ==
  ASSUME TypeInv, CleanInv, up,
         UNCHANGED <<parts, exited>>,
         server' = server \/ (server = "ending" /\ server' = "ended"),
         \A t \in Threads :
           /\ place'[t] = place[t] \/ (place'[t] = 1 /\ place[t] <= 7)
           /\ pc'[t] = "null" => pc[t] = "null" /\ place'[t] = place[t]
  PROVE  CleanInv'
<1>1. /\ registered' = registered /\ stopped' = stopped /\ late' = late
      /\ pointer' = pointer /\ exited' = exited
  BY DEF parts
<1>2. Forgotten'
  BY <1>1 DEF CleanInv, Forgotten
<1>3. Passed'
  BY <1>1 DEF CleanInv, Passed, Required, Part
<1>4. StoppedByCleanup'
  BY <1>1 DEF CleanInv, StoppedByCleanup, Cleaning
<1>5. ServerJoined'
  BY <1>1 DEF CleanInv, ServerJoined
<1>6. CamerasLast' /\ ExitIsLast'
  BY <1>1 DEF CleanInv, CamerasLast, ExitIsLast, Required
<1> QED
  BY <1>2, <1>3, <1>4, <1>5, <1>6 DEF CleanInv

\* A cleanup that begins, or a fault, is such a step.
LEMMA BeginClean ==
  ASSUME NEW t \in Threads, TypeInv, CleanInv, up, Begin(t),
         UNCHANGED <<parts, server, exited>>
  PROVE  CleanInv'
<1>1. pc \in [Threads -> Steps] /\ place \in [Threads -> 0 .. 7]
  BY OrderFacts DEF TypeInv, TypeOK
<1>2. \A s \in Threads :
        /\ place'[s] = place[s] \/ (place'[s] = 1 /\ place[s] <= 7)
        /\ pc'[s] = "null" => pc[s] = "null" /\ place'[s] = place[s]
  BY <1>1 DEF Begin
<1> QED
  BY <1>2, QuietClean

LEMMA FaultClean ==
  ASSUME NEW t \in Threads, NEW k, TypeInv, CleanInv, up, Fault(t, k)
  PROVE  CleanInv'
<1>1. CASE UNCHANGED thread
  BY <1>1, QuietClean DEF Fault, thread
<1>2. CASE Begin(t)
  BY <1>2, BeginClean DEF Fault
<1> QED
  BY <1>1, <1>2 DEF Fault

\* So is one that takes a thread to another statement of the same part.
LEMMA GoClean ==
  ASSUME NEW t \in Threads, NEW s, TypeInv, CleanInv, up, Go(t, s), s # "null",
         UNCHANGED <<parts, server, place, exited>>
  PROVE  CleanInv'
<1>1. pc \in [Threads -> Steps]
  BY DEF TypeInv, TypeOK
<1>2. \A r \in Threads : pc'[r] = "null" => pc[r] = "null"
  BY <1>1 DEF Go
<1> QED
  BY <1>2, QuietClean

\* The part at t's place is behind it, so that t may go on.
LEMMA NextPartClean ==
  ASSUME NEW t \in Threads, TypeInv, CleanInv, up, NextPart(t), place[t] \in 1 .. 6,
         UNCHANGED <<registered, stopped, late, server, exited>>,
         Part(t) \in Required => Part(t) \in stopped,
         \A p \in registered : pointer'[p] \/ p \in stopped
  PROVE  CleanInv'
<1>1. /\ pc \in [Threads -> Steps] /\ place \in [Threads -> 0 .. 7]
      /\ Len(Order) = 6
  BY OrderFacts DEF TypeInv, TypeOK
<1>2. /\ place'[t] = place[t] + 1 /\ pc'[t] # "null"
      /\ \A s \in Threads : s # t => place'[s] = place[s] /\ pc'[s] = pc[s]
  BY <1>1 DEF NextPart, Go
<1>3. Passed'
  BY <1>1, <1>2 DEF CleanInv, Passed, Required, Part
<1>4. StoppedByCleanup'
  BY <1>1, <1>2 DEF CleanInv, StoppedByCleanup, Cleaning
<1>5. Forgotten' /\ ServerJoined' /\ CamerasLast' /\ ExitIsLast'
  BY DEF CleanInv, Forgotten, ServerJoined, CamerasLast, ExitIsLast, Required
<1> QED
  BY <1>3, <1>4, <1>5 DEF CleanInv

\* t has stopped the part it is at.
LEMMA StopClean ==
  ASSUME NEW t \in Threads, TypeInv, CleanInv, up, place[t] \in 1 .. 6,
         stopped' = stopped \cup {Part(t)}, Go(t, "null"),
         UNCHANGED <<registered, pointer, late, place, exited>>,
         "server_thread" \in stopped' => server' = "ended"
  PROVE  CleanInv'
<1>1. pc \in [Threads -> Steps] /\ place \in [Threads -> 0 .. 7]
  BY OrderFacts DEF TypeInv, TypeOK
<1>2. pc'[t] = "null" /\ \A s \in Threads : s # t => pc'[s] = pc[s]
  BY <1>1 DEF Go
<1>3. Passed'
  BY <1>2 DEF CleanInv, Passed, Required, Part
<1>4. StoppedByCleanup'
  BY DEF StoppedByCleanup, Cleaning
<1>5. CamerasLast'
  <2> SUFFICES ASSUME stopped' \cap Cameras # {}, "server_thread" \in Required
               PROVE  "server_thread" \in stopped'
    BY DEF CamerasLast, Required
  <2>1. CASE Part(t) \in Cameras
    <3>1. place[t] > 3
      BY <2>1, OrderFacts DEF Part
    <3> QED
      BY <3>1, OrderFacts DEF CleanInv, Passed
  <2>2. CASE Part(t) \notin Cameras
    BY <2>2 DEF CleanInv, CamerasLast
  <2> QED
    BY <2>1, <2>2
<1>6. Forgotten' /\ ServerJoined' /\ ExitIsLast'
  BY DEF CleanInv, Forgotten, ServerJoined, ExitIsLast, Required
<1> QED
  BY <1>3, <1>4, <1>5, <1>6 DEF CleanInv

LEMMA RegisterClean ==
  ASSUME NEW p \in Parts, TypeInv, CleanInv, Register(p)
  PROVE  CleanInv'
<1>1. up /\ p \notin registered
  BY DEF Register, Makes, Made, At, Parts, Cameras
<1>2. /\ registered' = registered \cup {p} /\ stopped' = stopped
      /\ pointer' = [pointer EXCEPT ![p] = TRUE] /\ pointer \in [Parts -> BOOLEAN]
      /\ late' = IF \E t \in Threads : Cleaning(t) THEN late \cup {p} ELSE late
      /\ server' = server /\ place' = place /\ exited' = exited
      /\ registered \subseteq Parts /\ stopped \subseteq registered
  BY DEF Register, TypeInv, TypeOK, ending
<1>3. \A t \in Threads : pc'[t] = "null" => pc[t] = "null"
  BY DEF Register, Makes, Go, At, TypeInv, TypeOK
<1>4. (\E t \in Threads : Cleaning(t)) => Required' \subseteq Required
  BY <1>2 DEF Required
<1>5. (\A t \in Threads : ~Cleaning(t)) => stopped = {} /\ \A t \in Threads : place[t] = 0
  BY OrderFacts DEF CleanInv, StoppedByCleanup, Cleaning, TypeInv, TypeOK
<1>6. Passed'
  <2>1. CASE \E t \in Threads : Cleaning(t)
    BY <1>2, <1>3, <1>4, <2>1 DEF CleanInv, Passed, Part
  <2>2. CASE \A t \in Threads : ~Cleaning(t)
    <3>1. \A t \in Threads : pc[t] # "null"
      BY <1>5, <2>2 DEF TypeInv, Placed
    <3> QED
      BY <1>2, <1>3, <1>5, <2>2, <3>1 DEF Passed
  <2> QED
    BY <2>1, <2>2
<1>7. CamerasLast'
  BY <1>2, <1>4, <1>5 DEF CleanInv, CamerasLast
<1>8. Forgotten' /\ StoppedByCleanup' /\ ServerJoined' /\ ExitIsLast'
  BY <1>1, <1>2 DEF CleanInv, Forgotten, StoppedByCleanup, ServerJoined, ExitIsLast, Cleaning
<1> QED
  BY <1>6, <1>7, <1>8 DEF CleanInv

LEMMA CleanSteps ==
  ASSUME NEW t \in Threads, TypeInv, CleanInv, Clean(t)
  PROVE  CleanInv'
<1>1. CASE Test(t)
  <2>1. place[t] \in 1 .. 6 /\ up /\ Part(t) \in Parts
    BY <1>1, OrderFacts DEF Test, At, TypeInv, Placed, Part
  <2>2. CASE pointer[Part(t)]
    <3>1. PICK s \in {"rtest", "act"} : Go(t, s)
      BY <1>1, <2>2 DEF Test
    <3> QED
      BY <1>1, <2>1, <2>2, <3>1, GoClean DEF Test, ending
  <2>3. CASE ~pointer[Part(t)]
    <3>1. NextPart(t) /\ UNCHANGED <<registered, pointer, stopped, late, server, exited>>
      BY <1>1, <2>3 DEF Test, parts, ending
    <3>2. Part(t) \in Required => Part(t) \in stopped
      BY <2>3 DEF CleanInv, Forgotten, Required
    <3>3. \A p \in registered : pointer'[p] \/ p \in stopped
      BY <3>1 DEF CleanInv, Forgotten
    <3> QED
      BY <2>1, <3>1, <3>2, <3>3, NextPartClean
  <2> QED
    BY <2>2, <2>3
<1>2. CASE Act(t)
  <2>1. place[t] \in 1 .. 6 /\ up
    BY <1>2 DEF Act, At, TypeInv, Placed
  <2>2. "server_thread" \in stopped' => server' = "ended"
    BY <1>2 DEF Act, CleanInv, ServerJoined
  <2> QED
    BY <1>2, <2>1, <2>2, StopClean DEF Act, ending
<1>3. CASE StalePointer(t)
  BY <1>3, FaultClean DEF StalePointer, At
<1>4. CASE Join(t)
  <2>1. CASE Fault(t, "SIGABRT")
    BY <1>4, <2>1, FaultClean DEF Join, At
  <2>2. CASE Go(t, "join") /\ UNCHANGED <<parts, server, recorder, place, ending>>
    BY <1>4, <2>2, GoClean DEF Join, At, ending
  <2> QED
    BY <1>4, <2>1, <2>2 DEF Join
<1>5. CASE Joined(t)
  <2>1. place[t] = 3 /\ up /\ Part(t) = "server_thread"
    BY <1>5, OrderFacts DEF Joined, At, TypeInv, Placed, Part
  <2> QED
    BY <1>5, <2>1, StopClean DEF Joined, ending
<1>6. CASE Forget(t)
  <2>1. place[t] \in 1 .. 6 /\ up /\ Part(t) \in stopped
    BY <1>6 DEF Forget, At, TypeInv, Placed, CleanInv, Passed
  <2>2. \A p \in registered : pointer'[p] \/ p \in stopped
    BY <1>6, <2>1 DEF Forget, CleanInv, Forgotten, TypeInv, TypeOK
  <2> QED
    BY <1>6, <2>1, <2>2, NextPartClean DEF Forget, ending
<1>7. CASE Exit(t)
  <2>1. place[t] = 7
    BY <1>7 DEF Exit, At, TypeInv, Placed
  <2>2. Required \subseteq stopped
    <3> SUFFICES ASSUME NEW p \in Required PROVE p \in stopped
      OBVIOUS
    <3>1. PICK i \in 1 .. 6 : Order[i] = p
      BY OrderFacts DEF Required, TypeInv, TypeOK
    <3> QED
      BY <2>1, <3>1 DEF CleanInv, Passed
  <2>3. UNCHANGED <<registered, pointer, stopped, late, server, pc, place>> /\ ~up'
    BY <1>7 DEF Exit, parts, thread
  <2> QED
    BY <2>2, <2>3 DEF CleanInv, Forgotten, Passed, StoppedByCleanup, ServerJoined,
                      CamerasLast, ExitIsLast, Required, Cleaning, Part
<1> QED
  BY <1>1, <1>2, <1>3, <1>4, <1>5, <1>6, <1>7 DEF Clean

LEMMA StepClean == TypeInv /\ CleanInv /\ [Next]_vars => CleanInv'
<1> SUFFICES ASSUME TypeInv, CleanInv, [Next]_vars PROVE CleanInv'
  OBVIOUS
<1>1. CASE UNCHANGED vars
  <2>1. UNCHANGED <<registered, pointer, stopped, late, server, pc, place, up, exited>>
    BY <1>1 DEF vars, parts, thread, ending
  <2> QED
    BY <2>1 DEF CleanInv, Forgotten, Passed, StoppedByCleanup, ServerJoined,
                CamerasLast, ExitIsLast, Required, Cleaning, Part
<1>2. CASE StartServer
  <2>1. /\ up /\ server = "none" /\ UNCHANGED <<registered, pointer, stopped, late, place, exited, up>>
        /\ \A t \in Threads : pc'[t] = "null" => pc[t] = "null"
    BY <1>2 DEF StartServer, Makes, Made, At, Go, parts, ending, TypeInv, TypeOK
  <2> QED
    BY <2>1 DEF CleanInv, Forgotten, Passed, StoppedByCleanup, ServerJoined,
                CamerasLast, ExitIsLast, Required, Cleaning, Part
<1>3. ASSUME NEW p \in Parts, Register(p) PROVE CleanInv'
  BY <1>3, RegisterClean
<1>4. CASE EndLoop
  BY <1>4, BeginClean DEF EndLoop, At, Threads, ending
<1>5. CASE ServerEnds
  BY <1>5, QuietClean DEF ServerEnds, thread, ending
<1>6. ASSUME NEW t \in Threads, Signal(t) PROVE CleanInv'
  BY <1>6, BeginClean DEF Signal
<1>7. ASSUME NEW t \in Threads, Clean(t) PROVE CleanInv'
  BY <1>7, CleanSteps
<1>8. ASSUME NEW t \in Threads, StopSteps(t) PROVE CleanInv'
  <2>1. /\ up /\ UNCHANGED <<parts, server, place, exited>>
        /\ \E s \in {"act", "idle", "rclear", "rkill", "rwait"} : Go(t, s)
    BY <1>8 DEF StopSteps, TestRecording, ClearRecording, Kill, Wait,
                AfterRecording, At, ending
  <2> QED
    BY <2>1, GoClean
<1>9. ASSUME NEW w \in Workers, StartRecording(w) \/ StopRecording(w) \/ StartSteps(w)
      PROVE  CleanInv'
  <2>1. /\ up /\ UNCHANGED <<parts, server, place, exited>>
        /\ \E s \in {"flag", "pid", "idle", "rtest"} : Go(w, s)
    BY <1>9 DEF StartRecording, StopRecording, StartSteps, SetFlag, SetPid, At, ending
  <2> QED
    BY <2>1, GoClean DEF Threads
<1>10. ASSUME NEW i \in Pids, ChildEnds(i) PROVE CleanInv'
  BY <1>10, QuietClean DEF ChildEnds, thread, ending, TypeInv, TypeOK
<1> QED
  BY <1>1, <1>2, <1>3, <1>4, <1>5, <1>6, <1>7, <1>8, <1>9, <1>10 DEF Next, Construct

LEMMA CleanInvHolds == Spec => [](TypeInv /\ CleanInv)
  BY InitClean, StepClean, TypeInvHolds, PTL DEF Spec

(* However many threads clean up, however often each begins again, exit()  *)
(* is reached only when every part registered before has been stopped.     *)
THEOREM ExitsComplete == Spec => []ExitComplete
<1>1. CleanInv => ExitComplete
  BY DEF CleanInv, ExitIsLast, ExitComplete, Required
<1> QED
  BY <1>1, CleanInvHolds, PTL

(* For any cleanups, a camera is stopped only after the thread of the      *)
(* server has ended and was joined.                                        *)
THEOREM ServerBeforeCameras == Spec => []CamerasAfterServer
<1>1. CleanInv => CamerasAfterServer
  BY DEF CleanInv, CamerasLast, ServerJoined, CamerasAfterServer, Required
<1> QED
  BY <1>1, CleanInvHolds, PTL
-----------------------------------------------------------------------------
NoCleanup == \A t \in Threads : ~Cleaning(t)

(* Why the stops that have answered left no process: until a cleanup       *)
(* begins, a start that has forked ends with the flag set, since no stop   *)
(* clears it meanwhile, and a stop that cleared it, or found that another  *)
(* stop had, waits for the process of the id.                              *)
RecorderInv ==
  NoCleanup =>
    /\ pc[Main] \in {"construct", "loop"}
    /\ \A w \in Workers : pc[w] = "pid" => recording
    /\ (\A w \in Workers : pc[w] \in {"idle", "rtest"}) /\ ~recording
           /\ recording_pid \in Pids
         => child[recording_pid] = "none"

LEMMA InitRecorder == Init => RecorderInv
  BY LifecycleAssumption DEF Init, RecorderInv, Threads

\* A cleanup that has begun never ends but with the process, and a thread
\* outside it is in a handler, the constructor or the loop.
LEMMA CleaningSteps ==
  ASSUME NEW t \in Threads, TypeInv, Clean(t)
  PROVE  \E s \in Threads : Cleaning(s)'
<1>1. Cleaning(t) /\ place[t] \in 1 .. 7 /\ place \in [Threads -> 0 .. 7]
  BY OrderFacts DEF Clean, Test, Act, StalePointer, Join, Joined, Forget, Exit, At,
     TypeInv, TypeOK, Placed, Cleaning
<1>2. \/ place' = place \/ place' = [place EXCEPT ![t] = @ + 1]
      \/ place' = [place EXCEPT ![t] = 1]
  BY DEF Clean, Test, Act, StalePointer, Join, Joined, Forget, Exit, Fault, Begin,
         NextPart, thread
<1> QED
  BY <1>1, <1>2 DEF Cleaning

\* What a worker does to the recording, before any cleanup.
LEMMA WorkerSteps ==
  ASSUME NEW w \in Workers, TypeInv, RecorderInv, NoCleanup, Apart',
         \/ StopSteps(w) \/ StartRecording(w) \/ StopRecording(w) \/ StartSteps(w)
  PROVE  RecorderInv'
<1>1. /\ pc \in [Threads -> Steps] /\ child \in [Pids -> Children]
      /\ w \in Threads /\ Main \in Threads /\ w # Main /\ ~Cleaning(w)
      /\ Workers \subseteq Threads
  BY LifecycleAssumption DEF TypeInv, TypeOK, Threads, NoCleanup
<1> USE <1>1 DEF RecorderInv, At, Go, AfterRecording
<1>2. CASE TestRecording(w)
  BY <1>2 DEF TestRecording, recorder
<1>3. CASE ClearRecording(w)
  <2>1. pc'[w] = "rkill" /\ Stopping(w)'
    BY <1>3 DEF ClearRecording, Stopping
  <2>2. \A v \in Workers : pc'[v] # "pid"
    BY <2>1 DEF Apart, Starting
  <2> QED
    BY <1>3, <2>1, <2>2 DEF ClearRecording
<1>4. CASE Kill(w)
  BY <1>4 DEF Kill
<1>5. CASE Wait(w)
  <2>1. recording_pid \in Pids => child'[recording_pid] = "none"
    BY <1>5 DEF Wait, Meant
  <2> QED
    BY <1>5, <2>1 DEF Wait
<1>6. CASE StartRecording(w)
  BY <1>6 DEF StartRecording
<1>7. CASE StopRecording(w)
  BY <1>7 DEF StopRecording, recorder
<1>8. CASE StartSteps(w)
  BY <1>8 DEF StartSteps, SetFlag, SetPid
<1> QED
  BY <1>2, <1>3, <1>4, <1>5, <1>6, <1>7, <1>8 DEF StopSteps

LEMMA StepRecorder == TypeInv /\ RecorderInv /\ [Next /\ Apart']_vars => RecorderInv'
<1> SUFFICES ASSUME TypeInv, RecorderInv, [Next /\ Apart']_vars, NoCleanup' PROVE RecorderInv'
  BY DEF RecorderInv
<1>1. /\ pc \in [Threads -> Steps] /\ place \in [Threads -> 0 .. 7]
      /\ child \in [Pids -> Children] /\ Threads = Workers \cup {Main} /\ Main \notin Workers
  BY OrderFacts, LifecycleAssumption DEF TypeInv, TypeOK, Threads
<1>2. CASE UNCHANGED vars
  BY <1>2 DEF vars, recorder, thread, RecorderInv, NoCleanup, Cleaning
<1>3. CASE Construct
  <2>1. UNCHANGED <<recorder, place>> /\ (UNCHANGED pc \/ Go(Main, "loop"))
    BY <1>3 DEF Construct, StartServer, Register, Makes
  <2> QED
    BY <1>1, <2>1 DEF recorder, RecorderInv, NoCleanup, Cleaning, Go
<1>4. CASE EndLoop
  BY <1>1, <1>4 DEF EndLoop, Begin, NoCleanup, Cleaning
<1>5. CASE ServerEnds
  BY <1>5 DEF ServerEnds, recorder, thread, RecorderInv, NoCleanup, Cleaning
<1>6. ASSUME NEW t \in Threads, Signal(t) PROVE RecorderInv'
  BY <1>1, <1>6 DEF Signal, Begin, NoCleanup, Cleaning
<1>7. ASSUME NEW t \in Threads, Clean(t) PROVE RecorderInv'
  BY <1>7, CleaningSteps DEF NoCleanup
<1>8. ASSUME NEW t \in Threads, StopSteps(t), Apart' PROVE RecorderInv'
  <2>1. NoCleanup
    BY <1>8 DEF StopSteps, TestRecording, ClearRecording, Kill, Wait, NoCleanup, Cleaning
  <2>2. t \in Workers
    BY <1>1, <1>8, <2>1 DEF StopSteps, TestRecording, ClearRecording, Kill, Wait, At,
                            RecorderInv
  <2> QED
    BY <1>8, <2>1, <2>2, WorkerSteps
<1>9. ASSUME NEW v \in Workers, StartRecording(v) \/ StopRecording(v) \/ StartSteps(v), Apart'
      PROVE  RecorderInv'
  <2>1. NoCleanup
    BY <1>9 DEF StartRecording, StopRecording, StartSteps, SetFlag, SetPid, NoCleanup, Cleaning
  <2> QED
    BY <1>9, <2>1, WorkerSteps
<1>10. ASSUME NEW i \in Pids, ChildEnds(i) PROVE RecorderInv'
  <2>1. /\ UNCHANGED <<recording, recording_pid, pc, place>>
        /\ child[i] # "none" /\ child' = [child EXCEPT ![i] = "ended"]
    BY <1>10 DEF ChildEnds, thread
  <2> QED
    BY <1>1, <2>1 DEF RecorderInv, NoCleanup, Cleaning
<1> QED
  BY <1>2, <1>3, <1>4, <1>5, <1>6, <1>7, <1>8, <1>9, <1>10 DEF Next

(* For any number of workers that race to start or to stop recordings, of  *)
(* process ids and of failed forks: before a cleanup, and if no stop       *)
(* overlaps a start, the stops that have answered left no process under    *)
(* the recorded id.                                                        *)
THEOREM RecordingsEnd == ApartSpec => []RecordingStopped
<1>1. ApartSpec => Spec
  BY PTL DEF ApartSpec, Spec
<1>2. RecorderInv => RecordingStopped
  BY DEF RecorderInv, RecordingStopped, NoCleanup
<1> QED
  BY <1>1, <1>2, InitRecorder, StepRecorder, TypeInvHolds, PTL DEF ApartSpec
=============================================================================
