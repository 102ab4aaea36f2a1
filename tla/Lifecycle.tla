----------------------------- MODULE Lifecycle -----------------------------
(***************************************************************************)
(* How the program is built up and taken down: the constructor of          *)
(* MatterializeApp registers its parts with the CleanupHandler, and        *)
(* perform_cleanup_actions stops them at the end of the frame loop and on  *)
(* six signals, on whichever thread gets one, in the middle of itself too. *)
(* It ends with exit(), so that an interrupted call is never gone on with. *)
(* Shutting down the server stops a recording, whose handlers run on the   *)
(* server's workers and share its flag and process id without a lock.      *)
(***************************************************************************)
EXTENDS Naturals, Sequences

CONSTANTS
  Main,        \* the thread that builds the app and runs the frame loop
  Workers,     \* the threads of the server
  Pids,        \* process ids of ffmpeg
  Failed,      \* -1, from a fork that failed
  NoPid,       \* 0, recording_pid before a recording
  Nobody,      \* no thread has called join()
  MaxSignals   \* how many signals arrive

ASSUME LifecycleAssumption ==
  /\ Main \notin Workers
  /\ Nobody \notin Workers \cup {Main}
  /\ {Failed, NoPid} \cap Pids = {} /\ Failed # NoPid
  /\ MaxSignals \in Nat

Threads == Workers \cup {Main}

VARIABLES
  registered,     \* the parts the CleanupHandler has been told of
  pointer,        \* pointer[p]: its pointer to part p is not null
  stopped,        \* the parts that have been stopped
  late,           \* the parts registered after a cleanup had begun
  server,         \* the thread of the server: "none", "serving", "ending", "ended"
  joiner,         \* who has called server_thread->join()
  recording,      \* RecordingHandler::recording
  recording_pid,  \* RecordingHandler::recording_pid
  child,          \* child[i]: the process with id i
  forked,         \* forked[w]: thread_pid of start_recording
  signals,        \* signals that may still arrive
  faulted,        \* <<t, k>>: thread t is in the handler of its own signal k
  pc,             \* pc[t]: where thread t is
  place,          \* place[t]: the part t's cleanup is at, 0 if there is none
  up,             \* the process runs
  exited          \* it ended with exit() at the end of a cleanup

parts == <<registered, pointer, stopped, late>>
recorder == <<recording, recording_pid, child, forked>>
thread == <<pc, place>>
ending == <<signals, faulted, up, exited>>
vars == <<parts, server, joiner, recorder, thread, ending>>
-----------------------------------------------------------------------------
\* The constructor; "serve" starts the thread of the server.
Construction == <<"input", "controls", "output", "preview",
                  "serve", "server", "server_thread">>
Cameras == {"input", "output", "preview"}

\* Mutant of Order: the cameras are stopped before the server.
OrderCamerasFirst == <<"controls", "input", "output", "preview", "server", "server_thread">>

\* perform_cleanup_actions.
Order == <<"controls", "server", "server_thread", "input", "output", "preview">>

Parts == {"controls", "server", "server_thread"} \cup Cameras

\* "r...": the statements of stop_recording and RecordingHandler::cleanup.
Steps == {"construct", "loop", "idle", "flag", "pid",
          "rtest", "rclear", "rkill", "rwait",
          "test", "act", "join", "null", "exit"}
Children == {"none", "running", "stopping", "ended"}

At(t, s) == up /\ pc[t] = s
Go(t, s) == pc' = [pc EXCEPT ![t] = s]
Cleaning(t) == place[t] > 0
Part(t) == Order[place[t]]

Init ==
  /\ registered = {} /\ stopped = {} /\ late = {}
  /\ pointer = [p \in Parts |-> FALSE]
  /\ server = "none"
  /\ joiner = Nobody
  /\ recording = FALSE
  /\ recording_pid = NoPid
  /\ child = [i \in Pids |-> "none"]
  /\ forked = [w \in Workers |-> Failed]
  /\ signals = MaxSignals
  /\ faulted = {}
  /\ pc = [t \in Threads |-> IF t = Main THEN "construct" ELSE "idle"]
  /\ place = [t \in Threads |-> 0]
  /\ up = TRUE
  /\ exited = FALSE
-----------------------------------------------------------------------------
Made(p) == IF p = "serve" THEN server # "none" ELSE p \in registered

\* p is what the constructor makes next.
Makes(p) ==
  /\ At(Main, "construct") /\ ~Made(p)
  /\ \E i \in 1 .. Len(Construction) :
       /\ Construction[i] = p
       /\ \A j \in 1 .. (i - 1) : Made(Construction[j])
       /\ IF i = Len(Construction) THEN Go(Main, "loop") ELSE UNCHANGED pc

\* A camera or its controls are started, the endpoint is set up, and the
\* part is registered.
Register(p) ==
  /\ Makes(p)
  /\ registered' = registered \cup {p}
  /\ pointer' = [pointer EXCEPT ![p] = TRUE]
  /\ late' = IF \E t \in Threads : Cleaning(t) THEN late \cup {p} ELSE late
  /\ UNCHANGED <<stopped, server, joiner, recorder, place, ending>>

\* std::thread(&ServerEndpoint::start, &server).
StartServer ==
  /\ Makes("serve")
  /\ server' = "serving"
  /\ UNCHANGED <<parts, joiner, recorder, place, ending>>

Construct == StartServer \/ \E p \in Parts : Register(p)

\* perform_cleanup_actions is called, or called again, by t.
Begin(t) ==
  /\ pc' = [pc EXCEPT ![t] = "test"]
  /\ place' = [place EXCEPT ![t] = 1]

\* The frame loop ends, after POST /shutdown or an empty frame.
EndLoop ==
  /\ At(Main, "loop")
  /\ Begin(Main)
  /\ UNCHANGED <<parts, server, joiner, recorder, ending>>

\* handle_signal, on any thread there is, wherever it is.
Signal(t) ==
  /\ up /\ signals > 0
  /\ t = Main \/ server # "none"
  /\ signals' = signals - 1
  /\ Begin(t)
  /\ UNCHANGED <<parts, server, joiner, recorder, faulted, up, exited>>

(* A crash or an uncaught exception in a cleanup is a signal k to its own  *)
(* thread, handled like the others.  A second SIGSEGV is blocked by the    *)
(* handler of the first, which kills the process; abort() unblocks SIGABRT *)
(* and so calls its handler again, until the stack has no more room.       *)
Fault(t, k) ==
  /\ \/ <<t, k>> \in faulted /\ up' = FALSE /\ UNCHANGED <<faulted, thread>>
     \/ /\ <<t, k>> \notin faulted \/ k = "SIGABRT"
        /\ faulted' = faulted \cup {<<t, k>>}
        /\ Begin(t)
        /\ UNCHANGED up
  /\ UNCHANGED <<parts, server, joiner, recorder, signals, exited>>

\* t's cleanup goes on with the next part, or to exit().
NextPart(t) ==
  /\ place' = [place EXCEPT ![t] = @ + 1]
  /\ Go(t, IF place[t] = Len(Order) THEN "exit" ELSE "test")

\* Mutant of Test: the pointer is cleared when it is tested.
TestAndForget(t) ==
  /\ At(t, "test")
  /\ pointer' = [pointer EXCEPT ![Part(t)] = FALSE]
  /\ IF pointer[Part(t)]
     THEN Go(t, IF Part(t) = "server" THEN "rtest" ELSE "act") /\ UNCHANGED place
     ELSE NextPart(t)
  /\ UNCHANGED <<registered, stopped, late, server, joiner, recorder, ending>>

\* Mutant of Test: no test.
TestNothing(t) ==
  /\ At(t, "test")
  /\ Go(t, IF Part(t) = "server" THEN "rtest" ELSE "act")
  /\ UNCHANGED <<parts, server, joiner, recorder, place, ending>>

Test(t) ==
  /\ At(t, "test")
  /\ IF pointer[Part(t)]
     THEN Go(t, IF Part(t) = "server" THEN "rtest" ELSE "act") /\ UNCHANGED place
     ELSE NextPart(t)
  /\ UNCHANGED <<parts, server, joiner, recorder, ending>>

\* Mutant of Act: httpEndpoint->shutdown() is forgotten.
ActNoShutdown(t) ==
  /\ At(t, "act") /\ Part(t) # "server_thread"
  /\ stopped' = stopped \cup {Part(t)}
  /\ Go(t, "null")
  /\ UNCHANGED <<registered, pointer, late, server, joiner, recorder, place, ending>>

\* The part is stopped; the server is told to end, and ends later.
Act(t) ==
  /\ At(t, "act") /\ Part(t) # "server_thread"
  /\ stopped' = stopped \cup {Part(t)}
  /\ server' = IF Part(t) = "server" /\ server = "serving" THEN "ending" ELSE server
  /\ Go(t, "null")
  /\ UNCHANGED <<registered, pointer, late, joiner, recorder, place, ending>>

(* Another thread has cleared the pointer since it was tested, or that to  *)
(* the input camera, which the controls ask for without a test.            *)
StalePointer(t) ==
  /\ At(t, "act")
  /\ ~pointer[Part(t)] \/ (Part(t) = "controls" /\ ~pointer["input"])
  /\ Fault(t, "SIGSEGV")

\* A second join() of one thread throws.
Join(t) ==
  /\ At(t, "act") /\ Part(t) = "server_thread"
  /\ \/ /\ joiner = Nobody
        /\ joiner' = t
        /\ Go(t, "join")
        /\ UNCHANGED <<parts, server, recorder, place, ending>>
     \/ joiner # Nobody /\ Fault(t, "SIGABRT")

Joined(t) ==
  /\ At(t, "join")
  /\ server = "ended"
  /\ stopped' = stopped \cup {"server_thread"}
  /\ Go(t, "null")
  /\ UNCHANGED <<registered, pointer, late, server, joiner, recorder, place, ending>>

\* The pointer is cleared after the part was stopped.
Forget(t) ==
  /\ At(t, "null")
  /\ pointer' = [pointer EXCEPT ![Part(t)] = FALSE]
  /\ NextPart(t)
  /\ UNCHANGED <<registered, stopped, late, server, joiner, recorder, ending>>

Exit(t) ==
  /\ At(t, "exit")
  /\ up' = FALSE
  /\ exited' = TRUE
  /\ UNCHANGED <<parts, server, joiner, recorder, thread, signals, faulted>>

ServerEnds ==
  /\ up /\ server = "ending"
  /\ server' = "ended"
  /\ UNCHANGED <<parts, joiner, recorder, thread, ending>>
-----------------------------------------------------------------------------
\* start_recording: fork(), which may fail; the child becomes ffmpeg.
StartRecording(w) ==
  /\ At(w, "idle") /\ server = "serving"
  /\ \/ \E i \in Pids :
          /\ child[i] = "none"
          /\ child' = [child EXCEPT ![i] = "running"]
          /\ forked' = [forked EXCEPT ![w] = i]
     \/ forked' = [forked EXCEPT ![w] = Failed] /\ UNCHANGED child
  /\ Go(w, "flag")
  /\ UNCHANGED <<parts, server, joiner, recording, recording_pid, place, ending>>

SetFlag(w) ==
  /\ At(w, "flag")
  /\ recording' = TRUE
  /\ Go(w, "pid")
  /\ UNCHANGED <<parts, server, joiner, recording_pid, child, forked, place, ending>>

SetPid(w) ==
  /\ At(w, "pid")
  /\ recording_pid' = forked[w]
  /\ Go(w, "idle")
  /\ UNCHANGED <<parts, server, joiner, recording, child, forked, place, ending>>

StopRecording(w) ==
  /\ At(w, "idle") /\ server = "serving"
  /\ Go(w, "rtest")
  /\ UNCHANGED <<parts, server, joiner, recorder, place, ending>>

\* After the recording: the response of a worker, the rest of a cleanup.
AfterRecording(t) == Go(t, IF Cleaning(t) THEN "act" ELSE "idle")

TestRecording(t) ==
  /\ At(t, "rtest")
  /\ IF recording THEN Go(t, "rclear") ELSE AfterRecording(t)
  /\ UNCHANGED <<parts, server, joiner, recorder, place, ending>>

ClearRecording(t) ==
  /\ At(t, "rclear")
  /\ recording' = FALSE
  /\ Go(t, "rkill")
  /\ UNCHANGED <<parts, server, joiner, recording_pid, child, forked, place, ending>>

(* What kill() and waitpid() mean by recording_pid: -1 is every process,   *)
(* and 0 those of the group.  The signal the program then sends itself is  *)
(* one of those that may arrive.                                           *)
Meant == IF recording_pid \in Pids THEN {recording_pid} ELSE Pids

Kill(t) ==
  /\ At(t, "rkill")
  /\ child' = [i \in Pids |-> IF i \in Meant /\ child[i] = "running"
                              THEN "stopping" ELSE child[i]]
  /\ Go(t, "rwait")
  /\ UNCHANGED <<parts, server, joiner, recording, recording_pid, forked, place, ending>>

\* Mutant of Wait: waitpid() is called with WNOHANG.
WaitNot(t) ==
  /\ At(t, "rwait")
  /\ AfterRecording(t)
  /\ UNCHANGED <<parts, server, joiner, recorder, place, ending>>

\* waitpid() of a child that ended, or, without any such child, of none.
Wait(t) ==
  /\ At(t, "rwait")
  /\ \/ \E i \in Meant : child[i] = "ended" /\ child' = [child EXCEPT ![i] = "none"]
     \/ (\A i \in Meant : child[i] = "none") /\ UNCHANGED child
  /\ AfterRecording(t)
  /\ UNCHANGED <<parts, server, joiner, recording, recording_pid, forked, place, ending>>

\* ffmpeg ends on its own, or because it was told to.
ChildEnds(i) ==
  /\ up /\ child[i] \in {"running", "stopping"}
  /\ child' = [child EXCEPT ![i] = "ended"]
  /\ UNCHANGED <<parts, server, joiner, recording, recording_pid, forked, thread, ending>>
-----------------------------------------------------------------------------
Clean(t) ==
  \/ Test(t) \/ Act(t) \/ StalePointer(t) \/ Join(t) \/ Joined(t)
  \/ Forget(t) \/ Exit(t)

StopSteps(t) ==
  TestRecording(t) \/ ClearRecording(t) \/ Kill(t) \/ Wait(t)

StartSteps(w) == SetFlag(w) \/ SetPid(w)

Next ==
  \/ Construct \/ EndLoop \/ ServerEnds
  \/ \E t \in Threads : Signal(t) \/ Clean(t) \/ StopSteps(t)
  \/ \E w \in Workers : StartRecording(w) \/ StopRecording(w) \/ StartSteps(w)
  \/ \E i \in Pids : ChildEnds(i)

Spec == Init /\ [][Next]_vars

(* Recordings are started and stopped one after the other: no worker is in *)
(* stop_recording while another is in start_recording.  Any number may be  *)
(* in the same of the two.                                                 *)
Starting(w) == pc[w] \in {"flag", "pid"}
Stopping(w) == pc[w] \in {"rtest", "rclear", "rkill", "rwait"}
Apart == \A v, w \in Workers : Starting(v) => ~Stopping(w)
ApartSpec == Init /\ [][Next /\ Apart']_vars

(* Threads run, the server ends when it is told to, and so does ffmpeg; a  *)
(* stack that is filled again and again is full at last.                   *)
(* No recording need end by itself and nothing need be asked of the server.*)
Fairness ==
  /\ WF_vars(Construct) /\ WF_vars(ServerEnds)
  /\ \A t \in Threads : WF_vars(Clean(t)) /\ WF_vars(StopSteps(t))
  /\ \A t \in Threads : SF_vars(Join(t) /\ up' = FALSE)
  /\ \A w \in Workers : WF_vars(StartSteps(w))
  /\ \A i \in Pids : WF_vars(child[i] = "stopping" /\ ChildEnds(i))

FairSpec == Spec /\ Fairness
-----------------------------------------------------------------------------
TypeOK ==
  /\ registered \subseteq Parts /\ stopped \subseteq registered /\ late \subseteq registered
  /\ pointer \in [Parts -> BOOLEAN]
  /\ server \in {"none", "serving", "ending", "ended"}
  /\ joiner \in Threads \cup {Nobody}
  /\ recording \in BOOLEAN
  /\ recording_pid \in Pids \cup {Failed, NoPid}
  /\ child \in [Pids -> Children]
  /\ forked \in [Workers -> Pids \cup {Failed}]
  /\ signals \in 0 .. MaxSignals
  /\ faulted \subseteq Threads \X {"SIGSEGV", "SIGABRT"}
  /\ pc \in [Threads -> Steps]
  /\ place \in [Threads -> 0 .. Len(Order) + 1]
  /\ up \in BOOLEAN /\ exited \in BOOLEAN

(* Whoever reaches exit(), through whatever re-entered and concurrent      *)
(* cleanups, every part that was registered before they began has been     *)
(* stopped: a part is forgotten only after it was stopped.                 *)
ExitComplete == exited => registered \ late \subseteq stopped

(* No camera is stopped by one cleanup while the thread of the server,     *)
(* which another may be waiting for, has not ended.                        *)
CamerasAfterServer ==
  stopped \cap Cameras # {} /\ "server_thread" \in registered \ late
    => server = "ended" /\ "server_thread" \in stopped

(* Before a cleanup, and if no stop overlaps a start: when every           *)
(* stop_recording has answered there is no process left under              *)
(* recording_pid, which may by then be the id of another.                  *)
RecordingStopped ==
  (\A t \in Threads : ~Cleaning(t)) /\ (\A w \in Workers : pc[w] = "idle")
      /\ ~recording /\ recording_pid \in Pids
    => child[recording_pid] = "none"

\* t waits for a recording that nobody told to stop.
WaitsInVain(t) ==
  At(t, "rwait") /\ \E i \in Meant : child[i] = "running"

(* A cleanup that has begun ends the process, unless it waits for a        *)
(* recording that a worker started while it was stopping another, or began *)
(* on another thread before the server was registered: it then joins the   *)
(* thread of a server it did not shut down.                                *)
CleanupEnds ==
  \A t \in Threads :
    Cleaning(t) ~> ~up \/ WaitsInVain(t) \/ "server" \in late
=============================================================================
