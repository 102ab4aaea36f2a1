---------------------------- MODULE Backgrounds ----------------------------
(***************************************************************************)
(* What is put behind the person: BackgroundSettings, which the frame loop *)
(* reads for every frame (generate_background), and BackgroundHandler,     *)
(* whose handlers change it, in sections of matter_mutex that the workers  *)
(* enter through the one lock object of the handler.                       *)
(***************************************************************************)
EXTENDS MatterMutex, Integers

CONSTANTS
  Main,            \* the thread of the frame loop
  Workers,         \* the threads of the server
  AppLock,         \* MatterializeApp::matter_lock
  BackgroundLock,  \* BackgroundHandler::matter_lock
  Images,          \* the pictures cv::imread can read
  Green,           \* the green screen, a picture too
  Unreadable,      \* a path cv::imread reads as an empty picture
  Sizes,           \* the odd positive blur sizes
  DefaultSize,     \* the blur size before any is set
  Desktops,        \* the names a desktop is asked for by
  Videos,          \* the paths a video is asked for by
  FrameCount,      \* FrameCount[v]: the number of frames v's header gives
  Frames,          \* Frames[v]: the frames that can be read from v
  Nothing,         \* a desktop or a video not set yet
  MaxReads         \* bound on cap_frame_current

ASSUME BackgroundAssumption ==
  /\ Main \notin Workers
  /\ Threads = Workers \cup {Main}
  /\ {AppLock, BackgroundLock} \subseteq Locks
  /\ AppLock # BackgroundLock
  /\ Users[AppLock] = {Main}
  /\ Users[BackgroundLock] = Workers
  /\ Unreadable \notin Images \cup {Green}
  /\ DefaultSize \in Sizes
  /\ Nothing \notin Desktops \cup Videos
  /\ FrameCount \in [Videos -> Int]
  /\ Frames \in [Videos -> Nat]
  /\ MaxReads \in Nat

VARIABLES
  mode,               \* BackgroundSettings::mode
  bg,                 \* the static background
  blur_size,
  desktop,            \* the desktop whose place and size is set
  cap,                \* the video being shown
  position,           \* the next frame cap.read() gives
  cap_frame_current,
  pc,                 \* pc[t]: where thread t is
  req                 \* req[w]: the mode w's handler sets, and the value

settings == <<mode, bg, blur_size, desktop, cap>>
reading == <<position, cap_frame_current>>
vars == <<mutexVars, settings, reading, pc, req>>

BackgroundModes == {"STATIC", "BLUR", "DESKTOP", "CLEAR", "VIDEO"}
NoRequest == [mode |-> "CLEAR", value |-> Nothing]

Go(t, s) == pc' = [pc EXCEPT ![t] = s]
Answer(w) == Go(w, "idle") /\ req' = [req EXCEPT ![w] = NoRequest]
At(t, s) == pc[t] = s
Out(t) == stage[t] = "out"
In(t) == stage[t] = "in"

\* The handler ends with an unlock(); if that throws, the mutex stays locked.
UnlockAndAnswer(w) ==
  /\ Unlock(w) \/ (~owns[via[w]] /\ Leave(w))
  /\ Answer(w)

(* The constructor: clear mode, the green screen as the static picture, no *)
(* desktop and no video.                                                   *)
Init ==
  /\ MutexInit
  /\ mode = "CLEAR"
  /\ bg = Green
  /\ blur_size = DefaultSize
  /\ desktop = Nothing
  /\ cap = Nothing
  /\ position = 0
  /\ cap_frame_current = -1
  /\ pc = [t \in Threads |-> IF t = Main THEN "loop" ELSE "idle"]
  /\ req = [w \in Workers |-> NoRequest]
-----------------------------------------------------------------------------
\* A handler whose body is well formed comes to its lock().
Ask(w, m, values) ==
  /\ At(w, "idle") /\ Out(w)
  /\ Go(w, "lock")
  /\ \E v \in values : req' = [req EXCEPT ![w] = [mode |-> m, value |-> v]]
  /\ UNCHANGED <<mutexVars, settings, reading>>

ClearBackground(w) == Ask(w, "CLEAR", {Nothing})
BlurBackground(w) == Ask(w, "BLUR", Sizes)
SetBackground(w) == Ask(w, "STATIC", Images \cup {Unreadable})
DesktopBackground(w) == Ask(w, "DESKTOP", Desktops)
VideoBackground(w) == Ask(w, "VIDEO", Videos)

(* lock() of the shared lock object; the flag set, it throws and Pistache  *)
(* answers with an error.                                                  *)
Enter(w) ==
  /\ At(w, "lock") /\ Out(w)
  /\ \/ Lock(w, BackgroundLock) /\ Go(w, req[w].mode) /\ UNCHANGED req
     \/ owns[BackgroundLock] /\ Answer(w) /\ UNCHANGED mutexVars
  /\ UNCHANGED <<settings, reading>>

StoreBlur(w) ==
  /\ At(w, "BLUR") /\ In(w)
  /\ blur_size' = req[w].value
  /\ Go(w, "mode")
  /\ UNCHANGED <<mutexVars, mode, bg, desktop, cap, reading, req>>

\* cv::resize throws on an empty picture, with the lock taken.
StoreImage(w) ==
  /\ At(w, "STATIC") /\ In(w)
  /\ \/ /\ req[w].value # Unreadable
        /\ bg' = req[w].value
        /\ Go(w, "mode")
        /\ UNCHANGED <<mutexVars, req>>
     \/ /\ req[w].value = Unreadable
        /\ Leave(w)
        /\ Answer(w)
        /\ UNCHANGED bg
  /\ UNCHANGED <<mode, blur_size, desktop, cap, reading>>

(* DesktopCaptures::get_desktops may throw (popen), with the lock taken,   *)
(* may list the desktop asked for, or may not.                             *)
StoreDesktop(w) ==
  /\ At(w, "DESKTOP") /\ In(w)
  /\ \/ desktop' = req[w].value /\ Go(w, "mode") /\ UNCHANGED <<mutexVars, req>>
     \/ UnlockAndAnswer(w) /\ UNCHANGED desktop
     \/ Leave(w) /\ Answer(w) /\ UNCHANGED desktop
  /\ UNCHANGED <<mode, bg, blur_size, cap, reading>>

\* Mutant of StoreVideo: the counter goes on from the last video.
StoreVideoOnly(w) ==
  /\ At(w, "VIDEO") /\ In(w)
  /\ cap' = req[w].value
  /\ position' = 0
  /\ Go(w, "mode")
  /\ UNCHANGED <<mutexVars, mode, bg, blur_size, desktop, cap_frame_current, req>>

\* Mutant of StoreVideo: the video is set before the lock is taken.
StoreVideoUnlocked(w) ==
  /\ At(w, "lock") /\ Out(w)
  /\ req[w].mode = "VIDEO"
  /\ cap' = req[w].value
  /\ position' = 0
  /\ cap_frame_current' = 0
  /\ UNCHANGED <<mutexVars, mode, bg, blur_size, desktop, pc, req>>

\* BackgroundSettings::set_video.
StoreVideo(w) ==
  /\ At(w, "VIDEO") /\ In(w)
  /\ cap' = req[w].value
  /\ position' = 0
  /\ cap_frame_current' = 0
  /\ Go(w, "mode")
  /\ UNCHANGED <<mutexVars, mode, bg, blur_size, desktop, req>>

\* Mutant of StoreMode: the mode is set before the desktop is known.
StoreModeEarly(w) ==
  /\ At(w, "mode") \/ At(w, "DESKTOP")
  /\ In(w)
  /\ mode' = req[w].mode
  /\ UnlockAndAnswer(w)
  /\ UNCHANGED <<bg, blur_size, desktop, cap, reading>>

\* The mode is set last, then the lock given back.
StoreMode(w) ==
  /\ At(w, "mode") \/ At(w, "CLEAR")
  /\ In(w)
  /\ mode' = req[w].mode
  /\ UnlockAndAnswer(w)
  /\ UNCHANGED <<bg, blur_size, desktop, cap, reading>>
-----------------------------------------------------------------------------
StartFrame ==
  /\ At(Main, "loop") /\ Out(Main)
  /\ Lock(Main, AppLock)
  /\ Go(Main, "frame")
  /\ UNCHANGED <<settings, reading, req>>

\* generate_background: every mode but VIDEO gives a background at once.
Generate ==
  /\ At(Main, "frame") /\ In(Main)
  /\ \/ mode # "VIDEO" /\ Unlock(Main) /\ Go(Main, "loop")
     \/ mode = "VIDEO" /\ Go(Main, "video") /\ UNCHANGED mutexVars
  /\ UNCHANGED <<settings, reading, req>>

\* Mutant of Rewinds: the test as it stands, made before the increment.
RewindsLate == cap_frame_current = FrameCount[cap] - 1

\* cap_frame_current == cap_frame_count - 1, after the increment.
Rewinds == cap_frame_current + 1 = FrameCount[cap] - 1

(* One turn of "while (raw.empty())", with matter_mutex held: read, count, *)
(* and go back to the first frame before the last one is read.             *)
ReadVideo ==
  /\ At(Main, "video") /\ In(Main)
  /\ cap_frame_current < MaxReads
  /\ IF Rewinds
     THEN cap_frame_current' = 0 /\ position' = 0
     ELSE /\ cap_frame_current' = cap_frame_current + 1
          /\ position' = IF position < Frames[cap] THEN position + 1 ELSE position
  /\ IF position < Frames[cap]
     THEN Unlock(Main) /\ Go(Main, "loop")
     ELSE UNCHANGED <<mutexVars, pc>>
  /\ UNCHANGED <<settings, req>>

Locking(t) ==
  /\ LockSteps(t)
  /\ UNCHANGED <<settings, reading, pc, req>>

Receive(w) ==
  \/ ClearBackground(w) \/ BlurBackground(w) \/ SetBackground(w)
  \/ DesktopBackground(w) \/ VideoBackground(w)

Handle(w) ==
  \/ Enter(w) \/ StoreBlur(w) \/ StoreImage(w) \/ StoreDesktop(w)
  \/ StoreVideo(w) \/ StoreMode(w)

Next ==
  \/ StartFrame \/ Generate \/ ReadVideo
  \/ \E w \in Workers : Receive(w) \/ Handle(w)
  \/ \E t \in Threads : Locking(t)

Spec == Init /\ [][Next]_vars

(* Threads run; the server need not receive anything, and matter_mutex     *)
(* does not pass over the waiting frame loop for ever.                     *)
Fairness ==
  /\ WF_vars(Generate \/ ReadVideo)
  /\ \A w \in Workers : WF_vars(Handle(w))
  /\ \A t \in Threads : WF_vars(Locking(t))
  /\ SF_vars(Acquire(Main) /\ UNCHANGED <<settings, reading, pc, req>>)

FairSpec == Spec /\ Fairness
-----------------------------------------------------------------------------
TypeOK ==
  /\ MutexTypeOK
  /\ mode \in BackgroundModes
  /\ bg \in Images \cup {Green}
  /\ blur_size \in Sizes
  /\ desktop \in Desktops \cup {Nothing}
  /\ cap \in Videos \cup {Nothing}
  /\ position \in Nat
  /\ cap_frame_current \in -1 .. MaxReads
  /\ pc \in [Threads -> {"loop", "frame", "video", "idle", "lock", "mode"}
                          \cup BackgroundModes]
  /\ req \in [Workers -> [mode : BackgroundModes,
                          value : Images \cup {Unreadable, Nothing} \cup Sizes
                                    \cup Desktops \cup Videos]]

(* A frame is never given a mode whose desktop or video is not there yet:  *)
(* generate_background would take the geometry -1, or loop for ever on no   *)
(* capture.                                                                *)
ModeHasItsData ==
  /\ mode = "DESKTOP" => desktop # Nothing
  /\ mode = "VIDEO" => cap # Nothing

(* While the frame loop reads a video, possibly over many turns of its     *)
(* loop, no handler changes the settings or rewinds the video under it.    *)
FrameSettingsSteady ==
  [][At(Main, "video") \/ (At(Main, "frame") /\ In(Main)) => UNCHANGED settings]_vars

(* The counter of frames is compared for equality, so it must never get    *)
(* past the place where it is put back: for every video of two frames or   *)
(* more, whatever videos were shown before, it stays below.                *)
RewindNotMissed ==
  cap # Nothing /\ FrameCount[cap] >= 2 => cap_frame_current < FrameCount[cap] - 1

(* The counter follows the stream: they differ only when the stream ended  *)
(* before the number of frames its header gives.                           *)
CounterFollowsStream ==
  cap # Nothing =>
    \/ position = cap_frame_current
    \/ position = Frames[cap] /\ cap_frame_current > position

\* A video of which generate_background never gets a frame again.
Endless(v) == v # Nothing /\ (FrameCount[v] < 2 \/ Frames[v] = 0)

(* The frame loop gets its background and gives the mutex back, unless a   *)
(* handler lost the mutex, or the video has no frames or only one: for     *)
(* such a video it holds the mutex for ever.                               *)
FramesEnd ==
  At(Main, "frame") ~>
    \/ At(Main, "loop")
    \/ At(Main, "video") /\ Endless(cap)
    \/ \E w \in Workers : Leaked(w)
=============================================================================
