------------------------- MODULE BackgroundsProofs -------------------------
(* Theorems about the backgrounds, for any workers, videos and desktops.   *)
EXTENDS Backgrounds, MatterMutexProofs

LEMMA BackgroundThreads ==
  /\ Main \in Threads /\ Workers \subseteq Threads
  /\ AppLock \in Locks /\ BackgroundLock \in Locks
  /\ \A w \in Workers : w # Main
  BY BackgroundAssumption

\* A step of the backgrounds is a step of matter_mutex or leaves it alone.
LEMMA BackgroundMutexStep == [Next]_vars => [MutexNext]_mutexVars
<1> SUFFICES ASSUME [Next]_vars PROVE [MutexNext]_mutexVars
  OBVIOUS
<1> USE BackgroundThreads DEF MutexNext
<1>1. CASE UNCHANGED vars
  BY <1>1 DEF vars
<1>2. CASE StartFrame \/ Generate \/ ReadVideo
  BY <1>2 DEF StartFrame, Generate, ReadVideo
<1>3. ASSUME NEW w \in Workers, Receive(w) PROVE UNCHANGED mutexVars
  BY <1>3 DEF Receive, ClearBackground, BlurBackground, SetBackground,
              DesktopBackground, VideoBackground, Ask
<1>4. ASSUME NEW w \in Workers, Handle(w) PROVE [MutexNext]_mutexVars
  <2>1. CASE Enter(w)
    BY <2>1 DEF Enter
  <2>2. CASE StoreBlur(w) \/ StoreImage(w) \/ StoreVideo(w)
    BY <2>2 DEF StoreBlur, StoreImage, StoreVideo
  <2>3. CASE StoreDesktop(w)
    BY <2>3 DEF StoreDesktop, UnlockAndAnswer
  <2>4. CASE StoreMode(w)
    BY <2>4 DEF StoreMode, UnlockAndAnswer
  <2> QED
    BY <1>4, <2>1, <2>2, <2>3, <2>4 DEF Handle
<1>5. ASSUME NEW t \in Threads, Locking(t) PROVE MutexNext
  BY <1>5 DEF Locking
<1> QED
  BY <1>1, <1>2, <1>3, <1>4, <1>5 DEF Next

(* The background handler and the frame loop use matter_mutex as           *)
(* MatterMutex allows: what is proved of it holds here.                    *)
THEOREM BackgroundsImplementMutex == Spec => MutexSpec
  BY BackgroundMutexStep, PTL DEF Spec, Init, MutexSpec

LEMMA BackgroundMutexInv == Spec => []MutexInv
  BY BackgroundsImplementMutex, MutexInvHolds, PTL

\* A step of a handler is taken outside a section or inside its own.
LEMMA HandlerSettings ==
  ASSUME NEW w \in Workers, Receive(w) \/ Handle(w), ~In(w)
  PROVE  UNCHANGED <<settings, reading>>
  BY DEF Receive, ClearBackground, BlurBackground, SetBackground,
         DesktopBackground, VideoBackground, Ask, Handle, Enter, StoreBlur,
         StoreImage, StoreDesktop, StoreVideo, StoreMode, settings, reading

\* What the locals of a handler hold at each of its statements.
RequestTyped(r) ==
  /\ r.mode = "STATIC" => r.value \in Images \cup {Unreadable}
  /\ r.mode = "BLUR" => r.value \in Sizes
  /\ r.mode = "DESKTOP" => r.value \in Desktops
  /\ r.mode = "VIDEO" => r.value \in Videos

HandlersTyped ==
  \A w \in Workers :
    /\ RequestTyped(req[w]) \/ pc[w] = "idle"
    /\ pc[w] \in BackgroundModes => req[w].mode = pc[w]

LEMMA NoRequestTyped ==
  /\ NoRequest \in [mode : BackgroundModes,
                    value : Images \cup {Unreadable, Nothing} \cup Sizes
                              \cup Desktops \cup Videos]
  /\ RequestTyped(NoRequest)
  BY DEF NoRequest, RequestTyped, BackgroundModes

LEMMA InitTyped == Init => TypeOK /\ HandlersTyped
  BY MutexInitInv, BackgroundThreads, BackgroundAssumption, NoRequestTyped
     DEF Init, MutexInv, TypeOK, HandlersTyped, BackgroundModes

\* The types but for the mutex, whose steps are MatterMutex's.
LEMMA StepTyped ==
  TypeOK /\ HandlersTyped /\ MutexTypeOK' /\ [Next]_vars => (TypeOK /\ HandlersTyped)'
<1> SUFFICES ASSUME TypeOK, HandlersTyped, MutexTypeOK', [Next]_vars
             PROVE  (TypeOK /\ HandlersTyped)'
  OBVIOUS
<1> USE BackgroundThreads, BackgroundAssumption, NoRequestTyped
    DEF TypeOK, HandlersTyped, BackgroundModes
<1>1. CASE UNCHANGED vars
  BY <1>1 DEF vars, settings, reading
<1>2. CASE StartFrame \/ Generate
  BY <1>2 DEF StartFrame, Generate, settings, reading, Go
<1>3. CASE ReadVideo
  BY <1>3 DEF ReadVideo, settings, Go
<1>4. ASSUME NEW w \in Workers, Receive(w) PROVE (TypeOK /\ HandlersTyped)'
  <2>1. ASSUME NEW m \in BackgroundModes, NEW values, Ask(w, m, values),
               \A v \in values :
                 /\ RequestTyped([mode |-> m, value |-> v])
                 /\ v \in Images \cup {Unreadable, Nothing} \cup Sizes
                            \cup Desktops \cup Videos
        PROVE  (TypeOK /\ HandlersTyped)'
    BY <2>1 DEF Ask, Go, At, settings, reading
  <2>2. \A v \in {Nothing} : RequestTyped([mode |-> "CLEAR", value |-> v])
    BY DEF RequestTyped
  <2>3. \A v \in Sizes : RequestTyped([mode |-> "BLUR", value |-> v])
    BY DEF RequestTyped
  <2>4. \A v \in Images \cup {Unreadable} :
          RequestTyped([mode |-> "STATIC", value |-> v])
    BY DEF RequestTyped
  <2>5. \A v \in Desktops : RequestTyped([mode |-> "DESKTOP", value |-> v])
    BY DEF RequestTyped
  <2>6. \A v \in Videos : RequestTyped([mode |-> "VIDEO", value |-> v])
    BY DEF RequestTyped
  <2>7. CASE ClearBackground(w)
    BY <2>1, <2>2, <2>7 DEF ClearBackground
  <2>8. CASE BlurBackground(w)
    BY <2>1, <2>3, <2>8 DEF BlurBackground
  <2>9. CASE SetBackground(w)
    BY <2>1, <2>4, <2>9 DEF SetBackground
  <2>10. CASE DesktopBackground(w)
    BY <2>1, <2>5, <2>10 DEF DesktopBackground
  <2>11. CASE VideoBackground(w)
    BY <2>1, <2>6, <2>11 DEF VideoBackground
  <2> QED
    BY <1>4, <2>7, <2>8, <2>9, <2>10, <2>11 DEF Receive
<1>5. ASSUME NEW w \in Workers, Handle(w) PROVE (TypeOK /\ HandlersTyped)'
  <2> USE DEF Go, Answer, At
  <2>1. CASE Enter(w)
    BY <2>1 DEF Enter, settings, reading
  <2>2. CASE StoreBlur(w)
    BY <2>2 DEF StoreBlur, reading, RequestTyped
  <2>3. CASE StoreImage(w)
    BY <2>3 DEF StoreImage, reading, RequestTyped
  <2>4. CASE StoreDesktop(w)
    BY <2>4 DEF StoreDesktop, UnlockAndAnswer, reading, RequestTyped
  <2>5. CASE StoreVideo(w)
    BY <2>5 DEF StoreVideo, RequestTyped
  <2>6. CASE StoreMode(w)
    BY <2>6 DEF StoreMode, UnlockAndAnswer, reading
  <2> QED
    BY <1>5, <2>1, <2>2, <2>3, <2>4, <2>5, <2>6 DEF Handle
<1>6. ASSUME NEW t \in Threads, Locking(t) PROVE (TypeOK /\ HandlersTyped)'
  BY <1>6 DEF Locking, settings, reading
<1> QED
  BY <1>1, <1>2, <1>3, <1>4, <1>5, <1>6 DEF Next

LEMMA BackgroundTyped == Spec => [](TypeOK /\ HandlersTyped /\ MutexInv)
<1>1. MutexInv' => MutexTypeOK'
  BY DEF MutexInv
<1> QED
  BY <1>1, InitTyped, StepTyped, BackgroundMutexInv, PTL DEF Spec

(* The settings, the locals of the handlers and the state of the mutex     *)
(* keep their types.                                                       *)
THEOREM BackgroundTypes == Spec => []TypeOK
  BY BackgroundTyped, PTL
-----------------------------------------------------------------------------
\* The frame loop reads a video in its section of the mutex.
VideoInside == pc[Main] = "video" => In(Main)

LEMMA StepVideoInside ==
  TypeOK /\ VideoInside /\ [Next]_vars => VideoInside'
<1> SUFFICES ASSUME TypeOK, VideoInside, [Next]_vars PROVE VideoInside'
  OBVIOUS
<1> USE BackgroundThreads DEF TypeOK, MutexTypeOK, VideoInside, In, Go, At
<1>1. CASE UNCHANGED vars
  BY <1>1 DEF vars, mutexVars
<1>2. CASE StartFrame \/ Generate \/ ReadVideo
  BY <1>2 DEF StartFrame, Generate, ReadVideo, Unlock, mutexVars
<1>3. ASSUME NEW w \in Workers, Receive(w) PROVE VideoInside'
  BY <1>3 DEF Receive, ClearBackground, BlurBackground, SetBackground,
              DesktopBackground, VideoBackground, Ask, mutexVars
<1>4. ASSUME NEW w \in Workers, Handle(w) PROVE VideoInside'
  <2>1. /\ pc'[Main] = pc[Main]
        /\ stage'[Main] = stage[Main]
    <3> USE DEF Answer, mutexVars, Lock, Unlock, Leave, UnlockAndAnswer
    <3>1. CASE Enter(w)
      BY <3>1 DEF Enter
    <3>2. CASE StoreBlur(w) \/ StoreVideo(w)
      BY <3>2 DEF StoreBlur, StoreVideo
    <3>3. CASE StoreImage(w)
      BY <3>3 DEF StoreImage
    <3>4. CASE StoreDesktop(w)
      BY <3>4 DEF StoreDesktop
    <3>5. CASE StoreMode(w)
      BY <3>5 DEF StoreMode
    <3> QED
      BY <1>4, <3>1, <3>2, <3>3, <3>4, <3>5 DEF Handle
  <2> QED
    BY <2>1
<1>5. ASSUME NEW t \in Threads, Locking(t) PROVE VideoInside'
  BY <1>5 DEF Locking, LockSteps, Acquire, SetOwns, Release, ClearOwns
<1> QED
  BY <1>1, <1>2, <1>3, <1>4, <1>5 DEF Next

LEMMA VideoInsideHolds == Spec => []VideoInside
<1>1. Init => VideoInside
  BY BackgroundThreads DEF Init, VideoInside
<1> QED
  BY <1>1, StepVideoInside, BackgroundTypes, PTL DEF Spec

(* For any number of workers racing on their lock object, a frame is made  *)
(* from one consistent setting: nothing is set between the moment the      *)
(* frame loop has the mutex and the moment it has its background.          *)
THEOREM FramesSettled == Spec => FrameSettingsSteady
<1>1. /\ MutexInv /\ VideoInside /\ [Next]_vars
      => [At(Main, "video") \/ (At(Main, "frame") /\ In(Main))
            => UNCHANGED settings]_vars
  <2> SUFFICES ASSUME MutexInv, VideoInside, Next,
                      At(Main, "video") \/ (At(Main, "frame") /\ In(Main))
               PROVE  UNCHANGED settings
    OBVIOUS
  <2>1. ASSUME NEW w \in Workers PROVE ~In(w)
    BY BackgroundThreads DEF MutexInv, VideoInside, At, In, Inside
  <2>2. ASSUME NEW w \in Workers, Receive(w) \/ Handle(w) PROVE UNCHANGED settings
    BY <2>1, <2>2, HandlerSettings
  <2>3. CASE StartFrame \/ Generate \/ ReadVideo
    BY <2>3 DEF StartFrame, Generate, ReadVideo
  <2>4. ASSUME NEW t \in Threads, Locking(t) PROVE UNCHANGED settings
    BY <2>4 DEF Locking
  <2> QED
    BY <2>2, <2>3, <2>4 DEF Next
<1> QED
  BY <1>1, BackgroundTyped, VideoInsideHolds, PTL DEF Spec, FrameSettingsSteady
-----------------------------------------------------------------------------
\* The video and its counters change only where a video is set or read.
LEMMA VideoSteps ==
  ASSUME TypeOK, HandlersTyped, [Next]_vars
  PROVE  \/ UNCHANGED <<cap, position, cap_frame_current>>
         \/ ReadVideo
         \/ cap' \in Videos /\ position' = 0 /\ cap_frame_current' = 0
<1> USE DEF settings, reading
<1>1. CASE UNCHANGED vars
  BY <1>1 DEF vars
<1>2. CASE StartFrame \/ Generate
  BY <1>2 DEF StartFrame, Generate
<1>3. ASSUME NEW w \in Workers, StoreVideo(w)
      PROVE  cap' \in Videos /\ position' = 0 /\ cap_frame_current' = 0
  BY <1>3 DEF StoreVideo, HandlersTyped, RequestTyped, At, BackgroundModes
<1>4. ASSUME NEW w \in Workers, Receive(w) \/ Handle(w), ~StoreVideo(w)
      PROVE  UNCHANGED <<cap, position, cap_frame_current>>
  BY <1>4 DEF Receive, ClearBackground, BlurBackground, SetBackground,
         DesktopBackground, VideoBackground, Ask, Handle, Enter, StoreBlur,
         StoreImage, StoreDesktop, StoreMode
<1>5. ASSUME NEW t \in Threads, Locking(t)
      PROVE  UNCHANGED <<cap, position, cap_frame_current>>
  BY <1>5 DEF Locking
<1> QED
  BY <1>1, <1>2, <1>3, <1>4, <1>5 DEF Next

LEMMA StepRewind ==
  TypeOK /\ HandlersTyped /\ RewindNotMissed /\ [Next]_vars => RewindNotMissed'
<1> SUFFICES ASSUME TypeOK, HandlersTyped, RewindNotMissed, [Next]_vars
             PROVE  RewindNotMissed'
  OBVIOUS
<1> USE BackgroundAssumption DEF RewindNotMissed, TypeOK
<1>1. CASE UNCHANGED <<cap, position, cap_frame_current>>
  BY <1>1
<1>2. CASE ReadVideo
  BY <1>2 DEF ReadVideo, Rewinds, settings
<1>3. CASE cap' \in Videos /\ position' = 0 /\ cap_frame_current' = 0
  BY <1>3
<1> QED
  BY <1>1, <1>2, <1>3, VideoSteps

(* For every video of two frames or more, and any sequence of videos set   *)
(* by any number of workers, the counter never passes the place where it   *)
(* is put back.                                                            *)
THEOREM RewindsInTime == Spec => []RewindNotMissed
<1>1. Init => RewindNotMissed
  BY DEF Init, RewindNotMissed
<1> QED
  BY <1>1, StepRewind, BackgroundTyped, PTL DEF Spec

\* The stream is never past its end, and the counter follows it.
StreamInv ==
  /\ cap # Nothing => position <= Frames[cap]
  /\ CounterFollowsStream

LEMMA StepStream ==
  TypeOK /\ HandlersTyped /\ StreamInv /\ [Next]_vars => StreamInv'
<1> SUFFICES ASSUME TypeOK, HandlersTyped, StreamInv, [Next]_vars
             PROVE  StreamInv'
  OBVIOUS
<1> USE BackgroundAssumption DEF StreamInv, CounterFollowsStream, TypeOK
<1>1. CASE UNCHANGED <<cap, position, cap_frame_current>>
  BY <1>1
<1>2. CASE ReadVideo
  <2>1. cap' = cap /\ (cap # Nothing => Frames[cap] \in Nat)
    BY <1>2 DEF ReadVideo, settings
  <2>2. CASE Rewinds
    BY <1>2, <2>1, <2>2 DEF ReadVideo
  <2>3. CASE ~Rewinds
    BY <1>2, <2>1, <2>3 DEF ReadVideo
  <2> QED
    BY <2>2, <2>3
<1>3. CASE cap' \in Videos /\ position' = 0 /\ cap_frame_current' = 0
  BY <1>3
<1> QED
  BY <1>1, <1>2, <1>3, VideoSteps

(* The counter and the stream agree, for any videos: they part only where  *)
(* a stream ends before the number of frames its header gives.             *)
THEOREM CounterFollows == Spec => []CounterFollowsStream
<1>1. Init => StreamInv
  BY DEF Init, StreamInv, CounterFollowsStream
<1>2. StreamInv => CounterFollowsStream
  BY DEF StreamInv
<1> QED
  BY <1>1, <1>2, StepStream, BackgroundTyped, PTL DEF Spec
-----------------------------------------------------------------------------
(* A handler that has only the mode left to set has stored what the mode   *)
(* needs.                                                                  *)
DataStored ==
  \A w \in Workers : pc[w] = "mode" =>
    /\ req[w].mode = "DESKTOP" => desktop # Nothing
    /\ req[w].mode = "VIDEO" => cap # Nothing

DataInv == ModeHasItsData /\ DataStored

LEMMA StepData ==
  TypeOK /\ HandlersTyped /\ DataInv /\ [Next]_vars => DataInv'
<1> SUFFICES ASSUME TypeOK, HandlersTyped, DataInv, [Next]_vars
             PROVE  DataInv'
  OBVIOUS
<1> USE BackgroundThreads, BackgroundAssumption
    DEF DataInv, ModeHasItsData, DataStored, TypeOK, HandlersTyped, BackgroundModes,
        Go, At, settings
<1>1. CASE UNCHANGED vars
  BY <1>1 DEF vars
<1>2. CASE StartFrame \/ Generate \/ ReadVideo
  BY <1>2 DEF StartFrame, Generate, ReadVideo
<1>3. ASSUME NEW w \in Workers, Receive(w) PROVE DataInv'
  BY <1>3 DEF Receive, ClearBackground, BlurBackground, SetBackground,
              DesktopBackground, VideoBackground, Ask
<1>4. ASSUME NEW w \in Workers, Handle(w) PROVE DataInv'
  <2> USE DEF Answer, NoRequest, RequestTyped
  <2>1. CASE Enter(w)
    BY <2>1 DEF Enter
  <2>2. CASE StoreBlur(w)
    BY <2>2 DEF StoreBlur
  <2>3. CASE StoreImage(w)
    BY <2>3 DEF StoreImage
  <2>4. CASE StoreDesktop(w)
    BY <2>4 DEF StoreDesktop, UnlockAndAnswer
  <2>5. CASE StoreVideo(w)
    BY <2>5 DEF StoreVideo
  <2>6. CASE StoreMode(w)
    BY <2>6 DEF StoreMode, UnlockAndAnswer
  <2> QED
    BY <1>4, <2>1, <2>2, <2>3, <2>4, <2>5, <2>6 DEF Handle
<1>5. ASSUME NEW t \in Threads, Locking(t) PROVE DataInv'
  BY <1>5 DEF Locking
<1> QED
  BY <1>1, <1>2, <1>3, <1>4, <1>5 DEF Next

(* No frame is given a mode before its desktop or its video is there, for  *)
(* any number of workers.                                                  *)
THEOREM ModesHaveData == Spec => []ModeHasItsData
<1>1. Init => DataInv
  BY BackgroundThreads DEF Init, DataInv, ModeHasItsData, DataStored
<1>2. DataInv => ModeHasItsData
  BY DEF DataInv
<1> QED
  BY <1>1, <1>2, StepData, BackgroundTyped, PTL DEF Spec
=============================================================================
