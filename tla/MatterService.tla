--------------------------- MODULE MatterService ---------------------------
(***************************************************************************)
(* What the matting engine promises while its requests come one after the  *)
(* other: every request works at once, on a mode, a configuration and a    *)
(* plate, and a frame is matted as they say when it begins.  There are no  *)
(* matters to build, keep and delete, no pointers and no locks.            *)
(* MattersManager implements it (ServiceSpec).                             *)
(***************************************************************************)
CONSTANTS Modes, InitialMode, PlateModes, Fields, FrameFields, Values, BadValues,
          DefaultValue, Plates, Empty, NoFrame

VARIABLES
  mode,      \* the mode that runs
  config,    \* the values of the fields of every mode
  plate,     \* the clean plate, Empty before one is taken
  renewing,  \* the modes that may still mat with an older plate
  frame      \* what a frame is being matted with, or NoFrame

vars == <<mode, config, plate, renewing, frame>>
-----------------------------------------------------------------------------
\* The values a frame of mode m is matted with, but for those of FrameFields.
Setting(m) == [f \in Fields[m] \ FrameFields |-> config[m][f]]

Valid(m) == \A f \in Fields[m] \ FrameFields : config[m][f] \notin BadValues

\* Nothing is promised of the frames of a mode without its plate or with a
\* value that is refused.
Broken == ~Valid(mode) \/ (mode \in PlateModes /\ plate = Empty)

Init ==
  /\ mode = InitialMode
  /\ config = [m \in Modes |-> [f \in Fields[m] |-> DefaultValue]]
  /\ plate = Empty
  /\ renewing = {}
  /\ frame = NoFrame

\* A mode is set between two frames, and never one with a value it refuses.
SetMode ==
  /\ frame = NoFrame
  /\ \E m \in Modes : Valid(m) /\ mode' = m
  /\ UNCHANGED <<config, plate, renewing, frame>>

\* No value of the running mode changes during a frame.
WriteField ==
  /\ \E m \in Modes : \E f \in Fields[m], v \in Values :
       /\ frame # NoFrame => m # mode
       /\ config' = [config EXCEPT ![m][f] = v]
  /\ UNCHANGED <<mode, plate, renewing, frame>>

\* A new plate is there, though no mode uses it yet.
NewPlate ==
  /\ renewing = {}
  /\ plate' \in Plates \cup {Empty}
  /\ renewing' = PlateModes
  /\ UNCHANGED <<mode, config, frame>>

\* Some modes have it, the running one from the next frame on.
Renew ==
  /\ renewing' \in SUBSET renewing
  /\ mode \in renewing \ renewing' => frame = NoFrame
  /\ UNCHANGED <<mode, config, plate, frame>>

BeginFrame ==
  /\ frame = NoFrame
  /\ frame' # NoFrame
  /\ \/ Broken
     \/ /\ frame' \in [mode : {mode}, setting : {Setting(mode)}, plate : Plates \cup {Empty}]
        /\ frame'.plate = plate \/ mode \in renewing \/ mode \notin PlateModes
  /\ UNCHANGED <<mode, config, plate, renewing>>

EndFrame ==
  /\ frame # NoFrame
  /\ frame' = NoFrame
  /\ UNCHANGED <<mode, config, plate, renewing>>

Next == SetMode \/ WriteField \/ NewPlate \/ Renew \/ BeginFrame \/ EndFrame

Spec == Init /\ [][Next]_vars
=============================================================================
