---------------------------- MODULE VideoOutput ----------------------------
(***************************************************************************)
(* The output cameras: FakeWebcam on top of the classes of v4l2cpp         *)
(* (V4l2Output, V4l2Access, V4l2Device, V4l2ReadWriteDevice and            *)
(* V4l2MmapDevice).  The program writes its frames with iotype readwrite;  *)
(* with mmap the library keeps a ring of buffers that it shares with the   *)
(* driver.  The calls of one object come from one thread.  What an ioctl,  *)
(* mmap, open or write answers is the driver's choice, in stream, format,  *)
(* size, offset and the branches of the actions: it may also grant buffers *)
(* while there are some, take part of a frame, or use another size.        *)
(***************************************************************************)
EXTENDS Converter, FiniteSets

CONSTANTS
  NbBuffers,   \* V4L2MMAP_NBBUFFER; the driver grants no more than asked for
  Length,      \* the bytes of a buffer
  MaxWrite,    \* the longest write
  MaxRows,     \* the sizes of frames
  MaxCols,
  OtherSizes,  \* the sizes a device may have instead of the one asked for
  Asked,       \* V4L2_PIX_FMT_YUYV, the only format in m_formatList
  Formats,     \* the pixel formats of the driver
  Nothing      \* no format

ASSUME OutputAssumption ==
  /\ NbBuffers \in Nat \ {0}
  /\ Length \in Nat \ {0}
  /\ MaxWrite \in Nat /\ MaxRows \in Nat \ {0} /\ MaxCols \in Nat \ {0}
  /\ OtherSizes \subseteq [rows : Nat \ {0}, cols : Nat \ {0}]
  /\ Asked \in Formats /\ Nothing \notin Formats

VARIABLES
  iotype,    \* which of the two classes m_device has
  path,      \* what m_devName names: a device, a file, or nothing to open
  output,    \* V4l2Output *: "none" before create(), "null" or an "object"
             \* after; in create(), "opened" or "failed"
  fd,        \* m_fd # -1
  stream,    \* n_buffers, the mappings in m_buffer; the driver's side of them
  partial,   \* m_partialWriteInProgress
  pbuf,      \* index and bytesused of m_partialWriteBuf
  format,    \* [m: m_format, driver: the format of the device]
  size,      \* the size of the device's pictures
  offset,    \* the byte of such a picture where the next write begins
  told,      \* history: whether the last start() reported success, and the
             \* format the caller was last told, Nothing after a refusal
  stale,     \* history: partial was not set on the present stream
  lost,      \* history: the buffers whose VIDIOC_QBUF failed
  orphans,   \* history: start() forgot a mapping that nobody had unmapped
  again,     \* history: start() was called on buffers that stop() had not freed
  torn,      \* history: a write was short, or made with another size, since open
  frame,     \* the size of the frames
  taken,     \* how many bytes of the last frame the device took
  up         \* no invalid access has been made

device == <<output, fd, stream, format>>
write == <<partial, pbuf, stale>>
mappings == <<orphans, again>>
picture == <<size, offset, torn, taken>>
fixed == <<iotype, path, frame>>
vars == <<device, write, told, lost, mappings, fixed, picture, up>>
-----------------------------------------------------------------------------
Buffers == 0 .. NbBuffers - 1
NoStream == [n |-> 0, mapped |-> {}, queued |-> {}, on |-> FALSE]

(* What the loops of V4l2MmapDevice::start leave when VIDIOC_REQBUFS       *)
(* grants n buffers: a failure of QUERYBUF, mmap, QBUF or STREAMON only    *)
(* clears success.                                                         *)
Started == UNION {[n : {n}, mapped : SUBSET (0 .. n - 1),
                   queued : SUBSET (0 .. n - 1), on : BOOLEAN] : n \in 0 .. NbBuffers}

\* Mutant of Succeeded: a mapping that failed does not count.
SucceededUnmapped(s) == s.queued = 0 .. s.n - 1 /\ s.on

\* Every call that start() made after VIDIOC_REQBUFS succeeded.
Succeeded(s) == s.mapped = 0 .. s.n - 1 /\ s.queued = s.mapped /\ s.on

(* start() returned true.  On a stream that is still on, or has buffers    *)
(* queued, the driver may refuse one of the calls and be in the same state.*)
Reports(s, success) ==
  \/ success = Succeeded(s)
  \/ success = FALSE /\ (stream.on \/ stream.queued # {})

(* V4l2MmapDevice::start.  A driver may grant VIDIOC_REQBUFS at any time,  *)
(* also while it streams or buffers are mapped, or refuse it; a plain file *)
(* refuses it.  Once it is granted the memset of m_buffer forgets what was *)
(* mapped.                                                                 *)
StartStream ==
  \/ /\ told' = [told EXCEPT !.start = FALSE]
     /\ UNCHANGED <<stream, stale, lost, mappings>>
  \/ /\ path = "device"
     /\ stream' \in Started
     /\ \E success \in BOOLEAN :
          /\ Reports(stream', success)
          /\ told' = [told EXCEPT !.start = success]
          /\ lost' = IF success THEN {} ELSE lost
     /\ stale' = TRUE
     /\ orphans' = (orphans \/ stream.mapped # {})
     /\ again' = (again \/ stream.n > 0)

\* Mutant of Stopped: the buffers are forgotten without munmap.
StoppedMapped(s, off) == [n |-> 0, mapped |-> s.mapped, queued |-> {}, on |-> FALSE]

(* V4l2MmapDevice::stop: whatever STREAMOFF answers, the n_buffers buffers *)
(* are unmapped and n_buffers is 0.                                        *)
Stopped(s, off) == [n |-> 0, mapped |-> s.mapped \ (0 .. s.n - 1),
                    queued |-> IF off THEN {} ELSE s.queued, on |-> s.on /\ ~off]

(* ~V4l2MmapDevice stops, ~V4l2Device closes the descriptor, with which    *)
(* the driver ends what is left of the stream, but not of the mappings.    *)
Destroy == fd' = FALSE /\ stream' = Stopped(stream, TRUE)

\* The uninitialised members of a new V4l2Device, which mmap devices read.
Uninitialised ==
  /\ partial' \in (IF iotype = "mmap" THEN BOOLEAN ELSE {FALSE})
  /\ pbuf' = [index |-> 0, used |-> 0]
  /\ stale' = TRUE

Init ==
  /\ iotype \in {"readwrite", "mmap"}
  /\ path \in {"device", "file", "nothing"}
  /\ output = "none" /\ fd = FALSE /\ stream = NoStream
  /\ partial = FALSE /\ pbuf = [index |-> 0, used |-> 0] /\ stale = TRUE
  /\ format \in [m : {Asked}, driver : Formats]
  /\ told = [start |-> TRUE, format |-> Nothing]
  /\ lost = {}
  /\ frame \in [rows : 1 .. MaxRows, cols : 1 .. MaxCols]
  /\ iotype = "mmap" => frame = [rows |-> 1, cols |-> 2]
  /\ size = frame /\ offset = 0 /\ torn = FALSE /\ taken = 0
  /\ orphans = FALSE /\ again = FALSE
  /\ up = TRUE
-----------------------------------------------------------------------------
\* Mutant of ConfigureFormat: the answer of S_FMT is taken as it comes.
ConfigureAnything == \E f \in Formats : format' = [m |-> f, driver |-> f]

\* configureFormat for the only format asked for, which S_FMT may change:
\* then the device is refused.
ConfigureFormat == format' = [m |-> Asked, driver |-> Asked]

\* The bytes of a picture of that size.
BytesOf(s) == 2 * s.rows * s.cols

(* Another size is only warned about.  A plain file has none of its own:   *)
(* whoever reads it takes the size of the frames.                          *)
Sizes == {frame} \cup (IF path = "device" /\ iotype = "readwrite" THEN OtherSizes ELSE {})

(* V4l2Output::create, in the constructor of FakeWebcam: V4l2Device::init  *)
(* opens a character device and configures it, or else opens a plain file, *)
(* which it makes if there is none.                                        *)
Create ==
  /\ up /\ output = "none"
  /\ path # "nothing"
  /\ output' = IF iotype = "mmap" THEN "opened" ELSE "object"
  /\ fd' = TRUE
  /\ IF path = "device" THEN ConfigureFormat ELSE UNCHANGED format
  /\ told' = [start |-> TRUE, format |-> Asked]
  /\ size' \in Sizes /\ offset' = 0 /\ torn' = FALSE /\ taken' = 0
  /\ Uninitialised
  /\ lost' = {}
  /\ UNCHANGED <<stream, mappings, fixed, up>>

\* V4l2Device::init fails: it closes what it had opened.
CreateFails ==
  /\ up /\ output = "none"
  /\ output' = "failed"
  /\ fd' = FALSE
  /\ format' \in [m : {Asked}, driver : Formats]
  /\ Uninitialised
  /\ lost' = {}
  /\ UNCHANGED <<stream, told, mappings, fixed, picture, up>>

\* V4l2MmapDevice::init goes on to start().
CreateStarts ==
  /\ up /\ output = "opened"
  /\ StartStream
  /\ output' = IF told'.start THEN "object" ELSE "failed"
  /\ UNCHANGED <<fd, format, partial, pbuf, fixed, picture, up>>

\* create() deletes the device that init() failed on, and returns NULL.
CreateRefuses ==
  /\ up /\ output = "failed"
  /\ Destroy
  /\ output' = "null"
  /\ UNCHANGED <<format, write, told, lost, mappings, fixed, picture, up>>

(* FakeWebcam keeps the NULL of create() and calls through it: start(),    *)
(* write() and stop() alike.                                               *)
UseNull ==
  /\ up /\ output = "null"
  /\ up' = FALSE
  /\ UNCHANGED <<device, write, told, lost, mappings, fixed, picture>>

Uses == up /\ output = "object"
Ring == Uses /\ iotype = "mmap"

\* start() of a readwrite device does nothing.
Start ==
  /\ Ring
  /\ StartStream
  /\ UNCHANGED <<output, fd, format, partial, pbuf, fixed, picture, up>>

\* stop(); a partial write in progress is not ended.
Stop ==
  /\ Ring
  /\ \E off \in BOOLEAN : stream' = Stopped(stream, off)
  /\ stale' = TRUE
  /\ UNCHANGED <<output, fd, format, partial, pbuf, told, lost, mappings, fixed,
                 picture, up>>

\* ~V4l2Access: the device stops and is closed, the object may be made again.
Delete ==
  /\ Uses
  /\ Destroy
  /\ output' = "none"
  /\ partial' = FALSE /\ pbuf' = [index |-> 0, used |-> 0] /\ stale' = TRUE
  /\ lost' = {}
  /\ UNCHANGED <<format, told, mappings, fixed, picture, up>>
-----------------------------------------------------------------------------
(* V4l2Access::setFormat: refused by the driver, accepted, or accepted     *)
(* with another pixel format, which the driver then has and m_format has   *)
(* not.  The driver may take any size.                                     *)
SetFormat ==
  /\ Uses
  /\ \E f \in Formats :
       \/ /\ told' = [told EXCEPT !.format = Nothing]
          /\ UNCHANGED <<format, size, offset>>
       \/ /\ path = "device"
          /\ size' \in Sizes /\ offset' = offset % BytesOf(size')
          /\ \E g \in Formats :
               /\ format' = [m |-> IF g = f THEN f ELSE format.m, driver |-> g]
               /\ told' = [told EXCEPT !.format = IF g = f THEN f ELSE Nothing]
  /\ UNCHANGED <<output, fd, stream, write, lost, mappings, fixed, torn, taken, up>>

\* V4l2Access::queryFormat, when the driver answers.
QueryFormat ==
  /\ Uses /\ path = "device"
  /\ format' = [format EXCEPT !.m = format.driver]
  /\ told' = [told EXCEPT !.format = format.driver]
  /\ UNCHANGED <<output, fd, stream, write, lost, mappings, fixed, picture, up>>
-----------------------------------------------------------------------------
\* The bytes that write() took, from the first on.
Sent == [k \in 0 .. taken - 1 |-> ToYUYV(frame.rows, frame.cols)[k]]

(* FakeWebcam::write on a readwrite device: the frame is converted, which  *)
(* may leave the picture if a row is odd, and given to one write(), which  *)
(* takes any part of it; nobody looks at the answer.  The next write goes  *)
(* on where this one ended, as in a file, or begins a new picture.         *)
WriteFrame ==
  /\ Uses /\ iotype = "readwrite"
  /\ taken' \in 0 .. BytesOf(frame)
  /\ offset' \in {0, (offset + taken') % BytesOf(size)}
  /\ torn' = (torn \/ size # frame \/ taken' \notin {0, BytesOf(frame)})
  /\ IF Overruns(frame.rows, frame.cols) THEN up' \in BOOLEAN ELSE UNCHANGED up
  /\ UNCHANGED <<device, write, told, lost, mappings, fixed, size>>

\* VIDIOC_DQBUF gives a buffer the driver has, if it is done with one.
Dequeues(i) == stream.n > 0 /\ stream.on /\ i \in stream.queued

\* VIDIOC_QBUF of a buffer that the driver has not.
Queue(i, others) ==
  \/ stream' = [stream EXCEPT !.queued = others \cup {i}] /\ lost' = lost \ {i}
  \/ stream' = [stream EXCEPT !.queued = others] /\ lost' = lost \cup {i}

\* Mutant of Requeue: writeInternal does not give the buffer back.
RequeueNothing(i) == stream' = [stream EXCEPT !.queued = @ \ {i}] /\ UNCHANGED lost

Requeue(i) == Queue(i, stream.queued \ {i})

\* V4l2MmapDevice::writeInternal: DQBUF, memcpy, QBUF.
WriteBuffer ==
  /\ Ring
  /\ \E i \in Buffers :
       /\ Dequeues(i)
       /\ IF i \in stream.mapped THEN Requeue(i) /\ UNCHANGED up
                                 ELSE up' = FALSE /\ UNCHANGED <<stream, lost>>
  /\ UNCHANGED <<output, fd, format, write, told, mappings, fixed, picture>>

StartPartialWrite ==
  /\ Ring /\ ~partial
  /\ \E i \in Buffers :
       /\ Dequeues(i)
       /\ stream' = [stream EXCEPT !.queued = @ \ {i}]
       /\ pbuf' = [index |-> i, used |-> 0]
  /\ partial' = TRUE
  /\ stale' = FALSE
  /\ UNCHANGED <<output, fd, format, told, lost, mappings, fixed, picture, up>>

\* Mutant of Fill: what is there already is not counted.
FillFromStart(used, more) == IF more > Length THEN Length ELSE used + more

\* bytesused after more bytes: truncated to the buffer's length.
Fill(used, more) == IF used + more > Length THEN Length ELSE used + more

(* writePartialInternal.  A buffer of another stream, or an m_partialWrite-*)
(* Buf never written, may be anywhere.                                     *)
WritePartial ==
  /\ Ring /\ partial /\ stream.n > 0
  /\ \E more \in 0 .. MaxWrite : pbuf' = [pbuf EXCEPT !.used = Fill(@, more)]
  /\ IF stale \/ pbuf.index \notin stream.mapped THEN up' \in BOOLEAN ELSE UNCHANGED up
  /\ UNCHANGED <<device, partial, stale, told, lost, mappings, fixed, picture>>

\* endPartialWrite; the driver refuses a buffer it has, and one it never gave.
EndPartialWrite ==
  /\ Ring /\ partial
  /\ partial' = FALSE
  /\ IF stream.n > 0 /\ pbuf.index \in 0 .. stream.n - 1 \ stream.queued
     THEN Queue(pbuf.index, stream.queued)
     ELSE UNCHANGED <<stream, lost>>
  /\ UNCHANGED <<output, fd, format, pbuf, stale, told, mappings, fixed, picture, up>>

Next ==
  \/ Create \/ CreateFails \/ CreateStarts \/ CreateRefuses
  \/ UseNull \/ Start \/ Stop \/ Delete
  \/ SetFormat \/ QueryFormat
  \/ WriteFrame \/ WriteBuffer
  \/ StartPartialWrite \/ WritePartial \/ EndPartialWrite

Spec == Init /\ [][Next]_vars
-----------------------------------------------------------------------------
TypeOK ==
  /\ iotype \in {"readwrite", "mmap"}
  /\ path \in {"device", "file", "nothing"}
  /\ output \in {"none", "opened", "failed", "null", "object"}
  /\ fd \in BOOLEAN
  /\ stream \in [n : 0 .. NbBuffers, mapped : SUBSET Buffers,
                 queued : SUBSET Buffers, on : BOOLEAN]
  /\ partial \in BOOLEAN
  /\ pbuf \in [index : Buffers, used : 0 .. Length]
  /\ format \in [m : Formats, driver : Formats]
  /\ told \in [start : BOOLEAN, format : Formats \cup {Nothing}]
  /\ stale \in BOOLEAN /\ up \in BOOLEAN
  /\ lost \in SUBSET Buffers
  /\ orphans \in BOOLEAN /\ again \in BOOLEAN /\ torn \in BOOLEAN
  /\ frame \in [rows : 1 .. MaxRows, cols : 1 .. MaxCols]
  /\ size \in {frame} \cup OtherSizes
  /\ offset \in 0 .. BytesOf(size) - 1 /\ taken \in 0 .. BytesOf(frame)

(* An invalid access is made only through the NULL that create() returned, *)
(* on a stream whose start() reported failure, by a partial write that was *)
(* not begun on the present stream, or by converting a row of odd length:  *)
(* never by what the program or a careful caller does on an output that    *)
(* works.                                                                  *)
CrashExplained ==
  ~up => \/ output = "null"
         \/ iotype = "mmap" /\ (~told.start \/ (partial /\ stale))
         \/ iotype = "readwrite" /\ frame.cols % 2 = 1

(* An output that create() refused, or that was deleted, leaves nothing    *)
(* behind, whichever calls failed and however it was used: no descriptor   *)
(* and no mapping in m_buffer.  A mapping is lost, for as long as the      *)
(* program runs, only if start() was called again before stop().  And an   *)
(* output that exists has its descriptor.                                  *)
NothingLeft ==
  /\ output \in {"none", "null"} => ~fd /\ stream.mapped = {}
  /\ output = "object" => fd
  /\ orphans => again

(* The ring loses no buffer: on a stream that start() reported started,    *)
(* every buffer is the driver's, or the one a partial write of this stream *)
(* holds, or one the driver refused to take back; and the one a partial    *)
(* write holds is never the driver's.                                      *)
HeldBuffers ==
  told.start /\ output = "object" /\ stream.n > 0 =>
    \A i \in 0 .. stream.n - 1 :
      i \notin stream.queued <=>
        i \in lost \/ (partial /\ ~stale /\ pbuf.index = i)

(* m_format and the format of the device are the one the caller was told,  *)
(* unless the last setFormat() reported failure: a device that chose       *)
(* another format than the one asked for is never written to as if it had  *)
(* accepted.                                                               *)
FormatKnown ==
  output = "object" /\ path = "device" /\ told.format # Nothing =>
    format.m = told.format /\ format.driver = told.format

(* What the device takes of a frame with rows of even length is at its     *)
(* place: the byte where the next write begins, and every one after it, is *)
(* the channel and pixel that belongs there in a picture, also after many  *)
(* frames and in the last one that is cut short.  That needs a device with *)
(* the size of the frames that took every earlier frame whole: nothing     *)
(* looks at the size a device answers, or at what write() took, and from   *)
(* such a frame on the pictures may be displaced.                          *)
SentPacked ==
  [][frame.cols % 2 = 0 /\ size = frame /\ ~torn /\ WriteFrame =>
       \A k \in DOMAIN Sent' :
         Sent'[k] = Packed(frame.rows, frame.cols)[(offset + k) % BytesOf(size)]]_vars
=============================================================================
