# Matterialize in TLA+

Matterialize takes frames from a webcam, replaces what is behind the person and
writes the result to a virtual camera, while an HTTP server changes the settings.
This directory models its concurrent core in TLA+, checks the models with TLC and
proves with TLAPS what holds for any number of threads. Paths below are relative to
`src/src/files/` of the repository.

## Inventory

| Part | State | Operations | What makes it correct |
|---|---|---|---|
| Frame loop (`app/matterialize_app`) | `running`, `matter`, `matter_mutex`, `matter_lock` | `run`, `process_frame` | a frame is matted with one live matter and one background; a shutdown ends the loop |
| Matters manager (`matting/manager`) | running mode and matter, clean plate, one `MatterState` per mode | get/set mode, update configuration, import, clean plate, pause/resume | the running matter is the instance of the running mode, alive and built from the values in force; nothing leaked or deleted twice |
| Matter configuration (`matting/matter_config`) | one JSON object per mode; the file `~/.matterialize/config.json` | `update`, `get`, export to and import from the file | consistent while a matter runs; the file has values in force while it was written, an import loads every field |
| Matters (`matting/*`) | what they were built from | `init_matter`, `background_mask` | which fields are read when, how a refused value ends |
| Matter handler, server handler (`server/`) | none | one handler per route | every request ends |
| Background handler, settings (`server/background_handler`, `util/background_settings`) | mode, picture, blur, desktop, video and its counter | one handler per mode, `generate_background` | a frame sees one setting; a video is put back in time; the loop over its frames ends |
| Input camera (`camera/opencv_webcam`, `camera/opencv_webcam_controls`, `server/camera_handler`) | device, capture, `isAvailable`, `device_mutex`; the device's automatic exposure | `grab`, `roll`, `changeDevice`, `enable_automatic`, `disable_automatic` | no frame comes from a capture being changed; a failed change leaves the program running and the flag exact; frames have the exposure of the plate |
| Recording handler (`server/recording_handler`) | `recording`, `recording_pid`, the child process | start, stop, cleanup | when a stop has answered, the recording has ended |
| Cleanup (`util/cleanup_handler`, `mains/matterialize`) | pointers to what is to be stopped | `perform_cleanup_actions` at the end and on six signals | every part is stopped before exit(), the cameras after the server, also when it is re-entered; it ends |
| Construction (`app/matterialize_app`), endpoint (`server/server_endpoint`) | the thread of the server | the constructor, `start`, `shutdown` | a cleanup may begin at any point of it |
| Benchmark (`benchmatte`) | local to one request | compose, run, score, average, report | a foreground is placed inside its background; every matter built is deleted; an average counts each pixel once and is what is reported; a bad file does not end the server |
| Fake cameras (`camera/fake_webcam`, `util/converter`) | the output, which may be NULL | conversion to YUYV, `write` | each byte is of the right channel of the right pixel |
| V4L2 output (`lib/v4l2cpp`) | descriptor, formats, mapped buffers, partial write | create, start, stop, write, partial writes, formats, delete | nothing left behind by a refused device; no buffer lost; the format is the one asked for; no invalid access on an output that works |
| Video device listing (`util/video_devices`) | none | `get_devices` | the app's own cameras are never offered as input |
| Background cut models | none | image models | not modelled |

How they interact: the main thread runs the frame loop. Pistache runs the handlers on
two threads (`thr{2}`, `app/matterialize_app.hpp:37`). The two sides share
`matter_mutex`, the pointer `matter` (the manager holds a reference to it) and the
background settings. The mutex is taken through three `std::unique_lock` members: the
app's, the manager's and the background handler's. A unique_lock is no thread-safe
object, and the two workers share the last two. The camera has a mutex of its own.
Each picture ends in `FakeWebcam::write`, on the main thread, for two output cameras.
The capture half of the vendored V4L2 library and the old Kotlin application are no part
of the running program.

What is hard: two workers race on the ownership flag of a lock object; state is
tested before the lock is taken (`matters_manager.cpp:35, :52, :73`); exceptions and
early returns leave sections with the mutex locked (`matters_manager.cpp:76`,
`matterialize_app.cpp:16`, `background_handler.cpp:121, :149`); matters are deleted
and rebuilt lazily under a second pointer to them; a value is refused long after it
was accepted; the camera's flag is read without its mutex and its controls are set
without it; configurations are copied, exported and imported without any lock; the
calls of the V4L2 library fail one by one and go on; a cleanup runs as a signal handler,
on several threads and in the middle of itself. `PROJECT.json` lists each at its line.

## Modules

**MatterMutex** is the mutex and the lock objects. `mutex` is the owner, `owns[l]` the
flag of a lock object, `stage[t]` how far a thread is in lock(), its section or
unlock(), `via[t]` the lock object it uses. lock() tests the flag (`Lock`), waits for
the mutex (`Acquire`) and sets the flag (`SetOwns`); unlock() tests the flag
(`Unlock`), gives the mutex back (`Release`) and clears the flag (`ClearOwns`).
`Leave` is a section left without unlock(). These are libstdc++'s steps, an external
part of the model, with sequentially consistent accesses to the racing flag.

**MattersManager** is the engine: frame loop, manager, states, configurations and
their handlers. It EXTENDS MatterMutex and drives its steps. `pc[t]` is the statement
a thread is at and `req[w]` the locals of a handler. The statements map to actions as
follows; each is atomic, so the handlers interleave with each other and with the
frame loop between any two.

| Code | Actions |
|---|---|
| `get_running_mode` | `GetMode`, `Enter`, `FinishGet` |
| `set_running_mode` | `SetMode`, `Fetch`, `Build`, `Enter`, `Assign` |
| `update_config` | `UpdateConfig` (with `Choose`), `Enter`, `RejectConfig` or `WriteField` and `ConfigWritten`, `Delete`, `Nullify`, `Fetch`, `Build`, `Store` |
| `load_configs` | `LoadConfigs`, `NextMode`, then as `update_config` for each mode |
| `take_clean_plate`, `update_clean_plate` | `TakePlate`, `Pause`, `Enter`, `Roll`, `Resume`, `Unpause`, `Publish`, `Sweep`, `Enter`, `Delete`, `Nullify`, `Fetch`, `Build`, `Store` |
| `shutdown_server` | `Shutdown` |
| `run`, `process_frame` | `StartFrame`, `Grab`, `Matted`, `EndLoop` |
| `perform_cleanup_actions`, also after abort() or an uncaught exception | `Exit` |

Matters are names in `heap`, with the mode, plate and values they were built from; a
deleted name is not given to a new object while a pointer still holds it, so a
dangling pointer is never mistaken for a good one. A value is a member of a small set,
some of them refused by the matter (`BadValues`): by `stod()` for a string that is no
number, by OpenCV for one it cannot use. When it is refused depends on the field: as an
argument of `init_matter` (an exception), in a noexcept constructor (the process ends)
or for each frame (an uncaught exception on the main thread). Both simplifications of
order are nondeterministic choices: the fields of one update are written in any order,
and the modes are swept in any order, because the map is sorted by address.

**MatterService** is what the engine promises while requests come one after the other:
every request works at once on a mode, a configuration and a plate, and a frame is
matted as they say when it begins. `MattersManager` implements it: `ServiceSpec` is
`INSTANCE MatterService` with the running mode, the configurations, the published plate,
the modes whose instance is older than it, and the matter of the frame as its variables.

**ConfigFile** is the configurations again, here with what is read and written of them
without a lock: the copy that an export makes, the file, the parsed text an import works
through, and a process that may end at any point and start anew. A file is a text (a
value for every field), or `Absent`, `Empty` (truncated, not yet written) or `Broken`
(no JSON). `seen` and `saved` are history.

| Code | Actions |
|---|---|
| `MatterConfig::update` | `Update`, `WriteField`, `EndUpdate` |
| `export_file`, `save_configs`, `dump_matters_config` | `Export`, `CopyField`, `Open`, `Close` |
| `import_file`, `load_configs` | `Import`, `NextMode`, `WriteField`, `EndUpdate`, `EndImport` |
| `exit()` and a new process | `Restart` |

**Backgrounds** is the background handler, the settings and `generate_background`,
again over MatterMutex. A video is two numbers, the frames its header promises and the
frames that can be read, and `ReadVideo` is one turn of `while (raw.empty())`.

**InputCamera** is the camera and its users, with the two mutexes: a plate and a frame
take `device_mutex` inside `matter_mutex`, a change takes it alone. `capture` is the
device that is open, or `Closed`; any opening may fail. `auto[d]` is the exposure
control of the device itself, which outlives the capture. A picture carries two ghost
values, the device it came from and the device `disable_automatic` acted on before it.
Two variables are history: `plated`, the devices of which a steady plate was ever
published, and `left`, those a change of device left with their controls on.

| Code | Actions |
|---|---|
| `set_camera`, `changeDevice` | `SetCamera`, `Attempt`, `LockDevice`, `Stop`, `Retarget`, `Open` |
| `take_clean_plate` | `TakePlate`, `Pause`, `EnableAutomatic`, `Roll`, `DisableAutomatic`, `Shoot`, `Resume`, with `LockDevice` before each grab |
| `update_clean_plate` | `Publish`, then `Sweep` for each mode that needs a plate and `Rebuild` for the one that runs |
| `run`, `process_frame` | `StartFrame`, `LockDevice`, `Frame`, `Exit` |

`enable_automatic` and `disable_automatic` use the capture without `device_mutex`. If
a change is closing or opening it at that moment the access is a data race, and the
model lets it act, do nothing or end the process. The number in a `POST /camera/set` is
checked against `GetDevices` of **VideoDevices**: the lines that the shell command leaves
of an arbitrary list, taken for names and numbers by turns.

`Resume` only unlocks. The plate is published by a step of its own, outside every lock,
so that before it frames run against the old plate, other workers change the device and
publish plates of their own. Which of them the running matter was built from is
MattersManager's; here a frame may be compared with any plate ever published
(`plated`), which is every plate it may be. `Rebuild` is the section of
`update_clean_plate`: it throws with `matter_mutex` locked if the plate in force is empty,
whichever worker published it, or if a value is refused (`Refusals`), which can also end
the process. Whether one of the `PlateModes` modes that need a plate is running is a
nondeterministic choice for each of them, since it may be set at any time.

**Lifecycle** is the way up and the way down. `Construct` makes the parts in the
constructor's order, and the CleanupHandler learns of each after it was started;
`Signal` starts a cleanup on any thread at any time, and again on a thread that is in
one. A cleanup never returns, so a re-entered one replaces the one below it: one place
per thread is its whole stack. `pointer`, `stopped` and `registered` are sets of parts;
`late` holds, as a ghost, what was registered when some cleanup had already begun. A
null pointer or a second join() in a cleanup is a signal to its own thread (`Fault`).
exit() is one step that ends the process.

| Code | Actions |
|---|---|
| `MatterializeApp`'s constructor | `StartServer`, `Register` |
| `run`, `handle_signal` | `EndLoop`, `Signal` |
| `perform_cleanup_actions`, for each of its six pointers | `Test`, `Act` (or `StalePointer`; for the thread `Join`, `Joined`), `Forget`; at last `Exit` |
| `ServerEndpoint::shutdown` | the recording's steps, then `Act`; the server's thread ends with `ServerEnds` |
| `start_recording` | `StartRecording`, `SetFlag`, `SetPid` |
| `stop_recording`, `RecordingHandler::cleanup` | `StopRecording`, `TestRecording`, `ClearRecording`, `Kill`, `Wait` |

ffmpeg is taken to be installed, and ends by itself or after SIGINT (`ChildEnds`).
`recording_pid` may be stale, 0 or -1, and `Meant` says which processes kill() and
waitpid() then mean.

**Benchmark** is one `GET /matters/benchmark`. A file is its number of rows and columns,
a mask the set of its foreground pixels, a confusion matrix a function on the pairs of
what a pixel is and what it is taken for. Sizes are scaled as fractions, where the
program uses doubles. The predicted mask, the pairing of files (a directory has no
order) and the sizes are arbitrary; a score keeps the predicted mask as a ghost, to say
later what the average should be. The files are taken to be pictures.

| Code | Actions |
|---|---|
| `Benchmark`'s constructor, `Compositor::compose` | `Compose`, `Push`, or an exception |
| `Benchmark::run` | `Run`, `InitMatter` for each mode, `Score` (or `ScoreExits`) for each mode, both for each picture, `AverageMode` for each mode |
| `BenchmarkResults` | `Report` |

**VideoOutput** is one output camera, from the NULL that `create` may return to the
driver's side of the ring: `stream` has the number of buffers, those mapped, those queued
with the driver and whether it streams. Every ioctl, mmap, open and write may fail, and
what the code then leaves is what the model leaves: the loops of `start` go on after a
failure and only clear `success`. The program writes with iotype readwrite; mmap is the
library's default for its callers. The uninitialised members of a new `V4l2Device` are
arbitrary. Accesses outside a mapping, and through NULL, may end the process.

Where the code trusts the driver the model does not. VIDIOC_REQBUFS may be granted at any
time, also while buffers are mapped or the device streams; `start()` then forgets the
mappings (`orphans`, a ghost). A `write()` takes any part of a frame (`taken`), and the
next one goes on there, as in a file, or begins a new picture: `offset` is the byte of the
device's picture where it begins. The device may have another size than the frames
(`size`, out of `OtherSizes`), which the code only warns about. `torn` remembers, as a
ghost, that one of the two has happened since the device was opened. What the driver does
not do: grant more buffers than were asked for, or answer a size without pixels.

| Code | Actions |
|---|---|
| `V4l2Output::create`, `V4l2Device::init`, `configureFormat` | `Create` or `CreateFails`; then `CreateStarts` (mmap) and `CreateRefuses` |
| `FakeWebcam::write` | `WriteFrame` with `Converter`, or `UseNull` |
| `V4l2MmapDevice::start`, `stop`, `writeInternal` | `Start`, `Stop`, `WriteBuffer` |
| `startPartialWrite`, `writePartialInternal`, `endPartialWrite` | `StartPartialWrite`, `WritePartial`, `EndPartialWrite` |
| `setFormat`, `queryFormat`, destructors | `SetFormat`, `QueryFormat`, `Delete` |

**Converter** is `to_YUYV`: the turns of its two loops, the bytes each writes and the pixels
each reads, for any size; `Packed` is the format, written without loops. A row of odd
length makes a turn reach into the next row, or out of the picture (`Overruns`).

**MC...** modules hold the small instances; **...Proofs** modules hold the proofs.

How they compose: MattersManager EXTENDS MatterMutex and INSTANCEs MatterService,
Backgrounds and InputCamera EXTEND MatterMutex, InputCamera also VideoDevices, VideoOutput
EXTENDS Converter. MattersManager, Backgrounds and InputCamera each have the frame loop and one handler
class over the same MatterMutex; a mutex lost by one stops the others, which
`LeakIsForever` says once for all lock objects. In these three the end of the process
is one step, which Lifecycle takes apart.

## Runs

| Run | Instance | Shows |
|---|---|---|
| `engine_serial` | 2 workers whose requests come one at a time, 3 modes, 2 plates, a good and a refused value, lost frames, a shutdown at any moment | what a frame is matted with; ownership of matters; where the mutex can be lost; no field changes under a frame; the engine implements MatterService |
| `engine_live` | 1 worker, 2 modes, accepted values only, fairness | every request ends; shutdown ends the process |
| `engine_two_workers` | 2 workers, no imports | exclusion; an abandoned mutex stays abandoned; sole grabber, running matter not exchanged under a frame, refinement of MatterMutex |
| `engine_asserts` | as the engine's | a disagreement, see below |
| `backgrounds` | 1 worker, videos of 1 frame, of 2 and of 2 out of 4, fairness | one setting per frame, mode after data, rewind in time; the loop over frames ends |
| `camera_two_workers` | 2 workers, 2 devices and an output of the app, openings that fail, empty frames, refused values, any list of two devices | camera consistent between changes, changes and grabs exclude each other, frames have the exposure of every plate that may be in force; which devices are offered |
| `camera_live` | 1 worker, 2 modes that need a plate, fairness | requests end; changes and plates do not lock the frame loop out, but an empty plate with such a mode running does |
| `lifecycle` | the main thread and 1 worker, 1 process id, a signal, fairness | every part stopped before exit(), cameras after the server, a stopped recording has ended, a cleanup ends the process but for two named cases |
| `benchmark` | 2 modes, 2 pictures of 2 pixels, files of up to 6 by 6 | foregrounds inside backgrounds, matters freed, averages count right, which files end the server |
| `benchmark_report` | as `benchmark`, files of up to 2 by 2 | a disagreement, see below |
| `video_output` | 2 buffers of 2 bytes, writes of up to 3, 2 pixel formats, frames of up to 2 by 4, 2 other sizes of a device, device, file or nothing | what a crash needs, what is left behind, no buffer lost, the format in force, where the bytes of a frame come to be |
| `config_file` | 2 workers, 3 modes with none, one and one field, 2 values of different length | what an export has written, what an import has loaded |

Bounds. The three modes stand for the four of the program: one that needs nothing
(None and OpenCV behave alike), one that needs a plate and has a field read for every
frame, one that needs a plate and is rebuilt for some fields. Two values and two plates
are enough to tell old from new; three or four object names are enough for the
instances plus one dangling name per worker. Two workers are the program's number.
`NoImports` leaves the import out with two workers, since it only repeats updates,
which the two workers do anyway. `MaxReads` bounds the counter of a video of one frame,
which grows for ever. Permutations of names, plates and workers are
symmetric in runs without liveness: no definition tells one from another. Deadlock is checked where the system cannot stop; with two workers it
can, since a mutex may be lost, and the cfg says so.

`Rolls` is 1 for the 60 frames rolled before a plate: a turn changes nothing but the
count. Two devices are an old and a new one. One mode that needs a plate is enough for two
workers to race in its section, and two let one section follow another. `Backgrounds` runs
with one worker, for the counter and the liveness; that its safety properties hold for
any number is proved. In `Lifecycle` one signal beside the end of the loop gives two
concurrent cleanups, or one that is re-entered, and the faults they cause add more; one
worker is enough for a signal on a thread that is not the main one, and one process id,
taken again or not there because fork() failed, for a stale one (for workers that race to
start or to stop, and any number of ids, see `RecordingsEnd`). In `Benchmark` sizes up to six give every parity of the three
roundings, with foregrounds up to six times too large (for all sizes see
`TransformInside`); two pictures and two modes tell the last from the average, and a
mode's row from a picture's.

In `VideoOutput` two buffers are one written or lost while the other is with the driver; a
write longer than a buffer is cut; two rows of up to four pixels have every parity, the
last row and one that is not; one of the other sizes is shorter than most frames, and one
taller (for all sizes see `SentWhole`, `EvenRowsPacked` and `BytesHold`). In
`ConfigFile` two workers are the program's number, and a default text that is longer
than the other shows the end of a longer text that a shorter one leaves behind.

Why some properties limit what overlaps: a request of one worker can find the flag of the
shared lock object set or cleared by the other; the mutex is then lost, or a matter is built
twice. This is what `engine_asserts` and the hazards describe. The properties of
`engine_serial` say what the manager promises when requests come one at a time, which is
how the user interface sends them, whichever worker takes each: in `SerialSpec` a worker
takes a request only while no other serves one. `POST /shutdown` only tells the frame loop
to end, and may come at any moment. `RecordingStopped` needs less: starts may race with
starts and stops with stops, but `ApartSpec` has no stop between the two statements of a
start, which would leave the new process to nobody (with the one worker of `lifecycle` it
excludes nothing). The liveness of `engine_live` and
`CameraRequestsEnd` have one worker, because they need the mutex not to be lost; so has
`FramesGoOn`, which excepts the one way left, an empty plate.

Fairness. Every thread that can run runs (WF of the steps of a handler, of the locks
and of the frame loop). No fairness is assumed of the arrival of requests, nor of
`StartFrame`, because the camera may stay unavailable. `Acquire` has strong fairness:
a waiting thread is not passed over for ever by pthread_mutex_lock. Without it a frame
loop that locks and unlocks without a pause could starve a handler. The same holds of
`LockDevice` for `device_mutex`. In Lifecycle the server ends when it is shut down
(Pistache remembers a shutdown, also one before serve()), a child ends when it was sent
SIGINT, and a stack that is filled again and again by abort() is full at last. Nothing
makes a recording end by itself, the loop end or a signal arrive.

What `CleanupEnds` excepts are two ways in which the code does hang. A stop that runs
while another worker starts a recording waits for the new process and never told it to
end. And a signal on a worker that arrives between lines 63 and 64 of
`matterialize_app.cpp` begins a cleanup that finds no server to shut down; it then joins
a thread that goes on serving if line 65 comes before its test.

## Findings

- `engine_asserts`: the assertions of `pause_running_matter` and
  `resume_running_matter` look at a flag another worker can change.
- `benchmark_report`: `BenchmarkResults` takes the last element of each mode's own row
  (`benchmark_result.cpp:15`), the score of the last picture, and calls it `avg_result`;
  the averages are in the last row.

More facts the models show, which no line of the repository denies. `update_config`
deletes the running matter before it builds the new one (`matters_manager.cpp:57`), so
that a refused value leaves the frame loop with the deleted one; `FrameMatter` excepts
exactly this. With two workers it tests the running mode before it locks (`:52`) and can
write the running matter's configuration during a frame; `ConfigSteady` is for requests
that come one at a time. And two exports at once can leave a file that is no JSON, a longer text's end behind a
shorter text; `ExportFresh` speaks of exports that no other overlaps. After one empty grab
for a plate with a mode that needs it running, the frames end for ever, because
`update_clean_plate` throws with `matter_mutex` locked (`matters_manager.cpp:74-76`);
`FramesGoOn` excepts exactly this (`EmptyPlateLeaks`). A change of device between
`enable_automatic` and `disable_automatic` leaves the old device adjusting its exposure;
`ExposureSteady` excepts it (`left`) until a later plate of that device. A second `start()` on a
driver that grants it leaves the first mappings behind, and a short `write()`, or a device
of another size, can displace every later picture; `NothingLeft` and `SentPacked` say so.

## Proofs

All hold for any number of threads, workers, modes, fields, values and objects, from
the named assumptions of the modules only. Those of the engine assume at least one worker; the
program has two.

- *MatterMutexProofs*. `MutexInv` adds to the types that a thread inside a section owns
  the mutex, and that a thread in lock() or unlock() is a user of that lock object. It
  is inductive although flags lie, because a section is entered with the mutex and not
  with the flag. From it: `MutexExclusion`, `LeakPermanent`, `MutexTypeCorrect`, and
  with the flag facts of a sole user `SoleUserFlagExact`.
- *MattersManagerProofs*. `EngineImplementsMutex`: each step of the engine is a step of
  MatterMutex or leaves its variables alone, so everything above holds in the engine.
  `TypeCorrect` includes the locals of the handlers (the fields still to be written
  belong to the mode of the request). `OnlyOneGrabs` and `FramesUndisturbed` need one
  more invariant, that the frame loop mats inside its section; a worker that exchanges
  the matter would be inside another section at the same time.
  For requests one at a time, `SerialInv` is inductive: there is a worker `w` with
  `ServesInv(w)`. `Alone` says that every other worker is idle and outside the locks. So each
  step is one of `w` or of the main thread; or `w` too is idle again, and then whatever
  `ServesInv` says of `w` holds of the worker that takes over (`WhoServes`, `TakesOver`).
  `Place` says where in the code a handler can be while its thread is inside, outside or
  between the two tests of the flag, and with which request; `Flags` that the manager's flag
  tells the truth, because the workers write it one after the other, and that it stays set
  when the mutex is lost, so that a later request ends in an exception and not in a section.
  `Owned` is `Ownership` with what is known between the delete and the assignment of
  `reinit_matter`; `Given` that the pointer a handler holds is still the instance of its
  mode; `LostInPlate` where the mutex can have been lost, by whichever worker (`Lost`). On
  these rests `Sound`: unless the mutex is lost, every instance is built from the values and
  the plate in force (`FreshMode`, but for the one a handler has just outdated), `running_matter` is the
  instance of the running mode unless a handler is replacing it inside its section, and a
  mode runs without its plate only until it is rebuilt. The mutex then does the rest: while
  a frame is matted no worker is in a section, so none of the exceptions is left. This
  gives `FramesMatted`, `OwnershipKept`, `LeaksExplained` and `ConfigsSteady`.
  `ServiceImplemented` is the refinement of MatterService. It needs three facts more: no
  mode waits for a plate before there is one, no matter was built from a refused value
  (so a mode that is set is valid), and the frame loop never uses the matter of another
  mode (so a delete outside a section is not seen by a frame, even where `FrameMatter`
  promises nothing). Each step is then one of the service or not seen by it: lock(),
  unlock(), building and storing are stutters, `Publish` is `NewPlate`, `Delete` of a mode
  is `Renew`, a cleanup during a frame is `EndFrame`.
- *BackgroundsProofs*. The same refinement; `BackgroundTypes` with `HandlersTyped` (what
  a handler's locals hold at each statement); `FramesSettled` from exclusion;
  `RewindsInTime` and `CounterFollows` from what sets and reads a video, the second
  strengthened by "the stream is never past its end"; `ModesHaveData`, strengthened by
  "a handler that has only the mode left to set has stored its data".
- *InputCameraProofs*. The same refinement and `CameraTypes`. `DeviceHeld` says who has
  `device_mutex`: a thread in a change always, one in a section of `matter_mutex` only
  while it grabs; `CameraStaysConsistent` and `GrabsExcludeChanges` follow with what each
  statement of a change leaves behind. `FramesKeepExposure` needs both mutexes. A worker
  that has taken a plate holds it outside every lock until it publishes it, so that one
  invariant speaks of the published plates and of those on their way. `SectionHeld` says
  that between `enable_automatic` and `disable_automatic` a worker is inside
  `matter_mutex`, and `PlatesSteady` that the device of every steady plate, published or
  still held by a worker, has its controls off, unless such a worker has it among those it
  turned on, or a change of device left it so (`left`). While the frame loop grabs it has
  `matter_mutex`, so the first exception is gone (`StepPlates` has a case for each step).
  `InputNeverOutput` is about the parser: whatever v4l2-ctl prints and the command mangles,
  no output of the app is ever the input; `InputNotOutput` is carried by the device that a
  request has chosen. `DevicesAreOffered` is the other half, for
  every list in which no name has two dashes, which the command would remove with grep's
  separators: the lines it leaves are names and files by turns (`PipedKeepsAll`,
  `PrintedByTurns`), so that every device but the app's own is offered under its number. It
  rests on `ListingsAssumption`, that the name of a file (`/dev/video0`) has no two dashes.
- *LifecycleProofs*. `LifecycleTypes`. `ExitsComplete` and `ServerBeforeCameras` share
  `CleanInv`: a part whose pointer was cleared has been stopped (a part is forgotten after
  it was stopped), and a cleanup that has passed a part leaves it forgotten or, as a part
  registered too late, in `late`; the cameras come after the thread of the server in
  `Order`. It holds for any number of threads, signals and re-entries because it speaks of
  each thread's place alone. `RecordingsEnd`, for any number of workers, rests on
  `RecorderInv`: until a cleanup begins, a start that has forked ends with the flag set, since
  no stop overlaps it, and a stop that cleared the flag, or found that another had, waits for
  the process of the id; when all have answered none is left.
- *BenchmarkProofs*. `TransformInside`, about `Transform` alone and for all sizes: both
  scalings keep the fraction within the background, and `RoundedRest` bounds what
  round() and int() do to the rest. `PlacesInside`, `MattersAreFreed` and
  `ExitsForMisfits` share `BenchmarkInv`: the matters there are those between the
  counters of the two loops, and a mask with one of the two sizes fits. `AveragesCount` and
  `BenchmarkTypes` (with the types of the scores) need `RowsInv` beside it: what the rows of a
  mode hold after each turn of the two loops. That the fold over a row adds up what its
  elements count is an induction over the length of the row, made without an induction
  theorem: of the lengths at which it fails there would be a least one.
- *VideoOutputProofs*. Arithmetic first: `EvenRowsPacked`, for all sizes with rows of
  even length `to_YUYV` gives the format and no turn leaves the picture; `BytesHold`, the
  formulas of brightness and colour stay within a byte for every pixel. Then one inductive
  invariant, `OutputInv`: `RingInv` says which buffers are queued, mapped, lost or held by
  a partial write, its other parts what an object has that `create` returned. From it
  `OutputTypes`, `CrashesExplained`, `NothingLeftBehind`, `RingLosesNoBuffer` and
  `FormatsKnown`. `NothingLeftBehind` assumes nothing of the driver's answer to
  VIDIOC_REQBUFS. It rests on a part of `RingInv`: what `m_buffer` has mapped is below
  `n_buffers` after any failure, so that stop() and the destructors, which unmap as many,
  leave nothing; and a mapping is forgotten only by a `start()` that found `n_buffers` set.
  `SentWhole` says where each byte of a frame comes to be, for every size and every part
  that a `write()` takes: with `EvenRowsPacked`, and with `WholeSoFar` (as long as no write
  was short and the size is that of the frames, the next write begins a picture), which
  needs the history of all writes.
- *ConfigFileProofs*, for any number of workers. `ExportsFresh`: `ExportHeld` says that
  every value already copied is one the field had since the request began, and that the
  history knows the value the field has now.
  `ImportsApplied`: `ImportInv` says that a field whose mode is loaded has the text's value
  or one given meanwhile, and the fields of the mode being loaded those already written.

Model-checked only: the liveness properties `RequestsEnd`, `ShutdownStops`, `FramesEnd`,
`CameraRequestsEnd`, `FramesGoOn` and `CleanupEnds`, which are out of the prover's reach. Every
safety property of the passing runs is stated by a theorem.

## Plan

Done, in order: MatterMutex; MattersManager; Backgrounds; InputCamera with the device list;
Lifecycle with the recordings; Benchmark; the output with Converter and VideoOutput; the
configuration file; MatterService and the proof that the engine implements it; the proofs
of all safety properties; those of the engine for any number of workers whose requests come
one at a time.

Left: what two racing workers keep of `MatterService` (nothing is lost but the mutex, when the
two handlers race on the flag).

Not modelled, and why:

- Pixels: the matting of a frame (OpenCV's subtractors, the models of the background cut),
  blending, blurring and the scores of the benchmark are floating-point arithmetic by
  OpenCV. `contrast_model.cpp` and `color_term` are compiled but never called.
- `V4l2Capture` and the logger of v4l2cpp: the program takes its pictures through OpenCV.
- The routes of Pistache, the JSON of the answers, `benchmatte` on the command line.
- Failures that change no state a property speaks of: a file that cannot be written by an
  export (the stream is not tested, `matters_manager.cpp:87`, and the answer says it was
  written), a configuration string read while another worker writes it, a downscale factor
  of zero (a signal ends the process), an `execlp` that fails (the child goes on as a second
  server, `recording_handler.cpp:37`), `matter_config.cpp:71-74` (a description without a
  return).
- The driver's answer to a request for buffers that gives more of them than were asked for
  (`V4l2MmapDevice.cpp:69` does not test it).
- Sizes of integers: the counter of a video wraps around after 2^31 frames, run times of
  the benchmark start from an uninitialised sum.
