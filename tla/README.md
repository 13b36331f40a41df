# Prollyglot, specified in TLA+

Prollyglot is a desktop application (Rust behind Tauri, TypeScript in its
WebViews) that captions what a computer plays and translates what its screen
shows, with local models. This directory models the parts of it in which
several threads, tasks or WebViews share state, checks them with TLC on small
instances and proves the most important results with TLAPS for every value of
the constants.

## Inventory

| Component | Source | State it keeps | Operations | What makes it correct |
| --- | --- | --- | --- | --- |
| Session supervisor | `crates/application-runtime/src/supervisor.rs` | the published snapshot, the active session with its token and worker registrations, id counters, a completion channel | start, progress, running, waiting, health, stop, register, drain, finish cleanup, fail, time out | one session at a time; a session is given up only when nothing of it runs; a cancelled session is never shown as live |
| Audio session | `apps/desktop/src-tauri/src/audio.rs`, `transcription.rs` | the resource slot, the control lock, five threads per session | `start_capture`, `stop_capture`, monitor, forwarder, transcription, cleanup | nothing of a session outlives it; stop and failure complete by themselves; start reports what happened |
| Visual session | `apps/desktop/src-tauri/src/visual*.rs`, `portal_parent.rs` | as audio, with a picker, an overlay, its output, and jobs of the main thread | `start_visual_translation`, `stop_visual_translation`, processor, events, monitor, cleanup | as audio; no text of a session after its end; Stop hides the overlay; a lost source is noticed |
| Screen capture on Linux | `crates/visual-pipewire`, `visual_portal.rs`, `visual-pipeline/src/latest.rs` | the desktop's session, a stream with its format, a one-slot frame channel, two event queues, a region | request, negotiate, publish, forward, stop | what stops is unshared; a frame is cropped as drawn; the end and the last picture arrive |
| Reading of the screen | `crates/visual-pipeline`, `visual-ocr-rapid` | accepted fingerprint, areas with their lines, tracks, the token of a pass | sample, prepare, read an area, stabilize, cancel | every place is read in the end; nothing that is gone is reported; nothing is read after a cancel |
| Audio capture | `crates/audio-windows`, `audio-pipewire` | a native stream, the graph or devices it knows, pending reports, a bounded channel | start, open, follow, recover, stop | stop joins; a lost source is waited for; gaps are visible |
| Inference resources | `crates/resource-coordinator`, `src-tauri/src/resources.rs`, `src/inference-resource-reporter.ts` | token to record map, the WebView's lease, the reporter's owners and its serial queue | acquire, release, release a session, report loaded and unloaded | one session owns loaded models; cleanup leaves no record |
| Caption presentation | `src-tauri/src/presentation.rs`, `src/presentation-state.ts`, `src/latest-publisher.ts`, `src/caption-output.ts`, `src/overlay.ts` | the last accepted frame, the overlay's cursor, the publisher's pending frame | publish, accept, clear and hide, roll back | no frame of a stopped session is shown; the overlay ends with the newest frame |
| Translation scheduler | `src/translation-scheduler.ts`, `src/translation.ts` | the active session with queue, active job, executor, preparation | start, stop, restart, prepare, submit, cancel | every job settles once; newest and most important first; loading is not charged |
| Configuration repository | `crates/config`, `src-tauri/src/configuration.rs`, `src/configuration.ts` | numbered snapshot files, the current snapshot, the WebView's copy | load, migrate, quarantine, publish, retain two | a crash at any point leaves a loadable, not older configuration; no lost update |
| Model manager | `crates/model-manager`, `src-tauri/src/models.rs`, `translation.rs` | a model's files, partial files and marker, the catalogue | inspect, install, remove, load | a model is used only when complete and verified; installing again repairs it |
| Runtime cursor and bootstrap | `src/runtime-state.ts`, `src/runtime-bootstrap.ts`, `src/app-store.ts` | the accepted snapshot and the revision floor of visual events | reduce, accept an event, bootstrap | revisions never go back |
| Transcript store | `crates/transcript` | committed segments, one provisional, a revision | partial, final, discard, clear | order, bound, no resurrection of a finished utterance |
| Audio pipeline | `crates/audio-pipeline`, `asr`, `asr-sherpa` | ring buffers, resampler and speech-segmentation state | push, segment, flush | no sample lost inside a segment |
| Screen capture on Windows | `crates/visual-windows` | the capture item and its pool | start, stop | stop joins |
| Native caches | `src/translation-cache.ts`, `translation-read-cache.ts`, `translation-native-stream.ts` | byte ranges | read, stream | what is read is what was verified |
| Visual and caption panels, shell, settings | `src/*.ts` otherwise | what is rendered | render, dispatch | none beyond rendering |

The parts meet in four ways: calls under a mutex (every command and every
thread into the supervisor), threads that report through a channel, events
emitted to WebViews (asynchronous, ordered per emitter only), and IPC commands
from a WebView, which Tauri runs on the main thread when they are synchronous
and on an executor when they are `async`.

What is hard in it: sessions overlap with the clean-up of their predecessors;
decisions are made on snapshots read in an earlier lock section; a clean-up can
be started by three different threads; a slow model load, a slow stop and the
15-second limit race each other; a lock is held while another thread is waited
for; frames, reports and configuration snapshots are delayed, replaced or
overtaken between WebView and host; geometry and frames of a screen come through
two channels; devices, nodes and screens come and go under the thread that
reads them; the executor of translations is killed and replaced under jobs that
wait for it; and the process may end between two steps of a save or of an
installation. PROJECT.json lists each of these with its line and the
properties that are about it.

## Plan

| Order | Module | What it models | Composes | State |
| --- | --- | --- | --- | --- |
| 1 | `SessionOwnership` | what the supervisor promises | | done |
| 2 | `SessionSupervisor` | the supervisor, one action per method | refines 1 | done |
| 3 | `SessionSupervisorProofs` | theorems about 2 | extends 2 | done |
| 4 | `CaptureSession` | the audio session's threads and commands | instantiates 2 | done |
| 5 | `TranslationScheduler` | queue, preparation, executor, deadlines | | done |
| 6 | `InferenceResources` | coordinator, leases, WebView reports | | done |
| 7 | `CaptionPresentation` | slot, publisher, overlay, windows | | done |
| 8 | `ConfigurationStore`, `ConfigurationRepository` | what a save promises, and the directory under crashes | refines the former | done |
| 9 | `ConfigurationSync` | windows and host writing one configuration | | done |
| 10 | `VisualSession` | picker, processor, event thread, monitor, overlay, main thread | instantiates 2 | done |
| 11 | `ModelStore` | installing, checking and using models under crashes | | done |
| 12 | `AudioBackend`, `CaptureChannel`, `WasapiCapture`, `PipeWireCapture` | what a backend promises, and both of them | refine the first | done |
| 13 | `ScreenReading` | gate, areas, stabilizer, cancellation | | done |
| 14 | `ScreenCapture` | portal, stream, region, forwarder | | done |
| 15 | `ModelProofs` | theorems about 11 and 6 | extends them | done |
| 16 | `CaptureBackendsProofs` | theorems about both backends of 12, and about 13 and 14 | extends them | done |
| 17 | `CaptionProofs` | theorems about 5 and 7 | extends them | done |
| 18 | `ConfigurationProofs` | theorems about 8 and 9 | extends them | done |
| 19 | `CaptureSessionProofs` | who holds what of an audio session, until it is given up | extends 4, instantiates 3 | done |
| 20 | `VisualStartProofs`, `VisualSessionProofs` | the same of a visual session, and what the overlay shows | extend 10, instantiate 3 | done |

Every module is written to be proved about where that is planned: constants
with named assumptions, an action per operation, invariants that are
conjunctions of named parts, no RECURSIVE operator in the modules that have
proofs. An `MC` module per run gives the constants their values. Where two
systems share a run (the configuration on disk and in the windows, the two
audio backends, a screen that is read and one that is captured) the `MC`
module extends both and says which one a behaviour is about. The names of the
two are therefore apart: `Windows...` in `ConfigurationSync` (with `pump`, where
its pump is, and `windowVars`), `Wasapi...` and `PipeWire...` in the backends,
`Reading...` in `ScreenReading`. So are those of the components that share a
proof module: `Resources...` in `InferenceResources`, `Captions...` in
`CaptionPresentation`.

Abstract specifications: `SessionOwnership` (sessions take turns, and a turn
ends only when everything enlisted for it has reported); `ConfigurationStore`
(one stored configuration, replaced as a whole at one moment between question
and answer); `AudioBackend` (a start answers once, nothing is sent once the
thread is joined, and nothing after the event that says so).

## The modules and the code

### SessionSupervisor, SessionOwnership

`SessionSupervisor` is `supervisor.rs`. Its variables are the fields of the
struct: the published `snapshot`; `active` with `workers` and
`cleanupFinished` (the fields of `ActiveSession`); the set of `cancelled`
tokens; the two counters; the completion `channel`; and the `reporters` that
callers still hold. Each public method is one action, because callers hold the
mutex for its duration. `drain_worker_completions` is the exception: it is a
loop that holds the mutex while workers, which need no mutex to report, go on
filling the channel; it is therefore `BeginDrain`, any number of `DrainNext`
and `EndDrain`, and no other method runs while `draining`. A method that
returns an error without a change of state is a step that is not taken.

`Fail`, `TryFinalizeCleanup` and `Publish` are the private helpers under the
same names. Modes and sources are members of small sets, an error is the one of
a few kinds, and the texts of progress are left out.

`SessionOwnership` maps `owner` to `active`, `tasks` to the reporters and
completions that are really outstanding (not to the registrations the code
keeps, so that the refinement says that they agree), and `ending` to the token.

### CaptureSession

`audio.rs`, instantiating `SessionSupervisor` with the session's variables.
`start_capture` is an asynchronous command with a program counter per session;
each lock section and each look at the token between two of them is a step.
`stop_capture` runs on the main thread and holds the `control` lock as start
does; the monitor, the forwarder, the transcription thread and the cleanup
worker have a program counter per session. The last lock section of a start
shows the overlay, and asks the main thread for the window's monitor on the way
(`configure_overlay_window`): the start is at `ask`, with `control` in its
hands, until the main thread answers (`ShowOverlay`) or the window cannot be
shown (`DegradeOverlay`). `slot` is
`state.audio.resources`, `leases` the coordinator's speech records. `capture`
is the platform's capture, an external actor. A poll of the monitor that finds
nothing is no step. What goes wrong is chosen at the start of a behaviour by
`env`, from the constant `Scenarios`: a thread that does not start, a model that
does not load, a capture that fails to start, breaks or does not stop, a
recogniser that fails, a panic, and a stop that takes longer than
`SHUTDOWN_TIMEOUT`.

### VisualSession

`visual.rs`, with the same supervisor. It differs from audio in what it shares:
the overlay's `output` and window (`shown`), which the start, the event thread
and clean-ups write; `ui`, the jobs posted to the main thread, which serves
them in their order between its own commands (`visual_linux.rs` waits for the
answer, Windows calls directly); and `job`, a clean-up in the hands of whoever
schedules it (Stop, the start, the monitor). The processor compares a pass with
the snapshot and emits text (`pass`, `text`); the WebView presents it later with
a revision (`frame`), which `update_visual_presentation` looks at twice. When
the emission of a frame fails, the command puts the output back to what was there
before the frame, in a lock section of its own (`undo`) that does not look at what
is there by then; `output.restored`, which no step reads, says that something else
was. The failure of a behaviour (`env.fault`) is one of: the preparation, the
picker, a thread that does not start, a capture that does not stop or reports an
error, a slow Stop, a source that goes away, an OCR that fails on every frame
(`ocr`), and presentations that cannot be emitted (`emit`).

### TranslationScheduler

`translation-scheduler.ts` and the executor of `translation.ts`. JavaScript
runs one task at a time and the continuations of settled promises before the
next one: a task (a call, a message, a timer) is only enabled when no
continuation is ready. `queue`, `jobs`, `runs` and `preps` are the queued jobs,
all jobs, the executions at one of their awaits, and the preparations in
flight; `worker` is the inference worker with its mailbox. Time runs down in
`left`, `timer` and `elapsed` with `Tick`. `scenario` bounds what callers may
ask: any combination on one route, a key for each of two routes. An operation's
number, of which the code takes the next one each time, is one that no
preparation in flight has (`FreshOperation`): nothing else refers to it.

### InferenceResources

`resource-coordinator` (records with tokens), `resources.rs` (the slot of the
WebView's lease; a report is two lock sections with the supervisor's snapshot
read before), and `inference-resource-reporter.ts` (a serial queue that names
the owner and the session a load was bound to; a model that serves several
routes is reported once for each). The supervisor is reduced to the order of
its snapshots.

### CaptionPresentation

The slot of `presentation.rs` with the four commands that write it, the
publisher of the main WebView, and the cursor of the overlay. Commands of the
main thread go one after the other; each of them is several steps when it
unlocks in between (replace, emit, show), which `start_capture` and the monitor
interleave with. A start that shows the overlay holds `control` while it waits
for the main thread: `StartPlaces` needs the main thread idle, and Stop, which
runs there, takes `control` first (`StopPressed`, then `StopRequests`). `snapshots` is the sequence of what the supervisor has
published: a frame carries the revision it was computed for. The disturbances
of an `occasion` say whether Appearance is opened and closed, whether an event
may fail to be emitted (`lost` remembers that one did) and whether a start, a
monitor or a Stop may be overtaken by the next session.

### ConfigurationRepository, ConfigurationStore

`config/src/lib.rs`. `dirs` is the sequence of the directory's successive
contents: the last is what the process sees, the first what is certainly on the
medium, and a power loss keeps any of them, because the entries of a directory
reach the medium in their order but later than the calls return, until
`sync_directory`. `load` reads candidates from the newest down, sets aside the
unusable, migrates (as long as there is a revision left, as every save), or
publishes the default; `publish` creates, writes,
renames, syncs and removes. Between any two of these the process may die or a
call may fail (`MaxFaults` times). `ConfigurationStore` sees only what the next
launch would load.

### ConfigurationSync

`configuration.ts` in each window that writes, and the commands of
`configuration.rs`. A configuration is the set of changes it contains, so that
"lost" and "saved" are membership. `inbox` holds events and answers together.
An answer may be taken before an event that was sent earlier, or after one that
was sent later, since Tauri delivers them on two paths; `overtaken` remembers
that this has happened.

### ModelStore

`model-manager/src/lib.rs` with the commands and threads around it. A file is
what `state` tells apart (there or not, size, digest) and a stamp, its
modification time; the marker is the stamps that were written into it. `past`
holds what a name has had since the launch, because neither the directory nor
the marker is synced: a power loss brings back any of it. `check` is
`ModelManager::state` in the hands of the inspection thread, an installation or
whoever is about to load; `install` the download thread; `remove` the command;
`user` the session or WebView that has the model. `phase` is the catalogue's
entry, `inspecting` and `installing` its flags.

### AudioBackend, CaptureChannel, WasapiCapture, PipeWireCapture

`CaptureChannel` has what both backends share: the caller that starts, waits
for the ready channel and joins, the bounded channel, and the forwarder with
what the session is shown as. Each backend adds the places of its thread, its
publisher, its stream and its world: on Windows the devices or processes there
are (with their parents, up which `capture_root` walks; `watched` says whether the
stream has a handle to its process, without which its exit is not noticed), on Linux the nodes and
the default of the PipeWire server, of which the thread knows what it has heard
(`stream.nodes`, `stream.default`). `AudioBackend` is the promise of
`AudioCaptureBackend` to a session.

### ScreenReading

The loop of `run_visual_processor`. A screen is one text and one skin per
place; a frame is the screen when it is taken. `gate` is `FrameGate`, which
sees whether there is text but not which; `scanner` is `RegionScanner` with an
area per place; `tracks` is `TextStabilizer`. A pass prepares, reads areas in
the order `work` gives, as many as it can afford but at least one, and ends.
`cancel` and `token` are the two fields of `RapidOcrCancellation`.

### ScreenCapture

`portal` is the thread of `portal.rs` from connecting to the report of its end,
`answer`, `sharing` and `revoked` the desktop; `video` the thread of `video.rs`
with its format, the announced geometry and the time it has waited for a
readable frame; `slot` the one-slot channel; `eventQueue` and `sink` the two
event queues; `app` the startup worker of `visual_portal.rs`, then `PortalCapture`;
`forwarder` its thread. Two geometries may have the same size: a turned picture
is another geometry.

## The runs

| Run | Shows | Bounds, and why they are enough |
| --- | --- | --- |
| supervisor | workers, lifecycle and token agree; a session is not revived; `SessionOwnership` is implemented | three numbers of sessions and of workers, of which the last is where `checked_add` refuses; six snapshots: a session can start, run, wait, fail, stop and be followed by another |
| capture | a released session is quiet, a start holds its session, an ending session is released, every start returns unless Stop and the start wait for each other | two sessions, so that one overlaps with the clean-up of the other, alone, with a model that does not load and with a capture that does not start; one session with each fault, with two capture events, and with a slow Stop under a failing load; a Stop at any moment |
| capture_slot_leak | a counterexample to `SlotBelongsToActive`, see below | one session, a recogniser that fails |
| translation | loading is not charged, results are current, the latest text wins, every job settles | three jobs and a queue of two, two profiles and two keys on one route in two sessions: one job runs while two wait, so that coalescing and priority decide, and a session is replaced under its jobs; two routes with a key each, a queue of one and a preload: preparations overlap; a worker that refuses, crashes or never answers |
| inference_resources | no record without its load, and every record of a dead session goes | two sessions and two workers of the WebView, one model, one report on its way: a report of the first session can arrive while the second loads the same model |
| caption_presentation | host and overlay agree on a live session's frame once all has arrived; what was cleared stays cleared; the newest caption of a live session is shown, unless Stop has met the start that shows the overlay | two sessions with three snapshots and a frame each; one session with two frames, where the second may be computed for the first one's snapshot or a later one; one that meets Appearance, one whose events fail to be emitted |
| configuration | the directory implements `ConfigurationStore`, a launch succeeds; nothing is overwritten, the windows agree in the end | on disk: five revisions, so that retention removes some; two faults anywhere, so that the launch after a crash may crash too; directories that are empty, old, newer than the program or damaged. In windows: both, a change of each and one of the host's, so that a rebase can itself be overtaken; answers and events in any order |
| models | a marker vouches for good files, sessions load and keep verified files, Ready means installed, installing again repairs | two artifacts, so that one is done when the other fails; two faults, so that a crash and a power loss, or a damage and a broken download, meet; five stamps, so that every artifact is replaced and one again |
| visual | text belongs to the active session, a released session is quiet, the Linux overlay is hidden, an ending session is released unless the main thread is stuck, a lost source is noticed | one session with one of: an analysed frame, on Linux presented too, with a Stop at any moment; a capture event and the loss of the source, on both platforms; each failure of a thread, the preparation, the picker or the capture; on Linux a capture event, a Stop and a frame whose OCR fails, so that the start, the event thread and the monitor's cleanup may all wait for a main thread that waits itself; two frames that cannot be emitted while the session fails, so that what is put back meets a clear |
| visual_stop_deadlock | a counterexample to `StopIsAcknowledged`, see below | one session on Linux, one Stop |
| audio_backends | a gap is visible, both backends implement `AudioBackend`, calls return, a source that is there to stay is captured, or watched by nobody | a channel of two; two frames and one change of the world, so that the queue is full while the second frame or a report comes; one frame and one failing call; or two changes, so that a source goes away and comes back, or goes away between its resolution and its opening; two identifiers: a process or node is replaced by another, a default moves to another device |
| screen | the cache is current, nothing is read after a cancel, what stays on the screen is shown; what stops is unshared, a region is as drawn, ends are noticed, the last picture arrives | read: two places that have text, no text or another text and another skin, changing at any step, one pass that is late. Captured: two frames in three geometries of two sizes, an event queue of three and a forwarder's of one, so that both overflow; with a region from memory, without one from the GPU. A queue of two would be too small for `RegionIsAsDrawn` with a third frame: the end of the capture pushes the announcement out that the reader needs. The code's holds sixteen, `CaptureBounds` asks for three, and from there on the property is proved |

Sums of queues, places or frames are small because each hazard needs two of
them: one that is in the way and one that comes after it. The state spaces have
between 30 thousand and 1.3 million states.

Deadlock is checked where the system may not stop (the scheduler, whose caller
may always start a session anew and whose clock runs). Elsewhere a behaviour
ends when the numbers of sessions, stops, events or changes are used up, and
`CHECK_DEADLOCK FALSE` says so. That nothing waits for ever is what the
liveness properties are for.

Each module also states what its run does not list: a type invariant, and
formulas that the listed ones imply or that are plainer. Most of them are proved
(`RegistrationsAreAwaited`, `NoJobIsForgotten`, `QueueIsBounded`,
`RevisionsAreImmutable`, `RefusedForAReason`, `MemoryIsOnDisk`,
`ResolvedIsSaved`, `CopiesAreFaithful`). `LeasesOwnTheirRecords` and
`FallbackIsKept` are not; they hold in the same instances, and naming them in the
`.cfg` checks them.

### Where code and documentation disagree

`capture_slot_leak` ends in a counterexample. `start_capture` looks at the
token and then stores the session's resources, under the `control` lock; the
monitor takes the stored resources under the slot's own lock. A failure drained
between the two finds the slot empty and counts as cleaned up; `start_capture`
then stores a live capture that nobody stops, and every later start finds the
slot occupied. ARCHITECTURE.md says that after a failure the next Start is
legal.

`visual_stop_deadlock` ends in one too. The end of `start_visual_translation`
holds `control` while `configure_overlay` of `visual_linux.rs` waits for the
main thread to configure the window. `stop_visual_translation` is a synchronous
command: it runs on the main thread and waits for `control`. Pressed between
the two, neither goes on. ARCHITECTURE.md says that Stop acknowledges promptly.

The audio session has the same wait, on both platforms. `start_capture` holds
`control` (`audio.rs:536`) while `configure_overlay_window` (`lib.rs:148`) asks
the main thread for the window's monitor; `stop_capture` is synchronous and takes
`control` first (`audio.rs:565`). No run of its own shows it, since it is the same
promise broken in the same way; the table below has the formulas it refutes.
Whatever else the main thread would have done is not done then either: it serves
no update of the captions, and in the visual session it answers no event thread,
which a cleanup may be joining.

TLC has given counterexamples to other formulas the modules state. They are not
among the runs; each is reproduced by the module's configuration with the
constants named here.

| Formula | What the code does | Constants |
| --- | --- | --- |
| `CaptureSession!NoFalseCancellation` | start reads the lifecycle, unlocks and decides; a session that went from Waiting to Running meanwhile is reported as cancelled, and stays running without its overlay | one session, two capture events, no faults |
| `CaptureSession!NextStartIsLegal` | the last worker to report is a failure and the cleanup is over: `apply_worker_completion` returns before `try_finalize_cleanup`, and the session stays Failed and active until Stop is pressed again | `ModelFailsLate` |
| `CaptureSession!StopIsAcknowledged`, and `StartReturns` without `Deadlocked` | Stop waits on the main thread for `control`, the start waits with it for the main thread | one session, no faults |
| `LatestIsShown` without `Deadlocked` | the same: no caption of the session is accepted any more | one session, one frame, two snapshots |
| `EndingVisualSessionIsReleased` without `Deadlocked` | the OCR fails while the main thread and the start wait for each other: the cleanup joins an event thread that waits for the main thread too | `Env({"linux"}, {"ocr"}, 1, 1, 0, 1)` |
| `TextBelongsToTheActive` without `~output.restored` | a frame that cannot be emitted puts the one before it back over a clear that came in between (`visual.rs:477`): the text of a session that is over stays in the output | `Env({"linux"}, {"emit"}, 2, 0, 2, 0)` |
| `SourceIsCaptured` without `Unnoticed` | `OpenProcess` fails, because the process has gone since it was resolved or refuses the handle; the failure is ignored (`platform.rs:1199`), `process_exited` is false from then on, and the return of the application is not noticed | those of the run |
| `VisualSession!ReleasedIsHidden` | on Windows the event thread shows the overlay of a session it found running before Stop hid it | `OneWindowsEvent` |
| `TextBelongsToTheActive` and `LinuxOverlayIsHidden` without `FindsOthersStored` | a visual session that failed while its start stored its resources leaves them in the slot (as in run `capture_slot_leak`); the start of the next one finds them there, and clears the overlay and gives up without a stop, its session still live: a frame may write its text into the output after that clear, and the overlay stay visible | two sessions (`MaxSession = 3`, `MaxWorker = 9`), `Env({"linux"}, {"report"}, 1, 1, 1, 0)` |
| `InferenceIsWarm` | a job awaits another route's preparation and then sends its inference to a worker that has not loaded its model | `Languages` only |
| `TimeoutsAreDue` | an executor killed for one deadline rejects another operation with the same error, which is reported as a timeout | the same |
| `ReleasedStaysReleased` | a report that saw the session live acquires its lease after the session's forced release | one model, two sessions |
| `HiddenUnlessLive` | a failure between start's look and its show leaves an empty overlay on the screen | one session, four snapshots, no disturbances |
| `LiveSessionOwnsTheSlot` | a monitor, a start or a Stop that is late by a session takes the slot, and no caption of the new session is accepted | two sessions, five snapshots, `"overtaking"` |
| `AppearanceIsUncovered` | a session that finishes its start shows the overlay over the Appearance surface | one session, `"appearance"` |
| `EveryLaunchSucceeds` | a schema-0 document with invalid values makes every launch fail, where all other unusable documents are set aside | those of the run |
| `ViewsAgree` without `~overtaken` | an answer that arrives late puts an older snapshot back into a window | those of the run |
| `RejectedIsNotSaved` | a change between a write and its readback rejects the promise of a change that is saved | one change and one of the host's |
| `OutageIsShown` | a PipeWire stream is reported open before it is linked; if it never is, the recovery is not reported a second time, and the session says Running while the thread waits | those of the run |
| `ScreenIsFollowed` | an area that gets other bounds with every frame counts as never read, is always the oldest, and starves the others, although `regions.rs` says that the oldest-first pass guarantees progress | `Moving` with one place |
| `FailureIsTold` | the frames' channel is closed before the portal thread has reported why; a forwarder that looks in between reports that the source was closed | those of the run, without a region |

The runs leave out exactly what these need where the property would otherwise
be the same one: `EndingSessionIsReleased` and `EndingVisualSessionIsReleased` except
the late failure (`FailedLate`); the second, `StartReturns` and `LatestIsShown` a
Stop and a start that wait for each other (`Deadlocked`); `SourceIsCaptured` a
process whose handle was not granted (`Unnoticed`); `TextBelongsToTheActive` an
output that was put back over another (`output.restored`); `LinuxOverlayIsHidden` is `ReleasedIsHidden` on Linux, it and
`TextBelongsToTheActive` except a session whose start found another's resources
stored (which takes two sessions, while the run has one: the exception is there
for the theorems, which are about any number),
`ReleasedMeansQuiet` lets a thread that has reported its failure, and is awaited
by nobody, still drop its lease (`KeepsLeaseToReturn`), `ViewsAgree` is said while nothing was overtaken, `LaunchSucceeds` where no
invalid document of schema 0 was left behind, and `ReadScreenIsFollowed` is
checked with areas whose bounds stay. They show that the properties hold but
for the interleavings above.

## Fairness

Safety needs none. The liveness properties assume what the platform gives:

* a thread that can run runs (weak fairness); a lock that is waited for is
  given in the end if its holder gives it back at all, which the one of `control`
  in `Deadlocked` does not (strong fairness where it is
  given back and taken again while a thread waits: the monitor of
  `InferenceResources` for the WebView's slot, the frame command of
  `CaptionPresentation` for the presentation's);
* the JavaScript event loop runs every ready continuation, time passes and a
  timer that is due fires (strong fairness, because a task or a continuation
  may come first); the worker need not answer;
* an event or an answer that was sent arrives; what the PipeWire server says of
  its nodes is heard, and the default is read again once in a second, however
  the loop goes round (strong fairness);
* jobs posted to the main thread are served, and its questions answered, unless
  it waits for `control` itself;
* a request to the desktop need not be answered, and a source may be silent;
* for `LaunchSucceeds`, that the user launches the application again after a
  crash, and that crashes are finitely many; for `RetriesSucceed`, that Install
  is pressed again, and that faults are finitely many.

Nobody is otherwise assumed to press Start or Stop, no audio or frame to
arrive, no window to be opened. Several properties have the form `[]<>`: again
and again nothing is pending, which says of each pending thing that it ends
because what is pending here is bounded.

## Proofs

`SessionSupervisorProofs` proves, for any numbers of sessions, workers and
revisions, for any sets of modes and sources, and from the assumptions
`SessionSupervisor` declares for them:

| Theorem | Says |
| --- | --- |
| `TypeCorrect` | `Spec => []TypeOK` |
| `WorkersReportToTheirSession` | no worker outlives its session, and registrations are exactly the workers that are awaited |
| `CancellationIsShown` | the token is set exactly when Stopping or Failed is shown |
| `SessionsAreNotRevived` | a session shown as ending is never shown live again |
| `StoppedMeansJoined` | Stopped is published only when nothing of the session is outstanding |
| `SupervisorImplementsOwnership` | `Spec` implies `SessionOwnership`'s |

All rest on one inductive invariant, `Inv`. `NoWorkerOutlivesItsSession` alone
is not inductive: that the last registration to go takes the session with it is
right only if the registrations are exactly the outstanding workers
(`RegistrationsAreAwaited`); dropping one registration for one completion keeps
that equality only if a worker reports at most once (`ReportsOnce`); a
registration adds one to both sides only if its number is new
(`NumbersAreFresh`), which for sessions also makes a new token uncancelled;
and a start finds nothing finished already only if an idle supervisor has
`cleanupFinished` reset (`NothingLeftWhenIdle`). `CancelledIsNeverLive` is
inductive with the types and the numbers. The proof has a lemma per method, as
a step on the private helpers (`Publish`, `FailSession`, `TryFinalizeCleanup`)
would otherwise be repeated in each; the action properties and the refinement
then follow from `Inv` in the state before the step.

`CaptureSessionProofs` proves of the audio session, for any numbers of sessions,
workers, revisions, capture events and presses of Stop, and for every
combination of failures, from `CaptureBounds`:

| Theorem | Says |
| --- | --- |
| `TypeCorrect` | `Spec => []TypeOK` |
| `StartupKeepsItsSession` | a start works for the active session until it has reported |
| `ReleasedSessionIsQuiet` | a session that is given up, other than after a failure, has left nothing running |
| `ResourcesAreInOneHand` | capture and threads of a session are never in two hands |
| `OnlyFailuresLeaveTheSlot` | what is stored is the active session's, unless the monitor has taken up its failure |

`VisualStartProofs` (the invariant and the steps of the start) and
`VisualSessionProofs` (the other steps and the theorems) prove of the visual
session, for any numbers again and every failure, from `VisualBounds`:

| Theorem | Says |
| --- | --- |
| `TypeCorrect` | the state of the session has its type |
| `TextOfEndedSessionsStaysCleared` | no text of a session that was given up is in the output, unless a presentation that failed has put it back over what came after it |
| `ReleasedSessionIsQuiet` | a session that is given up has left no capture and no thread |
| `LinuxHidesTheOverlay` | on Linux the overlay is hidden then, once the main thread has done what was posted |
| `ResourcesAreInOneHand`, `OnlyFailuresLeaveTheSlot` | as above |
| `StopMissesNoResources` | a Stop that has found nothing clears up a session that has nothing stored |

The supervisor's invariant is not proved again. Both modules instantiate
`SessionSupervisorProofs` over the session's variables (`Theory`), show once
that each call is a step its theorems cover, and sum up what a call changes in a
few kinds (`Calm`, `Registers`, `Reports`, `Finishes`, `Drains`). What is left
to prove is who holds what, and the argument is the same in both:

* a thread that runs has its reporter in hand (`ReportersAreHeld`), and a
  reporter is of the active session (`Theory!Inv`), so what still runs keeps its
  session from being released;
* a worker's number is its own (`NumbersAreDistinct`), so the report of one is
  not taken for another's;
* the resources of a session are in the start, the slot, the hands of Stop or of
  the monitor, or with the cleanup thread, in one of them at most
  (`ResourcesHaveOneHolder`), and a capture that is open is in one of them
  (`WhatRunsIsHeld`);
* nobody declares the cleanup finished while they are stored or in the hands of
  Stop, unless the monitor cleans up after a failure (`CleanupIsAwaited`). This
  is inductive only because Stop and the start that stores exclude each other by
  `control` (`StopMissesNoStore`): a start at `put` would otherwise pass the Stop
  that has just found the slot empty. The monitor takes no `control`, hence the
  exception, and run `capture_slot_leak`;
* a lease is its start's or the transcription thread's (`LeasesAreOwned`), for
  the speech record.

The theorem about released sessions follows from these. It showed that the
property had claimed too much: with two sessions and a capture that does not
start, Stop may release a session whose start has reported and still has its
lease to drop. The run has this case now.

What the overlay shows needs more. A clear is final because every revision that
text, pass or frame of the session can carry is one at which it was live
(`RevisionsAreOld`), and the clear's is later (`ClearsAreLater`), so
`update_visual_presentation` refuses what comes after (`ClearedStaysClear`). A
presentation that fails puts back what it has replaced. If its own frame is still
there, no clear has come in between, and what it puts back was there while no
clear had come; if another output is there, a clear of its session may have been,
and the output says that it was put back (`PutBack`, until the next frame or
clear). A clear's revision is that of Stop or of a failure, except when a start cleans up
after itself while its session is live: then it has spawned no event thread and
will never run (`LiveIsGivenUp`), and the report of the startup worker, which is
still to come, will fail the session. For that the invariant follows the one
report through the supervisor's channel (`BadlyEnded`), since a session that is
live when it is released would revive the argument. The one start that is
cancelled while its session is live and its event thread runs is that which
finds another session's resources stored (`FindsOthersStored`); it is the
exception of the properties, and a real one (see the table above). On Linux the
window is visible only while the session runs or a hide is posted that nothing
will overtake (`VisibleIsAlive`): a show looks at the snapshot again on the main
thread, and who asked for it waits for the answer (`ShowsAreAwaited`).

Every action has a lemma that says what the step, or each case of it, does to
the supervisor and to the session, then what that leaves in whose hands, and
then goes through the parts of the invariant. What most steps leave alone is
said once for all of them (`Undisturbed`; `StartGoesOn` and `TypesKept` for the
visual session).

`ModelProofs` proves of the store, for any set of artifacts and any bounds on
stamps and faults:

| Theorem | Says |
| --- | --- |
| `StoreInvariant` | `Spec => []StoreInv` |
| `MarkerSpec` | a marker that matches the files vouches for their digests |
| `SessionSpec` | what a session has loaded has the digests of the manifest, and keeps them |
| `ReadySpec` | what the catalogue calls Ready is on disk and intact |

A power loss may bring back any file a name has had and any marker there has
been, so the invariant speaks of all of them: a stamp names one content for
good (`StampsName`), and no marker, present or past, has the stamp of a file
that has its size but not its digest (`MarkersVouch`). A check that is half way
through the files while another thread replaces them knows only that the files
it has seen are not of the right size and bad (`ChecksKnow`, `InstallKnows`);
who excludes whom (`Exclusion`) makes it know more while nobody may remove
files (`FilesAreKept`). Each action has a lemma, one step per conjunct.

and of the reports, for any models and any bounds on sessions, workers, reports
and tokens, from the assumptions `InferenceResources` declares:

| Theorem | Says |
| --- | --- |
| `ResourceInvariant` | `ResourcesSpec => []ResourceInv` |
| `TranslationRecordIsTrue` | once the reports are handled, the host's translation record is of the running worker, and of the model it has |

The property speaks of an empty queue only, so the invariant follows each load
on its way there: as long as its worker is not the WebView's any more, an unload
of it is queued behind it (`LoadsAreAccounted`, for queued reports, the one in
hand, and the slot), and the last report of a worker that is bound is the load
of the model it has (`NewestIsLoaded`). An unload can take only its own record
since a worker reports for one session (`BoundIsLive`).

`CaptionProofs` proves of the scheduler, for any routes, keys, profiles,
priorities and budgets, and any numbers of sessions and jobs:

| Theorem | Says |
| --- | --- |
| `SchedulerInvariant`, `SchedulerTypes` | `Spec => []SchedulerInv`, `Spec => []TypeOK` |
| `LoadingIsNotCharged` | between preparations a job has left its budget less what it waited outside of them |
| `NothingIsForgotten` | a job that is open is queued or executed, and what its execution awaits is on its way |
| `OnlyCurrentResults` | a result is delivered only in its session, while its source is shown |
| `NoOlderTextFollows` | of the texts of one key no older one follows a newer one |
| `QueueStaysBounded` | the queue holds no more than its capacity |

The property of deadlines speaks of the moments between preparations; during one
a job is short of what the preparation has taken, as far as the job was there
(`DeadlinesInv`). That sum is kept only if at most one preparation of a session
has taken time, the one the session points to (`PrepsInv`). That a job's text is
not overtaken, although the queue hands out the newest first, needs that an open
job is in the queue or in the one run of the session (`RunsInv`), and that a
queued job is the newest of its key, as coalescing takes care of (`JobsInv`):
while an older one is open, which is then the one that runs, no newer one has
been delivered (`TextsInv`).
`AwaitsInv` says that what a run waits for is pending or has been requested.

`ConfigurationProofs` proves of the windows, for any number of them and any sets of
changes:

| Theorem | Says |
| --- | --- |
| `WindowsInvariant`, `WindowsAreTyped` | `WindowsSpec => []WindowsInv`, `WindowsSpec => []WindowsTypeOK` |
| `WritersBuildOnEachOther` | no write loses what another has saved |
| `WindowsAgreeInTheEnd` | windows with nothing to write or to receive show the host's configuration, unless an answer was overtaken |
| `PromisesAreKept` | what was resolved is saved, and copies of a revision are the same |

and of the directory, for any configurations and any numbers of revisions and
faults:

| Theorem | Says |
| --- | --- |
| `DiskInvariant`, `DirectoryIsAlwaysTyped` | `Spec => []DiskInv`, `Spec => []TypeOK` |
| `DirectoryImplementsStore` | `Spec` implies `ConfigurationStore`'s |
| `HostHasWhatIsOnDisk` | a host that is ready has in memory what the newest file has |
| `FilesAreWrittenOnce` | a revision's file never changes, unless it is damaged |
| `RefusalsHaveAReason` | a save is refused because a call failed, or for a temporary file this process could not remove |

A write is accepted when it names the host's revision. It loses nothing because
every copy of that revision, in a window, in an answer or in an event, is the
host's (`SnapshotsInv`), so that a request that will be accepted contains what
the host has (`WritesInv`). That the windows agree needs the order of messages:
snapshots on their way to a window come in the order of their revisions and are
not older than its copy (`OrderInv`), and a window that does not have the newest
is going to get it (`NewsInv`). Both are said while nothing was overtaken, which
is when they hold. On disk, the refinement needs that what is being written is
newer than any file (`PublishingInv`), that from the renaming on it is the newest
one (`PublishedInv`), and that a host that is ready has the newest (`ReadyInv`).
The end of the process is the abstract `Crash` at whatever step it comes, which
loses nothing that is stored. A power loss that brings back an earlier directory
is `Damage`, as a file that rots: it may lose what was stored, and what the store
promises from then on is about what was found. That a power loss between two
steps of a save leaves a file to recover from (`FallbackIsKept`) is not proved.

Of the captions `CaptionProofs` proves, for any numbers of sessions, frames and
snapshots:

| Theorem | Says |
| --- | --- |
| `CaptionsInvariant` | on every occasion: a frame is of a snapshot of its session, a caption of a live one; sessions follow one another and end once |
| `ClearsAreFinal` | on every occasion: what was cleared stays cleared |
| `SlotInvariant` | while no event is lost and no session overtaken: `CalmInv` |
| `SettledViewsAgree` | once everything has arrived, host and overlay agree, unless a session is overtaken |

What the overlay accepts it accepts by revision and by number, so that a clear is
final whatever is lost or late (`ClearsAreFinal` needs the first invariant only).
That the overlay ends with what the host has needs an order of all frames it has
not seen yet: the one it shows, those in its inbox, and those that the main
thread and the monitors have put into the slot and have not emitted (`Pool`).
A caption among them is comparable with each of the others, in the order in
which the overlay accepts; one that is not in the slot has a newer frame beside
it, and one that is in the slot is on its way or shown, and the newest while its
session lives (`Ordered`). A frame that ends a session is only there when the
session is cleared, after which the slot takes no caption of it (`ClearedInv`).
Two emissions may be swapped between threads, and the order is what makes that
harmless. The exception is real: a start, a monitor or a Stop
that reads the snapshot, sleeps while the session is replaced, and then writes,
takes the slot away from its successor; TLC shows it (`LiveSessionOwnsTheSlot`
above). The code's threads can do so, hence `"overtaking"` is a disturbance and
not an assumption, and the theorem names it.

`CaptureBackendsProofs` proves of the reader of the screen, for any places, contents of the screen and
bounds:

| Theorem | Says |
| --- | --- |
| `ReadingInvariant` | `ReadingSpec => []ReadingInv` |
| `CacheIsAlwaysCurrent` | a line that is kept is the text of the frame it is kept for |
| `CancelEndsReading` | after `cancel()` has returned no area is read |

What `prepare` keeps it has compared, so `CacheIsCurrent` is inductive with the
shape of areas; the second needs that a pass looks at the flag while it installs
its token, and that `cancel` sets the flag before it goes for the token
(`CancelIsSeen`). Of the capture it proves, for any source, sizes and setups, for
any queue of the forwarder, and for event queues of at least three
(`CaptureBounds`; `bounded(16)` in `portal.rs`):

| Theorem | Says |
| --- | --- |
| `CaptureInvariant` | `Spec => []CaptureInv` |
| `StopEndsSharing` | what was stopped or given up shares nothing, reads nothing and has no picture left |
| `RegionStaysAsDrawn` | a picture is cropped only with a region drawn on its geometry, and read only with a geometry of its size |

The first follows from which thread outlives which (`ThreadsInv`, `AppInv`).
The second relates two channels that are not read together: a reader of frames
has either seen the geometry of every picture that is on its way, or there is
something in the event queue that it will notice before it uses one
(`GeometryInv`). For that, announcements must differ from the one before them,
and nothing may follow the end (`EventsInv`): when the end of the capture pushes
the oldest event out, two announcements that differ remain, and one of them
differs from what the reader knows. This is where three are needed.

The same module proves of both audio backends, for any devices, processes or
graph, any channel, and any number of frames, failing calls and changes, from the
assumptions `CaptureChannel` declares:

| Theorem | Says |
| --- | --- |
| `WindowsInvariant`, `LinuxInvariant` | `WasapiSpec => []WasapiInv`, `PipeWireSpec => []PipeWireInv` |
| `WindowsSplicesAreVisible`, `LinuxSplicesAreVisible` | frames with successive numbers, of which the second is not marked, are of one opening |
| `WindowsKeepsThePromise`, `LinuxKeepsThePromise` | each implies `AudioBackend`'s |

The two share its first part. Splices stay visible because every
frame in the channel has a lower number than the next, and the next is marked
unless it goes on where the last was numbered, in the same opening
(`SplicesInv`). Wasapi opens a stream some steps before it marks the timeline;
nothing is numbered in between. The promise needs that a thread that has not
ended has said nothing terminal (`PromiseInv`), since nothing may follow that.
Each step of a thread is then one of two kinds: it sends notes at most
(`Quiet`), or notes and one frame (`Packed`).

### What stays with TLC

Liveness: `EndingSessionIsReleased`, `StartReturns`, `EveryJobSettles`,
`DeadRecordsGo`, `LatestIsShown`, `LaunchSucceeds`, `RetriesSucceed`,
`CallsReturn`, `SourceIsCaptured`, `ScreenIsFollowed`, `EndsAreNoticed`,
`StillImageArrives` and the like: the prover has no rule for fairness and
ENABLED. Every safety property of a run is
proved, except `SlotBelongsToActive`, which does not hold. Of the formulas no
run lists, `LeasesOwnTheirRecords` and `FallbackIsKept` are not proved.
No theorem rests on a recursive
definition, since induction over data is out of the prover's reach.

## Not modelled

The transcript store (a sequential structure with tests of its own), the
reducers of received snapshots beyond their cursors, screen capture on Windows
(callbacks the repository does not define). Numeric processing of samples and
images, recognition and translation themselves (each is one step that may
fail), D-Bus, COM, format negotiation and Vulkan in detail, adapters of files
and downloads to byte ranges, rendering, vendored code, scripts and generated
contracts. Within the modelled components: the texts of errors and progress,
logging, metrics, window geometry and calibration, previews and discovery of
devices, and the one-time import of settings from the browser's storage.
