# A verification of transcribe-server

transcribe-server is an HTTP and WebSocket speech-to-text server around a
blocking inference library. These modules model the parts of it whose
correctness depends on the order in which things happen: who owns an engine
slot while clients hang up and timers run out, what a cancel may reach, how
uploads are decoded, audio cut into chunks and a client told in the end, how the
models come to be loaded, and how the process starts, serves and stops. TLC checks the
models on small instances; TLAPS proves every safety property of theirs for every
value of the constants. Liveness is TLC's alone.

Paths below are relative to the repository (`src/...` is the crate's source).

## 1. Inventory of the system

| Part | State it keeps | Operations | Speaks to |
| --- | --- | --- | --- |
| Engine slots, `src/api/exec.rs`, `AppState` in `src/server.rs` | the semaphore's permits and queue; one future and one blocking task per call | `transcribe_range`: bounded wait, `spawn_blocking`, answer | session, cancellation; called by uploads and streams |
| Cancellation, `src/engine/cancel.rs` | per call: a flag, a mutex with an abort action | `cancel`, `is_cancelled`, `on_cancel`, drop of `AbortGuard` and `CancelOnDrop` | called from whichever thread drops a future; reaches into the session's token |
| Model session, `src/engine/transcribe_cpp.rs` | per model: a mutex around the session, the token installed on it | `transcribe`, `resolve` | the inference library (external) |
| Chunker, `src/chunk/mod.rs` | none | `first_cut`, `chunk_ranges` | uploads (whole recordings), streams (one cut at a time) |
| WebSocket stream, `src/api/stream.rs` | per connection: phase, sample buffer, texts so far | `wait_for_start`, `run_session`, `handle` | slots, chunker |
| Upload handler, `src/api/transcriptions.rs` | per request: the fields read, the options, the chunks transcribed | `handle` | capabilities, decoder, chunker, slots, assembly |
| Capabilities and chunk length, `src/engine/mod.rs`, `src/server.rs` | the loaded models' `ModelInfo`, immutable | `resolve_model`, `translation_refusal`, `canonical_translate_target`, `chunk_max_sec` | uploads, streams, the engine's own check |
| Assembly, `src/api/verbose.rs`, `src/api/mod.rs`, `Transcript::shift` | none | `body`, `joined_text`, `join_parts`, `shift` | uploads, streams |
| Decoding, `src/audio/mod.rs` | a process-wide `Once` for libav; per call the codec's and the resampler's buffers | `decode_to_pcm_16k`: native WAV, or demux, decode, resample, flush | hound, libav (external); called by uploads on blocking threads |
| Engine load and devices, `TranscribeCppEngine::load`, `print_devices` | the backend registration's `OnceLock`, the device registry, the models | `init_backends`, `resolve_model_options`, `load`, `model_info` | the inference library (external), the process at its start |
| Process, `src/main.rs`, `build_router` | the keys, the listener, the open connections | `run`, `build_engine`, `list_devices`, `shutdown_signal` | everything; axum, hyper and tokio (external) |
| Authentication, `src/auth.rs` | the set of keys, immutable | `require_api_key` | in front of every `/v1` route, not of `/health` |
| Configuration, `src/config.rs` | the command line | `model_specs`, `all_api_keys`, `toggle` | the process, uploads |
| `/v1/models`, `/health`, error shapes | none | `list_models`, `health`, `ApiError` | |
| Fake engine, `src/engine/fake.rs` | none | `transcribe` | takes the place of the model sessions |
| Packaging, CI | none | | |

Hard behaviours, by part (`PROJECT.json` lists each at its line under `hazards`,
with the properties that would catch it going wrong):

* **Slots.** The permit belongs to the run, not to the future: the future may be
  dropped at any await while the run goes on. A timer may run out at the moment
  a permit is assigned. A panic must give back permit and session.
* **Cancellation.** `cancel()` is three steps on one thread (store the flag,
  clone the action, call it) that interleave with install, check, run, uninstall
  on another. Two opposite mistakes are possible: a cancel that is lost, and a
  cancel that arrives late and hits somebody else's run.
* **Session.** A panicked run poisons the mutex and leaves its token installed.
* **Chunker.** Boundaries: a buffer one sample over the window, a look-back
  longer than the window, ties between quiet frames.
* **Stream.** One message may carry many windows; stop may come at any point;
  nothing reads the socket while a chunk is transcribed, and a send waits for a
  client that does not read, without a timeout.
* **Upload.** Fields come in any order; two layers resolve the model and check a
  translation separately; chunks fail one by one; times are relative to a chunk
  until they are shifted.
* **Decoding.** Codec and resampler keep samples back, and are emptied in that
  order; the resampler may report a delay it never gives out, or none while it
  holds samples; libav may fail of its own after most of a recording is decoded.
  An initialisation that panics poisons the `Once` for everybody.
* **Load.** Two threads race for one registration, and its failure must reach
  both; a device's index is not its position; the last of several models fails.
* **Process.** A key file that turns out unreadable; a stop while uploads wait
  and streams are open.

What makes each part correct: at most `--parallel` runs, no permit lost, every
waiting client answered or turned away, no run aborted but its own client's, no
cancel lost (slots, cancellation, session); ranges that tile the audio, stay in
the window and fall in silences (chunker); a final text that accounts for all
the audio, frames in protocol order, a bounded buffer (stream); early refusals
that agree with the engine, whole recordings or an error, a timeline that runs
forward, the right language label (upload, assembly); every sample decoded once
and in order, or an error (decoding); nothing loaded before a registration that
succeeded, on another device than asked for, or in part (load); the keys enforced
and no upload cut short by a stop (process).

## 2. The modules

| Module | Models | Kind |
| --- | --- | --- |
| `EngineSlots` | `transcribe_range`, `CancelFlag`, `TranscribeCppEngine::transcribe` | state machine, refinement mapping, liveness |
| `SlotService` | what `transcribe_range` promises its callers | abstract specification |
| `EngineSlotsProofs` | the invariant of `EngineSlots`, its consequences, and that it implements `SlotService` | TLAPS |
| `ChunkCut` | `window_samples`, `first_cut` | operators, of the audio and the chunk length |
| `ChunkRanges` | the loop of `chunk_ranges` | state machine |
| `ChunkCutProofs`, `ChunkRangesProofs` | the chunker's promises; what the other proofs need on sequences and recursive functions | TLAPS |
| `StreamSession` | a WebSocket session; uses `ChunkCut` | state machine, liveness |
| `StreamSessionProofs` | the session's promises; uses `ChunkCutProofs` | TLAPS |
| `ModelCatalogue` | resolution, refusal, target spelling, chunk length, the `/v1/models` object | operators |
| `RunOptions` | the switches and the options of one run; uses `ModelCatalogue` | operators |
| `FakeEngine` | the fake engine's transcript | operators |
| `VerboseBody` | `shift`, `verbose_json`; uses `RunOptions` | operators |
| `Upload` | the upload handler; composes `VerboseBody`, `RunOptions`, `ModelCatalogue` and `ChunkCut` | state machine, liveness |
| `UploadProofs` | the request's promises; uses `ChunkCutProofs` | TLAPS |
| `AudioDecode` | `decode_to_pcm_16k` on several threads | state machine, liveness |
| `AudioDecodeProofs` | the decoder's promises; uses `ChunkCutProofs` | TLAPS |
| `EngineLoad` | `load`, `init_backends`, `resolve_model_options`, `print_devices`, `model_specs` | state machine |
| `EngineListing` | the loaded engine against what `/v1/models` says of it; composes `EngineLoad` and `ModelCatalogue` | operators, properties |
| `EngineLoadProofs` | the load's promises | TLAPS |
| `Service` | the process; composes `SlotService` with uploads, streams, `/health`, keys and shutdown | state machine, liveness |
| `ServiceProofs` | the process's promises | TLAPS |
| `MC...` | instances for TLC | |

### EngineSlots

Three threads touch one call, and each has a program counter: `task` is the
future of `transcribe_range`, `job` the blocking task, `canceller` the thread
inside `CancelFlag::cancel`. An action is what one of them does between two
points where another can see the state.

* `avail`, `waiters`, `held` are tokio's semaphore (external): first come, first
  served; a permit given back goes to the first waiter before that waiter's task
  is polled. `task = "granted"` is a waiter that owns a permit it has not seen,
  `"expired"` one whose timer fired and whose `Acquire` is not dropped yet; the
  semaphore may still assign it a permit, which `DropAcquire` passes on.
* `HangUp` is the drop of the future at its second await, with the armed
  `CancelOnDrop`; `GiveUp` the drop at its first, where no guard exists yet.
  Calls outside `Droppable` are those of a WebSocket session, whose task nobody
  drops. `Deliver` disarms only on success, as line 58 does: the `?` before it
  leaves with the guard armed.
* `locked` and `installed` are the session mutex and the token installed on it;
  a panic skips `clear_cancel_token` but not the mutex or the permit.
* `RunAborts` looks at whatever token is installed, not at the call's own, so
  that aborting somebody else's run is possible in the model.
* `Retire` frees the slot for a new request, so calls recur for ever.

`CallerView` and `EngineView` map this onto `SlotService`: a caller waits, is
answered, is turned away or leaves; a run is outside, inside, or has ended.

### ChunkCut, ChunkRanges

Samples are loud or soft and a frame's energy is its number of loud samples;
that keeps everything the code compares (energies with each other and with the
threshold). `BestFrame` states what the scan finds (the first of the quietest
silent frames); `ScanBest` in `ChunkRanges` is the scan itself, frame by frame, a
recursive function over the frames visited whose value is the `best` of the code
(no frame or one), and `CutsWhereScanDoes` compares the two. Every operator of
`ChunkCut` takes the chunk length, `max_sec` in samples, from which the window and
the look-back follow: a stream has one, an upload one per model. The scan's positions are relative to
the buffer, so `from` is where the buffer begins.

### StreamSession

`audio` keeps every sample received; the code's buffer is `audio` after
`drained`. A chunk's text is the chunk itself or nothing, so that the final text
can be compared with the audio. `pc` is the point of the code at which the
session waits; a message is taken in `"receiving"` only, because nothing polls
the socket elsewhere. Errors of the client's making (`ProtocolError`), of the
engine (`EngineFails`) and of the connection (`PeerGone`, `SendFails`, the
ignored failures in `handle`) are all possible. A send is a step that may also
never happen: `socket.send(..).await` has no timeout and waits for a client that
is connected and does not read. Pings, pongs and option folding are left out.

### ModelCatalogue, RunOptions, VerboseBody, Upload

A language code is the language it names, whether it is in capitals, and whether
it has spaces around it: what `language_eq`, `trim` and the canonical spelling
tell apart. `Upload` follows `handle`: `"reading"` the fields, `"checking"`
(between two awaits), `"decoding"`, `"transcribing"`, `"answered"`. The engine's
own resolution and refusal are modelled apart from the handler's, as the code
has them. `transcribe_range` is what `SlotService` says: an answer, busy or an
error, never `cancelled` to a client that is there (`AbortOnlyAbandoned`). Times
are samples until `Milliseconds` rounds them. Each chunk keeps, as `asked`, the
options the library was called with for it: `Options` is what the handler makes
of the fields and the server's defaults, `LibraryOptions` what the engine makes
of those for its model. The transcripts an instance allows depend on the options,
so that `FakeEngine` is one of them; `EngineReturns` keeps those whose rows lie in
the chunk, one after the other, which is what the code takes the library to do.
`Split` is `chunk_ranges` as a function of the recording and the model's chunk
length; `ChunkRanges` shows the same loop step by step.

### AudioDecode

A file is what the two readers make of it: a WAV in the target format or in
another, truncated or whole, a container libav knows or not, packets of the best
stream or of others, decodable or not, frames of one kind or of several (format,
layout, rate). Every sample is told from every other, and resampling keeps a
sample and delays it (a rate conversion would not change which are lost or in
which order they come). `codec` holds what the decoder keeps back until
`send_eof`, `held` what swresample keeps until it is flushed, at most `Hold`
samples. After a flush the binding reports a delay or none, and the code takes
none for the end. The binding is not in the repository, so an instance has all
three kinds (`delay`): `"exact"`, the delay of the samples held; `"residue"`, a
delay that never goes away; `"rounded"`, none even though samples are held.

The code has one error for everything. The model has two ends for it: `"error"`
is a file without a recording (unknown container, no audio, frames of two kinds,
not one sample), `"failed"` the temporary file or libav itself (`OpenFails`, a
frame in `Drain`, `FlushFails`: every `map_err(dec_err)?`), which may hit a whole
file too and drops what was decoded. `DecodesAll` then says three things: what is
refused as `"error"` has no recording, no failure passes for the end of one, and
a success is the whole recording. The one exception it makes is what the code
cannot see: a `"rounded"` delay while the resampler holds more than a flush of
4096 samples gives out costs the rest of them. The `Once` is `once`: `"running"` keeps others
out, `"poisoned"` makes every `call_once` panic. Threads share nothing else.

### EngineLoad, EngineListing

A thread is asked to load an engine or to list the devices. `backends` is the
`OnceLock`: unset, being set, and then the one outcome everybody gets, a failure
too. The registry appears with the registration and may have slots that could
not be queried, so that an index differs from a position, or a device without
an index. `models` grows one model at a time; any may fail, and takes the others
with it. `EngineListing` hands the operators of `ModelCatalogue` what was loaded
and compares `ModelObject`, what a client reads in `/v1/models`, with the refusal
rule and the chunk length a request naming that id meets.

### Service

`phase` is where `main` is, up to its exit code. A connection waits for its
request, is admitted or denied by `require_api_key`, and is then an upload (its
body, then one call per chunk), a stream (calls, for as long as its client
likes) or `/health`. The calls are `SlotService`'s, which `EngineSlots`
implements, so a permit changes hands between two chunks of an upload. After
`ShutdownSignal` nothing is accepted; axum waits for HTTP connections (`Http`),
which an upgraded WebSocket no longer is; then `run` returns and the runtime
drops the tasks that are left (`DropTask`, in the middle of a call as well) and
waits for blocking runs. `Kill` is any signal without a handler, SIGTERM among
them: it may come at any step and nothing is promised then.

## 3. What TLC checks

| Run | Instance | Shows |
| --- | --- | --- |
| `slots_safety` | 3 calls, 2 models, 2 permits; 1,029,154 states | `PermitAccounted`, `WorkBound`, `SessionOwned`, `AbortOnlyAbandoned`, `CancelReachesRun` |
| `slots_service` | 3 calls on 1 model, 1 permit; 421,760 states | the inductive invariant `IInv`, and the refinement `ServiceSpec` |
| `slots_live` | 2 calls on 2 models, 1 permit, fair; 17,719 states | `QueueWaitEnds`, `CancelStopsRun`, `EveryCallReturns` |
| `slots_shared` | 2 calls on 1 model, 2 permits, fair; 22,599 states | `SessionPassedOn` |
| `chunk_ranges` | every recording of up to 13 samples; 65,917 states | `Tiling`, `CutsInSilence`, `CutsWhereScanDoes`, `NeverFarShort`, `AllSplit` |
| `stream_session` | a client with four kinds of message, up to 13 samples, fair; 1,377,510 states | `Tiled`, `BufferBounded`, `FinalSaysAll`, `FrameOrder`, `StopEnds`, `DrainEnds` |
| `stream_silence` | window 10, look-back 4 | a violation: see below |
| `upload` | 4 models, up to 6 of 7 fields, fair; 75,384 states | `EngineNeverRefuses`, `AskedAsRequested`, `BodyReadFirst`, `InsideModelLimit`, `WholeRecording`, `Timeline`, `LanguageTold`, `Answered` |
| `audio_decode` | 2 threads, 14 files, fair; 21,369 states | `DecodesAll`, `LibavReady`, `DecodeEnds` |
| `engine_load` | 2 threads, 11 requests, 4 registries; 11,060 states | `RegisteredFirst`, `ExactDevice`, `ReadyIsWhole`, `ListingHolds` |
| `engine_aliases` | the same | a violation: see below |
| `service` | an upload, a stream, a probe, 1 permit, 9 command lines, fair; 19,271 states | `KeysEnforced`, `OnlyStreamsCut`, `ShutdownEnds` |

The type invariants are part of what TLAPS proves (section 4; that of
`EngineSlots` is part of `IInv` in `slots_service` too). Every invariant of these
runs is a theorem as well, and so is the refinement; only liveness is not. Each
property has a mutant of the code in `PROJECT.json`, a plausible bug under which
TLC finds it violated; the mutants stand next to the definitions they change.

**Why the bounds are enough.** `slots_safety`: two calls share a session (a late
cancel needs a victim), a third on another model makes two runs overlap; two
permits and three calls leave one waiting. One model honors the abort callback
and one does not; one call belongs to a WebSocket. `slots_service`: one permit,
the default, so that two calls queue at once and the queue's order matters.
`slots_live`: two calls are enough for one to wait for the other's permit. With
one permit no run waits at a session mutex; in `slots_shared` each of the two
calls has a permit and they share a session, so that one waits there with its
permit in hand. `chunk_ranges`: 13 is two windows of 6
and one sample, a frame is 2, the look-back 2 frames. `stream_session`: the same
13, with messages of one sample (so that every buffer length occurs), one of a
whole window and one that fills two windows at once. `upload`: a recording of
two or three chunks under every model's limit, one without samples, one that
does not decode; six fields suffice for a verbose translation with both switches.
`audio_decode`: two threads race for the `Once`; the codec keeps two frames and
the resampler three samples back, more than one flush of two gives out, and there
are recordings shorter and longer than that, with a delay of each kind. `engine_load`: two threads race for the
registration, two models let the second fail after the first. `service`: one
client of each kind and one slot, so that upload and stream wait for each other;
two chunks leave one to do when the signal comes; the command lines have every
way the keys and the engine can turn out.

**Fairness.** In `EngineSlots` the runtime polls tasks that are ready and fires
timers, a blocking thread goes on between its waits, and the thread inside
`cancel()` returns: each is an action of the server's own, with nothing to wait
for but the session mutex. Of that mutex no order is assumed, only that it is
taken by somebody when it is free. Nothing is assumed of clients. Of the library
only that a family that honors the abort callback notices a cancelled token (its
documented contract; `HonorsAbort`). That inference ends (`InferenceEnds`) is a
premise inside `EveryCallReturns` and `SessionPassedOn`; `QueueWaitEnds` holds
without it.

`StreamSession` assumes that its task is polled and that `transcribe_range`
returns, and nothing of the client: it may send what it likes or nothing. In
particular its sends are not fair, since nothing in the code ends a send to a
client that does not read. `StopEnds` and `DrainEnds` therefore carry the premise
`SendsEnd` (every send goes out or fails); a session whose client stops reading
may stay where it is for ever, and does so without a permit.

`Upload` assumes that its handler is polled and that the decode and the engine
answer; the client may stall its body for ever. `AudioDecode` assumes that a
blocking thread runs on and libav returns, not that anything fails. `Service`
assumes the same of handlers and runs. Of its HTTP clients, for whom axum's drain
waits without a timeout, it assumes that a request head once begun is completed,
that a body arrives or its client leaves, and that the response is read;
`ShutdownEnds` is for clients that do so. Nothing is assumed of the clients of
streams, nor that a signal ever comes. `EngineLoad` needs no fairness: its
properties are safety. Deadlock checking is off in all runs but those of the
slots, because a session, a loop, a request, a decode, a load and a process end.

**The violations.** `stream_silence`: the drain loop runs from `buffer.len() >=
max_samples` on, but `first_cut` returns a buffer of up to `max_samples` whole.
A buffer that fills to exactly one window is therefore cut at the window's edge
even with a silence in the look-back, while the comment in `stream.rs` and the
README say a partial is cut at a silence when there is one. A client whose
frames divide the window gets there with every partial.

`engine_aliases`: a path without an alias goes by its file stem and nothing
compares the aliases, so two files of one name become two models with one id.
`/v1/models` lists both with their own capabilities; a request naming the id runs
on the first. The comment in `models.rs` and the README say the listing is there
to pick a model by. `ListingHolds` is the same statement for aliases that differ.

## 4. What is proved

Every safety property of section 3, the refinement included, for every value of
the constants: any number of calls, models, permits, threads and clients, any
recording, catalogue, file and registry. Each rests on an inductive invariant
that TLC evaluated on the run's instance before it was proved.

| Module | Inductive invariant | Theorems |
| --- | --- | --- |
| `EngineSlotsProofs` | `IInv` (`Invariance`) | `TypeCorrect`, `PermitsAccounted`, `WorkBounded`, `NoForeignAbort`, `NoLostCancel`, `SessionsOwned`, `Refinement` |
| `ChunkRangesProofs` | `RInv` | `RangesTyped`, `RangesTile`, `RangesNearlyFull`, `RangesCutInSilence`, `RangesCutWhereScanDoes` |
| `StreamSessionProofs` | `SInv` (`StreamInvariance`), `TInv` | `StreamTiled`, `StreamBufferBounded`, `StreamFrameOrder`, `StreamFinalSaysAll` |
| `UploadProofs` | `UInv` (`UploadInvariance`) | `UploadBodyReadFirst`, `UploadNeverRefused`, `UploadAskedAsRequested`, `UploadInsideModelLimit`, `UploadWholeRecording`, `UploadTimeline`, `UploadLanguageTold` |
| `AudioDecodeProofs` | `DInv` (`DecodeInvariance`) | `DecodeWhole`, `LibavInitialised` |
| `EngineLoadProofs` | `LInv` (`LoadInvariance`) | `RegistrationFirst`, `DeviceExact`, `EngineWhole`, `ListingTrue` |
| `ServiceProofs` | `SInv` (`ServiceInvariance`) | `KeysAlwaysEnforced`, `UploadsDrained` |

**From which assumptions.** They are named where the constants are declared, and
TLC evaluates each. Most say what kind of value a constant is. Those that say
more: `Calls` is finite and `Parallel` at least 1; `Frame` is at least 1
(`frame_len()` has a floor of one sample); the margin below a model's limit is at
least one sample; a catalogue has a model, as `load` insists, and a
model's limit is 0 (none) or longer than a frame (`CatalogueAssumption`); one
flush has room for at least one sample (`DelayAssumption`); `None`
is not one of the values it stands beside. Of the library, `UploadTimeline` has
`EngineReturns` (the rows of a chunk lie in it, in order), nothing of the text.
`RangesCutInSilence` is about frames of more than one sample: the middle of a
frame of one is where it begins, and `first_cut` refuses a cut at zero.

**The inductive invariant of the slots.** None of the properties is inductive
alone. `PermitAccounted` needs `QueueInv` (each waiter queued once, in the right
task state) and `StageInv` (a job exists only after the task got its permit) to
know that a hand-over finds a waiter that owns nothing yet, and that tokio's
semaphore keeps no permit while somebody waits (`NoIdlePermit`, a conjunct).
`CancelReachesRun` and `AbortOnlyAbandoned` need `CancelInv`: the flag is set
exactly from the second step of `cancel()` on, a token is cancelled only after
its flag, the action is installed exactly while the guard lives, and a run that
is going with its canceller past the clone has had its action grabbed. The last
is the argument in the comment of `on_cancel`: install first, then look at the
flag; whichever of clone and install came first, one side sees the other.
`SessionOwned` closes it: the token `RunAborts` looks at is the run's own. The
proof goes action by action, first what touches a call (`CallsStep`), then the
permits (`PermitsStep`), with one lemma per operation of the semaphore on how it
moves cardinalities.

**The refinement.** Each action of `EngineSlots` maps to a step of `SlotService`
or to none: acquiring is `Ask` or `Enter` (there is room because a permit was
free or handed over), releasing the permit is `Finish`, and the steps of the
cancel are invisible until a run ends as `"stopped"`, which needs
`AbortOnlyAbandoned`.

**Recursive functions.** The scan, `Split` and the decoder's `Drain` are recursive
functions. What they compute is proved by the least counterexample: naturals with
a property have a least one (`LeastExists`), so a property that passes from each
position to the next has none that fails (`Induction`), and the equation of the
function holds because the iteration it describes exists (`IterationExists`).

**The chunker.** `BestExists` shows that the quietest silent frame exists, so that
`BestFrame` denotes one; `CutBounds` bounds a cut, and `RInv` carries that through
the loop. For `RangesCutWhereScanDoes` the scan keeps, after each frame, the first
of the quietest silent frames visited so far (`ScanKeeps`); at the end it has
visited the frames of `FrameStarts` (`VisitedAll`), and the two cuts coincide.

**The stream.** `Tiled` says nothing of a session that is ending, so its
invariant (`SInv`) adds where the chunks kept and the one in flight lie
(`ChunksInv`) and that a session drains only with a window buffered: then
`CutBounds` of the chunker bounds the cut, and what is left after `Stop` is
shorter than a window because the buffer is whenever the socket is read.
`FramesInv` ties the frames sent to the point the session is at. `FinalSaysAll`
adds `TextsInv`: the texts kept are those of the chunks heard, and the frames sent
carry them in the same order.

**The upload.** `UInv` has one part per stage of the handler: the fields read,
what the checks found (`CheckedInv`, which carries `Acceptable` to the moment the
engine looks for itself), the ranges, the chunks, and the answer, which is none,
an error or built from all the chunks. `UploadNeverRefused` then is that the
engine resolves the same model and reads the same rule of the handed-down target,
whose canonical spelling is one of the model's own; `UploadInsideModelLimit` that
`ChunkMax` stays below the limit and a range below `ChunkMax`;
`UploadWholeRecording` that `Split` tiles; `UploadTimeline` that rows shifted by
the start of their range lie inside it and `Milliseconds` is monotonic, so that the
collected rows run on from chunk to chunk (`FlattenOrdered`).

**The decoder.** `DInv` says that of the frames read so far the codec holds the
last ones, that of the samples of the others, in order, the resampler holds the
last ones and the rest is out, and that all those frames have the one input type
the resampler was built for, with no more than `Hold` samples held. Each frame
moves samples from one holder to the next without a change in their concatenation
(`ThroughStep`, and `DrainKeeps` for a packet's worth of them), or ends the decode
as `"failed"` and leaves them where they were. At the end the codec has given out
all it kept. The flush loop ends well when nothing came out, which leaves nothing
held, or when no delay is reported: then nothing is held either, unless the delay
was rounded away, and then what a flush and the rest come to is at most `Hold`
(`Complete`). So a resampler that never holds more than one flush gives out loses
nothing, whatever it reports. A decode that is refused on a change of format or
rate is of a recording that has two kinds of frame (`ConflictKind`).

**The load.** `LInv` says that a thread which loads was asked to, that the device
was not refused, that its options are those the request and the registry give,
and that its models are the first ones of its specs. It rests on the registry
being fixed once `backends` is `"ok"`, which `RegisteredFirst` gives: nobody
resolves a device before. `ListingTrue` follows for aliases that differ: then
the first model of an id is the only one, so that a request resolves to the model
the object was made of.

**The process.** `SInv` carries the keys from the command line to the moment a
request is admitted (`KeysRead`, `Guarded`) and, for the shutdown, that no
connection axum waits for is left once it has returned (`DrainedInv`), which the
steps of a call keep because only a connection in a handler moves.

**Only model-checked** is liveness, which needs fairness and `ENABLED`:
`QueueWaitEnds`, `CancelStopsRun`, `EveryCallReturns`, `SessionPassedOn`, `AllSplit`, `StopEnds`,
`DrainEnds`, `Answered`, `DecodeEnds`, `ShutdownEnds`. The refinement is of the
safety part; the fair specification's own liveness is checked directly.
`PartialsCutAtSilence` and `ListingAlwaysHolds` are false and have no theorem. That
`Split` is the loop of `ChunkRanges` is by inspection: both apply `FirstCut` from
where the last range ended.

## 5. What is not modelled, and why

* The libraries: hound, libav and swresample, the inference library, tokio, axum
  and hyper are modelled by how the code uses them. In `decode_via_ffmpeg` a
  sample rate conversion is taken to keep the samples; a read error in the middle
  of a container, which `packets()` handles inside libav's binding, is left out.
* The build without libav or without the engine: a constant error.
* Flags, environment variables and defaults of `config.rs` are clap's; the ranges
  of the numeric ones are the assumptions on the constants.
* `max_upload_mb * 1024 * 1024`, which overflows for an absurd value: one
  multiplication at startup (`PROJECT.json` lists it as a hazard without a property).
* Wording of errors, logging, tracing, memory sizes, the table of
  `--list-devices`, the milliseconds of `convert`.
* Times. The chunk length is counted in samples; the f32 arithmetic behind it is
  not modelled. The times of rows are exact samples until they are rounded to
  milliseconds; the code adds f32 seconds (`samples_to_sec`, `shift`), which in
  recordings of hours may put a row a millisecond off. `Timeline` is of the exact
  times. `Upload` assumes that a model's limit exceeds one frame
  (`CatalogueAssumption`): below 30 ms the chunker's floor would pass the limit.
* The size limit of tokio's blocking pool.
* Packaging and CI: a service unit and scripts.

## 6. Plan

Done: `EngineSlots` and `SlotService` with the refinement between them, the
chunker and the stream, the upload handler with its options and engines,
decoding, the load of the engine and the process around them, each with its
safety properties proved.

Next, in this order:

1. `Split` equals what `ChunkRanges` ends with, as a theorem (an invariant of the
   loop: the ranges so far, and `rest` of where it stands).
2. `Service` and `Upload` against what an upload is to the process: a step of
   `Upload` is a step of an abstract upload or none.
3. Type correctness of `SlotService` and its own safety (`WorkBound` of the
   abstract service), so that `Service` can rest on the contract alone.
