# JamomaDSP in TLA+

TLA+ modules for JamomaDSP, a C++ library of audio units ("objects") with front
ends for Max/MSP, Pd, VST and AudioUnit.  The arithmetic of the units is left
to other means.  What is specified here is what surrounds it: who owns the
sample memory, which routine an object runs, how two threads share the engine,
where the pointers of buffers go, and which state a unit is left in by attributes
that change while it plays.  TLC checks every module on a small instance; for
all of them TLAPS proves the safety properties for every value of the constants,
that every step of what has to end leaves fewer to take, and that a delay
implements an abstract line of samples; that the steps are taken, and so that
it does end, is checked by TLC only.

## The system

| Component | State it keeps | Operations | Hard behaviour | What makes it correct |
|---|---|---|---|---|
| `TTAudioSignal` | pointers to sample vectors, a flag that says who owns them, channels, vector size, bit depth | `alloc`, `allocWithVectorSize`, `setVector` (32 and 64 bits), attribute writes, `operator=`, `chuck`, destructor | seven paths free or drop vectors, in any order | what it malloc'ed is freed once, nothing of the host's ever, no freed address is kept |
| `TTAudioObject` | Bypass, Mute, four method pointers, two arrays for the signals of a call | `setProcess`, `setCalculate`, `setBypass`, `setMute`, five `process()`, two `calculate()` | members read before they are written; all calls share the arrays; `calculate()` re-enters `process()` under the lock | the right routine on the right signals, the lock given back |
| `TTAudioEngine` | devices, vector size, a PortAudio stream, two buffers, a list of observers, a reference count | `Start`, `Stop`, `initStream`, setters, add and remove observer, `callback`, `create`, `destroy` | two threads without a lock; PortAudio calls that fail and are only logged, or not even that | buffers and stream stay put under the callback, no stream is lost, no observer is passed over |
| `TTDelayBuffer`, `TTDelay` | a circular buffer per channel, delay and maximum each as time and as samples | attributes, `Clear`, three loops (none, linear, cubic) | index arithmetic at both ends; setters that reposition or rebuild under a running object | what is heard is the sample of so many samples ago |
| `TTAudioSignalArray` | an array of signals, how many are valid | `init`, `setSignal`, `clear`, `allocAll...`, `matchNumChannels` | reference counts of signals | each signal released once |
| `TTBuffer` | a matrix of samples | length in samples, seconds, ms; channels; `fill` | `chuck()` and `init()` in pairs | no block freed twice |
| `TTLimiter` | look-ahead buffer and gains, an index | `setLookahead`, `updateMaxNumChannels`, `Clear`, `processAudio` | two rings of different length share an index | the peak that is coming is the one attenuated |
| Generators, `TTAdsr`, `TTRamp` | phase of an envelope, direction of a ramp | triggers, per-sample step | a trigger in every phase | an envelope comes to rest at its level |
| Soundfile recorder and player | an open file, the channels it was opened with | `Record`, `processAudio` | the file is opened by the audio thread and closed by another | a file is written only while open |
| `TTMatrixMixer` | a matrix of gains | channels, `setGain`, `processAudio` | the matrix grows under a running mixer | gains survive growth |
| Filters, functions, windows, FFT, clipper, crossfade, gain, ... | coefficients and a few past samples | attributes, per-sample arithmetic | real numbers | numerical accuracy |
| Max, VST, AU, Pd front ends | signals and objects | `dsp`, `perform`, attributes | the host's order of calls | signals fit what the host passes |
| ViMic | a room, sources, microphones, delays of taps, a fade | messages, `bang`, `perform` | two threads, of which one takes no lock | fades stay in their table and end, taps settle where they were put |

How they interact.  A host, or the engine's callback, fills `TTAudioSignal`s and
passes them to an object's `process()`; `TTAudioObject` takes its lock, puts
them into its arrays and calls `currentProcessMethod`, which is a routine of
the subclass (`TTDelay::calculateLinearInterpolation`, ...) or one of the two of
the base class.  Attributes arrive as messages on other threads, without the
lock.  A subclass that owns memory per channel is told `updateMaxNumChannels`
and `updateSr`.  The engine hands each vector to its observers by
`audioEngineWillProcess`.  `TTObject`, `TTList`, `TTValue` and the lock come from
JamomaFoundation, and streams from PortAudio; neither is part of the repository.

## Modules

| Module | Models |
|---|---|
| `SignalMemory` | the value of a `TTAudioSignal` and the effect of its methods on it |
| `AudioSignal` | the signal and its heap: one action per operation |
| `AudioEngine` | the engine, PortAudio and the callback: two threads |
| `AudioObject` | the routines of an object and the calls of several threads |
| `DelayBuffer` | one circular buffer: operators on a record |
| `Delay` | `TTDelay`: a buffer per channel and the attributes |
| `DelayLine` | what a channel of a delay promises, without pointers |
| `DelayImplements` | the refinement mapping from `Delay` to `DelayLine` |
| `Adsr`, `Ramp` | `TTAdsr`, `TTRamp`: envelopes changed while they move |
| `Limiter` | `TTLimiter`: two rings and one index |
| `SampleBuffer` | `TTBuffer`: memory with two sizes |
| `MatrixMixer` | `TTMatrixMixer`: gains that follow the number of signals |
| `SoundfilePlayer` | `TTSoundfilePlayer`: transport, file and output |
| `GainExternal` | `jcom.gain~`: `dsp` and `perform` over three signals of `SignalMemory` |
| `CrossFade` | `jcom.vimic~`: `bang` and `perform`, two threads |
| `Units` | the seven units from `Adsr` to `GainExternal` side by side |
| `MC...` | values of the constants for TLC |
| `UnitsStorageProofs` | theorems about the units that hold memory or signals: buffer, mixer, player, gain |
| `UnitsLevelProofs` | theorems about the units that compute levels: ramp, limiter, envelope |
| other `...Proofs` | theorems about the module of that name |

A definition has the name of the method, member or attribute it stands for.  Some
definitions are commented as a *slip*: such a definition is the one after it with
a plausible programming error put in, kept to confirm that a property notices
that error.  No specification uses them.

### SignalMemory and AudioSignal

`signal` is the object; `heap` maps the live blocks it has malloc'ed to their
lengths; `badFree` records whether `TTFree16` was ever given an address that was
not a live block of the signal.  `mSampleVectors` is a function on the allocated
channels, so that a lost or stale pointer is a value one can name.  Each action
is a whole method, with the `chuck()` and `alloc()` it calls.  `assign` is
`operator=()`: its intermediate allocation inside `setMaxNumChannels()` is freed
before it returns and is left out.  Samples are not modelled, nor the calls that
only move them, and `malloc` does not fail.

### AudioEngine

`pc` is the place of the controlling thread inside `Start`, `Stop`, `initStream`
and `destroy`, and `cb` that of PortAudio's thread inside `callback()`; the steps
between are the points where the other thread can see the difference.  Setters
write the engine's member first and restart it afterwards, as in the code.
`NumInputChannels` and `NumOutputChannels` have no setter (`TTAudioEngine.cpp:43`-`:45`):
a write changes the member, at any time, and nothing else.

PortAudio is external.  It keeps its open streams under handles (`streams`), some of
them started (`active`).  Every call into it is two actions at least, its success and its failure:

* a failed open leaves `mStream` NULL or a value that is not a stream (`BadStream`;
  `library/portaudio/include/portaudio.h:801`), and the engine goes on to test, start, stop
  and close that value;
* a failed start leaves the stream stopped, but the engine takes itself to be running;
* a failed `Pa_StopStream()` is logged (`TTAudioEngine.cpp:183`) and leaves the stream calling
  back under an engine that takes itself to be stopped;
* the result of `Pa_CloseStream()` is dropped (`:95`, `:263`, `:294`), and `mStream` becomes NULL all
  the same: the stream is lost, and `refused` remembers it;
* a failed `Pa_Terminate()` is logged.

`Pa_StopStream()`, `Pa_CloseStream()` and `Pa_Terminate()` succeed only when no callback of the
streams they end is running.  What happens when one of them fails decides what can be
promised.  After a failed stop alone everything still holds, because closing waits for the
callback too.  After a failed close nothing keeps the callback of that stream away from
buffers that are freed and allocated: the code has no answer to it, and the properties
except the streams in `refused` by name.

The list of observers is external too: an iteration goes on with the node after the
visited one; if that node has been removed, it may go anywhere, and the callback counts
as `raced`.  An observer is added at most once.  One thread at a time controls the engine,
and it is destroyed outside the callback.  One callback at a time is modelled: a second
stream only exists after a refused close, and callbacks do not write what is modelled.
After the destructor the callbacks of a stream left open would use an object that is
gone, which is undefined and left out.

### AudioObject

`mode` holds Bypass, Mute and the four method pointers, and the setters are
functions on it.  `Init` leaves to chance everything the constructor's
initialiser list does not write: `attrBypass` is either value and
`calculateMethod` is NULL or garbage.  A call goes through "wrap" (put signals
into the arrays, call the current routine), "run", and for `calculate()`
"calculate".  The lock is taken to be one its owner may take again, because
`calculate()` with the default method calls `process()` with it held.

### DelayBuffer and Delay

A buffer has `size + 1` places: `mBuffer[0]` to `mBuffer[size()]`, the last of
them the one past its samples that the code's `tail()` points to.  A sample is
represented by its age, the number of samples fed since it went in, so that
"delayed by d" is the number d.  `ForeignWrite` is whoever owns the memory behind
the buffer.  A vector of samples is fed one at a time, and a setter may come
between any two.  Times are whole numbers of 1/`PerMs` ms so that truncation is
exact; `setInterpolation` chooses the loop; the interpolation's weights are left
out, its addresses (`Taps`) are not.

### DelayLine and DelayImplements

`DelayLine` says what one expects of a delay: a line of samples that each new
sample moves on by one, and a tap on it.  Nothing in it is circular.  It has one
flaw, the seam: a place that is not the line's own memory, which others write to
and which `Clear` leaves alone.  `DelayImplements` reads the line off a buffer,
going back from the write pointer; the seam is where that walk passes the memory
past the last sample (`delay_end`).  The property `ImplementsDelayLine` says that
the first channel, through all setters, changes of rate and of channels, and other
channels being fed in between, takes only steps of the line, and that what is at
its read pointer is what is at the tap.  A delay longer than its buffer, which
the setters allow after `DelayMax` is made shorter, is a tap off the line and promises nothing.

### Adsr and Ramp

`Adsr` is a state machine per sample with a level kept twice, as amplitude and in
dB.  Decibels are whole steps of a scale of whole amplitudes, so that both are exact.
`tracking` is a history variable: the two levels have moved together so far.
`Amplitude` is the scale itself, a constant of which only that it rises is assumed.
`Ramp` keeps the direction and the routine that were chosen when the ramp was
started, apart from the values that may be written later.  `OnGrid` bounds ramps
to whole steps; infinities and NaN are kept, because times below one sample make them.

### Limiter

One action is one sample of all channels: analysis, the ramp of gains back from
it, output, advance.  Which channels there are is chosen anew for each sample
(`TTLimiter.cpp:225`; the code keeps them for a vector, which is any number of samples):
only they are recorded and played, but the gains and the index, which the channels
share, go on for all.  `limit` remembers for each place of the ring the threshold
and postamp that were in force when it got its gain, which is what `Limited` holds
the output against; `recorded` says of which channels the sample at a place came with that gain.
A sample that did not is older, left over from before its channel was away.  It is played
when a lookahead made shorter leads back to it (`:259`), and may then be above the
threshold: the code does not prevent that, and `Limited` excepts such channels of the output
(`leftOver`).

### SampleBuffer and MatrixMixer

`SampleBuffer` frees and allocates as `chuck()` and `init()` do; `misused` records
a free of something already freed or of the wrong number of vectors, and an
access outside.  `emptied` marks the one sequence after which the code does go
wrong: a size set back to zero.

`MatrixMixer` resizes columns, then rows, when a vector brings other numbers of
signals than the members say; `asked` is the history of the gains set for pairs that
still exist.  The members are attributes as well, without a setter (`TTMatrixMixer.cpp:23`, with
a TODO to make them read-only): `writeNumInputs` and `writeNumOutputs` change the number
and leave the matrix.  The next vector that brings another number puts that right.  One
that brings the very number that was written resizes nothing and reads outside the
matrix, so `EveryPairHasItsGain` promises the dimensions of the matrix unless the number
was written since (`written`), and the gains always.

### SoundfilePlayer

The flags of the transport and the position in the file; `processAudio` has the
whole of the method, with the adaption of the output and the seek at the end.
`resized` is a history variable: the owner of the output has reallocated it since
the last vector.  Reading and seeking are those of libsndfile, external.

### GainExternal

Composed with `SignalMemory`: the three signals are signals of that module and
are set up by its operators.  A vector holds, instead of samples, the inlets it was made
from, so that a swapped channel can be seen at the outlet.

### CrossFade

`bang` (control thread) and `perform` (audio thread) are two program counters;
every read and write of the shared delays, fade and counter is a step, but for
the loops of `perform` over all taps, which are one.  What `perform` reads once for a
vector (the render interval, the counter, which microphones have a gain) are its locals, read
in three steps; the messages that write them come between any two bangs, at any place
of `perform`.  The interval may so become shorter than what was counted, which the code
handles by comparing with "less than"; the counter stays within the longest interval.

A bang gives new delays to the taps of a microphone without gain too, as long as the
reflection has one (`ViMic_Engine.cpp:38`), but `perform` moves only the taps of
microphones that are heard (`jcom.vimic~.cpp:1858`), unless a fade ends, which moves all.
`Settles` is therefore said of a microphone that is heard from then on.

`jumped` records a tap that moved further than the threshold without a fade.  A bang
when no source, microphone or gain was changed does nothing and is not a step.

### Units

A behaviour begins with a choice of `unit` and then exercises that unit only; the
units share nothing in the code either.  They are side by side so that one run
checks them all and one specification is proved about.  `Units` leaves all constants open;
`MCUnits` has the values of the run.

## Runs

| Run | Question | Result |
|---|---|---|
| `signal_memory` | Is every vector freed once, by its owner, in every order of calls? | holds |
| `engine` | With the callback anywhere between the steps of the other thread, and each call to open, start, stop, close or terminate failing or not: are buffers stable and long enough, is no stream lost but those PortAudio refused to close, is a stream of the selected devices, does every observer get every vector, does every call return? | holds |
| `engine_channels` | Does the callback stay within the buffers' channels when only the devices are changed? | violated: a setter changes the channel count before it stops the stream |
| `object` | From uninitialised members on: the right routine on the right signals, and every call returns with the lock free? | holds |
| `object_mute` | Does Mute silence the object? | violated: `setProcess()` undoes it |
| `delay` | Is the delay exact through every order of playing and setting? | holds |
| `delay_end` | Are writes within the buffer? | violated: the end pointer is one too far |
| `delay_time` | Does the delay time survive a change of rate? | violated: it is clipped to a maximum that has been truncated |
| `units` | With attributes written between any two samples or vectors: do envelopes and ramps go the right way and end, does the limiter limit, does memory fit what is written to it, do gains and sounds stay with their channels? | holds |
| `crossfade` | With `bang` and `perform` interleaved in every way: are fades read inside their table, do they end, do the taps settle? | holds |
| `crossfade_jump` | Does no tap move far without a fade? | violated: the audio thread moves it between the bang's write and its comparison |
| `gain_resize` | Does the input of `jcom.gain~` fit after a new vector size? | violated: `dsp` sets the size that `perform` would have noticed |

`delay` also checks the refinement `ImplementsDelayLine`.

Bounds, and why they are enough.

* `signal_memory`: up to three channels, so that shrinking and growing each can
  skip one; two vector sizes, so that a size can change and change back; four
  blocks, one more than the vectors of one generation (a method frees all before
  it allocates, so that addresses are reused); two host vectors.
* `engine`: a default device with two channels each way and a microphone with two
  and none, so that a change of device empties one side, and a write of the channel
  count fills it again; two handles, so that a stream can be lost and another opened;
  two vector sizes, two rates, two observers (one to be visited, one to come after
  it).  `MCSpec` leaves out the product of what does not meet: observers, or the other
  rate, come in only while devices, sizes and output channels are those of a new engine and
  no close has been refused.  Starting, stopping, failing and restarting are not bounded by
  that.  `engine_channels` gives the microphone three inputs and writes no
  channel count, so that what it finds is due to the setter of the device.
* `object`: two threads, because the lock relates a pair; two routines, one
  calculator; lists of up to two values, the least for which `calculate()`
  re-enters `process()` more than once.  The threads pass signals of their own,
  one of them in place.
* `delay`: buffers of one to three samples are the shortest in which the head,
  the tail and a place between are distinct and the four taps of the cubic loop
  wrap at both ends; rates of 2 and 3 samples per ms and six units per ms, so
  that both conversions truncate and a time of 5 units makes one sample or two;
  zero and three samples, the first as a maximum without memory; one or two
  channels.  An age is never more than the size of the buffer, since `Fed`
  overwrites each place in turn: the state space is finite without a constraint.
* `units`: each unit has just enough for its hard case.  Envelopes have four steps
  of level, stages of two or four samples, and a sustain below and at the top; dB stay within
  `Basement` and `Ceiling`, so an attack is not started again from beyond
  them.  Ramps have three values, times from zero to three samples, and vectors and
  channels of one and two, so that a step divides the way or overshoots it.
  The limiter has a ring of three, so that a lookahead can be one, two, and shorter
  than its index; up to two channels, of which either may be the hot one, and the other, or
  both, away.  Buffers go
  from zero to three in both sizes, mixers from zero to two signals.  The player
  has a mono file of three frames and a stereo one of two, and cues at, before
  and beyond the end of one of them.  `jcom.gain~` has two channels and two vector sizes.
* `crossfade`: one microphone with two taps, the direct sound and one reflection
  that is compared with it; delays within the threshold of each other and
  beyond it; fades of one and two samples; intervals of one and two vectors, so that
  the interval can be made shorter than the count.  A vector of one sample puts every
  step of `perform` next to its ends.  With one microphone, that it is heard or not is
  all or nothing; that the taps of one are moved and those of another are not is in the
  theorem `TapsStaySettled`.

`CHECK_DEADLOCK FALSE` is set for the signal and the engine, which end with
their destructor.

Fairness.  `AudioEngine`: weak fairness for the thread that is inside a call and
for a callback that has begun, since neither waits for anything but the steps
modelled; strong fairness for the success of `Pa_StopStream()`, `Pa_CloseStream()` and
`Pa_Terminate()`, each of which becomes possible between any two callbacks and which PortAudio
does not postpone for ever ("It waits until all pending audio buffers have been played
before it returns", `library/portaudio/include/portaudio.h:906`); weak fairness for its refusal of a
handle that is not a stream.  No other failure is assumed to come.  Nothing is assumed of callbacks that
begin or of calls that are made.  `AudioObject`: weak fairness for each thread
inside a call, as a routine always comes to an end.  `Adsr`, `Ramp` and
`SoundfilePlayer`: weak fairness of the process method, which the audio thread calls
for as long as it runs; nothing is assumed of setters, and the liveness
properties that need them to stop say so (`<>[][Process]_vars => ...`).  `CrossFade`:
weak fairness of `perform`, and of a bang that has begun.  The other modules have
safety properties only.

## What is proved

`AudioSignalProofs`: all five invariants of `AudioSignal`, for any number of
channels, any vector sizes and any addresses.  Their conjunction is inductive:
`NoBadFree` needs `OwnsItsVectors` (what is freed is what is live), and that
needs `NoDanglingVector` (a signal that has given up ownership has none of its
blocks left to free when it takes it again).  Assumed: the host's addresses and
the heap's are disjoint and none is NULL.

`AudioObjectProofs`: `TypeOK`, `NoStaleRoutine`, `BypassWins`, `UnmutedIsHeard`
and `RoutineSeesItsSignals`, for any number of threads and routines.  The invariant
is in two parts.  `ModeInv` is about the setters; `CallInv` says in addition to
the last property that whoever is inside a call owns the lock (`LockOK`), once
or, in a call that `calculate()` makes, twice.  `RoutineSeesItsSignals` is not
inductive without it: two owners could overwrite each other's arrays.

`AudioEngineProofs`: the five invariants and the action property of `AudioEngine`, for any
devices, vector sizes, rates, channel counts, handles and number of observers, and whichever
calls into PortAudio fail.  The invariant is in two parts which share only the place of the
callback.  `ControlInv` says whose the open streams are (`StreamsOK`: the engine's, or refused
ones), what the place of the control thread says of `mStream` (`PlaceOK`), and ties what the
stream was opened with to the members written since (`FramesOK`, `DevicesOK`): without
it nothing says that the buffers are replaced only when the callback of a stream that
could be closed is not on.  It is `NoLostStream`, with `mStream` NULL at "open" and "setup"
inactive, that carries `BuffersStableInCallback` past a failed stop.  `ListInv` says
how far the callback has got in the list: whoever is subscribed throughout is
either told already or still ahead (`Visited`), unless the node it stood on is gone.
Assumed: NULL and the value a failed open leaves are not handles.

`DelayProofs`: `TypeOK`, `BuffersReady`, `PointersApart`, `HeardIsDelayed` and
`TapsInBuffer`, for buffers, delays, rates and numbers of channels of any size.
`HeardIsDelayed` is a statement about one place of the buffer; the invariant says of every place i
that what is there is as old as i is far behind the write pointer (`AgeAt`),
unless it is silence or the foreign place, and where the read pointer is
(`Behind`).  A delay longer than its buffer has no such place, but `PointersApart`
holds of it too: the invariant `Apart` says by how many whole turns of the buffer
the distance of the pointers differs from the delay, and that the read pointer,
which may then lie before the head, is never past the end.  A congruence alone would not
do: a read pointer past the end would be reset to the head without having
gone a whole turn.

`DelayImplementsProofs`: `Spec => ImplementsDelayLine`.  Whatever a setter does, it
leaves the samples of the first channel alone, makes its buffer anew or leaves it
without one (`Set`), and each of these is a step of the line; so is each
of a sample, a `Clear` and a foreign write.  The tap comes from the invariant of
`DelayProofs`, as far as it says where the read pointer is.  Assumed: a delay has
at least one channel (`FirstChannelAssumption`).

`CrossFadeProofs`: `TypeOK` and `InsideTheTable`, for any number of taps and any
lengths and intervals, written between bangs as one likes.  What is needed besides: a
fade that is on has the length that is set, and what `perform` has seen (a fade, room
in the counter up to the interval it has read) `bang` and the attributes do not take away.

`UnitsStorageProofs` and `UnitsLevelProofs` are about `Units`, with `UnitsAssumption`:
each unit's `ConstantsOK`.  A step of `Units` is a step of the unit that is
exercised and leaves the others as they are (`UnitSteps`), so each unit has an
invariant of its own; together they give `TypeOK` of all seven (`UnitsTypeOK`).

* `ContentsFit` (`BufferInv`): needs that there are contents whenever both sizes are
  there, which the property does not say.
* `EveryPairHasItsGain` (`MixerInv`): the matrix is, column by column, the gains
  asked for, whatever its dimensions.  Resizing the inputs and then the outputs keeps
  what resizing both would, also after a number has been written.
* `VectorFits` (`PlayerInv`): the buffer has frames times channels samples, and the
  channels are those of the output unless its owner has resized it since.
* `OutputsFit` and `OwnSoundAtOutlet` (`GainInv`): since the last `dsp` all vectors that
  `perform` computes have the size it takes them to have, and what they hold is the
  sound of the channel it takes them for.  This rests on the operators of
  `SignalMemory`, with a lemma for each that says which channels and sizes it leaves.
* `NeverPast` (`RampInv`): needs that the step has the sign of the direction and the
  method is one of that direction, also while no vector is processed.
* `Limited` (`LimiterInv`): it is about the sample that is played, but the index may
  come to any place of the ring next, so the invariant `Held` is about all of them: the
  gain of a place times the sample there of each channel recorded with it is within the
  place's limit.
  The ramp of an attack only lowers gains (`RampLowers`), and the new place gets its
  gain from the hottest channel, which is one (`HottestIsHottest`).
* `NeverTheWrongWay` (`AdsrInv`): while the levels have moved together, the decibels are
  not more than the amplitude, and in an attack or a release less by no
  more than a step.  Both conversions are taken from the scale: that
  `linearToDb` finds a number of decibels at all needs a greatest one below the
  amplitude.  That, like the hottest channel of a finite set, comes from the
  library's theorems on well-founded relations: a non-empty set has a
  minimal element, which is not the principle of induction and needs no operator as
  parameter.

Assumed of the units' constants is what their attributes clip to (a lookahead
shorter than the ring, positive thresholds) and what the abstraction
introduces: for the envelope that amplitudes rise with the decibels and that its times
divide both scales; for the ramp that its values lie below `Infinity`.

Of the liveness properties the part that is safety is proved as well: every step that
is taken leaves fewer, so that what is left is the fairness of taking them.

* `CallsReturn` of the engine and of the object: `StepsLeft` counts what a call may
  still take at most, each of its own steps lowers it, and no callback, setter or
  other thread moves it (`CallsGoForward`, in both modules).  For the object it is
  three for each signal in the list: `calculate()` may find the default method, take
  the lock and be sent on once for each, however the methods change under it.  That
  an idle thread does not own the lock is `LockGivenBack`.
* `FadesEnd`: a fade moves to the next place of its table or, from the last, ends;
  no bang restarts it or changes its length (`FadesArePlayedOut`).
* `Settles`: a bang goes forward from tap to tap (`BangsGoForward`), a tap moves only
  to where the last bang put it, without a fade only at a microphone that is heard,
  and stays there (`TapsStaySettled`).
* `LeftAloneArrives`: every vector of a ramp brings it strictly closer to its
  destination or ends it there, unless its value is NaN (`VectorsComeCloser`).
* `LeftAloneEnds`: every vector of a player takes it on in its file, or is its end; a
  read of no frames does not leave it where it is and playing (`VectorsPlayOn`).
* `FollowsItsGate`: every sample of a stage moves the level that the method at work
  moves, or ends the stage (`EveryStageMovesOn`).  While the method stays, that
  bounds the stage; that changing the methods on the way does not make one
  endless is shown by the run only.

Checked by TLC only: the liveness properties themselves (`CallsReturn` of the object
and of the engine, `FollowsItsGate`, `LeftAloneArrives`, `LeftAloneEnds`,
`FadesEnd`, `Settles`), because what fairness gives, and what is ENABLED, is
outside TLAPS.  Every invariant and action property of a run that holds is a theorem.

## What the runs found

* `engine_channels`: `setInputDevice()` assigns `mNumInputChannels` under a running
  callback, which then goes through channels the buffer does not have
  (`TTAudioEngine.cpp:257`).
* `object_mute`: `setProcess()` looks at Bypass only, so that choosing a routine
  while muted makes the object audible (`TTAudioObject.cpp:143`).
* `delay_end`: `mEndPointer` is documented to point to the last sample, but points
  one past it, and the loops go there (`TTDelayBuffer.h:48`).
* `delay_time`: `updateSr()` means to hold the delay's time, but may shorten it
  (`TTDelay.cpp:84`).
* `crossfade_jump`: `vimic_sensitivity()` writes a new delay and then compares it
  with the current one; if `perform` has moved the tap in between, there is nothing
  to fade and the tap has jumped (`ViMic_Engine.cpp:172`).
* `gain_resize`: `gain_dsp()` gives the input signal the new vector size without
  memory, so that `setVector()` in `gain_perform()` sees no change and writes longer
  vectors into shorter ones (`jcom.gain~.cpp:262`).

Seen while reading and not turned into runs, mostly because no document says
what should happen:

* A stream that `Pa_CloseStream()` refuses to close is forgotten (`TTAudioEngine.cpp:95`), and its
  callbacks go on over buffers that are freed and allocated; after a failed open that
  leaves a value other than NULL, `Start()` never opens a stream again.
* `NumInputChannels` of the engine, `NumInputs` of the mixer and their counterparts can be written, which
  changes the number and nothing else: the callback then uses channels its buffers do
  not have, and the mixer may read outside its matrix.
* A sample in the limiter from before its channel was away can be played above the
  threshold, after the lookahead was made shorter (`TTLimiter.cpp:259`).
* A microphone whose gain was zero during a bang keeps its old delays until it is heard.
* `wrapPointer()` at the tail skips the first sample of the buffer (`TTDelayBuffer.h:78`).
* A shorter `DelayMax` leaves the delay longer than its buffer; Bypass turned
  off while muted leaves `calculate()` bypassed.  `HeardIsDelayed` and `TapsInBuffer`
  are stated for a delay the buffer has room for.
* `TTBuffer` keeps a deleted `mContents` when a size goes to zero, and deletes it
  again with the next change.
* The limiter turns quiet sounds down to the threshold as well
  (`TTLimiter.cpp:253`), and its lookahead does not delay what is heard.
* An exponential attack that starts from a release may end above 0 dB.
* A ramp on two channels is twice as fast, and a time below one sample makes its
  step infinite, or the value NaN for good.
* `jcom.gain~` uses `attrMix` when it comes out of bypass, which nothing has
  initialised if the attribute was never set.
* `mSeek` of the player survives the opening of another file.
* `vimic_mirrors()` compares every reflection with the direct sound's current
  delay, not its own (`ViMic_Engine.cpp:32`).
* The recorder ignores a file that fails to open, and closes it under a vector
  that is being written.

## Not modelled

The soundfile recorder: what it does wrong goes through libsndfile on a NULL or closed
file, whose answer is not in the library.  `TTAudioSignalArray`, but for the two arrays of
`process()`: loops over signals without decisions.  Filters, functions, windows,
FFT, the phasor, the wavetable, noise and the other effects: state and coefficients
are real numbers.  ViMic apart from its delays: geometry.  The other Max
externals: the pattern of `jcom.gain~` with one unit.  The AudioUnit host and the
plug-in wrappers: thin layers around interfaces that are not in the repository.
PortAudio, libsndfile and the FFT library are third-party; the first two are
modelled as far as they are called.  Destructors of `TTBuffer` and `TTLimiter`,
which free what the setters free.  Data races inside one assignment: setters
of `TTAudioObject`, `TTDelay` and the units are single steps.

## Plan

Done: the core (`AudioSignal`, `AudioEngine`, `AudioObject`, `Delay`), the
refinement of `DelayLine`, the units of `Units`, `CrossFade`, each with the proofs
of all its safety properties.  Next, in this order:

1. An abstract specification of the callback's side of the engine (every vector
   is passed on once to each observer, on buffers that do not change) with the
   engine shown to implement it.
2. `SignalArray`, with the reference counts of signals, and `copy()` of a signal
   with a channel offset as an operator against a reference definition.
3. `SoundfileRecorder`: two threads and a file, with libsndfile as an external that
   refuses what is not open.
