# Hypersonik in TLA+

Hypersonik implements DirectSound on top of WASAPI. Application threads create
sound buffers, fill them, play, stop and release them; one audio thread mixes
what plays, a period at a time; one background thread frees what was released
once the audio thread is done with it. There are no locks between the
application and the audio thread, only lock-free queues. This directory models
the parts of it in which the order of steps matters, checks them with TLC on
small instances and proves facts about them with TLAPS for all instances.

## The system

| Part | State | Operations | Uses |
| --- | --- | --- | --- |
| `queue.c` | shared stacks (`tail`), private lists (`head`), links in the items | push, spill, take, pop, iterate | C11 atomics |
| `snd-service.c` | intake and exhaust (shared), chamber and the clients' pools (private), commands | client alloc/free, command alloc/free/fill/submit, intake, exhaust | queues, mixer |
| `snd-mixer.c`, `snd-stream.c`, `snd-buffer.c` | list of streams, accumulator; position, loop flag, volumes; samples | play, stop, mix; render, rewind, is-finished | lists |
| `reaper.c` | task lists, condition variable, stop flag, fence | submit task, thread main, submit commands, destroy, free | service, lists |
| `ds-buffer.c` | reference count, `playing`, `looping`, format, conversion bytes | Play, Stop, SetVolume, GetStatus, Lock, Unlock, SetFormat, AddRef, Release | client, reaper, converter |
| `ds-api.c` | reference count, back end, reaper | DirectSoundCreate8, create and duplicate buffers, AddRef, Release | all of the above |
| `wasapi.c` | thread, stop and start events, device interfaces | alloc, start, free, thread main | service, mixer |
| `ds-buffer-pri.c` | reference count | AddRef, Release; the other methods return constants | - |
| `list.c` | doubly linked list | append, remove, move, clear, iterate | - |
| `converter.c` | an ACM stream | sizes, conversion | operating system |
| `trace.c`, `hr.c`, `guid/` | - | logging, error codes, identifiers | - |

How they interact:

- An application thread takes a command from its buffer's client, fills it in
  and pushes it on the *intake* queue. The audio thread, at each period, moves
  the intake to its *chamber*, executes it on the mixer, mixes, calls the
  commands' callbacks and moves the chamber to the *exhaust* queue, from which
  clients refill their pools.
- The last `Release` of a buffer gives its *task* (stream, and samples if the
  buffer owns them) to the reaper, then releases the parent: the API object, or
  the buffer it duplicates. The reaper sends one stop command per task, the last
  of the batch with a callback that signals a *fence*, waits for it, and frees.
- The last `Release` of the API object stops the reaper thread and waits for it,
  then the audio thread.

What is hard, and what makes each part correct:

| Part | Hard behaviour | Correct if |
| --- | --- | --- |
| queues | retry loops, ABA on the tail, reversal in place | they are atomic FIFOs; nobody touches an item that others can reach |
| service | commands go round for ever between threads | one owner each; executed once, in order, as filled in; come back |
| mixer, streams | wrap-around, removal while iterating, commands in flight | mixes what was asked last, reads within the buffer |
| reaper | lost wake-ups, stale fence, stop versus late tasks | frees only what is quiet; frees everything; terminates |
| buffers, API | shared samples, reference chains, concurrent releases, creations that fail half-way | nothing is used after it is freed; nothing is left behind; status tells the truth |
| Lock and Unlock | a span that wraps, conversion, two handles on one array | what was written is what is heard |
| converter | rounding, products that do not fit | the device's copy is long enough; positions are right to a frame |
| mixing | many loud streams in a 32-bit slot | the clipped sum |
| back end | any call of the start-up fails, the device fails later | whoever waits is told; what was opened is closed |
| lists | a node in two lists, removal while walking | they are sequences; no assertion fails |

## Modules

| Module | Models |
| --- | --- |
| `AtomicQueue` | what `queue.h` promises: atomic FIFOs, one owner per item |
| `LockFreeQueue` | `queue.c`, one step per access to the shared tail; refines `AtomicQueue` |
| `CommandPipe` | what `snd-service.c` promises, on command *contents* |
| `SndService` | `snd-service.c` with command objects and pools; refines `CommandPipe` |
| `SharedClient` | one client used by several threads, an access to its private pool a step |
| `ListSequences` | what `list.h` promises: sequences of nodes and walks over them |
| `List` | `list.c`, link by link; refines `ListSequences` |
| `SndMixer` | the stream list of `snd-mixer.c`, and `snd-stream.c` |
| `Playback` | Play, Stop, SetVolume, GetStatus against the mixer, through `CommandPipe` |
| `Mixdown` | one slot of the work area of `snd_mixer_mix` |
| `FormatSizes` | the arithmetic of `converter_calculate_dest_nbytes`, for the next two |
| `Converter` | the sizes and positions of `converter.c`, as `ds-buffer.c` uses them |
| `BufferLock` | Lock, Unlock, SetFormat, GetCurrentPosition, Duplicate, Release and what is converted |
| `Reclamation` | what `reaper.c` is for: deferred, safe freeing |
| `Reaper` | the thread of `reaper.c` and the audio thread, through `CommandPipe` |
| `Lifetime` | `Reaper` with application threads, reference counts and shutdown; refines `Reclamation` |
| `Creation` | making and unmaking buffers, each allocation a step that may fail |
| `Startup` | DirectSoundCreate8, the audio thread's start-up and loop, the last Release; each call a step that may fail |
| `ApiObject` | `Startup` with `Creation` in between |
| `LockFreeQueueProofs`, `SndServiceProofs`, `ListProofs`, `PlaybackProofs`, `ConverterProofs`, `LifetimeProofs`, `ApiObjectProofs` | theorems about the module named |
| `SampleProofs` | theorems about `Mixdown` and `BufferLock` |
| `MC*` | instances for TLC |

The layers rest on each other: `SndService` uses the atomic queues that
`LockFreeQueue` implements, `Playback` and `Lifetime` use the pipe of values
that `SndService` implements, and sequences stand everywhere for the lists that
`List` shows to be sequences. `Lifetime` takes the creation of a buffer, and
what comes before the first, for single steps that succeed; `Creation` and
`Startup` are about what happens inside them, and leave out the audio thread's
use of streams, which is `Lifetime`'s.

Names are those of the code (`cmds_intake`, `tasks_pending`, `conv_bytes`).
Operators introduced with "Faulty" are plausible mistakes in the action after
them; no specification uses them. They document what each property is
sensitive to.

Granularity, and why it is fine enough:

- `LockFreeQueue`: a step is one access to the shared `tail`, with the accesses
  to items around it that no other thread can see; the compare-and-exchange may
  fail spuriously. Memory is sequentially consistent, as the default atomics of
  the code are.
- `SharedClient`: the queues that are private in every other module are reached
  by several threads here, so each access to `head` or to an item is a step.
- `SndService`: one step per queue operation (justified by the refinement) and
  per visited command.
- `Playback`: executing a command is one step, but that a play first stores the
  loop flag and then rewinds are two, because GetStatus may read in between: it
  reads the loop flag and the position in two steps itself. Rendering a stream is
  one step, of which other threads see the position alone: the list that the
  stream may leave in it is the mixer's own.
- `Reaper`: a critical section is one step; every `Submit`, wait, reset and freed
  task is one; the stop flag is copied with the batch, as under the lock.
- `Lifetime` and `Creation`: every change of a reference count is one step, and
  what follows it are others, so that other threads come in between. A creation
  that fails goes back the way of its `goto end`.
- `Startup`: one step per call that may fail, on the application thread and on
  the audio thread, which run at once until the latter reports.
- `BufferLock`: one step per call, and one for what the application writes
  between Lock and Unlock: one value, into all the frames that lie wholly in the
  span it was given. One thread makes the calls: the code has no lock.
- `List`: one step per operation; a walk is a step per node, with the changes
  the callers make in between.

Abstractions. Sample values are left out but in `Mixdown` (numbers) and in
`BufferLock` (labels); a format is what the code compares or computes of it.
`SharedClient` apart, each client is used by one thread at a time. In
`ApiObject` the reaper may free whatever it was given at any time: that it waits
for the audio thread is expressed by the fairness of `ReaperFreesFenced` only,
and by `Lifetime` in full. Which interfaces and events the operating system
hands out are names.

The conversion of samples is the operating system's (ACM). `BufferLock` says of it
what the code relies on. It turns the handle's bytes, from their first, into
frames of the samples, from their first, each made from the frame that is played
at its time (`SourceOf`); a frame of the samples is known by the labels of the
bytes it was made from. It stops where the bytes or the samples end, it may or
may not fill a last frame that the bytes cover only in part, and one that fails
converts nothing. How many bytes it reports to have used is not modelled because
Unlock does not look (`ds-buffer.c:768`).

## Runs

| Run | Instance | Shows |
| --- | --- | --- |
| `lock_free_queue` | 3 threads, 3 items | refinement of atomic FIFOs; an item another thread can reach is never written |
| `snd_service` | 2 clients, 3 commands, 1 stream | one owner; refinement of the pipe; commands come back |
| `playback` | buffers of 5 and 2 frames, period 3, 2 pending | what is mixed, how it is rendered, what GetStatus says |
| `playback_one` | 5 frames, levels 0, 128, 256 | the volume heard; one-shot sounds end |
| `lifetime` | 2 threads, 2 buffers, play and stop, the device may fail | nothing used after free; the invariant of the proof; refinement of `Reclamation` |
| `lifetime_liveness` | 1 thread, 2 buffers, the device may fail | everything released is freed; shutdown ends |
| `api_object` | 2 threads, 2 buffers, every step may fail | counts, allocations and device interfaces add up; threads are outlived; calls return |
| `buffer_lock` | original and clone, 2 bytes, 5 formats, one of them invalid, 1 call of SetFormat | what is written is heard; assertions |
| `list` | 2 lists, 4 nodes | refinement of sequences; assertions |
| `converter` | 11 formats, up to 9 bytes | sizes and positions |
| `mixdown` | samples of -4 to 3, up to 5 streams | the sample is the clipped sum |
| `shared_client_races` | 2 threads, 3 commands | violation: see below |

Bounds. Three threads give a push against a take against a third that recycles
items, which is what ABA needs; with three items a chain has an inner link. Two
clients suffice for one to receive what the other exhausted; three commands for
one in the chamber, one in the intake and one in a pool. Buffers of 5 and 2
frames against a period of 3 wrap within a period, several times in a period and
exactly at its end. Two buffers are a source and its duplicate, and a batch of
two tasks; two threads release them at once, and one duplicates what the other
releases. `MaxPending` bounds the commands the application has waiting: the
application is made to wait there, the reaper is not. `Commands` and `Buffers`
bound the memory ever allocated: in `Lifetime` buffers are not reused after they
are freed, so that any later use shows.

`buffer_lock` has two bytes, created as two mono frames of 8 bits at a rate of 4
and sampled as three stereo frames of 16 bits at a rate of 5, of which the last is
covered in part. SetFormat may make of the two bytes frames at a rate of 2, which
last longer than the samples, one frame of 16 bits, which lasts less long, the
device's own format or one of rate 0. `MaxSetFormats` is 1, which is enough for
original and clone to differ (a clone made before keeps the old format, one made
after gets the new one), for the change to come before or after the first Lock and
for one of the two to be written directly while the other converts. `Requested`
is 0, 1, 4 and 15 where `SizeLimit` is 16: spans that are empty, begin inside, hold
one frame of the device's or part of it, end inside, at and beyond the end of the
buffer, and sums that overflow. One value other than zero tells
what was written from what was not. Four nodes give a list a first, an inner and a
last node and leave one to move. The rates of `converter` are lower and higher
than the device's, with and without a common factor, and equal; a product that
does not fit `SizeLimit` (64) occurs. `mixdown` keeps the proportions of the code
(samples of 2^15, unity 2^8, a work area of 2^31, hence 256 streams) at 4, 4
and 48, hence a limit of 3, and goes beyond it.

Deadlock is checked in `lock_free_queue`, `playback`, `playback_one`, `list` and
`mixdown`, which never stop. The others may: the library has been shut down
(`lifetime`, `lifetime_liveness`, `api_object`, `snd_service`), the reaper waits
for a device that has failed, an assertion has stopped the program
(`buffer_lock`, `api_object`), or the creation of the buffer has failed
(`converter`).

Fairness. The audio thread is driven by the device, once a period, so its steps
are weakly fair; where the device may fail it may instead leave its loop for
good. The reaper thread, a thread inside a `Release` or inside DirectSoundCreate8,
and the audio thread's start-up are scheduled by the operating system, hence
weakly fair, too. `ReaperFreesFenced` is fair only as long as the audio thread
plays. Nothing obliges an application to call anything, and no wake-up is
spurious by duty.

What each property is about is written above it. Those that need more words:

- `SharedItemsFrozen` is what makes the compare-and-exchange of `queue.c` immune
  to ABA: as long as an item is in the shared stack nobody writes its link.
- `ImplementsCommandPipe` compares what commands *say*, so it breaks when an object
  comes back with something left over from its last use, such as a fence.
- `AllOrNothing`, `NothingLeft` and `AudioCleansUp` are about the `goto end` of the
  three files. `AllOrNothing` says of each buffer which of its parts are allocated
  when no thread is in the middle of making or destroying it, whatever the other
  threads are doing; the creations that stop the program with an assertion remain
  in the middle. `NothingLeft` and `AudioCleansUp` say what is allocated, referenced
  or open once start-up has failed, the object is gone or the audio thread ends.
- `WrittenIsHeard` compares the samples with a history of what was written through
  each handle (`mine`) and of what ought to be heard (`written`). It holds whatever
  formats the handles had when they were first locked and whichever conversions
  failed in between, and also says when `buf` reaches all that was written.
- `MixedAsAsked` and `StatusIsTrue` compare the mixer with what the application
  asked last, once its commands have been executed.

## Findings

One run shows a contradiction between a comment and the code.
`shared_client_races`: `snd_client_cmd_alloc` pops from its client's pool without a
lock (`snd-service.c:350`), "safely" by its comment, and two threads that Play one
buffer, or that create buffers of one API object, get the same command. The
callers say "TODO implement locking".

Other behaviour that a caller might not expect appears as a named exception in a
property that passes, so that the property says when the promise is kept and
when it is not. Of the first two, the comment "Make sure self->playing is up to
date" (`ds-buffer.c:486`) says more than the code keeps; on the others the
repository says nothing else:

| Behaviour | Where | Exception in |
| --- | --- | --- |
| A looping sound whose end meets the end of a period leaves the mixer and is still reported as playing. | `snd-stream.c:121`, `snd-mixer.c:131` | `StatusIsTrue` |
| GetStatus after a finished sound is played again, before the audio thread has rewound it, denies that it plays for good. | `ds-buffer.c:488` | `StatusIsTrue` |
| Full volume is 256, which is 0 in a `uint8_t`: silence. | `snd-service.c:135` | `VolumeIsSet` |
| When the device fails the reaper waits for its fence for ever, and so does the last Release. | `reaper.c:338` | `ReleasedIsFreed`, `ShutdownCompletes`, `CallsReturn` |
| The end of a Lock's span may overflow a DWORD. | `ds-buffer.c:595` | `SpanIsRequest` |
| A Lock that is tried again after its conversion could not be prepared fails an assertion, and Release frees twice. | `ds-buffer.c:304` | `NoAssertionFails` |
| GetCurrentPosition asserts that a format nobody validated converts. | `ds-buffer.c:405` | `NoAssertionFails` |
| Duplicating a buffer whose format has become invalid, or does not divide its length, fails an assertion while it cleans up. | `ds-buffer.c:97`, `reaper.c:225` | `NoAssertionFails` |
| SetFormat after the first Lock: Unlock writes bytes that are stale, or in the wrong format, over the samples. | `ds-buffer.c:666`, `ds-buffer.c:767` | `WrittenIsHeard` |
| SetFormat before the first Lock may make the bytes last longer than the samples: the conversion stops at their end, and Unlock returns success. | `ds-buffer.c:289`, `ds-buffer.c:768` | `WrittenIsHeard` |
| A handle's Unlock converts all its bytes, from the first, over what other handles have put there. | `ds-buffer.c:767` | `WrittenIsHeard` (`written`) |
| The size of the samples may overflow a `size_t`, and what lies beyond them is not heard. | `converter.c:75` | `WrittenIsHeard`, `BufferLongEnough` |
| A creation that fails before its task is complete, and not for want of a client or of the object, fails an assertion while it cleans up. | `reaper.c:225`, `reaper.c:385` | `AllOrNothing` (the thread remains inside its call) |
| The wasapi structure and the reaper's client are never freed. | `ds-api.c:80`, `reaper.c:143` | `NothingLeft` |
| A primary buffer has one reference that nobody releases. | `ds-api.c:238` | `CountsMatch`, `NothingLeft` |
| More than 256 loud streams overflow a slot of the work area. | `snd-mixer.c:136` | `HeardIsClippedSum` |
| Both conversions round up, so the position may be told beyond the end of the buffer. | `converter.c` | `PositionNearEnd` |

## Proofs

Theorems hold for every value of the constants that meets the module's named
assumption. They need no fairness.

Every safety property a passing run checks, refinements included, is also the
subject of a theorem. Recursive definitions (the links read from a pointer, the
loop of `snd_stream_render`) are reasoned about by induction over a *set* of
numbers: the lemma `SetInduction` follows from the well-foundedness of `<` and
does not need the induction theorems of the library, which take an operator.

**Queues.** `LockFreeQueueProofs` (`QueueAssumption`) proves `TypeCorrect`,
`HeldItemsAreUnlinked`, `SharedItemsStayFrozen` and `ImplementsAtomic`, the refinement
of `AtomicQueue`, for any threads and items. `Linked` says which sequence of
distinct items a chain of pointers is, and `ReadsWhole` and `ReadsUpTo` that the
recursive function with which the refinement mapping reads it returns that
sequence. The invariant `IInv` says that the shared stack is such a chain, that
each thread has one or two more according to its label (`Lists`: while a chain is
being reversed, the part done and the part to do), what its locals hold
(`Locals`) and that no item is in two of all these places (`Apart`). At the
exchange, `seen` is only what the last item was linked to: that the tail may have
been taken and pushed again meanwhile does no harm, because a successful
exchange makes `seen` the rest of the stack whatever happened to it before, which
is the argument against ABA. Each step then writes links of its own thread's
items only (`OwnLinksOnly`), so no other chain changes, and is one operation of
the abstract queues or none.

**Lifetime.** `LifetimeProofs` proves, for any number of threads, buffers and
waiting commands and whether or not the device may fail:

- `StreamSafety`: the audio thread never uses a stream that has been freed;
- `FenceSafety`: a signalled fence means that the batch waited for is quiet;
- `TypeCorrectness`, in which a reference count that never goes below zero is the
  part that needs an argument;
- `Invariance`, of the invariant `IInv` the three follow from. TLC checks `IInv`
  in the run `lifetime`;
- `SampleSafety`, `CallerSafety`, `CleanExit` and `NoLateTasks`: the same of samples,
  of what application threads work on, and of the end of the reaper;
- `Reclaims`: `Lifetime` implements `Reclamation`;
- `EndInvariance`, of the invariant `EndInv`, `IInv` and more, that these follow from.

The assumptions are `LifetimeAssumption` (finitely many threads and buffers, the
API object is not a buffer) and `ReaperAssumption` (what a command says). The
argument runs as follows.

1. Freeing. The reaper frees a stream when its label is `destroy`. `BatchQuiesced`
   says that then no stream of the batch is mixed and no command about one waits
   to be executed, so `StreamsLive` survives.
2. The fence. `BatchQuiesced` becomes true when the audio thread calls the
   fence's callback back. At that moment every stop of the batch has been
   executed (`FenceIsLast`: nothing about the batch comes after the command with
   the callback), and a stream of the batch that were still mixed would have a
   stop ahead (`StopsComeLast`). `FenceState` and `FenceIsLast` also say that there
   is no older callback or signalled fence that the reaper could take for its
   own, which is why `ReaperReset` matters.
3. No new commands. Nobody may speak of a stream of the batch once it is there.
   An application thread speaks of buffers it holds, which are referenced
   (`Counted`), while those in the reaper's lists have count 0 and are listed once
   (`QueuedOnce`, `RetiringOnce`); so a freed stream is never freed again either.
4. Counting. `Counted` equates each count with the number of its holders:
   threads, releases on their way, and buffers whose parent it is. `TypeOK` alone
   is not inductive, because a count stays in `Nat` only while it counts somebody.
   `LifetimeProofs` has one lemma for each way the counts change.
5. `NoBatch` is what a new batch starts from, `AudioGone` what `wasapi_free` relies
   on when it drops the commands nobody took.
6. Samples. They are freed with the stream they were made for, while duplicates,
   and duplicates of duplicates, may read them. A source is referenced by those
   made from it, so it is retired after them, and the reaper's lists keep that
   order (`SourceLast`): when it comes to be freed it has no live duplicate.
   Whoever reads the samples through several duplications is then gone too, for
   no buffer is its own source however many duplications away (`Ranked`): of the
   live readers of some samples, the one of least rank has no source among them,
   so it is the owner itself. The same argument takes a reference from any buffer
   up to the API object, which is why no task comes while that is destroyed.
7. The end. What nobody refers to is on its way to the reaper or in its lists
   (`RetiredKept`), so a reaper with empty lists and no reference anywhere has
   freed everything. A raised stop flag means that the API object's count is zero
   (`StopInv`), and with it, as just said, every other.
8. Refinement. The streams the audio thread may read, those mixed and those a
   waiting command starts, grow only by a call of a thread that holds a buffer,
   and counts that do not reach zero leave the abstract state as it is.

Commands are numbered along chamber and intake (`Cmd`, `ToExecute`, `ToCall`), so
that taking a batch moves nothing and only `Recycle` shifts the numbers.

**Service.** `SndServiceProofs` (`ServiceAssumption`) proves `Ownership`, `EmptyChamber`,
`TypeCorrect` and `Implementation`, the refinement of `CommandPipe`, from an
invariant that adds two facts to what the run checks. `OneOwner` is stated by
place (`OnePlace`, `QueuedOnce`, `OneClient`), so that an action disturbs the places
it moves a command between and no others. `StoppedIdle` says that the audio thread
stops between two periods, when the chamber is empty, so that freeing the
service returns every command. `GivenOutCleared` says that what a client gives
out says nothing. The refinement then follows: a command in a queue is not in a
user's hands (`OneOwner`), so filling one in leaves the contents of the queues as
they are, and one that is submitted says only what its client filled in.

**Lists.** `ListProofs` (`ListAssumption`) proves `TypeCorrect`, `AssertionSafety` (no
assertion of `list.c` fails) and `EmptyCorrect` (a list without a head holds no
node). The invariant says of every node in a list that its neighbours point back
at it and are in the same list (`Linked`), and that nodes can be ranked so that
ranks rise along the links (`Ranked`): there is no circle. A node of least rank in
a list has no predecessor and so is the head. `ImplementsListSequences`, the
refinement of `ListSequences`, needs to know in addition which sequence the links
from a head spell (`Spelled`) and that it holds the nodes of its list and no
others (`Ordered`). A sequence of distinct nodes is no longer than there are
nodes (`SpelledIsShort`), which is why the set of nodes is assumed to be finite and
why reading as many links as there are nodes reads all of the list. Appending,
removing and moving are then facts about the sequences spelled before and after
(`SpelledAppend`, `SpelledRemove`, `SpelledFrame`). What a walk has still to meet is
the end of its list, so removing the node it has just met leaves that alone.

**Playback.** `PlaybackProofs` (`PlaybackAssumption`) proves `IteratorStays`,
`RendersInOrder`, `MixesAsAsked`, `TellsTheTruth` and `SetsTheVolume` for any streams,
lengths, period and volumes. What is left to execute of the chamber and the intake
are reasoned about as one queue, `Waiting`: a submission appends to it, the
execution of a command takes its head, and everything else the pipe does leaves
it as it is; while a play is between its two steps it is still the head
(`CurrentWaits`), so the flag it has stored early is claimed by nothing
(`SetLoopingKeeps`). For each of what
is asked of a stream, its volume and what GetStatus says of it the invariant has
the same form: either the last waiting command about the stream is one that asks
for it, or no such command waits and the mixer is in the state asked for
(`AskedInv`, `LevelInv`, `StatusInv`). That a stream is in the mixer's list once, that
the iterator's rest is the end of the list, and that a stream in it has frames
left (`ListInv`) is what makes a removal during the mix safe. The recursion of
`Render` equals a closed form (`Round` for a loop, `Straight` for a single play),
from which contiguity is arithmetic about remainders.

**Converter.** `ConverterProofs` (`ConverterAssumption`) proves `BufferCorrect`,
`PositionCorrect` and `PositionBounded` for any formats and lengths. The core is one
lemma about division rounded upwards; the two conversions in sequence give the
bound past the end.

**Mixing.** `SampleProofs` (`MixdownAssumption`) proves `TypeCorrect` and `MixCorrect` for
any widths. The sum is as far from zero as so many streams can make it
(`SumBounded`), and up to the limit that fits a slot, so the slot holds the sum
(`SlotIsSum`) and only the last step clips.

**Lock and Unlock.** `SampleProofs` also proves, of `BufferLock` (`BufferLockAssumption`),
`GrantsWhatExists` (`SpanIsRequest`), `WritesReachTheSamples` (`WrittenIsHeard`) and
`AssertionsHold` (`NoAssertionFails`) for any handles, formats and lengths, with
their named exceptions, and the invariant they follow from (`LockInvariance`). That
invariant follows what was written on its way:

- `ConvInv`: a handle that was locked and still has its format has a converter for
  it if it needs one;
- `BytesInv`: a handle's bytes hold, at every place in the samples that something
  was delivered to, what was last written there through it, or what is being
  written since the last Lock (`PendingIn`), and whether a conversion has failed
  since does not matter;
- `SamplesInv`: the samples hold what ought to be heard, or what is being written
  into them directly (`DirectPending`), but for the frames that a conversion reaches
  in part or not at all (`BeyondReach`);
- `FailInv`: until a converter is refused, bytes and converter exist together and
  every format is one the buffer could have been created with.

An Unlock that converts makes the second into the third (`UnlockConverted`): the
frames the ACM fills (`FilledFacts`) are made from frames whose bytes are known. A
write changes the bytes of the frames it was granted and of no others, because
frames do not share bytes (`FramesApart`). The end of the samples is arithmetic: a
quotient rounded upwards is monotonic, so bytes that last no longer than those
the buffer was created with have no frame beyond it (`RoomForPlaces`). Of the
sizes it is assumed that the length in bytes the buffer was created with fits a
DWORD (`SizeLimit`); a request's offset and length may add up to more, and so may
the size of the samples.

**API object.** `ApiObjectProofs` (`CreationAssumption`: finitely many threads and
buffers, the API object is not one of them) proves `Counting`, that every count
is the number of references there are (`CountsMatch`), and `NoUseAfterDestroy`, that
what is destroyed exists, has no holder and is destroyed by one thread. The
invariant adds what each thread's call works on (`CallsMatch`), that no two
threads make or destroy one buffer (`OneCall`), and when a buffer exists and has a
parent (`BuffersMatch`). Start-up and shutdown stutter in it but for the step at
which they meet `Creation`. `SamplesKept` proves `SamplesOutliveStreams` along the
argument of `Lifetime`'s samples, inside the calls: nothing is made from a buffer
that is still being made or is a primary one (`MadeAlone`), a buffer has its stream
until its task is freed (`AllStreamed`), and the owner of samples comes after their
readers in the reaper's list (`OwnersLast`). A reader not yet there keeps a
reference on its parent, which reads the same samples, and so on up to the owner.

`CreationsHappenOrNot` proves `AllOrNothing`: the invariant says for every step of
making and unmaking a buffer which of its parts exist (`PartsMatch`) and that a
buffer nobody refers to is being destroyed (`DyingMatches`), so a buffer that no
thread is making or destroying has all its parts or none. A creation that lacks
its client or its object returns and leaves nothing; the other failures fail an
assertion, and the theorem says nothing of the buffer they were about. `DeviceCleanUp` proves `AudioCleansUp`
from what the audio thread has opened and references at each step of its setup
(`DeviceInv`). `ThreadsUseWhatIsThere` (`ThreadsOutlived`) and `CleanExit`
(`NothingLeft`) join the two: what is allocated and which threads run in each phase
of start-up and shutdown (`PhaseInv`), and that the reaper runs while it has
something to free and that nobody refers to the API object once its last release
has begun (`LifeInv`). By `Counting` no buffer is left at that point either.

What stays with TLC is liveness, which is out of the prover's reach together with
`ENABLED`: `CommandsComeBack`, `OneShotEnds`, `ReleasedIsFreed`, `ShutdownCompletes` and
`CallsReturn`. What they rest on in terms of safety is proved: who owns a command,
what a fence means, who holds what.

## Not modelled, and what comes next

- Failures the code does not expect of valid handles: `CoInitializeEx`, waits,
  `SetEvent` but for the audio thread's report, critical sections.
- A looping buffer of no frames, on which the render loop would spin
  (`snd-stream.c:94`): `SndMixer` assumes at least one frame (`MixerAssumption`).
- The values of samples that the ACM converts (which bytes they are made from is
  modelled), and the count of bytes it reports.
- Methods that return constants or copies (`GetCaps`, `GetFormat`,
  `QueryInterface` and the like), parameter checks without an effect on state,
  tracing, error codes, GUIDs, build files.
- Several threads in Lock and Unlock of one buffer, for which the code has no
  lock: undefined behaviour beyond the interleavings `SharedClient` shows.

Worth proving next: what the liveness properties rest on step by step, as action
properties (in each period a single play moves on or leaves the mixer; a batch
once taken is executed to its end and given back in order); an abstract
specification of the object counts, in which a creation, a duplication and a
release are one step each, and that `Creation` implements it.

The hazards in `PROJECT.json` name the lines at which all this bites and the
properties that cover them.
