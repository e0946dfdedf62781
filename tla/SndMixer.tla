------------------------------ MODULE SndMixer ------------------------------
(***************************************************************************)
(* src/snd-mixer.c and src/snd-stream.c: the list of streams being mixed   *)
(* and, per stream, the play position, the loop flag and the volumes.      *)
(*                                                                         *)
(* Everything here runs on the audio thread.  Positions and lengths count  *)
(* stereo frames; the code counts samples, always an even number           *)
(* (snd_buffer_alloc, snd_stream_render).  Sample values are left out.     *)
(***************************************************************************)
EXTENDS Naturals, Sequences, SequencesExt

CONSTANTS
  Streams,  \* the streams the mixer is ever told about
  NFrames,  \* NFrames[s]: length of the buffer stream s plays
  Period,   \* length of one mix, the device period
  Volumes,  \* the volume levels that are told apart
  Unity     \* 0x100, the volume of a new stream

ASSUME MixerAssumption ==
  /\ NFrames \in [Streams -> Nat \ {0}]
  /\ Period \in Nat \ {0}
  /\ Unity \in Volumes

VARIABLES
  streams,  \* snd_mixer.streams, in list order
  left,     \* the streams the running snd_mixer_mix has yet to visit
  pos,      \* pos[s]: snd_stream.pos
  looping,  \* looping[s]: snd_stream.looping
  volumes   \* volumes[s]: snd_stream.volumes, one level per channel

mixerVars == <<streams, left, pos, looping, volumes>>

Channels == {0, 1}

MixerInit ==
  /\ streams = <<>>
  /\ left = <<>>
  /\ pos = [s \in Streams |-> 0]
  /\ looping = [s \in Streams |-> FALSE]
  /\ volumes = [s \in Streams |-> [c \in Channels |-> Unity]]

-----------------------------------------------------------------------------
(* Faulty Render: a loop starts over at the second frame.                  *)
RenderSkipsFirst(len, loop) ==
  LET render[w \in 0..Period] ==
        [p \in 0..len |->
          LET pastEnd == p + w > len
              pEnd == IF pastEnd THEN len ELSE p + w
              wLeft == IF pastEnd THEN w - (len - p) ELSE 0
              span == [k \in 1..(pEnd - p) |-> p + k - 1]
              rest == render[wLeft][1]
          IN IF wLeft = 0 \/ ~loop
             THEN [frames |-> span, pos |-> pEnd]
             ELSE [frames |-> span \o rest.frames, pos |-> rest.pos]]
  IN render

(* The loop of snd_stream_render on a buffer of len frames: from position  *)
(* p with w frames wanted, the source frames it adds to the destination,   *)
(* in order, and the position it stores at the end.                        *)
Render(len, loop) ==
  LET render[w \in 0..Period] ==
        [p \in 0..len |->
          LET pastEnd == p + w > len
              pEnd == IF pastEnd THEN len ELSE p + w
              wLeft == IF pastEnd THEN w - (len - p) ELSE 0
              span == [k \in 1..(pEnd - p) |-> p + k - 1]
              rest == render[wLeft][0]
          IN IF wLeft = 0 \/ ~loop
             THEN [frames |-> span, pos |-> pEnd]
             ELSE [frames |-> span \o rest.frames, pos |-> rest.pos]]
  IN render

Rendered(s) == Render(NFrames[s], looping[s])[Period][pos[s]]

(* snd_stream_is_finished *)
IsFinished(s) == ~looping[s] /\ pos[s] >= NFrames[s]

InMix(s) == Contains(streams, s)

-----------------------------------------------------------------------------
(* The play command begins with snd_stream_set_looping, a store that other *)
(* threads may see before the rest of the command.                         *)
SetLooping(s, loop) ==
  /\ looping' = [looping EXCEPT ![s] = loop]
  /\ UNCHANGED <<streams, left, pos, volumes>>

(* Faulty PlayStream: no rewind; no test for the list; no looping flag.    *)
PlayWithoutRewind(s, loop) ==
  /\ looping[s] = loop
  /\ streams' = IF InMix(s) THEN streams ELSE Append(streams, s)
  /\ UNCHANGED <<left, pos, looping, volumes>>

PlayTwice(s, loop) ==
  /\ looping[s] = loop
  /\ pos' = [pos EXCEPT ![s] = 0]
  /\ streams' = Append(streams, s)
  /\ UNCHANGED <<left, looping, volumes>>

PlayKeepsLooping(s, loop) ==
  /\ pos' = [pos EXCEPT ![s] = 0]
  /\ streams' = IF InMix(s) THEN streams ELSE Append(streams, s)
  /\ UNCHANGED <<left, looping, volumes>>

(* It ends, the flag being set, with snd_mixer_play, which rewinds the     *)
(* stream and appends it unless it is in the list already.                 *)
PlayStream(s, loop) ==
  /\ looping[s] = loop
  /\ pos' = [pos EXCEPT ![s] = 0]
  /\ streams' = IF InMix(s) THEN streams ELSE Append(streams, s)
  /\ UNCHANGED <<left, looping, volumes>>

(* The stop command: snd_mixer_stop.  The position stays.                  *)
StopStream(s) ==
  /\ streams' = IF InMix(s) THEN RemoveFirst(streams, s) ELSE streams
  /\ UNCHANGED <<left, pos, looping, volumes>>

(* Faulty SetStreamVolumes: only the first channel.                        *)
SetOneVolume(s, levels) ==
  /\ volumes' = [volumes EXCEPT ![s][0] = levels[0]]
  /\ UNCHANGED <<streams, left, pos, looping>>

(* The volume command: snd_stream_set_volume on both channels.             *)
SetStreamVolumes(s, levels) ==
  /\ volumes' = [volumes EXCEPT ![s] = levels]
  /\ UNCHANGED <<streams, left, pos, looping>>

(* snd_mixer_mix: clear the accumulator and start down the list.           *)
BeginMix ==
  /\ left' = streams
  /\ UNCHANGED <<streams, pos, looping, volumes>>

(* Faulty MixStream: a stream that has ended stays in the list.            *)
MixStreamKeeps ==
  /\ left # <<>>
  /\ pos' = [pos EXCEPT ![Head(left)] = Rendered(Head(left)).pos]
  /\ left' = Tail(left)
  /\ UNCHANGED <<streams, looping, volumes>>

(* One turn of its loop: step the iterator, render the stream, and drop it *)
(* from the list if no samples remain.  Of this other threads can see the  *)
(* store of the position, and nothing else: the list is the mixer's own.   *)
MixStream ==
  /\ left # <<>>
  /\ LET s == Head(left)
         end == Rendered(s).pos
     IN /\ pos' = [pos EXCEPT ![s] = end]
        /\ streams' = IF end < NFrames[s] THEN streams ELSE RemoveFirst(streams, s)
  /\ left' = Tail(left)
  /\ UNCHANGED <<looping, volumes>>
=============================================================================
