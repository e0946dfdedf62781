------------------------------ MODULE Playback ------------------------------
(***************************************************************************)
(* What an application hears and is told: Play, Stop, SetVolume and        *)
(* GetStatus of ds-buffer.c against the mixer of the audio thread, with    *)
(* the command pipe between them.                                          *)
(*                                                                         *)
(* One application thread; a stream stands for its sound buffer.           *)
(***************************************************************************)
EXTENDS CommandPipe, SndMixer

CONSTANTS
  Levels,      \* the linear volumes SetVolume computes: 0 to 256
  NoStream,
  MaxPending   \* bound: the application waits while intake is this long

Requests ==
  [type : {"play"}, stm : Streams, loop : BOOLEAN]
  \cup [type : {"stop"}, stm : Streams]
  \cup [type : {"set_volume"}, stm : Streams, volumes : [Channels -> Volumes]]

(* snd_command_set_volume takes a uint8_t.                                 *)
Narrow(level) == level % 256

ASSUME PlaybackAssumption ==
  /\ Levels \subseteq 0..256
  /\ \A level \in Levels : Narrow(level) \in Volumes
  /\ NoStream \notin Streams
  /\ Contents = Requests
  /\ MaxPending \in Nat

VARIABLES
  playing,    \* playing[s]: ds_buffer.playing
  looped,     \* looped[s]: ds_buffer.looping
  checking,   \* the stream a GetStatus in progress has found not looping
  asked,      \* auxiliary: asked[s], the last of Play, Play(loop) and Stop
  denied,     \* auxiliary: those GetStatus found finished with a play under way
  level       \* auxiliary: level[s], the volume last set

flagVars == <<playing, looped, checking, asked, denied, level>>
vars == <<pipeVars, mixerVars, flagVars>>

Init ==
  /\ PipeInit
  /\ MixerInit
  /\ playing = [s \in Streams |-> FALSE]
  /\ looped = [s \in Streams |-> FALSE]
  /\ checking = NoStream
  /\ asked = [s \in Streams |-> "stop"]
  /\ denied = {}
  /\ level = [s \in Streams |-> Unity]

-----------------------------------------------------------------------------
(* The application                                                         *)

Command(v) ==
  /\ checking = NoStream
  /\ Len(intake) < MaxPending
  /\ Submit(v)
  /\ UNCHANGED <<mixerVars, checking>>

(* ds_buffer_play *)
Play(s, loop) ==
  /\ Command([type |-> "play", stm |-> s, loop |-> loop])
  /\ playing' = [playing EXCEPT ![s] = TRUE]
  /\ looped' = [looped EXCEPT ![s] = loop]
  /\ asked' = [asked EXCEPT ![s] = IF loop THEN "loop" ELSE "once"]
  /\ denied' = denied \ {s}
  /\ UNCHANGED level

(* ds_buffer_stop *)
Stop(s) ==
  /\ Command([type |-> "stop", stm |-> s])
  /\ playing' = [playing EXCEPT ![s] = FALSE]
  /\ looped' = [looped EXCEPT ![s] = FALSE]
  /\ asked' = [asked EXCEPT ![s] = "stop"]
  /\ denied' = denied \ {s}
  /\ UNCHANGED level

(* ds_buffer_set_volume, the same for both channels.                       *)
SetVolume(s, v) ==
  /\ Command([type |-> "set_volume", stm |-> s,
              volumes |-> [ch \in Channels |-> Narrow(v)]])
  /\ level' = [level EXCEPT ![s] = v]
  /\ UNCHANGED <<playing, looped, asked, denied>>

(* The commands that have not been executed, oldest first, and those of    *)
(* them about s.                                                           *)
Waiting ==
  (IF phase = "exec" THEN SubSeq(chamber, iter, Len(chamber)) ELSE <<>>) \o intake

UnderWay(s) == {v \in ToSet(Waiting) : v.stm = s}

(* ds_buffer_get_status brings `playing` up to date: if it is set,         *)
(* snd_stream_is_finished loads looping, and if that is clear              *)
(* loads the position.                                                     *)
GetStatus(s) ==
  /\ checking = NoStream
  /\ playing[s]
  /\ ~looping[s]
  /\ checking' = s
  /\ UNCHANGED <<pipeVars, mixerVars, playing, looped, asked, denied, level>>

GetStatusPosition ==
  /\ checking # NoStream
  /\ playing' = [playing EXCEPT ![checking] = pos[checking] < NFrames[checking]]
  /\ denied' = IF ~playing'[checking] /\ \E v \in UnderWay(checking) : v.type = "play"
               THEN denied \cup {checking} ELSE denied
  /\ checking' = NoStream
  /\ UNCHANGED <<pipeVars, mixerVars, looped, asked, level>>

AppStep ==
  \/ \E s \in Streams :
       \/ \E loop \in BOOLEAN : Play(s, loop)
       \/ Stop(s)
       \/ \E v \in Levels : SetVolume(s, v)
       \/ GetStatus(s)
  \/ GetStatusPosition

-----------------------------------------------------------------------------
(* The audio thread                                                        *)

AudioIntake == TakeBatch /\ UNCHANGED <<mixerVars, flagVars>>

(* The switch of snd_service_intake; a play command takes a step before.   *)
AudioSetLooping ==
  /\ AtCommand("exec")
  /\ Current.type = "play"
  /\ SetLooping(Current.stm, Current.loop)
  /\ UNCHANGED <<pipeVars, flagVars>>

AudioExecute ==
  /\ Execute
  /\ \/ Current.type = "play" /\ PlayStream(Current.stm, Current.loop)
     \/ Current.type = "stop" /\ StopStream(Current.stm)
     \/ /\ Current.type = "set_volume"
        /\ SetStreamVolumes(Current.stm, Current.volumes)
  /\ UNCHANGED flagVars

AudioStartMix == StartMix /\ BeginMix /\ UNCHANGED flagVars

AudioMixStream ==
  /\ phase = "mix"
  /\ MixStream
  /\ UNCHANGED <<pipeVars, flagVars>>

AudioEndMix == left = <<>> /\ EndMix /\ UNCHANGED <<mixerVars, flagVars>>

(* None of these commands has a callback.                                  *)
AudioNotify == Notify /\ UNCHANGED <<mixerVars, flagVars>>
AudioRecycle == Recycle /\ UNCHANGED <<mixerVars, flagVars>>

AudioStep ==
  \/ AudioIntake
  \/ AudioSetLooping
  \/ AudioExecute
  \/ AudioStartMix
  \/ AudioMixStream
  \/ AudioEndMix
  \/ AudioNotify
  \/ AudioRecycle

Next == AppStep \/ AudioStep

(* The device asks for a buffer every period.                              *)
Spec == Init /\ [][Next]_vars /\ WF_vars(AudioStep)
-----------------------------------------------------------------------------
(* The mixer's iterator never stands on a removed node: what is left to    *)
(* visit is the end of the list, and no stream is there twice              *)
(* (snd_mixer_mix steps before it removes; list_node_is_inserted guards    *)
(* the append).                                                            *)
IteratorStaysInList ==
  /\ IsInjective(streams)
  /\ IsSuffix(left, streams)

(* snd_stream_render against its reference: a looping stream gives a whole *)
(* period, wrapping round; another gives what is left of it.               *)
RenderIsContiguous ==
  \A s \in {streams[k] : k \in 1..Len(streams)} :
    LET n == IF looping[s] THEN Period
             ELSE IF NFrames[s] - pos[s] < Period THEN NFrames[s] - pos[s]
             ELSE Period
    IN Rendered(s).frames = [k \in 1..n |-> (pos[s] + k - 1) % NFrames[s]]

(* No command about s is under way.                                        *)
Settled(s) == UnderWay(s) = {}

(* Once the commands about a stream have been executed, the mixer does     *)
(* what was asked last: silent after a Stop, and a one-shot sound is heard *)
(* until its end and only leaves the mixer there.                          *)
MixedAsAsked ==
  \A s \in Streams : Settled(s) =>
    /\ asked[s] = "stop" => ~InMix(s)
    /\ asked[s] = "once" => ~looping[s] /\ (InMix(s) \/ IsFinished(s))
    /\ asked[s] = "loop" => looping[s]

(* A one-shot sound ends, unless it is played again.                       *)
OneShotEnds ==
  \A s \in Streams :
    (InMix(s) /\ ~looping[s]) ~>
      \/ ~InMix(s)
      \/ looping[s]
      \/ \E n \in 1..Len(intake) : intake[n].stm = s /\ intake[n].type = "play"

(* "Make sure self->playing is up to date": once its commands have been    *)
(* executed, a buffer that is mixed is reported as playing and a buffer    *)
(* reported as playing is mixed.  There are two exceptions.  A GetStatus   *)
(* that comes between a Play and its execution sees the position where the *)
(* stream last ended, and denies it for good; and a looping stream whose   *)
(* end falls on the end of a period leaves the mixer, and is still reported*)
(* as playing.                                                             *)
StatusIsTrue ==
  \A s \in Streams : Settled(s) =>
    /\ InMix(s) => playing[s] \/ s \in denied
    /\ playing[s] /\ ~IsFinished(s) => InMix(s) \/ pos[s] = NFrames[s]

(* SetVolume sets the volume; but full volume, 256, is silence once it has *)
(* been asked for (a uint8_t), and not before.                             *)
VolumeIsSet ==
  \A s \in Streams : Settled(s) =>
    \A ch \in Channels :
      volumes[s][ch] = level[s] \/ (level[s] = 256 /\ volumes[s][ch] = 0)
=============================================================================
