------------------------------- MODULE Reaper -------------------------------
(***************************************************************************)
(* src/reaper.c and what it guards against: the audio thread (wasapi.c,    *)
(* snd-service.c, snd-mixer.c) reads streams and samples that the          *)
(* application has released, so a background thread sends it a batch of    *)
(* stop commands, waits until the callback of the last one signals a       *)
(* fence, and only then frees.                                             *)
(*                                                                         *)
(* A buffer b stands for a ds_buffer, its stream, its reaper task and, if  *)
(* it was not made by duplication, its sample buffer.                      *)
(***************************************************************************)
EXTENDS CommandPipe, FiniteSets

CONSTANTS
  Buffers,
  DeviceMayFail   \* IAudioRenderClient or the device event may fail

(* What a command says, as far as lifetimes go.                            *)
Requests ==
  [type : {"play", "stop", "set_volume"}, stm : Buffers, callback : BOOLEAN]

ASSUME ReaperAssumption ==
  /\ DeviceMayFail \in BOOLEAN
  /\ Contents = Requests

VARIABLES
  audio,          \* the audio thread: "running" or "exited"
  audioStop,      \* wasapi.stop, a manual-reset event
  mixing,         \* the streams in snd_mixer.streams
  stm,            \* stm[b]: the snd_stream of b: "none", "live" or "freed"
  samples,        \* samples[b]: the snd_buffer b owns, if it owns one
  sbuf,           \* sbuf[b]: the owner of the snd_buffer b's stream reads
  tasks_pending,  \* reaper.tasks_pending
  tasks,          \* reaper.tasks: the batch being reclaimed
  task,           \* the position of the loop over tasks
  rpc,            \* where the reaper thread is
  stop,           \* reaper.stop
  stopping,       \* the thread's local copy of it
  fence           \* reaper.fence, a manual-reset event

audioVars == <<audio, audioStop, mixing>>
resourceVars == <<stm, samples, sbuf>>
taskVars == <<tasks_pending, tasks, task>>
threadVars == <<rpc, stop, stopping>>
reaperVars == <<taskVars, threadVars, fence>>

Lives == {"none", "live", "freed"}
ReaperLabels ==
  {"check", "asleep", "woken", "submit", "fence", "reset", "destroy", "exited"}

ReaperInit ==
  /\ PipeInit
  /\ audio = "running"
  /\ audioStop = FALSE
  /\ mixing = {}
  /\ stm = [b \in Buffers |-> "none"]
  /\ samples = [b \in Buffers |-> "none"]
  /\ sbuf = [b \in Buffers |-> b]
  /\ tasks_pending = <<>>
  /\ tasks = <<>>
  /\ task = 1
  /\ rpc = "check"
  /\ stop = FALSE
  /\ stopping = FALSE
  /\ fence = FALSE

-----------------------------------------------------------------------------
(* The audio thread: the loop of wasapi_thread_main.                       *)

(* Both events are waited for and stop comes first in the array, so a      *)
(* period begins only while it is not set.                                 *)
AudioIntake ==
  /\ audio = "running"
  /\ ~audioStop
  /\ TakeBatch
  /\ UNCHANGED <<audioVars, resourceVars, reaperVars>>

AudioExecute ==
  /\ Execute
  /\ mixing' = CASE Current.type = "play" -> mixing \cup {Current.stm}
                 [] Current.type = "stop" -> mixing \ {Current.stm}
                 [] OTHER -> mixing
  /\ UNCHANGED <<audio, audioStop, resourceVars, reaperVars>>

AudioStartMix ==
  /\ StartMix
  /\ UNCHANGED <<audioVars, resourceVars, reaperVars>>

(* snd_mixer_mix: any of the streams may have reached its end.             *)
AudioMix ==
  /\ EndMix
  /\ mixing' \in SUBSET mixing
  /\ UNCHANGED <<audio, audioStop, resourceVars, reaperVars>>

(* The one callback there is, reaper_signal_fence.                         *)
AudioNotify ==
  /\ Notify
  /\ fence' = (fence \/ Current.callback)
  /\ UNCHANGED <<audioVars, resourceVars, taskVars, threadVars>>

AudioRecycle ==
  /\ Recycle
  /\ UNCHANGED <<audioVars, resourceVars, reaperVars>>

(* The thread leaves its loop and frees the mixer: it was told to stop.    *)
Leave ==
  /\ audio = "running"
  /\ phase = "idle"
  /\ audio' = "exited"
  /\ mixing' = {}
  /\ UNCHANGED <<pipeVars, audioStop, resourceVars, reaperVars>>

AudioExit == audioStop /\ Leave

(* Or GetBuffer, ReleaseBuffer or the wait failed.                         *)
AudioFail == DeviceMayFail /\ Leave

AudioStep ==
  \/ AudioIntake
  \/ AudioExecute
  \/ AudioStartMix
  \/ AudioMix
  \/ AudioNotify
  \/ AudioRecycle
  \/ AudioExit

-----------------------------------------------------------------------------
(* Callers of the reaper.  A step inside the critical section is atomic.   *)

(* WakeConditionVariable: nothing unless the thread sleeps on it.          *)
Woken == IF rpc = "asleep" THEN "woken" ELSE rpc

(* Faulty SubmitTask: the thread is not woken.                             *)
SubmitTaskSilently(b) ==
  /\ tasks_pending' = Append(tasks_pending, b)
  /\ UNCHANGED <<tasks, task, threadVars, fence>>

(* reaper_submit_task: wake the thread if the list was empty.              *)
SubmitTask(b) ==
  /\ tasks_pending' = Append(tasks_pending, b)
  /\ rpc' = IF tasks_pending = <<>> THEN Woken ELSE rpc
  /\ UNCHANGED <<tasks, task, stop, stopping, fence>>

(* Faulty RaiseStop: the thread is not woken.                              *)
RaiseStopSilently ==
  /\ stop' = TRUE
  /\ UNCHANGED <<taskVars, rpc, stopping, fence>>

(* reaper_free, first half.                                                *)
RaiseStop ==
  /\ stop' = TRUE
  /\ rpc' = Woken
  /\ UNCHANGED <<taskVars, stopping, fence>>

-----------------------------------------------------------------------------
(* reaper_thread_main                                                      *)

(* Nothing to do: sleep.                                                   *)
ReaperSleep ==
  /\ rpc = "check"
  /\ ~stop
  /\ tasks_pending = <<>>
  /\ rpc' = "asleep"
  /\ UNCHANGED <<pipeVars, audioVars, resourceVars, taskVars, stop, stopping, fence>>

(* SleepConditionVariableCS may return without a wake.                     *)
SpuriousWake ==
  /\ rpc = "asleep"
  /\ rpc' = "woken"
  /\ UNCHANGED <<pipeVars, audioVars, resourceVars, taskVars, stop, stopping, fence>>

(* Faulty ReaperTake: frees without a word to the audio thread.            *)
ReaperTakeUnfenced ==
  /\ \/ rpc = "woken"
     \/ rpc = "check" /\ (stop \/ tasks_pending # <<>>)
  /\ stopping' = stop
  /\ tasks' = tasks_pending
  /\ tasks_pending' = <<>>
  /\ task' = 1
  /\ rpc' = "destroy"
  /\ UNCHANGED <<pipeVars, audioVars, resourceVars, stop, fence>>

(* The rest of the critical section: read the stop flag, take all tasks.   *)
(* After a sleep nothing is checked again.                                 *)
ReaperTake ==
  /\ \/ rpc = "woken"
     \/ rpc = "check" /\ (stop \/ tasks_pending # <<>>)
  /\ stopping' = stop
  /\ tasks' = tasks_pending
  /\ tasks_pending' = <<>>
  /\ task' = 1
  /\ rpc' = IF tasks_pending = <<>> THEN "destroy" ELSE "submit"
  /\ UNCHANGED <<pipeVars, audioVars, resourceVars, stop, fence>>

(* Faulty ReaperSubmit: the first command has the fence.                   *)
ReaperSubmitFenceFirst ==
  /\ rpc = "submit"
  /\ Submit([type |-> "stop", stm |-> tasks[task], callback |-> task = 1])
  /\ task' = task + 1
  /\ rpc' = IF task = Len(tasks) THEN "fence" ELSE "submit"
  /\ UNCHANGED <<audioVars, resourceVars, tasks_pending, tasks, stop, stopping, fence>>

(* reaper_thread_submit_commands: a stop for each task, the last one with  *)
(* the fence as its callback.                                              *)
ReaperSubmit ==
  /\ rpc = "submit"
  /\ Submit([type |-> "stop", stm |-> tasks[task], callback |-> task = Len(tasks)])
  /\ task' = task + 1
  /\ rpc' = IF task = Len(tasks) THEN "fence" ELSE "submit"
  /\ UNCHANGED <<audioVars, resourceVars, tasks_pending, tasks, stop, stopping, fence>>

(* WaitForSingleObject on the fence, then ResetEvent.                      *)
ReaperWait ==
  /\ rpc = "fence"
  /\ fence
  /\ rpc' = "reset"
  /\ UNCHANGED <<pipeVars, audioVars, resourceVars, taskVars, stop, stopping, fence>>

(* Faulty ReaperReset: the fence stays signalled.                          *)
ReaperForgetsReset ==
  /\ rpc = "reset"
  /\ rpc' = "destroy"
  /\ UNCHANGED <<pipeVars, audioVars, resourceVars, taskVars, stop, stopping, fence>>

ReaperReset ==
  /\ rpc = "reset"
  /\ fence' = FALSE
  /\ rpc' = "destroy"
  /\ UNCHANGED <<pipeVars, audioVars, resourceVars, taskVars, stop, stopping>>

(* One turn of list_clear: reaper_thread_destroy_resources.                *)
ReaperDestroy ==
  /\ rpc = "destroy"
  /\ tasks # <<>>
  /\ LET b == Head(tasks)
     IN /\ stm' = [stm EXCEPT ![b] = "freed"]
        /\ samples' = [samples EXCEPT ![b] = IF sbuf[b] = b THEN "freed" ELSE @]
  /\ tasks' = Tail(tasks)
  /\ task' = 1
  /\ UNCHANGED <<pipeVars, audioVars, sbuf, tasks_pending, threadVars, fence>>

(* Faulty ReaperLoop: looks at the flag again, outside the lock.           *)
ReaperLoopReadsStop ==
  /\ rpc = "destroy"
  /\ tasks = <<>>
  /\ rpc' = IF stop THEN "exited" ELSE "check"
  /\ UNCHANGED <<pipeVars, audioVars, resourceVars, taskVars, stop, stopping, fence>>

ReaperLoop ==
  /\ rpc = "destroy"
  /\ tasks = <<>>
  /\ rpc' = IF stopping THEN "exited" ELSE "check"
  /\ UNCHANGED <<pipeVars, audioVars, resourceVars, taskVars, stop, stopping, fence>>

ReaperStep ==
  \/ ReaperSleep
  \/ ReaperTake
  \/ ReaperSubmit
  \/ ReaperWait
  \/ ReaperReset
  \/ ReaperDestroy
  \/ ReaperLoop
=============================================================================
