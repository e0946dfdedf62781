----------------------------- MODULE ApiObject ------------------------------
(***************************************************************************)
(* The API object from DirectSoundCreate8 to the last Release of the last  *)
(* buffer: Startup, with Creation in between.  Buffers are made once both  *)
(* threads are started and the creation has returned; the release of the   *)
(* last reference (Creation) begins the shutdown (Startup), which waits    *)
(* for the reaper to free what was released.  The audio thread meanwhile   *)
(* still finishes its start-up, plays, or has failed.                      *)
(***************************************************************************)
EXTENDS Creation

CONSTANT MayFailToStart  \* the steps of start-up and playing that may fail

VARIABLES
  app, made, outcome, live, reaper, reaperStop, audio, step, local, kept, refs,
  started, stop, thread

S == INSTANCE Startup WITH MayFail <- MayFailToStart

startupVars ==
  <<app, made, outcome, live, reaper, reaperStop, audio, step, local, kept, refs, started,
    stop, thread>>
allVars == <<vars, startupVars>>

ApiInit == Init /\ S!Init

(* DirectSoundCreate8 has returned an object, and it has not been released.*)
Created == app = "returned" /\ outcome = "created"

(* A failed assertion stops the program, every thread of it.               *)
Runs == failed = "none"

(* The application has the object.                                         *)
UseObject == Created /\ Calls /\ UNCHANGED startupVars

(* The reaper thread frees what it was given ...                           *)
ReaperFrees == reaper = "running" /\ Reap /\ UNCHANGED startupVars

(* ... which is sure to happen only while the audio thread plays, since the*)
(* reaper waits for it to execute the commands of every batch.  (Once the  *)
(* device has failed, a batch that is past its fence may still be freed.)  *)
ReaperFreesFenced == audio \in {"loop", "mix"} /\ ReaperFrees

(* Faulty ReaperExits: as soon as it is told to.                           *)
ReaperExitsAtOnce == Runs /\ S!ReaperExits /\ UNCHANGED vars

(* ... and exits when that is all and it is told to.                       *)
ReaperExits == Runs /\ tasks = <<>> /\ S!ReaperExits /\ UNCHANGED vars

(* The last ds_api_unref begins ...                                        *)
LastRelease ==
  /\ \E t \in Threads : At(t, "shutdown")
  /\ S!Release
  /\ UNCHANGED vars

(* ... and returns.                                                        *)
LastReleaseReturns ==
  /\ app = "returned"
  /\ outcome = "released"
  /\ \E t \in Threads : Shutdown(t)
  /\ UNCHANGED startupVars

(* DirectSoundCreate8, and ds_api_unref once it has begun.                 *)
BringUpAndDown == Runs /\ S!App /\ UNCHANGED vars

PlayPeriods == Runs /\ S!Audio /\ UNCHANGED vars

ApiNext ==
  \/ BringUpAndDown
  \/ PlayPeriods
  \/ UseObject
  \/ ReaperFrees
  \/ ReaperExits
  \/ LastRelease
  \/ LastReleaseReturns

(* The threads of the library go on when they can, and so does a thread    *)
(* that is bringing the library up or down; whether the application makes  *)
(* another call is up to it.                                               *)
ApiSpec ==
  /\ ApiInit
  /\ [][ApiNext]_allVars
  /\ WF_allVars(BringUpAndDown)
  /\ WF_allVars(PlayPeriods)
  /\ WF_allVars(ReaperFreesFenced)
  /\ WF_allVars(ReaperExits)
  /\ WF_allVars(LastRelease)
  /\ WF_allVars(LastReleaseReturns)

-----------------------------------------------------------------------------
(* Properties                                                              *)

(* Every interface of the device has the references the audio thread has   *)
(* pointers for, so none is used or released after its last one; and what  *)
(* the thread opened it has closed when it exits, wherever it failed.      *)
AudioCleansUp == S!InterfacesCounted /\ S!AudioClosesAll

(* What the last release frees is not used by a thread any more: the events*)
(* and the queues by the audio thread, the lists by the reaper, which gets *)
(* every task that was submitted while it still runs.                      *)
ThreadsOutlived ==
  /\ S!ThreadsOutlived
  /\ tasks # <<>> => reaper = "running"

(* A DirectSoundCreate8 that fails, at whatever step of whatever thread,   *)
(* and a last release leave no thread, event or object behind but the      *)
(* wasapi structure and the reaper's client; nor any part of a buffer but  *)
(* the primary ones.                                                       *)
NothingLeft ==
  /\ S!NothingLeft
  /\ outcome = "released" => heap \subseteq {"self"} \X primary

(* The audio thread has left its loop and nobody told it to.               *)
DeviceFailed == audio \in {"end", "exited"} /\ ~stop

(* DirectSoundCreate8 returns, whether the audio thread reports or exits;  *)
(* and so does the last release, unless the device fails when the reaper   *)
(* still has something to free: it then waits for its fence for ever.      *)
CallsReturn ==
  /\ <>(outcome # "none" /\ app = "returned")
  /\ (\E t \in Threads : At(t, "shutdown")) ~>
       (\A t \in Threads : Idle(t)) \/ (DeviceFailed /\ tasks # <<>>)
=============================================================================
