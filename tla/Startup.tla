------------------------------ MODULE Startup -------------------------------
(***************************************************************************)
(* Bringing the library up and taking it down (ds_api_create, ds_api_unref,*)
(* wasapi_start, wasapi_thread_main, wasapi_thread_do_setup, reaper_alloc, *)
(* reaper_free): an application thread allocates, starts the reaper and the*)
(* audio thread and waits for the latter to report; the audio thread opens *)
(* the device.  Every step of either may fail.  What the threads do between*)
(* start and stop is Lifetime's.                                           *)
(***************************************************************************)
EXTENDS Integers, Sequences

CONSTANT MayFail  \* the steps that may fail

(* What ds_api_alloc allocates, in order: ds_api, wasapi with its events   *)
(* and its service, the reaper's client, the reaper.                       *)
Allocations ==
  <<"api", "wasapi", "started", "stop", "service", "intake", "chamber", "exhaust",
    "client", "pool", "reaper", "fence", "tasks", "tasks_pending">>

(* What wasapi_thread_main goes through before its loop; from "enumerator" *)
(* to "preroll" it is wasapi_thread_do_setup.                              *)
ThreadSteps ==
  <<"com", "event", "enumerator", "device", "client_interface", "period", "initialize",
    "event_handle", "buffer_size", "render_interface", "preroll",
    "mixer", "report", "boost", "start_device">>

Interfaces == {"enumerator", "device", "client_interface", "render_interface"}
Elements(s) == {s[i] : i \in DOMAIN s}

VARIABLES
  app,        \* what the application thread is doing
  made,       \* how many of the allocations it has made
  outcome,    \* what DirectSoundCreate8 is about to return or has returned
  live,       \* what is allocated or open, the audio thread's own included
  reaper,     \* the reaper thread: "none", "running", "exited"
  reaperStop, \* reaper->stop
  audio,      \* the audio thread: "none", "setup", "loop", "mix", "end", "exited"
  step,       \* the step the audio thread is about to take of its setup
  local,      \* the interfaces wasapi_thread_do_setup has pointers to
  kept,       \* the interfaces wasapi_thread_main has pointers to
  refs,       \* refs[i]: the reference count of interface i
  started,    \* the events: the audio thread reports ...
  stop,       \* ... and is told to stop
  thread      \* wasapi->thread is set

appVars == <<app, made, outcome>>
audioVars == <<audio, step, local, kept, refs>>
vars == <<appVars, live, reaper, reaperStop, audioVars, started, stop, thread>>

Init ==
  /\ app = "alloc"
  /\ made = 0
  /\ outcome = "none"
  /\ live = {}
  /\ reaper = "none"
  /\ reaperStop = FALSE
  /\ audio = "none"
  /\ step = 1
  /\ local = {}
  /\ kept = {}
  /\ refs = [i \in Interfaces |-> 0]
  /\ started = FALSE
  /\ stop = FALSE
  /\ thread = FALSE

-----------------------------------------------------------------------------
(* The application thread: ds_api_create                                   *)

Service == {"service", "intake", "chamber", "exhaust"}
Client == {"client", "pool"}
Reaper == {"reaper", "fence", "tasks", "tasks_pending"}

(* What wasapi_free frees: not the structure itself.                       *)
WasapiFreed == Service \cup {"started", "stop"}

(* One more allocation of ds_api_alloc.                                    *)
Allocate ==
  /\ app = "alloc"
  /\ made < Len(Allocations)
  /\ made' = made + 1
  /\ live' = live \cup {Allocations[made + 1]}
  /\ UNCHANGED <<app, outcome, reaper, reaperStop, audioVars, started, stop, thread>>

(* One that fails: the function it is in frees what it had; ds_api_unref   *)
(* frees what was finished before, and the client is still ds_api_alloc's. *)
AllocateFails ==
  /\ app = "alloc"
  /\ made < Len(Allocations)
  /\ Allocations[made + 1] \in MayFail
  /\ app' = "returned"
  /\ outcome' = "failed"
  /\ live' = live \ (WasapiFreed \cup Reaper \cup Client \cup {"api"})
  /\ UNCHANGED <<made, reaper, reaperStop, audioVars, started, stop, thread>>

(* reaper_start                                                            *)
StartReaper ==
  /\ app = "alloc"
  /\ made = Len(Allocations)
  /\ app' = "start_audio"
  /\ reaper' = "running"
  /\ live' = live \cup {"reaper_handle"}
  /\ UNCHANGED <<made, outcome, reaperStop, audioVars, started, stop, thread>>

StartReaperFails ==
  /\ app = "alloc"
  /\ made = Len(Allocations)
  /\ "reaper_thread" \in MayFail
  /\ app' = "unref"
  /\ outcome' = "failed"
  /\ UNCHANGED <<made, live, reaper, reaperStop, audioVars, started, stop, thread>>

(* wasapi_start, up to the wait                                            *)
StartAudio ==
  /\ app = "start_audio"
  /\ app' = "wait"
  /\ audio' = "setup"
  /\ live' = live \cup {"audio_handle"}
  /\ UNCHANGED <<made, outcome, reaper, reaperStop, step, local, kept, refs, started, stop, thread>>

StartAudioFails ==
  /\ app = "start_audio"
  /\ "audio_thread" \in MayFail
  /\ app' = "unref"
  /\ outcome' = "failed"
  /\ UNCHANGED <<made, live, reaper, reaperStop, audioVars, started, stop, thread>>

(* WaitForMultipleObjects reports the first handle that is signalled.      *)
WaitStarted ==
  /\ app = "wait"
  /\ started
  /\ app' = "returned"
  /\ outcome' = "created"
  /\ thread' = TRUE
  /\ UNCHANGED <<made, live, reaper, reaperStop, audioVars, started, stop>>

(* Faulty WaitExited: the thread's handle is not closed.                   *)
WaitExitedKeepsHandle ==
  /\ app = "wait"
  /\ ~started
  /\ audio = "exited"
  /\ app' = "unref"
  /\ outcome' = "failed"
  /\ UNCHANGED <<made, live, reaper, reaperStop, audioVars, started, stop, thread>>

WaitExited ==
  /\ app = "wait"
  /\ ~started
  /\ audio = "exited"
  /\ app' = "unref"
  /\ outcome' = "failed"
  /\ live' = live \ {"audio_handle"}
  /\ UNCHANGED <<made, reaper, reaperStop, audioVars, started, stop, thread>>

(* The last Release, of the API object or of the last buffer.              *)
Release ==
  /\ app = "returned"
  /\ outcome = "created"
  /\ app' = "unref"
  /\ UNCHANGED <<made, outcome, live, reaper, reaperStop, audioVars, started, stop, thread>>

(* ds_api_unref, the last one: reaper_free stops its thread if there is one*)
UnrefStopReaper ==
  /\ app = "unref"
  /\ app' = "join_reaper"
  /\ reaperStop' = ("reaper_handle" \in live)
  /\ UNCHANGED <<made, outcome, live, reaper, audioVars, started, stop, thread>>

UnrefFreeReaper ==
  /\ app = "join_reaper"
  /\ "reaper_handle" \in live => reaper = "exited"
  /\ app' = "stop_audio"
  /\ live' = live \ (Reaper \cup {"reaper_handle"})
  /\ UNCHANGED <<made, outcome, reaper, reaperStop, audioVars, started, stop, thread>>

(* Faulty UnrefStopAudio: the event is not set.                            *)
UnrefStopAudioUnheard ==
  /\ app = "stop_audio"
  /\ app' = "join_audio"
  /\ UNCHANGED <<made, outcome, live, reaper, reaperStop, audioVars, started, stop, thread>>

(* ... and wasapi_free does: wasapi_stop ...                               *)
UnrefStopAudio ==
  /\ app = "stop_audio"
  /\ app' = "join_audio"
  /\ stop' = thread
  /\ UNCHANGED <<made, outcome, live, reaper, reaperStop, audioVars, started, thread>>

(* Faulty UnrefFreeWasapi: without a wait for the thread.                  *)
UnrefFreeWasapiAtOnce ==
  /\ app = "join_audio"
  /\ app' = "returned"
  /\ outcome' = IF outcome = "created" THEN "released" ELSE outcome
  /\ live' = live \ (WasapiFreed \cup {"audio_handle", "api"})
  /\ thread' = FALSE
  /\ UNCHANGED <<made, reaper, reaperStop, audioVars, started, stop>>

(* ... and the rest.                                                       *)
UnrefFreeWasapi ==
  /\ app = "join_audio"
  /\ thread => audio = "exited"
  /\ app' = "returned"
  /\ outcome' = IF outcome = "created" THEN "released" ELSE outcome
  /\ live' = live \ (WasapiFreed \cup {"api"} \cup IF thread THEN {"audio_handle"} ELSE {})
  /\ thread' = FALSE
  /\ UNCHANGED <<made, reaper, reaperStop, audioVars, started, stop>>

App ==
  \/ Allocate \/ AllocateFails
  \/ StartReaper \/ StartReaperFails
  \/ StartAudio \/ StartAudioFails
  \/ WaitStarted \/ WaitExited
  \/ UnrefStopReaper \/ UnrefFreeReaper \/ UnrefStopAudio \/ UnrefFreeWasapi

(* The reaper thread, when it has nothing to free.                         *)
ReaperExits ==
  /\ reaper = "running"
  /\ reaperStop
  /\ reaper' = "exited"
  /\ UNCHANGED <<appVars, live, reaperStop, audioVars, started, stop, thread>>

-----------------------------------------------------------------------------
(* The audio thread                                                        *)

(* What each step opens, if it does: interfaces are counted, the rest is   *)
(* live.                                                                   *)
Opens(name) == {name} \cap {"com", "event", "mixer", "boost"}
Dropped(pointers) == [i \in Interfaces |-> refs[i] - IF i \in pointers THEN 1 ELSE 0]
AtStep(name) == audio = "setup" /\ ThreadSteps[step] = name

(* A step that only opens something.                                       *)
Open ==
  /\ audio = "setup"
  /\ ThreadSteps[step] \notin {"report", "preroll", "start_device"}
  /\ LET name == ThreadSteps[step] IN
     /\ live' = live \cup Opens(name)
     /\ local' = local \cup ({name} \cap Interfaces)
     /\ refs' = [i \in Interfaces |-> refs[i] + IF i = name THEN 1 ELSE 0]
  /\ step' = step + 1
  /\ UNCHANGED <<appVars, reaper, reaperStop, audio, kept, started, stop, thread>>

(* Faulty RenegotiateFails: the pointer is kept when its object is not.    *)
RenegotiateFailsDangling ==
  /\ AtStep("initialize")
  /\ "reactivate" \in MayFail
  /\ audio' = "end"
  /\ refs' = [i \in Interfaces |->
       refs[i] - IF i = "client_interface" THEN 2 ELSE IF i \in local THEN 1 ELSE 0]
  /\ local' = {}
  /\ UNCHANGED <<appVars, live, reaper, reaperStop, step, kept, started, stop, thread>>

(* wasapi_renegotiate_buffer: the buffer size was not aligned and the new  *)
(* interface replaces the one that was released.  It fails with the old    *)
(* one still there, or with none, or, like Initialize, with the new one.   *)
Renegotiate ==
  /\ AtStep("initialize")
  /\ step' = step + 1
  /\ refs' = [refs EXCEPT !["client_interface"] = (@ - 1) + 1]
  /\ UNCHANGED <<appVars, live, reaper, reaperStop, audio, local, kept, started, stop, thread>>

RenegotiateFails ==
  /\ AtStep("initialize")
  /\ audio' = "end"
  /\ \/ /\ "tentative_size" \in MayFail
        /\ refs' = Dropped(local)
     \/ /\ "reactivate" \in MayFail
        /\ LET remaining == local \ {"client_interface"} IN
           refs' = [Dropped(remaining) EXCEPT !["client_interface"] = @ - 1]
  /\ local' = {}
  /\ UNCHANGED <<appVars, live, reaper, reaperStop, step, kept, started, stop, thread>>

(* The end of a setup that works: two of the interfaces are handed over.   *)
HandOver ==
  /\ AtStep("preroll")
  /\ kept' = {"client_interface", "render_interface"}
  /\ refs' = [i \in Interfaces |-> Dropped(local)[i] + IF i \in kept' THEN 1 ELSE 0]
  /\ local' = {}
  /\ step' = step + 1
  /\ UNCHANGED <<appVars, live, reaper, reaperStop, audio, started, stop, thread>>

(* A step that fails; inside the setup, what it has is released.           *)
StepFails ==
  /\ audio = "setup"
  /\ ThreadSteps[step] \in MayFail
  /\ audio' = "end"
  /\ refs' = Dropped(local)
  /\ local' = {}
  /\ UNCHANGED <<appVars, live, reaper, reaperStop, step, kept, started, stop, thread>>

(* SetEvent(wasapi->started)                                               *)
Report ==
  /\ AtStep("report")
  /\ started' = TRUE
  /\ step' = step + 1
  /\ UNCHANGED <<appVars, live, reaper, reaperStop, audio, local, kept, refs, stop, thread>>

(* IAudioClient_Start                                                      *)
Play ==
  /\ AtStep("start_device")
  /\ audio' = "loop"
  /\ UNCHANGED <<appVars, live, reaper, reaperStop, step, local, kept, refs, started, stop, thread>>

(* A period: the device's buffer is taken, mixed into, given back.         *)
Period ==
  /\ \/ audio = "loop" /\ ~stop /\ audio' = "mix"
     \/ audio = "mix" /\ audio' = "loop"
  /\ UNCHANGED <<appVars, live, reaper, reaperStop, step, local, kept, refs, started, stop, thread>>

(* The loop ends: a stop, or a device that gives no buffer or takes none.  *)
LeaveLoop ==
  /\ \/ audio = "loop" /\ stop
     \/ audio = "loop" /\ ~stop /\ "get_buffer" \in MayFail
     \/ audio = "mix" /\ "release_buffer" \in MayFail
  /\ audio' = "end"
  /\ UNCHANGED <<appVars, live, reaper, reaperStop, step, local, kept, refs, started, stop, thread>>

(* The common end of wasapi_thread_main.                                   *)
End ==
  /\ audio = "end"
  /\ audio' = "exited"
  /\ live' = live \ {"com", "event", "mixer", "boost"}
  /\ refs' = Dropped(kept)
  /\ kept' = {}
  /\ UNCHANGED <<appVars, reaper, reaperStop, step, local, started, stop, thread>>

Audio ==
  \/ Open \/ Renegotiate \/ RenegotiateFails \/ HandOver \/ StepFails
  \/ Report \/ Play \/ Period \/ LeaveLoop \/ End

Next == App \/ Release \/ ReaperExits \/ Audio

Spec == Init /\ [][Next]_vars

-----------------------------------------------------------------------------
(* Properties                                                              *)

(* Every interface has the references there are pointers for: none is used *)
(* or released after its last one, and none is left when the thread exits. *)
InterfacesCounted ==
  \A i \in Interfaces :
    refs[i] = (IF i \in local THEN 1 ELSE 0) + (IF i \in kept THEN 1 ELSE 0)

(* What the audio thread opened it has closed when it exits, wherever it   *)
(* failed.                                                                 *)
AudioClosesAll ==
  audio = "exited" => live \cap Elements(ThreadSteps) = {} /\ kept \cup local = {}

(* What the application thread frees is not used by a thread any more: the *)
(* events and the queues by the audio thread, the lists by the reaper.     *)
ThreadsOutlived ==
  /\ audio \in {"setup", "loop", "mix", "end"} => WasapiFreed \subseteq live
  /\ reaper = "running" => Reaper \subseteq live

(* What wasapi_free and reaper_free leave behind.                          *)
Leaked == {"wasapi"} \cup IF made = Len(Allocations) THEN Client ELSE {}

(* A DirectSoundCreate8 that fails, at whatever step of whatever thread,   *)
(* and a release of everything leave no thread, event or object behind but *)
(* the wasapi structure and the reaper's client.                           *)
NothingLeft ==
  app = "returned" /\ outcome \in {"failed", "released"} =>
    /\ live \subseteq Leaked
    /\ audio \in {"none", "exited"}
    /\ reaper \in {"none", "exited"}

=============================================================================
