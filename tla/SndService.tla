----------------------------- MODULE SndService -----------------------------
(***************************************************************************)
(* src/snd-service.c: command objects and their way round.  A client takes *)
(* a command from its pool, or refills the pool with everything that has   *)
(* been exhausted, or else allocates; fills it in; pushes it to the intake *)
(* queue.  The audio thread moves the intake to the chamber, executes it,  *)
(* mixes, calls the callbacks and moves the chamber to the exhaust queue.  *)
(*                                                                         *)
(* Queue operations are the atomic ones of AtomicQueue (LockFreeQueue      *)
(* implements it).  One thread uses a client at a time: ds-buffer.c and    *)
(* reaper.c give each buffer and the reaper a client of its own.           *)
(***************************************************************************)
EXTENDS Naturals, Sequences, FiniteSets, SequencesExt

CONSTANTS
  Streams,    \* the streams commands are about
  Clients,    \* struct snd_client's that may come and go
  Commands,   \* the memory for struct snd_command's (a bound on the heap)
  Volumes,    \* the volumes told apart
  Unity,      \* 0x100
  NoStream    \* a NULL snd_command.stm

ASSUME ServiceAssumption == Unity \in Volumes /\ NoStream \notin Streams

VARIABLES
  cmd,           \* cmd[c]: the fields of command c
  cmds_intake,   \* the queues of struct snd_service, oldest first
  cmds_chamber,
  cmds_exhaust,
  cmd_pool,      \* cmd_pool[k]: the private queue of client k
  filling,       \* filling[k]: commands given out to the user of k
  heap,          \* commands that are not allocated
  clients,       \* the clients that exist
  iter,          \* the position of the loop over the chamber
  phase,         \* as in CommandPipe
  service        \* "running", "stopped" (no audio thread) or "freed"

queueVars == <<cmds_intake, cmds_chamber, cmds_exhaust>>
clientVars == <<cmd_pool, filling, heap, clients>>
audioVars == <<iter, phase, service>>
vars == <<cmd, queueVars, clientVars, audioVars>>

Channels == {0, 1}

(* snd_command_clear: no type, no stream, no callback, both volumes 0x100. *)
(* The two members of the union are two fields: type says which one counts.*)
Cleared ==
  [type |-> "invalid", stm |-> NoStream, loop |-> FALSE,
   volumes |-> [ch \in Channels |-> Unity], callback |-> FALSE]

Init ==
  /\ cmd = [c \in Commands |-> Cleared]
  /\ cmds_intake = <<>>
  /\ cmds_chamber = <<>>
  /\ cmds_exhaust = <<>>
  /\ cmd_pool = [k \in Clients |-> <<>>]
  /\ filling = [k \in Clients |-> {}]
  /\ heap = Commands
  /\ clients = {}
  /\ iter = 1
  /\ phase = "idle"
  /\ service = "running"

-----------------------------------------------------------------------------
(* Clients                                                                 *)

(* snd_client_alloc *)
ClientAlloc(k) ==
  /\ service # "freed"
  /\ k \notin clients
  /\ clients' = clients \cup {k}
  /\ UNCHANGED <<cmd, queueVars, cmd_pool, filling, heap, audioVars>>

(* Faulty ClientFree: forgets the commands of the pool.                    *)
ClientFreeLeaks(k) ==
  /\ k \in clients
  /\ filling[k] = {}
  /\ clients' = clients \ {k}
  /\ cmd_pool' = [cmd_pool EXCEPT ![k] = <<>>]
  /\ UNCHANGED <<cmd, queueVars, filling, heap, audioVars>>

(* snd_client_free.  Its user has given back or submitted what it took.    *)
ClientFree(k) ==
  /\ k \in clients
  /\ filling[k] = {}
  /\ clients' = clients \ {k}
  /\ heap' = heap \cup ToSet(cmd_pool[k])
  /\ cmd_pool' = [cmd_pool EXCEPT ![k] = <<>>]
  /\ UNCHANGED <<cmd, queueVars, filling, audioVars>>

(* What snd_client_cmd_alloc pops from: the pool, or if that is empty the  *)
(* whole of the exhaust queue.                                             *)
Available(k) == IF cmd_pool[k] = <<>> THEN cmds_exhaust ELSE cmd_pool[k]
ExhaustAfterAlloc(k) == IF cmd_pool[k] = <<>> THEN <<>> ELSE cmds_exhaust

(* Faulty CmdReuse: the command keeps what it last said.                   *)
CmdReuseUncleared(k) ==
  /\ service # "freed"
  /\ k \in clients
  /\ Available(k) # <<>>
  /\ cmd_pool' = [cmd_pool EXCEPT ![k] = Tail(Available(k))]
  /\ cmds_exhaust' = ExhaustAfterAlloc(k)
  /\ filling' = [filling EXCEPT ![k] = @ \cup {Head(Available(k))}]
  /\ UNCHANGED <<cmd, cmds_intake, cmds_chamber, heap, clients, audioVars>>

(* snd_client_cmd_alloc when a command can be reused: it is cleared.       *)
CmdReuse(k) ==
  /\ service # "freed"
  /\ k \in clients
  /\ Available(k) # <<>>
  /\ cmd_pool' = [cmd_pool EXCEPT ![k] = Tail(Available(k))]
  /\ cmds_exhaust' = ExhaustAfterAlloc(k)
  /\ cmd' = [cmd EXCEPT ![Head(Available(k))] = Cleared]
  /\ filling' = [filling EXCEPT ![k] = @ \cup {Head(Available(k))}]
  /\ UNCHANGED <<cmds_intake, cmds_chamber, heap, clients, audioVars>>

(* snd_client_cmd_alloc when there is none: snd_command_alloc, which gives *)
(* nothing when memory has run out.                                        *)
CmdNew(k, c) ==
  /\ service # "freed"
  /\ k \in clients
  /\ Available(k) = <<>>
  /\ c \in heap
  /\ heap' = heap \ {c}
  /\ cmd' = [cmd EXCEPT ![c] = Cleared]
  /\ filling' = [filling EXCEPT ![k] = @ \cup {c}]
  /\ UNCHANGED <<queueVars, cmd_pool, clients, audioVars>>

(* snd_command_play, snd_command_stop with or without                      *)
(* snd_command_set_callback, snd_command_set_volume for each channel in    *)
(* turn.                                                                   *)
FillPlay(c, s, loop) ==
  [cmd[c] EXCEPT !.type = "play", !.stm = s, !.loop = loop]

FillStop(c, s) == [cmd[c] EXCEPT !.type = "stop", !.stm = s]

FillStopAndCallBack(c, s) == [FillStop(c, s) EXCEPT !.callback = TRUE]

FillVolumes(c, s, level) ==
  [cmd[c] EXCEPT !.type = "set_volume", !.stm = s,
                 !.volumes = [ch \in Channels |-> level]]

(* snd_client_cmd_submit of a command that has been filled in.             *)
CmdSubmit(k, c, contents) ==
  /\ service # "freed"
  /\ c \in filling[k]
  /\ cmd' = [cmd EXCEPT ![c] = contents]
  /\ filling' = [filling EXCEPT ![k] = @ \ {c}]
  /\ cmds_intake' = Append(cmds_intake, c)
  /\ UNCHANGED <<cmds_chamber, cmds_exhaust, cmd_pool, heap, clients, audioVars>>

SubmitPlay(k, c, s, loop) == CmdSubmit(k, c, FillPlay(c, s, loop))
SubmitStop(k, c, s) == CmdSubmit(k, c, FillStop(c, s))
SubmitStopAndCallBack(k, c, s) == CmdSubmit(k, c, FillStopAndCallBack(c, s))
SubmitVolumes(k, c, s, level) == CmdSubmit(k, c, FillVolumes(c, s, level))

(* snd_command_free of a command that was taken and not used               *)
(* (reaper_task_discard).                                                  *)
CmdFree(k, c) ==
  /\ c \in filling[k]
  /\ filling' = [filling EXCEPT ![k] = @ \ {c}]
  /\ heap' = heap \cup {c}
  /\ UNCHANGED <<cmd, queueVars, cmd_pool, clients, audioVars>>

-----------------------------------------------------------------------------
(* The audio thread                                                        *)

(* snd_service_intake: queue_private_move_from_shared.                     *)
Intake ==
  /\ service = "running"
  /\ phase = "idle"
  /\ cmds_chamber' = cmds_intake
  /\ cmds_intake' = <<>>
  /\ iter' = 1
  /\ phase' = "exec"
  /\ UNCHANGED <<cmd, cmds_exhaust, clientVars, service>>

(* Faulty VisitNext: one turn too few.                                     *)
VisitAllButLast ==
  /\ phase \in {"exec", "notify"}
  /\ iter < Len(cmds_chamber)
  /\ iter' = iter + 1
  /\ UNCHANGED <<cmd, queueVars, clientVars, phase, service>>

(* The loops of snd_service_intake and snd_service_exhaust go to the next  *)
(* command of the chamber.  What the mixer and the callback do with it is  *)
(* not this module's.                                                      *)
VisitNext ==
  /\ phase \in {"exec", "notify"}
  /\ iter <= Len(cmds_chamber)
  /\ iter' = iter + 1
  /\ UNCHANGED <<cmd, queueVars, clientVars, phase, service>>

BeginMix ==
  /\ phase = "exec"
  /\ iter > Len(cmds_chamber)
  /\ phase' = "mix"
  /\ UNCHANGED <<cmd, queueVars, clientVars, iter, service>>

EndMix ==
  /\ phase = "mix"
  /\ phase' = "notify"
  /\ iter' = 1
  /\ UNCHANGED <<cmd, queueVars, clientVars, service>>

(* Faulty Exhaust: the chamber keeps its commands.                         *)
ExhaustKeepsChamber ==
  /\ phase = "notify"
  /\ iter > Len(cmds_chamber)
  /\ cmds_exhaust' = cmds_exhaust \o cmds_chamber
  /\ iter' = 1
  /\ phase' = "idle"
  /\ UNCHANGED <<cmd, cmds_intake, cmds_chamber, clientVars, service>>

(* The end of snd_service_exhaust: queue_shared_move_from_private.         *)
Exhaust ==
  /\ phase = "notify"
  /\ iter > Len(cmds_chamber)
  /\ cmds_exhaust' = cmds_exhaust \o cmds_chamber
  /\ cmds_chamber' = <<>>
  /\ iter' = 1
  /\ phase' = "idle"
  /\ UNCHANGED <<cmd, cmds_intake, clientVars, service>>

(* wasapi_free: the audio thread leaves its loop between two periods and   *)
(* is waited for, then snd_service_free frees what the queues hold.        *)
AudioStop ==
  /\ service = "running"
  /\ phase = "idle"
  /\ service' = "stopped"
  /\ UNCHANGED <<cmd, queueVars, clientVars, iter, phase>>

ServiceFree ==
  /\ service = "stopped"
  /\ heap' = heap \cup ToSet(cmds_intake) \cup ToSet(cmds_chamber)
                  \cup ToSet(cmds_exhaust)
  /\ cmds_intake' = <<>>
  /\ cmds_chamber' = <<>>
  /\ cmds_exhaust' = <<>>
  /\ service' = "freed"
  /\ UNCHANGED <<cmd, cmd_pool, filling, clients, iter, phase>>

-----------------------------------------------------------------------------
ClientNext ==
  \E k \in Clients :
    \/ ClientAlloc(k)
    \/ ClientFree(k)
    \/ CmdReuse(k)
    \/ \E c \in Commands :
         \/ CmdNew(k, c)
         \/ CmdFree(k, c)
         \/ \E s \in Streams :
              \/ \E loop \in BOOLEAN : SubmitPlay(k, c, s, loop)
              \/ SubmitStop(k, c, s)
              \/ SubmitStopAndCallBack(k, c, s)
              \/ \E level \in Volumes : SubmitVolumes(k, c, s, level)

AudioNext == Intake \/ VisitNext \/ BeginMix \/ EndMix \/ Exhaust

Next == ClientNext \/ AudioNext \/ AudioStop \/ ServiceFree

(* The device asks for a buffer every period, so the audio thread goes on. *)
(* It need not be stopped, and no client need do anything.                 *)
Spec == Init /\ [][Next]_vars /\ WF_vars(AudioNext)
-----------------------------------------------------------------------------
CommandFields ==
  [type : {"invalid", "play", "stop", "set_volume"},
   stm : Streams \cup {NoStream},
   loop : BOOLEAN,
   volumes : [Channels -> Volumes],
   callback : BOOLEAN]

TypeOK ==
  /\ cmd \in [Commands -> CommandFields]
  /\ cmds_intake \in Seq(Commands)
  /\ cmds_chamber \in Seq(Commands)
  /\ cmds_exhaust \in Seq(Commands)
  /\ cmd_pool \in [Clients -> Seq(Commands)]
  /\ filling \in [Clients -> SUBSET Commands]
  /\ heap \in SUBSET Commands
  /\ clients \in SUBSET Clients
  /\ iter \in 1..(Len(cmds_chamber) + 1)
  /\ phase \in {"idle", "exec", "mix", "notify"}
  /\ service \in {"running", "stopped", "freed"}

(* Where a command may be.                                                 *)
Places == {"intake", "chamber", "exhaust", "pool", "user", "heap"}

IsIn(place, c) ==
  CASE place = "intake" -> Contains(cmds_intake, c)
    [] place = "chamber" -> Contains(cmds_chamber, c)
    [] place = "exhaust" -> Contains(cmds_exhaust, c)
    [] place = "pool" -> \E k \in Clients : Contains(cmd_pool[k], c)
    [] place = "user" -> \E k \in Clients : c \in filling[k]
    [] place = "heap" -> c \in heap

OnePlace == \A c \in Commands : \E p \in Places : \A o \in Places : IsIn(o, c) <=> o = p

QueuedOnce ==
  /\ IsInjective(cmds_intake) /\ IsInjective(cmds_chamber) /\ IsInjective(cmds_exhaust)
  /\ \A k \in Clients : IsInjective(cmd_pool[k])

OneClient ==
  \A c \in Commands : \A j, k \in Clients :
    \/ Contains(cmd_pool[j], c) /\ Contains(cmd_pool[k], c)
    \/ c \in filling[j] /\ c \in filling[k]
    => j = k

(* A command has one owner at every instant: one queue, once, or one pool, *)
(* once, or one user of a client, or the heap.  A second owner would       *)
(* execute it while it is being filled in, or free it twice; none would    *)
(* leak it (snd_client_cmd_alloc, snd_service_free, snd_client_free).      *)
OneOwner == OnePlace /\ QueuedOnce /\ OneClient

(* The assertion of queue_private_move_from_shared: the audio thread never *)
(* begins a period with the last one's batch still in the chamber.         *)
ChamberEmptyAtIntake == phase = "idle" => cmds_chamber = <<>>

(* What a client asks for: a play or a volume with no callback, a stop     *)
(* with or without; and nothing of what a command said the last time.      *)
Requests ==
  {r \in CommandFields :
     /\ r.stm \in Streams
     /\ \/ r.type = "play" /\ r.callback = FALSE /\ r.volumes = Cleared.volumes
        \/ r.type = "stop" /\ r.loop = FALSE /\ r.volumes = Cleared.volumes
        \/ /\ r.type = "set_volume" /\ r.loop = FALSE /\ r.callback = FALSE
           /\ \E level \in Volumes : r.volumes = [ch \in Channels |-> level]}

ContentsOf(q) == [n \in 1..Len(q) |-> cmd[q[n]]]

Pipe == INSTANCE CommandPipe
          WITH Contents <- Requests,
               intake <- ContentsOf(cmds_intake),
               chamber <- ContentsOf(cmds_chamber)

(* Until the service is torn down it implements the pipe of values: no     *)
(* command changes between its submission and its callback, and none says  *)
(* anything its client did not ask, however often the object has been      *)
(* round - a fence left over from the reaper's use of it would be called   *)
(* back early (snd_command_clear, snd_client_cmd_alloc).                   *)
ImplementsCommandPipe ==
  Pipe!PipeInit /\ [][service' = "freed" \/ Pipe!PipeNext]_(Pipe!pipeVars)

(* A submitted command comes back to be used again, unless the audio       *)
(* thread stops: nothing is left behind in the chamber                     *)
(* (snd_service_exhaust).                                                  *)
CommandsComeBack ==
  \A c \in Commands :
    Contains(cmds_intake, c) ~>
      (~Contains(cmds_intake, c) /\ ~Contains(cmds_chamber, c))
        \/ service # "running"
=============================================================================
