---------------------------- MODULE CommandPipe ----------------------------
(***************************************************************************)
(* What src/snd-service.c promises: commands submitted by any thread are   *)
(* carried out by the audio thread, each once, in the order of submission, *)
(* a batch at the start of every mix; and after the mix the callbacks of   *)
(* the batch are called, in the same order.  A command is its contents     *)
(* here; the objects that carry it are SndService's business.              *)
(*                                                                         *)
(* Modules that need the pipe but not its objects build on these actions   *)
(* and say what executing a command and calling it back do.                *)
(***************************************************************************)
EXTENDS Naturals, Sequences

CONSTANT Contents  \* what a command may say

VARIABLES
  intake,   \* submitted and not yet taken, oldest first
  chamber,  \* the batch of the current device period
  iter,     \* the next element of chamber to visit
  phase     \* where the audio thread is within the period

pipeVars == <<intake, chamber, iter, phase>>

Phases == {"idle", "exec", "mix", "notify"}

PipeTypeOK ==
  /\ intake \in Seq(Contents)
  /\ chamber \in Seq(Contents)
  /\ iter \in 1..(Len(chamber) + 1)
  /\ phase \in Phases
  /\ phase = "idle" => chamber = <<>>

PipeInit ==
  /\ intake = <<>>
  /\ chamber = <<>>
  /\ iter = 1
  /\ phase = "idle"

(* snd_client_cmd_submit *)
Submit(v) ==
  /\ intake' = Append(intake, v)
  /\ UNCHANGED <<chamber, iter, phase>>

(* The device wants a buffer: the head of snd_service_intake.              *)
TakeBatch ==
  /\ phase = "idle"
  /\ chamber' = intake
  /\ intake' = <<>>
  /\ iter' = 1
  /\ phase' = "exec"

(* The command the audio thread is about to execute or to call back.       *)
Current == chamber[iter]
AtCommand(p) == phase = p /\ iter \in 1..Len(chamber)
Visited(p) == phase = p /\ iter > Len(chamber)

(* One turn of the loop of snd_service_intake.                             *)
Execute ==
  /\ AtCommand("exec")
  /\ iter' = iter + 1
  /\ UNCHANGED <<intake, chamber, phase>>

(* snd_service_intake is over and snd_mixer_mix begins; it ends and        *)
(* snd_service_exhaust begins.                                             *)
StartMix ==
  /\ Visited("exec")
  /\ phase' = "mix"
  /\ UNCHANGED <<intake, chamber, iter>>

EndMix ==
  /\ phase = "mix"
  /\ phase' = "notify"
  /\ iter' = 1
  /\ UNCHANGED <<intake, chamber>>

(* One turn of the loop of snd_service_exhaust.                            *)
Notify ==
  /\ AtCommand("notify")
  /\ iter' = iter + 1
  /\ UNCHANGED <<intake, chamber, phase>>

(* The end of snd_service_exhaust.                                         *)
Recycle ==
  /\ Visited("notify")
  /\ chamber' = <<>>
  /\ iter' = 1
  /\ phase' = "idle"
  /\ UNCHANGED intake

PipeNext ==
  \/ \E v \in Contents : Submit(v)
  \/ TakeBatch
  \/ Execute
  \/ StartMix
  \/ EndMix
  \/ Notify
  \/ Recycle

PipeSpec == PipeInit /\ [][PipeNext]_pipeVars
=============================================================================
