---------------------------- MODULE Reclamation ----------------------------
(***************************************************************************)
(* What reaper.c is for, without saying how: the streams and sample        *)
(* buffers of released sound buffers are freed, and never while the audio  *)
(* thread may still read them.  A duplicate reads its source's samples.    *)
(***************************************************************************)
CONSTANT Buffers

VARIABLES
  life,   \* life[b]: "none", "live", "retired" (no references) or "freed"
  sbuf,   \* sbuf[b]: the buffer whose samples the stream of b reads
  busy    \* the buffers whose stream the audio thread mixes or is to start

vars == <<life, sbuf, busy>>

Init ==
  /\ life = [b \in Buffers |-> "none"]
  /\ sbuf = [b \in Buffers |-> b]
  /\ busy = {}

Create(b, samples) ==
  /\ life[b] = "none"
  /\ samples = b \/ life[samples] = "live"
  /\ life' = [life EXCEPT ![b] = "live"]
  /\ sbuf' = [sbuf EXCEPT ![b] = samples]
  /\ UNCHANGED busy

(* Only a buffer somebody refers to is started.                            *)
Start(b) ==
  /\ life[b] = "live"
  /\ busy' = busy \cup {b}
  /\ UNCHANGED <<life, sbuf>>

Quiet ==
  /\ busy' \in SUBSET busy
  /\ UNCHANGED <<life, sbuf>>

Retire(b) ==
  /\ life[b] = "live"
  /\ life' = [life EXCEPT ![b] = "retired"]
  /\ UNCHANGED <<sbuf, busy>>

(* A stream goes with the samples it owns, so after every other stream     *)
(* that reads them.                                                        *)
Free(b) ==
  /\ life[b] = "retired"
  /\ b \notin busy
  /\ \A d \in Buffers \ {b} : sbuf[d] = b => life[d] = "freed"
  /\ life' = [life EXCEPT ![b] = "freed"]
  /\ UNCHANGED <<sbuf, busy>>

Next ==
  \/ Quiet
  \/ \E b \in Buffers :
       \/ \E samples \in Buffers : Create(b, samples)
       \/ Start(b)
       \/ Retire(b)
       \/ Free(b)

Spec == Init /\ [][Next]_vars
=============================================================================
