----------------------------- MODULE Converter -----------------------------
(***************************************************************************)
(* The sizes and positions converter_calculate_dest_nbytes works out: how  *)
(* long the device's copy of a sound buffer is, and where in its own       *)
(* buffer the application is told it plays.                                *)
(***************************************************************************)
EXTENDS FormatSizes

CONSTANTS
  Formats,     \* records of rate, channels and bits
  SysFormat,   \* the device's
  MaxNBytes,   \* bound: the longest buffer asked for
  Unset        \* what is not known yet

ASSUME ConverterAssumption ==
  /\ SysFormat \in Formats
  /\ \A f \in Formats : f.rate \in Nat /\ f.channels \in Nat /\ f.bits \in Nat
  /\ MaxNBytes \in Nat
  /\ SizeLimit \in Nat \ {0}
  /\ Unset \notin Nat

VARIABLES
  format,      \* ds_buffer.format
  frames,      \* the frames of the DSBUFFERDESC, Unset before the buffer exists
  sys_frames,  \* the frames of the snd_buffer, in the device's format
  pos,         \* snd_stream.pos, in frames
  told,        \* what GetCurrentPosition said last: of which pos, which format
  made         \* auxiliary: the format when the buffer was made

vars == <<format, frames, sys_frames, pos, told, made>>

-----------------------------------------------------------------------------
Init ==
  /\ format \in Formats
  /\ frames = Unset
  /\ sys_frames = Unset
  /\ pos = 0
  /\ told = Unset
  /\ made = format

(* ds_buffer_alloc makes room for the buffer as converted.  A length of no *)
(* bytes is refused (ds_api_create_sound_buffer_sec does not check it, but *)
(* snd_buffer_alloc asserts that there are samples).                       *)
Create(n) ==
  /\ frames = Unset
  /\ Valid(format) /\ Valid(SysFormat)
  /\ n % Bpf(format) = 0
  /\ DestNBytes(format, SysFormat, n) > 0
  /\ frames' = n \div Bpf(format)
  /\ sys_frames' = DestNBytes(format, SysFormat, n) \div Bpf(SysFormat)
  /\ UNCHANGED <<format, pos, told, made>>

(* The audio thread renders frames, wraps at the end, or rewinds           *)
(* (SndMixer).                                                             *)
Render ==
  /\ sys_frames # Unset
  /\ pos' \in IF pos < sys_frames THEN {0, pos + 1} ELSE {0}
  /\ UNCHANGED <<format, frames, sys_frames, told, made>>

(* ds_buffer_set_format, to a valid format (BufferLock has the others).    *)
SetFormat(f) ==
  /\ sys_frames # Unset
  /\ Valid(f)
  /\ format' = f
  /\ UNCHANGED <<frames, sys_frames, pos, told, made>>

(* Faulty GetCurrentPosition: the stream's position, unconverted.          *)
TellSysPosition ==
  /\ sys_frames # Unset
  /\ told' = [pos |-> pos, format |-> format, nbytes |-> pos * Bpf(SysFormat)]
  /\ UNCHANGED <<format, frames, sys_frames, pos, made>>

(* ds_buffer_get_current_position                                          *)
GetCurrentPosition ==
  /\ sys_frames # Unset
  /\ told' = [pos |-> pos, format |-> format,
              nbytes |-> DestNBytes(SysFormat, format, pos * Bpf(SysFormat))]
  /\ UNCHANGED <<format, frames, sys_frames, pos, made>>

Next ==
  \/ \E n \in 0..MaxNBytes : Create(n)
  \/ Render
  \/ \E f \in Formats : SetFormat(f)
  \/ GetCurrentPosition

Spec == Init /\ [][Next]_vars
-----------------------------------------------------------------------------
(* m frames at one rate last as long as n at another, to within one frame. *)
Lasts(m, rate, n, of_rate) ==
  n * rate <= m * of_rate /\ m * of_rate < n * rate + of_rate

(* The device's copy of a buffer has room for every frame of it and is     *)
(* less than one frame longer, if its size fits a size_t: a conversion     *)
(* neither runs out of space nor leaves a tail of silence to be heard.     *)
BufferLongEnough ==
  (sys_frames # Unset /\ Fits(made, SysFormat, frames)) =>
    Lasts(sys_frames, SysFormat.rate, frames, made.rate)

ToldFrames == told.nbytes \div Bpf(told.format)

(* GetCurrentPosition is right to within one frame of the buffer's format. *)
PositionTracks ==
  (told # Unset /\ Fits(SysFormat, told.format, told.pos)) =>
    Lasts(ToldFrames, told.format.rate, told.pos, SysFormat.rate)

(* Both conversions round upwards, so at the end of a buffer the position  *)
(* may lie beyond the bytes the application has: by how much at most.      *)
PositionNearEnd ==
  (/\ told # Unset
   /\ told.format = made
   /\ Fits(SysFormat, made, told.pos)
   /\ Fits(made, SysFormat, frames)) =>
    (ToldFrames - frames) * SysFormat.rate <= made.rate + SysFormat.rate - 2
=============================================================================
