----------------------------- MODULE BufferLock -----------------------------
(***************************************************************************)
(* How an application gets at the samples of a sound buffer: Lock, Unlock, *)
(* SetFormat, GetCurrentPosition and Release of ds-buffer.c, with the      *)
(* conversion they prepare and converter.c performs.                       *)
(*                                                                         *)
(* The handles are a sound buffer and its duplicates: one array of samples *)
(* in the device's format, and for each handle, if its format is another   *)
(* one, bytes of its own that Unlock converts.  A handle's bytes are as    *)
(* many as its buffer was created with, whatever its format has become.    *)
(* What a byte holds is a label, and a frame of the samples is known by    *)
(* the labels of the bytes it was made from.  One thread makes the calls,  *)
(* and it locks one handle at a time.                                      *)
(***************************************************************************)
EXTENDS FormatSizes, FiniteSetsExt

CONSTANTS
  Original,      \* the handle CreateSoundBuffer returns
  Clones,        \* the handles DuplicateSoundBuffer may return
  Formats,       \* the formats told apart, valid or not
  SysFormat,     \* format_sys, the device's
  FirstFormat,   \* the format of the DSBUFFERDESC
  ConvNBytes,    \* conv_nbytes, the length in bytes of the DSBUFFERDESC
  Requested,     \* bound: the positions and lengths asked of Lock
  Values,        \* what the application writes
  Zero,          \* what calloc leaves
  MaxSetFormats, \* bound: the calls of SetFormat
  AcmMayFail,    \* the ACM may refuse to open or prepare a stream, or fail
  NoFormat,      \* conv = NULL
  NoGrant

Handles == {Original} \cup Clones

(* A buffer of this many bytes can be made, or duplicated, in format f.    *)
Usable(f) == Valid(f) /\ ConvNBytes % Bpf(f) = 0

(* The length of buf, and of the memory a Lock in format f points into.    *)
SysNBytes == DestNBytes(FirstFormat, SysFormat, ConvNBytes)
NBytes(f) == IF f = SysFormat THEN SysNBytes ELSE ConvNBytes
NFrames(f) == NBytes(f) \div Bpf(f)
SysFrames == NFrames(SysFormat)

Bytes == 0..(ConvNBytes - 1)
Frames == 0..(SysFrames - 1)

(* What Lock hands out and in which format, and what has been written      *)
(* there since: the frames of that format, all with one value.             *)
Grants ==
  [handle : Handles, format : Formats, in_pos : Requested, in_nbytes : Requested,
   span : [start : Nat, nbytes : Nat],
   wrote : SUBSET Nat, value : Values \cup {Zero}]

ASSUME BufferLockAssumption ==
  /\ Original \notin Clones
  /\ \A f \in Formats : f.rate \in Nat /\ f.channels \in Nat /\ f.bits \in Nat
  /\ {SysFormat, FirstFormat} \subseteq Formats
  /\ Valid(SysFormat) /\ Usable(FirstFormat)
  /\ NoFormat \notin Formats
  /\ {ConvNBytes, SizeLimit} \subseteq Nat \ {0}
  /\ ConvNBytes < SizeLimit
  /\ Requested \subseteq 0..(SizeLimit - 1)
  /\ MaxSetFormats \in Nat
  /\ AcmMayFail \in BOOLEAN
  /\ NoGrant \notin Grants

VARIABLES
  format,       \* format[h]: ds_buffer.format; NoFormat: the handle is not there
  conv,         \* conv[h]: the format ds_buffer.conv was opened for
  conv_bytes,   \* conv_bytes[h]: "null", "live" or "dangling"
  source,       \* source[h]: what the bytes of conv_bytes hold
  samples,      \* for each frame of buf, what the bytes it was made from held
  grant,        \* the span Lock has returned, until Unlock
  failed,       \* the assertion or free that has failed, "none" if none has
  mine,         \* auxiliary: mine[h]: by frame of buf, what was written through h
  written,      \* auxiliary: by frame of buf, what ought to be heard there
  used,         \* auxiliary: the handles that have been locked
  opened,       \* auxiliary: the formats they needed a converter for
  disturbed,    \* auxiliary: one of them got another format
  set_formats,  \* auxiliary: the calls of SetFormat so far
  refused       \* auxiliary: a converter could not be opened, or never could be

dataVars == <<source, samples, mine, written>>
historyVars == <<used, opened, disturbed, refused, set_formats>>
lockVars == <<format, conv, conv_bytes, dataVars, grant, failed, historyVars>>

Zeroed == [b \in Bytes |-> Zero]
Nothing == [j \in {} |-> Zero]

LockInit ==
  /\ format = [h \in Handles |-> IF h = Original THEN FirstFormat ELSE NoFormat]
  /\ conv = [h \in Handles |-> NoFormat]
  /\ conv_bytes = [h \in Handles |-> "null"]
  /\ source = [h \in Handles |-> Zeroed]
  /\ samples = [j \in Frames |-> {Zero}]
  /\ grant = NoGrant
  /\ failed = "none"
  /\ mine = [h \in Handles |-> Nothing]
  /\ written = Nothing
  /\ used = {}
  /\ opened = {}
  /\ disturbed = FALSE
  /\ refused = FALSE
  /\ set_formats = 0

(* A failed assertion ends the program.                                    *)
Callable(h) == failed = "none" /\ format[h] # NoFormat

RequiresConversion(h) == format[h] # SysFormat

-----------------------------------------------------------------------------
(* Lock                                                                    *)

(* Faulty Span: no bounds check on the end.                                *)
SpanUnchecked(f, in_pos, in_nbytes) ==
  [start |-> Min({in_pos, NBytes(f)}), nbytes |-> in_nbytes]

(* The span of in_nbytes bytes from in_pos, by the code's arithmetic.      *)
Span(f, in_pos, in_nbytes) ==
  LET start == Min({in_pos, NBytes(f)})
      end == Min({(in_pos + in_nbytes) % SizeLimit, NBytes(f)})
  IN [start |-> start, nbytes |-> (end - start) % SizeLimit]

(* DSBLOCK_ENTIREBUFFER is the span of the buffer's length from 0.         *)
Grant(h, in_pos, in_nbytes) ==
  grant' = [handle |-> h, format |-> format[h], in_pos |-> in_pos,
            in_nbytes |-> in_nbytes, span |-> Span(format[h], in_pos, in_nbytes),
            wrote |-> {}, value |-> Zero]

(* Faulty Prepare: bytes and converter are made anew by every Lock.        *)
PrepareAgain(h) ==
  /\ RequiresConversion(h)
  /\ Valid(format[h])
  /\ failed' = failed
  /\ conv' = [conv EXCEPT ![h] = format[h]]
  /\ conv_bytes' = [conv_bytes EXCEPT ![h] = "live"]
  /\ source' = [source EXCEPT ![h] = Zeroed]

(* Faulty Prepare: converter_alloc does not hand its converter out.        *)
PrepareForgetsConverter(h) ==
  /\ RequiresConversion(h)
  /\ conv_bytes[h] = "null"
  /\ failed' = failed
  /\ conv_bytes' = [conv_bytes EXCEPT ![h] = "live"]
  /\ source' = [source EXCEPT ![h] = Zeroed]
  /\ UNCHANGED conv

(* ds_buffer_prepare_conversion when all goes well: on the first Lock it   *)
(* allocates zeroed bytes and opens a converter, later it leaves both.     *)
Prepare(h) ==
  /\ RequiresConversion(h)
  /\ failed' = failed
  /\ \/ conv[h] # NoFormat /\ UNCHANGED <<conv, conv_bytes, source>>
     \/ /\ conv[h] = NoFormat
        /\ conv_bytes[h] = "null"
        /\ Valid(format[h])
        /\ conv' = [conv EXCEPT ![h] = format[h]]
        /\ conv_bytes' = [conv_bytes EXCEPT ![h] = "live"]
        /\ source' = [source EXCEPT ![h] = Zeroed]

Lock(h, in_pos, in_nbytes) ==
  /\ Callable(h)
  /\ grant = NoGrant
  /\ \/ Prepare(h) /\ opened' = opened \cup {format[h]}
     \/ ~RequiresConversion(h) /\ UNCHANGED <<conv, conv_bytes, source, failed, opened>>
  /\ Grant(h, in_pos, in_nbytes)
  /\ used' = used \cup {h}
  /\ UNCHANGED <<format, samples, mine, written, disturbed, refused,
                 set_formats>>

(* Lock fails: the assertion on conv_bytes, no memory for the bytes or the *)
(* converter, or no ACM stream.  Past the calloc the bytes are freed, and  *)
(* the pointer keeps their address.                                        *)
FailedPrepare(h) ==
  /\ conv[h] = NoFormat
  /\ \/ /\ conv_bytes[h] # "null"
        /\ failed' = "conv_bytes == NULL"
        /\ UNCHANGED <<conv_bytes, refused>>
     \/ conv_bytes[h] = "null" /\ UNCHANGED <<conv_bytes, failed, refused>>
     \/ /\ conv_bytes[h] = "null"
        /\ AcmMayFail \/ ~Valid(format[h])
        /\ conv_bytes' = [conv_bytes EXCEPT ![h] = "dangling"]
        /\ refused' = TRUE
        /\ UNCHANGED failed

LockFails(h) ==
  /\ Callable(h)
  /\ grant = NoGrant
  /\ RequiresConversion(h)
  /\ FailedPrepare(h)
  /\ UNCHANGED <<format, conv, dataVars, grant, used, opened, disturbed,
                 set_formats>>

-----------------------------------------------------------------------------
(* Frames, bytes and their places in buf                                   *)

(* The bytes of frame i in format f.                                       *)
FrameBytes(f, i) == (i * Bpf(f)) .. ((i + 1) * Bpf(f) - 1)

(* The frames of buf that the frames of a handle in format f are heard in, *)
(* were buf long enough; those that they cover wholly are the first of     *)
(* them; and the frame in format f that is played at the time of frame j.  *)
Places(f) ==
  IF Valid(f) THEN 0..(DestNFrames(f, SysFormat, NFrames(f)) - 1) ELSE {}
WholeFrames(f) == (NFrames(f) * SysFormat.rate) \div f.rate
SourceOf(f, j) == (j * f.rate) \div SysFormat.rate

(* The application writes one value into all the frames that lie wholly in *)
(* the span it was given.                                                  *)
Granted ==
  {i \in 0..(NFrames(grant.format) - 1) :
     FrameBytes(grant.format, i) \subseteq
       grant.span.start .. (grant.span.start + grant.span.nbytes - 1)}

Write(v) ==
  /\ grant # NoGrant
  /\ Valid(grant.format)
  /\ grant.wrote = {}
  /\ Granted # {}
  /\ IF grant.format = SysFormat
     THEN /\ samples' = [j \in Frames |-> IF j \in Granted THEN {v} ELSE samples[j]]
          /\ UNCHANGED source
     ELSE /\ source' = [source EXCEPT ![grant.handle] =
                [b \in Bytes |-> IF \E i \in Granted : b \in FrameBytes(grant.format, i)
                                THEN v ELSE @[b]]]
          /\ UNCHANGED samples
  /\ grant' = [grant EXCEPT !.wrote = Granted, !.value = v]
  /\ UNCHANGED <<format, conv, conv_bytes, failed, mine, written, historyVars>>

(* The values that the Unlock of a grant delivers, by frame of buf.        *)
Delivered ==
  [j \in {k \in Places(grant.format) : SourceOf(grant.format, k) \in grant.wrote}
     |-> grant.value]

(* One set of deliveries put over another (@@ of TLC, for the proofs).      *)
Over(new, old) ==
  [j \in DOMAIN new \cup DOMAIN old |-> IF j \in DOMAIN new THEN new[j] ELSE old[j]]

(* converter_convert: n frames of buf are made from the handle's bytes,    *)
(* from their first.  The ACM stops where the bytes or buf end, and may or *)
(* may not fill the frame that the bytes cover in part.                    *)
Filled(f) ==
  {Min({n, SysFrames}) : n \in {WholeFrames(f), DestNFrames(f, SysFormat, NFrames(f))}}

Converted(h, n) ==
  [j \in Frames |->
     IF j < n
     THEN {source[h][b] : b \in FrameBytes(conv[h], SourceOf(conv[h], j))}
     ELSE samples[j]]

(* Unlock converts if there is a converter, whatever was locked; what      *)
(* other handles have put where it converts is gone.                       *)
Unlock ==
  LET h == grant.handle
      now == Over(Delivered, mine[h])
  IN /\ failed = "none"
     /\ grant # NoGrant
     /\ IF conv[h] = NoFormat
        THEN samples' = samples /\ written' = Over(Delivered, written)
        ELSE /\ \E n \in Filled(conv[h]) : samples' = Converted(h, n)
             /\ written' = Over(now, [j \in DOMAIN written \ Places(conv[h]) |-> written[j]])
     /\ mine' = [mine EXCEPT ![h] = now]
     /\ grant' = NoGrant
     /\ UNCHANGED <<format, conv, conv_bytes, source, failed, historyVars>>

(* The conversion fails; the bytes keep what was written into them.        *)
UnlockFails ==
  /\ failed = "none"
  /\ grant # NoGrant
  /\ AcmMayFail
  /\ conv[grant.handle] # NoFormat
  /\ mine' = [mine EXCEPT ![grant.handle] = Over(Delivered, @)]
  /\ grant' = NoGrant
  /\ UNCHANGED <<format, conv, conv_bytes, source, samples, written, failed, historyVars>>

-----------------------------------------------------------------------------
(* SetFormat stores the format, unexamined, and touches nothing else.      *)
SetFormat(h, f) ==
  /\ Callable(h)
  /\ set_formats < MaxSetFormats
  /\ set_formats' = set_formats + 1
  /\ format' = [format EXCEPT ![h] = f]
  /\ disturbed' = (disturbed \/ (h \in used /\ f # format[h]))
  /\ refused' = (refused \/ ~Usable(f))
  /\ UNCHANGED <<conv, conv_bytes, dataVars, grant, failed, used, opened>>

(* GetCurrentPosition changes nothing, but it asserts that the position    *)
(* converts into the buffer's format.                                      *)
GetCurrentPosition(h) ==
  /\ Callable(h)
  /\ failed' = IF Valid(format[h]) THEN failed ELSE "SUCCEEDED(hr)"
  /\ UNCHANGED <<format, conv, conv_bytes, dataVars, grant, historyVars>>

(* DuplicateSoundBuffer hands on the current format of its source and the  *)
(* length it was created with.  If these do not go together, the object    *)
(* that was begun is given up by submitting a reaper task it has not got.  *)
Duplicate(src, h) ==
  /\ Callable(src)
  /\ h \in Clones
  /\ format[h] = NoFormat
  /\ h \notin used
  /\ IF Usable(format[src])
     THEN format' = [format EXCEPT ![h] = format[src]] /\ UNCHANGED failed
     ELSE failed' = "reaper != NULL" /\ UNCHANGED format
  /\ UNCHANGED <<conv, conv_bytes, dataVars, grant, historyVars>>

(* ds_buffer_unref, the last: free(conv_bytes), converter_free(conv).      *)
Release(h) ==
  /\ Callable(h)
  /\ grant = NoGrant
  /\ failed' = IF conv_bytes[h] = "dangling" THEN "free(conv_bytes)" ELSE failed
  /\ format' = [format EXCEPT ![h] = NoFormat]
  /\ conv' = [conv EXCEPT ![h] = NoFormat]
  /\ conv_bytes' = [conv_bytes EXCEPT ![h] = "null"]
  /\ UNCHANGED <<dataVars, grant, historyVars>>

LockNext ==
  \/ \E h \in Handles :
       \/ \E in_pos, in_nbytes \in Requested : Lock(h, in_pos, in_nbytes)
       \/ LockFails(h)
       \/ \E f \in Formats : SetFormat(h, f)
       \/ GetCurrentPosition(h)
       \/ \E src \in Handles : Duplicate(src, h)
       \/ Release(h)
  \/ \E v \in Values : Write(v)
  \/ Unlock
  \/ UnlockFails

LockSpec == LockInit /\ [][LockNext]_lockVars
-----------------------------------------------------------------------------
(* Unless the end of the request overflows a DWORD, Lock grants exactly    *)
(* the bytes that were asked for and exist.                                *)
SpanIsRequest ==
  (grant # NoGrant /\ grant.in_pos + grant.in_nbytes < SizeLimit) =>
    LET asked == grant.in_pos .. (grant.in_pos + grant.in_nbytes - 1)
        span == grant.span.start .. (grant.span.start + grant.span.nbytes - 1)
    IN span = asked \cap 0..(NBytes(grant.format) - 1)

(* The bytes last no longer in format f than in the one they were created  *)
(* with.                                                                   *)
LastsNoLonger(f) ==
  NFrames(f) * FirstFormat.rate <= (ConvNBytes \div Bpf(FirstFormat)) * f.rate

(* The last frame of buf that bytes in some format reach, covered in part. *)
CoveredInPart(j) == \E f \in opened : j \in Places(f) /\ j >= WholeFrames(f)

(* What was written between a Lock and its Unlock is what the mixer reads, *)
(* whichever handles it was written through and whichever Unlocks failed   *)
(* in between, until another handle's conversion covers the place: as far  *)
(* as buf reaches, and it reaches everything unless its size was too much  *)
(* for a size_t or a format makes the bytes last longer than they did when *)
(* buf was made.  A handle must keep the format it was first locked in, or *)
(* Unlock converts bytes that are stale.                                   *)
WrittenIsHeard ==
  (grant = NoGrant /\ ~disturbed) =>
    \A j \in DOMAIN written :
      /\ j < SysFrames => samples[j] = {written[j]} \/ CoveredInPart(j)
      /\ (/\ Fits(FirstFormat, SysFormat, ConvNBytes \div Bpf(FirstFormat))
          /\ \A f \in opened : LastsNoLonger(f)) => j < SysFrames

(* The assertions of ds_buffer_prepare_conversion, GetCurrentPosition and  *)
(* DuplicateSoundBuffer hold, and Release frees the conversion's bytes     *)
(* once, as long as every converter can be opened and every format set is  *)
(* one the buffer could have been created with.  After a failure a Lock    *)
(* that is tried again, or Release, does not.                              *)
NoAssertionFails == failed = "none" \/ refused
=============================================================================
