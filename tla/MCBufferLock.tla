---------------------------- MODULE MCBufferLock ----------------------------
(* Instances of BufferLock for TLC.                                        *)
EXTENDS BufferLock

(* Two bytes, created as two mono frames, three of the device's and the    *)
(* last of these covered in part.  They may become two frames that last    *)
(* longer, one that lasts less long, or a format that is not valid.        *)
MCSysFormat == [rate |-> 5, channels |-> 2, bits |-> 16]
MCFirstFormat == [rate |-> 4, channels |-> 1, bits |-> 8]
MCFormats ==
  {MCSysFormat, MCFirstFormat,
   [rate |-> 2, channels |-> 1, bits |-> 8],
   [rate |-> 4, channels |-> 1, bits |-> 16],
   [rate |-> 0, channels |-> 1, bits |-> 8]}
=============================================================================
