---------------------------- MODULE MCConverter ----------------------------
(* Instances of Converter for TLC.                                         *)
EXTENDS Converter

(* Rates with every kind of ratio to the device's: lower and higher, with  *)
(* and without a common factor, and the same.                              *)
MCSysFormat == [rate |-> 6, channels |-> 2, bits |-> 16]
MCFormats ==
  {MCSysFormat}
  \cup [rate : {1, 4, 6, 13}, channels : {1}, bits : {8, 16}]
  \cup {[rate |-> 0, channels |-> 1, bits |-> 8], [rate |-> 4, channels |-> 1, bits |-> 12]}
=============================================================================
