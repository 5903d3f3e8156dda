-------------------------- MODULE MCExposedContext --------------------------
(* ExposedContext on two spectrometers.  A frame of 3 pixels is two packets, the  *)
(* second half full, and one of 5 exceeds MAX_PACKETS_IN_FRAME.                  *)
EXTENDS ExposedContext

MCFormat == {3, 5}
=============================================================================
