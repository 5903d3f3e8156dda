--------------------------- MODULE MCSpectrometer ---------------------------
(* Spectrometer with two values of each setting but the reduction mode: a zero  *)
(* is the value of a copy that was never filled.                               *)
EXTENDS Spectrometer

\* Every format has a size of its own.
MCFrameSize == [f \in Format |-> 1 + 2 * f.element_range + (1 - f.reduction_mode)]
=============================================================================
