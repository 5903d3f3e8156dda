-------------------------- MODULE MCDeviceContext --------------------------
(* DeviceContext on two spectrometers, for what does not hold of it.          *)
EXTENDS DeviceContext

MCFormat == {3, 5}
=============================================================================
