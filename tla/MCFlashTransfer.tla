-------------------------- MODULE MCFlashTransfer --------------------------
(* FlashTransfer on 5 bytes of flash: three packets, a batch of two and a rest, *)
(* one full chunk and a rest.  The bytes written are distinct.                 *)
EXTENDS FlashTransfer

MCOffset == {0, 1}
MCLength == {0, 3, 5}
MCByte   == 0 .. 5
MCData   == {[i \in 0 .. 4 |-> i]}
=============================================================================
