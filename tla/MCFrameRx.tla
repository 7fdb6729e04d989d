----------------------------- MODULE MCFrameRx -----------------------------
(* A small instance of FrameRx for TLC.                                    *)
EXTENDS FrameRx

(* A checksum in the place of CRC-16.                                      *)
MCCrcStep(c, b) == (BYTE_MAX * c + b) % (BYTE_MAX + 1)

=============================================================================
