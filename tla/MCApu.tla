-------------------------------- MODULE MCApu ------------------------------
(* Frequencies of three bits, lengths of two and three, two bytes of wave    *)
(* RAM and a shift register of four bits.                                    *)
EXTENDS Apu

MCLengthMax == <<2, 2, 3, 2>>
=============================================================================
