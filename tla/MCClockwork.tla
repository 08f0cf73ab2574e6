----------------------------- MODULE MCClockwork ---------------------------
(* A counter short enough for TLC whose bits keep the order of the real one: *)
(* 32 M-cycles, TAC's four bits and the serial clock at half-periods 2 to    *)
(* 16, and the frame sequencer on the bit of TAC's slowest rate, so that a   *)
(* write to DIV can make every device's bit fall at once.                    *)
EXTENDS Clockwork, TLC

MCTacHalf == (0 :> 16) @@ (1 :> 2) @@ (2 :> 4) @@ (3 :> 8)
=============================================================================
