-------------------------------- MODULE MCCpu ------------------------------
(* Three interrupts: one of the PPU, one of another device, and the          *)
(* joypad's; one button, in a group the program may select or not.           *)
EXTENDS Cpu

CONSTANT directions
=============================================================================
