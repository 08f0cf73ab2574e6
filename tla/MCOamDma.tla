------------------------------ MODULE MCOamDma -----------------------------
(* A transfer of three bytes, one page on each bus.                          *)
EXTENDS OamDma

CONSTANTS wram, vram, x, y
=============================================================================
