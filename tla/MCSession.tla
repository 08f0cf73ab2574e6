------------------------------ MODULE MCSession ----------------------------
(* red and redAlt share a save path, and the RAM of the one is as long as    *)
(* RAM and clock footer of the other; loose has no battery.                  *)
EXTENDS Session

CONSTANTS red, redAlt, loose

MCSavePath == [r \in Roms |-> IF r = loose THEN "loose.sav" ELSE "red.sav"]
MCRamSize == [r \in Roms |-> CASE r = red -> 2 [] r = redAlt -> 1 [] OTHER -> 0]
MCStrangers == {[size |-> n, value |-> 1, durable |-> TRUE] : n \in 0..3}
=============================================================================
