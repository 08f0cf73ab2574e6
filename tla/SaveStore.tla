------------------------------ MODULE SaveStore ----------------------------
(***************************************************************************)
(* What app/Save promises of the files it keeps: whatever is killed and    *)
(* whenever the power fails, the save at a path is the one that was there  *)
(* or a whole image of a cartridge whose save belongs there, and it goes   *)
(* from one to the other at a single stroke.                               *)
(***************************************************************************)
CONSTANTS
  Files,    \* everything that can be at a path, no file included
  Images    \* Images[path]: the files a whole save at path can be

VARIABLE saved    \* saved[path]: the file a reader finds there

Replace(path) ==
  \E image \in Images[path] : saved' = [saved EXCEPT ![path] = image]

\* Anything may have been there when the program was installed.
Init == saved \in [DOMAIN Images -> Files]

Next == \E path \in DOMAIN Images : Replace(path)

Spec == Init /\ [][Next]_saved
=============================================================================
