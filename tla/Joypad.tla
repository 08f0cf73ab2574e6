------------------------------- MODULE Joypad ------------------------------
(***************************************************************************)
(* P1 and the button matrix (core/Joypad).  A line is low when a held      *)
(* button sits on it in a selected group; the interrupt is the fall of a   *)
(* line, the way out of STOP its level.                                    *)
(***************************************************************************)
EXTENDS Integers

CONSTANTS
  Groups,   \* the two groups of buttons: directions and actions
  Lines     \* P10 to P13

ASSUME JoypadAssumption == Groups # {} /\ Lines # {}

VARIABLES
  pressed,    \* pressed_: the buttons held, as <<group, line>>
  selected    \* the groups select_ selects

joypadVars == <<pressed, selected>>

Buttons == Groups \X Lines

JoypadTypeOK == pressed \subseteq Buttons /\ selected \subseteq Groups

\* A machine starts with nothing held and both groups selected.
JoypadInit == pressed = {} /\ selected = Groups

\* lines(): the lines that read low, several groups wired together.
LowLines(held, groups) == {l \in Lines : \E g \in groups : <<g, l>> \in held}

AnyLineLow == LowLines(pressed, selected) # {}

\* Both ways of moving a line report whether one fell.
LineFell == LowLines(pressed', selected') \ LowLines(pressed, selected) # {}

HoldButtons(held) == pressed' = held /\ UNCHANGED selected
SelectGroups(groups) == selected' = groups /\ UNCHANGED pressed
=============================================================================
