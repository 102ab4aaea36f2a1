---------------------------- MODULE VideoDevices ----------------------------
(***************************************************************************)
(* VideoDevices::get_devices: the cameras the user may choose, read from   *)
(* what v4l2-ctl --list-devices prints.  v4l2-ctl prints the name of each  *)
(* device and then its files, of which the command keeps the first.        *)
(***************************************************************************)
EXTENDS Integers, Sequences, FiniteSets

CONSTANTS
  Outputs,    \* MATTERIALIZE_PREVIEW, MATTERIALIZE_CAM: the app's own cameras
  NoDigits    \* the number of a line without digits, or with too many

(* A line is the number its digits make and whether it has two dashes.  An *)
(* entry of the list is a line with a name and a line with a file.         *)
Printed(entries) ==
  [i \in 1 .. 2 * Len(entries) |->
     IF i % 2 = 1 THEN entries[(i + 1) \div 2].name ELSE entries[i \div 2].file]

\* The lines after grep and sed: grep puts dashes between its groups, and
\* sed removes every line with dashes, a name that has them included.
Piped(entries) ==
  LET lines == Printed(entries)
      kept == {i \in DOMAIN lines : ~lines[i].dashes}
      Nth(k) == CHOOSE i \in kept : Cardinality({j \in kept : j <= i}) = k
  IN [k \in 1 .. Cardinality(kept) |-> lines[Nth(k)]]

Pairs(lines) == 1 .. Len(lines) \div 2

\* std::stoi of a line taken for a number throws, and the request fails.
StoiThrows(lines) == \E k \in Pairs(lines) : lines[2 * k].num = NoDigits

\* Mutant of GetDevices: the preview is not excluded.
GetAllDevices(lines) ==
  {[number |-> lines[2 * k].num, name |-> lines[2 * k - 1]] : k \in Pairs(lines)}

\* The loop over the characters: lines are a name and a number by turns.
GetDevices(lines) ==
  {[number |-> lines[2 * k].num, name |-> lines[2 * k - 1]] :
     k \in {j \in Pairs(lines) : lines[2 * j].num \notin Outputs}}
=============================================================================
