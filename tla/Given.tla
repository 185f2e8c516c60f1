-------------------------------- MODULE Given --------------------------------
(***************************************************************************)
(* What a tool that keeps no state of its own was given.  The modules of    *)
(* such tools define what the tool makes of it as operators; an instance    *)
(* for TLC lets given be any of their inputs.                               *)
(***************************************************************************)
CONSTANT Absent \* a field or a value that is not there

VARIABLE given  \* [tool |-> its name, ...]: the input of the tool at work

At(tool) == given.tool = tool
=============================================================================
