---------------------------- MODULE MCLineProgram ----------------------------
(***************************************************************************)
(* Two units with short line-number programs.                              *)
(***************************************************************************)
EXTENDS LineProgram

MCProgramLengths == <<4, 1>>

MCLineBase == -1
=============================================================================
