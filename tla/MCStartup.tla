----------------------------- MODULE MCStartup -----------------------------
(***************************************************************************)
(* An instance of Startup for TLC: the three windows of the code, with     *)
(* shorter times.                                                          *)
(***************************************************************************)
EXTENDS Startup

ThreeWindows == << [until |-> 6, delay |-> 1], [until |-> 12, delay |-> 2],
                   [until |-> 24, delay |-> 4] >>
=============================================================================
