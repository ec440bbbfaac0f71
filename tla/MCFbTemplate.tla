---------------------------- MODULE MCFbTemplate ----------------------------
(***************************************************************************)
(* The shared template with the streams of a whole run: three branch       *)
(* threads with streams inside streams, at every verbosity, and with every *)
(* set of branches that have records.                                      *)
(***************************************************************************)
EXTENDS FileStreams
=============================================================================
