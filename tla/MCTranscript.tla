---------------------------- MODULE MCTranscript ----------------------------
(***************************************************************************)
(* A fork's spawn and another background task for model checking           *)
(* Transcript.                                                             *)
(***************************************************************************)
EXTENDS Transcript, TLC

CONSTANTS f1, b1

Plain == f1 :> <<"journal", "">>
=============================================================================
