------------------------- MODULE MCPresencePipeline -------------------------
(***************************************************************************)
(* Instances of PresencePipeline for TLC.                                  *)
(***************************************************************************)
EXTENDS PresencePipeline

FaceOnly == <<"face_visible">>
FaceAndMotion == <<"face_visible", "motion">>
=============================================================================
