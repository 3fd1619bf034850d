------------------------- MODULE MCLiveTagPipeline -------------------------
(* Two tags read two columns of one raw file. *)
EXTENDS LiveTagPipeline

MCRawOf == [t \in Tag |-> CHOOSE f \in File : TRUE]
=============================================================================
