----------------------------- MODULE MCSurfaces -----------------------------
(***************************************************************************)
(* Instance of Surfaces: one request, an answer of each sort and two polls *)
(* that overlap.                                                           *)
(***************************************************************************)
EXTENDS Surfaces

CONSTANT r1

OneRequest == {r1}
OneOfEach == {"allow_once", "block_similar"}
TheSimilar == {"block_similar"}
TwoPolls == {1, 2}

=============================================================================
