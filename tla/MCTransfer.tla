----------------------------- MODULE MCTransfer -----------------------------
(* Model checking Transfer: contents of every length a last group may have.   *)
EXTENDS Transfer

MCTexts == {<<>>, <<0>>, <<255, 165>>, <<1, 254, 63>>, <<255, 0, 90, 128>>}
=============================================================================
