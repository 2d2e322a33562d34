---------------------------- MODULE MCEEPROMConfig -----------------------------
(* Two parameters of one application and one of another.                   *)
EXTENDS EEPROMConfig

MCChanged == {<<1, 1>>, <<1, 2>>}
MCParameters == {<<1, 1>>, <<1, 2>>, <<2, 1>>}
MCResized == {<<1, 2>>}
=============================================================================
