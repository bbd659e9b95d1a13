-------------------------- MODULE MC_DilationCodec --------------------------
(***************************************************************************)
(* Model-checking instance of DilationCodec: two known frame types and one *)
(* unknown, three frames (enough for a recognised frame followed by a      *)
(* type-less one and another after it).                                    *)
(***************************************************************************)
EXTENDS DilationCodec

CONSTANTS NonStringValue, AbsentValue

MCFrameTypes == {"please", "reconnecting", "bogus"}
\* Frames whose "type", when present, is a string.
StringTyped == MCFrameTypes \cup {AbsentValue}
\* Frames of every shape, a non-string "type" included.
AnyTyped == StringTyped \cup {NonStringValue}
MCMaxFrames == 3
=============================================================================
