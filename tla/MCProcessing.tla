---------------------------- MODULE MCProcessing ----------------------------
(* Small instances of Processing for TLC. *)
EXTENDS Processing, TLC

CONSTANTS meme, standard

(* EverythingStrategy on a big jpeg: the orienter, the compressor, the EXIF *)
(* stripper, and one Quality command of the scaler.                        *)
MCChain == <<"new", "new", "inplace", "new">>

MCWords == meme :> 1 @@ standard :> 2
=============================================================================
