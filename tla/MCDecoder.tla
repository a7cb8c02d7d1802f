----------------------------- MODULE MCDecoder -----------------------------
(* Requests of the first three versions that the broker announces *)
EXTENDS Decoder, DecoderInputs
=============================================================================
