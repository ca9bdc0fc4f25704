--------------------------- MODULE MCProviderStream ---------------------------
(* Model-checking instances of ProviderStream. *)
EXTENDS ProviderStream
=============================================================================
