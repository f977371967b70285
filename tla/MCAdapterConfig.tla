-------------------------- MODULE MCAdapterConfig ---------------------------
(***************************************************************************)
(* Instances of AdapterConfig: every document of up to two entries, in all *)
(* formats or in TOML alone.                                               *)
(***************************************************************************)
EXTENDS AdapterConfig

AllFormats == {"nested", "flat", "toml"}
OnlyToml == {"toml"}

=============================================================================
