----------------------------- MODULE MCRestore -----------------------------
(***************************************************************************)
(* TLC's instance of Restore: the first backup in each form it may have,   *)
(* the second one by the present version.                                  *)
(***************************************************************************)
EXTENDS Restore

Plain == <<"name">>
Dotted == <<"name", ".tar", "get">>

AnyForm ==
  {<<first, Present(Plain, "zstd", "none")>> :
     first \in {Old(Plain, "gz"), Old(Dotted, "gz"), Old(Plain, "unset"), Present(Dotted, "tar", "gz")}}
OneForm == {<<Present(Plain, "tar", "none"), Present(Plain, "tar", "none")>>}
=============================================================================
