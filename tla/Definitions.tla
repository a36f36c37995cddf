---------------------------- MODULE Definitions ----------------------------
(***************************************************************************)
(* The definition of a backup, as versions before 0.4 and later ones have  *)
(* written it, and the archive the tar packager opens for it               *)
(* (compat_layers/definition.py, packagers/tar.py).                        *)
(*                                                                         *)
(* A file name is the sequence of its pieces.  ".tar" is the piece that    *)
(* the code's patterns look for; it may come from a domain's name as well. *)
(***************************************************************************)
EXTENDS Naturals, Sequences

Stems == {<<"name">>, <<"name", ".tar", "get">>}
Compressions == {"none", "tar", "gz"}

\* The fields that a definition does not have are "unset", or <<>> for a name.
Definition ==
  [old : BOOLEAN, tar : Seq({"name", ".tar", "get", ".gz"}),
   name : Seq({"name", ".tar", "get", ".gz"}), compression : Compressions \cup {"unset"},
   packager : {"directory", "tar", "zstd", "unset"}, opts : Compressions]

TarAt(name) == {i \in DOMAIN name : name[i] = ".tar"}

\* What follows the stem of an archive of this compression.
Extension(compression) == IF compression = "gz" THEN <<".tar", ".gz">> ELSE <<".tar">>

\* _AbstractBackupPackagerTar.complete_path: an archive name that has ".tar"
\* anywhere gets no extension.
CompletePath(archive, compression) ==
  IF TarAt(archive) # {} THEN archive ELSE archive \o Extension(compression)

\* Definitions of the present version and of the versions before 0.4, whose
\* "compression" is null for a directory, and may be missing.
Present(stem, packager, compression) ==
  [old |-> FALSE, tar |-> <<>>, name |-> stem, compression |-> "unset",
   packager |-> packager, opts |-> compression]
Old(stem, compression) ==
  [old |-> TRUE, name |-> <<>>, compression |-> compression, packager |-> "unset",
   tar |-> IF compression \in {"tar", "gz"} THEN stem \o Extension(compression) ELSE <<>>,
   opts |-> "none"]

\* ToV0_4.convert_compression
ConvertCompression(def) ==
  CASE def.compression = "none" -> [def EXCEPT !.packager = "directory", !.compression = "unset"]
    [] def.compression \in {"tar", "gz"} ->
         [def EXCEPT !.packager = "tar", !.compression = "unset",
                     !.opts = IF def.compression = "tar" THEN "none" ELSE def.compression]
    [] def.compression = "unset" /\ def.packager = "unset" -> [def EXCEPT !.packager = "directory"]
    [] OTHER -> def

\* ToV0_4.convert_name: the stem is what comes before the last ".tar", and of a
\* definition without archive it is made of the date, the ID and the domain.
ConvertName(def, dated) ==
  LET last == CHOOSE i \in TarAt(def.tar) : \A j \in TarAt(def.tar) : j <= i
      stem == IF TarAt(def.tar) = {} THEN def.tar ELSE SubSeq(def.tar, 1, last - 1)
  IN  [def EXCEPT !.tar = <<>>, !.name = IF def.tar # <<>> THEN stem
                                         ELSE IF def.name = <<>> THEN dated ELSE def.name]

\* Mutation: the compression is not carried over.
ConvertUncompressed(def, dated) ==
  IF def.old
  THEN [ConvertName(ConvertCompression(def), dated) EXCEPT !.old = FALSE, !.opts = "none"]
  ELSE def

\* convert: what scan_backup_dir makes of a definition of before 0.4.
Convert(def, dated) ==
  IF def.old THEN [ConvertName(ConvertCompression(def), dated) EXCEPT !.old = FALSE] ELSE def
=============================================================================
