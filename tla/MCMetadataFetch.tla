--------------------------- MODULE MCMetadataFetch ---------------------------
(* Small instances of MetadataFetch.                                       *)
EXTENDS MetadataFetch, TLC

CONSTANTS a, b

\* Two files are named by checksum, as rpm-md's primary and updateinfo are, and
\* the second revision lists only the first; the last has a fixed name and is
\* optional, as apt-rpm's contents_index is.
MixedDeclares == a :> {1, 2, 3} @@ b :> {1, 3}
=============================================================================
