-------------------------- MODULE MCShareExtension --------------------------
(***************************************************************************)
(* ShareExtension for TLC: the attachments are interchangeable.            *)
(***************************************************************************)
EXTENDS ShareExtension, TLC

AttachmentSymmetry == Permutations(Attachments)

=============================================================================
