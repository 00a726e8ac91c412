---------------------------- MODULE MCPdfDocument ----------------------------
(***************************************************************************)
(* Bounded instance of PdfDocument: two replies, which may change places.  *)
(***************************************************************************)
EXTENDS PdfDocument, TLC

ReplySymmetry == Permutations(Replies)
=============================================================================
