---------------------------- MODULE MCAhbTransfer ----------------------------
(* Small instances of AhbTransfer: pages of four words, chunks of three, and
   transfers over up to three pages; the core registers lie across a page.  *)
EXTENDS AhbTransfer

FewStarts == {0, 2, 3}
FewCounts == {0, 1, 4, 7}
=============================================================================
