------------------------------ MODULE MCPaging ------------------------------
(***************************************************************************)
(* Two pages in a table and two addresses in a page.  Boot leaves frames   *)
(* for a few heap pages only: the heap runs out of frames on some paths    *)
(* and needs a table beyond the identity mapping on others.                *)
(***************************************************************************)
EXTENDS Paging

MCFramebuffer == <<20>>
MCUserPages == <<22>>
MCIncrements == {0, 1, 2, 4, ADDRESSES - 1}
=============================================================================
