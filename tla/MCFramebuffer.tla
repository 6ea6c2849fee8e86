--------------------------- MODULE MCFramebuffer ----------------------------
(* Framebuffer with few pages.                                             *)
EXTENDS Framebuffer
=============================================================================
