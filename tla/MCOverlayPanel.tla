--------------------------- MODULE MCOverlayPanel ---------------------------
EXTENDS OverlayPanel
=============================================================================
