--------------------------- MODULE MCRasterBlocks ---------------------------
(* Four blocks, and a cache that holds two of them.                        *)
EXTENDS RasterBlocks

CONSTANTS b1, b2, b3, b4

FourLabels == <<b1, b2, b3, b4>>
=============================================================================
