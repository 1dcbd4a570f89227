------------------------- MODULE MCFlashCheckpoint --------------------------
EXTENDS FlashCheckpoint, TLC
=============================================================================
