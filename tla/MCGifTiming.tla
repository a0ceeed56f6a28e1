----------------------------- MODULE MCGifTiming -----------------------------
EXTENDS GifTiming
=============================================================================
