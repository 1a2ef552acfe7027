------------------------------- MODULE MCNfc -------------------------------
EXTENDS Nfc

\* Commands of one chunk, as io.cpp issues them, or of two.
AnyMask  == {{0}, {0, 1}}
=============================================================================
