---------------------------- MODULE MCMethThread ----------------------------
EXTENDS MethThread
CONSTANTS main, w1, w2, b1, b2
=============================================================================
