------------------------------- MODULE MCFtl --------------------------------
EXTENDS Ftl
=============================================================================
