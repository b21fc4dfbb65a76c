---------------------------- MODULE MCSelThread ----------------------------
EXTENDS SelThreadProps
=============================================================================
