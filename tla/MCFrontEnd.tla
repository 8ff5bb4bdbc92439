---------------------------- MODULE MCFrontEnd ----------------------------
EXTENDS FrontEnd

=============================================================================
