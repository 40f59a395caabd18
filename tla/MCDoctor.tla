------------------------------ MODULE MCDoctor ------------------------------
EXTENDS Doctor
=============================================================================
