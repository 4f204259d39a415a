------------------------------ MODULE MCFsTests ------------------------------
EXTENDS FsTests
=============================================================================
