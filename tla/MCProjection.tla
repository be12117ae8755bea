---------------------------- MODULE MCProjection ----------------------------
EXTENDS Projection
=============================================================================
