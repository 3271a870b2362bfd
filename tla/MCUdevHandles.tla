--------------------------- MODULE MCUdevHandles ---------------------------
\* Four places, so that a reference can be shared, moved and overwritten at
\* once, and two libudev objects for assignments between different ones.
EXTENDS UdevHandles
===============================================================================
