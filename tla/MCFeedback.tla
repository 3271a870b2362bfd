------------------------------ MODULE MCFeedback ------------------------------
\* An int of ten bits.  A pattern of the default duration with three calls, the
\* last not full; an endless ring of the default period; a long pattern whose
\* count wraps to a negative number; and a huge one whose count wraps to
\* Infinite and whose timer does not fit.  Two chains, three calls on the bus.
EXTENDS Feedback

MCEffect == {"pattern", "ring", "long", "huge"}
MCDuration == [pattern |-> 0, ring |-> -7, long |-> 511, huge |-> 511]
MCPeriod == [pattern |-> 60, ring |-> 0, long |-> 2, huge |-> 256]
===============================================================================
