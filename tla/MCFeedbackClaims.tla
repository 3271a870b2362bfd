--------------------------- MODULE MCFeedbackClaims ---------------------------
\* The instance of MCFeedback.
EXTENDS MCFeedback, FeedbackClaims
===============================================================================
