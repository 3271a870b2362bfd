---------------------------- MODULE FeedbackClaims ----------------------------
(***************************************************************************)
(* What the comments of hfd_feedback.cpp say of an effect that is stopped, *)
(* and of one that is not.  The plugin keeps no such record: two history   *)
(* variables follow Feedback.tla's steps and hinder none.                  *)
(***************************************************************************)
EXTENDS Feedback

VARIABLES
  stopped,   \* the chains whose effect was stopped or paused since they began
  calm       \* no effect was ever stopped or paused, no call has failed

HaltsNow(e) == \E s \in State \ {"Running"} : Halt(e, s)

ClaimsInit == Init /\ stopped = {} /\ calm = TRUE

ClaimsNext ==
  /\ Next
  /\ stopped' = {c \in Chain :
       Pending(c) /\ Pending(c)' /\ (c \in stopped \/ HaltsNow(effect[c]))}
  /\ calm' = (calm /\ ~(\E e \in Effect : HaltsNow(e))
                   /\ ~(\E c \in Chain : ReplyError(c)))

ClaimsSpec == ClaimsInit /\ [][ClaimsNext]_<<vars, stopped, calm>>

\* "we repeat this effect forever until stopped" (lines 151-152): while no
\* effect has been stopped or paused and no call has failed, an endless effect
\* that was started is running.
ForeverUntilStopped ==
  calm /\ (\E e \in playing : Endless(e)) => state = "Running"

\* "Maybe stopped/paused before this async call." (line 127): a chain whose
\* effect was stopped or paused makes no further call.
StoppedChainsStayStopped == [][\A c \in stopped :
  phase[c] # "call" => phase'[c] # "call"]_<<vars, stopped, calm>>
===============================================================================
