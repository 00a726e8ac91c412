---------------------------- MODULE LoaderStream ----------------------------
(***************************************************************************)
(* What the network stack is promised of a request for a custom scheme:    *)
(* any number of redirects, each of which it follows, then at most one     *)
(* response, and one completion, which is the last thing it hears.  It may *)
(* give up at any time before that.                                        *)
(***************************************************************************)
EXTENDS Naturals

VARIABLES redirects,  \* redirects announced
          followed,   \* redirects the network stack has followed
          responses,  \* response heads delivered
          ends        \* completions, or the decision to give up

vars == <<redirects, followed, responses, ends>>

Init == redirects = 0 /\ followed = 0 /\ responses = 0 /\ ends = 0

Open == ends = 0 /\ responses = 0 /\ redirects = followed

Redirect == Open /\ redirects' = redirects + 1 /\ UNCHANGED <<followed, responses, ends>>

\* Following starts the next job, which may be refused at once.
Follow ==
  /\ ends = 0 /\ followed < redirects
  /\ followed' = followed + 1
  /\ ends' \in {0, 1}
  /\ UNCHANGED <<redirects, responses>>

\* A failure delivers the head of an error response and completes.
Respond ==
  /\ Open
  /\ responses' = 1
  /\ ends' \in {0, 1}
  /\ UNCHANGED <<redirects, followed>>

End == ends = 0 /\ ends' = 1 /\ UNCHANGED <<redirects, followed, responses>>

Next == Redirect \/ Follow \/ Respond \/ End

Safety == Init /\ [][Next]_vars
=============================================================================
