----------------------------- MODULE TargetFeed -----------------------------
(***************************************************************************)
(* What the operator and the tunnel server promise together about the      *)
(* targets: the server uses a list that was published, whole, and when no  *)
(* more lists are published it uses the last one.  How a list travels, by  *)
(* a file that lags or by pushes that get lost and overtake each other, is *)
(* not part of the promise.                                                *)
(***************************************************************************)
CONSTANT Lists
VARIABLES
  published,   \* the last list the operator published
  past,        \* every list it has published
  have         \* the server's list

vars == <<published, past, have>>

Init == published = <<>> /\ past = {<<>>} /\ have = <<>>

Publish(l) == published' = l /\ past' = past \cup {l} /\ UNCHANGED have

\* An older list is allowed, even after a newer one: a server that starts
\* again has none, and a late push brings back what it carries.
Follow(l) == l \in past /\ have' = l /\ UNCHANGED <<published, past>>

CatchUp == have # published /\ Follow(published)

\* The server is taken away, and its list with it.
Withdraw == published' = <<>> /\ have' = <<>> /\ UNCHANGED past

Next == Withdraw \/ \E l \in Lists : Publish(l) \/ Follow(l)

Spec == Init /\ [][Next]_vars /\ WF_vars(CatchUp)
=============================================================================
