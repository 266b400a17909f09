------------------------------ MODULE MCPubSub ------------------------------
(* PubSub for TLC: subscribers, channels and publishers are interchangeable. *)
EXTENDS PubSub, TLC

Symmetry == Permutations(Subscriber) \cup Permutations(Channel)
              \cup Permutations(Publisher)
=============================================================================
