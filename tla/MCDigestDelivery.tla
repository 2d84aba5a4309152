-------------------------- MODULE MCDigestDelivery --------------------------
(* Constants of DigestDelivery for model checking. *)
EXTENDS DigestDelivery, TLC

\* Invocations are interchangeable, and so are pages.
SymmetricSenders == Permutations(Senders) \cup Permutations(Pages)
=============================================================================
