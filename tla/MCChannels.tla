----------------------------- MODULE MCChannels -----------------------------
\* An instance of Channels for TLC.
EXTENDS Channels, TLC

CONSTANTS c1, c2, e1, n1, n2, q1, q2, m1

\* The account's own address is a recipient of the organization too.
Contacts == {[type |-> "EMAIL", target |-> e1]}

\* Identifiers, numbers and slots are interchangeable.
Interchangeable == Permutations(Channel) \cup Permutations(Phone) \cup Permutations(Req)
=============================================================================
