------------------------------- MODULE MCHub -------------------------------
(* Small instances of the hub for TLC. *)
EXTENDS HubProps, TLC

CONSTANTS c1, u1, NoId

\* Both connections belong to the same user.
SameUser == [c \in Client |-> u1]

\* Nobody gave a user id.
Anonymous == [c \in Client |-> NoId]

\* The first connection is anonymous.
OneAnonymous == [c \in Client |-> IF c = c1 THEN NoId ELSE u1]

\* Payloads are interchangeable.
PayloadSymmetry == Permutations(Payload)
=============================================================================
