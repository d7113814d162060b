---------------------------- MODULE MCMessaging ----------------------------
(***************************************************************************)
(* Small instances of Messaging.                                           *)
(***************************************************************************)
EXTENDS Messaging

\* Payloads of which two fit in the queue, if not after the large one.
Sizes == [c \in Ids |-> IF c = 3 THEN 5 ELSE 1]

\* Messages of every kind for the mailbox, a message with a monitor, and a monitor
\* with another operation.
Mix(a, b, c) == [i \in Ids |-> CASE i = 1 -> a [] i = 2 -> b [] OTHER -> c]
Mixes == {Mix("call", "cast", "cast"), Mix("request", "monitor", "none"),
          Mix("monitor", "op", "none")}
=============================================================================
