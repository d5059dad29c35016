------------------------------ MODULE Mailbox ------------------------------
(***************************************************************************)
(* What the message service promises about direct messages (SPEC.txt 6, 10 *)
(* and 16), whatever else goes on: a sender's client_message_id names one  *)
(* message for ever, an accepted message never changes or disappears, and  *)
(* it is opened at most once, on a date that stays.  Nothing is said of    *)
(* transactions, clocks, policies, budgets, retries or who opens a message *)
(* when two readers try; Messaging.tla has these and implements it.        *)
(***************************************************************************)
EXTENDS Integers

CONSTANTS Agents, Keys, Contents

VARIABLE box    \* the accepted messages

\* A message as it is accepted; opened is the date its recipient first reads it.
New(from, to, key, content) ==
  [from |-> from, to |-> to, key |-> key, content |-> content, opened |-> 0]

Init == box = {}

Accept ==
  \E from, to \in Agents, key \in Keys, content \in Contents :
    /\ from # to
    /\ \A m \in box : <<m.from, m.key>> # <<from, key>>
    /\ box' = box \cup {New(from, to, key, content)}

Open ==
  \E m \in box, n \in box' :
    /\ m.opened = 0
    /\ n.opened \in Nat \ {0}
    /\ n = [m EXCEPT !.opened = n.opened]
    /\ box' = (box \ {m}) \cup {n}

Next == Accept \/ Open

Spec == Init /\ [][Next]_box
=============================================================================
