--------------------------- MODULE MCMessaging ---------------------------
(***************************************************************************)
(* Small instances of Messaging for TLC.                                   *)
(***************************************************************************)
EXTENDS Messaging

CONSTANTS a, b, c, g, o1, o2, k1, k2, t1

\* a alone in its organization.
TwoOrgs == [u \in Agents |-> IF u = a THEN o1 ELSE o2]

\* a has a budget of one message an hour.
BudgetOfA == [u \in Agents |-> IF u = a THEN 1 ELSE NoLimit]

NoBudget == [u \in Agents |-> NoLimit]

\* a and b write to each other, and a to the group.
SomeRequests ==
  {<<a, b, k1, t1>>, <<b, a, k1, t1>>, <<b, a, k2, t1>>, <<a, g, k1, t1>>}

SomeCommands == {<<"outgoing", o1>>, <<"inactive", b>>, <<"inactive", o2>>}

SomeViews ==
  {<<"get_org_conversation", b, 1>>, <<"get_messages", a, "unread">>,
   <<"get_group_messages", a, g>>, <<"get_notifications", a, "all">>}

\* A human of b's organization lists its conversations.
OrgRequests == {<<a, b, k1, t1>>, <<a, c, k2, t1>>, <<b, a, k1, t1>>}
OrgViews  == {<<"list_org_conversations", b, "all">>}
=============================================================================
