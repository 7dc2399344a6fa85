--------------------------- MODULE MCConversations ---------------------------
EXTENDS Conversations, TLC
CONSTANTS t1, h1, h2, w1, w2

\* Nothing tells webhooks or workers apart, and no property is about liveness.
Alike == Permutations({h1, h2}) \cup Permutations({w1, w2})

\* A message with an id, one without id and time from another spelling of the
\* same number, and one of somebody unknown that is longer than a prompt: it
\* leaves no room for what is before it.
MCMessages == {
  [thread |-> t1, from |-> "plus", id |-> 1, sentAt |-> 1, size |-> 1],
  [thread |-> t1, from |-> "spaces", id |-> 0, sentAt |-> 0, size |-> 1],
  [thread |-> t1, from |-> "nobody", id |-> 2, sentAt |-> 2, size |-> 4]}
MCIdentity == [s \in {"plus", "spaces", "nobody"} |-> IF s = "nobody" THEN "unknown" ELSE "plus"]
=============================================================================
