CONSTANTS
  p1 = p1
  p2 = p2
  embed = embed
  plan = plan
  sum1 = sum1
  sum2 = sum2
  chat = chat
  digest = digest
  Jobs = {chat, digest}
  Workers = {embed, plan, sum1, sum2}
  Queues = {"ai-jobs", "summary-jobs"}
  Names = {"conversation.embed", "task.plan", "conversation.summarize"}
  Pods = {p1, p2}
  SentTo <- MCSentTo
  NameOf <- MCNameOf
  Consumes <- MCConsumes
  Handles <- MCHandles
  PodOf <- MCPodOf
  MaxAttempts = 3
  MaxStalled = 1
  MaxFaults = 3
  NONE = NONE
SPECIFICATION FairSpec
INVARIANTS DedicatedQueueDoesTheWork RerunsAreAccountedFor
PROPERTIES EveryJobEnds
