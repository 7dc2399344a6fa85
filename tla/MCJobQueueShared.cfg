CONSTANTS
  p1 = p1
  p2 = p2
  embed = embed
  plan = plan
  sum1 = sum1
  sum2 = sum2
  chat = chat
  digest = digest
  Jobs = {chat}
  Workers = {embed, plan}
  Queues = {"ai-jobs", "summary-jobs"}
  Names = {"conversation.embed", "task.plan", "conversation.summarize"}
  Pods = {p1, p2}
  SentTo <- SharedSentTo
  NameOf <- SharedNameOf
  Consumes <- SharedConsumes
  Handles <- SharedHandles
  PodOf <- SharedPodOf
  MaxAttempts = 3
  MaxStalled = 1
  MaxFaults = 0
  NONE = NONE
SPECIFICATION QueueSpec
INVARIANTS CompletedMeansDone
