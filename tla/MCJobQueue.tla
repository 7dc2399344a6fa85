----------------------------- MODULE MCJobQueue -----------------------------
(***************************************************************************)
(* ai-jobs with two of its processors, and summary-jobs with its only one  *)
(* in two pods.                                                            *)
(***************************************************************************)
EXTENDS JobQueue, TLC

CONSTANTS p1, p2, embed, plan, sum1, sum2, chat, digest

MCSentTo == (chat :> "ai-jobs") @@ (digest :> "summary-jobs")
MCNameOf == (chat :> "conversation.embed") @@ (digest :> "conversation.summarize")
MCConsumes ==
  (embed :> "ai-jobs") @@ (plan :> "ai-jobs") @@ (sum1 :> "summary-jobs") @@ (sum2 :> "summary-jobs")
MCHandles ==
  (embed :> "conversation.embed") @@ (plan :> "task.plan")
    @@ (sum1 :> "conversation.summarize") @@ (sum2 :> "conversation.summarize")
MCPodOf == (embed :> p1) @@ (plan :> p2) @@ (sum1 :> p1) @@ (sum2 :> p2)

\* The violation run: ai-jobs alone.
SharedSentTo == (chat :> "ai-jobs")
SharedNameOf == (chat :> "conversation.embed")
SharedConsumes == (embed :> "ai-jobs") @@ (plan :> "ai-jobs")
SharedHandles == (embed :> "conversation.embed") @@ (plan :> "task.plan")
SharedPodOf == (embed :> p1) @@ (plan :> p2)
=============================================================================
