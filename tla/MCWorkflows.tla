----------------------------- MODULE MCWorkflows ------------------------------
(* A small instance of each handler.                                        *)
EXTENDS Workflows

CONSTANTS a, b

TwoRepos == <<a, b>>

\* What the plugin's callers ask for: everything (FullReviewProjection), the
\* dashboard's parts, the task badge's, and the count with the threads.
Asked ==
  {{"diff", "files", "commits", "threads", "statuses", "viewer"},
   {"files", "threads", "statuses", "viewer"},
   {"statuses"}, {"threads", "thread_count"}}
=============================================================================
