-------------------------- MODULE MCActivePipeline --------------------------
(* Source sets and container outcomes for the runs of ActivePipeline.      *)
EXTENDS ActivePipeline

\* The chain alone, for the runs with the most faults.
ChainOnly == PipelineSources \union ChainSources

\* One leaf task beside the chain: dns stands for the three leaf sources, which
\* have the same script and nothing after them.
WithLeaf == ChainOnly \union {"dns"}

Run(nmap, http, tls, fingerprint) ==
  [s \in PipelineSources |-> CASE s = "nmap"          -> nmap
                               [] s = "http_security" -> http
                               [] s = "tls"           -> tls
                               [] s = "fingerprint"   -> fingerprint]

\* Every result occurs, and each downstream source once with and once without jobs.
SomeRuns == {Run("completed", "completed", "completed", "completed"),
             Run("partial", "completed", "failed", "partial"),
             Run("completed", "skipped", "skipped", "skipped"),
             Run("failed", "skipped", "skipped", "skipped")}

\* Two of them, for the run with three faults.
FewRuns == {Run("partial", "completed", "failed", "skipped"),
            Run("failed", "skipped", "skipped", "skipped")}
=============================================================================
