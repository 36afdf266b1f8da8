--------------------------- MODULE MCEmbeddingCache ---------------------------
EXTENDS EmbeddingCache

\* The warm-up and a request of one process.
OneProcess == {"p"}
TwoThreads == {"warmup", "request"}
SameHome == [t \in TwoThreads |-> "p"]

\* Two replicas, or two workers, that share the directory.
TwoProcesses == {"p", "q"}
OneEach == [t \in TwoThreads |-> IF t = "warmup" THEN "p" ELSE "q"]
\* A local model and a remote one.
TwoDimensions == [s \in {1, 2} |-> IF s = 1 THEN 384 ELSE 1536]
=============================================================================
