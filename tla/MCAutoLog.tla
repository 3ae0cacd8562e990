----------------------------- MODULE MCAutoLog -----------------------------
EXTENDS AutoLog

\* Messages shorter than a chunk, as long as one, and longer than the buffer's
\* rest.
Sizes == <<2, 4, 1, 5, 3, 1, 6, 3, 4>>
=============================================================================
