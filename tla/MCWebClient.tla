----------------------------- MODULE MCWebClient -----------------------------
\* Bounds for WebClient.
EXTENDS WebClient
=============================================================================
