----------------------------- MODULE MCIngestion -----------------------------
EXTENDS Ingestion
==============================================================================
