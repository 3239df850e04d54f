--------------------------- MODULE MCProvisioning ---------------------------
EXTENDS Provisioning
==============================================================================
