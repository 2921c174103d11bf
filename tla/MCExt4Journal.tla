--------------------------- MODULE MCExt4Journal ---------------------------
EXTENDS Ext4Journal
=============================================================================
