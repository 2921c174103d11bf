------------------------------- MODULE MCExt4 -------------------------------
EXTENDS Ext4
MCTarget == {<<"g", "f">>}
=============================================================================
