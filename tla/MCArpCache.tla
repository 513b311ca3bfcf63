----------------------------- MODULE MCArpCache -----------------------------
EXTENDS ArpCache
=============================================================================
