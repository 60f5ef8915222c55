----------------------------- MODULE MCCampaign -----------------------------
EXTENDS Campaign
=============================================================================
