------------------------- MODULE MCScenarioPackage --------------------------
EXTENDS ContractCampaign

AllFamilies == {"S1", "S2", "S3", "S4", "S5", "S6", "S7"}

=============================================================================
