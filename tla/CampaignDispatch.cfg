SPECIFICATION FairSpec
CONSTANTS
  c1 = c1
  r1 = r1
  r2 = r2
  r3 = r3
  w1 = w1
  w2 = w2
  Campaigns = {c1}
  Recipients = {r1, r2, r3}
  CampaignOf <- OneCampaign
  ValidPhone <- AllButR2
  Workers = {w1, w2}
  NoCampaign = NoCampaign
  NoRecipient = NoRecipient
  MaxFaults = 1
  MaxDeletes = 1
INVARIANTS TypeOK AtMostOnce OneClaimPerCampaign CompletedIsDrained AtMostOneLateSend OrphansComeFromFaults
PROPERTIES CampaignNeverRevives ImplementsDelivery StartedCampaignEnds
