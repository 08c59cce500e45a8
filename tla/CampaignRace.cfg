\* Two requests at a time on one campaign, with readers meanwhile.
SPECIFICATION FairSpec
CONSTANTS
    Job = {j1, j2}
    CampaignId = {c1}
    Body = {b1}
    MaxRecipients = 1
    MaxMails = 2
    MaxHits = 1
    None = None
INVARIANTS
    TypeOK
    CountersNotInflated
    ClaimsWereMailed
PROPERTIES
    SentOnceTried
    SendCompletes
