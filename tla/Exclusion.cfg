SPECIFICATION Spec
CONSTANTS
  c1 = c1  c2 = c2  r1 = r1  r2 = r2  r3 = r3  e1 = e1  e2 = e2
  m1 = m1  m2 = m2  m3 = m3  m4 = m4  m5 = m5  m6 = m6  w1 = w1  w2 = w2
  None = None
  Campaigns = {c1, c2}
  Recipients = {r1, r2}
  Emails = {e1}
  CampaignOf <- TwoCampaigns
  EmailOf <- SharedAddress
  MaxSteps = 1
  MaxRevisions = 0
  MessageIds = {m1, m2, m3}
  Workers = {w1, w2}
  Launched = {c1, c2}
  Operations = {"excludeRecipientGlobally", "excludeEmail", "removeExclusion", "recordUnsubscribe", "addRecipient"}
  MaxRequests = 3
  MaxCrashes = 0
  MaxFaults = 0
INVARIANTS ExclusionTakesHold
PROPERTIES PromiseKept
