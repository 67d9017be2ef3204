SPECIFICATION Spec
CONSTANTS
  c1 = c1  c2 = c2  b1 = b1  s1 = s1  s2 = s2  s3 = s3
  w1 = w1  reply = reply
  None = None
  Campaigns = {c1, c2}
  Mailboxes = {b1}
  Senders = {s1, s2}
  Monitors = {reply}
  Workers = {w1}
  Operations = {"pauseCampaign", "schedule"}
  Running = {c1}
  FirstSenders <- SharedMailbox
  Limits = {1}
  Quotas = {}
  Batch = 1
  Ahead = 1
  MaxNow = 0
  MaxSends = 2
  MaxEvents = 2
INVARIANT OneCampaignPerMailbox
