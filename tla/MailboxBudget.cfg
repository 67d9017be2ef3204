SPECIFICATION Spec
CONSTANTS
  c1 = c1  c2 = c2  b1 = b1  s1 = s1  s2 = s2  s3 = s3
  w1 = w1  reply = reply
  None = None
  Campaigns = {c1, c2}
  Mailboxes = {b1}
  Senders = {s1,s2,s3}
  Monitors = {reply}
  Workers = {w1}
  Operations = {"pauseCampaign","stopCampaign","resumeCampaign","updateStatus","schedule","update","addSender","updateSender","pauseSender","resumeSender","stopSender","updateMailbox"}
  Running = {c1}
  FirstSenders <- SharedMailbox
  Limits = {1}
  Quotas = {1}
  Batch = 1
  Ahead = 1
  MaxNow = 2
  MaxSends = 2
  MaxEvents = 2
INVARIANTS TypeOK MailboxLimitKept BatchKept NeverOvercharged
