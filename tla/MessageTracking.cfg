SPECIFICATION FairSpec
CONSTANTS
  m1 = m1  m2 = m2  r1 = r1  e1 = e1  x1 = x1
  w1 = w1  w2 = w2  reply = reply  bounce = bounce  boot = boot
  None = None
  Messages = {m1}
  Recipients = {r1}
  Emails = {e1}
  RecipientOf <- SoleRecipient
  EmailOf <- SoleAddress
  SentAt <- InSequence
  Readers = {x1}
  Workers = {w1, w2}
  Reply = reply
  Bounce = bounce
  Boot = boot
  MaxEvents = 3
  MaxEpochs = 1
INVARIANTS TypeOK RepeatsCountOnce UnsubscribeTakesHold
PROPERTY FalseBouncesHeal
