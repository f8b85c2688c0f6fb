\* Two failure events and a payment, two deliveries at once, two failed requests.
CONSTANTS
  paid = paid
  unpaid = unpaid
  unpaid2 = unpaid2
  other = other
  Events = {paid, unpaid, unpaid2}
  Deliveries = {d1, d2}
  Subs = {s1, s2}
  Kind <- Kinds
  MaxFaults = 2
  None = None
SPECIFICATION FairSpec
INVARIANTS TypeOK NothingSwallowed DunningNotified RenotifiedOnlyAfterFailure
PROPERTIES ImplementsLedger EventuallyAcked
