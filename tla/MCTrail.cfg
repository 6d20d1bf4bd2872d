SPECIFICATION Spec
CONSTANTS
  None = None
  Unreadable = Unreadable
  NoId = NoId
  Hook = Hook
  Threads = {Hook, t1}
  Events = {e1}
  Contents <- WebhookContents
  Forgeries <- OneForgery
  MaxRestarts = 1
  MaxRows = 3
  MaxTampers = 1
CHECK_DEADLOCK FALSE
INVARIANTS TypeOK UntamperedVerifies TipPinsHistory TipCoversReport DamageLocated RecordedOnce AcknowledgedMeansRecorded ReplayedMeansReceived
