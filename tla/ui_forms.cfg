SPECIFICATION FairSpec
CONSTANTS
  None = None
  Unset = Unset
  Keys = {"k"}
  Trimmed <- SomeTrimmed
  Entries <- SomeEntries
  Records <- SomeRecords
  Requests = {q1, q2}
  MaxEdits = 2
  MaxFaults = 1
INVARIANT SavedAsTyped
INVARIANT UntouchedSaveKeeps
INVARIANT SentAsHeld
INVARIANT WarnsAlike
PROPERTY ClosesOnlyWhenDone
PROPERTY SubmitsEnd
