\* Two messages, one item of an earlier release, two processes;
\* any rollback, down to nothing.
SPECIFICATION FairLifecycleSpec
CONSTANTS
  Messages = {m1, m2}
  OldMessages = {o1}
  MaxBoots = 2
INVARIANT LifecycleTypeOK
INVARIANT ServesMigrated
INVARIANT AcceptedSurvives
PROPERTY SentWithMessage
INVARIANT StopLaterFinishesWork
PROPERTY StopLaterReturns
PROPERTY StartedWorks
CHECK_DEADLOCK FALSE
