SPECIFICATION FairSpec
CONSTANTS
  Sources = {s1}
  MaxEvents = 2
  MaxChannels = 3
  MaxFails = 1
  HAChoices = {TRUE, FALSE}
  ShortOutages = TRUE
CHECK_DEADLOCK FALSE
PROPERTY ForgottenWasConfirmed
PROPERTY AllHandled
PROPERTY SourcesForgotten
PROPERTY DeliversOnce
