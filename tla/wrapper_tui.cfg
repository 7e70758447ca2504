SPECIFICATION FairSpec
CONSTANTS
  m1 = m1
  m2 = m2
  Tui = TRUE
  AutoConfirm = FALSE
  Burst = FALSE
  AutoApprove = TRUE
  IdleSilence = 2
  ExecTimeout = 9
  InterruptGrace = 3
  PollInterval = 2
  HardTimeout = 10
  Gated = TRUE
  MarkerlessGrace = 4
  NumCmds = 2
  PromptTokens <- NoText
  Lines <- NoLine
  Questions <- NoText
  Screens <- SomeScreens
  Menus <- MenuScreens
  MenuWindow = 3
  Needles = {m1, m2}
  NeedleOf <- Fresh
  Redraws = TRUE
  SameLine = FALSE
  MaxTyping = 2
  Overrun = 1
  MaxHits = 2
  MaxLines = 0
  MaxPrompts = 0
INVARIANT MarkerlessExact
INVARIANT ConfirmedOncePerWait
PROPERTY SilenceNeverTimesOut
CHECK_DEADLOCK FALSE
