SPECIFICATION FairSpec
CONSTANTS
  m1 = m1
  m2 = m2
  Tui = FALSE
  AutoConfirm = TRUE
  Burst = TRUE
  AutoApprove = FALSE
  IdleSilence = 2
  ExecTimeout = 7
  InterruptGrace = 3
  PollInterval = 2
  HardTimeout = 11
  Gated = TRUE
  MarkerlessGrace <- Unset
  NumCmds = 2
  PromptTokens <- DollarPrompt
  Lines <- SomeLines
  Questions <- Asking
  Screens <- NoLine
  Menus <- NoText
  MenuWindow = 3
  Needles = {m1, m2}
  NeedleOf <- Reused
  Redraws = TRUE
  SameLine = FALSE
  MaxTyping = 2
  Overrun = 1
  MaxHits = 2
  MaxLines = 2
  MaxPrompts = 2
INVARIANT NoStaleCompletion
INVARIANT WaitBounded
INVARIANT EachPromptAnswered
PROPERTY KillIsDue
PROPERTY AnsweredOnce
PROPERTY CallReturns
CHECK_DEADLOCK FALSE
