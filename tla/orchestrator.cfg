SPECIFICATION OrchFairSpec
CONSTANTS
  m1 = m1
  m2 = m2
  Tui = TRUE
  AutoConfirm = FALSE
  Burst = TRUE
  AutoApprove = FALSE
  IdleSilence = 2
  ExecTimeout = 9
  InterruptGrace = 3
  PollInterval = 2
  HardTimeout = 16
  Gated = TRUE
  MarkerlessGrace = 4
  NumCmds = 2
  PromptTokens <- NoText
  Lines <- NoLine
  Questions <- NoText
  Screens <- NoLine
  Menus <- NoText
  MenuWindow = 3
  Needles = {m1, m2}
  NeedleOf <- Fresh
  Redraws = FALSE
  SameLine = FALSE
  MaxTyping = 0
  Overrun = 1
  MaxHits = 1
  MaxLines = 0
  MaxPrompts = 0
  Structural = TRUE
  ExplicitGrace <- Unset
  GraceFloor = 5
  ResultFile = TRUE
  Transcripts = TRUE
  TargetCodes = {0, 3}
  LateFile = FALSE
  RemovalFails = TRUE
INVARIANT ReplyIsLastCommands
INVARIANT TransientMeansLost
INVARIANT KilledIsReported
PROPERTY RunEnds
CHECK_DEADLOCK FALSE
