\* Command lines of up to six words.
SPECIFICATION Spec
CONSTANTS
  Words <- TenWords
  Numbers <- TwoNumbers
  Dashed <- OneTypo
  MaxArgs = 6
INVARIANTS
  LastOptionWins
  ModeIsRunnable
