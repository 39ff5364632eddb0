SPECIFICATION Spec
CONSTANTS
  MinN = 1
  MaxN = 3
  UpStreak = 2
  DownStreak = 3
  Cooldown = 3
INVARIANT NeverScaleBlind
