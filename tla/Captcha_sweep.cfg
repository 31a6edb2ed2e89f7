CONSTANTS
  Challenges = {c1, c2}
  NoChallenge = NoChallenge
  Joins = {j1, j2}
  Taps = {t1}
  Sweeper = Sweeper
SPECIFICATION Spec
PROPERTY SweepKicksUnanswered
