SPECIFICATION Spec
CONSTANTS
  big = big
  small = small
  Trees = {big, small}
  Keys <- MCKeys
  Cmp <- MCCmp
  Sentinel = Sentinel
  Null = Null
INVARIANTS SentinelKept FindsAll FixupKeepsBalance
