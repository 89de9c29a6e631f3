SPECIFICATION FairSpec
CONSTANTS
  Requests = {"a", "b"}
  Prompt <- MCPrompt
  Fixed <- MCFixed
  Addresses = {p, q}
  Slots = 1
  States <- MCStates
  MaxChanges = 1
  Absent = Absent
INVARIANTS RestoresOwnPrefix ReadersHeld
PROPERTY HeadGetsOn
