SPECIFICATION MCFairSpec
CONSTANTS
  Machine = {1, 2}
  Lan = {1, 2}
  Subnet <- TheSubnet
  Carries <- FirstMulticast
  Typed <- OneTypes
  MaxChanges = 2
  MaxFaults = 1
INVARIANTS TypeOK
PROPERTIES FoundAgainAndAgain OneAddressIntroducesBoth
