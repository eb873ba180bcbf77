SPECIFICATION Spec
CONSTANTS
  ann = ann
  bob = bob
  Addr = {ann, bob}
  Names = {}
  None = None
  PostFeePercent = 0
  BoostBurnPercent = 0
  BoostAuthorPercent = 0
  BoostStakerPercent = 0
  MinPostCommitment = 4
  MinBoostCommitment = 4
  MinStake = 2
  BlockReward = 0
  EpochLength = 3
  UnbondingPeriod = 3
  SlashFraction = 60
  GenesisBalance <- MCBalance
  GenesisStake <- MCStake
  MaxHeight = 5
  MaxNonce = 2
  TransferAmounts = {}
  CommitAmounts = {}
  StakeAmounts = {1, 2}
  EvidenceHeights = {1, 2}
INVARIANTS TypeOK NoInflation UnbondingOnTime PowerIsBacked NoStakeBelowMinimum
PROPERTY KeysStay
