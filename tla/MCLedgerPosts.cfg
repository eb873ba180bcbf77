SPECIFICATION Spec
CONSTANTS
  ann = ann
  bob = bob
  cat = cat
  Addr = {ann, bob, cat}
  Names = {name}
  None = None
  PostFeePercent = 25
  BoostBurnPercent = 25
  BoostAuthorPercent = 25
  BoostStakerPercent = 25
  MinPostCommitment = 4
  MinBoostCommitment = 4
  MinStake = 2
  BlockReward = 3
  EpochLength = 0
  UnbondingPeriod = 1
  SlashFraction = 50
  GenesisBalance <- MCBalance
  GenesisStake <- MCStake
  MaxHeight = 2
  MaxNonce = 2
  TransferAmounts = {4}
  CommitAmounts = {4, 8}
  StakeAmounts = {}
  EvidenceHeights = {}
INVARIANTS TypeOK NoInflation StakesAgree WithdrawnIsEmpty NamesAgree RepliesAreFlat
PROPERTIES DustIsBounded PostsArePermanent
