------------------------------ MODULE Validation ------------------------------
(***************************************************************************)
(* The protocol rules a transaction must satisfy in a world state s        *)
(* (internal/validation/validate.go).  A transaction is a record with the  *)
(* fields of types.Transaction that the rules read.  Signatures are valid  *)
(* and post text, channel and name pass their lexical checks: Names and    *)
(* the transactions of the model range over well-formed ones only.         *)
(***************************************************************************)
EXTENDS WorldState

\* validateCommonNoBalanceCheck.
ValidCommonNoBalance(s, tx) ==
  /\ tx.sender \in s.accounts
  /\ tx.nonce = s.nonce[tx.sender] + 1

\* Mistake: the balance is not checked.
ValidCommonUnfunded(s, tx) == ValidCommonNoBalance(s, tx)

\* validateCommon.
ValidCommon(s, tx) ==
  /\ ValidCommonNoBalance(s, tx)
  /\ s.balance[tx.sender] >= tx.amount

\* validateTransfer.
ValidTransfer(s, tx) ==
  /\ tx.amount # 0
  /\ tx.sender # tx.recipient
  /\ ValidCommon(s, tx)

\* Mistake: a reply may itself be replied to.
ValidCreatePostNested(s, tx) ==
  /\ tx.amount >= MinPostCommitment
  /\ tx.post # None => tx.post \in DOMAIN s.posts
  /\ ValidCommon(s, tx)

\* validateCreatePost: tx.post is the parent, None for a top-level post.  A
\* parent may be withdrawn, but it may not be a reply.
ValidCreatePost(s, tx) ==
  /\ tx.amount >= MinPostCommitment
  /\ tx.post # None => /\ tx.post \in DOMAIN s.posts
                       /\ s.posts[tx.post].parent = None
  /\ ValidCommon(s, tx)

\* Mistake: a withdrawn post can be boosted.
ValidBoostWithdrawn(s, tx) ==
  /\ tx.amount >= MinBoostCommitment
  /\ tx.post \in DOMAIN s.posts
  /\ ValidCommon(s, tx)

\* validateBoostPost.
ValidBoostPost(s, tx) ==
  /\ tx.amount >= MinBoostCommitment
  /\ tx.post \in DOMAIN s.posts
  /\ ~ s.posts[tx.post].withdrawn
  /\ ValidCommon(s, tx)

\* validateUnstakePost.
ValidUnstakePost(s, tx) ==
  /\ ValidCommonNoBalance(s, tx)
  /\ <<tx.post, tx.sender>> \in DOMAIN s.stakes
  /\ tx.post \in DOMAIN s.posts

\* Mistake: the name index is not consulted.
ValidRegisterTaken(s, tx) ==
  /\ tx.amount = 0
  /\ ValidCommon(s, tx)
  /\ s.name[tx.sender] = None

\* validateRegisterName.
ValidRegisterName(s, tx) ==
  /\ tx.amount = 0
  /\ ValidCommon(s, tx)
  /\ s.name[tx.sender] = None
  /\ s.nameIndex[tx.name] = None

\* validateStake.
ValidStake(s, tx) ==
  /\ tx.amount # 0
  /\ ValidCommon(s, tx)
  /\ s.staked[tx.sender] = 0 => tx.amount >= MinStake

\* Mistake: more than the stake can be unstaked.
ValidUnstakeUncovered(s, tx) ==
  /\ tx.amount # 0
  /\ ValidCommonNoBalance(s, tx)

\* Mistake: a stake below the minimum may remain.
ValidUnstakeToDust(s, tx) ==
  /\ tx.amount # 0
  /\ ValidCommonNoBalance(s, tx)
  /\ s.staked[tx.sender] >= tx.amount

\* validateUnstake.
ValidUnstake(s, tx) ==
  /\ tx.amount # 0
  /\ ValidCommonNoBalance(s, tx)
  /\ s.staked[tx.sender] >= tx.amount
  /\ LET remaining == s.staked[tx.sender] - tx.amount
     IN  remaining > 0 => remaining >= MinStake
===============================================================================
