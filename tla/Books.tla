-------------------------------- MODULE Books --------------------------------
(***************************************************************************)
(* The pure half of backend/internal/finance: what an entry is, when       *)
(* Entry.Validate accepts it, how Chain and VerifyChain tie entries        *)
(* together, what TrialBalance sums and which legs BuildClosingLines       *)
(* produces.  No state lives here; Ledger is the state machine.            *)
(*                                                                         *)
(* Abstractions.  The legs of an entry are a function from accounts to the *)
(* net debit (debit minus credit) it books there, so labels, positions and *)
(* several legs on one account are gone.  A chain hash is the history it   *)
(* commits to, a sequence of entry contents: collision freedom of SHA-256  *)
(* is built in.                                                            *)
(***************************************************************************)
EXTENDS Integers, Sequences, FiniteSetsExt

CONSTANTS
  Journals,    \* ferp_journals rows of the entity
  Refs,        \* entry references
  Dates,       \* days an entry can carry
  Accounts,    \* ferp_accounts rows of the entity
  AccountType, \* Account.Type: "asset", "revenue", "expense", ...
  Retained     \* the account CloseCmd.RetainedAccountID names

ASSUME AccountsAssumption ==
  /\ IsFiniteSet(Accounts)
  /\ AccountType \in [Accounts -> STRING]
  /\ Retained \in Accounts

Legs == [Accounts -> Int]

\* What Chain hashes of an entry: journal, ref, date and legs (not the memo).
Content == [journal : Journals, ref : Refs, date : Dates, legs : Legs]

Hash == Seq(Content)

\* A posted row of ferp_entries.
Entry == [content : Content, prev : Hash, hash : Hash]

LegSum(legs, accts) == MapThenSumSet(LAMBDA a : legs[a], accts)

\* Entry.Validate: at least two legs, debits equal credits, not a zero entry.
Valid(legs) ==
  /\ LegSum(legs, Accounts) = 0
  /\ \E a \in Accounts : legs[a] # 0

GenesisHash == << >>

\* Mutant: the lines are left out of the hashed payload.
ChainWithoutLegs(prev, content) ==
  Append(prev, [content EXCEPT !.legs = [a \in Accounts |-> 0]])

Chain(prev, content) == Append(prev, content)

\* VerifyChain: every link recomputed from genesis, in id order.
VerifyChain(ents) ==
  \A i \in 1 .. Len(ents) :
    /\ ents[i].prev = (IF i = 1 THEN GenesisHash ELSE ents[i - 1].hash)
    /\ ents[i].hash = Chain(ents[i].prev, ents[i].content)

\* TrialBalance: per account, the net of every posted entry of the entity.
TrialBalance(ents) ==
  [a \in Accounts |->
     MapThenSumSet(LAMBDA i : ents[i].content.legs[a], 1 .. Len(ents))]

(***************************************************************************)
(* BuildClosingLines.  Revenue accounts close by a debit of their credit   *)
(* balance and expense accounts by a credit of their debit balance; the    *)
(* balancing leg goes to the retained-earnings account.                    *)
(***************************************************************************)
ProfitAndLoss == {a \in Accounts : AccountType[a] \in {"revenue", "expense"}}

NonZero == Int \ {0}

ToClose(trial) == {a \in ProfitAndLoss : trial[a] \in NonZero}

\* Mutant: the loop that adds up the expenses forgets to subtract them.
IncomeOfRevenue(trial) ==
  - LegSum(trial, {a \in ToClose(trial) : AccountType[a] = "revenue"})

\* Net profit, the credit surplus of the accounts that close.
Income(trial) == - LegSum(trial, ToClose(trial))

\* A revenue account with a debit balance (or an expense account with a
\* credit balance) would close by a negative leg, which Entry.Validate refuses.
Abnormal(trial) ==
  \E a \in ToClose(trial) :
    IF AccountType[a] = "revenue" THEN trial[a] > 0 ELSE trial[a] < 0

CanClose(trial) ==
  /\ ToClose(trial) # {}
  /\ Income(trial) \in NonZero
  /\ ~ Abnormal(trial)

ClosingLegs(trial) ==
  [a \in Accounts |->
     (IF a \in ToClose(trial) THEN - trial[a] ELSE 0)
     - (IF a = Retained THEN Income(trial) ELSE 0)]
=============================================================================
