------------------------------ MODULE Treasury ------------------------------
(***************************************************************************)
(* The money of the citizens: wallets, transfers, escrows and disputes     *)
(* (src/src/economy, governance/disputeService.ts), proposals, bonds and   *)
(* votes (src/src/governance), the market, the payroll, the basic income,  *)
(* and the emergency stop and blacklist of audit/emergencyService.ts.      *)
(*                                                                         *)
(* A handler is synchronous and so one step, but what it writes outside of *)
(* a database transaction is written statement by statement: the process   *)
(* can die in between, which is a step of its own (Crash...).              *)
(***************************************************************************)
EXTENDS Integers, FiniteSets

CONSTANTS Citizens, Gov, Burn,    \* the holders of wallets; the last two are the state's
          Escrows, Proposals,     \* ids
          Amounts,                \* of transfers, escrows, prices and stakes
          Grant, Bond, Income, Share,
          Quorum,
          FeeOf, TaxOf,           \* of a transfer, by amount
          MarketOf, RoyaltyOf,    \* of a sale
          WeightOf,               \* of a vote, by stake
          Salary,                 \* of the officials
          SupplyShare,            \* a transfer of more than 1/SupplyShare stops the system
          Outsider,               \* an arbitrator who is no party
          Scenes,                 \* bound: the services that one behaviour uses together
          MaxGranted, MaxCrashes  \* bounds: money ever issued, crashes

All == Citizens \cup {Gov, Burn}

ASSUME HoldersAreFinite ==
  /\ IsFiniteSet(Citizens) /\ Gov \notin Citizens /\ Burn \notin Citizens /\ Gov # Burn
  /\ IsFiniteSet(Escrows) /\ IsFiniteSet(Proposals) /\ Outsider \notin All
ASSUME AmountsArePositive ==
  /\ Amounts \subseteq Nat \ {0}
  /\ Share \in Amounts
  /\ {Grant, Bond, Income, Quorum, SupplyShare, MaxGranted, MaxCrashes} \subseteq Nat
ASSUME RatesAreParts ==
  /\ FeeOf \in [Amounts -> Nat] /\ TaxOf \in [Amounts -> Nat]
  /\ MarketOf \in [Amounts -> Nat] /\ RoyaltyOf \in [Amounts -> Nat]
  /\ \A a \in Amounts : FeeOf[a] + TaxOf[a] <= a /\ MarketOf[a] + RoyaltyOf[a] <= a
  /\ WeightOf \in [Amounts \cup {0} -> Nat]
  /\ \E Paid \in SUBSET Citizens : Salary \in [Paid -> Amounts]

Officials == DOMAIN Salary

VARIABLES
  wallets,           \* addresses with a row in nova_wallets
  balance, locked,   \* its columns
  stake,             \* nova_stakes
  escrow,            \* nova_escrows
  dispute,           \* nova_disputes, by escrow and claimant
  reported,          \* nova_dispute_retaliation: reporter and target
  proposal,          \* nova_proposals
  voted,             \* nova_votes: proposal and voter
  art,               \* the work on sale: creator, owner, price (0: not for sale)
  stop, black,       \* an emergency stop in force; nova_blacklist
  recent,            \* sender and amount of the rows of the last minute, nova_transactions
  salaried, due,     \* officials paid this month; citizens whose income is due
  \* ---- history
  granted,           \* money issued
  vanished,          \* money that left a wallet and reached none
  stranded,          \* money locked for nothing, since a crash
  crashes,
  scene              \* the services this behaviour uses

ledger == <<wallets, balance, locked, stake>>
courts == <<escrow, dispute, reported>>
polls  == <<proposal, voted>>
guards == <<stop, black, recent>>
dole   == <<salaried, due>>
book   == <<granted, vanished, stranded, crashes>>
vars   == <<ledger, courts, polls, art, guards, dole, book, scene>>

Open == {"locked", "disputed"}
NoEscrow   == [status |-> "none", from |-> Gov, to |-> Gov, amount |-> 0, arbiter |-> Gov]
NoProposal == [status |-> "none", kind |-> "general", creator |-> Gov, bond |-> "none",
               for |-> 0, against |-> 0, abstain |-> 0, time |-> "before"]

Available(w) == balance[w] - locked[w]

\* The sum of a function over a finite set.
Sum(S, f) == Cardinality(UNION {{x} \X (1..f[x]) : x \in S})

\* getTotalSupply()
Supply == Sum(All, balance)

Init ==
  /\ wallets = {}
  /\ balance = [w \in All |-> 0] /\ locked = [w \in All |-> 0] /\ stake = [w \in All |-> 0]
  /\ escrow = [e \in Escrows |-> NoEscrow]
  /\ dispute = [e \in Escrows |-> [c \in Citizens |-> "none"]]
  /\ reported = {}
  /\ proposal = [p \in Proposals |-> NoProposal]
  /\ voted = {}
  /\ \E c \in Citizens : art = [creator |-> c, owner |-> c, price |-> 0]
  /\ stop = FALSE /\ black = [w \in All |-> "no"] /\ recent = {}
  /\ salaried = {} /\ due = Citizens
  /\ granted = 0 /\ vanished = 0 /\ stranded = [w \in All |-> 0] /\ crashes = 0
  /\ scene \in Scenes

-----------------------------------------------------------------------------
(* Wallets and transfers                                                   *)

Add(f, w, n) == [f EXCEPT ![w] = @ + n]

\* createWallet(): one wallet each, with a grant.
CreateWallet(c) ==
  /\ c \notin wallets /\ granted + Grant <= MaxGranted
  /\ wallets' = wallets \cup {c}
  /\ balance' = Add(balance, c, Grant)
  /\ granted' = granted + Grant
  /\ UNCHANGED <<locked, stake, courts, polls, art, guards, dole, vanished, stranded, crashes>>

Tax(f, a) == IF f = Gov THEN 0 ELSE TaxOf[a]

\* A transfer is recorded, and so is each part of its tax.
RowsOf(f, a) ==
  LET n == Tax(f, a) IN {<<f, a>>} \cup {<<f, k>> : k \in {n \div 2, n - n \div 2} \ {0}}

\* Mutant: both halves of a charge are rounded down.
ChargedHalves(b, n) == Add(Add(b, Gov, n \div 2), Burn, n \div 2)

\* Half of a charge is burned, the rest is the government's.
Charged(b, n) == Add(Add(b, Gov, n - n \div 2), Burn, n \div 2)

\* The wallets of the state are created when a tax is first paid.
WalletsAfter(n) == wallets \cup (IF n > 0 THEN {Burn, Gov} ELSE {})

\* triggerEmergencyStop(), where none is in force
Halt == stop' = TRUE /\ UNCHANGED <<ledger, black, recent, vanished>>

\* Mutant: a transfer looks at the balance, not at what is available of it.
SettlesUnlocked(f, t, a) ==
  /\ {f, t} \subseteq wallets /\ balance[f] >= a
  /\ balance' = Charged(Add(Add(balance, f, -a), t, a - FeeOf[a] - Tax(f, a)), Tax(f, a))
  /\ wallets' = WalletsAfter(Tax(f, a))
  /\ vanished' = vanished + FeeOf[a]
  /\ recent' = recent \cup RowsOf(f, a)
  /\ UNCHANGED <<locked, stake, stop, black>>

\* The transaction of sendNVC(): what the sender loses is the recipient's, but for
\* the tax and the fee, which is credited to nobody.
Settles(f, t, a) ==
  /\ {f, t} \subseteq wallets /\ Available(f) >= a
  /\ balance' = Charged(Add(Add(balance, f, -a), t, a - FeeOf[a] - Tax(f, a)), Tax(f, a))
  /\ wallets' = WalletsAfter(Tax(f, a))
  /\ vanished' = vanished + FeeOf[a]
  /\ recent' = recent \cup RowsOf(f, a)
  /\ UNCHANGED <<locked, stake, stop, black>>

Free(f) == ~stop /\ black[f] = "no"
Excessive(a) == Supply > 0 /\ a * SupplyShare > Supply
Repeats(f, a) == <<f, a>> \in recent

\* A payment that stops the system: too large a part of the supply ...
TooLarge(a) == Excessive(a) /\ Halt

\* ... or the amount of another row of the last minute, of a transfer, a tax or an
\* escrow, which also blacklists the sender.
DoubleSpend(f, a) ==
  /\ ~Excessive(a) /\ Repeats(f, a)
  /\ stop' = TRUE /\ black' = [black EXCEPT ![f] = "forever"]
  /\ UNCHANGED <<ledger, recent, vanished>>

\* sendNVC() without a nonce, as every caller but the registration of a domain has it.
Send(f, t, a) ==
  /\ f # t /\ Free(f)
  /\ \/ TooLarge(a) \/ DoubleSpend(f, a)
     \/ ~Excessive(a) /\ ~Repeats(f, a) /\ Settles(f, t, a)
  /\ UNCHANGED <<granted, stranded>>

\* POST /api/economy/transactions
Transfer(f, t, a) ==
  /\ Send(f, t, a)
  /\ UNCHANGED <<courts, polls, art, dole, crashes>>

\* evaluateAndPaySalary() of one official; evaluateAllSalaries() does it for all.
\* An official who missed the goal of the month is skipped.
PaySalary(o) ==
  /\ o \notin salaried
  /\ \/ /\ Send(Gov, o, Salary[o])
        /\ salaried' = IF stop' THEN salaried ELSE salaried \cup {o}
     \/ salaried' = salaried \cup {o} /\ UNCHANGED <<ledger, guards, granted, vanished, stranded>>
  /\ UNCHANGED <<courts, polls, art, due, crashes>>

\* The process dies between the payment and its row: the official is paid again.
CrashPaySalary(o) ==
  /\ crashes < MaxCrashes /\ crashes' = crashes + 1
  /\ o \notin salaried /\ Send(Gov, o, Salary[o])
  /\ UNCHANGED <<courts, polls, art, dole>>

\* publishLibraryItem(): the reward, whose failure is swallowed.
Reward(c) ==
  /\ Send(Gov, c, Share)
  /\ UNCHANGED <<courts, polls, art, dole, crashes>>

\* runUbiPayment(): one transaction for everybody who is due; a citizen without a
\* wallet who is to get something makes it fail for all.
PayIncome ==
  /\ due # {}
  /\ \E paid \in SUBSET due :
       /\ paid \subseteq wallets
       /\ granted + Income * Cardinality(paid) <= MaxGranted
       /\ balance' = [w \in All |-> IF w \in paid THEN balance[w] + Income ELSE balance[w]]
       /\ granted' = granted + Income * Cardinality(paid)
  /\ due' = {}
  /\ UNCHANGED <<wallets, locked, stake, courts, polls, art, guards, salaried, vanished,
                 stranded, crashes>>

\* POST /api/nova/memory/:memoryId/share: a new coin or five.
ShareMemory(c) ==
  /\ c \in wallets /\ granted + Share <= MaxGranted
  /\ balance' = Add(balance, c, Share)
  /\ granted' = granted + Share
  /\ UNCHANGED <<wallets, locked, stake, courts, polls, art, guards, dole, vanished,
                 stranded, crashes>>

-----------------------------------------------------------------------------
(* Escrows and disputes                                                    *)

\* createEscrow(); what an escrow moves, or locks, or gives back, is a row too.
CreateEscrow(e, f, t, a) ==
  /\ escrow[e].status = "none" /\ f # t
  /\ {f, t} \subseteq wallets /\ Available(f) >= a
  /\ locked' = Add(locked, f, a)
  /\ escrow' = [escrow EXCEPT ![e] = [status |-> "locked", from |-> f, to |-> t,
                                     amount |-> a, arbiter |-> Gov]]
  /\ recent' = recent \cup {<<f, a>>}
  /\ UNCHANGED <<wallets, balance, stake, dispute, reported, polls, art, stop, black, dole, book>>

\* Mutant: the lock of a released escrow is kept.
ReleaseKeepsLock(e, by) ==
  /\ escrow[e].status \in Open
  /\ by = escrow[e].from \/ by = escrow[e].arbiter
  /\ balance' = Add(Add(balance, escrow[e].from, -escrow[e].amount),
                    escrow[e].to, escrow[e].amount)
  /\ escrow' = [escrow EXCEPT ![e].status = "released"]
  /\ recent' = recent \cup {<<escrow[e].from, escrow[e].amount>>}
  /\ UNCHANGED <<wallets, locked, stake, dispute, reported, polls, art, stop, black, dole, book>>

\* releaseEscrow(), by the sender or the arbitrator
Release(e, by) ==
  /\ escrow[e].status \in Open
  /\ by = escrow[e].from \/ by = escrow[e].arbiter
  /\ locked' = Add(locked, escrow[e].from, -escrow[e].amount)
  /\ balance' = Add(Add(balance, escrow[e].from, -escrow[e].amount),
                    escrow[e].to, escrow[e].amount)
  /\ escrow' = [escrow EXCEPT ![e].status = "released"]
  /\ recent' = recent \cup {<<escrow[e].from, escrow[e].amount>>}
  /\ UNCHANGED <<wallets, stake, dispute, reported, polls, art, stop, black, dole, book>>

\* refundEscrow(), by the recipient or the arbitrator
MayRefund(e, by) ==
  /\ escrow[e].status \in Open
  /\ by = escrow[e].to \/ by = escrow[e].arbiter

Refunded(e) ==
  /\ locked' = Add(locked, escrow[e].from, -escrow[e].amount)
  /\ escrow' = [escrow EXCEPT ![e].status = "refunded"]
  /\ recent' = recent \cup {<<escrow[e].to, escrow[e].amount>>}

Refund(e, by) ==
  /\ MayRefund(e, by) /\ Refunded(e)
  /\ UNCHANGED <<wallets, balance, stake, dispute, reported, polls, art, stop, black, dole, book>>

Other(e, c) == IF c = escrow[e].from THEN escrow[e].to ELSE escrow[e].from

\* createDispute(): nobody reports the same citizen twice within a year.
Reports(e, c) ==
  /\ escrow[e].status = "locked" /\ c \in {escrow[e].from, escrow[e].to}
  /\ <<c, Other(e, c)>> \notin reported
  /\ dispute' = [dispute EXCEPT ![e][c] = "open"]
  /\ reported' = reported \cup {<<c, Other(e, c)>>}

\* disputeEscrow(); the claimant may name the arbitrator.
Dispute(e, c) ==
  /\ Reports(e, c)
  /\ \E arb \in Citizens \cup {Outsider} :
       escrow' = [escrow EXCEPT ![e].status = "disputed", ![e].arbiter = arb]
  /\ UNCHANGED <<ledger, polls, art, guards, dole, book>>

\* The process dies between the dispute and the update of the escrow.
CrashDispute(e, c) ==
  /\ crashes < MaxCrashes /\ crashes' = crashes + 1
  /\ Reports(e, c)
  /\ UNCHANGED <<ledger, escrow, polls, art, guards, dole, granted, vanished, stranded>>

\* checkDisputeTimeouts(): a dispute that is not settled in time fails, and the escrow
\* is refunded on behalf of the defendant, where the defendant may do so.
FailDispute(e, c) ==
  /\ dispute[e][c] = "open"
  /\ dispute' = [dispute EXCEPT ![e][c] = "failed"]
  /\ IF MayRefund(e, Other(e, c)) THEN Refunded(e) ELSE UNCHANGED <<locked, escrow, recent>>
  /\ UNCHANGED <<wallets, balance, stake, reported, polls, art, stop, black, dole, book>>

-----------------------------------------------------------------------------
(* Proposals and votes                                                     *)

\* createProposal(): the bond is locked ...
LocksBond(c) ==
  /\ c \in wallets /\ Available(c) >= Bond
  /\ locked' = Add(locked, c, Bond)

\* ... and the proposal is inserted.
Propose(p, c) ==
  /\ proposal[p].status = "none" /\ LocksBond(c)
  /\ \E k \in {"general", "constitutional"} :
       proposal' = [proposal EXCEPT ![p] = [NoProposal EXCEPT !.status = "active",
                      !.kind = k, !.creator = c, !.bond = "locked"]]
  /\ UNCHANGED <<wallets, balance, stake, voted, courts, art, guards, dole, book>>

\* The process dies between the two.
CrashPropose(c) ==
  /\ crashes < MaxCrashes /\ crashes' = crashes + 1
  /\ LocksBond(c)
  /\ stranded' = Add(stranded, c, Bond)
  /\ UNCHANGED <<wallets, balance, stake, courts, polls, art, guards, dole, granted, vanished>>

\* The last second of the poll comes, and goes; in it, a vote and the count are both
\* allowed.
PollTime(p) ==
  /\ proposal[p].status # "none" /\ proposal[p].time # "after"
  /\ proposal' = [proposal EXCEPT ![p].time = IF @ = "before" THEN "end" ELSE "after"]
  /\ UNCHANGED <<ledger, courts, voted, art, guards, dole, book>>

MayVote(p, c) ==
  /\ proposal[p].status = "active" /\ proposal[p].time # "after"
  /\ <<p, c>> \notin voted

\* The stake of a vote is locked and recorded; nothing ever unlocks it.
Stakes(c, n) ==
  /\ n > 0 => c \in wallets /\ Available(c) >= n
  /\ locked' = Add(locked, c, n)

\* castVote(); the weight is the root of the stake, capped by the supply.
Vote(p, c, n) ==
  /\ MayVote(p, c) /\ Stakes(c, n)
  /\ stake' = Add(stake, c, n)
  /\ voted' = voted \cup {<<p, c>>}
  /\ \E weight \in 0..WeightOf[n] :
       /\ n = 0 => weight = WeightOf[n]
       /\ \E side \in {"for", "against", "abstain"} :
            proposal' = [proposal EXCEPT ![p][side] = @ + weight]
  /\ UNCHANGED <<wallets, balance, courts, art, guards, dole, book>>

\* The process dies before the stake is recorded, or before the vote is.
CrashVote(p, c, n) ==
  /\ crashes < MaxCrashes /\ crashes' = crashes + 1
  /\ MayVote(p, c) /\ n > 0 /\ Stakes(c, n)
  /\ \/ stranded' = Add(stranded, c, n) /\ UNCHANGED stake
     \/ stake' = Add(stake, c, n) /\ UNCHANGED stranded
  /\ UNCHANGED <<wallets, balance, courts, polls, art, guards, dole, granted, vanished>>

\* More than half, or two thirds, of those who took sides, and a quorum.
Passes(q) ==
  /\ q.for + q.against + q.abstain >= Quorum
  /\ IF q.kind = "constitutional" THEN 3 * q.for > 2 * (q.for + q.against)
                                  ELSE 2 * q.for > q.for + q.against

Verdict(q) == IF Passes(q) THEN "passed" ELSE "rejected"

MayFinalize(p) == proposal[p].status = "active" /\ proposal[p].time # "before"

\* The bond of a passed proposal is unlocked, of a rejected one burned; without a
\* wallet to burn it in it is gone.
ReturnBond(c) == locked' = Add(locked, c, -Bond) /\ UNCHANGED <<balance, vanished>>
TakeBond(c, burned) ==
  /\ locked' = Add(locked, c, -Bond)
  /\ balance' = IF burned THEN Add(Add(balance, c, -Bond), Burn, Bond)
                ELSE Add(balance, c, -Bond)
  /\ vanished' = IF burned THEN vanished ELSE vanished + Bond

\* finalizeProposal()
Finalize(p) ==
  LET q == proposal[p]
  IN /\ MayFinalize(p)
     /\ IF Passes(q) THEN ReturnBond(q.creator) ELSE TakeBond(q.creator, Burn \in wallets)
     /\ proposal' = [proposal EXCEPT ![p].status = Verdict(q),
                       ![p].bond = IF Passes(q) THEN "refunded" ELSE "burned"]
     /\ UNCHANGED <<wallets, stake, voted, courts, art, guards, dole, granted, stranded, crashes>>

\* The process dies after the verdict, after the creator's part, or before the bond is
\* marked; a decided proposal is never finalized again.
CrashFinalize(p) ==
  LET q == proposal[p]
  IN /\ crashes < MaxCrashes /\ crashes' = crashes + 1
     /\ MayFinalize(p)
     /\ \/ /\ stranded' = Add(stranded, q.creator, Bond)
           /\ UNCHANGED <<locked, balance, vanished>>
        \/ /\ IF Passes(q) THEN ReturnBond(q.creator)
              ELSE \E burned \in {FALSE, (Burn \in wallets)} : TakeBond(q.creator, burned)
           /\ UNCHANGED stranded
     /\ proposal' = [proposal EXCEPT ![p].status = Verdict(q)]
     /\ UNCHANGED <<wallets, stake, voted, courts, art, guards, dole, granted>>

\* executeProposal()
Execute(p) ==
  /\ proposal[p].status = "passed"
  /\ proposal' = [proposal EXCEPT ![p].status = "executed"]
  /\ UNCHANGED <<ledger, voted, courts, art, guards, dole, book>>

-----------------------------------------------------------------------------
(* The market                                                              *)

\* setForSale(), by the owner: a price, or none.
SetForSale(a) ==
  /\ art' = [art EXCEPT !.price = a]
  /\ UNCHANGED <<ledger, courts, polls, guards, dole, book>>

\* buyArtwork(): the market's part, and at a second sale the creator's, go off the price;
\* a creator without a wallet gets nothing.
Buy(c) ==
  LET a       == art.price
      royalty == IF art.owner = art.creator THEN 0 ELSE RoyaltyOf[a]
      lost    == IF art.creator \in wallets THEN 0 ELSE royalty
      net     == a - MarketOf[a] - royalty
  IN /\ a > 0 /\ c # art.owner
     /\ {c, art.owner} \subseteq wallets /\ Available(c) >= a
     /\ balance' = Charged(Add(Add(Add(balance, c, -a), art.owner, net),
                               art.creator, royalty - lost), MarketOf[a])
     /\ wallets' = wallets \cup (IF MarketOf[a] > 0 THEN {Gov} ELSE {})
                            \cup (IF MarketOf[a] > 1 THEN {Burn} ELSE {})
     /\ vanished' = vanished + lost
     /\ art' = [art EXCEPT !.owner = c, !.price = 0]
     /\ UNCHANGED <<locked, stake, courts, polls, guards, dole, granted, stranded, crashes>>

-----------------------------------------------------------------------------
(* The stop, the blacklist and the calendar                                *)

\* triggerEmergencyStop() by the government
TriggerStop ==
  /\ ~stop /\ stop' = TRUE
  /\ UNCHANGED <<ledger, courts, polls, art, black, recent, dole, book>>

\* liftEmergencyStop(), or the end of its time
EndStop ==
  /\ stop /\ stop' = FALSE
  /\ UNCHANGED <<ledger, courts, polls, art, black, recent, dole, book>>

\* blacklistDid() by an administrator, for a time or for good, which replaces the entry
\* there is, and the end of that time
Blacklist(c) ==
  /\ \E term \in {"until", "forever"} : black' = [black EXCEPT ![c] = term]
  /\ UNCHANGED <<ledger, courts, polls, art, stop, recent, dole, book>>

Unlist(c) ==
  /\ black[c] = "until" /\ black' = [black EXCEPT ![c] = "no"]
  /\ UNCHANGED <<ledger, courts, polls, art, stop, recent, dole, book>>

\* A minute, a week, a month passes.
Tick ==
  /\ \/ recent # {} /\ recent' = {} /\ UNCHANGED dole
     \/ due # Citizens /\ due' = Citizens /\ recent' = {} /\ UNCHANGED salaried
     \/ salaried # {} /\ salaried' = {} /\ recent' = {} /\ due' = Citizens
  /\ UNCHANGED <<ledger, courts, polls, art, stop, black, book>>

-----------------------------------------------------------------------------
Transfers == \E f \in Citizens, t \in All, a \in Amounts : Transfer(f, t, a)
Payroll   == \/ \E c \in Citizens : Reward(c)
             \/ \E o \in Officials : PaySalary(o) \/ CrashPaySalary(o)
Issues    == PayIncome \/ \E c \in Citizens : ShareMemory(c)
Courts == \E e \in Escrows :
            \/ \E f, t \in Citizens, a \in Amounts : CreateEscrow(e, f, t, a)
            \/ \E by \in Citizens \cup {Outsider} : Release(e, by) \/ Refund(e, by)
            \/ \E c \in Citizens : Dispute(e, c) \/ CrashDispute(e, c) \/ FailDispute(e, c)
Polls == \/ \E c \in Citizens : CrashPropose(c)
         \/ \E p \in Proposals :
              \/ \E c \in Citizens : Propose(p, c)
              \/ \E c \in Citizens, n \in Amounts \cup {0} : Vote(p, c, n) \/ CrashVote(p, c, n)
              \/ PollTime(p) \/ Finalize(p) \/ CrashFinalize(p) \/ Execute(p)
Market == \/ \E a \in Amounts \cup {0} : SetForSale(a)
          \/ \E c \in Citizens : Buy(c)
Orders == TriggerStop \/ EndStop \/ \E c \in Citizens : Blacklist(c) \/ Unlist(c)

Next == /\ \/ \E c \in Citizens : CreateWallet(c)
           \/ Tick
           \/ "transfers" \in scene /\ Transfers
           \/ "payroll" \in scene /\ Payroll
           \/ "issues" \in scene /\ Issues
           \/ "courts" \in scene /\ Courts
           \/ "polls" \in scene /\ Polls
           \/ "market" \in scene /\ Market
           \/ "orders" \in scene /\ Orders
        /\ UNCHANGED scene

Spec == Init /\ [][Next]_vars

-----------------------------------------------------------------------------
(* Properties                                                              *)

MoneyTypes ==
  /\ wallets \subseteq All
  /\ balance \in [All -> Nat] /\ locked \in [All -> Nat] /\ stake \in [All -> Nat]
  /\ granted \in Nat /\ vanished \in Nat /\ stranded \in [All -> Nat] /\ crashes \in Nat
CourtTypes ==
  /\ escrow \in [Escrows -> [status : {"none", "locked", "disputed", "released", "refunded"},
                             from : All, to : All, amount : Amounts \cup {0},
                             arbiter : All \cup {Outsider}]]
  /\ dispute \in [Escrows -> [Citizens -> {"none", "open", "failed"}]]
  /\ reported \subseteq Citizens \X All
PollTypes ==
  /\ proposal \in [Proposals -> [status : {"none", "active", "passed", "rejected", "executed"},
                                 kind : {"general", "constitutional"}, creator : All,
                                 bond : {"none", "locked", "refunded", "burned"},
                                 for : Nat, against : Nat, abstain : Nat,
                                 time : {"before", "end", "after"}]]
  /\ voted \subseteq Proposals \X Citizens
OtherTypes ==
  /\ art \in [creator : Citizens, owner : Citizens, price : Amounts \cup {0}]
  /\ stop \in BOOLEAN /\ black \in [All -> {"no", "until", "forever"}]
  /\ recent \subseteq All \X Nat
  /\ salaried \subseteq Officials /\ due \subseteq Citizens

\* The types of the tables.
TypeOK == MoneyTypes /\ CourtTypes /\ PollTypes /\ OtherTypes

\* Nobody owes money that is not there: what is locked is covered by the balance,
\* whatever a transfer, a sale, an escrow, a bond or a stake took before, and wherever
\* the process died.
Solvent == \A w \in All : locked[w] <= balance[w]

HeldInEscrow(w) ==
  [e \in Escrows |-> IF escrow[e].status \in Open /\ escrow[e].from = w
                     THEN escrow[e].amount ELSE 0]
HeldAsBond(w) ==
  [p \in Proposals |-> IF proposal[p].status = "active" /\ proposal[p].creator = w
                       THEN Bond ELSE 0]

\* The locked column is exactly what open escrows, bonds of running polls and stakes
\* hold, and what a crash has left locked for good: no order of calls frees money that
\* somebody still claims, or keeps money that nobody does.
LocksAreAccounted ==
  \A w \in All :
    locked[w] = Sum(Escrows, HeldInEscrow(w)) + Sum(Proposals, HeldAsBond(w))
                  + stake[w] + stranded[w]

\* Money is issued by grants, incomes and rewards alone; what is not in a wallet has
\* been a fee, a royalty nobody could receive, or a bond nobody could burn.
MoneyIsConserved == Supply + vanished = granted

\* A verdict is what the count says, and stays so: no vote of the last second arrives
\* after it.
VerdictStands ==
  \A p \in Proposals :
    LET q == proposal[p]
    IN /\ q.status \in {"passed", "executed"} => Passes(q)
       /\ q.status = "rejected" => ~Passes(q)
=============================================================================
