------------------------------- MODULE Ledger -------------------------------
(***************************************************************************)
(* The double-entry ledger (src/internal/service/ledger_service.go and the *)
(* account and journal repositories) as operators on a ledger value, for   *)
(* the modules whose transactions record journals in it. A ledger is       *)
(*   journals : a set of journals, one per idempotency key                 *)
(*   balances : account_balances, a function on the accounts that exist    *)
(* An operator that fails leaves the ledger to its caller, whose           *)
(* transaction rolls back.                                                 *)
(***************************************************************************)
EXTENDS Integers, SequencesExt, FiniteSetsExt

NoOwner == "SYSTEM"

SystemAccountTypes == {"FEE_INCOME", "EXTERNAL_BANK", "EXTERNAL_CHAIN", "DEV_MINT"}
IsSystemAccountType(type) == type \in SystemAccountTypes
AllowsNegativeBalance(type) == type \in SystemAccountTypes \ {"FEE_INCOME"}

Posting(type, owner, asset, amount) ==
    [account |-> [type |-> type, owner |-> owner, asset |-> asset], amount |-> amount]

\* An event that moves money: its idempotency key, what it is about and its lines.
Journal(event, key, reference, postings) ==
    [event |-> event, key |-> key, reference |-> reference, postings |-> postings]

EmptyLedger == [journals |-> {}, balances |-> [a \in {} |-> 0]]

AccountsOf(postings) == {p.account : p \in Range(postings)}
AssetsOf(postings) == {a.asset : a \in AccountsOf(postings)}

\* What the postings whose account is in A add up to.
SumOf(postings, A) ==
    FoldLeft(LAMBDA sum, p : IF p.account \in A THEN sum + p.amount ELSE sum, 0, postings)

OfAsset(postings, asset) == {a \in AccountsOf(postings) : a.asset = asset}

-----------------------------------------------------------------------------

validateJournalInput(in) ==
    /\ Len(in.postings) >= 2
    /\ \A p \in Range(in.postings) :
        /\ p.amount # 0
        /\ IsSystemAccountType(p.account.type) <=> p.account.owner = NoOwner
    /\ \A asset \in AssetsOf(in.postings) : SumOf(in.postings, OfAsset(in.postings, asset)) = 0

\* The journal under the key of the request, if there is one.
InsertOrGet(ledger, in) == {j \in ledger.journals : j.key = in.key}

\* The order of the lines is not part of a journal.
assertSameJournal(existing, in) ==
    /\ existing.event = in.event /\ existing.reference = in.reference
    /\ Len(existing.postings) = Len(in.postings)
    /\ \A p \in Range(existing.postings) :
        Cardinality({i \in DOMAIN existing.postings : existing.postings[i] = p})
          = Cardinality({i \in DOMAIN in.postings : in.postings[i] = p})

EnsureAccounts(balances, accounts) ==
    [a \in DOMAIN balances \cup accounts |-> IF a \in DOMAIN balances THEN balances[a] ELSE 0]

ApplyBalanceDeltas(balances, postings) ==
    [a \in DOMAIN balances |-> balances[a] + SumOf(postings, {a})]

\* Whether Record returns no error: the event is new and every account it debits
\* can bear it, or it is recorded already, whatever the balances are now.
Recordable(ledger, in) ==
    /\ validateJournalInput(in)
    /\ LET found == InsertOrGet(ledger, in)
           before == EnsureAccounts(ledger.balances, AccountsOf(in.postings))
           after == ApplyBalanceDeltas(before, in.postings)
       IN  IF found # {}
           THEN \A existing \in found : assertSameJournal(existing, in)
           ELSE \A a \in AccountsOf(in.postings) : after[a] >= 0 \/ AllowsNegativeBalance(a.type)

\* The ledger after a Record that returns no error.
Record(ledger, in) ==
    IF InsertOrGet(ledger, in) # {}
    THEN ledger
    ELSE LET before == EnsureAccounts(ledger.balances, AccountsOf(in.postings))
         IN  [journals |-> ledger.journals \cup {in},
              balances |-> ApplyBalanceDeltas(before, in.postings)]

Balance(ledger, type, owner, asset) ==
    LET account == [type |-> type, owner |-> owner, asset |-> asset]
    IN  IF account \in DOMAIN ledger.balances THEN ledger.balances[account] ELSE 0

\* dev_wallet_service.go: money that comes from nowhere, kept in its own account.
FundWallet(ledger, user, asset, amount, requestKey) ==
    Record(ledger, Journal("DEV_FUND", <<"devfund", user, asset, requestKey>>, user,
                           << Posting("DEV_MINT", NoOwner, asset, -amount),
                              Posting("USER_AVAILABLE", user, asset, amount) >>))

-----------------------------------------------------------------------------
(* The reconciliation worker: what each of its checks reports.             *)

CheckUnbalancedJournals(ledger) ==
    {j \in ledger.journals :
        \E asset \in AssetsOf(j.postings) : SumOf(j.postings, OfAsset(j.postings, asset)) # 0}

CheckBalanceCacheDrift(ledger) ==
    {a \in DOMAIN ledger.balances :
        ledger.balances[a] # MapThenSumSet(LAMBDA j : SumOf(j.postings, {a}), ledger.journals)}

CheckAssetTotals(ledger) ==
    {asset \in UNION {AssetsOf(j.postings) : j \in ledger.journals} :
        MapThenSumSet(LAMBDA j : SumOf(j.postings, OfAsset(j.postings, asset)),
                      ledger.journals) # 0}

CheckNegativeAccounts(ledger) ==
    {a \in DOMAIN ledger.balances : ledger.balances[a] < 0 /\ ~ AllowsNegativeBalance(a.type)}

\* One round of the checks finds nothing.
Reconciled(ledger) ==
    /\ CheckUnbalancedJournals(ledger) = {}
    /\ CheckBalanceCacheDrift(ledger) = {}
    /\ CheckAssetTotals(ledger) = {}
    /\ CheckNegativeAccounts(ledger) = {}
=============================================================================
