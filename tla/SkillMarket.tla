----------------------------- MODULE SkillMarket -----------------------------
(***************************************************************************)
(* The economy of the skill market of HubCenter: accounts, vouchers,       *)
(* credits, the download handler that charges a buyer and pays the         *)
(* uploader, and refunds (hubcenter/internal/skillmarket, DownloadSkillMarket *)
(* of httpapi/skillmarket_handlers.go).                                    *)
(*                                                                         *)
(* The write pool has one connection, so every transaction and every       *)
(* single statement is one step.  A download is several of them: between   *)
(* any two of its steps other requests run, a step may fail (the handler   *)
(* logs and goes on) and the request may end for good, because the process *)
(* dies or because the client leaves, which cancels the context all later  *)
(* statements use.  The reads of the handler ignore their errors and go on *)
(* with a zero value: a price of 0, no API key asked for, no uploader, no  *)
(* earlier purchase; a skill deleted meanwhile has the same effect.  The   *)
(* number of a request doubles as the purchase id.                         *)
(***************************************************************************)
EXTENDS Integers, FiniteSets, FiniteSetsExt

CONSTANTS
  Users, Skills, Requests, Admins,
  Price,          \* [Skills -> Nat]             sm_skill_index.price
  RequiredEnv,    \* [Skills -> BOOLEAN]         the skill asks for an API key
  Uploader,       \* [Skills -> Users \cup {Nobody}]
  Nobody, NoPurchase,
  Vouchers,       \* vouchers of a new account (defaultVoucherCount)
  Amounts,        \* amounts of a top-up or a withdrawal
  MaxTopUp        \* bound: what the users pay in altogether

ASSUME MarketAssumption ==
  /\ Price \in [Skills -> Nat]
  /\ RequiredEnv \in [Skills -> BOOLEAN]
  /\ Uploader \in [Skills -> Users \cup {Nobody}]
  /\ Nobody \notin Users
  /\ NoPurchase \notin Requests
  /\ Vouchers \in Nat /\ MaxTopUp \in Nat
  /\ Amounts \subseteq Nat \ {0}
  /\ IsFiniteSet(Users) /\ IsFiniteSet(Requests)

VARIABLES
  status,     \* [Users -> account status, "none" before the row exists]
  credits, settled, pending, debt, vouchers,   \* [Users -> Nat] columns of sm_users
  fresh,      \* [Users -> BOOLEAN] voucher_expires_at lies ahead
  ledger,     \* [Users -> Int] SUM(amount) of the user's sm_credits_transactions
  fees,       \* Nat: the same sum of the pseudo user "platform"
  records,    \* [Requests -> status of the purchase record]
  pc, buyer, skill, due,   \* a download: its next step, who, what, at which price
                           \* as read (0 before), halved for an upgrade
  paid,       \* [Requests -> what was taken for it]
  refund,     \* [Admins -> the record read by a refund, not applied yet]
  topped, withdrawn        \* Nat: money in and out of the market

account == <<credits, settled, pending, debt>>
request == <<pc, buyer, skill, due, paid>>
vars == <<status, account, vouchers, fresh, ledger, fees, records, request,
          refund, topped, withdrawn>>

Steps == {"idle", "lookup", "create", "voucher", "quote", "debit", "credit",
          "fee", "record", "serve", "served", "refused", "gone"}
Over  == {"served", "refused", "gone"}

Sellers == {u \in Users : \E s \in Skills : Uploader[s] = u}

(* The platform keeps 30 percent, the uploader gets the rest. *)
PlatformFee(amount)   == (amount * 30) \div 100
SellerEarning(amount) == amount - PlatformFee(amount)

(* An uploader got an account when it submitted the skill. *)
Init ==
  /\ status = [u \in Users |-> IF u \in Sellers THEN "unverified" ELSE "none"]
  /\ credits = [u \in Users |-> 0] /\ settled = [u \in Users |-> 0]
  /\ pending = [u \in Users |-> 0] /\ debt = [u \in Users |-> 0]
  /\ vouchers = [u \in Users |-> IF u \in Sellers THEN Vouchers ELSE 0]
  /\ fresh = [u \in Users |-> u \in Sellers]
  /\ ledger = [u \in Users |-> 0] /\ fees = 0
  /\ records = [r \in Requests |-> "none"]
  /\ pc = [r \in Requests |-> "idle"]
  /\ buyer \in [Requests -> Users]
  /\ skill \in [Requests -> Skills]
  /\ due = [r \in Requests |-> 0]
  /\ paid = [r \in Requests |-> "nothing"]
  /\ refund = [a \in Admins |-> NoPurchase]
  /\ topped = 0 /\ withdrawn = 0

Goto(r, step) == pc' = [pc EXCEPT ![r] = step]

-----------------------------------------------------------------------------
(* The account service. *)

(* GET .../download: the skill exists and is visible. *)
Download(r) ==
  /\ pc[r] = "idle"
  /\ Goto(r, "lookup")
  /\ UNCHANGED <<status, account, vouchers, fresh, ledger, fees, records,
                 buyer, skill, due, paid, refund, topped, withdrawn>>

(* What the handler does next with an account that has, or has not, a voucher:
   it reads the price and, where it matters, whether the skill needs an API key;
   such a skill takes no voucher. *)
AfterAccount(r, hasVoucher) ==
  \E price \in {Price[skill[r]], 0}, keyed \in {RequiredEnv[skill[r]], FALSE} :
    /\ due' = [due EXCEPT ![r] = price]
    /\ Goto(r, IF price = 0 THEN "serve"
               ELSE IF hasVoucher /\ ~keyed THEN "voucher"
               ELSE "quote")

(* EnsureAccount reads the row and inserts one when there is none.  When the
   insert meets a row another request has made meanwhile it reads again. *)
EnsureAccountReads(r) ==
  LET u == buyer[r] IN
  /\ pc[r] = "lookup"
  /\ IF status[u] = "none"
       THEN Goto(r, "create") /\ UNCHANGED due
       ELSE AfterAccount(r, vouchers[u] > 0 /\ fresh[u])
  /\ UNCHANGED <<status, account, vouchers, fresh, ledger, fees, records,
                 buyer, skill, paid, refund, topped, withdrawn>>

(* Mutant of CreateUser: the insert replaces a row that is there. *)
CreateUserReplaces(r) ==
  LET u == buyer[r] IN
  /\ pc[r] = "create"
  /\ status' = [status EXCEPT ![u] = "unverified"]
  /\ vouchers' = [vouchers EXCEPT ![u] = Vouchers]
  /\ fresh' = [fresh EXCEPT ![u] = TRUE]
  /\ AfterAccount(r, Vouchers > 0)
  /\ UNCHANGED <<account, ledger, fees, records, buyer, skill, paid,
                 refund, topped, withdrawn>>

CreateUser(r) ==
  LET u == buyer[r] IN
  /\ pc[r] = "create"
  /\ IF status[u] = "none"
       THEN /\ status' = [status EXCEPT ![u] = "unverified"]
            /\ vouchers' = [vouchers EXCEPT ![u] = Vouchers]
            /\ fresh' = [fresh EXCEPT ![u] = TRUE]
            /\ AfterAccount(r, Vouchers > 0)
       ELSE Goto(r, "lookup") /\ UNCHANGED <<status, vouchers, fresh, due>>
  /\ UNCHANGED <<account, ledger, fees, records, buyer, skill, paid,
                 refund, topped, withdrawn>>

VerifyAccount(u) ==
  /\ status[u] = "unverified"
  /\ status' = [status EXCEPT ![u] = "verified"]
  /\ UNCHANGED <<account, vouchers, fresh, ledger, fees, records, request,
                 refund, topped, withdrawn>>

(* Seven days pass. *)
VouchersExpire(u) ==
  /\ fresh[u]
  /\ fresh' = [fresh EXCEPT ![u] = FALSE]
  /\ UNCHANGED <<status, account, vouchers, ledger, fees, records, request,
                 refund, topped, withdrawn>>

-----------------------------------------------------------------------------
(* Paying for a download. *)

(* UPDATE ... voucher_count - 1 WHERE voucher_count > 0; a request that comes
   too late, or whose statement fails, goes on as one that pays. *)
UseVoucher(r) ==
  LET u == buyer[r] IN
  /\ pc[r] = "voucher"
  /\ \/ /\ vouchers[u] > 0
        /\ vouchers' = [vouchers EXCEPT ![u] = @ - 1]
        /\ paid' = [paid EXCEPT ![r] = "voucher"]
        /\ Goto(r, "serve")
     \/ Goto(r, "quote") /\ UNCHANGED <<vouchers, paid>>
  /\ UNCHANGED <<status, account, fresh, ledger, fees, records, buyer, skill,
                 due, refund, topped, withdrawn>>

(* The buyer holds an active purchase of the skill. *)
IsUpgrade(r) ==
  \E q \in Requests : /\ records[q] = "active"
                      /\ buyer[q] = buyer[r] /\ skill[q] = skill[r]

Quote(r) ==
  /\ pc[r] = "quote"
  /\ \E upgrade \in {IsUpgrade(r), FALSE} :
       due' = [due EXCEPT ![r] = IF upgrade THEN @ \div 2 ELSE @]
  /\ Goto(r, "debit")
  /\ UNCHANGED <<status, account, vouchers, fresh, ledger, fees, records,
                 buyer, skill, paid, refund, topped, withdrawn>>

(* Debit refuses an amount that is not positive, as half of a price of 1.  The
   uploader is read after it; without one nobody is paid and nothing recorded. *)
Debit(r) ==
  LET u == buyer[r] IN
  /\ pc[r] = "debit"
  /\ IF due[r] > 0 /\ credits[u] >= due[r]
       THEN /\ credits' = [credits EXCEPT ![u] = @ - due[r]]
            /\ ledger' = [ledger EXCEPT ![u] = @ - due[r]]
            /\ paid' = [paid EXCEPT ![r] = "credits"]
            /\ \E seller \in {Uploader[skill[r]], Nobody} :
                 Goto(r, IF seller = Nobody THEN "serve" ELSE "credit")
       ELSE Goto(r, "refused") /\ UNCHANGED <<credits, ledger, paid>>
  /\ UNCHANGED <<status, settled, pending, debt, vouchers, fresh, fees, records,
                 buyer, skill, due, refund, topped, withdrawn>>

(* Mutant of AfterDebt: earnings do not pay off the debt. *)
DebtIgnored(u, amount) == amount

(* What is left of an amount after the debt is paid off. *)
AfterDebt(u, amount) == IF amount > debt[u] THEN amount - debt[u] ELSE 0

(* Credit pays off the uploader's debt first; what is left is settled, or
   pending when the buyer is still owed an API key. *)
Credit(r) ==
  LET u      == Uploader[skill[r]]
      amount == SellerEarning(due[r])
      actual == AfterDebt(u, amount) IN
  /\ pc[r] = "credit"
  /\ debt' = [debt EXCEPT ![u] = @ - (amount - actual)]
  /\ \E keyed \in {RequiredEnv[skill[r]], FALSE} :
       IF keyed
         THEN pending' = [pending EXCEPT ![u] = @ + actual] /\ UNCHANGED settled
         ELSE settled' = [settled EXCEPT ![u] = @ + actual] /\ UNCHANGED pending
  /\ ledger' = [ledger EXCEPT ![u] = @ + amount]
  /\ Goto(r, "fee")
  /\ UNCHANGED <<status, credits, vouchers, fresh, fees, records, buyer, skill,
                 due, paid, refund, topped, withdrawn>>

RecordPlatformFee(r) ==
  /\ pc[r] = "fee"
  /\ fees' = fees + PlatformFee(due[r])
  /\ Goto(r, "record")
  /\ UNCHANGED <<status, account, vouchers, fresh, ledger, records, buyer,
                 skill, due, paid, refund, topped, withdrawn>>

CreatePurchase(r) ==
  /\ pc[r] = "record"
  /\ records' = [records EXCEPT ![r] = "active"]
  /\ Goto(r, "serve")
  /\ UNCHANGED <<status, account, vouchers, fresh, ledger, fees, buyer, skill,
                 due, paid, refund, topped, withdrawn>>

(* A write of these three fails: a warning is logged, the handler goes on. *)
WriteFails(r) ==
  /\ pc[r] \in {"credit", "fee", "record"}
  /\ Goto(r, CASE pc[r] = "credit" -> "fee" [] pc[r] = "fee" -> "record"
               [] OTHER -> "serve")
  /\ UNCHANGED <<status, account, vouchers, fresh, ledger, fees, records,
                 buyer, skill, due, paid, refund, topped, withdrawn>>

(* The package is encrypted and sent (the download counter of the skill is the
   number of requests served), or encryption fails. *)
Serve(r) ==
  /\ pc[r] = "serve"
  /\ \E end \in {"served", "refused"} : Goto(r, end)
  /\ UNCHANGED <<status, account, vouchers, fresh, ledger, fees, records,
                 buyer, skill, due, paid, refund, topped, withdrawn>>

(* The process dies or the client leaves: no later write takes effect. *)
Abandon(r) ==
  /\ pc[r] \notin Over \cup {"idle"}
  /\ Goto(r, "gone")
  /\ UNCHANGED <<status, account, vouchers, fresh, ledger, fees, records,
                 buyer, skill, due, paid, refund, topped, withdrawn>>

-----------------------------------------------------------------------------
(* Money in and out. *)

TopUp(u, amount) ==
  /\ status[u] = "verified"
  /\ topped + amount <= MaxTopUp
  /\ credits' = [credits EXCEPT ![u] = @ + amount]
  /\ ledger' = [ledger EXCEPT ![u] = @ + amount]
  /\ topped' = topped + amount
  /\ UNCHANGED <<status, settled, pending, debt, vouchers, fresh, fees, records,
                 request, refund, withdrawn>>

MayWithdraw(u, amount) == settled[u] >= amount

Withdraw(u, amount) ==
  /\ status[u] = "verified"
  /\ MayWithdraw(u, amount)
  /\ settled' = [settled EXCEPT ![u] = @ - amount]
  /\ ledger' = [ledger EXCEPT ![u] = @ - amount]
  /\ withdrawn' = withdrawn + amount
  /\ UNCHANGED <<status, credits, pending, debt, vouchers, fresh, fees, records,
                 request, refund, topped>>

(* ProcessRefund reads the record on the read pool and refuses one that is
   refunded ... *)
ReadPurchase(a, r) ==
  /\ refund[a] = NoPurchase
  /\ records[r] = "active"
  /\ refund' = [refund EXCEPT ![a] = r]
  /\ UNCHANGED <<status, account, vouchers, fresh, ledger, fees, records,
                 request, topped, withdrawn>>

(* Mutant of Shortfall: the debt is the whole earning. *)
ShortfallWhole(u, earning) == IF settled[u] >= earning THEN 0 ELSE earning

(* What the settled credits of the uploader do not cover. *)
Shortfall(u, earning) == IF settled[u] >= earning THEN 0 ELSE earning - settled[u]

(* Mutant of MarkRefunded: the record stays active. *)
MarkNothing(r) == UNCHANGED records

MarkRefunded(r) == records' = [records EXCEPT ![r] = "refunded"]

(* ... and then, in a transaction that does not look at the status again, pays
   the buyer back and takes the earning from the uploader: from what is settled,
   the rest becomes a debt. *)
ApplyRefund(a) ==
  LET r       == refund[a]
      seller  == Uploader[skill[r]]
      earning == SellerEarning(due[r]) IN
  /\ r # NoPurchase
  /\ credits' = [credits EXCEPT ![buyer[r]] = @ + due[r]]
  /\ settled' = [settled EXCEPT ![seller] = IF @ >= earning THEN @ - earning ELSE 0]
  /\ debt' = [debt EXCEPT ![seller] = @ + Shortfall(seller, earning)]
  /\ ledger' = [u \in Users |-> ledger[u] + (IF u = buyer[r] THEN due[r] ELSE 0)
                                          - (IF u = seller THEN earning ELSE 0)]
  /\ MarkRefunded(r)
  /\ refund' = [refund EXCEPT ![a] = NoPurchase]
  /\ UNCHANGED <<status, pending, vouchers, fresh, fees, request, topped, withdrawn>>

(* The transaction fails and is rolled back, or the process dies before it. *)
AbandonRefund(a) ==
  /\ refund[a] # NoPurchase
  /\ refund' = [refund EXCEPT ![a] = NoPurchase]
  /\ UNCHANGED <<status, account, vouchers, fresh, ledger, fees, records,
                 request, topped, withdrawn>>

-----------------------------------------------------------------------------
RequestStep(r) ==
  \/ Download(r) \/ EnsureAccountReads(r) \/ CreateUser(r) \/ UseVoucher(r)
  \/ Quote(r) \/ Debit(r) \/ Credit(r) \/ RecordPlatformFee(r)
  \/ CreatePurchase(r) \/ WriteFails(r) \/ Serve(r) \/ Abandon(r)

UserStep(u) ==
  \/ VerifyAccount(u) \/ VouchersExpire(u)
  \/ \E amount \in Amounts : TopUp(u, amount) \/ Withdraw(u, amount)

AdminStep(a) ==
  \/ \E r \in Requests : ReadPurchase(a, r)
  \/ ApplyRefund(a) \/ AbandonRefund(a)

Next ==
  \/ \E r \in Requests : RequestStep(r)
  \/ \E u \in Users : UserStep(u)
  \/ \E a \in Admins : AdminStep(a)

Spec == Init /\ [][Next]_vars

-----------------------------------------------------------------------------
(* Types; no column of an account ever becomes negative. *)
TypeOK ==
  /\ status \in [Users -> {"none", "unverified", "verified"}]
  /\ credits \in [Users -> Nat] /\ settled \in [Users -> Nat]
  /\ pending \in [Users -> Nat] /\ debt \in [Users -> Nat]
  /\ vouchers \in [Users -> Nat] /\ fresh \in [Users -> BOOLEAN]
  /\ ledger \in [Users -> Int] /\ fees \in Nat
  /\ records \in [Requests -> {"none", "active", "refunded"}]
  /\ pc \in [Requests -> Steps]
  /\ buyer \in [Requests -> Users] /\ skill \in [Requests -> Skills]
  /\ due \in [Requests -> Nat]
  /\ paid \in [Requests -> {"nothing", "voucher", "credits"}]
  /\ refund \in [Admins -> Requests \cup {NoPurchase}]
  /\ topped \in Nat /\ withdrawn \in Nat

Balance(u) == credits[u] + settled[u] + pending[u] - debt[u]

(* The rows of sm_credits_transactions of a user add up to the money it has
   less the money it owes, through partly repaid debts, refunds larger than
   what is settled and requests cut off at any step. *)
LedgerExplainsBalance == \A u \in Users : Balance(u) = ledger[u]

(* Nobody owes the market something and has settled money to withdraw: refunds
   take what is settled first, earnings pay off the debt first, in any order. *)
DebtMeansEmpty == \A u \in Users : debt[u] > 0 => settled[u] = 0

(* A new account gets its vouchers once, even when several first downloads
   create it at the same time, and each voucher pays for one download. *)
VouchersSpentOnce ==
  \A u \in Users : status[u] # "none" =>
    vouchers[u] + Cardinality({r \in Requests : buyer[r] = u /\ paid[r] = "voucher"})
      = Vouchers

(* What was taken for a download that is served is what its request read the
   price to be, whatever other requests of the same buyer did since the account
   was read: a voucher or the price, or half of it for an upgrade.  Nothing is
   taken only from a request that read no price - because the skill has none,
   or because the read failed - and never because half a price is nothing. *)
ServedIsPaid ==
  \A r \in Requests : pc[r] = "served" =>
    \/ paid[r] = "nothing" /\ due[r] = 0
    \/ paid[r] = "voucher" /\ due[r] = Price[skill[r]]
    \/ /\ paid[r] = "credits" /\ due[r] > 0
       /\ due[r] \in {Price[skill[r]], Price[skill[r]] \div 2}

(* What all users have, net of debts, and have withdrawn never exceeds what was
   paid in: purchases, failures and refunds make no money.  (With refunds one
   at a time; see RefundedOnce.) *)
NoMoneyFromNothing ==
  MapThenSumSet(Balance, Users) + withdrawn <= topped

(* refund_service_test.go:100: the second refund of a purchase fails. *)
RefundedOnce ==
  [][\A a \in Admins : ApplyRefund(a) => records[refund[a]] = "active"]_vars
=============================================================================
