-------------------------- MODULE SkillMarket_proofs --------------------------
(***************************************************************************)
(* Theorems about the skill market for any users, skills, prices, requests *)
(* and administrators: the accounts keep their books, whatever requests    *)
(* interleave and whichever of their steps fail, and no money comes from   *)
(* nothing as long as no purchase is refunded twice.                       *)
(***************************************************************************)
EXTENDS SkillMarket, FiniteSetTheorems, WellFoundedInduction, TLAPS

USE MarketAssumption

(* Fee and earning split a price into two parts that are not negative. *)
LEMMA Split ==
  ASSUME NEW n \in Nat
  PROVE  /\ PlatformFee(n) \in Nat /\ SellerEarning(n) \in Nat
         /\ PlatformFee(n) + SellerEarning(n) = n
BY DEF PlatformFee, SellerEarning

LEMMA Half == ASSUME NEW n \in Nat PROVE n \div 2 \in Nat
OBVIOUS

-----------------------------------------------------------------------------
(* What the handler has established at each of its steps. *)
Early == {"idle", "lookup", "create", "voucher", "quote", "debit"}
Paying == {"credit", "fee", "record"}

FullOrHalf(r) == due[r] \in {Price[skill[r]], Price[skill[r]] \div 2}

(* What was taken fits the price that was read. *)
FairlyPaid(r) ==
  \/ paid[r] = "nothing" /\ due[r] = 0
  \/ paid[r] = "voucher" /\ due[r] = Price[skill[r]]
  \/ paid[r] = "credits" /\ due[r] > 0 /\ FullOrHalf(r)

RequestOK(r) ==
  /\ pc[r] \in Early => paid[r] = "nothing"
  /\ pc[r] \in {"voucher", "quote"} => due[r] = Price[skill[r]]
  /\ pc[r] = "debit" => FullOrHalf(r)
  /\ pc[r] \in Paying =>
       paid[r] = "credits" /\ due[r] > 0 /\ FullOrHalf(r) /\ Uploader[skill[r]] \in Users
  /\ pc[r] \in {"serve", "served"} => FairlyPaid(r)
  /\ pc[r] = "voucher" \/ paid[r] = "voucher" => status[buyer[r]] # "none"
  /\ records[r] # "none" => Uploader[skill[r]] \in Users

RequestInv == \A r \in Requests : RequestOK(r)

RefundInv ==
  \A a \in Admins : refund[a] # NoPurchase => records[refund[a]] # "none"

IInv == TypeOK /\ RequestInv /\ RefundInv

LEMMA IInit == Init => IInv
<1> SUFFICES ASSUME Init PROVE IInv
  OBVIOUS
<1>1. TypeOK
  BY DEF Init, TypeOK, Steps
<1>2. RequestInv /\ RefundInv
  BY DEF Init, RequestInv, RequestOK, RefundInv, Early, Paying
<1> QED BY <1>1, <1>2 DEF IInv

(* A step of one request leaves what holds of the others alone. *)
Alone(r) ==
  /\ UNCHANGED <<buyer, skill>>
  /\ \A q \in Requests \ {r} :
       pc'[q] = pc[q] /\ paid'[q] = paid[q] /\ due'[q] = due[q] /\ records'[q] = records[q]
  /\ \A u \in Users : status[u] # "none" => status'[u] # "none"

LEMMA OneMoves ==
  ASSUME IInv, NEW r \in Requests, Alone(r), RequestOK(r)'
  PROVE  RequestInv'
<1> SUFFICES ASSUME NEW q \in Requests, q # r PROVE RequestOK(q)'
  BY DEF RequestInv
<1>1. RequestOK(q) /\ buyer[q] \in Users
  BY DEF IInv, RequestInv, TypeOK
<1>2. /\ buyer' = buyer /\ skill' = skill
      /\ pc'[q] = pc[q] /\ paid'[q] = paid[q] /\ due'[q] = due[q] /\ records'[q] = records[q]
      /\ status[buyer[q]] # "none" => status'[buyer[q]] # "none"
  BY <1>1 DEF Alone
<1>3. (FullOrHalf(q)' <=> FullOrHalf(q)) /\ (FairlyPaid(q)' <=> FairlyPaid(q))
  BY <1>2 DEF FullOrHalf, FairlyPaid
<1> QED BY <1>1, <1>2, <1>3 DEF RequestOK

(* A step of a user or an administrator moves no request. *)
LEMMA NoRequestMoves ==
  ASSUME IInv, UNCHANGED request,
         \A q \in Requests : records'[q] # "none" => records[q] # "none",
         \A u \in Users : status[u] # "none" => status'[u] # "none"
  PROVE  RequestInv'
<1> SUFFICES ASSUME NEW q \in Requests PROVE RequestOK(q)'
  BY DEF RequestInv
<1>1. RequestOK(q) /\ buyer[q] \in Users
  BY DEF IInv, RequestInv, TypeOK
<1>2. pc' = pc /\ buyer' = buyer /\ skill' = skill /\ due' = due /\ paid' = paid
  BY DEF request
<1>3. (FullOrHalf(q)' <=> FullOrHalf(q)) /\ (FairlyPaid(q)' <=> FairlyPaid(q))
  BY <1>2 DEF FullOrHalf, FairlyPaid
<1> QED BY <1>1, <1>2, <1>3 DEF RequestOK

LEMMA AccountKnown ==
  ASSUME IInv, NEW r \in Requests, NEW has \in BOOLEAN, AfterAccount(r, has),
         pc[r] \in {"lookup", "create"}, UNCHANGED <<buyer, skill, paid, records>>,
         status'[buyer[r]] # "none"
  PROVE  /\ pc' \in [Requests -> Steps] /\ due' \in [Requests -> Nat]
         /\ \A q \in Requests \ {r} : pc'[q] = pc[q] /\ due'[q] = due[q]
         /\ RequestOK(r)'
<1>1. PICK price \in {Price[skill[r]], 0}, to \in {"serve", "voucher", "quote"} :
        /\ due' = [due EXCEPT ![r] = price] /\ pc' = [pc EXCEPT ![r] = to]
        /\ to = "serve" <=> price = 0
  BY DEF AfterAccount, Goto
<1>2. /\ skill[r] \in Skills /\ Price[skill[r]] \in Nat
      /\ pc \in [Requests -> Steps] /\ due \in [Requests -> Nat]
  BY DEF IInv, TypeOK
<1>3. pc'[r] = to /\ due'[r] = price
  BY <1>1, <1>2
<1>4. paid[r] = "nothing" /\ RequestOK(r)
  BY DEF IInv, RequestInv, RequestOK, Early
<1>5. RequestOK(r)'
  BY <1>1, <1>3, <1>4 DEF RequestOK, Early, Paying, FairlyPaid
<1> QED BY <1>1, <1>2, <1>5 DEF Steps

(* The steps of a download that move no money. *)
LEMMA QuietRequestStep ==
  ASSUME IInv, NEW r \in Requests,
         \/ Download(r) \/ EnsureAccountReads(r) \/ CreateUser(r) \/ UseVoucher(r)
         \/ Quote(r) \/ WriteFails(r) \/ Serve(r) \/ Abandon(r)
  PROVE  IInv'
<1>1. /\ skill[r] \in Skills /\ buyer[r] \in Users /\ Price[skill[r]] \in Nat
      /\ due[r] \in Nat /\ due[r] \div 2 \in Nat /\ TypeOK /\ RequestOK(r)
  BY Half DEF IInv, TypeOK, RequestInv
<1>2. ASSUME NEW to \in Steps, Goto(r, to)
      PROVE  /\ pc' \in [Requests -> Steps] /\ pc'[r] = to
             /\ \A q \in Requests \ {r} : pc'[q] = pc[q]
  BY <1>1, <1>2 DEF Goto, TypeOK
<1>3. ASSUME NEW to \in Steps, Goto(r, to), UNCHANGED <<status, account, vouchers, fresh, ledger,
             fees, records, buyer, skill, due, paid, refund, topped, withdrawn>>,
             RequestOK(r)'
      PROVE  IInv'
  <2>1. TypeOK'
    BY <1>1, <1>2, <1>3 DEF TypeOK, account
  <2>2. Alone(r)
    BY <1>2, <1>3 DEF Alone
  <2> QED BY <1>3, <2>1, <2>2, OneMoves DEF IInv, RefundInv
<1>4. ASSUME UNCHANGED <<status, buyer, skill, paid, due, records>> PROVE
         (FullOrHalf(r)' <=> FullOrHalf(r)) /\ (FairlyPaid(r)' <=> FairlyPaid(r))
  BY <1>4 DEF FullOrHalf, FairlyPaid
<1>5. CASE Download(r)
  <2>1. pc'[r] = "lookup" /\ "lookup" \in Steps /\ Goto(r, "lookup")
    BY <1>2, <1>5 DEF Download, Steps
  <2>2. RequestOK(r)'
    BY <1>1, <1>5, <2>1 DEF Download, RequestOK, Early, Paying
  <2> QED BY <1>3, <1>5, <2>1, <2>2 DEF Download
<1>6. CASE EnsureAccountReads(r)
  <2>1. CASE status[buyer[r]] = "none"
    <3>1. pc'[r] = "create" /\ "create" \in Steps /\ Goto(r, "create") /\ due' = due
      BY <1>2, <1>6, <2>1 DEF EnsureAccountReads, Steps
    <3>2. RequestOK(r)'
      BY <1>1, <1>6, <3>1 DEF EnsureAccountReads, RequestOK, Early, Paying
    <3> QED BY <1>3, <1>6, <3>1, <3>2 DEF EnsureAccountReads
  <2>2. CASE status[buyer[r]] # "none"
    <3>1. /\ pc' \in [Requests -> Steps] /\ due' \in [Requests -> Nat]
          /\ \A q \in Requests \ {r} : pc'[q] = pc[q] /\ due'[q] = due[q]
          /\ RequestOK(r)'
      BY <1>6, <2>2, AccountKnown DEF EnsureAccountReads
    <3>2. TypeOK'
      BY <1>1, <1>6, <3>1 DEF EnsureAccountReads, TypeOK, account
    <3>3. Alone(r)
      BY <1>6, <3>1 DEF EnsureAccountReads, Alone
    <3> QED BY <1>6, <3>1, <3>2, <3>3, OneMoves DEF EnsureAccountReads, IInv, RefundInv
  <2> QED BY <2>1, <2>2
<1>7. CASE CreateUser(r)
  <2>1. \A u \in Users : status[u] # "none" => status'[u] # "none"
    BY <1>1, <1>7 DEF CreateUser, TypeOK
  <2>2. status'[buyer[r]] # "none"
    BY <1>1, <1>7 DEF CreateUser, TypeOK
  <2>3. /\ pc' \in [Requests -> Steps] /\ due' \in [Requests -> Nat]
        /\ \A q \in Requests \ {r} : pc'[q] = pc[q] /\ due'[q] = due[q]
        /\ RequestOK(r)'
    <3>1. CASE status[buyer[r]] = "none"
      <4>1. AfterAccount(r, Vouchers > 0) /\ (Vouchers > 0) \in BOOLEAN
        BY <1>7, <3>1 DEF CreateUser
      <4> QED BY <1>7, <2>2, <4>1, AccountKnown DEF CreateUser
    <3>2. CASE status[buyer[r]] # "none"
      <4>1. "lookup" \in Steps /\ Goto(r, "lookup") /\ due' = due
        BY <1>7, <3>2 DEF CreateUser, Steps
      <4>2. RequestOK(r)'
        BY <1>1, <1>2, <1>7, <4>1 DEF CreateUser, RequestOK, Early, Paying
      <4> QED BY <1>1, <1>2, <4>1, <4>2 DEF TypeOK
    <3> QED BY <3>1, <3>2
  <2>4. TypeOK'
    <3>1. /\ status' \in [Users -> {"none", "unverified", "verified"}]
          /\ vouchers' \in [Users -> Nat] /\ fresh' \in [Users -> BOOLEAN]
      <4>1. CASE status[buyer[r]] = "none"
        <5>1. /\ status' = [status EXCEPT ![buyer[r]] = "unverified"]
              /\ vouchers' = [vouchers EXCEPT ![buyer[r]] = Vouchers]
              /\ fresh' = [fresh EXCEPT ![buyer[r]] = TRUE]
          BY <1>7, <4>1 DEF CreateUser
        <5> QED BY <1>1, <5>1 DEF TypeOK
      <4>2. CASE status[buyer[r]] # "none"
        <5>1. UNCHANGED <<status, vouchers, fresh>>
          BY <1>7, <4>2 DEF CreateUser
        <5> QED BY <1>1, <5>1 DEF TypeOK
      <4> QED BY <4>1, <4>2
    <3> QED BY <1>1, <1>7, <2>3, <3>1 DEF CreateUser, TypeOK, account
  <2>5. Alone(r)
    BY <1>7, <2>1, <2>3 DEF CreateUser, Alone
  <2> QED BY <1>7, <2>3, <2>4, <2>5, OneMoves DEF CreateUser, IInv, RefundInv
<1>8. CASE UseVoucher(r)
  <2>1. CASE Goto(r, "quote") /\ UNCHANGED <<vouchers, paid>>
    <3>1. pc'[r] = "quote" /\ "quote" \in Steps
      BY <1>2, <2>1 DEF Steps
    <3>2. RequestOK(r)'
      BY <1>1, <1>8, <2>1, <3>1 DEF UseVoucher, RequestOK, Early, Paying
    <3> QED BY <1>3, <1>8, <2>1, <3>1, <3>2 DEF UseVoucher, account
  <2>2. CASE /\ vouchers[buyer[r]] > 0
             /\ vouchers' = [vouchers EXCEPT ![buyer[r]] = @ - 1]
             /\ paid' = [paid EXCEPT ![r] = "voucher"] /\ Goto(r, "serve")
    <3>1. /\ pc' \in [Requests -> Steps] /\ pc'[r] = "serve"
          /\ \A q \in Requests \ {r} : pc'[q] = pc[q]
      BY <1>2, <2>2 DEF Steps
    <3>2. /\ paid' \in [Requests -> {"nothing", "voucher", "credits"}] /\ paid'[r] = "voucher"
          /\ \A q \in Requests \ {r} : paid'[q] = paid[q]
      BY <1>1, <2>2 DEF TypeOK
    <3>3. vouchers' \in [Users -> Nat]
      BY <1>1, <2>2 DEF TypeOK
    <3>4. TypeOK'
      BY <1>1, <1>8, <3>1, <3>2, <3>3 DEF UseVoucher, TypeOK, account
    <3>5. RequestOK(r)'
      BY <1>1, <1>8, <3>1, <3>2 DEF UseVoucher, RequestOK, Early, Paying, FairlyPaid
    <3>6. Alone(r)
      BY <1>8, <3>1, <3>2 DEF UseVoucher, Alone
    <3> QED BY <1>8, <3>4, <3>5, <3>6, OneMoves DEF UseVoucher, IInv, RefundInv
  <2> QED BY <1>8, <2>1, <2>2 DEF UseVoucher
<1>9. CASE Quote(r)
  <2>1. PICK n \in {due[r], due[r] \div 2} : due' = [due EXCEPT ![r] = n]
    BY <1>9 DEF Quote
  <2>2. /\ pc' \in [Requests -> Steps] /\ pc'[r] = "debit"
        /\ \A q \in Requests \ {r} : pc'[q] = pc[q]
    BY <1>2, <1>9 DEF Quote, Steps
  <2>3. /\ due' \in [Requests -> Nat] /\ due'[r] = n
        /\ \A q \in Requests \ {r} : due'[q] = due[q]
    BY <1>1, <2>1 DEF TypeOK
  <2>4. TypeOK'
    BY <1>1, <1>9, <2>2, <2>3 DEF Quote, TypeOK, account
  <2>5. due[r] = Price[skill[r]]
    BY <1>1, <1>9 DEF Quote, RequestOK
  <2>6. RequestOK(r)'
    BY <1>1, <1>9, <2>2, <2>3, <2>5 DEF Quote, RequestOK, Early, Paying, FullOrHalf
  <2>7. Alone(r)
    BY <1>9, <2>2, <2>3 DEF Quote, Alone
  <2> QED BY <1>9, <2>4, <2>6, <2>7, OneMoves DEF Quote, IInv, RefundInv
<1>10. CASE WriteFails(r)
  <2>1. PICK to \in {"fee", "record", "serve"} : Goto(r, to)
    BY <1>10 DEF WriteFails
  <2>2. pc'[r] = to /\ to \in Steps /\ pc[r] \in Paying
    BY <1>2, <1>10, <2>1 DEF WriteFails, Steps, Paying
  <2>3. RequestOK(r)'
    BY <1>1, <1>4, <1>10, <2>2 DEF WriteFails, RequestOK, Early, Paying, FairlyPaid
  <2> QED BY <1>3, <1>10, <2>1, <2>2, <2>3 DEF WriteFails
<1>11. CASE Serve(r)
  <2>1. PICK to \in {"served", "refused"} : Goto(r, to)
    BY <1>11 DEF Serve
  <2>2. pc'[r] = to /\ to \in Steps
    BY <1>2, <2>1 DEF Steps
  <2>3. RequestOK(r)'
    BY <1>1, <1>4, <1>11, <2>2 DEF Serve, RequestOK, Early, Paying
  <2> QED BY <1>3, <1>11, <2>1, <2>2, <2>3 DEF Serve
<1>12. CASE Abandon(r)
  <2>1. pc'[r] = "gone" /\ "gone" \in Steps /\ Goto(r, "gone")
    BY <1>2, <1>12 DEF Abandon, Steps
  <2>2. RequestOK(r)'
    BY <1>1, <1>12, <2>1 DEF Abandon, RequestOK, Early, Paying
  <2> QED BY <1>3, <1>12, <2>1, <2>2 DEF Abandon
<1> QED BY <1>5, <1>6, <1>7, <1>8, <1>9, <1>10, <1>11, <1>12

(* The steps that do. *)
LEMMA MoneyRequestStep ==
  ASSUME IInv, NEW r \in Requests,
         Debit(r) \/ Credit(r) \/ RecordPlatformFee(r) \/ CreatePurchase(r)
  PROVE  IInv'
<1> DEFINE e == SellerEarning(due[r])
           v == Uploader[skill[r]]
           left == AfterDebt(v, e)
<1>1. /\ skill[r] \in Skills /\ buyer[r] \in Users /\ due[r] \in Nat
      /\ e \in Nat /\ PlatformFee(due[r]) \in Nat /\ TypeOK /\ RequestOK(r)
  BY Split DEF IInv, TypeOK, RequestInv
<1>2. ASSUME NEW to \in Steps, Goto(r, to)
      PROVE  /\ pc' \in [Requests -> Steps] /\ pc'[r] = to
             /\ \A q \in Requests \ {r} : pc'[q] = pc[q]
  BY <1>1, <1>2 DEF Goto, TypeOK
<1>3. ASSUME UNCHANGED <<skill, due>> PROVE FullOrHalf(r)' <=> FullOrHalf(r)
  BY <1>3 DEF FullOrHalf
<1>4. CASE Debit(r)
  <2>1. CASE due[r] > 0 /\ credits[buyer[r]] >= due[r]
    <3>1. PICK seller \in {v, Nobody}, to \in {"serve", "credit"} :
            Goto(r, to) /\ to = (IF seller = Nobody THEN "serve" ELSE "credit")
      BY <1>4, <2>1 DEF Debit
    <3>2. /\ pc' \in [Requests -> Steps] /\ pc'[r] = to
          /\ \A q \in Requests \ {r} : pc'[q] = pc[q]
      BY <1>2, <3>1 DEF Steps
    <3>3. /\ paid' \in [Requests -> {"nothing", "voucher", "credits"}] /\ paid'[r] = "credits"
          /\ \A q \in Requests \ {r} : paid'[q] = paid[q]
      BY <1>1, <1>4, <2>1 DEF Debit, TypeOK
    <3>4. to = "credit" => v \in Users
      BY <1>1, <3>1
    <3>5. TypeOK'
      <4>1. credits' \in [Users -> Nat] /\ ledger' \in [Users -> Int]
        BY <1>1, <1>4, <2>1 DEF Debit, TypeOK
      <4> QED BY <1>1, <1>4, <3>2, <3>3, <4>1 DEF Debit, TypeOK
    <3>6. RequestOK(r)'
      BY <1>1, <1>3, <1>4, <2>1, <3>2, <3>3, <3>4 DEF Debit, RequestOK, Early, Paying, FairlyPaid
    <3>7. Alone(r)
      BY <1>4, <3>2, <3>3 DEF Debit, Alone
    <3> QED BY <1>4, <3>5, <3>6, <3>7, OneMoves DEF Debit, IInv, RefundInv
  <2>2. CASE ~(due[r] > 0 /\ credits[buyer[r]] >= due[r])
    <3>1. /\ pc' \in [Requests -> Steps] /\ pc'[r] = "refused"
          /\ \A q \in Requests \ {r} : pc'[q] = pc[q]
      BY <1>2, <1>4, <2>2 DEF Debit, Steps
    <3>2. UNCHANGED <<credits, ledger, paid>>
      BY <1>4, <2>2 DEF Debit
    <3>3. TypeOK'
      BY <1>1, <1>4, <3>1, <3>2 DEF Debit, TypeOK
    <3>4. RequestOK(r)'
      BY <1>1, <1>4, <3>1, <3>2 DEF Debit, RequestOK, Early, Paying
    <3>5. Alone(r)
      BY <1>4, <3>1, <3>2 DEF Debit, Alone
    <3> QED BY <1>4, <3>3, <3>4, <3>5, OneMoves DEF Debit, IInv, RefundInv
  <2> QED BY <2>1, <2>2
<1>5. CASE Credit(r)
  <2>1. v \in Users /\ debt[v] \in Nat
    BY <1>1, <1>5 DEF Credit, RequestOK, Paying, TypeOK
  <2>2. left \in Nat /\ debt[v] - (e - left) \in Nat
    BY <1>1, <2>1 DEF AfterDebt
  <2>3. debt' \in [Users -> Nat] /\ ledger' \in [Users -> Int]
    BY <1>1, <1>5, <2>1, <2>2 DEF Credit, TypeOK
  <2>4. settled' \in [Users -> Nat] /\ pending' \in [Users -> Nat]
    BY <1>1, <1>5, <2>1, <2>2 DEF Credit, TypeOK
  <2>5. /\ pc' \in [Requests -> Steps] /\ pc'[r] = "fee"
        /\ \A q \in Requests \ {r} : pc'[q] = pc[q]
    BY <1>2, <1>5 DEF Credit, Steps
  <2>6. TypeOK'
    BY <1>1, <1>5, <2>3, <2>4, <2>5 DEF Credit, TypeOK
  <2>7. RequestOK(r)'
    BY <1>1, <1>3, <1>5, <2>5 DEF Credit, RequestOK, Early, Paying
  <2>8. Alone(r)
    BY <1>5, <2>5 DEF Credit, Alone
  <2> QED BY <1>5, <2>6, <2>7, <2>8, OneMoves DEF Credit, IInv, RefundInv
<1>6. CASE RecordPlatformFee(r)
  <2>1. /\ pc' \in [Requests -> Steps] /\ pc'[r] = "record"
        /\ \A q \in Requests \ {r} : pc'[q] = pc[q]
    BY <1>2, <1>6 DEF RecordPlatformFee, Steps
  <2>2. TypeOK'
    BY <1>1, <1>6, <2>1 DEF RecordPlatformFee, TypeOK, account
  <2>3. RequestOK(r)'
    BY <1>1, <1>3, <1>6, <2>1 DEF RecordPlatformFee, RequestOK, Early, Paying
  <2>4. Alone(r)
    BY <1>6, <2>1 DEF RecordPlatformFee, Alone
  <2> QED BY <1>6, <2>2, <2>3, <2>4, OneMoves DEF RecordPlatformFee, IInv, RefundInv
<1>7. CASE CreatePurchase(r)
  <2>1. /\ pc' \in [Requests -> Steps] /\ pc'[r] = "serve"
        /\ \A q \in Requests \ {r} : pc'[q] = pc[q]
    BY <1>2, <1>7 DEF CreatePurchase, Steps
  <2>2. /\ records' \in [Requests -> {"none", "active", "refunded"}]
        /\ \A q \in Requests \ {r} : records'[q] = records[q]
        /\ \A q \in Requests : records[q] # "none" => records'[q] # "none"
    BY <1>1, <1>7 DEF CreatePurchase, TypeOK
  <2>3. TypeOK'
    BY <1>1, <1>7, <2>1, <2>2 DEF CreatePurchase, TypeOK, account
  <2>4. RequestOK(r)'
    BY <1>1, <1>3, <1>7, <2>1 DEF CreatePurchase, RequestOK, Early, Paying, FairlyPaid
  <2>5. Alone(r)
    BY <1>7, <2>1, <2>2 DEF CreatePurchase, Alone
  <2>6. RefundInv'
    BY <1>1, <1>7, <2>2 DEF CreatePurchase, IInv, TypeOK, RefundInv
  <2> QED BY <2>3, <2>4, <2>5, <2>6, OneMoves DEF IInv
<1> QED BY <1>4, <1>5, <1>6, <1>7

LEMMA UserStepKeeps ==
  ASSUME IInv, NEW u \in Users, UserStep(u)
  PROVE  IInv'
<1> USE DEF IInv
<1>1. CASE VerifyAccount(u)
  <2>1. TypeOK'
    BY <1>1 DEF VerifyAccount, TypeOK, account, request
  <2>2. \A x \in Users : status[x] # "none" => status'[x] # "none"
    BY <1>1 DEF VerifyAccount, TypeOK
  <2>3. RequestInv'
    BY <1>1, <2>2, NoRequestMoves DEF VerifyAccount
  <2> QED BY <1>1, <2>1, <2>3 DEF VerifyAccount, RefundInv
<1>4. CASE VouchersExpire(u)
  <2>1. fresh' \in [Users -> BOOLEAN]
    BY <1>4 DEF VouchersExpire, TypeOK
  <2>2. RequestInv'
    BY <1>4, NoRequestMoves DEF VouchersExpire
  <2> QED BY <1>4, <2>1, <2>2 DEF VouchersExpire, TypeOK, RefundInv, account, request
<1>2. ASSUME NEW n \in Amounts, TopUp(u, n) PROVE IInv'
  <2>1. RequestInv'
    BY <1>2, NoRequestMoves DEF TopUp
  <2> QED BY <1>2, <2>1 DEF TopUp, TypeOK, RefundInv, request
<1>3. ASSUME NEW n \in Amounts, Withdraw(u, n) PROVE IInv'
  <2>1. settled[u] - n \in Nat
    BY <1>3 DEF Withdraw, MayWithdraw, TypeOK
  <2>2. settled' \in [Users -> Nat] /\ ledger' \in [Users -> Int] /\ withdrawn' \in Nat
    BY <1>3, <2>1 DEF Withdraw, TypeOK
  <2>3. RequestInv'
    BY <1>3, NoRequestMoves DEF Withdraw
  <2> QED BY <1>3, <2>2, <2>3 DEF Withdraw, TypeOK, RefundInv, request
<1> QED BY <1>1, <1>2, <1>3, <1>4 DEF UserStep

LEMMA AdminStepKeeps ==
  ASSUME IInv, NEW a \in Admins, AdminStep(a)
  PROVE  IInv'
<1> USE DEF IInv
<1>1. ASSUME NEW r \in Requests, ReadPurchase(a, r) PROVE IInv'
  <2>1. RequestInv'
    BY <1>1, NoRequestMoves DEF ReadPurchase
  <2> QED BY <1>1, <2>1 DEF ReadPurchase, TypeOK, RefundInv, account, request
<1>2. CASE AbandonRefund(a)
  <2>1. RequestInv'
    BY <1>2, NoRequestMoves DEF AbandonRefund
  <2> QED BY <1>2, <2>1 DEF AbandonRefund, TypeOK, RefundInv, account, request
<1>3. CASE ApplyRefund(a)
  <2> DEFINE r == refund[a]
             v == Uploader[skill[r]]
             e == SellerEarning(due[r])
  <2>1. r \in Requests /\ v \in Users /\ buyer[r] \in Users /\ due[r] \in Nat /\ e \in Nat
    BY <1>3, Split DEF ApplyRefund, TypeOK, RefundInv, RequestInv, RequestOK
  <2>2. Shortfall(v, e) \in Nat
    BY <2>1 DEF Shortfall, TypeOK
  <2>3. /\ credits' \in [Users -> Nat] /\ settled' \in [Users -> Nat]
        /\ debt' \in [Users -> Nat]
    BY <1>3, <2>1, <2>2 DEF ApplyRefund, TypeOK
  <2>4. ledger' \in [Users -> Int]
    BY <1>3, <2>1 DEF ApplyRefund, TypeOK
  <2>5. TypeOK'
    BY <1>3, <2>1, <2>3, <2>4 DEF ApplyRefund, MarkRefunded, TypeOK, request
  <2>6. RequestInv'
    <3>1. \A q \in Requests : records'[q] # "none" => records[q] # "none"
      BY <1>3, <2>1 DEF ApplyRefund, MarkRefunded, TypeOK, RefundInv
    <3> QED BY <1>3, <3>1, NoRequestMoves DEF ApplyRefund
  <2>7. RefundInv'
    BY <1>3, <2>1 DEF ApplyRefund, MarkRefunded, TypeOK, RefundInv
  <2> QED BY <2>5, <2>6, <2>7
<1> QED BY <1>1, <1>2, <1>3 DEF AdminStep

LEMMA IStep == IInv /\ [Next]_vars => IInv'
<1>1. CASE UNCHANGED vars
  <2>1. IInv => RequestInv'
    BY <1>1, NoRequestMoves DEF vars
  <2> QED BY <1>1, <2>1 DEF vars, account, request, IInv, TypeOK, RefundInv
<1>2. ASSUME IInv, NEW r \in Requests, RequestStep(r) PROVE IInv'
  BY <1>2, QuietRequestStep, MoneyRequestStep DEF RequestStep
<1> QED BY <1>1, <1>2, UserStepKeeps, AdminStepKeeps DEF Next

LEMMA IAlways == Spec => []IInv
BY IInit, IStep, PTL DEF Spec

(* No account column ever becomes negative, whatever is debited, refunded and
   withdrawn at the same time. *)
THEOREM TypeCorrect == Spec => []TypeOK
<1>1. IInv => TypeOK
  BY DEF IInv
<1> QED BY <1>1, IAlways, PTL

(* A download is served only against what its request read the price to be: a
   voucher, the price or half of it; for nothing only when no price was read. *)
THEOREM PricePaidAsRead == Spec => []ServedIsPaid
<1>1. IInv => ServedIsPaid
  BY DEF IInv, RequestInv, RequestOK, FairlyPaid, FullOrHalf, ServedIsPaid
<1> QED BY <1>1, IAlways, PTL

-----------------------------------------------------------------------------
(* The books. *)

BooksInv == LedgerExplainsBalance /\ DebtMeansEmpty

LEMMA BooksStep == IInv /\ BooksInv /\ [Next]_vars => BooksInv'
<1> SUFFICES ASSUME IInv, BooksInv, [Next]_vars PROVE BooksInv'
  OBVIOUS
<1> USE DEF IInv, BooksInv
<1>1. ASSUME UNCHANGED <<account, ledger>> PROVE BooksInv'
  BY <1>1 DEF account, LedgerExplainsBalance, DebtMeansEmpty, Balance
<1>2. ASSUME NEW r \in Requests, Debit(r) PROVE BooksInv'
  BY <1>2 DEF Debit, LedgerExplainsBalance, DebtMeansEmpty, Balance, TypeOK
<1>3. ASSUME NEW r \in Requests, Credit(r) PROVE BooksInv'
  <2> DEFINE e == SellerEarning(due[r])
             v == Uploader[skill[r]]
             left == AfterDebt(v, e)
  <2>1. v \in Users /\ due[r] \in Nat /\ e \in Nat
    BY <1>3, Split DEF Credit, RequestInv, RequestOK, Paying, TypeOK
  <2>2. /\ left \in Nat /\ debt[v] \in Nat
        /\ left > 0 => debt[v] - (e - left) = 0
        /\ debt[v] - (e - left) > 0 => debt[v] > 0
    BY <2>1 DEF AfterDebt, TypeOK
  <2>3. \/ settled' = [settled EXCEPT ![v] = @ + left] /\ pending' = pending
        \/ pending' = [pending EXCEPT ![v] = @ + left] /\ settled' = settled
    BY <1>3 DEF Credit
  <2>4. /\ debt' = [debt EXCEPT ![v] = @ - (e - left)]
        /\ ledger' = [ledger EXCEPT ![v] = @ + e] /\ credits' = credits
    BY <1>3 DEF Credit
  <2> HIDE DEF e, v, left
  <2>5. LedgerExplainsBalance'
    <3> SUFFICES ASSUME NEW u \in Users PROVE Balance(u)' = ledger'[u]
      BY DEF LedgerExplainsBalance
    <3>1. /\ settled'[u] + pending'[u] = settled[u] + pending[u] + (IF u = v THEN left ELSE 0)
          /\ debt'[u] = debt[u] - (IF u = v THEN e - left ELSE 0)
          /\ ledger'[u] = ledger[u] + (IF u = v THEN e ELSE 0) /\ credits'[u] = credits[u]
      BY <2>1, <2>2, <2>3, <2>4 DEF TypeOK
    <3>2. Balance(u) = ledger[u]
      BY DEF LedgerExplainsBalance
    <3>3. /\ settled'[u] \in Int /\ pending'[u] \in Int /\ debt'[u] \in Int
          /\ settled[u] \in Int /\ pending[u] \in Int /\ debt[u] \in Int
          /\ credits[u] \in Int /\ ledger[u] \in Int
      BY <2>1, <2>2, <2>3, <2>4 DEF TypeOK
    <3> QED BY <2>1, <2>2, <3>1, <3>2, <3>3 DEF Balance
  <2>6. DebtMeansEmpty'
    BY <2>1, <2>2, <2>3, <2>4 DEF DebtMeansEmpty, TypeOK
  <2> QED BY <2>5, <2>6
<1>4. ASSUME NEW r \in Requests, RequestStep(r) PROVE BooksInv'
  BY <1>1, <1>2, <1>3, <1>4 DEF RequestStep, Download, EnsureAccountReads, CreateUser, UseVoucher,
     Quote, RecordPlatformFee, CreatePurchase, WriteFails, Serve, Abandon, account
<1>5. ASSUME NEW u \in Users, NEW n \in Amounts, TopUp(u, n) PROVE BooksInv'
  BY <1>5 DEF TopUp, LedgerExplainsBalance, DebtMeansEmpty, Balance, TypeOK
<1>6. ASSUME NEW u \in Users, NEW n \in Amounts, Withdraw(u, n) PROVE BooksInv'
  BY <1>6 DEF Withdraw, MayWithdraw, LedgerExplainsBalance, DebtMeansEmpty, Balance, TypeOK
<1>7. ASSUME NEW u \in Users, UserStep(u) PROVE BooksInv'
  BY <1>1, <1>5, <1>6, <1>7 DEF UserStep, VerifyAccount, VouchersExpire, account
<1>8. ASSUME NEW a \in Admins, ApplyRefund(a) PROVE BooksInv'
  <2> DEFINE r == refund[a]
             b == buyer[r]
             v == Uploader[skill[r]]
             d == due[r]
             e == SellerEarning(d)
             s == Shortfall(v, e)
             rest == IF settled[v] >= e THEN settled[v] - e ELSE 0
  <2>1. v \in Users /\ b \in Users /\ d \in Nat /\ e \in Nat
    BY <1>8, Split DEF ApplyRefund, TypeOK, RefundInv, RequestInv, RequestOK
  <2>2. /\ s \in Nat /\ rest \in Nat /\ settled[v] \in Nat
        /\ rest - s = settled[v] - e
        /\ s > 0 => rest = 0
        /\ settled[v] = 0 => rest = 0
    BY <2>1 DEF Shortfall, TypeOK
  <2>3. /\ credits' = [credits EXCEPT ![b] = @ + d]
        /\ settled' = [settled EXCEPT ![v] = rest]
        /\ debt' = [debt EXCEPT ![v] = @ + s] /\ pending' = pending
        /\ ledger' = [u \in Users |-> ledger[u] + (IF u = b THEN d ELSE 0)
                                                - (IF u = v THEN e ELSE 0)]
    BY <1>8 DEF ApplyRefund
  <2> HIDE DEF r, b, v, d, e, s, rest
  <2>5. LedgerExplainsBalance'
    <3> SUFFICES ASSUME NEW u \in Users PROVE Balance(u)' = ledger'[u]
      BY DEF LedgerExplainsBalance
    <3>1. /\ credits'[u] = credits[u] + (IF u = b THEN d ELSE 0)
          /\ settled'[u] = IF u = v THEN rest ELSE settled[u]
          /\ debt'[u] = debt[u] + (IF u = v THEN s ELSE 0)
          /\ pending'[u] = pending[u]
          /\ ledger'[u] = ledger[u] + (IF u = b THEN d ELSE 0) - (IF u = v THEN e ELSE 0)
      BY <2>1, <2>3 DEF TypeOK
    <3>2. Balance(u) = ledger[u]
      BY DEF LedgerExplainsBalance
    <3> QED BY <2>1, <2>2, <3>1, <3>2 DEF Balance, TypeOK
  <2>6. DebtMeansEmpty'
    BY <2>1, <2>2, <2>3 DEF DebtMeansEmpty, TypeOK
  <2> QED BY <2>5, <2>6
<1>9. ASSUME NEW a \in Admins, AdminStep(a) PROVE BooksInv'
  BY <1>1, <1>8, <1>9 DEF AdminStep, ReadPurchase, AbandonRefund
<1>10. CASE UNCHANGED vars
  BY <1>1, <1>10 DEF vars
<1> QED BY <1>4, <1>7, <1>9, <1>10 DEF Next

LEMMA BooksAlways == Spec => []BooksInv
<1>1. Init => BooksInv
  BY DEF Init, BooksInv, LedgerExplainsBalance, DebtMeansEmpty, Balance
<1> QED BY <1>1, BooksStep, IAlways, PTL DEF Spec

(* The transactions of a user explain its balance to the last credit. *)
THEOREM BooksBalance == Spec => []LedgerExplainsBalance
<1>1. BooksInv => LedgerExplainsBalance
  BY DEF BooksInv
<1> QED BY <1>1, BooksAlways, PTL

(* Who owes the market something has nothing settled to withdraw. *)
THEOREM DebtsComeFirst == Spec => []DebtMeansEmpty
<1>1. BooksInv => DebtMeansEmpty
  BY DEF BooksInv
<1> QED BY <1>1, BooksAlways, PTL

-----------------------------------------------------------------------------
(* Vouchers. *)

Spent(u) == {r \in Requests : buyer[r] = u /\ paid[r] = "voucher"}

LEMMA SpentFinite == ASSUME NEW u PROVE IsFiniteSet(Spent(u)) /\ Cardinality(Spent(u)) \in Nat
BY FS_Subset, FS_CardinalityType DEF Spent

LEMMA VoucherStep ==
  ASSUME IInv, VouchersSpentOnce, [Next]_vars
  PROVE  VouchersSpentOnce'
<1> USE DEF IInv
<1>0. VouchersSpentOnce <=> \A u \in Users : status[u] # "none" =>
                              vouchers[u] + Cardinality(Spent(u)) = Vouchers
  BY DEF VouchersSpentOnce, Spent
<1>a. VouchersSpentOnce' <=> \A u \in Users : status'[u] # "none" =>
                              vouchers'[u] + Cardinality(Spent(u)') = Vouchers
  BY DEF VouchersSpentOnce, Spent
<1>1. ASSUME UNCHANGED <<vouchers, buyer>>,
             \A u \in Users : status'[u] # "none" => status[u] # "none",
             \A q \in Requests : paid'[q] = "voucher" <=> paid[q] = "voucher"
      PROVE  VouchersSpentOnce'
  <2>1. \A u \in Users : Spent(u)' = Spent(u)
    BY <1>1 DEF Spent
  <2> QED BY <1>0, <1>a, <1>1, <2>1
<1>2. ASSUME NEW r \in Requests, CreateUser(r) PROVE VouchersSpentOnce'
  <2>1. \A u \in Users : Spent(u)' = Spent(u)
    BY <1>2 DEF CreateUser, Spent
  <2>2. CASE status[buyer[r]] = "none"
    <3>1. Spent(buyer[r]) = {}
      BY <2>2 DEF RequestInv, RequestOK, Spent
    <3>2. Cardinality(Spent(buyer[r])) = 0
      BY <3>1, FS_EmptySet
    <3> QED BY <1>0, <1>a, <1>2, <2>1, <2>2, <3>2 DEF CreateUser, TypeOK
  <2>3. CASE status[buyer[r]] # "none"
    BY <1>0, <1>a, <1>2, <2>1, <2>3 DEF CreateUser, TypeOK
  <2> QED BY <2>2, <2>3
<1>3. ASSUME NEW r \in Requests, UseVoucher(r) PROVE VouchersSpentOnce'
  <2>0. PICK b \in Users : b = buyer[r]
    BY DEF TypeOK
  <2>1. CASE /\ vouchers[b] > 0 /\ vouchers' = [vouchers EXCEPT ![b] = @ - 1]
             /\ paid' = [paid EXCEPT ![r] = "voucher"]
    <3>1. r \notin Spent(b) /\ status' = status
      BY <1>3, <2>0 DEF UseVoucher, TypeOK, RequestInv, RequestOK, Early, Spent
    <3>2. Spent(b)' = Spent(b) \cup {r} /\ \A u \in Users \ {b} : Spent(u)' = Spent(u)
      BY <1>3, <2>0, <2>1 DEF UseVoucher, Spent, TypeOK
    <3>3. Cardinality(Spent(b)') = Cardinality(Spent(b)) + 1
      BY <3>1, <3>2, SpentFinite, FS_AddElement
    <3> SUFFICES ASSUME NEW u \in Users, status'[u] # "none"
                 PROVE  vouchers'[u] + Cardinality(Spent(u)') = Vouchers
      BY <1>a
    <3>5. vouchers[u] + Cardinality(Spent(u)) = Vouchers
      BY <1>0, <3>1
    <3>6. CASE u = b
      <4>1. vouchers'[b] = vouchers[b] - 1 /\ vouchers[b] \in Nat
        BY <2>1, <3>1 DEF TypeOK
      <4>2. Cardinality(Spent(b)) \in Nat
        BY SpentFinite
      <4> QED BY <3>3, <3>5, <3>6, <4>1, <4>2
    <3>7. CASE u # b
      BY <2>1, <3>2, <3>5, <3>7 DEF TypeOK
    <3> QED BY <3>6, <3>7
  <2>2. CASE UNCHANGED <<vouchers, paid>>
    BY <1>1, <1>3, <2>2 DEF UseVoucher
  <2> QED BY <1>3, <2>0, <2>1, <2>2 DEF UseVoucher
<1>4. ASSUME NEW r \in Requests, Debit(r) PROVE VouchersSpentOnce'
  <2>1. paid[r] = "nothing"
    BY <1>4 DEF Debit, RequestInv, RequestOK, Early
  <2> QED BY <1>1, <1>4, <2>1 DEF Debit, TypeOK
<1>5. ASSUME NEW r \in Requests, RequestStep(r) PROVE VouchersSpentOnce'
  BY <1>1, <1>2, <1>3, <1>4, <1>5 DEF RequestStep, Download, EnsureAccountReads, Quote, Credit,
     RecordPlatformFee, CreatePurchase, WriteFails, Serve, Abandon
<1>6. ASSUME NEW u \in Users, UserStep(u) PROVE VouchersSpentOnce'
  <2>1. UNCHANGED <<vouchers, buyer, paid>>
    BY <1>6 DEF UserStep, VerifyAccount, VouchersExpire, TopUp, Withdraw, request
  <2>2. \A x \in Users : status'[x] # "none" => status[x] # "none"
    BY <1>6 DEF UserStep, VerifyAccount, VouchersExpire, TopUp, Withdraw, TypeOK
  <2> QED BY <1>1, <2>1, <2>2
<1>7. ASSUME NEW a \in Admins, AdminStep(a) PROVE VouchersSpentOnce'
  <2>1. UNCHANGED <<status, vouchers, buyer, paid>>
    BY <1>7 DEF AdminStep, ReadPurchase, AbandonRefund, ApplyRefund, request
  <2> QED BY <1>1, <2>1
<1>8. CASE UNCHANGED vars
  <2>1. UNCHANGED <<status, vouchers, buyer, paid>>
    BY <1>8 DEF vars, request
  <2> QED BY <1>1, <2>1
<1> QED BY <1>5, <1>6, <1>7, <1>8 DEF Next

(* Vouchers are granted once and each pays once. *)
THEOREM VouchersCount == Spec => []VouchersSpentOnce
<1>1. Init => VouchersSpentOnce
  <2> SUFFICES ASSUME Init, NEW u \in Users, status[u] # "none"
               PROVE  vouchers[u] + Cardinality(Spent(u)) = Vouchers
    BY DEF VouchersSpentOnce, Spent
  <2>1. Spent(u) = {}
    BY DEF Init, Spent
  <2>2. Cardinality(Spent(u)) = 0
    BY <2>1, FS_EmptySet
  <2> QED BY <2>2 DEF Init
<1>2. IInv /\ VouchersSpentOnce /\ [Next]_vars => VouchersSpentOnce'
  BY VoucherStep
<1> QED BY <1>1, <1>2, IAlways, PTL DEF Spec

-----------------------------------------------------------------------------
HIDE MarketAssumption

(* Sums.  A set of natural numbers with 0 and the successor of each of its
   members is Nat, so a property of the empty set that a member more preserves
   holds of every finite set. *)
LEMMA NatSetInduction ==
  ASSUME NEW T \in SUBSET Nat, 0 \in T, \A n \in T : n + 1 \in T
  PROVE  T = Nat
<1> DEFINE R == {ss \in Nat \X Nat : ss[1] < ss[2]}
<1>1. IsWellFoundedOn(R, Nat)
  BY NatLessThanWellFounded, Zenon DEF OpToRel
<1>2. SUFFICES ASSUME Nat \ T # {} PROVE FALSE
  OBVIOUS
<1>3. PICK m \in Nat \ T : \A n \in Nat \ T : <<n, m>> \notin R
  BY <1>1, <1>2, WFMin, Zenon
<1>4. m - 1 \in Nat /\ <<m - 1, m>> \in R
  <2>1. m \in Nat /\ m # 0
    BY <1>3
  <2> QED BY <2>1
<1> QED BY <1>3, <1>4

(* The member a sum takes first, and what it adds up next. *)
First(s) == CHOOSE x \in s : TRUE
Rest(s)  == s \ {First(s)}

LEMMA RestSmaller ==
  ASSUME NEW s, IsFiniteSet(s), s # {}
  PROVE  /\ First(s) \in s /\ First(s) \notin Rest(s) /\ s = Rest(s) \cup {First(s)}
         /\ IsFiniteSet(Rest(s)) /\ Cardinality(Rest(s)) \in Nat
         /\ Cardinality(s) = Cardinality(Rest(s)) + 1
<1>1. First(s) \in s
  BY DEF First
<1>2. /\ IsFiniteSet(Rest(s)) /\ Cardinality(s) \in Nat /\ Cardinality(Rest(s)) \in Nat
      /\ Cardinality(Rest(s)) = Cardinality(s) - 1
  BY <1>1, FS_RemoveElement, FS_CardinalityType DEF Rest
<1> QED BY <1>1, <1>2 DEF Rest

LEMMA SubsetInduction ==
  ASSUME NEW S, IsFiniteSet(S), NEW T \in SUBSET SUBSET S, {} \in T,
         \A s \in SUBSET S : s # {} /\ Rest(s) \in T => s \in T
  PROVE  T = SUBSET S
<1> DEFINE N == {n \in Nat : \A s \in SUBSET S : Cardinality(s) = n => s \in T}
<1>1. 0 \in N
  BY FS_EmptySet, FS_Subset
<1>2. ASSUME NEW n \in N PROVE n + 1 \in N
  <2> SUFFICES ASSUME NEW s \in SUBSET S, Cardinality(s) = n + 1 PROVE s \in T
    OBVIOUS
  <2>1. IsFiniteSet(s) /\ s # {}
    BY FS_Subset, FS_EmptySet
  <2>2. Rest(s) \in SUBSET S /\ Cardinality(Rest(s)) = n
    <3>1. Cardinality(Rest(s)) \in Nat /\ n + 1 = Cardinality(Rest(s)) + 1 /\ n \in Nat
      BY <2>1, RestSmaller
    <3> QED BY <3>1 DEF Rest
  <2> QED BY <2>1, <2>2
<1>3. N = Nat
  <2> HIDE DEF N
  <2>1. N \in SUBSET Nat
    BY DEF N
  <2> QED BY <1>1, <1>2, <2>1, NatSetInduction
<1> QED BY <1>3, FS_Subset, FS_CardinalityType

(* What MapThenSumSet computes. *)
Running(f, S) ==
  CHOOSE sum : sum = [s \in SUBSET S |->
                        IF s = {} THEN 0
                        ELSE LET x == CHOOSE x \in s : TRUE IN f[x] + sum[s \ {x}]]
Total(f, S) == Running(f, S)[S]

Adds(sum, f, D) ==
  \A s \in D : sum[s] = IF s = {} THEN 0 ELSE f[First(s)] + sum[Rest(s)]

LEMMA RunningExists ==
  ASSUME NEW S, IsFiniteSet(S), NEW f
  PROVE  \E sum : sum = [s \in SUBSET S |-> sum[s]] /\ Adds(sum, f, SUBSET S)
<1> DEFINE Small(n) == {s \in SUBSET S : Cardinality(s) <= n}
           Is(sum, n) == sum = [s \in Small(n) |-> sum[s]] /\ Adds(sum, f, Small(n))
           N == {n \in Nat : \E sum : Is(sum, n)}
<1>0. \A s \in SUBSET S : IsFiniteSet(s) /\ Cardinality(s) \in Nat
  BY FS_Subset, FS_CardinalityType
<1>1. 0 \in N
  <2>1. \A s \in Small(0) : s = {}
    BY <1>0, FS_EmptySet
  <2>2. Is([s \in Small(0) |-> 0], 0)
    BY <2>1 DEF Adds
  <2> QED BY <2>2
<1>2. ASSUME NEW n \in N PROVE n + 1 \in N
  <2>1. PICK sum : Is(sum, n)
    OBVIOUS
  <2> DEFINE more == [s \in Small(n + 1) |->
                        IF s = {} THEN 0 ELSE f[First(s)] + sum[Rest(s)]]
  <2>2. \A s \in Small(n + 1) : s # {} => Rest(s) \in Small(n)
    <3> SUFFICES ASSUME NEW s \in Small(n + 1), s # {} PROVE Rest(s) \in Small(n)
      OBVIOUS
    <3>1. Rest(s) \in SUBSET S /\ Cardinality(s) <= n + 1 /\ n \in Nat
      BY DEF Rest
    <3>2. Cardinality(Rest(s)) \in Nat /\ Cardinality(s) = Cardinality(Rest(s)) + 1
      BY <1>0, RestSmaller
    <3> QED BY <3>1, <3>2
  <2>3. Small(n) \subseteq Small(n + 1)
    BY <1>0
  <2>4. \A s \in Small(n) : more[s] = sum[s]
    BY <2>1, <2>3 DEF Adds
  <2>5. Is(more, n + 1)
    <3> HIDE DEF Small
    <3> QED BY <2>2, <2>4 DEF Adds
  <2> HIDE DEF Is
  <2> QED BY <2>5
<1>3. N = Nat
  <2> HIDE DEF N
  <2>1. N \in SUBSET Nat
    BY DEF N
  <2> QED BY <1>1, <1>2, <2>1, NatSetInduction
<1>4. Cardinality(S) \in Nat /\ Small(Cardinality(S)) = SUBSET S
  BY FS_Subset, FS_CardinalityType
<1>5. PICK sum : Is(sum, Cardinality(S))
  BY <1>3, <1>4
<1> QED BY <1>4, <1>5

LEMMA RunningAdds ==
  ASSUME NEW S, IsFiniteSet(S), NEW f
  PROVE  Adds(Running(f, S), f, SUBSET S)
<1>1. PICK sum : sum = [s \in SUBSET S |-> sum[s]] /\ Adds(sum, f, SUBSET S)
  BY RunningExists
<1>2. sum = [s \in SUBSET S |->
               IF s = {} THEN 0 ELSE LET x == CHOOSE x \in s : TRUE IN f[x] + sum[s \ {x}]]
  BY <1>1 DEF Adds, First, Rest
<1> DEFINE run == Running(f, S)
<1>3. run = [s \in SUBSET S |->
               IF s = {} THEN 0 ELSE LET x == CHOOSE x \in s : TRUE IN f[x] + run[s \ {x}]]
  BY <1>2, Zenon DEF Running
<1> HIDE DEF run
<1>4. Adds(run, f, SUBSET S)
  BY <1>3 DEF Adds, First, Rest
<1> QED BY <1>4 DEF run

LEMMA RunningSums ==
  ASSUME NEW S, IsFiniteSet(S), NEW f \in [S -> Int]
  PROVE  \A s \in SUBSET S : Running(f, S)[s] \in Int
<1> DEFINE T == {s \in SUBSET S : Running(f, S)[s] \in Int}
<1>1. {} \in T
  BY RunningAdds DEF Adds
<1>2. ASSUME NEW s \in SUBSET S, s # {}, Rest(s) \in T PROVE s \in T
  <2>1. First(s) \in S
    BY <1>2 DEF First
  <2> QED BY <1>2, <2>1, RunningAdds DEF Adds
<1>3. T = SUBSET S
  <2> HIDE DEF T
  <2>1. T \in SUBSET SUBSET S
    BY DEF T
  <2> QED BY <1>1, <1>2, <2>1, SubsetInduction
<1> QED BY <1>3

(* A sum is whatever adds up the same way. *)
LEMMA TotalIs ==
  ASSUME NEW S, IsFiniteSet(S), NEW f, NEW g, g[{}] = 0,
         \A s \in SUBSET S : s # {} => g[s] = f[First(s)] + g[Rest(s)]
  PROVE  Total(f, S) = g[S]
<1> DEFINE T == {s \in SUBSET S : Running(f, S)[s] = g[s]}
<1>1. {} \in T
  BY RunningAdds DEF Adds
<1>2. ASSUME NEW s \in SUBSET S, s # {}, Rest(s) \in T PROVE s \in T
  BY <1>2, RunningAdds DEF Adds
<1>3. T = SUBSET S
  <2> HIDE DEF T
  <2>1. T \in SUBSET SUBSET S
    BY DEF T
  <2> QED BY <1>1, <1>2, <2>1, SubsetInduction
<1> QED BY <1>3 DEF Total

LEMMA TotalNat ==
  ASSUME NEW S, IsFiniteSet(S), NEW f \in [S -> Nat]
  PROVE  Total(f, S) \in Nat
<1> DEFINE T == {s \in SUBSET S : Running(f, S)[s] \in Nat}
<1>1. {} \in T
  <2>1. Running(f, S)[{}] = 0
    BY RunningAdds DEF Adds
  <2> QED BY <2>1
<1>2. ASSUME NEW s \in SUBSET S, s # {}, Rest(s) \in T PROVE s \in T
  <2>1. First(s) \in S
    BY <1>2 DEF First
  <2> QED BY <1>2, <2>1, RunningAdds DEF Adds
<1>3. T = SUBSET S
  <2> HIDE DEF T
  <2>1. T \in SUBSET SUBSET S
    BY DEF T
  <2> QED BY <1>1, <1>2, <2>1, SubsetInduction
<1> QED BY <1>3 DEF Total

LEMMA TotalZero ==
  ASSUME NEW S, IsFiniteSet(S), NEW f, \A x \in S : f[x] = 0
  PROVE  Total(f, S) = 0
<1> DEFINE g == [s \in SUBSET S |-> 0]
<1>1. \A s \in SUBSET S : s # {} => Rest(s) \in SUBSET S /\ First(s) \in S
  BY DEF First, Rest
<1>2. g[{}] = 0 /\ \A s \in SUBSET S : s # {} => g[s] = f[First(s)] + g[Rest(s)]
  BY <1>1
<1> HIDE DEF g
<1>3. Total(f, S) = g[S]
  BY <1>2, TotalIs
<1> QED BY <1>3 DEF g

(* Changing one summand changes the sum by as much. *)
LEMMA TotalChange ==
  ASSUME NEW S, IsFiniteSet(S), NEW f \in [S -> Int], NEW a \in S, NEW d \in Int,
         NEW f1, \A x \in S : f1[x] = f[x] + (IF x = a THEN d ELSE 0)
  PROVE  Total(f1, S) = Total(f, S) + d
<1> DEFINE run == Running(f, S)
           g == [s \in SUBSET S |-> run[s] + (IF a \in s THEN d ELSE 0)]
<1>1. run[{}] = 0 /\ \A s \in SUBSET S : s # {} => run[s] = f[First(s)] + run[Rest(s)]
  BY RunningAdds DEF Adds
<1>2. \A s \in SUBSET S : run[s] \in Int
  BY RunningSums
<1> HIDE DEF run
<1>3. g[{}] = 0
  BY <1>1
<1>4. ASSUME NEW s \in SUBSET S, s # {} PROVE g[s] = f1[First(s)] + g[Rest(s)]
  <2>1. /\ First(s) \in S /\ Rest(s) \in SUBSET S
        /\ a \in s <=> a = First(s) \/ a \in Rest(s)
        /\ First(s) \notin Rest(s)
    BY <1>4 DEF First, Rest
  <2> DEFINE x == First(s)  r == Rest(s)
  <2>2. /\ g[s] = run[s] + (IF a \in s THEN d ELSE 0)
        /\ g[r] = run[r] + (IF a \in r THEN d ELSE 0)
        /\ run[s] = f[x] + run[r] /\ f[x] \in Int /\ run[r] \in Int
        /\ f1[x] = f[x] + (IF x = a THEN d ELSE 0)
    BY <1>1, <1>2, <1>4, <2>1
  <2> HIDE DEF g, x, r
  <2>3. CASE a = x
    BY <2>1, <2>2, <2>3 DEF x, r
  <2>4. CASE a # x
    BY <2>1, <2>2, <2>4 DEF x, r
  <2> QED BY <2>3, <2>4 DEF x, r
<1> HIDE DEF g
<1>5. Total(f1, S) = g[S]
  BY <1>3, <1>4, TotalIs
<1>6. g[S] = run[S] + d
  BY DEF g
<1> QED BY <1>5, <1>6 DEF Total, run

(* The sum of what all users have, as the invariant of the model states it. *)
LEMMA BalancesTotal ==
  ASSUME LedgerExplainsBalance, ledger \in [Users -> Int]
  PROVE  MapThenSumSet(Balance, Users) = Total(ledger, Users)
<1> DEFINE f == [u \in Users |-> Balance(u)]
<1>1. MapThenSumSet(Balance, Users) = MapThenSumSet(LAMBDA u : f[u], Users)
  BY DEF MapThenSumSet, MapThenFoldSet
<1>2. f = ledger
  BY DEF LedgerExplainsBalance
<1> HIDE DEF f
<1>3. MapThenSumSet(LAMBDA u : f[u], Users) = Total(f, Users)
  BY DEF MapThenSumSet, MapThenFoldSet, Total, Running
<1> QED BY <1>1, <1>2, <1>3

-----------------------------------------------------------------------------
(* What a request has taken from its buyer and not handed on: the price until
   the uploader is credited, then the fee, which a refund gives back. *)
Held ==
  [r \in Requests |->
     IF paid[r] # "credits" \/ records[r] = "refunded" THEN 0
     ELSE IF pc[r] = "credit" THEN due[r] ELSE PlatformFee(due[r])]

MoneyInv == Total(ledger, Users) + Total(Held, Requests) + withdrawn <= topped

(* A purchase is recorded when it has been paid and the uploader's turn is over. *)
RecordInv ==
  \A r \in Requests : records[r] # "none" =>
    paid[r] = "credits" /\ pc[r] \in {"serve", "served", "refused", "gone"}

LEMMA RecordRequest ==
  ASSUME IInv, RecordInv, NEW r \in Requests, RequestStep(r)
  PROVE  RecordInv'
<1>2. \E to \in Steps : pc' = [pc EXCEPT ![r] = to] /\ (pc[r] = "serve" => to \in Over)
  BY DEF RequestStep, Download, EnsureAccountReads, CreateUser, UseVoucher, Quote, Debit, Credit,
         RecordPlatformFee, CreatePurchase, WriteFails, Serve, Abandon, AfterAccount, Goto, Steps, Over
<1>3. pc[r] \notin {"served", "refused", "gone"}
  BY DEF RequestStep, Download, EnsureAccountReads, CreateUser, UseVoucher, Quote, Debit, Credit,
         RecordPlatformFee, CreatePurchase, WriteFails, Serve, Abandon, Over
<1>4. CASE CreatePurchase(r)
  BY <1>4 DEF CreatePurchase, Goto, IInv, TypeOK, RequestInv, RequestOK, RecordInv, Paying
<1>5. CASE ~CreatePurchase(r)
  <2>1. /\ UNCHANGED records
        /\ paid' = paid \/ (pc[r] \in {"voucher", "debit"} /\ \E way \in {"voucher", "credits"} :
                              paid' = [paid EXCEPT ![r] = way])
    BY <1>5 DEF RequestStep, Download, EnsureAccountReads, CreateUser, UseVoucher, Quote, Debit, Credit,
                RecordPlatformFee, WriteFails, Serve, Abandon
  <2> QED BY <1>2, <1>3, <2>1 DEF IInv, TypeOK, RecordInv, Over
<1> QED BY <1>4, <1>5

LEMMA RecordStep == IInv /\ RecordInv /\ [Next]_vars => RecordInv'
<1> SUFFICES ASSUME IInv, RecordInv, [Next]_vars PROVE RecordInv'
  OBVIOUS
<1>1. ASSUME UNCHANGED <<pc, paid>>,
             \A r \in Requests : records'[r] # "none" => records[r] # "none"
      PROVE  RecordInv'
  BY <1>1 DEF RecordInv
<1>2. ASSUME NEW u \in Users, UserStep(u) PROVE RecordInv'
  BY <1>1, <1>2 DEF UserStep, VerifyAccount, VouchersExpire, TopUp, Withdraw, request
<1>3. ASSUME NEW a \in Admins, AdminStep(a) PROVE RecordInv'
  <2>1. UNCHANGED <<pc, paid>>
    BY <1>3 DEF AdminStep, ReadPurchase, ApplyRefund, AbandonRefund, request
  <2>2. \A r \in Requests : records'[r] # "none" => records[r] # "none"
    BY <1>3 DEF AdminStep, ReadPurchase, ApplyRefund, AbandonRefund, MarkRefunded, IInv, TypeOK,
                RefundInv
  <2> QED BY <1>1, <2>1, <2>2
<1>4. CASE UNCHANGED vars
  BY <1>1, <1>4 DEF vars, request
<1> QED BY <1>2, <1>3, <1>4, RecordRequest DEF Next

LEMMA HeldTypes == ASSUME IInv PROVE Held \in [Requests -> Nat]
<1>1. \A r \in Requests : due[r] \in Nat /\ PlatformFee(due[r]) \in Nat
  BY Split DEF IInv, TypeOK
<1> QED BY <1>1 DEF Held

LEMMA Totals ==
  ASSUME IInv
  PROVE  Total(ledger, Users) \in Int /\ Total(Held, Requests) \in Nat
         /\ withdrawn \in Nat /\ topped \in Nat
<1>0. IsFiniteSet(Users) /\ IsFiniteSet(Requests) /\ Users \in SUBSET Users
  BY MarketAssumption, Zenon
<1>1. ledger \in [Users -> Int] /\ withdrawn \in Nat /\ topped \in Nat
  BY DEF IInv, TypeOK
<1>2. Total(Held, Requests) \in Nat
  BY <1>0, HeldTypes, TotalNat, Zenon
<1>3. Total(ledger, Users) \in Int
  <2>1. Running(ledger, Users)[Users] \in Int
    BY <1>0, <1>1, RunningSums, Zenon
  <2> QED BY <2>1 DEF Total
<1> QED BY <1>1, <1>2, <1>3

(* A request takes from an account, or pays to it, no more than it holds. *)
LEMMA MoneyMoves ==
  ASSUME IInv, MoneyInv, NEW r \in Requests, NEW u \in Users, NEW gain \in Int, NEW kept \in Int,
         \A x \in Users : ledger'[x] = ledger[x] + (IF x = u THEN gain ELSE 0),
         \A q \in Requests : Held'[q] = Held[q] + (IF q = r THEN kept ELSE 0),
         gain + kept <= 0, UNCHANGED <<topped, withdrawn>>
  PROVE  MoneyInv'
<1>1. ledger \in [Users -> Int] /\ Held \in [Requests -> Int]
  BY HeldTypes DEF IInv, TypeOK
<1>0. IsFiniteSet(Users) /\ IsFiniteSet(Requests)
  BY MarketAssumption, Zenon
<1>2. Total(ledger', Users) = Total(ledger, Users) + gain
  BY <1>0, <1>1, TotalChange, Zenon
<1>3. Total(Held', Requests) = Total(Held, Requests) + kept
  BY <1>0, <1>1, TotalChange, Zenon
<1> QED BY <1>2, <1>3, Totals DEF MoneyInv

LEMMA HeldAt ==
  ASSUME IInv, IInv', NEW q \in Requests
  PROVE  /\ Held[q] = IF paid[q] # "credits" \/ records[q] = "refunded" THEN 0
                      ELSE IF pc[q] = "credit" THEN due[q] ELSE PlatformFee(due[q])
         /\ Held'[q] = IF paid'[q] # "credits" \/ records'[q] = "refunded" THEN 0
                       ELSE IF pc'[q] = "credit" THEN due'[q] ELSE PlatformFee(due'[q])
         /\ due[q] \in Nat /\ PlatformFee(due[q]) \in Nat /\ PlatformFee(due[q]) <= due[q]
         /\ SellerEarning(due[q]) \in Nat
         /\ PlatformFee(due[q]) + SellerEarning(due[q]) = due[q]
         /\ Held[q] \in Nat /\ Held'[q] \in Nat
<1>1. due[q] \in Nat /\ due'[q] \in Nat
  BY DEF IInv, TypeOK
<1>2. /\ PlatformFee(due[q]) \in Nat /\ SellerEarning(due[q]) \in Nat
      /\ PlatformFee(due[q]) + SellerEarning(due[q]) = due[q]
      /\ PlatformFee(due'[q]) \in Nat
  BY <1>1, Split
<1> QED BY <1>1, <1>2 DEF Held

(* A request that leaves the accounts alone keeps or loses what it holds.   *)
LEMMA QuietMoney ==
  ASSUME IInv, IInv', RecordInv, MoneyInv, NEW r \in Requests,
         \/ Download(r) \/ EnsureAccountReads(r) \/ CreateUser(r) \/ UseVoucher(r) \/ Quote(r)
         \/ RecordPlatformFee(r) \/ CreatePurchase(r) \/ WriteFails(r) \/ Serve(r) \/ Abandon(r)
  PROVE  MoneyInv'
<1>1. UNCHANGED <<ledger, topped, withdrawn>>
  BY DEF Download, EnsureAccountReads, CreateUser, UseVoucher, Quote,
         RecordPlatformFee, CreatePurchase, WriteFails, Serve, Abandon
<1>2. /\ \E to \in Steps \ {"credit"} : pc' = [pc EXCEPT ![r] = to]
      /\ paid' = paid \/ (pc[r] = "voucher" /\ paid' = [paid EXCEPT ![r] = "voucher"])
      /\ records' = records
           \/ (pc[r] = "record" /\ records' = [records EXCEPT ![r] = "active"])
      /\ due' = due \/ (pc[r] \in {"lookup", "create", "quote"} /\ \E n : due' = [due EXCEPT ![r] = n])
  BY DEF Download, EnsureAccountReads, CreateUser, UseVoucher, Quote, AfterAccount, Goto, Steps,
         RecordPlatformFee, CreatePurchase, WriteFails, Serve, Abandon
<1>3. ASSUME NEW q \in Requests, q # r PROVE Held'[q] = Held[q]
  <2>1. pc'[q] = pc[q] /\ paid'[q] = paid[q] /\ records'[q] = records[q] /\ due'[q] = due[q]
    BY <1>2, <1>3 DEF IInv, TypeOK
  <2> QED BY <2>1, HeldAt
<1>4. Held'[r] \in Nat /\ Held[r] \in Nat /\ Held'[r] <= Held[r]
  <2>1. CASE pc[r] \in Early
    <3>1. paid[r] = "nothing" /\ paid'[r] # "credits"
      BY <1>2, <2>1 DEF IInv, TypeOK, RequestInv, RequestOK
    <3> QED BY <3>1, HeldAt
  <2>2. CASE pc[r] \notin Early
    <3>1. pc'[r] # "credit" /\ paid'[r] = paid[r] /\ due'[r] = due[r]
          /\ (records'[r] = records[r] \/ (records[r] = "none" /\ records'[r] = "active"))
      BY <1>2, <2>2 DEF IInv, TypeOK, RecordInv, Early
    <3> QED BY <3>1, HeldAt
  <2> QED BY <2>1, <2>2
<1> DEFINE kept == Held'[r] - Held[r]
<1>5. kept \in Int /\ 0 + kept <= 0
  BY <1>4
<1>6. \A q \in Requests : Held'[q] = Held[q] + (IF q = r THEN kept ELSE 0)
  <2>1. \A q \in Requests : Held[q] \in Nat
    BY HeldTypes
  <2> QED BY <1>3, <1>4, <2>1
<1>7. buyer[r] \in Users
  BY DEF IInv, TypeOK
<1>8. \A x \in Users : ledger'[x] = ledger[x] + (IF x = buyer[r] THEN 0 ELSE 0)
  BY <1>1 DEF IInv, TypeOK
<1> HIDE DEF kept
<1> QED BY <1>1, <1>5, <1>6, <1>7, <1>8, MoneyMoves

LEMMA DebitMoney ==
  ASSUME IInv, IInv', MoneyInv, NEW r \in Requests, Debit(r)
  PROVE  MoneyInv'
<1>1. buyer[r] \in Users /\ due[r] \in Nat /\ pc[r] = "debit" /\ paid[r] = "nothing"
  BY DEF Debit, IInv, TypeOK, RequestInv, RequestOK, Early
<1>2. UNCHANGED <<records, due, topped, withdrawn>>
  BY DEF Debit
<1>3. \E to \in {"serve", "credit", "refused"} : pc' = [pc EXCEPT ![r] = to]
  BY DEF Debit, Goto
<1>4. ASSUME NEW q \in Requests, q # r PROVE Held'[q] = Held[q]
  <2>1. pc'[q] = pc[q] /\ paid'[q] = paid[q]
    BY <1>3, <1>4 DEF Debit, IInv, TypeOK
  <2> QED BY <1>2, <2>1, HeldAt
<1>5. \A q \in Requests : Held[q] \in Nat /\ Held'[q] \in Nat
  BY HeldAt
<1> DEFINE kept == Held'[r] - Held[r]
<1>6. \E gain \in {0, -due[r]} :
        /\ \A x \in Users : ledger'[x] = ledger[x] + (IF x = buyer[r] THEN gain ELSE 0)
        /\ kept \in Int /\ gain + kept <= 0
  <2>0. Held[r] = 0
    BY <1>1, HeldAt
  <2>1. CASE due[r] > 0 /\ credits[buyer[r]] >= due[r]
    <3>1. \A x \in Users : ledger'[x] = ledger[x] + (IF x = buyer[r] THEN -due[r] ELSE 0)
      BY <1>1, <2>1 DEF Debit, IInv, TypeOK
    <3>2. Held'[r] \in Nat /\ Held'[r] <= due[r]
      BY <1>1, <1>2, HeldAt
    <3> QED BY <1>1, <2>0, <3>1, <3>2
  <2>2. CASE ~(due[r] > 0 /\ credits[buyer[r]] >= due[r])
    <3>1. UNCHANGED <<ledger, paid>>
      BY <2>2 DEF Debit
    <3>2. Held'[r] = 0
      BY <1>1, <3>1, HeldAt
    <3>3. \A x \in Users : ledger'[x] = ledger[x] + (IF x = buyer[r] THEN 0 ELSE 0)
      BY <3>1 DEF IInv, TypeOK
    <3> QED BY <2>0, <3>2, <3>3
  <2> QED BY <2>1, <2>2
<1>7. \A q \in Requests : Held'[q] = Held[q] + (IF q = r THEN kept ELSE 0)
  <2>1. Held'[r] = Held[r] + kept
    BY <1>5
  <2> QED BY <1>4, <1>5, <2>1
<1> HIDE DEF kept
<1> QED BY <1>1, <1>2, <1>6, <1>7, MoneyMoves

LEMMA CreditMoney ==
  ASSUME IInv, IInv', RecordInv, MoneyInv, NEW r \in Requests, Credit(r)
  PROVE  MoneyInv'
<1> DEFINE v == Uploader[skill[r]]
           e == SellerEarning(due[r])
<1>1. v \in Users /\ e \in Nat /\ pc[r] = "credit" /\ paid[r] = "credits" /\ records[r] = "none"
  <2>1. e \in Nat /\ pc[r] = "credit"
    BY HeldAt DEF Credit
  <2> QED BY <2>1 DEF IInv, TypeOK, RequestInv, RequestOK, Paying, RecordInv
<1>2. /\ UNCHANGED <<records, due, paid, topped, withdrawn>>
      /\ pc' = [pc EXCEPT ![r] = "fee"] /\ ledger' = [ledger EXCEPT ![v] = @ + e]
  BY DEF Credit, Goto
<1>3. \A q \in Requests : Held'[q] = Held[q] + (IF q = r THEN -e ELSE 0)
  <2>1. ASSUME NEW q \in Requests, q # r PROVE Held'[q] = Held[q] /\ Held[q] \in Nat
    <3>1. pc'[q] = pc[q]
      BY <1>2, <2>1 DEF IInv, TypeOK
    <3> QED BY <1>2, <3>1, HeldAt
  <2>2. pc'[r] = "fee"
    BY <1>2 DEF IInv, TypeOK
  <2>3. Held[r] = due[r] /\ Held'[r] = PlatformFee(due[r])
    BY <1>1, <1>2, <2>2, HeldAt
  <2>4. Held'[r] = Held[r] + (-e)
    BY <2>3, HeldAt
  <2> QED BY <2>1, <2>4
<1>4. \A x \in Users : ledger'[x] = ledger[x] + (IF x = v THEN e ELSE 0)
  BY <1>1, <1>2 DEF IInv, TypeOK
<1> HIDE DEF v, e
<1>5. e + (-e) <= 0 /\ e \in Int /\ -e \in Int
  BY <1>1
<1> QED BY <1>1, <1>2, <1>3, <1>4, <1>5, MoneyMoves

(* A refund hands back the fee that the market kept.                        *)
LEMMA RefundMoney ==
  ASSUME IInv, IInv', RecordInv, MoneyInv, NEW a \in Admins, ApplyRefund(a),
         records[refund[a]] = "active"
  PROVE  MoneyInv'
<1> DEFINE r == refund[a]
           b == buyer[r]
           v == Uploader[skill[r]]
           d == due[r]
           e == SellerEarning(d)
           half == [u \in Users |-> ledger[u] + (IF u = b THEN d ELSE 0)]
<1>1. /\ r \in Requests /\ records[r] = "active" /\ paid[r] = "credits" /\ pc[r] # "credit"
  BY DEF ApplyRefund, IInv, TypeOK, RecordInv
<1>2. b \in Users /\ v \in Users /\ d \in Nat /\ e \in Nat /\ PlatformFee(d) + e = d
      /\ PlatformFee(d) \in Nat
  BY <1>1, HeldAt DEF IInv, TypeOK, RequestInv, RequestOK
<1>3. /\ UNCHANGED <<pc, paid, due, topped, withdrawn>>
      /\ records' = [records EXCEPT ![r] = "refunded"]
      /\ ledger' = [u \in Users |-> ledger[u] + (IF u = b THEN d ELSE 0)
                                              - (IF u = v THEN e ELSE 0)]
  BY DEF ApplyRefund, MarkRefunded, request
<1>4. Held[r] = PlatformFee(d) /\ Held'[r] = 0
  <2>1. records'[r] = "refunded"
    BY <1>1, <1>3 DEF IInv, TypeOK
  <2> QED BY <1>1, <2>1, HeldAt
<1>5. \A q \in Requests : Held'[q] = Held[q] + (IF q = r THEN -PlatformFee(d) ELSE 0)
  <2>1. ASSUME NEW q \in Requests, q # r PROVE Held'[q] = Held[q] /\ Held[q] \in Nat
    <3>1. records'[q] = records[q]
      BY <1>1, <1>3, <2>1 DEF IInv, TypeOK
    <3> QED BY <1>3, <3>1, HeldAt
  <2> QED BY <1>2, <1>4, <2>1
<1>6. ledger \in [Users -> Int] /\ half \in [Users -> Int] /\ Held \in [Requests -> Int]
  BY <1>2, HeldTypes DEF IInv, TypeOK
<1>7. /\ \A x \in Users : half[x] = ledger[x] + (IF x = b THEN d ELSE 0)
      /\ \A x \in Users : ledger'[x] = half[x] + (IF x = v THEN -e ELSE 0)
  <2>1. ASSUME NEW x \in Users
        PROVE  /\ half[x] = ledger[x] + (IF x = b THEN d ELSE 0) /\ ledger[x] \in Int
               /\ ledger'[x] = half[x] - (IF x = v THEN e ELSE 0)
    <3> HIDE DEF r, b, v, d, e
    <3> QED BY <1>2, <1>3, <1>6
  <2> HIDE DEF r, b, v, d, e, half
  <2>2. ASSUME NEW x \in Users PROVE ledger'[x] = half[x] + (IF x = v THEN -e ELSE 0)
    <3>1. half[x] \in Int /\ ledger'[x] = half[x] - (IF x = v THEN e ELSE 0)
      BY <1>6, <2>1
    <3> QED BY <1>2, <3>1
  <2> QED BY <2>1, <2>2
<1>8. IsFiniteSet(Users) /\ IsFiniteSet(Requests)
  BY MarketAssumption, Zenon
<1>9. d \in Int /\ -e \in Int /\ -PlatformFee(d) \in Int
  BY <1>2
<1> HIDE DEF r, b, v, d, e, half
<1>10. Total(half, Users) = Total(ledger, Users) + d
  BY <1>2, <1>6, <1>7, <1>8, <1>9, TotalChange, Zenon
<1>11. Total(ledger', Users) = Total(half, Users) + (-e)
  BY <1>2, <1>6, <1>7, <1>8, <1>9, TotalChange, Zenon
<1>12. Total(Held', Requests) = Total(Held, Requests) + (-PlatformFee(d))
  BY <1>1, <1>5, <1>6, <1>8, <1>9, TotalChange, Zenon
<1>13. /\ Total(ledger, Users) \in Int /\ Total(Held, Requests) \in Nat
       /\ withdrawn \in Nat /\ topped \in Nat
  BY Totals
<1> QED BY <1>2, <1>3, <1>10, <1>11, <1>12, <1>13 DEF MoneyInv

LEMMA UserMoney ==
  ASSUME IInv, MoneyInv, NEW u \in Users, NEW n \in Amounts, TopUp(u, n) \/ Withdraw(u, n)
  PROVE  MoneyInv'
<1>0. IsFiniteSet(Users)
  BY MarketAssumption, Zenon
<1>1. n \in Nat /\ -n \in Int /\ ledger \in [Users -> Int]
  <2>1. n \in Nat
    BY MarketAssumption
  <2> QED BY <2>1 DEF IInv, TypeOK
<1>2. Held' = Held
  BY DEF TopUp, Withdraw, request, Held
<1>3. PICK d \in {n, -n} :
        /\ ledger' = [ledger EXCEPT ![u] = @ + d]
        /\ d - (topped' - topped) + (withdrawn' - withdrawn) = 0
        /\ topped' \in Nat /\ withdrawn' \in Nat
  <2>1. CASE TopUp(u, n)
    BY <1>1, <2>1 DEF TopUp, IInv, TypeOK
  <2>2. CASE Withdraw(u, n)
    <3>1. ledger' = [ledger EXCEPT ![u] = @ + (-n)]
      BY <1>1, <2>2 DEF Withdraw
    <3>2. topped' = topped /\ withdrawn' = withdrawn + n /\ topped \in Nat /\ withdrawn \in Nat
      BY <2>2 DEF Withdraw, IInv, TypeOK
    <3> QED BY <1>1, <3>1, <3>2
  <2> QED BY <2>1, <2>2
<1>4. \A x \in Users : ledger'[x] = ledger[x] + (IF x = u THEN d ELSE 0)
  BY <1>1, <1>3
<1>5. Total(ledger', Users) = Total(ledger, Users) + d
  <2>1. d \in Int
    BY <1>1
  <2> QED BY <1>0, <1>1, <1>4, <2>1, TotalChange, Zenon
<1>6. Total(Held', Requests) = Total(Held, Requests)
  BY <1>2
<1>7. d \in Int
  BY <1>1
<1> QED BY <1>3, <1>5, <1>6, <1>7, Totals DEF MoneyInv

(* The refund of this step, if it is one, is the first of its purchase.     *)
FirstRefund == \A a \in Admins : ApplyRefund(a) => records[refund[a]] = "active"

LEMMA MoneyStep ==
  IInv /\ IInv' /\ RecordInv /\ MoneyInv /\ [Next]_vars /\ [FirstRefund]_vars => MoneyInv'
<1> SUFFICES ASSUME IInv, IInv', RecordInv, MoneyInv, [Next]_vars, [FirstRefund]_vars
             PROVE  MoneyInv'
  OBVIOUS
<1>1. ASSUME UNCHANGED <<ledger, pc, due, paid, records, topped, withdrawn>> PROVE MoneyInv'
  <2>1. Held' = Held
    BY <1>1 DEF Held
  <2> QED BY <1>1, <2>1 DEF MoneyInv
<1>2. ASSUME NEW r \in Requests, RequestStep(r) PROVE MoneyInv'
  BY <1>2, QuietMoney, DebitMoney, CreditMoney DEF RequestStep
<1>3. ASSUME NEW u \in Users, UserStep(u) PROVE MoneyInv'
  <2>1. CASE VerifyAccount(u) \/ VouchersExpire(u)
    BY <1>1, <2>1 DEF VerifyAccount, VouchersExpire, request
  <2> QED BY <1>3, <2>1, UserMoney DEF UserStep
<1>4. CASE UNCHANGED vars
  BY <1>1, <1>4 DEF vars, request
<1>5. ASSUME NEW a \in Admins, AdminStep(a), FirstRefund PROVE MoneyInv'
  <2>1. CASE \E r \in Requests : ReadPurchase(a, r)
    BY <1>1, <2>1 DEF ReadPurchase, request
  <2>2. CASE AbandonRefund(a)
    BY <1>1, <2>2 DEF AbandonRefund, request
  <2> QED BY <1>5, <2>1, <2>2, RefundMoney DEF AdminStep, FirstRefund
<1> QED BY <1>2, <1>3, <1>4, <1>5 DEF Next

LEMMA MoneyStart == Init => RecordInv /\ MoneyInv
<1> SUFFICES ASSUME Init PROVE RecordInv /\ MoneyInv
  OBVIOUS
<1>1. RecordInv
  BY DEF Init, RecordInv
<1>2. Total(ledger, Users) = 0
  <2>1. \A u \in Users : ledger[u] = 0
    BY DEF Init
  <2>2. IsFiniteSet(Users)
    BY MarketAssumption, Zenon
  <2> QED BY <2>1, <2>2, TotalZero, Zenon
<1>3. Total(Held, Requests) = 0
  <2>1. \A r \in Requests : Held[r] = 0
    BY DEF Init, Held
  <2>2. IsFiniteSet(Requests)
    BY MarketAssumption, Zenon
  <2> QED BY <2>1, <2>2, TotalZero, Zenon
<1> QED BY <1>1, <1>2, <1>3 DEF Init, MoneyInv

(* As long as no purchase is refunded twice, what the users have and have
   withdrawn never exceeds what they paid in, wherever downloads and refunds
   are cut off: the second refund of RefundedOnce is the only way to make money. *)
THEOREM MoneyConserved == Spec /\ RefundedOnce => []NoMoneyFromNothing
<1>1. IInv /\ RecordInv /\ [Next]_vars => RecordInv'
  BY RecordStep
<1>2. IInv /\ IInv' /\ RecordInv /\ MoneyInv /\ [Next]_vars /\ [FirstRefund]_vars => MoneyInv'
  BY MoneyStep
<1>3. RefundedOnce <=> [][FirstRefund]_vars
  BY PTL DEF RefundedOnce, FirstRefund
<1>4. IInv /\ BooksInv /\ MoneyInv => NoMoneyFromNothing
  <2> SUFFICES ASSUME IInv, BooksInv, MoneyInv PROVE NoMoneyFromNothing
    OBVIOUS
  <2>1. MapThenSumSet(Balance, Users) = Total(ledger, Users)
    BY BalancesTotal DEF IInv, TypeOK, BooksInv
  <2> QED BY <2>1, Totals DEF MoneyInv, NoMoneyFromNothing
<1> QED BY <1>1, <1>2, <1>3, <1>4, MoneyStart, IAlways, BooksAlways, PTL DEF Spec

(* One administrator alone never refunds a purchase twice: it takes two that
   read the same record before either has written. *)
Awaited == \A a \in Admins : refund[a] # NoPurchase => records[refund[a]] = "active"

THEOREM OneAdminRefundsOnce ==
  ASSUME \A a, b \in Admins : a = b
  PROVE  Spec => RefundedOnce
<1>1. Init => Awaited
  BY DEF Init, Awaited
<1>2. IInv /\ RecordInv /\ Awaited /\ [Next]_vars => Awaited'
  <2> SUFFICES ASSUME IInv, RecordInv, Awaited, [Next]_vars PROVE Awaited'
    OBVIOUS
  <2>1. ASSUME NEW r \in Requests, RequestStep(r) PROVE Awaited'
    <3>1. UNCHANGED refund
      BY <2>1 DEF RequestStep, Download, EnsureAccountReads, CreateUser, UseVoucher, Quote, Debit,
         Credit, RecordPlatformFee, CreatePurchase, WriteFails, Serve, Abandon
    <3>2. records' = records \/ records' = [records EXCEPT ![r] = "active"]
      BY <2>1 DEF RequestStep, Download, EnsureAccountReads, CreateUser, UseVoucher, Quote, Debit,
         Credit, RecordPlatformFee, CreatePurchase, WriteFails, Serve, Abandon
    <3> QED BY <3>1, <3>2 DEF Awaited, IInv, TypeOK
  <2>2. ASSUME NEW u \in Users, UserStep(u) PROVE Awaited'
    BY <2>2 DEF UserStep, VerifyAccount, VouchersExpire, TopUp, Withdraw, Awaited
  <2>3. ASSUME NEW a \in Admins, AdminStep(a) PROVE Awaited'
    <3>1. \A b \in Admins : b = a
      OBVIOUS
    <3>2. CASE \E r \in Requests : ReadPurchase(a, r)
      BY <3>2 DEF ReadPurchase, IInv, TypeOK, Awaited
    <3>3. CASE ApplyRefund(a) \/ AbandonRefund(a)
      <4>1. refund'[a] = NoPurchase
        BY <3>3 DEF ApplyRefund, AbandonRefund, IInv, TypeOK
      <4> QED BY <3>1, <4>1 DEF Awaited
    <3> QED BY <2>3, <3>2, <3>3 DEF AdminStep
  <2>4. CASE UNCHANGED vars
    BY <2>4 DEF vars, Awaited
  <2> QED BY <2>1, <2>2, <2>3, <2>4 DEF Next
<1>3. Awaited => FirstRefund
  BY DEF Awaited, FirstRefund, ApplyRefund
<1>4. RecordInv /\ IInv /\ [Next]_vars => RecordInv'
  BY RecordStep
<1>5. [][FirstRefund]_vars <=> RefundedOnce
  BY PTL DEF RefundedOnce, FirstRefund
<1> QED BY <1>1, <1>2, <1>3, <1>4, <1>5, MoneyStart, IAlways, PTL DEF Spec
===============================================================================
