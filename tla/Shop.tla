-------------------------------- MODULE Shop --------------------------------
(***************************************************************************)
(* What one company sells: products minted at whichever payments provider  *)
(* its secrets name at that moment, their deletion, and the orders of      *)
(* their customers, through Stripe's payment link and its webhook or       *)
(* through the local checkout page.                                        *)
(*                                                                         *)
(* A provider is an account number: 0 is the local checkout, n the Stripe  *)
(* account of the n-th key. Stripe, its customers and the secret vault are *)
(* external. A step is one request, statement or transaction; two copies   *)
(* of one confirmation handled side by side are module Treasury's subject. *)
(***************************************************************************)
EXTENDS Integers, FiniteSets, Functions

CONSTANTS
  Products, Orders, ProductOf,   \* a customer's visit is to one product
  Price, Fee,                    \* of every product; Stripe's cut
  Platform,                      \* accounts the platform's own key may open, Local for none
  MaxKeys, MaxFaults             \* bounds: keys the owner sets, failures

ShopAssumption ==
  /\ IsFiniteSet(Orders) /\ ProductOf \in [Orders -> Products]
  /\ Price \in Nat /\ Fee \in 0..Price /\ Platform \subseteq Nat
  /\ MaxKeys \in Nat /\ MaxFaults \in Nat

VARIABLES
  key,       \* the account the company's STRIPE_SECRET_KEY opens
  platform,  \* the one the platform's default opens
  setter,    \* POST /admin/secrets
  product,   \* per product: [mint, via, live, row, offered, drop, by]
  advertised,\* products some ad_campaigns row names
  order,     \* per visit: [at, via], until the customer has paid
  handler,   \* per visit: the webhook or the POST that confirms it, [at, fee]
  sale,      \* payments rows of the visit, and what they net
  balance,   \* companies.real_balance_cents
  faults

shop == <<key, platform, setter, product, advertised>>
till == <<order, handler, sale, balance>>
vars == <<shop, till, faults>>

Local == 0
Unminted == [mint |-> "none", via |-> Local, live |-> FALSE, row |-> FALSE, offered |-> FALSE,
             drop |-> "off", by |-> Local]
Idle == [at |-> "off", fee |-> 0]

Init ==
  /\ key = Local /\ platform \in Platform /\ setter = "off"
  /\ product = [p \in Products |-> Unminted] /\ advertised = {}
  /\ order = [o \in Orders |-> [at |-> "none", via |-> Local]]
  /\ handler = [o \in Orders |-> Idle]
  /\ sale = [o \in Orders |-> [rows |-> 0, net |-> 0]]
  /\ balance = 0 /\ faults = 0

AFault == faults < MaxFaults /\ faults' = faults + 1
Becomes(p, r) == product' = [product EXCEPT ![p] = r]
Sold(p) == \E o \in Orders : ProductOf[o] = p /\ sale[o].rows > 0

----------------------------------------------------------------------------
(* POST /admin/secrets: the company's folder, then create the secret, or   *)
(* update it when the vault says it is there, then the ledger's event.     *)

SetKey ==
  /\ setter = "off" /\ key < MaxKeys /\ setter' = "folder"
  /\ UNCHANGED <<key, platform, product, advertised, till, faults>>

EnsureFolder ==
  /\ setter = "folder" /\ setter' = "create"
  /\ UNCHANGED <<key, platform, product, advertised, till, faults>>

CreateSecret ==
  /\ setter = "create"
  /\ IF key = Local THEN key' = 1 /\ setter' = "announce"
                    ELSE setter' = "update" /\ UNCHANGED key
  /\ UNCHANGED <<platform, product, advertised, till, faults>>

UpdateSecret ==
  /\ setter = "update" /\ setter' = "announce" /\ key' = key + 1
  /\ UNCHANGED <<platform, product, advertised, till, faults>>

AnnounceSecret ==
  /\ setter = "announce" /\ setter' = "off"
  /\ UNCHANGED <<key, platform, product, advertised, till, faults>>

\* The vault or the append fails; what was stored stays.
SetterFails ==
  /\ setter # "off" /\ setter' = "off" /\ AFault
  /\ UNCHANGED <<key, platform, product, advertised, till>>

Secrets == SetKey \/ EnsureFolder \/ CreateSecret \/ UpdateSecret \/ AnnounceSecret \/ SetterFails

----------------------------------------------------------------------------
(* create_product: mint at the provider of the moment, insert the row,     *)
(* announce it.                                                            *)

\* The company's own secret, else the platform's.
SecretOf == IF key # Local THEN key ELSE platform
paymentsFor == SecretOf

StartMint(p) ==
  /\ product[p].mint = "none"
  /\ Becomes(p, [product[p] EXCEPT !.via = paymentsFor,
                                   !.mint = IF paymentsFor = Local THEN "insert" ELSE "product"])
  /\ UNCHANGED <<key, platform, setter, advertised, till, faults>>

\* Stripe's product, its price and its payment link; the link is what sells.
MintAtStripe(p) ==
  /\ product[p].mint \in {"product", "price", "link"}
  /\ Becomes(p, CASE product[p].mint = "product" -> [product[p] EXCEPT !.mint = "price"]
                  [] product[p].mint = "price" -> [product[p] EXCEPT !.mint = "link"]
                  [] product[p].mint = "link" -> [product[p] EXCEPT !.mint = "insert", !.live = TRUE])
  /\ UNCHANGED <<key, platform, setter, advertised, till, faults>>

\* From here get_payment_link answers the link to whoever asks.
InsertProduct(p) ==
  /\ product[p].mint = "insert"
  /\ Becomes(p, [product[p] EXCEPT !.mint = "announce", !.row = TRUE, !.offered = TRUE])
  /\ UNCHANGED <<key, platform, setter, advertised, till, faults>>

AnnounceProduct(p) ==
  /\ product[p].mint = "announce" /\ Becomes(p, [product[p] EXCEPT !.mint = "done"])
  /\ UNCHANGED <<key, platform, setter, advertised, till, faults>>

\* The handler throws wherever it is; Stripe keeps what was made there.
MintFails(p) ==
  /\ product[p].mint \notin {"none", "done", "failed"} /\ AFault
  /\ Becomes(p, [product[p] EXCEPT !.mint = "failed"])
  /\ UNCHANGED <<key, platform, setter, advertised, till>>

create_product(p) ==
  StartMint(p) \/ MintAtStripe(p) \/ InsertProduct(p) \/ AnnounceProduct(p) \/ MintFails(p)

\* create_campaign: its row names the product for good.
Advertise(p) ==
  /\ product[p].row /\ p \notin advertised /\ advertised' = advertised \cup {p}
  /\ UNCHANGED <<key, platform, setter, product, till, faults>>

----------------------------------------------------------------------------
(* delete_product: deactivate at the provider of the moment, then delete   *)
(* the row, which payments and ad_campaigns may still reference.           *)

RemoveFirst(p) ==
  /\ product[p].row /\ product[p].drop = "off" /\ ~Sold(p) /\ p \notin advertised
  /\ Becomes(p, [product[p] EXCEPT !.drop = "deactivate", !.by = paymentsFor, !.row = FALSE])
  /\ UNCHANGED <<key, platform, setter, advertised, till, faults>>

StartDelete(p) ==
  /\ product[p].row /\ product[p].drop = "off"
  /\ Becomes(p, [product[p] EXCEPT !.drop = "deactivate", !.by = paymentsFor])
  /\ UNCHANGED <<key, platform, setter, advertised, till, faults>>

\* Only the account that minted the product knows it; another answers 404.
Deactivate(p) ==
  /\ product[p].drop = "deactivate" /\ product[p].by \in {Local, product[p].via}
  /\ Becomes(p, [product[p] EXCEPT !.drop = "remove", !.live = @ /\ product[p].by = Local])
  /\ UNCHANGED <<key, platform, setter, advertised, till, faults>>

UnknownAtStripe(p) ==
  /\ product[p].drop = "deactivate" /\ product[p].by \notin {Local, product[p].via}
  /\ Becomes(p, [product[p] EXCEPT !.drop = "off"])
  /\ UNCHANGED <<key, platform, setter, advertised, till, faults>>

RemoveRow(p) ==
  /\ product[p].drop = "remove" /\ ~Sold(p) /\ p \notin advertised
  /\ Becomes(p, [product[p] EXCEPT !.drop = "off", !.row = FALSE])
  /\ UNCHANGED <<key, platform, setter, advertised, till, faults>>

StillReferenced(p) ==
  /\ product[p].drop = "remove" /\ (Sold(p) \/ p \in advertised)
  /\ Becomes(p, [product[p] EXCEPT !.drop = "off"])
  /\ UNCHANGED <<key, platform, setter, advertised, till, faults>>

\* Stripe's answer or the statement is lost; the deactivation may be done.
DeleteFails(p) ==
  /\ product[p].drop # "off" /\ AFault
  /\ \E lost \in BOOLEAN :
       Becomes(p, [product[p] EXCEPT !.drop = "off",
                                     !.live = @ /\ (lost \/ product[p].by # product[p].via)])
  /\ UNCHANGED <<key, platform, setter, advertised, till>>

delete_product(p) ==
  \/ StartDelete(p) \/ Deactivate(p) \/ UnknownAtStripe(p)
  \/ RemoveRow(p) \/ StillReferenced(p) \/ DeleteFails(p)

----------------------------------------------------------------------------
(* Customers, at Stripe's page or at the local one.                        *)

\* The link outlives the row at Stripe; the local page looks the row up.
OpenCheckout(o) ==
  LET p == product[ProductOf[o]] IN
  /\ order[o].at = "none" /\ p.offered
  /\ IF p.via = Local THEN p.row ELSE p.live
  /\ order' = [order EXCEPT ![o] = [at |-> "open", via |-> p.via]]
  /\ UNCHANGED <<shop, handler, sale, balance, faults>>

\* A page that was open when its product was deactivated can still be paid.
PayAtStripe(o) ==
  /\ order[o].at = "open" /\ order[o].via # Local
  /\ order' = [order EXCEPT ![o].at = "paid"]
  /\ UNCHANGED <<shop, handler, sale, balance, faults>>

\* POST of the local page with its nonce, for the first time or again.
SubmitLocal(o) ==
  /\ order[o].at \in {"open", "paid"} /\ order[o].via = Local /\ handler[o].at = "off"
  /\ product[ProductOf[o]].row
  /\ order' = [order EXCEPT ![o].at = "paid"]
  /\ handler' = [handler EXCEPT ![o] = [at |-> "record", fee |-> 0]]
  /\ UNCHANGED <<shop, sale, balance, faults>>

DeliverWithFee(o) ==
  /\ order[o].at = "paid" /\ order[o].via # Local /\ handler[o].at = "off"
  /\ sale[o].rows = 0 /\ SecretOf = order[o].via
  /\ handler' = [handler EXCEPT ![o] = [at |-> "record", fee |-> Fee]]
  /\ UNCHANGED <<shop, order, sale, balance, faults>>

\* checkout.session.completed: the product is looked up by its link, else taken
\* from the metadata; the fee is Stripe's if the key of the moment can read it.
DeliverEvent(o) ==
  /\ order[o].at = "paid" /\ order[o].via # Local /\ handler[o].at = "off"
  /\ sale[o].rows = 0
  /\ \E fee \in {0} \cup (IF SecretOf = order[o].via THEN {Fee} ELSE {}) :
       handler' = [handler EXCEPT ![o] = [at |-> "record", fee |-> fee]]
  /\ UNCHANGED <<shop, order, sale, balance, faults>>

\* recordPayment, whose row must name a product that exists.
RecordSale(o) ==
  /\ handler[o].at = "record" /\ sale[o].rows = 0 /\ product[ProductOf[o]].row
  /\ sale' = [sale EXCEPT ![o] = [rows |-> @.rows + 1, net |-> @.net + Price - handler[o].fee]]
  /\ balance' = balance + Price - handler[o].fee
  /\ handler' = [handler EXCEPT ![o] = Idle]
  /\ UNCHANGED <<shop, order, faults>>

AlreadyRecorded(o) ==
  /\ handler[o].at = "record" /\ sale[o].rows > 0
  /\ handler' = [handler EXCEPT ![o] = Idle]
  /\ UNCHANGED <<shop, order, sale, balance, faults>>

\* A foreign key that finds no product: a 500, and Stripe delivers again.
ProductGone(o) ==
  /\ handler[o].at = "record" /\ sale[o].rows = 0 /\ ~product[ProductOf[o]].row
  /\ handler' = [handler EXCEPT ![o] = Idle]
  /\ UNCHANGED <<shop, order, sale, balance, faults>>

RecordFails(o) ==
  /\ handler[o].at = "record" /\ AFault
  /\ handler' = [handler EXCEPT ![o] = Idle]
  /\ UNCHANGED <<shop, order, sale, balance>>

recordPayment(o) == RecordSale(o) \/ AlreadyRecorded(o) \/ ProductGone(o)

----------------------------------------------------------------------------
Next ==
  \/ Secrets
  \/ \E p \in Products : create_product(p) \/ Advertise(p) \/ delete_product(p)
  \/ \E o \in Orders : \/ OpenCheckout(o) \/ PayAtStripe(o) \/ SubmitLocal(o) \/ DeliverEvent(o)
                       \/ recordPayment(o) \/ RecordFails(o)

Spec == Init /\ [][Next]_vars

\* Stripe delivers an event until it is answered 2xx, and the handler runs on; nobody
\* owes a sale, a key, a product or its deletion.
FairSpec == Spec /\ \A o \in Orders : WF_vars(DeliverEvent(o)) /\ WF_vars(recordPayment(o))

----------------------------------------------------------------------------
\* Whatever link a customer may still open, the books know its product: a product is
\* dead at Stripe before its row goes (tools.ts, delete_product).
OnSaleIsKnown == \A p \in Products : product[p].offered /\ product[p].live => product[p].row

\* A product that is listed is for sale, unless its deletion is under way, was cut, or
\* stopped half-way because it had been sold or advertised.
ListedIsOnSale ==
  \A p \in Products :
    product[p].row /\ product[p].via # Local /\ ~product[p].live =>
      \/ product[p].drop = "remove" \/ faults > 0
      \/ Sold(p) \/ p \in advertised

\* The balance is what the paid orders net, each counted once however often its page is
\* submitted or its event delivered, and what was sold stays listed (revenue.ts, app.ts).
BooksOfSales ==
  /\ balance = SumFunction([o \in Orders |-> sale[o].net])
  /\ \A o \in Orders :
       sale[o].rows > 0 =>
         /\ sale[o].rows = 1 /\ order[o].at = "paid" /\ sale[o].net \in {Price, Price - Fee}
         /\ product[ProductOf[o]].row

ShopKept == OnSaleIsKnown /\ ListedIsOnSale /\ BooksOfSales

\* What a customer paid Stripe reaches the company's balance, whatever fails on the way,
\* unless the product was deleted between the click and the webhook.
SalesArrive ==
  \A o \in Orders :
    order[o].at = "paid" /\ order[o].via # Local
      ~> sale[o].rows > 0 \/ ~product[ProductOf[o]].row
=============================================================================
