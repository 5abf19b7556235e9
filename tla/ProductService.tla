--------------------------- MODULE ProductService ---------------------------
(***************************************************************************)
(* The commands of apps/api/src/products/product.service.ts,               *)
(* apps/api/src/admin/admin.service.ts and the withdrawal of a user that   *)
(* change Product.status.  Those on one product are no transactions: they  *)
(* read the product (and remove the trades), and later update it by id,    *)
(* whatever its status is by then.                                         *)
(***************************************************************************)
EXTENDS MarketState

ProductCallOf(op, p, to) == [op |-> op, product |-> p, to |-> to]

\* The owner shows or hides a product that is not deleted.
ReadSetStatus(c, p, to) ==
    /\ product[p] # "DELETED"
    /\ Begin(c, ProductCallOf("setStatus", p, to))

LockingOnceAccepted == {"ACCEPTED", "DELIVERED", "DISPUTED"}   \* mutant

LockingTradeStatuses == {"REQUESTED", "ACCEPTED", "DELIVERED", "DISPUTED"}

\* The owner deletes a product that no trade is using.
ReadRemove(c, p) ==
    /\ product[p] \notin {"DELETED", "RESERVED"}
    /\ \A t \in TradesOf(p) : trade[t] \notin LockingTradeStatuses
    /\ Begin(c, ProductCallOf("remove", p, "DELETED"))

\* The administrator hides any product there is a row of.
ReadHideProduct(c, p) == Begin(c, ProductCallOf("hideProduct", p, "HIDDEN"))

\* product.update({ where: { id }, data: { status } }).
UpdateProduct(c) ==
    /\ calls[c] # NoCall /\ calls[c].op \in ProductHandlers
    /\ product' = [product EXCEPT ![calls[c].product] = calls[c].to]
    /\ Answer(c)
    /\ UNCHANGED <<tradeRows, paymentRows, elapsed, outside, settling>>

\* AuthService.withdraw: one updateMany hides the ACTIVE products of the author.
HideProductsOf(author) ==
    /\ "withdraw" \in Handlers
    /\ product' = [p \in Products |->
          IF p \in author /\ product[p] = "ACTIVE" THEN "HIDDEN" ELSE product[p]]
    /\ UNCHANGED <<tradeRows, paymentRows, elapsed, outside, calls, settling>>

ProductServiceNext ==
    \/ \E author \in SUBSET Products : HideProductsOf(author)
    \/ \E c \in Callers :
          \/ \E p \in Products :
                \/ \E to \in {"ACTIVE", "HIDDEN"} : ReadSetStatus(c, p, to)
                \/ ReadRemove(c, p) \/ ReadHideProduct(c, p)
          \/ UpdateProduct(c)

=============================================================================
