------------------------ MODULE MCPaymentProjection ------------------------
EXTENDS PaymentProjection

CONSTANT inv

(* All the attempts are quotes of one invoice in one asset, so that the     *)
(* second is made when the first has expired or ended.                      *)
OneInvoice == [a \in Attempts |-> inv]
OneAsset == [a \in Attempts |-> "USDC"]

(* The references on the transfers, in the order of their ids, and how the  *)
(* transfers compare with their quotes.                                     *)
SharedReference == <<1, 2, 1>>
Assorted == <<"exact", "exact", "foreign">>
=============================================================================
