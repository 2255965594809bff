------------------------------ MODULE MCLedger ------------------------------
(***************************************************************************)
(* A small bookkeeping: two income accounts, one asset, Retained Surplus.  *)
(***************************************************************************)
EXTENDS Ledger, TLC

MCAccountType ==
    [a \in Accounts |-> CASE a = "cash" -> "Asset"
                          [] a = "surplus" -> "Equity"
                          [] a = "sales" -> "Revenue"
                          [] a = "rent" -> "Expense"]

\* The lines that debit the accounts in ds and credit those in cs by one each.
MCLines(ds, cs) ==
    [a \in Accounts |-> [debit |-> IF a \in ds THEN 1 ELSE 0,
                         credit |-> IF a \in cs THEN 1 ELSE 0]]
Sale == MCLines({"cash"}, {"sales"})
Capital == MCLines({"cash"}, {"surplus"})
Mixed == MCLines({"cash", "rent"}, {"sales", "surplus"})
Unbalanced == MCLines({"cash"}, {})

MCSymmetry == Permutations(Requests)

MCRacing == {Sale, Capital, Unbalanced}
MCSerial == {Sale, Mixed}
MCOnePeriod == {<<1, 1>>}
=============================================================================
