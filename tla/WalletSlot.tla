------------------------------ MODULE WalletSlot ------------------------------
(***************************************************************************)
(* What the wallet manager promises its callers: one slot that holds at    *)
(* most one open wallet, always the one constructed last, and one answer   *)
(* for every asynchronous request.  No thread, mutex, queue or page is     *)
(* visible here; WalletLifecycle implements this specification.            *)
(***************************************************************************)
EXTENDS Naturals

VARIABLES
    open,      \* the wallets that are open
    made,      \* wallets constructed so far; the next one is made + 1
    promised   \* asynchronous requests not answered yet

slot == <<open, made, promised>>

Init ==
    /\ open = {}
    /\ made = 0
    /\ promised \in 0 .. 1

\* closeWalletAsync, openWalletAsync, or one after the other; a rescan closes
\* the wallet in the same step.
Ask ==
    /\ \E n \in 1 .. 2 : promised' = promised + n
    /\ open' \in {open, {}}
    /\ UNCHANGED made

\* The handler of walletOpened or walletClosed has run.
Answer ==
    /\ promised > 0
    /\ promised' = promised - 1
    /\ UNCHANGED <<open, made>>

\* closeWallet, and the first half of every open.
Close ==
    /\ open' = {}
    /\ UNCHANGED <<made, promised>>

\* A wallet is constructed in the empty slot, or in place of another; a wallet
\* that turns out unusable leaves the slot at once.
Open ==
    /\ made' = made + 1
    /\ open' \in {{made'}, {}}
    /\ UNCHANGED promised

Next == Ask \/ Answer \/ Close \/ Open

Spec == Init /\ [][Next]_slot
=============================================================================
