-------------------------------- MODULE Ledger --------------------------------
(***************************************************************************)
(* What sending money comes to, without dialogs, callbacks or signals: a   *)
(* transaction is built, the user says yes or no to it, and it goes out at *)
(* most once; one that pays the VPN provider goes out by itself, as soon   *)
(* as it is built.  Payment implements this specification.                 *)
(***************************************************************************)
EXTENDS Naturals

CONSTANTS
    Txs   \* transactions that may be asked for

VARIABLES
    phase,      \* of each transaction
    automatic,  \* those nobody is asked about
    accepted,   \* those the user's last word on was yes
    sent,       \* how often each was sent
    guarded     \* this wallet sends nothing the user has not accepted

ledger == <<phase, automatic, accepted, sent, guarded>>

Phases == {"none", "building", "built", "gone"}

Init ==
    /\ phase = [t \in Txs |-> "none"]
    /\ automatic = {} /\ accepted = {}
    /\ sent = [t \in Txs |-> 0]
    /\ guarded \in BOOLEAN

\* A transaction is asked for; an unmixable sweep is built within the request.
Ask(t) ==
    /\ phase[t] = "none"
    /\ \E p \in Phases \ {"none"} : phase' = [phase EXCEPT ![t] = p]
    /\ automatic' = automatic \/ (automatic' = automatic \cup {t} /\ phase'[t] = "building")
    /\ UNCHANGED <<accepted, sent, guarded>>

\* Its construction ends: only one the user will be asked about is kept.
Build(t) ==
    /\ phase[t] = "building"
    /\ \E p \in {"built", "gone"} :
        /\ p = "built" => t \notin automatic
        /\ phase' = [phase EXCEPT ![t] = p]
    /\ UNCHANGED <<automatic, accepted, sent, guarded>>

\* The user accepts or cancels a transaction that is there to be sent.
Say(t) ==
    /\ phase[t] = "built"
    /\ accepted' \in {accepted \cup {t}, accepted \ {t}}
    /\ UNCHANGED <<phase, automatic, sent, guarded>>

\* It goes out, and there is nothing left to send a second time.
Send(t) ==
    /\ \/ phase[t] = "built" /\ (guarded => t \in accepted)
       \/ phase[t] = "building" /\ t \in automatic
    /\ phase' = [phase EXCEPT ![t] = "gone"]
    /\ sent[t] = 0
    /\ sent' = [sent EXCEPT ![t] = 1]
    /\ UNCHANGED <<automatic, accepted, guarded>>

Next == \E t \in Txs : Ask(t) \/ Build(t) \/ Say(t) \/ Send(t)

Spec == Init /\ [][Next]_ledger
=============================================================================
