-------------------------------- MODULE Ledger --------------------------------
(***************************************************************************)
(* What the agency promises its client about money, without a word about   *)
(* how cases are worked.  Every invoice has an account: what the debtor    *)
(* has paid, how much of it the agency claims as its own recovery, and     *)
(* whether the agency is engaged.  A transaction may move any number of    *)
(* accounts, and an account through several stages at once; what it may    *)
(* never do is claim money that came before the engagement or after its    *)
(* end, miss money that came during it, stay engaged once nothing is owed, *)
(* or engage again.                                                        *)
(***************************************************************************)
EXTENDS Naturals

CONSTANTS
    Accounts,
    Billed      \* [Accounts -> amount owed at first]

VARIABLE books  \* [Accounts -> Account]

Stages == {"none", "engaged", "released"}

Account == [received : Nat, claimed : Nat, stage : Stages]

LedgerInit ==
    /\ books \in [Accounts -> Account]
    /\ \A a \in Accounts : /\ books[a].received = 0
                           /\ books[a].claimed = 0
                           /\ books[a].stage \in {"none", "engaged"}

StageReached(s, u) ==
    \/ s = u
    \/ s = "none"
    \/ s = "engaged" /\ u = "released"

\* Money comes and never goes; no more is taken than was billed.
Takes(a, old, new) == old.received <= new.received /\ new.received <= Billed[a]

\* Only what is received is claimed, and all of it while the engagement lasts.
Claims(old, new) ==
    /\ old.claimed <= new.claimed
    /\ new.claimed + old.received <= old.claimed + new.received
    /\ old.stage = "released" \/ new.stage = "none" => new.claimed = old.claimed
    /\ old.stage = "engaged" /\ new.stage = "engaged" =>
           new.claimed + old.received = old.claimed + new.received

Move(a, old, new) ==
    /\ StageReached(old.stage, new.stage)
    /\ Takes(a, old, new)
    /\ Claims(old, new)
    /\ new.stage = "engaged" => new.received < Billed[a]

Transaction ==
    /\ books' \in [Accounts -> Account]
    /\ \A a \in Accounts : Move(a, books[a], books'[a])

LedgerSpec == LedgerInit /\ [][Transaction]_books

=============================================================================
