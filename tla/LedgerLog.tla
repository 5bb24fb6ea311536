------------------------------ MODULE LedgerLog ------------------------------
(***************************************************************************)
(* What the ledger promises to its readers: every ledger is a log that is  *)
(* opened once, by a genesis entry, and from then on only grows, one entry *)
(* at a time at its end, up to MaxSequence entries.  Who appends, how      *)
(* often they tried and what happened to the attempts that failed is       *)
(* invisible.                                                              *)
(***************************************************************************)
EXTENDS Integers, Sequences

CONSTANTS Ledgers, MaxSequence, Genesis, Events

VARIABLE log        \* [Ledgers -> sequence of entries]

LogInit == log = [l \in Ledgers |-> <<>>]

Open(l) ==
    /\ log[l] = <<>>
    /\ log' = [log EXCEPT ![l] = <<Genesis>>]

Extend(l, e) ==
    /\ log[l] # <<>>
    /\ Len(log[l]) < MaxSequence
    /\ log' = [log EXCEPT ![l] = Append(@, e)]

LogNext == \E l \in Ledgers : Open(l) \/ \E e \in Events : Extend(l, e)

LogSpec == LogInit /\ [][LogNext]_log
=============================================================================
