---------------------------- MODULE PublishedState ----------------------------
(***************************************************************************)
(* What /dev/myfs promises its readers.  Publishers offer complete          *)
(* messages; the state that reclaim sees is always one whole offered        *)
(* message, never a mixture of two, and is only ever replaced by a message  *)
(* of a later generation.                                                   *)
(***************************************************************************)
EXTENDS Integers

CONSTANTS Messages,      \* every message a publisher may offer
          Nothing        \* the state before the first publication

VARIABLES published,     \* the message reclaim reads
          offered        \* the messages handed to the kernel so far

vars == <<published, offered>>

Init == published = Nothing /\ offered = {}

\* A publisher calls the SET ioctl.
Offer ==
    /\ \E m \in offered' : m \in Messages /\ offered' = offered \cup {m}
    /\ UNCHANGED published

\* One RCU publication makes an offered, newer message the visible one.
Publish ==
    /\ \E m \in offered : m.generation > published.generation /\ published' = m
    /\ UNCHANGED offered

Next == Offer \/ Publish

Spec == Init /\ [][Next]_vars
=============================================================================
