----------------------------- MODULE AppendOnly -----------------------------
(***************************************************************************)
(* What the ledger promises (package comment of ledger.go): a record that  *)
(* only grows, in which every entry carries its number and the hash of the *)
(* entry before it, so that Verify finds nothing to report.                *)
(***************************************************************************)
EXTENDS Naturals, Sequences

VARIABLES
    log,        \* the entries of the record
    tampered    \* somebody removed or edited a line: nothing is promised from then on

\* The hash an entry has to carry: that of the entry before it, 0 for the first.
HashBefore(s, i) == IF i = 1 THEN 0 ELSE s[i - 1].id

Chained(s) == \A i \in DOMAIN s : s[i].seq = i /\ s[i].prev = HashBefore(s, i)

Extends(s, old) == Len(old) <= Len(s) /\ \A i \in DOMAIN old : s[i] = old[i]

Init == log = <<>> /\ tampered = FALSE

Grow ==
    /\ Chained(log') /\ Extends(log', log)
    /\ tampered' = FALSE

\* Whatever is done to the file, the tampering is not undone.
Tamper == tampered' = TRUE

Next == (~tampered /\ Grow) \/ Tamper

Spec == Init /\ [][Next]_<<log, tampered>>
=============================================================================
