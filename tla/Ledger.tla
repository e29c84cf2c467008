------------------------------- MODULE Ledger -------------------------------
(***************************************************************************)
(* marshal's ledger: one file, a line per entry, each line carrying the    *)
(* hash of the line before it.  Every marshal process on the machine (the  *)
(* service and each command) opens the file for itself; a mutex orders the *)
(* appends of one process and nothing orders those of two.                 *)
(*                                                                         *)
(* A line is abstracted to what the chain is about.  An entry has its hash *)
(* (id), its number and the hash it was chained to; sound says whether its *)
(* content still has that hash.  Whatever else the file may hold is junk:  *)
(* "cut" and "nul" are unterminated (a line cut short, NUL padding),       *)
(* "damaged" and "nulled" are terminated lines that do not parse, the      *)
(* second with NULs in it.  All lines are taken to be equally long, so     *)
(* that an offset in the file is a number of lines.                        *)
(*                                                                         *)
(* disk is what a power cut leaves for sure: the file as of the last sync. *)
(***************************************************************************)
EXTENDS Integers, Sequences

CONSTANTS
    Process,        \* marshal processes that write to the ledger
    Faults,         \* what may go wrong: "power", "kill", "short", "sync", "tamper"
    MaxAppends,     \* bound: appends begun on a file without a torn tail
    MaxFaults       \* bound: faults

ASSUME LedgerAssumption ==
    /\ Faults \subseteq {"power", "kill", "short", "sync", "tamper"}
    /\ MaxAppends \in Nat
    /\ MaxFaults \in Nat

VARIABLES
    file,           \* the lines of the ledger file
    disk,           \* the lines that have reached the disk
    pc,             \* what each process is about to do
    view,           \* the entry each process will chain to, and the offset it read up to
    lines,          \* lines written so far, the source of hashes
    begun, faults,  \* what the bounds count
    acked,          \* hashes of the entries whose Append returned without error
    tampered        \* somebody removed or edited a line

vars == <<file, disk, pc, view, lines, begun, faults, acked, tampered>>

-----------------------------------------------------------------------------
Junk(k) == [kind |-> k, id |-> 0, seq |-> 0, prev |-> 0, sound |-> TRUE]

\* What the first entry is chained to: the zero Entry of scanned.last.
Nothing == Junk("none")

IsEntry(line) == line.kind = "entry"
Unterminated(line) == line.kind \in {"cut", "nul"}
HasNul(line) == line.kind \in {"nul", "nulled"}

\* scan: the number of whole entries at the head of the file.
Good(f) == CHOOSE n \in 0..Len(f) :
    /\ \A i \in 1..n : IsEntry(f[i])
    /\ n < Len(f) => ~IsEntry(f[n + 1])

Entries(f) == SubSeq(f, 1, Good(f))
LastOf(f) == IF Good(f) = 0 THEN Nothing ELSE f[Good(f)]

\* Mutant of IsTorn: whatever does not parse is torn.
AnyRestIsTorn(f) == Good(f) < Len(f)

\* isTorn of what follows the whole entries: it holds a NUL or is unterminated, and no
\* whole entry follows.
IsTorn(f) ==
    /\ \E i \in Good(f) + 1..Len(f) : HasNul(f[i]) \/ (i = Len(f) /\ Unterminated(f[i]))
    /\ \A i \in Good(f) + 1..Len(f) : ~IsEntry(f[i])

\* scan fails: something that is no entry and no torn tail.
Corrupt(f) == Good(f) < Len(f) /\ ~IsTorn(f)

\* Verify: an entry does not hash to what it says, or is not chained to the one before.
Broken(f) == \E i \in 1..Good(f) :
    ~f[i].sound \/ f[i].prev # (IF i = 1 THEN 0 ELSE f[i - 1].id)

\* O_APPEND: after an unterminated line the new bytes become part of that line.
Written(f, line) ==
    IF f # <<>> /\ Unterminated(f[Len(f)])
    THEN [f EXCEPT ![Len(f)] =
            IF Unterminated(line) THEN @
            ELSE Junk(IF HasNul(@) THEN "nulled" ELSE "damaged")]
    ELSE Append(f, line)

\* Mutant of CutTo: the offset just before the last whole entry.
CutBefore(f, n) == SubSeq(f, 1, IF n = 0 THEN 0 ELSE n - 1)

\* os.Truncate: a shorter file is filled up with NULs.
CutTo(f, n) == IF n <= Len(f) THEN SubSeq(f, 1, n) ELSE Written(f, Junk("nul"))

\* What a power cut leaves of file f when d had been synced: what was synced, or what was
\* written after it up to some point, where a line may be cut short or come back as NULs.
Cuts(d, f) == {n \in 0..Len(f) : \A i \in n + 1..Len(f) : i > Len(d) \/ d[i] # f[i]}
LeftAt(f, n) ==
    {SubSeq(f, 1, n)} \cup
    (IF n = Len(f) THEN {} ELSE {Append(SubSeq(f, 1, n), Junk("cut")), Append(SubSeq(f, 1, n), Junk("nul"))})
Survivors(d, f) == {d} \cup UNION {LeftAt(f, n) : n \in Cuts(d, f)}

-----------------------------------------------------------------------------
Init ==
    /\ file = <<>> /\ disk = <<>>
    /\ pc = [p \in Process |-> "idle"]
    /\ view = [p \in Process |-> [last |-> Nothing, good |-> 0]]
    /\ lines = 0 /\ begun = 0 /\ faults = 0
    /\ acked = {}
    /\ tampered = FALSE

Goto(p, l) == pc' = [pc EXCEPT ![p] = l]

Fault(kind) == kind \in Faults /\ faults < MaxFaults /\ faults' = faults + 1

\* Append: read the whole file; refuse to write onto a damaged one.
Scan(p) ==
    /\ pc[p] = "idle"
    /\ ~Corrupt(file)
    /\ IsTorn(file) \/ begun < MaxAppends
    /\ begun' = IF IsTorn(file) THEN begun ELSE begun + 1
    /\ view' = [view EXCEPT ![p] = [last |-> LastOf(file), good |-> Good(file)]]
    /\ Goto(p, IF IsTorn(file) THEN "torn" ELSE "write")
    /\ UNCHANGED <<file, disk, lines, faults, acked, tampered>>

\* Mutant of Truncate: the damaged file is set aside as a whole.
TruncateAll(p) ==
    /\ pc[p] = "torn"
    /\ file' = <<>>
    /\ Goto(p, "repair")
    /\ UNCHANGED <<disk, view, lines, begun, faults, acked, tampered>>

\* repair: the torn bytes were saved to a sidecar file; cut the ledger back.
Truncate(p) ==
    /\ pc[p] = "torn"
    /\ file' = CutTo(file, view[p].good)
    /\ Goto(p, "repair")
    /\ UNCHANGED <<disk, view, lines, begun, faults, acked, tampered>>

\* write, of the repair entry or of the caller's: chained onto the entry in view.
NewLine(p) == [kind |-> "entry", id |-> lines + 1, seq |-> view[p].last.seq + 1,
               prev |-> view[p].last.id, sound |-> TRUE]

\* Mutant of Write: repair returns the entry it was given, not the one it wrote.
WriteUnlinked(p) ==
    /\ pc[p] \in {"repair", "write"}
    /\ lines' = lines + 1
    /\ file' = Written(file, NewLine(p))
    /\ Goto(p, IF pc[p] = "repair" THEN "syncRepair" ELSE "sync")
    /\ UNCHANGED <<disk, view, begun, faults, acked, tampered>>

\* The caller's entry is chained to the repair entry.
Write(p) ==
    /\ pc[p] \in {"repair", "write"}
    /\ lines' = lines + 1
    /\ file' = Written(file, NewLine(p))
    /\ view' = [view EXCEPT ![p].last = NewLine(p)]
    /\ Goto(p, IF pc[p] = "repair" THEN "syncRepair" ELSE "sync")
    /\ UNCHANGED <<disk, begun, faults, acked, tampered>>

\* After the sync Append returns, or goes on from the repair entry to the caller's.
Sync(p) ==
    /\ pc[p] \in {"syncRepair", "sync"}
    /\ disk' = file
    /\ acked' = IF pc[p] = "sync" THEN acked \cup {view[p].last.id} ELSE acked
    /\ Goto(p, IF pc[p] = "syncRepair" THEN "write" ELSE "idle")
    /\ UNCHANGED <<file, view, lines, begun, faults, tampered>>

\* The disk is full: part of the line is written and Append returns an error.
ShortWrite(p) ==
    /\ pc[p] \in {"repair", "write"}
    /\ Fault("short")
    /\ file' = Written(file, Junk("cut"))
    /\ Goto(p, "idle")
    /\ UNCHANGED <<disk, view, lines, begun, acked, tampered>>

\* Append returns an error although the line is in the file.
SyncFails(p) ==
    /\ pc[p] \in {"syncRepair", "sync"}
    /\ Fault("sync")
    /\ Goto(p, "idle")
    /\ UNCHANGED <<file, disk, view, lines, begun, acked, tampered>>

\* The process ends between two of its steps; what it wrote stays written.
Kill(p) ==
    /\ pc[p] # "idle"
    /\ Fault("kill")
    /\ Goto(p, "idle")
    /\ UNCHANGED <<file, disk, view, lines, begun, acked, tampered>>

PowerCut ==
    /\ Fault("power")
    /\ \E f \in Survivors(disk, file) : file' = f /\ disk' = f
    /\ pc' = [p \in Process |-> "idle"]
    /\ UNCHANGED <<view, lines, begun, acked, tampered>>

\* While nobody writes, somebody removes a line that another follows, or edits it: into
\* something that does not parse, or without its hash, or with it.
Tamper ==
    /\ Fault("tamper")
    /\ ~tampered /\ tampered' = TRUE
    /\ \A p \in Process : pc[p] = "idle"
    /\ \E i \in 1..Good(file) - 1 :
          /\ file' \in {SubSeq(file, 1, i - 1) \o SubSeq(file, i + 1, Len(file)),
                        [file EXCEPT ![i] = Junk("damaged")],
                        [file EXCEPT ![i].sound = FALSE],
                        [file EXCEPT ![i].id = lines + 1]}
          /\ acked' = acked \ {file[i].id}
    /\ lines' = lines + 1
    /\ disk' = file'
    /\ UNCHANGED <<pc, view, begun>>

\* Mutant of Appending: a torn tail is not repaired.
AppendingOnly(p) == Scan(p) \/ Write(p) \/ Sync(p)

Appending(p) == Scan(p) \/ Truncate(p) \/ Write(p) \/ Sync(p)

Next ==
    \/ \E p \in Process : Appending(p) \/ ShortWrite(p) \/ SyncFails(p) \/ Kill(p)
    \/ PowerCut
    \/ Tamper

Spec == Init /\ [][Next]_vars

\* The service appends on every poll, for ever.
FairSpec == Spec /\ \A p \in Process : WF_vars(Appending(p))

-----------------------------------------------------------------------------
Line == [kind : {"entry", "cut", "nul", "damaged", "nulled", "none"},
         id : Nat, seq : Nat, prev : Nat, sound : BOOLEAN]

LedgerTypeOK ==
    /\ file \in Seq(Line) /\ disk \in Seq(Line)
    /\ pc \in [Process -> {"idle", "torn", "repair", "syncRepair", "write", "sync"}]
    /\ view \in [Process -> [last : Line, good : Nat]]
    /\ lines \in Nat /\ begun \in Nat /\ faults \in Nat
    /\ acked \subseteq Nat
    /\ tampered \in BOOLEAN

(***************************************************************************)
(* Every acquire, release and refusal whose Append returned without error  *)
(* stays in the ledger, through power cuts, full disks, failed syncs and   *)
(* the repair of what they leave.                                          *)
(***************************************************************************)
AckedKept == \A a \in acked : \E i \in 1..Len(file) : IsEntry(file[i]) /\ file[i].id = a

(***************************************************************************)
(* Verify finds nothing to report in a ledger nobody tampered with, the    *)
(* entries are numbered 1, 2, 3..., and no fault leaves it in a state in   *)
(* which nothing can be written any more ("one power cut mid-write made    *)
(* every later Append fail").                                              *)
(***************************************************************************)
ChainIntact ==
    ~tampered => ~Corrupt(file) /\ ~Broken(file) /\ \A i \in 1..Good(file) : file[i].seq = i

(***************************************************************************)
(* A line that was removed or edited and that another line follows shows   *)
(* for ever: the ledger is damaged, or Verify reports it, whatever is      *)
(* appended, lost or repaired afterwards.                                  *)
(***************************************************************************)
TamperingShows == tampered => Corrupt(file) \/ Broken(file)

(***************************************************************************)
(* A torn tail is repaired by the appends that follow it.                  *)
(***************************************************************************)
TornIsRepaired == IsTorn(file) ~> ~IsTorn(file)

(***************************************************************************)
(* One process implements the append-only record: the entries that have    *)
(* reached the disk only ever grow, in one chain, until somebody tampers.  *)
(***************************************************************************)
Record == INSTANCE AppendOnly WITH log <- Entries(disk)
ImplementsAppendOnly == Record!Spec
=============================================================================
