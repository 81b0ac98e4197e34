---------------------------- MODULE SessionStore ----------------------------
(***************************************************************************)
(* JsonlSessionStore: one session, kept in a file of lines, of which the   *)
(* first is the header and each other one an entry.  A line is appended    *)
(* with a newline at its end; a write may end halfway, because the process *)
(* crashes or the write fails, and load cuts what follows the last         *)
(* newline.  The store belongs to one agent, whose calls do not overlap.   *)
(***************************************************************************)
EXTENDS Naturals, Sequences, SeqOps

CONSTANTS
    Entries,     \* entry ids
    Header,      \* the SessionMeta line
    NoEntry,
    FirstKept,   \* entry -> first_kept_id of a compaction, NoEntry for a message
    MaxFaults    \* bound: crashes and failed calls

ASSUME SessionAssumption ==
    /\ Header \notin Entries /\ NoEntry \notin Entries /\ Header # NoEntry
    /\ FirstKept \in [Entries -> Entries \cup {NoEntry}]
    /\ MaxFaults \in Nat

VARIABLES
    content,   \* the file: halves of lines, each second half with the newline
    exists,    \* whether there is a file
    pc,        \* where the call in progress is
    line,      \* the line it writes
    created,   \* create has returned Ok
    acked,     \* entries whose append has returned Ok, in that order
    used,      \* entries that were passed to append
    seen,      \* the file as load has read it
    result,    \* what the last load returned: entries, or an error
    faults     \* number of faults

sessionVars == <<content, exists, pc, line, created, acked, used, seen, result, faults>>

Line == Entries \cup {Header}
Piece == [line : Line, half : {"first", "second"}]
First(l) == [line |-> l, half |-> "first"]
Second(l) == [line |-> l, half |-> "second"]

Error == [ok |-> FALSE, entries |-> <<>>]
Result == [ok : BOOLEAN, entries : Seq(Entries)]

Ends(c) == {i \in DOMAIN c : c[i].half = "second"}

Lowest(S) == CHOOSE i \in S : \A j \in S : i <= j
Highest(S) == CHOOSE i \in S : \A j \in S : j <= i

(* The length of the file up to its last newline. *)
CompleteLen(c) == IF Ends(c) = {} THEN 0 ELSE Highest(Ends(c))

(* The line that ends at i is JSON that parses. *)
Parses(c, i) ==
    /\ i > 1
    /\ c[i - 1] = First(c[i].line)
    /\ i > 2 => c[i - 2].half = "second"

(* The entries on the lines of c that parse, but for the header. *)
EntryEnds(c) == {i \in Ends(c) : Parses(c, i) /\ c[i].line # Header}
EntriesIn(c) ==
    LET ends == Pick(c, EntryEnds(c))
    IN [k \in 1 .. Len(ends) |-> ends[k].line]

Stored == EntriesIn(content)

(* load's verdict on the complete lines of c: no header, a line that does  *)
(* not parse, or the entries.                                              *)
Loaded(c) ==
    IF /\ Ends(c) # {}
       /\ \A i \in Ends(c) : Parses(c, i) /\ (c[i].line = Header <=> i = Lowest(Ends(c)))
    THEN [ok |-> TRUE, entries |-> EntriesIn(c)]
    ELSE Error

SessionInit ==
    /\ content = <<>>
    /\ exists = FALSE
    /\ pc = "idle"
    /\ line = NoEntry
    /\ created = FALSE
    /\ acked = <<>>
    /\ used = {}
    /\ seen = <<>>
    /\ result = Error
    /\ faults = 0

-----------------------------------------------------------------------------
(* create: the file is made, unless there is one, and the header written. *)
Create ==
    /\ pc = "idle"
    /\ ~exists
    /\ exists' = TRUE
    /\ pc' = "write"
    /\ line' = Header
    /\ UNCHANGED <<content, created, acked, used, seen, result, faults>>

(* append: the file is opened at its end, and the line written.  A         *)
(* compaction names a message the agent had appended, or tried to.         *)
AppendEntry(e) ==
    /\ pc = "idle"
    /\ created
    /\ e \notin used
    /\ FirstKept[e] \in used \cup {NoEntry}
    /\ used' = used \cup {e}
    /\ pc' = "write"
    /\ line' = e
    /\ UNCHANGED <<content, exists, created, acked, seen, result, faults>>

(* write_all, in one go or in two. *)
WriteAll ==
    /\ pc = "write"
    /\ content' = content \o <<First(line), Second(line)>>
    /\ pc' = "flush"
    /\ UNCHANGED <<exists, line, created, acked, used, seen, result, faults>>

WritePart ==
    /\ pc = "write"
    /\ content' = Append(content, First(line))
    /\ pc' = "rest"
    /\ UNCHANGED <<exists, line, created, acked, used, seen, result, faults>>

WriteRest ==
    /\ pc = "rest"
    /\ content' = Append(content, Second(line))
    /\ pc' = "flush"
    /\ UNCHANGED <<exists, line, created, acked, used, seen, result, faults>>

(* Variant: an append returns before all is written. *)
FlushEarly ==
    /\ pc = "flush" \/ (pc = "rest" /\ line # Header)
    /\ pc' = "idle"
    /\ IF line = Header
       THEN created' = TRUE /\ UNCHANGED acked
       ELSE acked' = Append(acked, line) /\ UNCHANGED created
    /\ line' = NoEntry
    /\ UNCHANGED <<content, exists, used, seen, result, faults>>

(* flush, and the call returns Ok. *)
Flush ==
    /\ pc = "flush"
    /\ pc' = "idle"
    /\ IF line = Header
       THEN created' = TRUE /\ UNCHANGED acked
       ELSE acked' = Append(acked, line) /\ UNCHANGED created
    /\ line' = NoEntry
    /\ UNCHANGED <<content, exists, used, seen, result, faults>>

(* The write or the flush fails: what has been written stays. *)
WriteFails ==
    /\ pc \in {"write", "rest", "flush"}
    /\ faults < MaxFaults
    /\ faults' = faults + 1
    /\ pc' = "idle"
    /\ line' = NoEntry
    /\ UNCHANGED <<content, exists, created, acked, used, seen, result>>

-----------------------------------------------------------------------------
(* load reads the file ... *)
LoadRead ==
    /\ pc = "idle"
    /\ exists
    /\ seen' = content
    /\ pc' = "repair"
    /\ UNCHANGED <<content, exists, line, created, acked, used, result, faults>>

(* Variant: a file that ends in a newline loses its last line. *)
LoadRepairCutsLine ==
    /\ pc = "repair"
    /\ content' = SubSeq(content, 1, CompleteLen(SubSeq(seen, 1, Len(seen) - 1)))
    /\ result' = Loaded(SubSeq(seen, 1, CompleteLen(seen)))
    /\ pc' = "idle"
    /\ seen' = <<>>
    /\ UNCHANGED <<exists, line, created, acked, used, faults>>

(* ... cuts it after its last newline, and parses what is left. *)
LoadRepair ==
    /\ pc = "repair"
    /\ content' = IF CompleteLen(seen) < Len(seen) THEN SubSeq(content, 1, CompleteLen(seen))
                  ELSE content
    /\ result' = Loaded(SubSeq(seen, 1, CompleteLen(seen)))
    /\ pc' = "idle"
    /\ seen' = <<>>
    /\ UNCHANGED <<exists, line, created, acked, used, faults>>

(* The file cannot be read, opened again or cut. *)
LoadFails ==
    /\ pc = "repair"
    /\ faults < MaxFaults
    /\ faults' = faults + 1
    /\ result' = Error
    /\ pc' = "idle"
    /\ seen' = <<>>
    /\ UNCHANGED <<content, exists, line, created, acked, used>>

(* The process ends; the file stays. *)
Crash ==
    /\ faults < MaxFaults
    /\ faults' = faults + 1
    /\ pc' = "idle"
    /\ line' = NoEntry
    /\ seen' = <<>>
    /\ result' = Error
    /\ UNCHANGED <<content, exists, created, acked, used>>

SessionNext ==
    \/ Create \/ (\E e \in Entries : AppendEntry(e))
    \/ WriteAll \/ WritePart \/ WriteRest \/ Flush \/ WriteFails
    \/ LoadRead \/ LoadRepair \/ LoadFails
    \/ Crash

SessionSpec == SessionInit /\ [][SessionNext]_sessionVars

-----------------------------------------------------------------------------
(* build_context: the messages, or from the last compaction on a summary   *)
(* (the compaction itself) and the messages from the first kept one on,    *)
(* or, if that is not there, those after the compaction.                   *)
IsMessage(e) == FirstKept[e] = NoEntry

CompactionsIn(s) == {i \in DOMAIN s : ~IsMessage(s[i])}

(* entries[start..].filter_map(entry_message) *)
MessagesFrom(s, start) == Pick(s, {i \in DOMAIN s : i >= start /\ IsMessage(s[i])})

(* Where the context goes on behind the summary of the compaction at. *)
ContextStart(s, at) ==
    LET kept == {i \in DOMAIN s : s[i] = FirstKept[s[at]] /\ IsMessage(s[i])}
    IN IF kept = {} THEN at + 1 ELSE Lowest(kept)

ContextFrom(s, at) == <<s[at]>> \o MessagesFrom(s, ContextStart(s, at))

(* Variant: the first compaction counts. *)
BuildContextFirst(s) ==
    IF CompactionsIn(s) = {} THEN MessagesFrom(s, 1)
    ELSE ContextFrom(s, Lowest(CompactionsIn(s)))

BuildContext(s) ==
    IF CompactionsIn(s) = {} THEN MessagesFrom(s, 1)
    ELSE ContextFrom(s, Highest(CompactionsIn(s)))

-----------------------------------------------------------------------------
(* Types of all variables. *)
SessionTypeOK ==
    /\ content \in Seq(Piece)
    /\ exists \in BOOLEAN
    /\ pc \in {"idle", "write", "rest", "flush", "repair"}
    /\ line \in Line \cup {NoEntry}
    /\ created \in BOOLEAN
    /\ acked \in Seq(Entries)
    /\ used \subseteq Entries
    /\ seen \in Seq(Piece)
    /\ result \in Result
    /\ faults \in 0 .. MaxFaults

(* A line that begins in the middle of another one, because append does    *)
(* not look at how the file ends.                                          *)
Fused(i) == i > 1 /\ content[i].half = "first" /\ content[i - 1].half = "first"

(* "A crash can lose at most the single in-flight entry": every entry      *)
(* whose append returned is in the file, as a line that parses, once and   *)
(* in the order of the appends; but for one that was appended, without a   *)
(* load in between, right behind an entry that was written in part.        *)
AckedEntriesKept ==
    /\ \A j, k \in DOMAIN acked, p, q \in DOMAIN Stored :
          acked[j] = Stored[p] /\ acked[k] = Stored[q] => (j < k <=> p < q)
    /\ \A j \in DOMAIN acked :
          \/ \E p \in DOMAIN Stored : Stored[p] = acked[j]
          \/ \E i \in DOMAIN content : content[i] = First(acked[j]) /\ Fused(i)

(* The context built from what a load returns ends with the messages that  *)
(* were appended after the last compaction, and no summary but the last    *)
(* compaction's is in it.  A session that was created can be loaded,       *)
(* whatever crashed since, unless an entry was fused to another one: all   *)
(* complete lines parse, the header first.                                 *)
ContextIsCurrent ==
    LET s == result.entries
        ctx == BuildContext(s)
        last == Highest(CompactionsIn(s))
        recent == MessagesFrom(s, IF CompactionsIn(s) = {} THEN 1 ELSE last + 1)
    IN /\ created => Loaded(content).ok \/ \E i \in DOMAIN content : Fused(i)
       /\ \E i \in 0 .. Len(ctx) : recent = SubSeq(ctx, i + 1, Len(ctx))
       /\ \A i \in DOMAIN ctx : ~IsMessage(ctx[i]) => ctx[i] = s[last]

(* The file store does what the store in memory does: seen through the     *)
(* lines that parse it only ever gains entries, one at a time, at the end. *)
Log == INSTANCE SessionLog WITH entries <- Stored
ImplementsLog == Log!Spec
=============================================================================
