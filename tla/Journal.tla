------------------------------ MODULE Journal -------------------------------
(***************************************************************************)
(* The records of the positions of an unattended run, and the journal that *)
(* a desk request assembles from them (vps/journal.py): the open positions *)
(* of the row in runtime.db, then the closed trades of audit.db            *)
(* (data/persistence/audit.py).                                            *)
(*                                                                         *)
(* The service moves a trade from one database to the other in two writes: *)
(* record_trade in the cycle that closes it, save after the cycle.  Either *)
(* may fail and the process may be killed between them; a request reads    *)
(* the two databases one after the other, only the newest rows of the      *)
(* second, and takes a database that cannot be read for an empty one.      *)
(***************************************************************************)
EXTENDS Integers, FiniteSets, Sequences

CONSTANTS
    Trade,   \* positions
    Limit    \* max(1, limit): closed trades a request asks for, 100 by default

ASSUME JournalAssumption == Limit \in Nat \ {0}

VARIABLES
    run,      \* where the process stands
    book,     \* state of each position in memory
    row,      \* runtime.db: the stored open positions
    audit,    \* audit.db: the rows of the table trades, oldest first
    reader,   \* a journal request
    past      \* history: trades opened, recorded, and lost

bookVars == <<run, book, row, audit, reader, past>>

OpenTrades == {t \in Trade : book[t] = "open"}
Fresh      == [t \in Trade |-> "new"]
Rows       == {audit[i] : i \in DOMAIN audit}
NoReader   == [pc |-> "idle", shown |-> {}, due |-> {}, older |-> {}, failed |-> FALSE]

BookInit ==
    /\ run = "off" /\ book = Fresh /\ row = {} /\ audit = << >>
    /\ reader = NoReader
    /\ past = [opened |-> {}, seen |-> {}, gone |-> {}]

----------------------------------------------------------------------------
(* The service *)

\* restore: a position that cannot be rebuilt is left out, under BROKER_STATE.
RestoreBook(kept) ==
    /\ run = "off"
    /\ book' = [t \in Trade |-> IF t \in kept THEN "open" ELSE "new"]
    /\ past' = [past EXCEPT !.gone = @ \cup (row \ kept)]
    /\ run' = "cycle"
    /\ UNCHANGED <<row, audit, reader>>

\* _execute: a new position has a new identifier.
OpenTrade(t) ==
    /\ run = "cycle" /\ t \notin past.opened
    /\ book' = [book EXCEPT ![t] = "open"]
    /\ past' = [past EXCEPT !.opened = @ \cup {t}]
    /\ UNCHANGED <<run, row, audit, reader>>

\* A table without the UNIQUE constraint, or a plain INSERT.
InsertRow(t) == Append(audit, t)

\* A table without its i-th row.
Without(rows, i) == SubSeq(rows, 1, i - 1) \o SubSeq(rows, i + 1, Len(rows))

\* INSERT OR REPLACE: the row of a position that is closed again, after a crash
\* restored it, is deleted, and the new one gets the newest identifier.
RecordTrade(t) ==
    LET others == IF t \in Rows
                  THEN Without(audit, CHOOSE i \in DOMAIN audit : audit[i] = t)
                  ELSE audit
    IN  Append(others, t)

\* _close_position ends with record_trade.
CloseTrade(t) ==
    /\ run = "cycle" /\ book[t] = "open"
    /\ book' = [book EXCEPT ![t] = "closed"]
    /\ audit' = RecordTrade(t)
    /\ past' = [past EXCEPT !.seen = @ \cup {t}]
    /\ UNCHANGED <<run, row, reader>>

\* The row cannot be written: the position is closed in memory, the cycle fails.
RecordRaises(t) ==
    /\ run = "cycle" /\ book[t] = "open"
    /\ book' = [book EXCEPT ![t] = "closed"]
    /\ past' = [past EXCEPT !.gone = @ \cup {t}]
    /\ UNCHANGED <<run, row, audit, reader>>

\* state_store.save at the end of a cycle, of a flatten or of the run; a save that
\* raises is swallowed.
SaveBook ==
    /\ run = "cycle"
    /\ row' \in {OpenTrades, row}
    /\ past' = [past EXCEPT !.seen = @ \cup row']
    /\ UNCHANGED <<run, book, audit, reader>>

\* The process ends, killed or not.
EndOfRun ==
    /\ run = "cycle"
    /\ run' = "off" /\ book' = Fresh
    /\ UNCHANGED <<row, audit, reader, past>>

----------------------------------------------------------------------------
(* The journal *)

\* What a journal owes its reader: the trades recorded once, and not lost by a write
\* that raised or by a restore that could not rebuild them.
Owed == past.seen \ past.gone

\* ORDER BY id DESC LIMIT: the newest rows of the table.
Newest == {audit[i] : i \in {j \in DOMAIN audit : j > Len(audit) - Limit}}

\* The trades that Limit other trades were recorded after.
OverLimit == {t \in Rows : \E i \in DOMAIN audit :
             audit[i] = t /\ Cardinality({j \in DOMAIN audit : j > i}) >= Limit}

\* The closed trades before the open ones.
ClosedThenOpen == <<Newest, row>>

\* build_journal: _load_open_positions, then _load_closed_trades.
Databases == <<row, Newest>>

\* A database that cannot be opened, queried or decoded is an empty list, and the reply
\* does not say so; the history does.
JournalOpen(readable) ==
    /\ reader.pc = "idle"
    /\ reader' = [pc |-> "second", shown |-> IF readable THEN Databases[1] ELSE {},
                  due |-> Owed, older |-> {}, failed |-> ~readable]
    /\ UNCHANGED <<run, book, row, audit, past>>

JournalClosed(readable) ==
    /\ reader.pc = "second"
    /\ reader' = [reader EXCEPT !.pc = "done",
                                !.shown = @ \cup IF readable THEN Databases[2] ELSE {},
                                !.older = OverLimit, !.failed = @ \/ ~readable]
    /\ UNCHANGED <<run, book, row, audit, past>>

JournalReply ==
    /\ reader.pc = "done"
    /\ reader' = NoReader
    /\ UNCHANGED <<run, book, row, audit, past>>

BookNext ==
    \/ \E kept \in SUBSET row : RestoreBook(kept)
    \/ \E t \in Trade : OpenTrade(t) \/ CloseTrade(t) \/ RecordRaises(t)
    \/ SaveBook \/ EndOfRun
    \/ \E readable \in BOOLEAN : JournalOpen(readable) \/ JournalClosed(readable)
    \/ JournalReply

BookSpec == BookInit /\ [][BookNext]_bookVars

----------------------------------------------------------------------------
(* Properties *)

\* A journal whose two databases could be read shows every trade that was recorded
\* before the request, open or closed ("the journal matches what the VPS is actually
\* managing", journal.py:5), and leaves out only trades with Limit newer rows in the
\* audit: although the databases are read one after the other while the service moves
\* trades from one to the other, dies between the two writes and starts again.
JournalLosesNothing ==
    reader.pc = "done" /\ ~reader.failed => reader.due \ reader.shown \subseteq reader.older

\* A trade is one row of the audit however often a crash makes the service close it
\* again, and a trade still open in memory after it was audited is one that a crash
\* between the two writes brought back.
AuditedOnce ==
    /\ Cardinality(Rows) = Len(audit)
    /\ \A t \in Rows : book[t] = "open" => t \in row

=============================================================================
