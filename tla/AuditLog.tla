------------------------------ MODULE AuditLog ------------------------------
(***************************************************************************)
(* The audit log (internal/store/audit.go): a file of one line per entry   *)
(* and the tail of it that is kept in memory for the UI.  Append ignores   *)
(* every error.  The buffered writer does not forget one: after a write    *)
(* that failed nothing reaches the file until the hub is started again.    *)
(* A line that was cut short has no newline, so the next line written runs *)
(* into it and neither can be read.                                        *)
(***************************************************************************)
EXTENDS Lists

CONSTANT RecentCap  \* recentCap

ASSUME CapAssumption == RecentCap \in Nat \ {0}

VARIABLES
    recent,    \* auditLog.recent, oldest first
    file,      \* the lines of audit.log
    ragged,    \* the last of them has no newline
    stuck,     \* bufio.Writer.err is set
    appended,  \* history: entries given to Append; each is known by its number
    opened,    \* history: how many of them before the hub was last started
    tears,     \* history: lines cut short because the hub went down
    faults,    \* history: writes that failed in a hub that went on
    longs      \* history: entries longer than loadTail's buffer

auditVars == <<recent, file, ragged, stuck, appended, opened, tears, faults, longs>>

Torn == 0  \* what a line that does not parse holds

\* A line is an entry or not readable; long ones exceed the buffer of loadTail.
Lines == [entry : Nat, long : BOOLEAN]
Parsable == [entry : Nat \ {Torn}, long : BOOLEAN]

AuditTypeOK ==
    /\ recent \in Seq(Nat) /\ Len(recent) <= RecentCap
    /\ file \in Seq(Lines)
    /\ ragged \in BOOLEAN /\ stuck \in BOOLEAN
    /\ appended \in Nat /\ opened \in 0..appended
    /\ tears \in Nat /\ faults \in Nat /\ longs \in Nat

AuditInit ==
    /\ recent = <<>> /\ file = <<>>
    /\ ragged = FALSE /\ stuck = FALSE
    /\ appended = 0 /\ opened = 0 /\ tears = 0 /\ faults = 0 /\ longs = 0

-----------------------------------------------------------------------------
\* The last n elements of a sequence.
LastOf(s, n) == IF Len(s) > n THEN SubSeq(s, Len(s) - n + 1, Len(s)) ELSE s

\* Bytes for line l reach the file: a line of its own, unless the one before
\* it has no newline.
Write(l) ==
    file' = IF ragged
            THEN [file EXCEPT ![Len(file)] =
                    [entry |-> Torn, long |-> @.long \/ l.long]]
            ELSE Append(file, l)

\* A write that stops before the newline: in the middle of the entry, or
\* just after it, when the line can still be read.
WritePart(e, long) ==
    /\ \/ \E b \in {FALSE, long} : Write([entry |-> Torn, long |-> b])
       \/ Write([entry |-> e, long |-> long])
    /\ ragged' = TRUE

\* Faulty: an entry stays in the buffer until the next one is appended.
WriteLineBuffered(e, long) ==
    /\ file' = IF e % 2 = 1 THEN file
               ELSE file \o <<[entry |-> e - 1, long |-> FALSE], [entry |-> e, long |-> long]>>
    /\ UNCHANGED <<ragged, stuck, faults>>

\* Write, WriteByte, Flush.
WriteLine(e, long) ==
    \/ stuck /\ UNCHANGED <<file, ragged, stuck, faults>>
    \/ ~stuck /\ Write([entry |-> e, long |-> long])
       /\ ragged' = FALSE /\ UNCHANGED <<stuck, faults>>
    \/ ~stuck /\ stuck' = TRUE /\ faults' = faults + 1
       /\ (WritePart(e, long) \/ UNCHANGED <<file, ragged>>)

\* Faulty: never drops an entry.
KeepRecentAll(s) == s

\* Faulty: keeps the oldest entries.
KeepRecentOldest(s) == SubSeq(s, 1, IF Len(s) > RecentCap THEN RecentCap ELSE Len(s))

KeepRecent(s) == LastOf(s, RecentCap)

\* Append, under the log's mutex.
AuditAppend ==
    /\ appended' = appended + 1
    /\ \E long \in BOOLEAN : /\ WriteLine(appended', long)
                             /\ longs' = IF long THEN longs + 1 ELSE longs
    /\ recent' = KeepRecent(Append(recent, appended'))
    /\ UNCHANGED <<opened, tears>>

-----------------------------------------------------------------------------
\* The lines the scanner of loadTail gets to see: it stops at a long one.
Scanned(f) ==
    LET stops == {i \in DOMAIN f : f[i].long}
    IN  IF stops = {} THEN f
        ELSE SubSeq(f, 1, (CHOOSE i \in stops : \A j \in stops : i <= j) - 1)

\* The entries among lines f that can be parsed.
Entries(f) ==
    LET ok == Only(f, Parsable)
    IN  [i \in DOMAIN ok |-> ok[i].entry]

loadTail(f) == LastOf(Entries(Scanned(f)), RecentCap)

\* The hub goes down between two calls of Append ...
DownBetween == UNCHANGED <<file, ragged, appended, tears, faults, longs>>

\* ... or while the bytes of an entry are being written.
DownInLine ==
    /\ ~stuck
    /\ appended' = appended + 1
    /\ \E long \in BOOLEAN : /\ WritePart(appended', long)
                             /\ longs' = IF long THEN longs + 1 ELSE longs
    /\ tears' = tears + 1
    /\ UNCHANGED faults

\* openAuditLog, after that.
AuditReopen ==
    /\ DownBetween \/ DownInLine
    /\ recent' = loadTail(file')
    /\ stuck' = FALSE
    /\ opened' = appended'

-----------------------------------------------------------------------------
(* Properties *)

Readable == Entries(file)
Shown == {recent[i] : i \in DOMAIN recent}

\* "Buffering audit records across a crash would lose exactly the events most
\* worth having": as long as no write fails in a running hub, a hub that goes
\* down in the middle of a line costs that entry and at most the next one,
\* and nothing else is ever missing from the file.
CrashLossBounded ==
    faults = 0 => appended - Len(Readable) <= 2 * tears

\* The UI's tail is in order, shows everything since the hub was started up to
\* its capacity, written or not, and leaves out an older entry that is on file
\* only when it is full of newer ones, or a line too long to load precedes it.
TailIsNewest ==
    /\ \A i, j \in DOMAIN recent : i < j => recent[i] < recent[j]
    /\ \A e \in opened + 1 .. appended : e + RecentCap > appended => e \in Shown
    /\ LET es == Entries(Scanned(file)) IN
       \A i \in DOMAIN es :
          es[i] \in Shown \/ (Len(recent) = RecentCap /\ \A e \in Shown : es[i] < e)

-----------------------------------------------------------------------------
(* Why they hold: the parts of an inductive invariant *)

\* Entries are on file in the order of their numbers, and only entries that
\* were appended; a hub whose writer is stuck has had a write fail.
FileInOrder ==
    /\ \A i \in DOMAIN file : file[i].entry <= appended
    /\ \A i, j \in DOMAIN file :
          i < j /\ file[i].entry # Torn /\ file[j].entry # Torn => file[i].entry < file[j].entry
    /\ ragged => file # <<>>
    /\ stuck => faults > 0

\* What the next line may yet cost because the last one has no newline: itself,
\* and the last one if that can still be read.
Risk == IF ~ragged THEN 0 ELSE IF file[Len(file)].entry = Torn THEN 1 ELSE 2

\* With that set aside, a torn line has cost no more than two.
LossBudget == faults = 0 => appended - Len(Readable) + Risk <= 2 * tears

\* The tail holds entries that were appended.
RecentKnown == \A i \in DOMAIN recent : recent[i] <= appended

=============================================================================
